------------------------------- MODULE Transfer --------------------------------
(* The transfer to a joining server, attempt by attempt: the frontend retries  *)
(* sendValuesToServer (FrontendRPCImpl.addServer), which retries the put of    *)
(* every entry (ServerRPCImpl) and starts over with the first entry each time. *)
(* All of it happens under serversLock.  Cluster describes the same transfer   *)
(* without attempts and without time; here the two are related.                *)
(*                                                                             *)
(* The stubs have no timeouts, so an attempt fails only when the process it    *)
(* calls does not answer: its port is not open yet, or the JVM has died.       *)
EXTENDS Integers

CONSTANT MaxEntries   \* bound: entries the sender may have

ASSUME EntriesAssumption == MaxEntries \in Nat

VARIABLES
  size,            \* number of entries of the sender
  sender, joiner,  \* "starting", "up" or "crashed"
  at,              \* "ask" (the frontend is about to call the sender), "send"
                   \* (the sender is in its loop), "done", "thrown"
  asks,            \* failed attempts of the frontend's Retry.run
  puts,            \* failed attempts of the sender's current Retry.run
  entry,           \* the entry the loop is at
  received,        \* entries the joiner has
  slept            \* seconds slept since the transfer began

jvmVars == <<sender, joiner>>
vars == <<size, jvmVars, at, asks, puts, entry, received, slept>>

Outer == INSTANCE Retry WITH failed <- asks
Inner == INSTANCE Retry WITH failed <- puts

-----------------------------------------------------------------------------
(* The frontend *)

Attempt ==
  /\ at = "ask" /\ ~Outer!GivesUp /\ sender = "up"
  /\ at' = "send" /\ entry' = 1 /\ Inner!Again
  /\ UNCHANGED <<size, jvmVars, asks, received, slept>>

\* The sender is not there, or throws because one of its puts gave up.
\* What is left of puts and entry goes with the next attempt.
AttemptFails ==
  /\ \/ at = "ask" /\ ~Outer!GivesUp /\ sender = "crashed"
     \/ at = "send" /\ (sender = "crashed" \/ Inner!GivesUp)
  /\ at' = "ask" /\ Outer!Fail
  /\ UNCHANGED <<size, jvmVars, puts, entry, received>>

Throw ==
  /\ at = "ask" /\ Outer!GivesUp
  /\ at' = "thrown"
  /\ UNCHANGED <<size, jvmVars, asks, puts, entry, received, slept>>

-----------------------------------------------------------------------------
(* The sender *)

\* Mutant of Sending: the loop over an entry has no last attempt.
SendingEndlessly == at = "send" /\ sender = "up"

Sending == at = "send" /\ sender = "up" /\ ~Inner!GivesUp

\* Mutant of Put: a put that needed retries is taken for sent and not made.
PutSkips ==
  /\ Sending /\ entry <= size /\ joiner = "up"
  /\ received' = IF puts = 0 THEN received \cup {entry} ELSE received
  /\ entry' = entry + 1 /\ Inner!Again
  /\ UNCHANGED <<size, jvmVars, at, asks, slept>>

Put ==
  /\ Sending /\ entry <= size /\ joiner = "up"
  /\ received' = received \cup {entry}
  /\ entry' = entry + 1 /\ Inner!Again
  /\ UNCHANGED <<size, jvmVars, at, asks, slept>>

PutFails ==
  /\ Sending /\ entry <= size /\ joiner # "up"
  /\ Inner!Fail
  /\ UNCHANGED <<size, jvmVars, at, asks, entry, received>>

Sent ==
  /\ Sending /\ entry > size
  /\ at' = "done"
  /\ UNCHANGED <<size, jvmVars, asks, puts, entry, received, slept>>

-----------------------------------------------------------------------------
(* The JVMs *)

JoinerStarts ==
  /\ joiner = "starting" /\ joiner' = "up"
  /\ UNCHANGED <<size, sender, at, asks, puts, entry, received, slept>>

JoinerCrashes ==
  /\ joiner # "crashed" /\ joiner' = "crashed"
  /\ UNCHANGED <<size, sender, at, asks, puts, entry, received, slept>>

SenderCrashes ==
  /\ sender # "crashed" /\ sender' = "crashed"
  /\ UNCHANGED <<size, joiner, at, asks, puts, entry, received, slept>>

-----------------------------------------------------------------------------

Init ==
  /\ size \in 0 .. MaxEntries
  /\ sender \in {"up", "crashed"} /\ joiner \in {"starting", "up", "crashed"}
  /\ at = "ask" /\ asks = 0 /\ puts = 0 /\ entry = 1
  /\ received = {} /\ slept = 0

Call == Attempt \/ AttemptFails \/ Throw \/ Put \/ PutFails \/ Sent

Next == Call \/ JoinerStarts \/ JoinerCrashes \/ SenderCrashes

Spec == Init /\ [][Next]_vars

\* The thread of addServer and the one of the sender keep being scheduled.
FairSpec == Spec /\ WF_vars(Call)

-----------------------------------------------------------------------------
(* The same transfer in Cluster: thread 0 is in addServer, server 0 sends to   *)
(* server 1.  The outcome is settled when the last attempt fails; the sleeps   *)
(* that follow it only delay the exception.                                    *)

Settled ==
  \/ at = "thrown" \/ Outer!GivesUp
  \/ at = "send" /\ asks = Outer!RETRIES /\ Inner!GivesUp

NoArgs == [key |-> "none", val |-> "absent", srv |-> "none", idx |-> 0,
           from |-> "none", want |-> {},
           shown |-> [k \in 1 .. MaxEntries |-> "none"]]
Joining == [NoArgs EXCEPT !.srv = 1, !.from = 0]

C == INSTANCE Cluster WITH
  ServerIds <- {0, 1}, Clients <- {}, Admins <- {"admin"},
  Keys <- 1 .. MaxEntries, Values <- {"value"},
  Absent <- "absent", None <- "none",
  SlowStart <- TRUE, ReuseIds <- FALSE, MaxCalls <- 0, MaxCrashes <- 2,
  life <- [s \in {0, 1} |-> IF s = 0 THEN sender ELSE joiner],
  isLocked <- [s \in {0, 1} |-> s = 0],
  data <- [s \in {0, 1} |-> [k \in 1 .. MaxEntries |->
             IF k \in received \/ (s = 0 /\ k <= size)
             THEN "value" ELSE "absent"]],
  pc <- [t \in {"admin"} |-> IF Settled THEN "idle"
                             ELSE IF at = "done" THEN "add_unlock" ELSE "send"],
  arg <- [t \in {"admin"} |-> IF Settled THEN NoArgs ELSE Joining],
  reply <- [t \in {"admin"} |-> IF Settled THEN "fault" ELSE "none"],
  unsent <- IF Settled THEN {} ELSE (1 .. size) \ received,
  servers <- {0},
  monitor <- IF Settled THEN "none" ELSE "admin",
  todo <- IF at = "done" THEN {0} ELSE {},
  committed <- [k \in 1 .. MaxEntries |->
                  IF k <= size THEN "value" ELSE "absent"],
  suspect <- "none", calls <- 0,
  crashes <- (IF sender = "crashed" THEN 1 ELSE 0)
               + (IF joiner = "crashed" THEN 1 ELSE 0)

-----------------------------------------------------------------------------
(* Properties *)

TypeOK ==
  /\ size \in 0 .. MaxEntries
  /\ sender \in {"up", "crashed"} /\ joiner \in {"starting", "up", "crashed"}
  /\ at \in {"ask", "send", "done", "thrown"}
  /\ asks \in 0 .. Outer!RETRIES + 1 /\ puts \in 0 .. Inner!RETRIES + 1
  /\ entry \in 1 .. size + 1
  /\ received \subseteq 1 .. size
  /\ slept \in Nat

\* The sleeps of the nested retries, all of them under serversLock, sum up to at
\* most 33 seconds, however many entries there are: four rounds of four attempts,
\* and three more attempts if the joiner opens its port in the last round and
\* dies.  The calls themselves have no timeout and are not in the sum.
LockHeldBriefly == slept <= 33

\* A joiner whose JVM is slow to start is waited for: as long as the sender
\* lives, addServer gives up only after half a minute.
GivesUpLate == at = "thrown" /\ sender = "up" => slept >= 30

\* Success is reported only for a joiner that has every entry, although a loop
\* that failed starts over and the puts of an earlier round may have arrived.
SuccessIsComplete == at = "done" => received = 1 .. size

\* The one-step transfer of Cluster is what the nested attempts amount to:
\* entries arrive once, in steps of sender and joiner both up, and the exception
\* comes when the sender, or the joiner with entries missing, is down.
IsTransferOfCluster ==
  [][C!ThreadStep("admin") \/ C!JvmStep]_<<C!allVars>>

\* The transfer ends, and with it the time every other writer waits.
TransferEnds == <>(at \in {"done", "thrown"})
==============================================================================
