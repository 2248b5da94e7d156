---------------------------- MODULE TransferProofs -----------------------------
(* Proofs about Transfer, for any number of entries: the bounds on the time    *)
(* the transfer takes, that a reported success is complete, and that Cluster's *)
(* transfer is what the attempts amount to.                                    *)
EXTENDS Transfer, TLAPS

\* Seconds that the failed rounds and the failures of the round in progress
\* have slept.
Rounds == 6 * asks + Outer!Pause(asks)
Round == IF at = "send" THEN Inner!Pause(puts) ELSE 0

\* Every second slept is accounted for, but for the at most three seconds of
\* attempts that came before a put that succeeded.
SleptAtMost ==
  /\ slept <= Rounds + Round + 3
  /\ received = {} /\ joiner # "crashed" => slept <= Rounds + Round
  /\ joiner = "starting" => received = {}
  /\ joiner = "up" /\ received # {} /\ at = "send" => puts = 0
  /\ at = "send" /\ entry > size => puts = 0

SleptAtLeast == sender = "up" => slept >= Rounds + Round

\* The loop has put every entry before the one it is at.
SentInOrder ==
  /\ at = "send" => 1 .. entry - 1 \subseteq received
  /\ at = "done" => received = 1 .. size

\* A round that is not over has not put the last entry, nor had a round before.
LastIsMissing ==
  sender = "up" /\ size > 0 /\ (at = "ask" \/ (at = "send" /\ entry <= size))
    => size \notin received

\* Calls are over when their attempts are.
Ends ==
  /\ at = "thrown" => asks = 4
  /\ at \in {"send", "done"} => asks <= 3

IInv ==
  TypeOK /\ Ends /\ SleptAtMost /\ SleptAtLeast /\ SentInOrder /\ LastIsMissing

\* The pauses of Retry.run, written out.
LEMMA Pauses ==
  ASSUME NEW n \in 0 .. 4
  PROVE  /\ Outer!Pause(n) \in 0 .. 6 /\ Inner!Pause(n) = Outer!Pause(n)
         /\ n = 0 => Inner!Pause(n) = 0
         /\ n <= 3 => /\ Inner!Pause(n) <= 3
                      /\ Inner!Pause(n + 1) = Inner!Pause(n) + n
                      /\ Outer!Pause(n + 1) = Outer!Pause(n) + n
         /\ n = 4 => Inner!Pause(n) = 6
<1>1. n = 0 \/ n = 1 \/ n = 2 \/ n = 3 \/ n = 4
  OBVIOUS
<1> QED
  BY <1>1 DEF Outer!Pause, Inner!Pause

\* The inductive invariant holds initially.
LEMMA InitIInv == Init => IInv
<1> SUFFICES ASSUME Init PROVE IInv
  OBVIOUS
<1>1. Inner!Pause(0) = 0 /\ Outer!Pause(0) = 0
  BY Pauses
<1> QED
  BY <1>1, EntriesAssumption
  DEF Init, IInv, TypeOK, Ends, SleptAtMost, SleptAtLeast, SentInOrder,
      LastIsMissing, Rounds, Round, Outer!RETRIES, Inner!RETRIES

\* Every step keeps the inductive invariant.
LEMMA NextIInv == IInv /\ [Next]_vars => IInv'
<1> SUFFICES ASSUME IInv, [Next]_vars PROVE IInv'
  OBVIOUS
<1> USE EntriesAssumption DEF IInv, TypeOK, Ends, SleptAtMost, SleptAtLeast,
      SentInOrder, LastIsMissing, Outer!RETRIES, Inner!RETRIES, jvmVars,
      Outer!GivesUp, Inner!GivesUp, Outer!Fail, Inner!Fail, Outer!Again,
      Inner!Again
<1>0. asks \in 0 .. 4 /\ puts \in 0 .. 4
  OBVIOUS
<1>a. /\ Outer!Pause(asks) \in 0 .. 6 /\ Inner!Pause(puts) \in 0 .. 6
      /\ asks <= 3 => Outer!Pause(asks + 1) = Outer!Pause(asks) + asks
      /\ puts <= 3 => /\ Inner!Pause(puts) <= 3
                      /\ Inner!Pause(puts + 1) = Inner!Pause(puts) + puts
      /\ puts = 0 => Inner!Pause(puts) = 0
      /\ puts = 4 => Inner!Pause(puts) = 6
      /\ Inner!Pause(0) = 0
  BY <1>0, Pauses
<1>b. /\ Rounds = 6 * asks + Outer!Pause(asks) /\ Rounds \in Nat
      /\ Round \in 0 .. 6
  BY <1>0, <1>a DEF Rounds, Round
<1>1. CASE Attempt
  <2>1. /\ at = "ask" /\ at' = "send" /\ puts' = 0 /\ entry' = 1 /\ asks <= 3
        /\ UNCHANGED <<size, sender, joiner, asks, received, slept>>
    BY <1>1 DEF Attempt
  <2>2. Rounds' = Rounds /\ Round' = Round
    BY <2>1, <1>a DEF Rounds, Round
  <2>3. TypeOK' /\ Ends' /\ SentInOrder' /\ LastIsMissing'
    BY <2>1
  <2>4. SleptAtMost' /\ SleptAtLeast'
    BY <2>1, <2>2, <1>b
  <2> HIDE DEF TypeOK, Ends, SleptAtMost, SleptAtLeast, SentInOrder,
                LastIsMissing
  <2> QED
    BY <2>3, <2>4
<1>2. CASE AttemptFails
  <2>1. /\ at' = "ask" /\ asks <= 3 /\ asks' = asks + 1 /\ slept' = slept + asks
        /\ (at = "send" /\ puts = 4) \/ sender = "crashed"
        /\ UNCHANGED <<size, sender, joiner, puts, entry, received>>
    BY <1>2, <1>0 DEF AttemptFails
  <2>2. Rounds' = Rounds + 6 + asks /\ Round' = 0
    BY <2>1, <1>0, <1>a DEF Rounds, Round
  <2>3. TypeOK'
    BY <2>1, <1>0
  <2>4. Ends' /\ SentInOrder' /\ LastIsMissing'
    BY <2>1
  <2>5. SleptAtMost'
    <3>1. slept \in Nat /\ slept' = slept + asks /\ asks \in 0 .. 4
      BY <2>1
    <3>2. ASSUME NEW n \in Nat, slept <= Rounds + Round + n
          PROVE  slept' <= Rounds' + Round' + n
      <4> HIDE DEF IInv, TypeOK, SleptAtMost, SleptAtLeast
      <4> QED
        BY <3>1, <3>2, <2>2, <1>b
    <3>3. slept' <= Rounds' + Round' + 3
      BY <3>2
    <3>4. received = {} /\ joiner # "crashed" => slept' <= Rounds' + Round'
      BY <3>2, <3>1, <2>2, <1>b
    <3> QED
      BY <2>1, <3>3, <3>4
  <2>6. SleptAtLeast'
    BY <2>1, <2>2, <1>0, <1>a, <1>b DEF Round
  <2> HIDE DEF TypeOK, Ends, SleptAtMost, SleptAtLeast, SentInOrder,
                LastIsMissing
  <2> QED
    BY <2>3, <2>4, <2>5, <2>6
<1>3. CASE Throw
  BY <1>3, <1>0, <1>a DEF Rounds, Round, Throw
<1>4. CASE Put
  BY <1>4, <1>0, <1>a DEF Rounds, Round, Put, Sending
<1>5. CASE PutFails
  <2>1. /\ at = "send" /\ joiner # "up" /\ puts <= 3 /\ entry <= size
        /\ puts' = puts + 1 /\ slept' = slept + puts
        /\ UNCHANGED <<size, sender, joiner, at, asks, entry, received>>
    BY <1>5 DEF PutFails, Sending
  <2>2. Rounds' = Rounds /\ Round' = Round + puts
    BY <2>1, <1>a DEF Rounds, Round
  <2>3. TypeOK'
    BY <2>1, <1>0
  <2>4. Ends' /\ SentInOrder' /\ LastIsMissing'
    BY <2>1
  <2>5. SleptAtMost'
    BY <2>1, <2>2, <1>b, <1>a DEF Round
  <2>6. SleptAtLeast'
    BY <2>1, <2>2, <1>b
  <2> HIDE DEF TypeOK, Ends, SleptAtMost, SleptAtLeast, SentInOrder,
                LastIsMissing
  <2> QED
    BY <2>3, <2>4, <2>5, <2>6
<1>6. CASE Sent
  <2>1. /\ at = "send" /\ at' = "done" /\ entry = size + 1 /\ asks <= 3
        /\ UNCHANGED <<size, sender, joiner, asks, puts, entry, received, slept>>
    BY <1>6 DEF Sent, Sending
  <2>2. Rounds' = Rounds /\ Round' = 0
    BY <2>1, <1>a DEF Rounds, Round
  <2>3. TypeOK' /\ Ends' /\ LastIsMissing'
    BY <2>1
  <2>4. SentInOrder'
    <3>1. 1 .. entry - 1 = 1 .. size
      BY <2>1
    <3> QED
      BY <2>1, <3>1
  <2>5. SleptAtMost'
    BY <2>1, <2>2, <1>b, <1>a DEF Round
  <2>6. SleptAtLeast'
    BY <2>1, <2>2, <1>b
  <2> HIDE DEF TypeOK, Ends, SleptAtMost, SleptAtLeast, SentInOrder,
                LastIsMissing
  <2> QED
    BY <2>3, <2>4, <2>5, <2>6
<1>7. CASE JoinerStarts
  BY <1>7, <1>0, <1>a DEF Rounds, Round, JoinerStarts
<1>8. CASE JoinerCrashes
  BY <1>8, <1>0, <1>a DEF Rounds, Round, JoinerCrashes
<1>9. CASE SenderCrashes
  BY <1>9, <1>0, <1>a DEF Rounds, Round, SenderCrashes
<1>10. CASE UNCHANGED vars
  BY <1>10 DEF vars, Rounds, Round
<1> QED
  BY <1>1, <1>2, <1>3, <1>4, <1>5, <1>6, <1>7, <1>8, <1>9, <1>10
  DEF Next, Call

\* IInv holds in every state.
LEMMA Invariance == Spec => []IInv
  BY InitIInv, NextIInv, PTL DEF Spec

\* Types: no call makes more than four attempts, no loop runs past its entries.
THEOREM TypeCorrect == Spec => []TypeOK
<1>1. IInv => TypeOK
  BY DEF IInv
<1> QED
  BY <1>1, Invariance, PTL

\* serversLock is held at most 33 seconds for a transfer of any size: the nested
\* attempts do not multiply with the number of entries.
THEOREM LockTimeIsBounded == Spec => []LockHeldBriefly
<1>1. IInv => LockHeldBriefly
  <2> SUFFICES ASSUME IInv PROVE LockHeldBriefly
    OBVIOUS
  <2>1. asks \in 0 .. 4 /\ puts \in 0 .. 4
    BY DEF IInv, TypeOK, Outer!RETRIES, Inner!RETRIES
  <2>2. /\ asks = 0 \/ asks = 1 \/ asks = 2 \/ asks = 3 \/ asks = 4
        /\ Round \in 0 .. 6
    BY <2>1, Pauses DEF Round
  <2>3. Rounds <= 30 /\ (asks <= 3 => Rounds <= 21) /\ Rounds \in Nat
    BY <2>2 DEF Rounds, Outer!Pause
  <2>4. asks = 4 => Round = 0
    BY DEF IInv, Ends, Round
  <2> QED
    BY <2>1, <2>2, <2>3, <2>4 DEF IInv, TypeOK, SleptAtMost, LockHeldBriefly
<1> QED
  BY <1>1, Invariance, PTL

\* As long as the sender lives, a slow joiner is given half a minute.
THEOREM Patience == Spec => []GivesUpLate
<1>1. IInv => GivesUpLate
  <2> SUFFICES ASSUME IInv, at = "thrown", sender = "up" PROVE slept >= 30
    BY DEF GivesUpLate
  <2>1. Rounds = 30 /\ Round = 0
    BY DEF IInv, Ends, Rounds, Round, Outer!Pause
  <2> QED
    BY <2>1 DEF IInv, TypeOK, SleptAtLeast
<1> QED
  BY <1>1, Invariance, PTL

\* A transfer that reports success has delivered every entry.
THEOREM Completeness == Spec => []SuccessIsComplete
<1>1. IInv => SuccessIsComplete
  BY DEF IInv, SentInOrder, SuccessIsComplete
<1> QED
  BY <1>1, Invariance, PTL

-----------------------------------------------------------------------------
(* Cluster's one-step transfer                                               *)

\* The arguments of the addServer call.
LEMMA JoiningFields == Joining.from = 0 /\ Joining.srv = 1
BY DEF Joining, NoArgs

\* A step that changes neither what is settled nor what arrived is no step of
\* Cluster.
LEMMA Stutters ==
  ASSUME UNCHANGED <<size, sender, joiner, received>>, Settled' = Settled,
         ~Settled => (at = "done" <=> at' = "done"), at = "done" <=> at' = "done"
  PROVE  UNCHANGED C!allVars
BY DEF Joining, NoArgs, C!allVars, C!vars, C!serverVars, C!requestVars, C!frontendVars, C!driverVars

\* The step in which the last attempt fails is Cluster's SendThrows.
LEMMA SettlesByThrowing ==
  ASSUME UNCHANGED <<size, sender, joiner, received>>, ~Settled, Settled',
         at # "done", at' # "done",
         sender # "up" \/ (joiner # "up" /\ (1 .. size) \ received # {})
  PROVE  C!ThreadStep("admin")
<1>1. C!Return("admin", "fault")
  <2>1. C!NoArgs = NoArgs
    BY DEF C!NoArgs, NoArgs
  <2>2. NoArgs' = NoArgs
    BY DEF NoArgs
  <2> QED
    BY <2>1, <2>2 DEF C!Return
<1>2. C!Throw("admin")
  BY <1>1 DEF C!Throw, C!Leave
<1>3. ~C!Up(0) \/ (~C!Up(1) /\ (1 .. size) \ received # {})
  BY DEF C!Up
<1>4. C!SendThrows("admin")
  BY <1>2, <1>3, JoiningFields DEF C!SendThrows
<1> QED
  BY <1>4 DEF C!ThreadStep, C!AddStep, C!driverVars

\* An entry that the joiner did not have arrives.
LEMMA Arrives ==
  ASSUME ~Settled, ~Settled', at = "send", at' = "send",
         sender = "up", joiner = "up", NEW k \in (1 .. size) \ received,
         size \in 0 .. MaxEntries,
         received' = received \cup {k}, UNCHANGED <<size, sender, joiner>>
  PROVE  C!ThreadStep("admin")
<1>1. k \in 1 .. MaxEntries
  BY EntriesAssumption
<1>2. C!ServerPut(1, k, "value")
  <2> DEFINE Has(s) == [j \in 1 .. MaxEntries |->
                          IF j \in received \/ (s = 0 /\ j <= size)
                          THEN "value" ELSE "absent"]
  <2>1. k <= size /\ size' = size
    OBVIOUS
  <2>2. Has(0)' = Has(0)
    BY <2>1
  <2>3. Has(1)' = [Has(1) EXCEPT ![k] = "value"]
    BY <2>1
  <2> HIDE DEF Has
  <2>4. [s \in {0, 1} |-> Has(s)]'
          = [[s \in {0, 1} |-> Has(s)] EXCEPT ![1] = [@ EXCEPT ![k] = "value"]]
    BY <2>2, <2>3
  <2> QED
    BY <2>4 DEF C!ServerPut, Has
<1>3. Joining' = Joining
  BY DEF Joining, NoArgs
<1>4. UNCHANGED C!requestVars /\ UNCHANGED C!frontendVars
  BY <1>3 DEF C!requestVars, C!frontendVars
<1>5. C!SendOne("admin", k)
  <2>1. C!Up(0) /\ C!Up(1)
    BY DEF C!Up
  <2> DEFINE A == [t \in {"admin"} |->
                     IF Settled THEN NoArgs ELSE Joining]["admin"]
             D == [s \in {0, 1} |-> [j \in 1 .. MaxEntries |->
                     IF j \in received \/ (s = 0 /\ j <= size)
                     THEN "value" ELSE "absent"]]
  <2>2. A.from = 0 /\ A.srv = 1
    BY JoiningFields
  <2>3. D[0][k] = "value"
    BY <1>1
  <2>4. (IF Settled THEN {} ELSE (1 .. size) \ received)'
          = (IF Settled THEN {} ELSE (1 .. size) \ received) \ {k}
    OBVIOUS
  <2>5. C!Up(A.from) /\ C!Up(A.srv)
    BY <2>1, <2>2
  <2>6. D' = [D EXCEPT ![A.srv][k] = D[A.from][k]]
    <3>1. D' = [D EXCEPT ![1][k] = "value"]
      BY <1>2 DEF C!ServerPut
    <3> HIDE DEF A, D
    <3> QED
      BY <3>1, <2>2, <2>3
  <2>7. [t \in {"admin"} |-> IF Settled THEN "idle"
                             ELSE IF at = "done" THEN "add_unlock" ELSE "send"]
          ["admin"] = "send"
    OBVIOUS
  <2>8. UNCHANGED [s \in {0, 1} |-> s = 0]
    OBVIOUS
  <2> QED
    BY <1>4, <2>4, <2>5, <2>6, <2>7, <2>8 DEF C!SendOne, C!ServerPut
<1> QED
  BY <1>1, <1>4, <1>5 DEF C!ThreadStep, C!AddStep, C!driverVars

\* The loop has sent every entry.
LEMMA Completes ==
  ASSUME ~Settled, ~Settled', at = "send", at' = "done", sender = "up",
         received = 1 .. size, UNCHANGED <<size, sender, joiner, received>>
  PROVE  C!ThreadStep("admin")
<1>1. Joining' = Joining
  BY DEF Joining, NoArgs
<1>2. C!AddSent("admin")
  BY <1>1, JoiningFields
  DEF C!AddSent, C!NextLoop, C!Goto, C!Up, C!serverVars
<1> QED
  BY <1>2 DEF C!ThreadStep, C!AddStep, C!driverVars

\* Only the life of the joiner changes.
LEMMA Lives ==
  ASSUME sender' = sender
  PROVE  [s \in {0, 1} |-> IF s = 0 THEN sender ELSE joiner]'
           = [[s \in {0, 1} |-> IF s = 0 THEN sender ELSE joiner]
                EXCEPT ![1] = joiner']
<1> DEFINE L(s) == IF s = 0 THEN sender ELSE joiner
<1>1. L(0)' = L(0) /\ L(1)' = joiner'
  OBVIOUS
<1> HIDE DEF L
<1>2. [s \in {0, 1} |-> L(s)]' = [[s \in {0, 1} |-> L(s)] EXCEPT ![1] = joiner']
  BY <1>1
<1> QED
  BY <1>2 DEF L

\* A JVM starts or dies.
LEMMA JvmSteps ==
  ASSUME JoinerStarts \/ JoinerCrashes \/ SenderCrashes,
         sender \in {"up", "crashed"}, joiner \in {"starting", "up", "crashed"}
  PROVE  C!JvmStep
<1>1. Settled' = Settled /\ Joining' = Joining
  BY DEF Settled, Joining, NoArgs, JoinerStarts, JoinerCrashes, SenderCrashes,
         Outer!GivesUp, Inner!GivesUp
<1>2. UNCHANGED C!vars
  BY <1>1 DEF JoinerStarts, JoinerCrashes, SenderCrashes, C!vars, C!serverVars,
              C!requestVars, C!frontendVars, NoArgs
<1>3. CASE JoinerStarts
  <2>1. C!Start(1)
    BY <1>3, Lives DEF JoinerStarts, C!Start
  <2> QED
    BY <1>2, <1>3, <2>1 DEF JoinerStarts, C!JvmStep
<1>4. CASE JoinerCrashes
  <2>1. C!Crash(1)
    BY <1>4, Lives DEF JoinerCrashes, C!Crash
  <2> QED
    BY <1>2, <1>4, <2>1 DEF JoinerCrashes, C!JvmStep
<1>5. CASE SenderCrashes
  <2>1. C!Crash(0)
    BY <1>5 DEF SenderCrashes, C!Crash
  <2> QED
    BY <1>2, <1>5, <2>1 DEF SenderCrashes, C!JvmStep
<1> QED
  BY <1>3, <1>4, <1>5

\* The attempts, round by round, do what Cluster does in one step per entry:
\* each step of Transfer is a step of Cluster or changes nothing there.
THEOREM ImplementsCluster == Spec => IsTransferOfCluster
<1>1. ASSUME IInv, [Next]_vars
      PROVE  [C!ThreadStep("admin") \/ C!JvmStep]_<<C!allVars>>
  <2> USE <1>1, EntriesAssumption
  <2> DEFINE Fixed == UNCHANGED <<size, sender, joiner>>
  <2>1. /\ size \in 0 .. MaxEntries /\ entry \in 1 .. size + 1
        /\ sender \in {"up", "crashed"} /\ joiner \in {"starting", "up", "crashed"}
        /\ asks \in 0 .. 4 /\ puts \in 0 .. 4 /\ received \subseteq 1 .. size
        /\ at = "send" => 1 .. entry - 1 \subseteq received
        /\ at \in {"send", "done"} => asks <= 3
    BY DEF IInv, TypeOK, Ends, SentInOrder, Outer!RETRIES, Inner!RETRIES
  <2> USE DEF Settled, Outer!GivesUp, Inner!GivesUp, Outer!RETRIES,
              Inner!RETRIES, Outer!Fail, Inner!Fail, Inner!Again, jvmVars
  <2>2. CASE Attempt
    <3>1. Settled' = Settled /\ at # "done" /\ at' # "done" /\ Fixed
          /\ received' = received
      BY <2>2, <2>1 DEF Attempt
    <3> QED
      BY <3>1, Stutters
  <2>3. CASE AttemptFails
    <3>1. /\ at # "done" /\ at' # "done" /\ Fixed /\ received' = received
          /\ Settled => Settled'
          /\ ~Settled /\ Settled' => sender # "up"
      BY <2>3, <2>1 DEF AttemptFails
    <3>2. CASE Settled' = Settled
      BY <3>1, <3>2, Stutters
    <3>3. CASE ~Settled /\ Settled'
      BY <3>1, <3>3, SettlesByThrowing
    <3> QED
      BY <3>1, <3>2, <3>3
  <2>4. CASE Throw
    <3>1. Settled' = Settled /\ at # "done" /\ at' # "done" /\ Fixed
          /\ received' = received
      BY <2>4, <2>1 DEF Throw
    <3> QED
      BY <3>1, Stutters
  <2>5. CASE Put
    <3>1. /\ ~Settled /\ ~Settled' /\ at = "send" /\ at' = "send" /\ Fixed
          /\ sender = "up" /\ joiner = "up" /\ entry \in 1 .. size
          /\ received' = received \cup {entry}
      BY <2>5, <2>1 DEF Put, Sending
    <3>2. CASE entry \in received
      <4>1. received' = received /\ Settled' = Settled
        BY <3>1, <3>2
      <4> QED
        BY <3>1, <4>1, Stutters
    <3>3. CASE entry \notin received
      BY <3>1, <3>3, <2>1, Arrives
    <3> QED
      BY <3>2, <3>3
  <2>6. CASE PutFails
    <3>1. /\ at = "send" /\ at' = "send" /\ Fixed /\ received' = received
          /\ ~Settled /\ joiner # "up" /\ entry \in 1 .. size
          /\ 1 .. entry - 1 \subseteq received
      BY <2>6, <2>1 DEF PutFails, Sending
    <3>2. CASE ~Settled'
      BY <3>1, <3>2, Stutters
    <3>3. CASE Settled'
      <4>1. (1 .. size) \ received # {}
        <5>1. sender = "up" /\ size \in 1 .. size
          BY <2>6, <3>1, <2>1 DEF PutFails, Sending
        <5> QED
          BY <3>1, <5>1 DEF IInv, LastIsMissing
      <4> QED
        BY <3>1, <3>3, <4>1, SettlesByThrowing
    <3> QED
      BY <3>2, <3>3
  <2>7. CASE Sent
    <3>1. /\ ~Settled /\ ~Settled' /\ at = "send" /\ at' = "done" /\ Fixed
          /\ sender = "up" /\ received' = received /\ entry = size + 1
      BY <2>7, <2>1 DEF Sent, Sending
    <3>2. 1 .. entry - 1 = 1 .. size
      BY <3>1, <2>1
    <3>3. received = 1 .. size
      BY <3>1, <3>2, <2>1
    <3> QED
      BY <3>1, <3>3, Completes
  <2>8. CASE JoinerStarts \/ JoinerCrashes \/ SenderCrashes
    BY <2>8, <2>1, JvmSteps
  <2>9. CASE UNCHANGED vars
    <3>1. Settled' = Settled /\ at' = at /\ Fixed /\ received' = received
      BY <2>9 DEF vars
    <3> QED
      BY <3>1, Stutters
  <2> QED
    BY <2>2, <2>3, <2>4, <2>5, <2>6, <2>7, <2>8, <2>9 DEF Next, Call
<1> QED
  BY <1>1, Invariance, PTL DEF Spec, IsTransferOfCluster
================================================================================
