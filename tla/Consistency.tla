----------------------------- MODULE Consistency ------------------------------
(* Cluster implements KVStore.  Replicas, the lock loops, the transfer to a    *)
(* joiner, the routing of gets and the wait at a locked server disappear; left *)
(* is one value per key.                                                       *)
(*                                                                             *)
(* A put takes effect at the instant its lock loop ends: from then on a get    *)
(* that starts finds its server locked and answers only after the put is over. *)
(* A get that passed the lock before may still see the old or the new value.   *)
(* If pods run before their JVM answers, lock() skips some, and a get that     *)
(* starts at one of those during the put may see the old or the new value too. *)
EXTENDS Cluster

VARIABLES
  seen,    \* history: KVStore!seen
  prior    \* history: KVStore!prior

allVarsC == <<allVars, seen, prior>>

Writing == {t \in Threads : pc[t] \in {"put_write", "put_unlock"}}
Open == {arg[t].key : t \in Writing}

\* The value that is being written for key k, if there is one.
New(k) == {arg[t].val : t \in {w \in Writing : arg[w].key = k}}

\* The values key k may have now: the one that is being written, and if some
\* servers may be unlocked what the key had before, or whatever the registered
\* servers hold.
Held(k) ==
  IF servers = {} THEN {Absent}
  ELSE IF k \in Open THEN IF SlowStart THEN New(k) \cup prior[k] ELSE New(k)
  ELSE {data[s][k] : s \in servers}

InitC ==
  /\ Init
  /\ seen = [t \in Threads |-> [k \in Keys |-> {}]]
  /\ prior = [k \in Keys |-> {}]

History ==
  /\ prior' = [k \in Keys |->
                IF k \notin Open' THEN {}
                ELSE IF k \in Open THEN prior[k] ELSE Held(k)]
  /\ seen' = [t \in Threads |-> [k \in Keys |->
                IF k \in arg'[t].want THEN seen[t][k] \cup Held(k)' ELSE {}]]

SpecC == InitC /\ [][Next /\ History]_allVarsC

\* History follows the steps and takes nothing from the fairness of the threads.
FairSpecC == SpecC /\ Fairness

KV == INSTANCE KVStore WITH
  Readers <- Threads,
  Gradual <- SlowStart,
  replicated <- servers # {},
  store <- [k \in Keys |-> Held(k)],
  put <- [k \in Keys |-> New(k)],
  acked <- committed,
  want <- [t \in Threads |-> arg[t].want],
  answer <- [t \in Threads |-> arg[t].shown]

\* put, get and the lines of printKVPairs: the frontend's handlers, run by any
\* number of threads while servers join, leave and crash, cannot be told from a
\* store with one copy of each pair, except that a put that ended in an
\* exception may be seen by some readers and not by others.  A get answers with
\* a value its key had since it began.  If every registered pod answers
\* (~SlowStart) a put takes effect at one instant, which makes all of them
\* linearizable; else only before and after each put all readers agree.
IsOneStore == KV!Spec
=============================================================================
