------------------------------- MODULE Workload -------------------------------
(* testKVS of run_cluster.py: it loads a data set with a pool of threads, one  *)
(* client pod each, waits for all of them, and runs a workload the same way.   *)
(* Thread 0 may kill, add or shut down a server half-way.                      *)
(*                                                                             *)
(* The cluster is taken at its promise (KVStore): one value per key, unless a  *)
(* put failed, and the data is lost with the last server.  The keys are a      *)
(* permutation of 0 .. num_keys - 1, so a key stands for its index.            *)
EXTENDS Integers, FiniteSets

CONSTANTS
  NumKeys, NumThreads, NumRequests, PutRatio,   \* arguments of testKVS
  Cycle,       \* length of the shuffled list of operations (100 in the code)
  Absent,      \* what a key without value has ("ERR_KEY")
  MaxTests,    \* bound: testKVS commands given
  MaxFaults    \* bound: threads of a test hit by an exception of a call

ASSUME WorkloadAssumption ==
  /\ NumKeys \in Nat /\ NumThreads \in Nat \ {0} /\ NumRequests \in Nat
  /\ Cycle \in Nat \ {0} /\ PutRatio \in 0 .. Cycle
  /\ MaxTests \in Nat /\ MaxFaults \in Nat
ASSUME AbsentAssumption ==
  Absent \notin [kind : {"load", "run", "new"}, test : Nat, n : Nat]

ThreadIds == 0 .. NumThreads - 1
Indices == 0 .. NumKeys - 1

VARIABLES
  phase,       \* "command" (waiting for one), "load" or "run"
  consistency, \* test_consistency
  event,       \* what thread 0 does half-way
  optype,      \* optype[t]: the shuffled operations of thread t
  status,      \* status[t]: "running", "finished", "error" (it printed [Error]),
               \*            "died" (an exception ended it and nobody looks)
  stage,       \* stage[t]: the next call of an iteration of the consistency test
  pos, count,  \* pos[t], count[t]: idx and request_count
  serving,     \* some server is registered and holds the data
  store,       \* store[i]: the values a get of keys[i] may return
  tests,
  hurt,        \* history: the threads that had a call fail in this test
  outage       \* history: there were no servers at some time of this test

testVars == <<phase, consistency, event, optype, tests>>
threadVars == <<status, stage, pos, count>>
storeVars == <<serving, store, hurt, outage>>
workloadVars == <<testVars, threadVars, storeVars>>

\* start_idx and the indices up to end_idx, the end excluded.
Start(t) == (NumKeys * t) \div NumThreads
Slice(t) == Start(t) .. Start(t) + NumKeys \div NumThreads - 1
Quota == NumRequests \div NumThreads

Loaded == [kind |-> "load", test |-> tests, n |-> 0]
Updated == [kind |-> "run", test |-> tests, n |-> 0]
Fresh(t) == [kind |-> "new", test |-> tests, n |-> count[t]]

\* killServer and shutdownServer both take server 0 away.
Events == {"none", "remove", "add"}

\* random.shuffle of put_ratio puts and the rest gets.
Shuffles ==
  {f \in [0 .. Cycle - 1 -> {"Put", "Get"}] :
     Cardinality({i \in DOMAIN f : f[i] = "Put"}) = PutRatio}

\* A call of t ends in an exception although there are servers.
Hit(t) == hurt' = hurt \cup {t} /\ Cardinality(hurt') <= MaxFaults

Running(t) == status[t] = "running"
End(t, how) == status' = [status EXCEPT ![t] = how]

-----------------------------------------------------------------------------
(* The calls.  The exceptions a client pod passes on end the thread.         *)

\* A put without servers reports success and stores nothing.
PutOk(i, v) ==
  /\ store' = IF serving THEN [store EXCEPT ![i] = {v}] ELSE store
  /\ UNCHANGED <<serving, hurt, outage, status>>

PutFails(t, i, v) ==
  /\ Hit(t)
  /\ store' = [store EXCEPT ![i] = @ \cup {v}]
  /\ End(t, "died")
  /\ UNCHANGED <<serving, outage>>

\* int(...) of an answer that is not "key:value" throws, as a fault does.
GetFails(t) ==
  /\ \/ ~serving /\ UNCHANGED hurt
     \/ serving /\ Hit(t)
  /\ End(t, "died")
  /\ UNCHANGED <<serving, store, outage>>

Got(t, i, expected) ==
  /\ serving
  /\ \E v \in store[i] :
       status' = IF v = Absent THEN [status EXCEPT ![t] = "died"]
                 ELSE IF v # expected THEN [status EXCEPT ![t] = "error"]
                 ELSE status
  /\ UNCHANGED storeVars

-----------------------------------------------------------------------------
(* testKVS *)

\* listServer().split(','): the ids are joined by blanks, and without servers
\* the answer is "ERR_NOSERVERS", so there is one part either way.
ServerListLength == 1

BeginTest ==
  /\ phase = "command" /\ tests < MaxTests
  /\ ServerListLength >= 1
  /\ phase' = "load"
  /\ tests' = tests + 1
  /\ consistency' \in BOOLEAN
  /\ event' \in (IF consistency' THEN Events ELSE {"none"})
  /\ status' = [t \in ThreadIds |-> "running"]
  /\ pos' = [t \in ThreadIds |-> Start(t)]
  /\ hurt' = {} /\ outage' = ~serving
  /\ UNCHANGED <<serving, store, optype, stage, count>>

\* pool.shutdown(wait=True), and the next pool.
BeginRun ==
  /\ phase = "load" /\ \A t \in ThreadIds : ~Running(t)
  /\ phase' = "run"
  /\ optype' \in (IF consistency THEN {optype} ELSE [ThreadIds -> Shuffles])
  /\ status' = [t \in ThreadIds |-> "running"]
  /\ stage' = [t \in ThreadIds |-> "pick"]
  /\ count' = [t \in ThreadIds |-> 0]
  /\ pos' = [t \in ThreadIds |-> Start(t)]
  /\ UNCHANGED <<storeVars, consistency, event, tests>>

\* What the threads keep is gone with the pool.
EndTest ==
  /\ phase = "run" /\ \A t \in ThreadIds : ~Running(t)
  /\ phase' = "command"
  /\ consistency' = FALSE /\ event' = "none"
  /\ optype' = [t \in ThreadIds |-> <<>>]
  /\ status' = [t \in ThreadIds |-> "finished"]
  /\ stage' = [t \in ThreadIds |-> "pick"]
  /\ pos' = [t \in ThreadIds |-> 0]
  /\ count' = [t \in ThreadIds |-> 0]
  /\ UNCHANGED <<storeVars, tests>>

\* Between two commands, servers may come back or all be gone.
OtherCommand ==
  /\ phase = "command"
  /\ serving' \in BOOLEAN
  /\ store' = IF serving /\ serving' THEN store ELSE [i \in Indices |-> {Absent}]
  /\ UNCHANGED <<testVars, threadVars, hurt, outage>>

-----------------------------------------------------------------------------
(* loadDataset *)

Load(t) ==
  /\ phase = "load" /\ Running(t) /\ pos[t] \in Slice(t)
  /\ PutOk(pos[t], Loaded) \/ PutFails(t, pos[t], Loaded)
  /\ pos' = [pos EXCEPT ![t] = @ + 1]
  /\ UNCHANGED <<testVars, stage, count>>

LoadEnds(t) ==
  /\ phase = "load" /\ Running(t) /\ pos[t] \notin Slice(t)
  /\ End(t, "finished")
  /\ UNCHANGED <<testVars, storeVars, stage, pos, count>>

-----------------------------------------------------------------------------
(* runWorkload *)

\* Mutant of InRun: one request too many.
InRunOnceMore(t) == phase = "run" /\ Running(t) /\ count[t] <= Quota

InRun(t) == phase = "run" /\ Running(t) /\ count[t] < Quota

RunEnds(t) ==
  /\ phase = "run" /\ Running(t) /\ count[t] = Quota
  /\ End(t, "finished")
  /\ UNCHANGED <<testVars, storeVars, stage, pos, count>>

\* Mutant of Advance: the indices are gone through only once.
AdvanceOnce(t) ==
  /\ pos' = [pos EXCEPT ![t] = @ + 1]
  /\ count' = [count EXCEPT ![t] = @ + 1]
  /\ UNCHANGED <<testVars, stage>>

\* The for loop inside the while loop comes back to start_idx at the end.  A
\* thread whose slice is empty makes no call and never gets out of the loop.
Advance(t) ==
  /\ pos' = [pos EXCEPT ![t] = IF @ + 1 \in Slice(t) THEN @ + 1 ELSE Start(t)]
  /\ count' = [count EXCEPT ![t] = @ + 1]
  /\ UNCHANGED <<testVars, stage>>

\* Mutant of Request: the operation goes with the request, not with the key.
RequestByCount(t) ==
  /\ InRun(t) /\ ~consistency /\ pos[t] \in Slice(t)
  /\ \/ /\ optype[t][count[t] % Cycle] = "Put"
        /\ PutOk(pos[t], Updated) \/ PutFails(t, pos[t], Updated)
     \/ /\ optype[t][count[t] % Cycle] = "Get"
        /\ Got(t, pos[t], Loaded) \/ GetFails(t)
  /\ Advance(t)

Request(t) ==
  /\ InRun(t) /\ ~consistency /\ pos[t] \in Slice(t)
  /\ \/ /\ optype[t][pos[t] % Cycle] = "Put"
        /\ PutOk(pos[t], Updated) \/ PutFails(t, pos[t], Updated)
     \/ /\ optype[t][pos[t] % Cycle] = "Get"
        /\ Got(t, pos[t], Loaded) \/ GetFails(t)
  /\ Advance(t)

\* random.randint on an empty range throws.
Pick(t) ==
  /\ InRun(t) /\ consistency /\ stage[t] = "pick"
  /\ \/ /\ \E i \in Slice(t) : pos' = [pos EXCEPT ![t] = i]
        /\ stage' = [stage EXCEPT ![t] =
             IF t = 0 /\ count[t] = Quota \div 2 /\ event # "none"
             THEN "event" ELSE "put"]
        /\ UNCHANGED status
     \/ Slice(t) = {} /\ End(t, "died") /\ UNCHANGED <<pos, stage>>
  /\ UNCHANGED <<testVars, storeVars, count>>

\* Server 0 may have been the last one; its call may end in an exception.
Event(t) ==
  /\ InRun(t) /\ stage[t] = "event"
  /\ stage' = [stage EXCEPT ![t] = "put"]
  /\ serving' \in (IF event = "add" THEN {TRUE} ELSE {serving, FALSE})
  /\ store' = IF serving' THEN store ELSE [i \in Indices |-> {Absent}]
  /\ outage' = (outage \/ ~serving')
  /\ \/ UNCHANGED <<status, hurt>>
     \/ Hit(t) /\ End(t, "died")
  /\ UNCHANGED <<testVars, pos, count>>

PutNew(t) ==
  /\ InRun(t) /\ stage[t] = "put"
  /\ PutOk(pos[t], Fresh(t)) \/ PutFails(t, pos[t], Fresh(t))
  /\ stage' = [stage EXCEPT ![t] = "get"]
  /\ UNCHANGED <<testVars, pos, count>>

GetNew(t) ==
  /\ InRun(t) /\ stage[t] = "get"
  /\ Got(t, pos[t], Fresh(t)) \/ GetFails(t)
  /\ stage' = [stage EXCEPT ![t] = "pick"]
  /\ count' = [count EXCEPT ![t] = @ + 1]
  /\ UNCHANGED <<testVars, pos>>

-----------------------------------------------------------------------------

Init ==
  /\ phase = "command" /\ consistency = FALSE /\ event = "none"
  /\ optype = [t \in ThreadIds |-> <<>>]
  /\ status = [t \in ThreadIds |-> "finished"]
  /\ stage = [t \in ThreadIds |-> "pick"]
  /\ pos = [t \in ThreadIds |-> 0]
  /\ count = [t \in ThreadIds |-> 0]
  /\ serving \in BOOLEAN
  /\ store = [i \in Indices |-> {Absent}]
  /\ tests = 0 /\ hurt = {} /\ outage = FALSE

WorkerStep(t) ==
  \/ Load(t) \/ LoadEnds(t) \/ RunEnds(t) \/ Request(t)
  \/ Pick(t) \/ Event(t) \/ PutNew(t) \/ GetNew(t)

Next ==
  \/ BeginTest \/ BeginRun \/ EndTest \/ OtherCommand
  \/ \E t \in ThreadIds : WorkerStep(t)

Spec == Init /\ [][Next]_workloadVars

\* The pool's threads and the main thread that waits for them are scheduled.
\* Calls are taken to come back; a get may hang (WaitersWake of Cluster), and
\* then testKVS hangs with it.
FairSpec ==
  /\ Spec
  /\ \A t \in ThreadIds : WF_workloadVars(WorkerStep(t))
  /\ WF_workloadVars(BeginRun \/ EndTest)

-----------------------------------------------------------------------------
(* Properties *)

TypeOK ==
  /\ phase \in {"command", "load", "run"}
  /\ consistency \in BOOLEAN
  /\ event \in Events
  /\ optype \in [ThreadIds -> Shuffles \cup {<<>>}]
  /\ status \in [ThreadIds -> {"running", "finished", "error", "died"}]
  /\ stage \in [ThreadIds -> {"pick", "event", "put", "get"}]
  /\ pos \in [ThreadIds -> Nat] /\ count \in [ThreadIds -> 0 .. Quota]
  /\ serving \in BOOLEAN
  /\ \A i \in Indices : store[i] # {}
  /\ tests \in 0 .. MaxTests /\ hurt \subseteq ThreadIds /\ outage \in BOOLEAN

\* A test of a cluster that keeps its promise passes, and failures stay with the
\* thread they hit: a thread of testKVS stops early only if it has no keys, one
\* of its own calls failed in this test, or the servers were all gone.  So the
\* expected values are right although puts change keys while gets are checked,
\* every thread goes round its slice several times, and an earlier test may
\* have left old or uncertain values.
NoFalseAlarm ==
  \A t \in ThreadIds :
    status[t] \in {"error", "died"} => Slice(t) = {} \/ t \in hurt \/ outage

\* A thread of the run that still has requests to make, and any key at all, has
\* a key of its own to make the next one for, whichever loop it is in and
\* however often it has been round its slice: the while loop never goes round
\* without a call.
NobodySpins ==
  \A t \in ThreadIds :
    InRun(t) /\ Slice(t) # {} =>
      pos[t] \in Slice(t) \/ (consistency /\ stage[t] = "pick")

\* A testKVS command ends, whatever calls fail, and prints its throughput.  (It
\* does if there is a key for every thread.)
TestEnds == phase = "load" ~> phase = "command"

=============================================================================
