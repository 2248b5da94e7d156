----------------------------- MODULE WorkloadProofs ----------------------------
(* Why testKVS raises no false alarm: its threads keep to slices of the keys   *)
(* that do not meet, and what a get is compared with is what the thread put.   *)
EXTENDS Workload, TLAPS

-----------------------------------------------------------------------------
(* Slices *)

LEMMA Quotient ==
  ASSUME NEW a \in Nat, NEW n \in Nat \ {0}
  PROVE  /\ a \div n \in Nat
         /\ n * (a \div n) <= a
         /\ \A b \in Nat : n * b <= a => b <= a \div n
OBVIOUS

\* A slice is within the keys and ends before the next one starts.
LEMMA SliceBounds ==
  ASSUME NEW t \in ThreadIds
  PROVE  /\ Start(t) \in Nat /\ NumKeys \div NumThreads \in Nat
         /\ Start(t) + NumKeys \div NumThreads <= NumKeys
         /\ \A u \in ThreadIds : t < u => Start(t) + NumKeys \div NumThreads <= Start(u)
<1> DEFINE q == NumKeys \div NumThreads
           s == Start(t)
<1>1. /\ NumKeys \in Nat /\ NumThreads \in Nat \ {0}
      /\ t \in Nat /\ t + 1 <= NumThreads /\ NumKeys * t \in Nat
  BY WorkloadAssumption DEF ThreadIds
<1>2. q \in Nat /\ NumThreads * q <= NumKeys
  BY <1>1, Quotient
<1>3. s \in Nat /\ NumThreads * s <= NumKeys * t
  BY <1>1, Quotient DEF Start
<1> HIDE DEF q, s
<1>4. NumThreads * (s + q) <= NumKeys * (t + 1)
  BY <1>1, <1>2, <1>3
<1>5. ASSUME NEW m \in Nat, t + 1 <= m PROVE NumThreads * (s + q) <= NumKeys * m
  <2>1. NumKeys * (t + 1) <= NumKeys * m
    BY <1>1, <1>5
  <2>2. QED
    BY <1>1, <1>2, <1>3, <1>4, <2>1
<1>6. s + q <= NumKeys
  <2>1. NumThreads * (s + q) <= NumThreads * NumKeys
    BY <1>1, <1>5
  <2>2. QED
    BY <1>1, <1>2, <1>3, <2>1
<1>7. ASSUME NEW u \in ThreadIds, t < u PROVE s + q <= Start(u)
  <2>1. u \in Nat /\ t + 1 <= u /\ NumKeys * u \in Nat
    BY <1>1, <1>7 DEF ThreadIds
  <2>2. NumThreads * (s + q) <= NumKeys * u
    BY <1>5, <2>1
  <2>3. \A b \in Nat : NumThreads * b <= NumKeys * u => b <= Start(u)
    BY <1>1, <2>1, Quotient DEF Start
  <2>4. QED
    BY <1>2, <1>3, <2>2, <2>3
<1>8. QED
  BY <1>2, <1>3, <1>6, <1>7 DEF q, s

\* No two threads ask for the same key.
LEMMA SlicesApart ==
  ASSUME NEW t \in ThreadIds, NEW u \in ThreadIds, t # u
  PROVE  Slice(t) \cap Slice(u) = {}
<1>1. t < u \/ u < t
  BY DEF ThreadIds
<1>2. /\ Start(t) \in Nat /\ Start(u) \in Nat /\ NumKeys \div NumThreads \in Nat
      /\ t < u => Start(t) + NumKeys \div NumThreads <= Start(u)
      /\ u < t => Start(u) + NumKeys \div NumThreads <= Start(t)
  BY SliceBounds
<1>3. QED
  BY <1>1, <1>2 DEF Slice

LEMMA SliceOfKeys ==
  ASSUME NEW t \in ThreadIds
  PROVE  Slice(t) \subseteq Indices /\ Slice(t) \subseteq Nat
<1>1. /\ Start(t) \in Nat /\ NumKeys \div NumThreads \in Nat
      /\ Start(t) + NumKeys \div NumThreads <= NumKeys
  BY SliceBounds
<1>2. QED
  BY <1>1, WorkloadAssumption DEF Slice, Indices

LEMMA QuotaIsNat == Quota \in Nat
BY WorkloadAssumption, Quotient DEF Quota

-----------------------------------------------------------------------------
(* The inductive invariant                                                   *)

Excused(t) == Slice(t) = {} \/ t \in hurt \/ outage

\* A test without servers knows it.
Served == phase # "command" => serving \/ outage

\* Only the consistency test has several calls per request, all for one key of
\* the thread.
Stages ==
  \A t \in ThreadIds :
    /\ phase = "run" /\ stage[t] # "pick" => consistency /\ pos[t] \in Slice(t)
    /\ phase = "load" => Start(t) <= pos[t]

\* What the thread has put is there.
Kept(t) ==
  /\ status[t] \notin {"error", "died"}
  /\ phase = "load" =>
       \A i \in Slice(t) : i < pos[t] \/ ~Running(t) => store[i] = {Loaded}
  /\ phase = "run" /\ ~consistency =>
       \A i \in Slice(t) : optype[t][i % Cycle] = "Get" => store[i] = {Loaded}
  /\ phase = "run" /\ stage[t] = "get" => store[pos[t]] = {Fresh(t)}

IInv ==
  /\ TypeOK /\ store = [i \in Indices |-> store[i]]
  /\ Served /\ Stages
  /\ \A t \in ThreadIds : Excused(t) \/ Kept(t)
-----------------------------------------------------------------------------
(* The calls *)

LEMMA Puts ==
  ASSUME IInv, NEW t \in ThreadIds, NEW i \in Indices, NEW v,
         PutOk(i, v) \/ PutFails(t, i, v)
  PROVE  /\ UNCHANGED <<serving, outage>> /\ hurt' \in {hurt, hurt \cup {t}}
         /\ store' = [j \in Indices |-> store'[j]]
         /\ \A j \in Indices : store'[j] # {}
         /\ \A j \in Indices \ {i} : store'[j] = store[j]
         /\ status' = status \/ status' = [status EXCEPT ![t] = "died"]
         /\ t \notin hurt' => status' = status /\ (serving => store'[i] = {v})
<1>1. store = [j \in Indices |-> store[j]] /\ \A j \in Indices : store[j] # {}
  BY DEF IInv, TypeOK
<1>2. CASE PutOk(i, v)
  BY <1>1, <1>2 DEF PutOk
<1>3. CASE PutFails(t, i, v)
  <2>1. store' = [store EXCEPT ![i] = store[i] \cup {v}]
    BY <1>3 DEF PutFails
  <2>2. store' = [j \in Indices |-> IF j = i THEN store[i] \cup {v} ELSE store[j]]
    BY <1>1, <2>1
  <2>3. QED
    BY <1>1, <1>3, <2>2 DEF PutFails, Hit, End
<1>4. QED
  BY <1>2, <1>3

LEMMA Gets ==
  ASSUME IInv, NEW t \in ThreadIds, NEW i \in Indices, NEW expected,
         Got(t, i, expected) \/ GetFails(t)
  PROVE  /\ UNCHANGED <<serving, outage, store>> /\ hurt' \in {hurt, hurt \cup {t}}
         /\ \/ status' = status
            \/ status' = [status EXCEPT ![t] = "died"]
            \/ status' = [status EXCEPT ![t] = "error"]
         /\ t \notin hurt' /\ serving /\ store[i] = {expected} /\ expected # Absent =>
              status' = status
<1>1. CASE Got(t, i, expected)
  BY <1>1 DEF Got, storeVars, End
<1>2. CASE GetFails(t)
  BY <1>2 DEF GetFails, Hit, End
<1>3. QED
  BY <1>1, <1>2

\* What a thread puts can be told from a missing value.
LEMMA ValuesAreThere ==
  ASSUME TypeOK
  PROVE  Loaded # Absent /\ \A t \in ThreadIds : Fresh(t) # Absent
<1>1. tests \in Nat /\ \A t \in ThreadIds : count[t] \in Nat
  BY QuotaIsNat, WorkloadAssumption DEF TypeOK
<1> DEFINE Records == [kind : {"load", "run", "new"}, test : Nat, n : Nat]
<1>2. Loaded \in Records /\ \A t \in ThreadIds : Fresh(t) \in Records
  BY <1>1 DEF Loaded, Fresh
<1>3. QED
  BY <1>2, AbsentAssumption

-----------------------------------------------------------------------------
(* Types *)

Statuses == {"running", "finished", "error", "died"}

LEMMA StepTyped ==
  ASSUME IInv, NEW t \in ThreadIds, WorkerStep(t)
  PROVE  TypeOK' /\ store' = [i \in Indices |-> store'[i]]
<1>0. /\ TypeOK /\ store = [i \in Indices |-> store[i]]
      /\ \A x \in ThreadIds : Start(x) \in Nat /\ Slice(x) \subseteq Indices
                              /\ Slice(x) \subseteq Nat
      /\ Quota \in Nat
  BY SliceBounds, SliceOfKeys, QuotaIsNat DEF IInv
<1>1. ASSUME UNCHANGED testVars, hurt' \in {hurt, hurt \cup {t}}, serving' \in BOOLEAN,
             outage' \in BOOLEAN, \A i \in Indices : store'[i] # {},
             status' \in [ThreadIds -> Statuses],
             stage' \in [ThreadIds -> {"pick", "event", "put", "get"}],
             pos' \in [ThreadIds -> Nat], count' \in [ThreadIds -> 0 .. Quota]
      PROVE  TypeOK'
  BY <1>0, <1>1 DEF TypeOK, testVars, Statuses
<1>2. CASE Load(t)
  <2>1. pos[t] \in Indices /\ (PutOk(pos[t], Loaded) \/ PutFails(t, pos[t], Loaded))
    BY <1>0, <1>2 DEF Load
  <2>2. /\ UNCHANGED <<serving, outage>> /\ hurt' \in {hurt, hurt \cup {t}}
        /\ store' = [j \in Indices |-> store'[j]]
        /\ \A j \in Indices : store'[j] # {}
        /\ status' = status \/ status' = [status EXCEPT ![t] = "died"]
    BY <2>1, Puts
  <2>3. pos' \in [ThreadIds -> Nat]
    BY <1>0, <1>2 DEF Load, TypeOK
  <2>4. UNCHANGED <<testVars, stage, count>>
    BY <1>2 DEF Load
  <2>5. QED
    BY <1>0, <1>1, <2>2, <2>3, <2>4 DEF TypeOK, Statuses
<1>3. CASE LoadEnds(t) \/ RunEnds(t)
  BY <1>0, <1>1, <1>3 DEF LoadEnds, RunEnds, End, storeVars, TypeOK, Statuses
<1>4. CASE Request(t)
  <2>1. /\ pos[t] \in Indices /\ UNCHANGED <<testVars, stage>>
        /\ pos' = [pos EXCEPT ![t] = IF @ + 1 \in Slice(t) THEN @ + 1 ELSE Start(t)]
        /\ count' = [count EXCEPT ![t] = @ + 1] /\ count[t] < Quota
    BY <1>0, <1>4 DEF Request, Advance, InRun
  <2>2. pos' \in [ThreadIds -> Nat] /\ count' \in [ThreadIds -> 0 .. Quota]
    BY <1>0, <2>1 DEF TypeOK
  <2>3. CASE PutOk(pos[t], Updated) \/ PutFails(t, pos[t], Updated)
    <3>1. /\ UNCHANGED <<serving, outage>> /\ hurt' \in {hurt, hurt \cup {t}}
          /\ store' = [j \in Indices |-> store'[j]]
          /\ \A j \in Indices : store'[j] # {}
          /\ status' = status \/ status' = [status EXCEPT ![t] = "died"]
      BY <2>1, <2>3, Puts
    <3>2. QED
      BY <1>0, <1>1, <2>1, <2>2, <3>1 DEF TypeOK, Statuses
  <2>4. CASE Got(t, pos[t], Loaded) \/ GetFails(t)
    <3>1. /\ UNCHANGED <<serving, outage, store>> /\ hurt' \in {hurt, hurt \cup {t}}
          /\ \/ status' = status
             \/ status' = [status EXCEPT ![t] = "died"]
             \/ status' = [status EXCEPT ![t] = "error"]
      BY <2>1, <2>4, Gets
    <3>2. QED
      BY <1>0, <1>1, <2>1, <2>2, <3>1 DEF TypeOK, Statuses
  <2>5. QED
    BY <1>4, <2>3, <2>4 DEF Request
<1>5. CASE Pick(t)
  BY <1>0, <1>1, <1>5 DEF Pick, End, storeVars, TypeOK, Statuses
<1>6. CASE Event(t)
  BY <1>0, <1>1, <1>6 DEF Event, End, Hit, TypeOK, Statuses
<1>7. CASE PutNew(t)
  <2>1. pos[t] \in Indices
    BY <1>0, <1>7 DEF PutNew, InRun, IInv, Stages
  <2>2. /\ UNCHANGED <<serving, outage>> /\ hurt' \in {hurt, hurt \cup {t}}
        /\ store' = [j \in Indices |-> store'[j]]
        /\ \A j \in Indices : store'[j] # {}
        /\ status' = status \/ status' = [status EXCEPT ![t] = "died"]
    BY <1>7, <2>1, Puts DEF PutNew
  <2>3. QED
    BY <1>0, <1>1, <1>7, <2>2 DEF PutNew, TypeOK, Statuses
<1>8. CASE GetNew(t)
  <2>1. pos[t] \in Indices
    BY <1>0, <1>8 DEF GetNew, InRun, IInv, Stages
  <2>2. /\ UNCHANGED <<serving, outage, store>> /\ hurt' \in {hurt, hurt \cup {t}}
        /\ \/ status' = status
           \/ status' = [status EXCEPT ![t] = "died"]
           \/ status' = [status EXCEPT ![t] = "error"]
    BY <1>8, <2>1, Gets DEF GetNew
  <2>3. count' = [count EXCEPT ![t] = @ + 1] /\ count[t] < Quota
    BY <1>8 DEF GetNew, InRun
  <2>4. count' \in [ThreadIds -> 0 .. Quota]
    BY <1>0, <2>3 DEF TypeOK
  <2>5. QED
    BY <1>0, <1>1, <1>8, <2>2, <2>4 DEF GetNew, TypeOK, Statuses
<1>9. QED
  BY <1>2, <1>3, <1>4, <1>5, <1>6, <1>7, <1>8 DEF WorkerStep
-----------------------------------------------------------------------------
(* What a thread does to the others: nothing, unless the servers are gone *)

Frame(t) ==
  /\ UNCHANGED testVars
  /\ phase # "command"
  /\ \A x \in ThreadIds \ {t} :
       /\ status'[x] = status[x] /\ stage'[x] = stage[x]
       /\ pos'[x] = pos[x] /\ count'[x] = count[x]
  /\ hurt \subseteq hurt' /\ hurt' \subseteq hurt \cup {t}
  /\ outage => outage'
  /\ \/ outage'
     \/ serving' /\ \A i \in Indices \ Slice(t) : store'[i] = store[i]

LEMMA StepFrame ==
  ASSUME IInv, NEW t \in ThreadIds, WorkerStep(t)
  PROVE  Frame(t)
<1>0. /\ TypeOK /\ Served /\ Slice(t) \subseteq Indices
      /\ phase = "run" /\ stage[t] # "pick" => pos[t] \in Slice(t)
  BY SliceOfKeys DEF IInv, Stages
<1>1. /\ UNCHANGED testVars /\ phase # "command"
      /\ \A x \in ThreadIds \ {t} : stage'[x] = stage[x] /\ pos'[x] = pos[x]
                                    /\ count'[x] = count[x]
  BY <1>0 DEF WorkerStep, Load, LoadEnds, RunEnds, Request, Pick, Event, PutNew, GetNew,
              Advance, InRun, TypeOK
<1>2. ASSUME NEW i \in Slice(t), NEW v, PutOk(i, v) \/ PutFails(t, i, v) PROVE Frame(t)
  <2>1. /\ UNCHANGED <<serving, outage>> /\ hurt' \in {hurt, hurt \cup {t}}
        /\ \A j \in Indices \ {i} : store'[j] = store[j]
        /\ status' = status \/ status' = [status EXCEPT ![t] = "died"]
    BY <1>0, <1>2, Puts
  <2>2. QED
    BY <1>0, <1>1, <2>1 DEF Frame, Served, TypeOK
<1>3. ASSUME NEW i \in Slice(t), NEW v, Got(t, i, v) \/ GetFails(t) PROVE Frame(t)
  <2>1. /\ UNCHANGED <<serving, outage, store>> /\ hurt' \in {hurt, hurt \cup {t}}
        /\ \/ status' = status
           \/ status' = [status EXCEPT ![t] = "died"]
           \/ status' = [status EXCEPT ![t] = "error"]
    BY <1>0, <1>3, Gets
  <2>2. QED
    BY <1>0, <1>1, <2>1 DEF Frame, Served, TypeOK
<1>4. CASE LoadEnds(t) \/ RunEnds(t) \/ Pick(t)
  BY <1>0, <1>1, <1>4 DEF LoadEnds, RunEnds, Pick, End, storeVars, Frame, Served, TypeOK
<1>5. CASE Event(t)
  <2>1. /\ outage' = (outage \/ ~serving')
        /\ store' = IF serving' THEN store ELSE [i \in Indices |-> {Absent}]
        /\ \/ UNCHANGED <<status, hurt>>
           \/ hurt' = hurt \cup {t} /\ status' = [status EXCEPT ![t] = "died"]
    BY <1>5 DEF Event, Hit, End
  <2>2. QED
    BY <1>0, <1>1, <2>1 DEF Frame, TypeOK
<1>6. CASE Load(t)
  BY <1>2, <1>6 DEF Load
<1>7. CASE Request(t)
  BY <1>2, <1>3, <1>7 DEF Request
<1>8. CASE PutNew(t) \/ GetNew(t)
  BY <1>0, <1>2, <1>3, <1>8 DEF PutNew, GetNew, InRun
<1>9. QED
  BY <1>4, <1>5, <1>6, <1>7, <1>8 DEF WorkerStep

LEMMA OthersKeep ==
  ASSUME IInv, NEW t \in ThreadIds, Frame(t), NEW x \in ThreadIds, x # t
  PROVE  Excused(x)' \/ Kept(x)'
<1>1. CASE Excused(x) \/ outage'
  BY <1>1 DEF Excused, Frame, Slice, Start
<1>2. CASE ~Excused(x) /\ ~outage'
  <2>1. Kept(x)
    BY <1>2 DEF IInv
  <2>2. \A i \in Slice(x) : i \in Indices /\ store'[i] = store[i]
    BY <1>2, SlicesApart, SliceOfKeys DEF Frame
  <2>3. /\ UNCHANGED testVars /\ status'[x] = status[x] /\ stage'[x] = stage[x]
        /\ pos'[x] = pos[x] /\ count'[x] = count[x]
    BY DEF Frame
  <2>4. Slice(x)' = Slice(x)
    BY DEF Slice, Start
  <2>5. Loaded' = Loaded /\ Fresh(x)' = Fresh(x)
    BY <2>3 DEF Loaded, Fresh, testVars
  <2>6. phase = "run" /\ stage[x] = "get" => pos[x] \in Slice(x)
    BY DEF IInv, Stages
  <2>7. QED
    BY <2>1, <2>2, <2>3, <2>4, <2>5, <2>6 DEF Kept, Running, testVars
<1>3. QED
  BY <1>1, <1>2

-----------------------------------------------------------------------------
(* What a thread does to itself *)

\* The thread is not excused by this step, so no call failed and servers served.
LEMMA OwnKept ==
  ASSUME IInv, NEW t \in ThreadIds, WorkerStep(t), ~Excused(t)'
  PROVE  Kept(t)'
<1>0. /\ TypeOK /\ Served /\ Stages /\ Slice(t) \subseteq Indices /\ Slice(t) \subseteq Nat
      /\ Start(t) \in Nat /\ NumKeys \div NumThreads \in Nat
      /\ Loaded # Absent /\ Fresh(t) # Absent
  BY SliceOfKeys, SliceBounds, ValuesAreThere DEF IInv
<1>f. Frame(t)
  BY StepFrame
<1>e. t \notin hurt' /\ ~outage' /\ Slice(t) # {} /\ ~Excused(t) /\ serving'
  BY <1>f DEF Excused, Frame, Slice, Start
<1>k. Kept(t)
  BY <1>e DEF IInv
<1>t. UNCHANGED <<phase, consistency, optype, tests>> /\ Slice(t)' = Slice(t)
      /\ Loaded' = Loaded
  BY <1>f DEF Frame, testVars, Slice, Start, Loaded
<1>1. ASSUME NEW i \in Slice(t), NEW v, PutOk(i, v) \/ PutFails(t, i, v)
      PROVE  /\ status' = status /\ store'[i] = {v}
             /\ \A j \in Slice(t) \ {i} : store'[j] = store[j]
  <2>1. serving
    BY <1>0, <1>1, <1>e, Puts
  <2>2. QED
    BY <1>0, <1>1, <1>e, <2>1, Puts
<1>2. ASSUME NEW i \in Slice(t), NEW v, Got(t, i, v) \/ GetFails(t), store[i] = {v}, v # Absent
      PROVE  status' = status /\ store' = store
  <2>1. i \in Indices
    BY <1>0, <1>2
  <2>2. serving /\ store' = store
    BY <1>2, <1>e, <2>1, Gets
  <2>3. QED
    BY <1>2, <1>e, <2>1, <2>2, Gets
<1>3. CASE Load(t)
  <2>1. status' = status /\ store'[pos[t]] = {Loaded}
        /\ \A j \in Slice(t) \ {pos[t]} : store'[j] = store[j]
    BY <1>1, <1>3 DEF Load
  <2>2. phase = "load" /\ Running(t) /\ pos'[t] = pos[t] + 1 /\ pos[t] \in Nat
    BY <1>0, <1>3 DEF Load, TypeOK
  <2>3. ASSUME NEW i \in Slice(t), i < pos'[t] PROVE store'[i] = {Loaded}
    <3>1. i = pos[t] \/ i < pos[t]
      BY <1>0, <2>2, <2>3
    <3>2. QED
      BY <1>k, <2>1, <2>2, <3>1 DEF Kept
  <2>4. QED
    BY <1>k, <1>t, <2>1, <2>2, <2>3 DEF Kept, Running
<1>4. CASE LoadEnds(t)
  <2>1. /\ phase = "load" /\ Running(t) /\ pos[t] \notin Slice(t) /\ store' = store
        /\ status'[t] = "finished" /\ pos[t] \in Nat /\ Start(t) <= pos[t]
    BY <1>0, <1>4 DEF LoadEnds, End, TypeOK, Stages, storeVars
  <2>2. \A i \in Slice(t) : i < pos[t]
    BY <1>0, <2>1 DEF Slice
  <2>3. QED
    BY <1>k, <1>t, <2>1, <2>2 DEF Kept
<1>5. CASE RunEnds(t)
  BY <1>0, <1>k, <1>t, <1>5 DEF RunEnds, End, TypeOK, storeVars, Kept, Fresh
<1>6. CASE Request(t)
  <2>1. /\ phase = "run" /\ ~consistency /\ pos[t] \in Slice(t) /\ stage' = stage
        /\ stage[t] = "pick"
    BY <1>0, <1>6 DEF Request, InRun, Advance, Stages
  <2>2. CASE optype[t][pos[t] % Cycle] = "Put"
    <3>1. status' = status /\ \A j \in Slice(t) \ {pos[t]} : store'[j] = store[j]
      BY <1>1, <1>6, <2>1, <2>2 DEF Request
    <3>2. QED
      BY <1>k, <1>t, <2>1, <2>2, <3>1 DEF Kept
  <2>3. CASE optype[t][pos[t] % Cycle] = "Get"
    <3>1. Got(t, pos[t], Loaded) \/ GetFails(t)
      BY <1>6, <2>3 DEF Request
    <3>2. store[pos[t]] = {Loaded}
      BY <1>k, <2>1, <2>3 DEF Kept
    <3>3. status' = status /\ store' = store
      BY <1>0, <1>2, <2>1, <3>1, <3>2
    <3>4. QED
      BY <1>k, <1>t, <2>1, <3>3 DEF Kept
  <2>4. QED
    BY <1>6, <2>2, <2>3 DEF Request
<1>7. CASE Pick(t)
  <2>1. /\ phase = "run" /\ consistency /\ status' = status /\ stage'[t] \in {"event", "put"}
    BY <1>0, <1>e, <1>7 DEF Pick, InRun, TypeOK
  <2>2. QED
    BY <1>k, <1>t, <2>1 DEF Kept
<1>8. CASE Event(t)
  <2>1. /\ phase = "run" /\ consistency /\ status' = status /\ stage'[t] = "put"
    BY <1>0, <1>e, <1>8 DEF Event, Hit, InRun, Stages, TypeOK
  <2>2. QED
    BY <1>k, <1>t, <2>1 DEF Kept
<1>9. CASE PutNew(t)
  <2>1. phase = "run" /\ consistency /\ pos[t] \in Slice(t)
    BY <1>0, <1>9 DEF PutNew, InRun, Stages
  <2>2. status' = status /\ store'[pos[t]] = {Fresh(t)}
    BY <1>1, <1>9, <2>1 DEF PutNew
  <2>3. UNCHANGED <<pos, count>>
    BY <1>9 DEF PutNew
  <2>4. Fresh(t)' = Fresh(t)
    BY <1>t, <2>3 DEF Fresh
  <2>5. QED
    BY <1>k, <1>t, <2>1, <2>2, <2>3, <2>4 DEF Kept
<1>10. CASE GetNew(t)
  <2>1. phase = "run" /\ consistency /\ pos[t] \in Slice(t) /\ stage[t] = "get"
        /\ stage'[t] = "pick"
    BY <1>0, <1>10 DEF GetNew, InRun, Stages, TypeOK
  <2>2. Got(t, pos[t], Fresh(t)) \/ GetFails(t)
    BY <1>10 DEF GetNew
  <2>3. store[pos[t]] = {Fresh(t)}
    BY <1>k, <2>1 DEF Kept
  <2>4. status' = status
    BY <1>0, <1>2, <2>1, <2>2, <2>3
  <2>5. QED
    BY <1>k, <1>t, <2>1, <2>4 DEF Kept
<1>11. QED
  BY <1>3, <1>4, <1>5, <1>6, <1>7, <1>8, <1>9, <1>10 DEF WorkerStep

-----------------------------------------------------------------------------
(* Every step keeps the invariant *)

LEMMA WorkerKeeps ==
  ASSUME IInv, NEW t \in ThreadIds, WorkerStep(t)
  PROVE  IInv'
<1>0. /\ TypeOK /\ Served /\ Stages /\ Frame(t) /\ Slice(t) \subseteq Nat
      /\ Start(t) \in Nat /\ NumKeys \div NumThreads \in Nat
      /\ \A x \in ThreadIds : Slice(x)' = Slice(x) /\ Start(x)' = Start(x)
  BY StepFrame, SliceOfKeys, SliceBounds DEF IInv, Slice, Start
<1>1. TypeOK' /\ store' = [i \in Indices |-> store'[i]]
  BY StepTyped
<1>2. Served'
  BY <1>0 DEF Frame, Served
<1>3. Stages'
  <2>1. ASSUME NEW x \in ThreadIds, x # t
        PROVE  /\ phase' = "run" /\ stage'[x] # "pick" => consistency' /\ pos'[x] \in Slice(x)
               /\ phase' = "load" => Start(x) <= pos'[x]
    BY <1>0, <2>1 DEF Frame, Stages, testVars
  <2>2. /\ phase' = "run" /\ stage'[t] # "pick" => consistency' /\ pos'[t] \in Slice(t)
        /\ phase' = "load" => Start(t) <= pos'[t]
    <3>0. /\ UNCHANGED <<phase, consistency>> /\ pos[t] \in Nat
          /\ phase = "run" /\ stage[t] # "pick" => consistency /\ pos[t] \in Slice(t)
          /\ phase = "load" => Start(t) <= pos[t]
      BY <1>0 DEF Frame, testVars, Stages, TypeOK
    <3>1. CASE Load(t) \/ LoadEnds(t)
      BY <1>0, <3>0, <3>1 DEF Load, LoadEnds, TypeOK
    <3>2. CASE RunEnds(t) \/ Request(t)
      BY <1>0, <3>0, <3>2 DEF RunEnds, Request, Advance, InRun
    <3>3. CASE Pick(t)
      BY <1>0, <3>0, <3>3 DEF Pick, InRun, TypeOK
    <3>4. CASE Event(t) \/ PutNew(t)
      BY <1>0, <3>0, <3>4 DEF Event, PutNew, InRun
    <3>5. CASE GetNew(t)
      BY <1>0, <3>0, <3>5 DEF GetNew, InRun, TypeOK
    <3>6. QED
      BY <3>1, <3>2, <3>3, <3>4, <3>5 DEF WorkerStep
  <2>3. QED
    BY <1>0, <2>1, <2>2 DEF Stages
<1>4. ASSUME NEW x \in ThreadIds PROVE Excused(x)' \/ Kept(x)'
  <2>1. CASE x = t
    BY <2>1, OwnKept
  <2>2. CASE x # t
    BY <1>0, <2>2, OthersKeep
  <2>3. QED
    BY <2>1, <2>2
<1>5. QED
  BY <1>1, <1>2, <1>3, <1>4 DEF IInv

LEMMA BeginTestKeeps == IInv /\ BeginTest => IInv'
<1> SUFFICES ASSUME IInv, BeginTest PROVE IInv'
  OBVIOUS
<1>0. /\ TypeOK /\ store = [i \in Indices |-> store[i]]
      /\ MaxTests \in Nat /\ Quota \in Nat
      /\ \A x \in ThreadIds : Start(x) \in Nat /\ NumKeys \div NumThreads \in Nat
                              /\ Slice(x)' = Slice(x) /\ Start(x)' = Start(x)
  BY SliceBounds, QuotaIsNat, WorkloadAssumption DEF IInv, Slice, Start
<1>1. /\ phase' = "load" /\ tests' = tests + 1 /\ tests < MaxTests
      /\ status' = [x \in ThreadIds |-> "running"] /\ pos' = [x \in ThreadIds |-> Start(x)]
      /\ hurt' = {} /\ outage' = ~serving
      /\ UNCHANGED <<serving, store, optype, stage, count>>
      /\ consistency' \in BOOLEAN /\ event' \in Events
  BY DEF BeginTest, Events
<1>2. TypeOK'
  BY <1>0, <1>1 DEF TypeOK
<1>3. Served' /\ Stages'
  <2>1. Served'
    BY <1>1 DEF Served
  <2>2. ASSUME NEW x \in ThreadIds PROVE Start(x)' <= pos'[x]
    BY <1>0, <1>1
  <2>3. Stages'
    BY <1>1, <2>2 DEF Stages
  <2>4. QED
    BY <2>1, <2>3
<1>4. ASSUME NEW x \in ThreadIds PROVE Kept(x)'
  <2>1. \A i \in Slice(x) : ~(i < pos'[x])
    BY <1>0, <1>1 DEF Slice
  <2>2. QED
    BY <1>0, <1>1, <2>1 DEF Kept, Running
<1>5. QED
  BY <1>0, <1>1, <1>2, <1>3, <1>4 DEF IInv

LEMMA BeginRunKeeps == IInv /\ BeginRun => IInv'
<1> SUFFICES ASSUME IInv, BeginRun PROVE IInv'
  OBVIOUS
<1>0. /\ TypeOK /\ Served /\ store = [i \in Indices |-> store[i]]
      /\ MaxTests \in Nat /\ Quota \in Nat
      /\ \A x \in ThreadIds : Start(x) \in Nat
                              /\ Slice(x)' = Slice(x) /\ Start(x)' = Start(x)
  BY SliceBounds, QuotaIsNat, WorkloadAssumption DEF IInv, Slice, Start
<1>1. /\ phase = "load" /\ phase' = "run" /\ \A x \in ThreadIds : ~Running(x)
      /\ status' = [x \in ThreadIds |-> "running"] /\ stage' = [x \in ThreadIds |-> "pick"]
      /\ count' = [x \in ThreadIds |-> 0] /\ pos' = [x \in ThreadIds |-> Start(x)]
      /\ UNCHANGED <<serving, store, hurt, outage, consistency, event, tests>>
  BY DEF BeginRun, storeVars
<1>2. optype' \in [ThreadIds -> Shuffles \cup {<<>>}]
  BY <1>0 DEF BeginRun, TypeOK
<1>3. TypeOK'
  BY <1>0, <1>1, <1>2 DEF TypeOK
<1>4. Served' /\ Stages'
  BY <1>0, <1>1 DEF Served, Stages, TypeOK
<1>5. ASSUME NEW x \in ThreadIds PROVE Excused(x)' \/ Kept(x)'
  <2>1. CASE Excused(x)
    BY <1>0, <1>1, <2>1 DEF Excused
  <2>2. CASE Kept(x)
    <3>1. \A i \in Slice(x) : store[i] = {Loaded}
      BY <1>1, <2>2 DEF Kept
    <3>2. Loaded' = Loaded
      BY <1>1 DEF Loaded
    <3>3. QED
      BY <1>0, <1>1, <3>1, <3>2 DEF Kept
  <2>3. QED
    BY <2>1, <2>2 DEF IInv
<1>6. QED
  BY <1>0, <1>1, <1>3, <1>4, <1>5 DEF IInv

LEMMA EndTestKeeps == IInv /\ EndTest => IInv'
<1> SUFFICES ASSUME IInv, EndTest PROVE IInv'
  OBVIOUS
<1>0. TypeOK /\ store = [i \in Indices |-> store[i]] /\ Quota \in Nat
  BY QuotaIsNat DEF IInv
<1>1. /\ phase' = "command" /\ consistency' = FALSE /\ event' = "none"
      /\ status' = [t \in ThreadIds |-> "finished"] /\ stage' = [t \in ThreadIds |-> "pick"]
      /\ optype' = [t \in ThreadIds |-> <<>>]
      /\ pos' = [t \in ThreadIds |-> 0] /\ count' = [t \in ThreadIds |-> 0]
      /\ UNCHANGED <<serving, store, hurt, outage, tests>>
  BY DEF EndTest, storeVars
<1>2. optype' \in [ThreadIds -> Shuffles \cup {<<>>}]
  <2>1. <<>> \in Shuffles \cup {<<>>}
    BY Zenon
  <2>2. QED
    BY <1>1, <2>1, Zenon
<1>3. TypeOK'
  <2>1. phase' \in {"command", "load", "run"} /\ consistency' \in BOOLEAN /\ event' \in Events
    BY <1>1 DEF Events
  <2>2. status' \in [ThreadIds -> {"running", "finished", "error", "died"}]
    BY <1>1
  <2>3. stage' \in [ThreadIds -> {"pick", "event", "put", "get"}]
    BY <1>1
  <2>4. pos' \in [ThreadIds -> Nat] /\ count' \in [ThreadIds -> 0 .. Quota]
    BY <1>0, <1>1
  <2>5. /\ serving' \in BOOLEAN /\ \A i \in Indices : store'[i] # {}
        /\ tests' \in 0 .. MaxTests /\ hurt' \subseteq ThreadIds /\ outage' \in BOOLEAN
    BY <1>0, <1>1 DEF TypeOK
  <2>6. QED
    BY <1>2, <2>1, <2>2, <2>3, <2>4, <2>5 DEF TypeOK
<1>4. QED
  BY <1>0, <1>1, <1>3 DEF IInv, Served, Stages, Kept

LEMMA OtherCommandKeeps == IInv /\ OtherCommand => IInv'
<1> SUFFICES ASSUME IInv, OtherCommand PROVE IInv'
  OBVIOUS
<1>0. TypeOK /\ store = [i \in Indices |-> store[i]]
      /\ \A x \in ThreadIds : Excused(x) \/ Kept(x)
  BY DEF IInv
<1>1. /\ phase = "command" /\ serving' \in BOOLEAN
      /\ store' = IF serving /\ serving' THEN store ELSE [i \in Indices |-> {Absent}]
      /\ UNCHANGED <<phase, consistency, event, optype, tests, status, stage, pos, count,
                     hurt, outage>>
  BY DEF OtherCommand, testVars, threadVars
<1>2. store' = [i \in Indices |-> store'[i]] /\ \A i \in Indices : store'[i] # {}
  BY <1>0, <1>1 DEF TypeOK
<1>3. TypeOK'
  BY <1>0, <1>1, <1>2 DEF TypeOK
<1>4. ASSUME NEW x \in ThreadIds PROVE Excused(x)' \/ Kept(x)'
  BY <1>0, <1>1 DEF Excused, Kept, Slice, Start
<1>5. QED
  BY <1>1, <1>2, <1>3, <1>4 DEF IInv, Served, Stages

LEMMA StutterKeeps == IInv /\ UNCHANGED workloadVars => IInv'
<1> SUFFICES ASSUME IInv, UNCHANGED workloadVars PROVE IInv'
  OBVIOUS
<1>1. UNCHANGED <<phase, consistency, event, optype, tests, status, stage, pos, count,
                  serving, store, hurt, outage>>
  BY DEF workloadVars, testVars, threadVars, storeVars
<1>2. TypeOK' /\ Served' /\ Stages' /\ store' = [i \in Indices |-> store'[i]]
  BY <1>1 DEF IInv, TypeOK, Served, Stages, Slice, Start
<1>3. ASSUME NEW x \in ThreadIds PROVE Excused(x)' \/ Kept(x)'
  BY <1>1 DEF IInv, Excused, Kept, Running, Slice, Start, Loaded, Fresh
<1>4. QED
  BY <1>2, <1>3 DEF IInv

LEMMA InitIInv == Init => IInv
<1> SUFFICES ASSUME Init PROVE IInv
  OBVIOUS
<1>1. optype \in [ThreadIds -> Shuffles \cup {<<>>}]
  <2>1. <<>> \in Shuffles \cup {<<>>}
    BY Zenon
  <2>2. QED
    BY <2>1, Zenon DEF Init
<1>2. TypeOK
  <2>1. phase \in {"command", "load", "run"} /\ consistency \in BOOLEAN /\ event \in Events
    BY DEF Init, Events
  <2>2. status \in [ThreadIds -> {"running", "finished", "error", "died"}]
    BY DEF Init
  <2>3. stage \in [ThreadIds -> {"pick", "event", "put", "get"}]
    BY DEF Init
  <2>4. pos \in [ThreadIds -> Nat] /\ count \in [ThreadIds -> 0 .. Quota]
    BY QuotaIsNat DEF Init
  <2>5. \A i \in Indices : store[i] # {}
    BY DEF Init
  <2>6. tests \in 0 .. MaxTests /\ hurt \subseteq ThreadIds
    BY WorkloadAssumption DEF Init
  <2>7. serving \in BOOLEAN /\ outage \in BOOLEAN
    BY DEF Init
  <2>8. QED
    BY <1>1, <2>1, <2>2, <2>3, <2>4, <2>5, <2>6, <2>7 DEF TypeOK
<1>3. QED
  BY <1>2 DEF Init, IInv, Served, Stages, Kept

LEMMA Inductive == Spec => []IInv
<1>1. Init => IInv
  BY InitIInv
<1>2. IInv /\ [Next]_workloadVars => IInv'
  BY WorkerKeeps, BeginTestKeeps, BeginRunKeeps, EndTestKeeps, OtherCommandKeeps,
     StutterKeeps DEF Next
<1>3. QED
  BY <1>1, <1>2, PTL DEF Spec

\* TypeOK of Workload holds whatever the number of keys, threads and requests.
THEOREM TypeCorrect == Spec => []TypeOK
<1>1. IInv => TypeOK
  BY DEF IInv
<1>2. QED
  BY <1>1, Inductive, PTL

\* However the keys divide among the threads and whatever calls fail, a thread
\* of testKVS stops early only for a reason of its own or for want of servers.
THEOREM AlarmsHaveReasons == Spec => []NoFalseAlarm
<1>1. IInv => NoFalseAlarm
  BY DEF IInv, NoFalseAlarm, Kept, Excused
<1>2. QED
  BY <1>1, Inductive, PTL

-----------------------------------------------------------------------------
(* Going round the slice *)

\* The index of the plain workload stays in the slice.
Turns ==
  \A t \in ThreadIds :
    phase = "run" /\ ~consistency /\ Slice(t) # {} => pos[t] \in Slice(t)

\* A slice with any key has its first.
LEMMA SliceStarts ==
  ASSUME NEW t \in ThreadIds, Slice(t) # {}
  PROVE  Start(t) \in Slice(t)
<1>1. Start(t) \in Nat /\ NumKeys \div NumThreads \in Nat
  BY SliceBounds
<1>2. QED
  BY <1>1 DEF Slice

LEMMA WorkerTurns ==
  ASSUME IInv, Turns, NEW t \in ThreadIds, WorkerStep(t)
  PROVE  Turns'
<1> SUFFICES ASSUME NEW x \in ThreadIds, phase' = "run", ~consistency', Slice(x) # {}
             PROVE  pos'[x] \in Slice(x)
  BY DEF Turns, Slice, Start
<1>1. Frame(t)
  BY StepFrame
<1>2. phase = "run" /\ ~consistency /\ pos[x] \in Slice(x)
  BY <1>1 DEF Frame, testVars, Turns
<1>3. CASE x # t
  BY <1>1, <1>2, <1>3 DEF Frame
<1>4. CASE x = t
  <2>1. stage[t] = "pick"
    BY <1>2 DEF IInv, Stages
  <2>2. Request(t) \/ RunEnds(t)
    BY <1>2, <2>1 DEF WorkerStep, Load, LoadEnds, Pick, Event, PutNew, GetNew
  <2>3. CASE RunEnds(t)
    BY <1>2, <1>4, <2>3 DEF RunEnds
  <2>4. CASE Request(t)
    <3>1. pos' = [pos EXCEPT ![t] = IF @ + 1 \in Slice(t) THEN @ + 1 ELSE Start(t)]
      BY <2>4 DEF Request, Advance
    <3>2. QED
      BY <1>4, <3>1, SliceStarts DEF IInv, TypeOK
  <2>5. QED
    BY <2>2, <2>3, <2>4
<1>5. QED
  BY <1>3, <1>4

LEMMA NextTurns == IInv /\ Turns /\ [Next]_workloadVars => Turns'
<1> SUFFICES ASSUME IInv, Turns, [Next]_workloadVars PROVE Turns'
  OBVIOUS
<1>1. CASE \E t \in ThreadIds : WorkerStep(t)
  BY <1>1, WorkerTurns
<1>2. CASE BeginRun
  <2>1. pos' = [t \in ThreadIds |-> Start(t)]
    BY <1>2 DEF BeginRun
  <2>2. QED
    BY <2>1, SliceStarts DEF Turns, Slice, Start
<1>3. BeginTest \/ EndTest => Turns'
  BY DEF BeginTest, EndTest, Turns
<1>4. CASE OtherCommand \/ UNCHANGED workloadVars
  <2>1. UNCHANGED <<phase, consistency, pos>>
    BY <1>4 DEF OtherCommand, workloadVars, testVars, threadVars
  <2>2. QED
    BY <2>1 DEF Turns, Slice, Start
<1>5. QED
  BY <1>1, <1>2, <1>3, <1>4 DEF Next

\* Only a thread without keys can hang in the loops of testKVS: every other one
\* always has a next call to make, for any number of keys, threads and requests.
THEOREM OnlyEmptySlicesSpin == Spec => []NobodySpins
<1>1. Init => Turns
  BY DEF Init, Turns
<1>2. IInv /\ Turns => NobodySpins
  BY DEF IInv, Stages, Turns, NobodySpins, InRun
<1>3. QED
  BY <1>1, <1>2, InitIInv, Inductive, NextTurns, PTL DEF Spec
=============================================================================
