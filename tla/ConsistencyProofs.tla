--------------------------- MODULE ConsistencyProofs ---------------------------
(* Cluster implements KVStore.                                                 *)
EXTENDS Consistency, LockProofs

-----------------------------------------------------------------------------
(* The inductive invariant                                                   *)

\* Only a get or a print wants keys or has been told any.
OnlyReadersWant ==
  \A t \in Threads :
    pc[t] \notin {"get_pick"} \cup AtServerPcs =>
      arg[t].want = {} /\ arg[t].shown = [k \in Keys |-> None]

\* Unless pods start slowly, one that has been started answers or has crashed.
NoneStarting == ~SlowStart => \A s \in ServerIds : life[s] # "starting"

\* A server has no data before the transfer to it, and from then on none that
\* the sender does not have.
JoinersData ==
  /\ \A s \in ServerIds, k \in Keys : life[s] = "absent" => data[s][k] = Absent
  /\ \A t \in Threads, k \in Keys :
       /\ pc[t] \in {"add_first", "add_only", "add_enter", "add_lock"} =>
            data[arg[t].srv][k] = Absent
       /\ pc[t] \in {"send", "add_unlock"} =>
            data[arg[t].srv][k] \in {Absent, data[arg[t].from][k]}

\* The lock loop has locked what it passed, and the write loop finds all locked,
\* unless some did not answer yet.
WrittenWhileLocked ==
  ~SlowStart => \A t \in Threads :
    /\ pc[t] = "put_lock" => \A s \in servers \ todo : Up(s) => isLocked[s]
    /\ pc[t] = "put_write" => \A s \in servers : Up(s) => isLocked[s]

\* While a key is written its replicas hold what it was before or what it will be.
Priors ==
  /\ prior = [k \in Keys |-> prior[k]]
  /\ \A k \in Keys \ Open : prior[k] = {}
  /\ \A k \in Keys \cap Open, s \in servers : data[s][k] \in prior[k] \cup Held(k)

Watching ==
  /\ seen = [t \in Threads |-> [k \in Keys |-> seen[t][k]]]
  /\ \A t \in Threads, k \in Keys :
       IF k \in arg[t].want THEN Held(k) \subseteq seen[t][k] ELSE seen[t][k] = {}

\* The server s is locked for the write of k and not yet written.
Pending(s, k) ==
  isLocked[s] /\ \E w \in Threads : pc[w] = "put_write" /\ arg[w].key = k /\ s \in todo

\* What a reader finds at its server is a value the key had since it asked;
\* unless it cannot answer, or waits for the write in progress.
ReadableBy(t) ==
  pc[t] \in AtServerPcs =>
    \A k \in arg[t].want :
      \/ data[arg[t].srv][k] \in seen[t][k]
      \/ life[arg[t].srv] = "crashed"
      \/ pc[t] # "read" /\ Pending(arg[t].srv, k)

Readable == \A t \in Threads : ReadableBy(t)

\* What Cluster needs to know of itself, the history left aside.
Underneath ==
  /\ Replicated /\ Walking /\ NewIds
  /\ NoneStarting /\ JoinersData /\ WrittenWhileLocked /\ OnlyReadersWant

OneStore == Underneath /\ Priors /\ Watching /\ Readable

\* run_cluster.py is one administrator and counts its ids up.
AsDriven == OneAdministrator /\ ~ReuseIds

-----------------------------------------------------------------------------
(* The part of the invariant that is about Cluster alone *)

\* Only the write loop and the transfer change data.
LEMMA DataEffect ==
  ASSUME NEW t \in Threads, ThreadStep(t)
  PROVE  \/ UNCHANGED data
         \/ \E s \in ServerIds : WriteOne(t, s)
         \/ \E k \in Keys : SendOne(t, k) /\ UNCHANGED frontendVars
<1>1. CASE PutStep(t)
  BY <1>1 DEF PutStep, PutEnter, PutLocked, PutWritten, NextLoop, PutDone, serverVars
<1>2. CASE LoopStep(t)
  BY <1>2 DEF LoopStep, LockOne, UnlockOne, LoopThrows, Throw
<1>3. CASE AddStep(t)
  BY <1>3 DEF AddStep, AddFirst, AddOnly, AddEnter, AddSend, AddSendThrows, SendThrows,
              Throw, AddSent, NextLoop, AddDone, serverVars
<1>4. CASE ReadStep(t)
  BY <1>4 DEF ReadStep, GetPick, GetExists, GetSend, CheckLock, Park, ReadKey, ReadDone,
              ReadBroken, serverVars
<1>5. QED
  BY <1>1, <1>2, <1>3, <1>4 DEF ThreadStep

\* The servers a step writes to: registered ones, or the one that is joining.
LEMMA WriteAt ==
  ASSUME Underneath, NEW t \in Threads, NEW s \in ServerIds, WriteOne(t, s)
  PROVE  /\ s \in servers /\ arg[t].key \in Keys /\ arg[t].val \in Values
         /\ \A x \in ServerIds, k \in Keys :
              data'[x][k] = IF x = s /\ k = arg[t].key THEN arg[t].val ELSE data[x][k]
<1> USE DEF Underneath, Walking
<1>1. s \in servers /\ pc[t] = "put_write"
  BY DEF WriteOne, Walk
<1>2. arg[t].key \in Keys /\ arg[t].val \in Values
  BY <1>1 DEF Typed, Requests, Needs, PutPcs
<1>3. data' = [data EXCEPT ![s][arg[t].key] = arg[t].val]
  BY DEF WriteOne, ServerPut
<1>4. QED
  BY <1>1, <1>2, <1>3 DEF Typed, State

LEMMA SendAt ==
  ASSUME Underneath, NEW t \in Threads, NEW k \in Keys, SendOne(t, k)
  PROVE  /\ pc[t] = "send" /\ arg[t].srv \in ServerIds \ servers /\ arg[t].from \in servers
         /\ \A x \in ServerIds, j \in Keys :
              data'[x][j] = IF x = arg[t].srv /\ j = k THEN data[arg[t].from][k] ELSE data[x][j]
<1> USE DEF Underneath, Walking
<1>1. pc[t] = "send" /\ data' = [data EXCEPT ![arg[t].srv][k] = data[arg[t].from][k]]
  BY DEF SendOne, ServerPut
<1>2. arg[t].srv \in ServerIds \ servers
  BY <1>1 DEF NewIds, Typed, Requests, Needs, AddPcs, TransferPcs
<1>3. arg[t].from \in servers
  BY <1>1 DEF Replicated, SendProgress
<1>4. QED
  BY <1>1, <1>2, <1>3 DEF Typed, State

BeforeTransfer == {"add_first", "add_only", "add_enter", "add_lock"}

\* addServer goes from its looks at the list to the transfer, and not back.
LEMMA AddOrder ==
  ASSUME Typed, NEW t \in Threads, ThreadStep(t)
  PROVE  /\ pc'[t] \in BeforeTransfer => pc[t] \in BeforeTransfer
         /\ pc'[t] \in {"send", "add_unlock"} =>
              \/ pc[t] \in {"send", "add_unlock"} /\ arg'[t] = arg[t]
              \/ pc[t] = "add_lock" /\ UNCHANGED data
<1> USE DEF BeforeTransfer
<1>r. Requests
  BY DEF Typed
<1>0. CASE pc'[t] \notin AddPcs
  BY <1>0 DEF AddPcs, TransferPcs
<1>1. CASE AddStep(t)
  BY <1>1, <1>r, GotoMoves, ReturnMoves
     DEF AddStep, AddFirst, AddOnly, AddEnter, AddSend, AddSendThrows, SendThrows, Throw,
         AddSent, NextLoop, AddDone, SendOne, requestVars
<1>2. CASE LoopStep(t)
  BY <1>2, <1>r, ReturnMoves
     DEF LoopStep, LockOne, UnlockOne, ServerUnlock, LoopThrows, Throw, requestVars, Requests
<1>3. CASE (PutStep(t) \/ ReadStep(t)) /\ pc'[t] \in AddPcs
  <2>1. pc[t] \in AddPcs
    BY <1>3, StepStaysInCall
  <2>2. pc[t] \notin AddPcs \/ UNCHANGED <<pc, arg>>
    BY <1>3 DEF PutStep, PutEnter, PutLocked, PutWritten, PutDone, NextLoop, WriteOne,
                ReadStep, GetPick, GetExists, GetSend, CheckLock, Park, ReadKey, ReadDone,
                ReadBroken, ReadPcs, requestVars, AddPcs, TransferPcs
  <2>3. QED
    BY <1>3, <2>1, <2>2 DEF AddPcs, TransferPcs
<1>4. QED
  BY <1>0, <1>1, <1>2, <1>3 DEF ThreadStep

LEMMA StepJoinersData ==
  ASSUME Underneath, NEW t \in Threads, ThreadStep(t)
  PROVE  JoinersData'
<1> USE DEF Underneath, Walking
<1>1. Effect(t) /\ Others(t) /\ Faithful(t)
  BY StepEffect, StepFaithful, StepDiscipline
<1>2. ASSUME NEW s \in ServerIds, NEW k \in Keys, life[s] = "absent"
      PROVE  data'[s][k] = data[s][k]
  <2>1. ASSUME NEW x \in ServerIds, WriteOne(t, x) PROVE data'[s][k] = data[s][k]
    <3>1. s # x
      BY <1>2, <2>1, WriteAt DEF Existing
    <3>2. QED
      BY <2>1, <3>1, WriteAt
  <2>2. ASSUME NEW j \in Keys, SendOne(t, j) PROVE data'[s][k] = data[s][k]
    <3>1. s # arg[t].srv
      BY <1>2, <2>2, SendAt DEF Existing, AddPcs, TransferPcs
    <3>2. QED
      BY <2>2, <3>1, SendAt
  <2>3. QED
    BY <2>1, <2>2, DataEffect
\* An adder's data changes only by its own transfer.
<1>3. ASSUME NEW x \in Threads, pc[x] \in AddPcs, NEW k \in Keys,
             data'[arg[x].srv][k] # data[arg[x].srv][k]
      PROVE  /\ x = t /\ SendOne(t, k)
             /\ data'[arg[x].srv][k] = data[arg[x].from][k]
  <2>0. arg[x].srv \in ServerIds \ servers
    BY <1>3 DEF NewIds, Typed, Requests, Needs
  <2>1. ASSUME NEW s \in ServerIds, WriteOne(t, s) PROVE FALSE
    BY <1>3, <2>0, <2>1, WriteAt
  <2>2. PICK j \in Keys : SendOne(t, j)
    BY <1>3, <2>1, DataEffect
  <2>3. arg[t].srv = arg[x].srv /\ j = k
    BY <1>3, <2>0, <2>2, SendAt
  <2>4. x = t
    BY <1>3, <2>2, <2>3, SendAt DEF NewIds, AddPcs, TransferPcs
  <2>5. QED
    BY <2>0, <2>2, <2>3, <2>4, SendAt
<1>4. ASSUME NEW x \in Threads, pc[x] \in {"send", "add_unlock"}, NEW k \in Keys
      PROVE  data'[arg[x].from][k] = data[arg[x].from][k]
  <2>0. arg[x].from \in servers /\ arg[x].from \in ServerIds
    BY <1>4 DEF Replicated, SendProgress, Typed, State
  <2>1. ASSUME NEW s \in ServerIds, WriteOne(t, s) PROVE FALSE
    <3>1. pc[t] \in LoopPcs /\ pc[x] \in LoopPcs /\ x # t
      BY <1>4, <2>1 DEF WriteOne, LoopPcs
    <3>2. QED
      BY <3>1, NoneAssumption DEF SingleWriter
  <2>2. ASSUME NEW j \in Keys, SendOne(t, j) PROVE data'[arg[x].from][k] = data[arg[x].from][k]
    BY <2>0, <2>2, SendAt
  <2>3. QED
    BY <2>0, <2>1, <2>2, DataEffect
<1>5. ASSUME NEW x \in Threads, NEW k \in Keys, pc'[x] \in AddPcs
      PROVE  /\ pc'[x] \in {"add_first", "add_only", "add_enter", "add_lock"} =>
                  data'[arg'[x].srv][k] = Absent
             /\ pc'[x] \in {"send", "add_unlock"} =>
                  data'[arg'[x].srv][k] \in {Absent, data'[arg'[x].from][k]}
  <2>1. pc[x] \in AddPcs /\ arg'[x].srv = arg[x].srv
    BY <1>1, <1>5, AddersStay
  <2>2. arg[x].srv \in ServerIds
    BY <2>1 DEF Typed, Requests, Needs
  <2>3. CASE pc'[x] \in BeforeTransfer
    <3>1. pc[x] \in BeforeTransfer
      BY <1>1, <1>5, <2>3, AddOrder DEF Others, BeforeTransfer, AddPcs, TransferPcs
    <3>2. data[arg[x].srv][k] = Absent
      BY <3>1 DEF JoinersData, BeforeTransfer
    <3>3. data'[arg[x].srv][k] = data[arg[x].srv][k]
      BY <1>3, <2>1, <3>1 DEF SendOne, BeforeTransfer
    <3>4. QED
      BY <2>1, <2>3, <3>2, <3>3 DEF BeforeTransfer
  <2>4. CASE pc'[x] \in {"send", "add_unlock"}
    <3>1. \/ pc[x] \in {"send", "add_unlock"} /\ arg'[x] = arg[x]
          \/ pc[x] = "add_lock" /\ UNCHANGED data
      BY <1>1, <1>5, <2>4, AddOrder DEF Others
    <3>2. CASE pc[x] = "add_lock" /\ UNCHANGED data
      BY <2>1, <2>4, <3>2 DEF JoinersData
    <3>3. CASE pc[x] \in {"send", "add_unlock"} /\ arg'[x] = arg[x]
      <4>1. data[arg[x].srv][k] \in {Absent, data[arg[x].from][k]}
        BY <3>3 DEF JoinersData
      <4>2. data'[arg[x].from][k] = data[arg[x].from][k]
        BY <1>4, <3>3
      <4>3. data'[arg[x].srv][k] \in {data[arg[x].srv][k], data[arg[x].from][k]}
        BY <1>3, <2>1
      <4>4. QED
        BY <2>4, <3>3, <4>1, <4>2, <4>3
    <3>4. QED
      BY <3>1, <3>2, <3>3
  <2>5. QED
    BY <1>5, <2>3, <2>4 DEF BeforeTransfer, AddPcs, TransferPcs
<1>6. QED
  BY <1>1, <1>2, <1>5 DEF JoinersData, Effect, AddPcs, TransferPcs

LEMMA StepWrittenWhileLocked ==
  ASSUME Underneath, NEW t \in Threads, ThreadStep(t)
  PROVE  WrittenWhileLocked'
<1> SUFFICES ASSUME ~SlowStart PROVE WrittenWhileLocked'
  BY DEF WrittenWhileLocked
<1> USE DEF Underneath, Walking
<1>r. Requests
  BY DEF Typed
<1>1. Effect(t) /\ Others(t) /\ UNCHANGED life
  BY StepEffect, StepDiscipline DEF ThreadStep
<1>2. ASSUME NEW x \in Threads, x # t, pc'[x] \in {"put_lock", "put_write"}
      PROVE  pc[x] = pc'[x] /\ UNCHANGED <<servers, isLocked, todo>>
  <2>1. pc[x] = pc'[x]
    BY <1>1, <1>2 DEF Others
  <2>2. monitor = x /\ monitor # None /\ pc[t] \notin LoopPcs
    BY <1>2, <2>1, NoneAssumption, LoopLabels DEF SingleWriter
  <2>3. QED
    BY <1>1, <2>1, <2>2 DEF Effect
<1> DEFINE Locked ==
             /\ pc'[t] = "put_lock" => \A s \in servers' \ todo' : Up(s) => isLocked'[s]
             /\ pc'[t] = "put_write" => \A s \in servers' : Up(s) => isLocked'[s]
<1>3. Locked
  <2>1. CASE PutEnter(t)
    BY <1>r, <2>1, GotoMoves DEF PutEnter, Enter
  <2>2. CASE PutLocked(t)
    <3>1. pc[t] = "put_lock" /\ todo = {} /\ pc'[t] = "put_write"
      BY <1>r, <2>2, GotoMoves DEF PutLocked, NextLoop
    <3>2. QED
      BY <2>2, <3>1 DEF PutLocked, NextLoop, serverVars, WrittenWhileLocked
  <2>3. CASE PutWritten(t) \/ PutDone(t) \/ Throw(t)
    BY <1>r, <2>3, GotoMoves, ReturnMoves DEF PutWritten, NextLoop, PutDone, Throw
  <2>4. ASSUME NEW s \in ServerIds, WriteOne(t, s) PROVE Locked
    BY <2>4 DEF WriteOne, requestVars, WrittenWhileLocked
  <2>5. ASSUME NEW s \in ServerIds, LockOne(t, s) PROVE Locked
    <3>1. pc' = pc /\ servers' = servers /\ todo' = todo \ {s} /\ pc[t] # "put_write"
      BY <2>5 DEF LockOne, requestVars
    <3>2. \A x \in ServerIds : isLocked[x] => isLocked'[x]
      BY <2>5 DEF LockOne, ServerLock, Typed, State
    <3>3. Up(s) => isLocked'[s]
      BY <2>5 DEF LockOne, ServerLock, Typed, State
    <3>4. QED
      BY <3>1, <3>2, <3>3 DEF WrittenWhileLocked, Typed, State
  <2>6. ASSUME NEW s \in ServerIds, UnlockOne(t, s) PROVE Locked
    BY <1>r, <2>6 DEF UnlockOne, ServerUnlock, Requests
  <2>7. CASE AddStep(t) \/ ReadStep(t)
    <3>1. pc[t] \notin PutPcs
      BY <2>7 DEF AddStep, AddFirst, AddOnly, AddEnter, AddSend, AddSendThrows, SendThrows,
                  AddSent, NextLoop, AddDone, SendOne, ReadStep, GetPick, GetExists, GetSend,
                  CheckLock, Park, ReadKey, ReadDone, ReadBroken, ReadPcs, PutPcs
    <3>2. pc'[t] \notin PutPcs
      BY <3>1, StepStaysInCall
    <3>3. QED
      BY <3>2 DEF PutPcs
  <2>8. QED
    BY <2>1, <2>2, <2>3, <2>4, <2>5, <2>6, <2>7 DEF ThreadStep, PutStep, LoopStep, LoopThrows
<1>4. QED
  BY <1>1, <1>2, <1>3 DEF WrittenWhileLocked, Up

Wants(t) ==
  pc'[t] \notin {"get_pick"} \cup AtServerPcs =>
    arg'[t].want = {} /\ arg'[t].shown = [k \in Keys |-> None]

LEMMA StepOnlyReadersWant ==
  ASSUME Underneath, NEW t \in Threads, ThreadStep(t)
  PROVE  OnlyReadersWant'
<1> USE DEF Underneath, Walking
<1>r. Requests
  BY DEF Typed
<1>1. Others(t)
  BY StepDiscipline
<1>2. \A x \in Threads \ {t} : Wants(x)
  BY <1>1 DEF Others, Wants, OnlyReadersWant, AtServerPcs, ReadPcs
<1>3. Wants(t)
  <2>1. ASSUME NEW answer, Return(t, answer) PROVE Wants(t)
    BY <1>r, <2>1 DEF Return, Requests, NoArgs, Wants
  <2>2. ASSUME arg'[t].want = arg[t].want, arg'[t].shown = arg[t].shown,
               pc[t] \notin {"get_pick"} \cup AtServerPcs
        PROVE  Wants(t)
    BY <2>2 DEF Wants, OnlyReadersWant
  <2>3. CASE AddFirst(t)
    <3>1. arg[t] \in Args /\ pc[t] \notin {"get_pick"} \cup AtServerPcs
      BY <1>r, <2>3 DEF AddFirst, Requests, AtServerPcs, ReadPcs
    <3>2. arg'[t] = arg[t] \/ \E s \in servers : arg'[t] = [arg[t] EXCEPT !.from = s]
      BY <1>r, <2>3 DEF AddFirst, Requests
    <3>3. arg'[t].want = arg[t].want /\ arg'[t].shown = arg[t].shown
      BY <3>1, <3>2 DEF Args
    <3>4. QED
      BY <2>2, <3>1, <3>3
  <2>4. CASE PutStep(t)
    BY <2>1, <2>2, <2>4 DEF PutStep, PutEnter, PutLocked, PutWritten, NextLoop, PutDone,
                            WriteOne, requestVars, AtServerPcs, ReadPcs
  <2>5. CASE LoopStep(t)
    BY <2>1, <2>2, <2>5 DEF LoopStep, LockOne, UnlockOne, LoopThrows, Throw, requestVars,
                            AtServerPcs, ReadPcs
  <2>6. CASE AddStep(t)
    BY <2>1, <2>2, <2>3, <2>6
       DEF AddStep, AddOnly, AddEnter, AddSend, AddSendThrows, SendThrows, Throw, AddSent,
           NextLoop, AddDone, SendOne, requestVars, AtServerPcs, ReadPcs
  <2>7. CASE ReadStep(t)
    <3>1. (\E answer : Return(t, answer)) \/ pc'[t] \in AtServerPcs
      BY <1>r, <2>7 DEF ReadStep, GetPick, GetExists, GetSend, CheckLock, Park, ReadKey,
                        ReadDone, ReadBroken, Goto, Requests, AtServerPcs, ReadPcs
    <3>2. QED
      BY <2>1, <3>1 DEF Wants
  <2>8. QED
    BY <2>4, <2>5, <2>6, <2>7 DEF ThreadStep
<1>4. QED
  BY <1>2, <1>3 DEF OnlyReadersWant, Wants

\* The calls: a new request, a new pod, or a server that leaves the list.
LEMMA CallUnderneath ==
  ASSUME Underneath, AsDriven, NEW t \in Threads, IsCall(t)
  PROVE  NoneStarting' /\ JoinersData' /\ WrittenWhileLocked' /\ OnlyReadersWant'
<1> USE DEF Underneath, Walking
<1>r. Requests
  BY DEF Typed
<1>1. CallEffect(t) /\ Others(t)
  BY CallHasEffect, CallDiscipline DEF IsCall
<1>d. UNCHANGED data
  BY DEF IsCall, ClientCall, GetCall, PutCall, List, ListServer, AddNode, AddAgain, AddCall,
         AdminCall, PrintCall, ShutdownServer, serverVars
<1>l. \A s \in ServerIds : life[s] # "absent" => life'[s] = life[s]
  BY <1>1 DEF CallEffect
<1>2. NoneStarting'
  BY <1>1 DEF CallEffect, NoneStarting
<1>3. JoinersData'
  <2>1. ASSUME NEW x \in Threads, x # t, pc'[x] \in AddPcs
        PROVE  pc[x] = pc'[x] /\ arg'[x] = arg[x]
    BY <1>1, <2>1 DEF Others, AddPcs, TransferPcs
  <2>2. ASSUME pc'[t] \in AddPcs
        PROVE  /\ pc'[t] \notin {"send", "add_unlock"}
               /\ \A k \in Keys : data'[arg'[t].srv][k] = Absent
    BY <1>1, <1>d, <2>2 DEF CallEffect, JoinersData, AsDriven, TransferPcs
  <2>3. \A s \in ServerIds, k \in Keys : life'[s] = "absent" => data'[s][k] = Absent
    BY <1>d, <1>l DEF JoinersData
  <2>4. ASSUME NEW x \in Threads, NEW k \in Keys
        PROVE  /\ pc'[x] \in {"add_first", "add_only", "add_enter", "add_lock"} =>
                    data'[arg'[x].srv][k] = Absent
               /\ pc'[x] \in {"send", "add_unlock"} =>
                    data'[arg'[x].srv][k] \in {Absent, data'[arg'[x].from][k]}
    BY <1>d, <2>1, <2>2 DEF JoinersData, AddPcs, TransferPcs
  <2>5. QED
    BY <2>3, <2>4 DEF JoinersData
<1>4. WrittenWhileLocked'
  <2> SUFFICES ASSUME ~SlowStart, NEW x \in Threads, pc'[x] \in {"put_lock", "put_write"}
               PROVE  /\ pc[x] = pc'[x] /\ UNCHANGED <<servers, isLocked, todo>>
                      /\ \A s \in servers : life'[s] = life[s]
    BY DEF WrittenWhileLocked, Up
  <2>1. x # t /\ pc[x] = pc'[x]
    BY <1>1, LoopLabels DEF CallEffect, Others
  <2>2. monitor # None
    BY <2>1, NoneAssumption, LoopLabels DEF SingleWriter
  <2>3. QED
    BY <1>1, <1>l, <2>1, <2>2 DEF CallEffect, Existing, Typed, State
<1>5. OnlyReadersWant'
  <2>1. \A x \in Threads \ {t} : Wants(x)
    BY <1>1 DEF Others, Wants, OnlyReadersWant, AtServerPcs, ReadPcs
  <2>2. ASSUME NEW answer, Return(t, answer) PROVE Wants(t)
    BY <1>r, <2>2 DEF Return, Requests, NoArgs, Wants
  <2>3. ASSUME NEW k \in Keys, NEW v \in Values, PutCall(t, k, v) PROVE Wants(t)
    <3>1. arg'[t] = [NoArgs EXCEPT !.key = k, !.val = v]
      BY <1>r, <2>3 DEF PutCall, Begin, Requests
    <3>2. QED
      BY <3>1 DEF NoArgs, Wants
  <2>4. ASSUME NEW s \in ServerIds, AddCall(t, s) PROVE Wants(t)
    <3>1. (\E answer : Return(t, answer)) \/ arg'[t] = [NoArgs EXCEPT !.srv = s]
      BY <1>r, <2>4 DEF AddCall, Begin, Requests
    <3>2. QED
      BY <2>2, <3>1 DEF NoArgs, Wants
  <2>5. ASSUME NEW k \in Keys, GetCall(t, k) PROVE Wants(t)
    <3>1. (\E answer : Return(t, answer)) \/ pc'[t] = "get_pick"
      BY <1>r, <2>5 DEF GetCall, Begin, Goto, Requests
    <3>2. QED
      BY <2>2, <3>1 DEF Wants
  <2>6. ASSUME NEW s \in ServerIds, PrintCall(t, s) PROVE Wants(t)
    <3>1. (\E answer : Return(t, answer)) \/ pc'[t] = "check"
      BY <1>r, <2>6 DEF PrintCall, Begin, Goto, Requests
    <3>2. QED
      BY <2>2, <3>1 DEF Wants, AtServerPcs, ReadPcs
  <2>7. Wants(t)
    BY <2>2, <2>3, <2>4, <2>5, <2>6
       DEF IsCall, ClientCall, List, ListServer, AddNode, AddAgain, AdminCall, ShutdownServer
  <2>8. QED
    BY <2>1, <2>7 DEF OnlyReadersWant, Wants
<1>6. QED
  BY <1>2, <1>3, <1>4, <1>5

LEMMA OthersUnderneath ==
  ASSUME Underneath, HeartBeatStep \/ JvmStep \/ UNCHANGED allVars
  PROVE  NoneStarting' /\ JoinersData' /\ WrittenWhileLocked' /\ OnlyReadersWant'
<1> USE DEF Underneath, Walking
<1>1. /\ UNCHANGED <<pc, arg, data, isLocked, todo, monitor>>
      /\ UNCHANGED servers \/ monitor = None
  BY DEF HeartBeatStep, Probe, Remove, JvmStep, allVars, vars, serverVars, requestVars,
         frontendVars
<1>2. \A s \in ServerIds :
        /\ life'[s] = "absent" => life[s] = "absent"
        /\ ~SlowStart => life'[s] \in {life[s], "crashed"}
  BY DEF HeartBeatStep, JvmStep, Start, Crash, allVars, NoneStarting, Typed, State
<1>3. NoneStarting' /\ JoinersData' /\ OnlyReadersWant'
  <2>1. NoneStarting'
    BY <1>2 DEF NoneStarting
  <2>2. JoinersData'
    BY <1>1, <1>2 DEF JoinersData
  <2>3. OnlyReadersWant'
    BY <1>1 DEF OnlyReadersWant
  <2>4. QED
    BY <2>1, <2>2, <2>3
<1>4. WrittenWhileLocked'
  <2> SUFFICES ASSUME ~SlowStart, NEW x \in Threads, pc[x] \in {"put_lock", "put_write"}
               PROVE  UNCHANGED servers
    <3>1. servers \subseteq ServerIds /\ (~SlowStart => \A s \in ServerIds : Up(s)' => Up(s))
      BY <1>2 DEF Up, Typed, State
    <3>2. QED
      BY <1>1, <3>1 DEF WrittenWhileLocked
  <2>1. monitor # None
    BY NoneAssumption, LoopLabels DEF SingleWriter
  <2>2. QED
    BY <1>1, <2>1
<1>5. QED
  BY <1>3, <1>4

LEMMA NextUnderneath ==
  AsDriven /\ Underneath /\ [Next]_allVars => Underneath'
<1> SUFFICES ASSUME AsDriven, Underneath, [Next]_allVars PROVE Underneath'
  OBVIOUS
<1>1. Replicated' /\ Walking' /\ NewIds'
  BY NextReplicates, NextWalks, NextKeepsNewIds DEF AsDriven, Underneath
<1>2. ASSUME NEW t \in Threads, ThreadStep(t)
      PROVE  NoneStarting' /\ JoinersData' /\ WrittenWhileLocked' /\ OnlyReadersWant'
  BY <1>2, StepJoinersData, StepWrittenWhileLocked, StepOnlyReadersWant
     DEF ThreadStep, NoneStarting, Underneath
<1>3. QED
  BY <1>1, <1>2, NextCases, CallUnderneath, OthersUnderneath DEF Underneath

-----------------------------------------------------------------------------
(* Who writes, and what the store holds meanwhile *)

LEMMA OnlyWriter ==
  ASSUME Underneath, NEW t \in Threads, pc[t] \in WritePcs
  PROVE  /\ Writing = {t} /\ Open = {arg[t].key}
         /\ arg[t].key \in Keys /\ arg[t].val \in Values
         /\ monitor = t /\ monitor # None
<1>1. WritePcs \subseteq LoopPcs
  BY DEF WritePcs, LoopPcs
<1>2. \A x \in Threads : pc[x] \in WritePcs => x = t
  BY <1>1, Solo DEF Underneath, Replicated
<1>3. Writing = {t}
  BY <1>2 DEF Writing, WritePcs
<1>4. QED
  BY <1>1, <1>3, NoneAssumption
     DEF Open, Underneath, Replicated, SingleWriter, Typed, Requests, Needs, PutPcs, WritePcs

LEMMA NoWriter ==
  ASSUME Underneath, monitor = None \/ \E t \in Threads : pc[t] \in LoopPcs \ WritePcs
  PROVE  Writing = {} /\ Open = {}
<1>1. \A x \in Threads : pc[x] \notin WritePcs
  BY OnlyWriter, NoneAssumption DEF Underneath, Replicated, SingleWriter
<1>2. QED
  BY <1>1 DEF Writing, Open, WritePcs

LEMMA NewByWriter ==
  ASSUME Underneath, NEW t \in Threads, pc[t] \in WritePcs
  PROVE  New(arg[t].key) = {arg[t].val} /\ \A k \in Keys \ {arg[t].key} : New(k) = {}
BY OnlyWriter DEF New

LEMMA NothingNew ==
  /\ Writing = {} => \A k \in Keys : New(k) = {}
  /\ Writing' = {} => \A k \in Keys : New(k)' = {}
BY DEF New

LEMMA HeldByWriter ==
  ASSUME Underneath, NEW t \in Threads, pc[t] \in WritePcs, servers # {}
  PROVE  Held(arg[t].key) = IF SlowStart THEN {arg[t].val} \cup prior[arg[t].key]
                            ELSE {arg[t].val}
BY OnlyWriter, NewByWriter DEF Held

LEMMA HeldTyped ==
  ASSUME Underneath, NEW k \in Keys \ Open
  PROVE  Held(k) \subseteq Stored /\ Held(k) # {}
<1>1. CASE servers = {}
  BY <1>1 DEF Held, Stored
<1>2. CASE servers # {}
  <2>1. Held(k) = {data[s][k] : s \in servers}
    BY <1>2 DEF Held
  <2>2. \A s \in servers : data[s][k] \in Stored
    BY DEF Underneath, Replicated, Typed, State
  <2>3. QED
    BY <1>2, <2>1, <2>2
<1>3. QED
  BY <1>1, <1>2

-----------------------------------------------------------------------------
(* Steps that leave the store alone *)

SameStore ==
  /\ Open' = Open /\ committed' = committed
  /\ \A k \in Keys : New(k)' = New(k)
  /\ \A k \in Keys : Held(k)' = Held(k)
  /\ (servers' = {}) = (servers = {})

LEMMA PriorStays ==
  ASSUME Priors, History, Open' = Open
  PROVE  prior' = prior
BY DEF Priors, History

\* The writer goes on writing, and what is not being written stays.
LEMMA StoreStays ==
  ASSUME Priors, History,
         NEW t \in Threads, Others(t), (pc'[t] \in WritePcs) = (pc[t] \in WritePcs),
         pc[t] \in WritePcs => arg'[t] = arg[t],
         UNCHANGED <<servers, committed>>,
         \A s \in servers, k \in Keys \ Open : data'[s][k] = data[s][k]
  PROVE  SameStore
<1>1. Writing' = Writing
  BY DEF Others, Writing, WritePcs
<1>2. \A w \in Writing : arg'[w] = arg[w]
  BY DEF Others, Writing, WritePcs
<1>3. Open' = Open
  BY <1>1, <1>2 DEF Open
<1>4. \A k \in Keys : New(k)' = New(k)
  BY <1>1, <1>2 DEF New
<1>5. prior' = prior
  BY <1>3, PriorStays
<1>6. ASSUME NEW k \in Keys PROVE Held(k)' = Held(k)
  <2>1. New(k)' = New(k)
    BY <1>4
  <2>2. k \notin Open => {data'[s][k] : s \in servers'} = {data[s][k] : s \in servers}
    OBVIOUS
  <2>3. QED
    BY <1>3, <1>5, <2>1, <2>2 DEF Held
<1>7. QED
  BY <1>3, <1>4, <1>6 DEF SameStore

LEMMA StoreUntouched ==
  ASSUME UNCHANGED <<pc, arg, servers, data, committed, prior>>
  PROVE  SameStore
BY DEF SameStore, Open, Writing, New, Held

LEMMA Watches == History => KV!Watch
BY DEF History, KV!Watch

\* No request learns or asks for anything.
LEMMA Stutters ==
  ASSUME Priors, Watching, History, SameStore,
         \A t \in Threads : arg'[t].want = arg[t].want /\ arg'[t].shown = arg[t].shown
  PROVE  UNCHANGED KV!kvVars
<1>1. prior' = prior
  BY PriorStays DEF SameStore
<1>2. ASSUME NEW t \in Threads, NEW k \in Keys PROVE seen'[t][k] = seen[t][k]
  <2>1. seen'[t][k] = IF k \in arg[t].want THEN seen[t][k] \cup Held(k) ELSE {}
    BY DEF History, SameStore
  <2>2. QED
    BY <2>1 DEF Watching
<1>3. seen' = seen
  BY <1>2 DEF History, Watching
<1>4. [k \in Keys |-> Held(k)]' = [k \in Keys |-> Held(k)]
  BY DEF SameStore
<1>5. [t \in Threads |-> arg[t].want]' = [t \in Threads |-> arg[t].want]
  OBVIOUS
<1>6. [t \in Threads |-> arg[t].shown]' = [t \in Threads |-> arg[t].shown]
  OBVIOUS
<1>7. [k \in Keys |-> New(k)]' = [k \in Keys |-> New(k)]
  BY DEF SameStore
<1>8. QED
  BY <1>1, <1>3, <1>4, <1>5, <1>6, <1>7 DEF KV!kvVars, SameStore

-----------------------------------------------------------------------------
(* Steps of the abstract store.  Each lemma asks for what a step of Cluster    *)
(* shows of it, and yields the step of KVStore.                                *)

\* Requests other than t's are left alone.
Else(t) == \A x \in Threads \ {t} : arg'[x] = arg[x]

LEMMA Asks ==
  ASSUME Priors, History, SameStore, NEW t \in Threads, Else(t),
         NEW K \in SUBSET Keys, arg[t].want = {}, arg'[t].want = K,
         arg'[t].shown = arg[t].shown
  PROVE  KV!Next
<1>1. prior' = prior
  BY PriorStays DEF SameStore
<1>2. /\ [k \in Keys |-> Held(k)]' = [k \in Keys |-> Held(k)]
      /\ [k \in Keys |-> New(k)]' = [k \in Keys |-> New(k)]
  BY DEF SameStore
<1>3. [x \in Threads |-> arg[x].want]' = [[x \in Threads |-> arg[x].want] EXCEPT ![t] = K]
  BY DEF Else
<1>4. [x \in Threads |-> arg[x].shown]' = [x \in Threads |-> arg[x].shown]
  BY DEF Else
<1>5. KV!Ask(t, K)
  BY <1>1, <1>2, <1>3, <1>4 DEF KV!Ask, SameStore
<1>6. QED
  BY <1>5, Watches DEF KV!Next

LEMMA Finishes ==
  ASSUME Priors, History, SameStore, NEW t \in Threads, Else(t), arg'[t] = NoArgs
  PROVE  KV!Next
<1>1. prior' = prior
  BY PriorStays DEF SameStore
<1>2. /\ [k \in Keys |-> Held(k)]' = [k \in Keys |-> Held(k)]
      /\ [k \in Keys |-> New(k)]' = [k \in Keys |-> New(k)]
  BY DEF SameStore
<1>0. arg'[t].want = {} /\ arg'[t].shown = [k \in Keys |-> None]
  BY DEF NoArgs
<1>3. [x \in Threads |-> arg[x].want]' = [[x \in Threads |-> arg[x].want] EXCEPT ![t] = {}]
  BY <1>0 DEF Else
<1>4. [x \in Threads |-> arg[x].shown]'
        = [[x \in Threads |-> arg[x].shown] EXCEPT ![t] = [k \in Keys |-> None]]
  BY <1>0 DEF Else
<1>5. KV!Finish(t)
  BY <1>1, <1>2, <1>3, <1>4 DEF KV!Finish, KV!NoAnswer, SameStore
<1>6. QED
  BY <1>5, Watches DEF KV!Next

LEMMA Tells ==
  ASSUME Priors, History, SameStore, NEW t \in Threads, Else(t),
         NEW k \in Keys, k \in arg[t].want, NEW v \in seen[t][k],
         arg'[t].want = arg[t].want \ {k},
         arg'[t].shown = [arg[t].shown EXCEPT ![k] = v]
  PROVE  KV!Next
<1>1. prior' = prior
  BY PriorStays DEF SameStore
<1>2. /\ [j \in Keys |-> Held(j)]' = [j \in Keys |-> Held(j)]
      /\ [j \in Keys |-> New(j)]' = [j \in Keys |-> New(j)]
  BY DEF SameStore
<1>3. [x \in Threads |-> arg[x].want]'
        = [[x \in Threads |-> arg[x].want] EXCEPT ![t] = @ \ {k}]
  BY DEF Else
<1>4. [x \in Threads |-> arg[x].shown]'
        = [[x \in Threads |-> arg[x].shown] EXCEPT ![t][k] = v]
  BY DEF Else
<1>5. KV!Tell(t, k)
  BY <1>1, <1>2, <1>3, <1>4 DEF KV!Tell, SameStore
<1>6. QED
  BY <1>5, Watches DEF KV!Next

\* What readers see of the changes to the store: nothing is asked or told.
SameRequestsSeen ==
  \A t \in Threads : arg'[t].want = arg[t].want /\ arg'[t].shown = arg[t].shown

LEMMA NothingAsked ==
  ASSUME SameRequestsSeen
  PROVE  /\ [x \in Threads |-> arg[x].want]' = [x \in Threads |-> arg[x].want]
         /\ [x \in Threads |-> arg[x].shown]' = [x \in Threads |-> arg[x].shown]
BY DEF SameRequestsSeen

\* What is being written: v at j, or nothing.
OnlyNew(j, v) == [k \in Keys |-> New(k)] = [k \in Keys |-> IF k = j THEN {v} ELSE {}]
NoneNew == [k \in Keys |-> New(k)] = [k \in Keys |-> {}]

LEMMA Writes ==
  ASSUME Priors, History, SameRequestsSeen, NEW j \in Keys, NEW v \in Values,
         Open = {}, Open' = {j}, UNCHANGED <<servers, committed>>,
         NoneNew, OnlyNew(j, v)',
         servers # {} => Held(j)' = IF SlowStart THEN Held(j) \cup {v} ELSE {v},
         servers = {} => Held(j)' = Held(j),
         \A k \in Keys \ {j} : Held(k)' = Held(k)
  PROVE  KV!Next
<1>1. prior' = [prior EXCEPT ![j] = Held(j)]
  BY DEF Priors, History
<1>2. [k \in Keys |-> Held(k)]'
        = IF servers # {}
          THEN [[k \in Keys |-> Held(k)] EXCEPT
                  ![j] = IF SlowStart THEN Held(j) \cup {v} ELSE {v}]
          ELSE [k \in Keys |-> Held(k)]
  OBVIOUS
<1>3. KV!Store(j, IF SlowStart THEN Held(j) \cup {v} ELSE {v})
  BY <1>2 DEF KV!Store
<1>4. [k \in Keys |-> New(k)]' = [[k \in Keys |-> New(k)] EXCEPT ![j] = {v}]
  BY DEF NoneNew, OnlyNew
<1>5. [k \in Keys |-> New(k)][j] = {}
  BY DEF NoneNew
<1>6. [k \in Keys |-> Held(k)][j] = Held(j)
  OBVIOUS
<1>7. KV!Write(j, v)
  BY <1>1, <1>3, <1>4, <1>5, <1>6, NothingAsked DEF KV!Write
<1>8. QED
  BY <1>7, Watches DEF KV!Next

\* A put is over, one way or the other.
LEMMA Closes ==
  ASSUME Priors, History, SameRequestsSeen, NEW j \in Keys, NEW v \in Values,
         Open = {j}, Open' = {}, UNCHANGED servers, OnlyNew(j, v), NoneNew'
  PROVE  KV!Close(j) /\ [k \in Keys |-> New(k)][j] = {v}
<1>1. prior' = [prior EXCEPT ![j] = {}]
  BY DEF Priors, History
<1>2. [k \in Keys |-> New(k)]' = [[k \in Keys |-> New(k)] EXCEPT ![j] = {}]
  BY DEF NoneNew, OnlyNew
<1>3. [k \in Keys |-> New(k)][j] = {v}
  BY DEF OnlyNew
<1>4. QED
  BY <1>1, <1>2, <1>3, NothingAsked DEF KV!Close

LEMMA Acknowledges ==
  ASSUME Priors, History, SameRequestsSeen, NEW j \in Keys, NEW v \in Values,
         Open = {j}, Open' = {}, UNCHANGED servers, OnlyNew(j, v), NoneNew',
         committed' = [committed EXCEPT ![j] = v],
         servers # {} => Held(j)' = {v},
         servers = {} => Held(j)' = Held(j),
         \A k \in Keys \ {j} : Held(k)' = Held(k)
  PROVE  KV!Next
<1>1. [k \in Keys |-> Held(k)]'
        = IF servers # {} THEN [[k \in Keys |-> Held(k)] EXCEPT ![j] = {v}]
          ELSE [k \in Keys |-> Held(k)]
  OBVIOUS
<1>2. KV!Store(j, {v})
  BY <1>1 DEF KV!Store
<1>3. KV!Acknowledge(j)
  BY <1>2, Closes DEF KV!Acknowledge
<1>4. QED
  BY <1>3, Watches DEF KV!Next

LEMMA Fails ==
  ASSUME Priors, History, SameRequestsSeen, NEW j \in Keys, NEW v \in Values,
         Open = {j}, Open' = {}, UNCHANGED servers, OnlyNew(j, v), NoneNew',
         committed' = [committed EXCEPT ![j] = None],
         \A k \in Keys \ {j} : Held(k)' = Held(k),
         Held(j)' \subseteq Held(j) \cup prior[j], Held(j)' # {}
  PROVE  KV!Next
<1>1. PICK S : S = Held(j)'
  OBVIOUS
<1>2. [k \in Keys |-> Held(k)]' = [[k \in Keys |-> Held(k)] EXCEPT ![j] = S]
  BY <1>1
<1>3. S \subseteq [k \in Keys |-> Held(k)][j] \cup prior[j] /\ S # {}
  BY <1>1
<1>4. KV!Fail(j)
  BY <1>2, <1>3, Closes DEF KV!Fail
<1>5. QED
  BY <1>4, Watches DEF KV!Next

\* A server leaves the list while nobody writes.
LEMMA Leaves ==
  ASSUME Underneath, Priors, Watching, History, SameRequestsSeen,
         Writing = {}, Writing' = {},
         UNCHANGED <<data, committed>>, servers' \subseteq servers
  PROVE  KV!Next \/ UNCHANGED KV!kvVars
<1>o. Open = {} /\ Open' = {}
  BY DEF Open
<1>n. NoneNew /\ NoneNew'
  BY NothingNew DEF NoneNew
<1>1. prior' = prior
  BY <1>o, PriorStays
<1>2. \A k \in Keys : Held(k) = IF servers = {} THEN {Absent} ELSE {data[s][k] : s \in servers}
  BY <1>o DEF Held
<1>3. \A k \in Keys : Held(k)' = IF servers' = {} THEN {Absent} ELSE {data[s][k] : s \in servers'}
  BY <1>o DEF Held
<1>4. CASE servers = {}
  <2>1. SameStore
    BY <1>o, <1>2, <1>3, <1>4, NothingNew DEF SameStore
  <2>2. QED
    BY <2>1, Stutters DEF SameRequestsSeen
<1>5. CASE servers # {} /\ servers' = {}
  <2>1. [k \in Keys |-> Held(k)]' = [k \in Keys |-> {Absent}]
    BY <1>3, <1>5
  <2>2. KV!Lose
    BY <1>1, <1>5, <1>n, <2>1, NothingAsked DEF KV!Lose, KV!Empty, KV!NoValues, NoneNew
  <2>3. QED
    BY <2>2, Watches DEF KV!Next
<1>6. CASE servers' # {}
  <2>1. \A k \in Keys : Held(k)' \subseteq Held(k) /\ Held(k)' # {}
    BY <1>2, <1>3, <1>6
  <2>2. ASSUME NEW k \in Keys PROVE Held(k)' \in (SUBSET (Values \cup {Absent})) \ {{}}
    <3>1. Held(k) \subseteq Values \cup {Absent}
      BY <1>o, HeldTyped DEF Stored
    <3>2. QED
      BY <2>1, <3>1
  <2> DEFINE next == [k \in Keys |-> Held(k)']
  <2>3. next \in [Keys -> (SUBSET (Values \cup {Absent})) \ {{}}]
    BY <2>2
  <2>4. \A k \in Keys : next[k] \subseteq [j \in Keys |-> Held(j)][k]
    BY <2>1
  <2>5. KV!Settle
    BY <1>1, <1>6, <1>n, <2>3, <2>4, NothingAsked DEF KV!Settle, NoneNew
  <2>6. QED
    BY <2>5, Watches DEF KV!Next
<1>7. QED
  BY <1>4, <1>5, <1>6

LEMMA FirstJoins ==
  ASSUME Priors, History, SameRequestsSeen, Writing = {}, Writing' = {},
         servers = {}, servers' # {}, \A k \in Keys : Held(k)' = Held(k),
         committed' = [k \in Keys |-> Absent]
  PROVE  KV!Next
<1>o. Open = {} /\ Open' = {}
  BY DEF Open
<1>n. NoneNew /\ NoneNew'
  BY NothingNew DEF NoneNew
<1>1. prior' = prior
  BY <1>o, PriorStays
<1>2. [k \in Keys |-> Held(k)]' = [k \in Keys |-> Held(k)]
  OBVIOUS
<1>3. KV!FirstReplica
  BY <1>1, <1>2, <1>n, NothingAsked DEF KV!FirstReplica, KV!NoValues, KV!Unset, NoneNew
<1>4. QED
  BY <1>3, Watches DEF KV!Next

-----------------------------------------------------------------------------
(* The invariant about the history: what all steps share *)

Mapped == KV!Next \/ UNCHANGED KV!kvVars

LEMMA HistoryWatches == History => Watching'
<1> SUFFICES ASSUME History PROVE Watching'
  OBVIOUS
<1>1. seen' = [t \in Threads |-> [k \in Keys |-> seen'[t][k]]]
  BY DEF History
<1>2. ASSUME NEW t \in Threads, NEW k \in Keys
      PROVE  IF k \in arg'[t].want THEN Held(k)' \subseteq seen'[t][k] ELSE seen'[t][k] = {}
  <2>1. seen'[t][k] = IF k \in arg'[t].want THEN seen[t][k] \cup Held(k)' ELSE {}
    BY DEF History
  <2>2. QED
    BY <2>1
<1>3. QED
  BY <1>1, <1>2 DEF Watching

LEMMA PriorsKept ==
  ASSUME Priors, History, Open' = Open, \A k \in Keys : Held(k)' = Held(k),
         servers' \subseteq servers,
         \A s \in servers, k \in Keys \cap Open :
           data'[s][k] = data[s][k] \/ data'[s][k] \in Held(k)
  PROVE  Priors'
<1>1. prior' = prior
  BY PriorStays
<1>2. QED
  BY <1>1 DEF Priors

LEMMA PriorsClosed ==
  ASSUME History, Open' = {}
  PROVE  Priors'
BY DEF History, Priors

\* A request that stays at its server, and does not begin to read.
Carries(t) ==
  pc'[t] \in AtServerPcs =>
    /\ pc[t] \in AtServerPcs /\ arg'[t].srv = arg[t].srv
    /\ arg'[t].want \subseteq arg[t].want
    /\ pc'[t] = "read" => pc[t] = "read"

LEMMA OthersCarry ==
  ASSUME NEW t \in Threads, Others(t)
  PROVE  \A x \in Threads \ {t} : Carries(x)
BY DEF Others, Carries, AtServerPcs, ReadPcs

\* What is pending gets written or stays pending; what is not, stays as it is
\* or is written with a value the store holds.
Progress ==
  /\ \A s \in ServerIds, k \in Keys : data'[s][k] = data[s][k] \/ data'[s][k] \in Held(k)'
  /\ \A s \in ServerIds, k \in Keys : Pending(s, k) => Pending(s, k)' \/ data'[s][k] \in Held(k)'
  /\ \A s \in ServerIds : life[s] = "crashed" => life'[s] = "crashed"

LEMMA ReadersKeep ==
  ASSUME Underneath, Readable, History, Progress,
         \A x \in Threads : Carries(x) \/ ReadableBy(x)'
  PROVE  Readable'
<1> SUFFICES ASSUME NEW x \in Threads, Carries(x) PROVE ReadableBy(x)'
  BY DEF Readable
<1> SUFFICES ASSUME pc'[x] \in AtServerPcs, NEW k \in arg'[x].want
             PROVE  \/ data'[arg'[x].srv][k] \in seen'[x][k]
                    \/ life'[arg'[x].srv] = "crashed"
                    \/ pc'[x] # "read" /\ Pending(arg[x].srv, k)'
  BY DEF ReadableBy
<1>1. /\ pc[x] \in AtServerPcs /\ arg'[x].srv = arg[x].srv /\ k \in arg[x].want
      /\ pc'[x] = "read" => pc[x] = "read"
  BY DEF Carries
<1>2. k \in Keys
  BY <1>1 DEF Underneath, Walking, Typed, Requests, Needs, Args
<1>3. PICK s \in ServerIds : s = arg[x].srv
  BY <1>1 DEF Underneath, Walking, Typed, Requests, Needs, Args
<1>4. seen'[x][k] = seen[x][k] \cup Held(k)'
  BY <1>2 DEF History
<1>5. CASE data[s][k] \in seen[x][k]
  BY <1>1, <1>2, <1>3, <1>4, <1>5 DEF Progress
<1>6. CASE life[s] = "crashed"
  BY <1>1, <1>3, <1>6 DEF Progress
<1>7. CASE pc[x] # "read" /\ Pending(s, k)
  <2>1. CASE data'[s][k] \in Held(k)'
    BY <1>1, <1>3, <1>4, <2>1
  <2>2. CASE Pending(s, k)'
    <3>1. Pending(arg[x].srv, k)'
      BY <1>1, <1>3, <2>2 DEF Pending
    <3>2. QED
      BY <1>1, <1>7, <3>1
  <2>3. QED
    BY <1>2, <1>7, <2>1, <2>2 DEF Progress
<1>8. QED
  BY <1>1, <1>3, <1>5, <1>6, <1>7 DEF Readable, ReadableBy

\* The write in progress is not disturbed by other threads.
LEMMA PendingStays ==
  ASSUME Underneath, NEW t \in Threads, ThreadStep(t), pc[t] # "put_write",
         NEW s \in ServerIds, NEW k \in Keys, Pending(s, k)
  PROVE  Pending(s, k)'
<1> USE DEF Underneath, Walking
<1>1. Effect(t) /\ Others(t)
  BY StepEffect, StepDiscipline
<1>2. PICK w \in Threads : pc[w] = "put_write" /\ arg[w].key = k /\ s \in todo
  BY DEF Pending
<1>3. monitor = w /\ monitor # None /\ pc[t] \notin LoopPcs
  BY <1>2, NoneAssumption, LoopLabels DEF SingleWriter
<1>4. UNCHANGED <<isLocked, todo>> /\ pc'[w] = pc[w] /\ arg'[w] = arg[w]
  BY <1>1, <1>2, <1>3 DEF Effect, Others
<1>5. QED
  BY <1>2, <1>4 DEF Pending

\* What a request finds that comes to a registered server.
LEMMA Arrives ==
  ASSUME Underneath, Priors, NEW s \in servers, NEW k \in Keys
  PROVE  data[s][k] \in Held(k) \/ life[s] = "crashed" \/ Pending(s, k)
<1> USE DEF Underneath, Walking
<1>1. CASE k \notin Open
  BY <1>1 DEF Held
<1>2. CASE k \in Open /\ SlowStart
  BY <1>2 DEF Priors, Held
<1>3. CASE k \in Open /\ ~SlowStart
  <2>1. PICK w \in Threads : pc[w] \in WritePcs /\ arg[w].key = k
    BY <1>3 DEF Open, Writing, WritePcs
  <2>2. Held(k) = {arg[w].val}
    BY <1>3, <2>1, HeldByWriter
  <2>3. CASE pc[w] = "put_unlock" \/ s \notin todo
    BY <2>1, <2>2, <2>3 DEF Replicated, WriteProgress, WritePcs
  <2>4. CASE pc[w] = "put_write" /\ s \in todo
    <3>1. Up(s) => isLocked[s]
      BY <1>3, <2>4 DEF WrittenWhileLocked
    <3>2. Up(s) \/ life[s] = "crashed"
      BY <1>3 DEF Existing, NoneStarting, Typed, State, Up
    <3>3. QED
      BY <2>1, <2>4, <3>1, <3>2 DEF Pending
  <2>5. QED
    BY <2>1, <2>3, <2>4 DEF WritePcs
<1>4. QED
  BY <1>1, <1>2, <1>3

\* A step after which the store holds what it held, and nobody reads elsewhere.
LEMMA StoreKept ==
  ASSUME Underneath, Priors, Readable, History, SameStore, UNCHANGED servers,
         \A s \in servers, k \in Keys \cap Open :
           data'[s][k] = data[s][k] \/ data'[s][k] \in Held(k),
         Progress, \A x \in Threads : Carries(x) \/ ReadableBy(x)'
  PROVE  Priors' /\ Readable'
BY PriorsKept, ReadersKeep DEF SameStore

-----------------------------------------------------------------------------
(* get and printKVPairs *)

LEMMA ReadMaps ==
  ASSUME Underneath, Priors, Watching, Readable, History,
         NEW t \in Threads, ReadStep(t), UNCHANGED frontendVars, ThreadStep(t)
  PROVE  Mapped /\ Priors' /\ Readable'
<1> USE DEF Underneath, Walking
<1>r. Requests
  BY DEF Typed
<1>o. Others(t) /\ UNCHANGED <<life, servers, data, committed>>
  BY StepDiscipline DEF ThreadStep, frontendVars, ReadStep, GetPick, GetExists, GetSend,
     CheckLock, Park, ReadKey, ReadDone, ReadBroken, serverVars
<1>w. pc[t] \notin PutPcs \cup AddPcs /\ pc'[t] \notin PutPcs \cup AddPcs
  <2>1. pc[t] \notin PutPcs \cup AddPcs
    BY DEF ReadStep, GetPick, GetExists, GetSend, CheckLock, Park, ReadKey, ReadDone,
           ReadBroken, ReadPcs, PutPcs, AddPcs, TransferPcs
  <2>2. QED
    BY <2>1, StepStaysInCall
<1>1. SameStore
  BY <1>o, <1>w, StoreStays DEF WritePcs, PutPcs
<1>2. Progress
  BY <1>o, <1>w, PendingStays DEF Progress, PutPcs
<1>e. Else(t)
  BY <1>o DEF Else, Others
<1>3. ASSUME Carries(t) \/ ReadableBy(t)' PROVE Priors' /\ Readable'
  BY <1>o, <1>1, <1>2, <1>3, OthersCarry, StoreKept
<1>4. ASSUME NEW answer, Return(t, answer) PROVE Mapped /\ Priors' /\ Readable'
  <2>1. arg'[t] = NoArgs /\ pc'[t] = "idle"
    BY <1>r, <1>4 DEF Return, Requests
  <2>2. Carries(t)
    BY <2>1 DEF Carries, AtServerPcs, ReadPcs
  <2>3. QED
    BY <1>1, <1>3, <1>e, <2>1, <2>2, Finishes DEF Mapped
<1>5. ASSUME arg'[t].want = arg[t].want, arg'[t].shown = arg[t].shown PROVE Mapped
  BY <1>1, <1>5, <1>e, Stutters DEF Else, Mapped
<1>6. CASE GetPick(t)
  <2>1. ASSUME NEW s \in servers, Goto(t, "get_exists"),
               arg' = [arg EXCEPT ![t] = [@ EXCEPT !.srv = s, !.idx = 0]]
        PROVE  Mapped /\ Priors' /\ Readable'
    <3>1. arg[t] \in Args /\ arg'[t] = [arg[t] EXCEPT !.srv = s, !.idx = 0]
      BY <1>r, <2>1 DEF Requests
    <3>2. /\ arg'[t].want = arg[t].want /\ arg'[t].shown = arg[t].shown
          /\ arg'[t].srv = s /\ arg[t].want \subseteq Keys
      BY <3>1 DEF Args
    <3>3. pc'[t] = "get_exists"
      BY <1>r, <2>1 DEF Goto, Requests
    <3>4. ReadableBy(t)'
      <4> SUFFICES ASSUME NEW k \in arg[t].want
                   PROVE  \/ data'[s][k] \in seen'[t][k]
                          \/ life'[s] = "crashed"
                          \/ Pending(s, k)'
        BY <3>2, <3>3 DEF ReadableBy
      <4>1. k \in Keys /\ s \in ServerIds
        BY <3>2 DEF Typed, State
      <4>2. seen'[t][k] = seen[t][k] \cup Held(k)
        BY <1>1, <3>2, <4>1 DEF History, SameStore
      <4>3. data[s][k] \in Held(k) \/ life[s] = "crashed" \/ Pending(s, k)
        BY <4>1, Arrives
      <4>4. QED
        BY <1>o, <1>w, <4>1, <4>2, <4>3, PendingStays DEF PutPcs
    <3>5. QED
      BY <1>3, <1>5, <3>2, <3>4
  <2>2. QED
    BY <1>4, <1>6, <2>1 DEF GetPick
<1>7. ASSUME UNCHANGED arg, pc[t] \in AtServerPcs,
             NEW label \in {"get_call", "check", "park", "wait"}, Goto(t, label)
      PROVE  Mapped /\ Priors' /\ Readable'
  <2>1. pc'[t] # "read"
    BY <1>r, <1>7 DEF Goto, Requests
  <2>2. Carries(t)
    BY <1>7, <2>1 DEF Carries
  <2>3. QED
    BY <1>3, <1>5, <1>7, <2>2
<1>8. CASE GetExists(t) \/ GetSend(t)
  BY <1>4, <1>7, <1>8 DEF GetExists, GetSend, AtServerPcs
<1>9. CASE Park(t)
  BY <1>7, <1>9 DEF Park, AtServerPcs, ReadPcs
<1>10. CASE CheckLock(t)
  <2>1. CASE isLocked[arg[t].srv]
    BY <1>7, <1>10, <2>1 DEF CheckLock, AtServerPcs, ReadPcs
  <2>2. CASE ~isLocked[arg[t].srv]
    <3>1. pc[t] = "check" /\ pc'[t] = "read" /\ UNCHANGED arg
      BY <1>r, <1>10, <2>2, GotoMoves DEF CheckLock
    <3>2. ReadableBy(t)'
      <4> SUFFICES ASSUME NEW k \in arg[t].want
                   PROVE  data'[arg[t].srv][k] \in seen'[t][k] \/ life'[arg[t].srv] = "crashed"
        BY <3>1 DEF ReadableBy
      <4>1. k \in Keys
        BY <1>r DEF Requests, Args
      <4>2. seen[t][k] \subseteq seen'[t][k]
        BY <3>1, <4>1 DEF History
      <4>3. data[arg[t].srv][k] \in seen[t][k] \/ life[arg[t].srv] = "crashed"
        BY <2>2, <3>1 DEF Readable, ReadableBy, Pending, AtServerPcs, ReadPcs
      <4>4. QED
        BY <1>o, <4>2, <4>3
    <3>3. QED
      BY <1>3, <1>5, <3>1, <3>2
  <2>3. QED
    BY <2>1, <2>2
<1>11. ASSUME NEW k \in Keys, ReadKey(t, k) PROVE Mapped /\ Priors' /\ Readable'
  <2> DEFINE v == data[arg[t].srv][k]
             a == [arg[t] EXCEPT !.want = arg[t].want \ {k}, !.shown[k] = v]
  <2>1. /\ pc[t] = "read" /\ pc' = pc /\ Up(arg[t].srv) /\ k \in arg[t].want
        /\ arg[t] \in Args
    BY <1>r, <1>11 DEF ReadKey, Requests
  <2>2. arg'[t] = a
    BY <1>r, <1>11 DEF ReadKey, Requests
  <2>3. v \in seen[t][k]
    BY <2>1 DEF Readable, ReadableBy, AtServerPcs, ReadPcs, Up
  <2> HIDE DEF v
  <2>4. /\ a.want = arg[t].want \ {k} /\ a.srv = arg[t].srv
        /\ a.shown = [arg[t].shown EXCEPT ![k] = v]
    BY <2>1 DEF Args
  <2> HIDE DEF a
  <2>5. Carries(t)
    BY <2>1, <2>2, <2>4 DEF Carries, AtServerPcs, ReadPcs
  <2>6. Mapped
    BY <1>1, <1>e, <2>1, <2>2, <2>3, <2>4, Tells DEF Mapped
  <2>7. QED
    BY <1>3, <2>5, <2>6
<1>12. CASE ReadDone(t) \/ ReadBroken(t)
  BY <1>4, <1>12 DEF ReadDone, ReadBroken
<1>13. QED
  BY <1>6, <1>8, <1>9, <1>10, <1>11, <1>12 DEF ReadStep

-----------------------------------------------------------------------------
(* put and the loops *)

WriterStep(t) == PutStep(t) \/ LoopStep(t) \/ AddStep(t)

\* A put or an addServer tells nothing and reads at no server.
LEMMA WritersTellNothing ==
  ASSUME Underneath, OnlyReadersWant', NEW t \in Threads, ThreadStep(t), WriterStep(t)
  PROVE  SameRequestsSeen /\ \A x \in Threads : Carries(x)
<1> DEFINE ReaderPcs == {"get_pick"} \cup AtServerPcs
<1>r. Requests
  BY DEF Underneath, Walking, Typed
<1>o. Others(t)
  BY StepDiscipline DEF Underneath, Walking
<1>1. pc[t] \notin ReaderPcs /\ pc'[t] \notin ReaderPcs
  <2>1. CASE PutStep(t)
    BY <1>r, <2>1, GotoMoves, ReturnMoves
       DEF PutStep, PutEnter, PutLocked, PutWritten, NextLoop, PutDone, WriteOne,
           requestVars, AtServerPcs, ReadPcs
  <2>2. CASE LoopStep(t)
    BY <1>r, <2>2, ReturnMoves
       DEF LoopStep, LockOne, UnlockOne, ServerUnlock, LoopThrows, Throw, requestVars,
           Requests, AtServerPcs, ReadPcs
  <2>3. CASE AddStep(t)
    BY <1>r, <2>3, GotoMoves, ReturnMoves
       DEF AddStep, AddFirst, AddOnly, AddEnter, AddSend, AddSendThrows, SendThrows, Throw,
           AddSent, NextLoop, AddDone, SendOne, requestVars, AtServerPcs, ReadPcs
  <2>4. QED
    BY <2>1, <2>2, <2>3 DEF WriterStep
<1>2. SameRequestsSeen
  <2>1. arg[t].want = {} /\ arg[t].shown = [k \in Keys |-> None]
    BY <1>1 DEF Underneath, OnlyReadersWant
  <2>2. arg'[t].want = {} /\ arg'[t].shown = [k \in Keys |-> None]
    BY <1>1 DEF OnlyReadersWant
  <2>3. QED
    BY <1>o, <2>1, <2>2 DEF SameRequestsSeen, Others
<1>3. Carries(t)
  BY <1>1 DEF Carries
<1>4. QED
  BY <1>o, <1>2, <1>3, OthersCarry

\* A step of a put or an addServer that leaves the store and the data alone.
LEMMA QuietStep ==
  ASSUME OneStore, History, OnlyReadersWant', NEW t \in Threads, ThreadStep(t), WriterStep(t),
         UNCHANGED <<servers, data, committed>>, pc[t] # "put_write",
         (pc'[t] \in WritePcs) = (pc[t] \in WritePcs),
         pc[t] \in WritePcs => arg'[t] = arg[t]
  PROVE  Mapped /\ Priors' /\ Readable'
<1> USE DEF OneStore
<1>1. Others(t) /\ UNCHANGED life
  BY StepDiscipline DEF ThreadStep, Underneath, Walking
<1>2. SameStore
  BY <1>1, StoreStays
<1>3. Progress
  BY <1>1, PendingStays DEF Progress
<1>4. QED
  BY <1>2, <1>3, WritersTellNothing, StoreKept, Stutters DEF Mapped, SameRequestsSeen

LEMMA WriterEnters ==
  ASSUME NEW t \in Threads, Others(t), Writing = {}, pc'[t] \in WritePcs,
         arg'[t].key = arg[t].key
  PROVE  Writing' = {t} /\ Open' = {arg[t].key}
<1>1. Writing' = {t}
  BY DEF Others, Writing, WritePcs
<1>2. QED
  BY <1>1 DEF Open

LEMMA WriterLeaves ==
  ASSUME NEW t \in Threads, Others(t), Writing \subseteq {t}, pc'[t] \notin WritePcs
  PROVE  Writing' = {} /\ Open' = {}
<1>1. Writing' = {}
  BY DEF Others, Writing, WritePcs
<1>2. QED
  BY <1>1 DEF Open

\* The lock loop ends: the put takes effect.
LEMMA LockedMaps ==
  ASSUME OneStore, History, OnlyReadersWant', NEW t \in Threads, ThreadStep(t), PutLocked(t),
         WriterStep(t)
  PROVE  Mapped /\ Priors' /\ Readable'
<1> USE DEF OneStore
<1>1. /\ pc[t] = "put_lock" /\ pc'[t] = "put_write" /\ arg' = arg
      /\ UNCHANGED <<servers, data, isLocked, committed>>
  BY GotoMoves DEF PutLocked, NextLoop, serverVars, Underneath, Walking, Typed
<1>2. Others(t) /\ UNCHANGED life
  BY StepDiscipline DEF ThreadStep, Underneath, Walking
<1>p. PICK j \in Keys, v \in Values : j = arg[t].key /\ v = arg[t].val
  BY <1>1 DEF Underneath, Walking, Typed, Requests, Needs, PutPcs
<1>3. Writing = {} /\ Open = {}
  BY <1>1, LoopLabels, NoWriter DEF WritePcs
<1>4. Writing' = {t} /\ Open' = {j}
  BY <1>1, <1>2, <1>3, <1>p, WriterEnters DEF WritePcs
<1>n. NoneNew /\ OnlyNew(j, v)'
  <2>1. NoneNew
    BY <1>3, NothingNew DEF NoneNew
  <2>2. New(j)' = {v} /\ \A k \in Keys \ {j} : New(k)' = {}
    BY <1>1, <1>4, <1>p DEF New
  <2>3. QED
    BY <2>1, <2>2 DEF OnlyNew
<1>h. New(j)' = {v} /\ prior'[j] = Held(j)
  BY <1>1, <1>3, <1>4, <1>p DEF New, History
<1>5. servers # {} => Held(j)' = IF SlowStart THEN Held(j) \cup {v} ELSE {v}
  BY <1>1, <1>4, <1>h DEF Held
<1>6. servers = {} => Held(j)' = Held(j)
  BY <1>1 DEF Held
<1>7. \A k \in Keys \ {j} : Held(k)' = Held(k)
  BY <1>1, <1>3, <1>4 DEF Held
<1>8. SameRequestsSeen /\ \A x \in Threads : Carries(x)
  BY WritersTellNothing
<1>9. Mapped
  BY <1>1, <1>2, <1>3, <1>4, <1>5, <1>6, <1>7, <1>8, <1>n, Writes DEF Mapped
<1>10. Priors'
  <2>1. prior' = [k \in Keys |-> IF k = j THEN Held(j) ELSE {}]
    BY <1>3, <1>4 DEF History
  <2>2. \A s \in servers : data[s][j] \in Held(j)
    BY <1>3 DEF Held
  <2>3. QED
    BY <1>1, <1>2, <1>4, <2>1, <2>2 DEF Priors
<1>11. Progress
  BY <1>1, <1>2, PendingStays DEF Progress
<1>12. QED
  BY <1>8, <1>9, <1>10, <1>11, ReadersKeep

\* One server is written: nobody can tell.
LEMMA WriteMaps ==
  ASSUME OneStore, History, OnlyReadersWant', NEW t \in Threads, ThreadStep(t), WriterStep(t),
         NEW s \in ServerIds, WriteOne(t, s)
  PROVE  Mapped /\ Priors' /\ Readable'
<1> USE DEF OneStore
<1>1. /\ pc[t] = "put_write" /\ pc' = pc /\ arg' = arg /\ todo' = todo \ {s}
      /\ UNCHANGED <<servers, isLocked, committed>>
  BY DEF WriteOne, requestVars
<1>2. Others(t) /\ UNCHANGED life
  BY StepDiscipline DEF ThreadStep, Underneath, Walking
<1>3. /\ s \in servers
      /\ \A x \in ServerIds, k \in Keys :
           data'[x][k] = IF x = s /\ k = arg[t].key THEN arg[t].val ELSE data[x][k]
  BY WriteAt
<1>4. Writing = {t} /\ Open = {arg[t].key} /\ arg[t].key \in Keys
  BY <1>1, OnlyWriter DEF WritePcs
<1>5. arg[t].val \in Held(arg[t].key)
  BY <1>1, <1>3, HeldByWriter DEF WritePcs
<1>6. servers \subseteq ServerIds
  BY DEF Underneath, Walking, Typed, State
<1>7. SameStore
  BY <1>1, <1>2, <1>3, <1>4, <1>6, StoreStays
<1>8. \A x \in ServerIds, k \in Keys : data'[x][k] = data[x][k] \/ data'[x][k] \in Held(k)
  BY <1>3, <1>5
<1>9. ASSUME NEW x \in ServerIds, NEW k \in Keys, Pending(x, k)
      PROVE  Pending(x, k)' \/ data'[x][k] \in Held(k)
  <2>1. PICK w \in Threads : pc[w] = "put_write" /\ arg[w].key = k /\ x \in todo
    BY <1>9 DEF Pending
  <2>2. w = t
    BY <1>4, <2>1 DEF Writing
  <2>3. CASE x = s
    BY <1>3, <1>5, <2>1, <2>2, <2>3
  <2>4. CASE x # s
    BY <1>1, <1>9, <2>1, <2>4 DEF Pending
  <2>5. QED
    BY <2>3, <2>4
<1>10. Progress
  BY <1>2, <1>7, <1>8, <1>9 DEF Progress, SameStore
<1>11. QED
  BY <1>1, <1>6, <1>7, <1>8, <1>10, WritersTellNothing, StoreKept, Stutters
     DEF Mapped, SameRequestsSeen

\* The last server is written and the unlock loop starts.
LEMMA WrittenMaps ==
  ASSUME OneStore, History, OnlyReadersWant', NEW t \in Threads, ThreadStep(t), WriterStep(t),
         PutWritten(t)
  PROVE  Mapped /\ Priors' /\ Readable'
<1> USE DEF OneStore
<1>1. /\ pc[t] = "put_write" /\ pc'[t] = "put_unlock" /\ arg' = arg /\ todo = {}
      /\ UNCHANGED <<servers, data, committed>>
  BY GotoMoves DEF PutWritten, NextLoop, serverVars, Underneath, Walking, Typed
<1>2. Others(t) /\ UNCHANGED life
  BY StepDiscipline DEF ThreadStep, Underneath, Walking
<1>3. SameStore
  BY <1>1, <1>2, StoreStays DEF WritePcs
<1>4. \A s \in ServerIds, k \in Keys : ~Pending(s, k)
  BY <1>1 DEF Pending
<1>5. Progress
  BY <1>1, <1>2, <1>4 DEF Progress
<1>6. QED
  BY <1>1, <1>3, <1>5, WritersTellNothing, StoreKept, Stutters DEF Mapped, SameRequestsSeen

\* The put is acknowledged: every server holds its value.
LEMMA DoneMaps ==
  ASSUME OneStore, History, OnlyReadersWant', NEW t \in Threads, ThreadStep(t), WriterStep(t),
         PutDone(t)
  PROVE  Mapped /\ Priors' /\ Readable'
<1> USE DEF OneStore
<1>1. /\ pc[t] = "put_unlock" /\ pc'[t] = "idle" /\ UNCHANGED <<servers, data>>
  BY ReturnMoves DEF PutDone, serverVars, Underneath, Walking, Typed
<1>2. Others(t) /\ UNCHANGED life
  BY StepDiscipline DEF ThreadStep, Underneath, Walking
<1>p. PICK j \in Keys, v \in Values : j = arg[t].key /\ v = arg[t].val
  BY <1>1, OnlyWriter DEF WritePcs
<1>3. Writing = {t} /\ Open = {j}
  BY <1>1, <1>p, OnlyWriter DEF WritePcs
<1>4. Writing' = {} /\ Open' = {}
  BY <1>1, <1>2, <1>3, WriterLeaves DEF WritePcs
<1>c. committed' = [committed EXCEPT ![j] = v]
  BY <1>p DEF PutDone
<1>n. OnlyNew(j, v) /\ NoneNew'
  BY <1>1, <1>4, <1>p, NewByWriter, NothingNew DEF OnlyNew, NoneNew, WritePcs
<1>5. /\ servers # {} => Held(j)' = {v}
      /\ servers = {} => Held(j)' = Held(j)
      /\ \A k \in Keys \ {j} : Held(k)' = Held(k)
  <2>1. CASE servers = {}
    BY <1>1, <2>1 DEF Held
  <2>2. CASE servers # {}
    <3>1. \A s \in servers : data[s][j] = v
      BY <1>1, <1>p DEF Underneath, Replicated, WriteProgress
    <3>2. Held(j)' = {data[s][j] : s \in servers}
      BY <1>1, <1>4, <2>2 DEF Held
    <3>3. Held(j)' = {v}
      BY <2>2, <3>1, <3>2
    <3>4. \A k \in Keys \ {j} : Held(k)' = Held(k)
      BY <1>1, <1>3, <1>4, <2>2 DEF Held
    <3>5. QED
      BY <2>2, <3>3, <3>4
  <2>3. QED
    BY <2>1, <2>2
<1>6. SameRequestsSeen /\ \A x \in Threads : Carries(x)
  BY WritersTellNothing
<1>7. Mapped
  BY <1>1, <1>3, <1>4, <1>5, <1>6, <1>c, <1>n, Acknowledges DEF Mapped
<1>8. Progress
  BY <1>1, <1>2, PendingStays DEF Progress
<1>9. QED
  BY <1>4, <1>6, <1>7, <1>8, PriorsClosed, ReadersKeep

\* An exception ends the call.  If it was writing, every server holds what the
\* key was before or the value of the put.
LEMMA ThrowMaps ==
  ASSUME OneStore, History, OnlyReadersWant', NEW t \in Threads, ThreadStep(t), WriterStep(t),
         Throw(t), pc[t] \in WritePcs => todo # {}
  PROVE  Mapped /\ Priors' /\ Readable'
<1> USE DEF OneStore
<1>1. pc'[t] = "idle" /\ UNCHANGED <<servers, data, isLocked>>
  BY ReturnMoves DEF Throw, Underneath, Walking, Typed
<1>2. Others(t) /\ UNCHANGED life
  BY StepDiscipline DEF ThreadStep, Underneath, Walking
<1>3. CASE pc[t] \notin WritePcs
  <2>1. UNCHANGED committed
    BY <1>3 DEF Throw, WritePcs
  <2>2. QED
    BY <1>1, <1>3, <2>1, QuietStep DEF WritePcs
<1>4. CASE pc[t] \in WritePcs
  <2>0. /\ Writing = {t} /\ Open = {arg[t].key} /\ arg[t].key \in Keys /\ monitor # None
        /\ arg[t].val \in Values
    BY <1>4, OnlyWriter
  <2>j. PICK j \in Keys : j = arg[t].key
    BY <2>0
  <2>1. Writing = {t} /\ Open = {j} /\ monitor # None
    BY <2>0, <2>j
  <2>2. Writing' = {} /\ Open' = {}
    BY <1>1, <1>2, <2>1, WriterLeaves DEF WritePcs
  <2>3. servers # {} /\ todo \subseteq servers /\ servers \subseteq ServerIds
    BY <1>4, <2>1 DEF Underneath, Walking, Walk, Typed, State
  <2>4. \A k \in Keys : Held(k)' = {data[s][k] : s \in servers}
    BY <1>1, <2>2, <2>3 DEF Held
  <2>5. \A k \in Keys \ {j} : Held(k)' = Held(k)
    BY <2>1, <2>3, <2>4 DEF Held
  <2>6. Held(j)' \subseteq Held(j) \cup prior[j] /\ Held(j)' # {}
    <3>1. \A s \in servers : data[s][j] \in prior[j] \cup Held(j)
      BY <2>1 DEF Priors
    <3>2. Held(j)' = {data[s][j] : s \in servers}
      BY <2>4
    <3>3. QED
      BY <2>3, <3>1, <3>2
  <2>7. SameRequestsSeen /\ \A x \in Threads : Carries(x)
    BY WritersTellNothing
  <2>n. OnlyNew(j, arg[t].val) /\ NoneNew'
    BY <1>4, <2>j, <2>2, NewByWriter, NothingNew DEF OnlyNew, NoneNew
  <2>c. committed' = [committed EXCEPT ![j] = None]
    BY <1>4, <2>j DEF Throw, WritePcs
  <2>8. Mapped
    BY <1>1, <2>0, <2>1, <2>2, <2>5, <2>6, <2>7, <2>c, <2>n, Fails DEF Mapped
  <2>9. ASSUME NEW s \in ServerIds, NEW k \in Keys, Pending(s, k)
        PROVE  data'[s][k] \in Held(k)'
    BY <1>1, <2>3, <2>4, <2>9 DEF Pending
  <2>10. Progress
    BY <1>1, <1>2, <2>9 DEF Progress
  <2>11. QED
    BY <2>2, <2>7, <2>8, <2>10, PriorsClosed, ReadersKeep
<1>5. QED
  BY <1>3, <1>4

LEMMA PutMaps ==
  ASSUME OneStore, History, OnlyReadersWant', NEW t \in Threads, ThreadStep(t), WriterStep(t),
         PutStep(t)
  PROVE  Mapped /\ Priors' /\ Readable'
<1>1. CASE PutEnter(t)
  <2>1. /\ pc[t] = "put_enter" /\ pc'[t] = "put_lock"
        /\ UNCHANGED <<servers, data, committed>>
    BY <1>1, GotoMoves DEF PutEnter, serverVars, OneStore, Underneath, Walking, Typed
  <2>2. QED
    BY <2>1, QuietStep DEF WritePcs
<1>2. QED
  BY <1>1, LockedMaps, WriteMaps, WrittenMaps, DoneMaps DEF PutStep

LEMMA LoopMaps ==
  ASSUME OneStore, History, OnlyReadersWant', NEW t \in Threads, ThreadStep(t), WriterStep(t),
         LoopStep(t)
  PROVE  Mapped /\ Priors' /\ Readable'
<1>r. Requests
  BY DEF OneStore, Underneath, Walking, Typed
<1>1. ASSUME NEW s \in ServerIds, LockOne(t, s) PROVE Mapped /\ Priors' /\ Readable'
  BY <1>1, QuietStep DEF LockOne, requestVars, WritePcs
<1>2. ASSUME NEW s \in ServerIds, UnlockOne(t, s) PROVE Mapped /\ Priors' /\ Readable'
  <2>1. pc'[t] = pc[t] /\ pc[t] # "put_write" /\ UNCHANGED <<arg, servers, data, committed>>
    BY <1>r, <1>2 DEF UnlockOne, ServerUnlock, Requests
  <2>2. QED
    BY <2>1, QuietStep
<1>3. ASSUME NEW s \in ServerIds, LoopThrows(t, s) PROVE Mapped /\ Priors' /\ Readable'
  BY <1>3, ThrowMaps DEF LoopThrows
<1>4. QED
  BY <1>1, <1>2, <1>3 DEF LoopStep

-----------------------------------------------------------------------------
(* addServer *)

\* The first server joins a store that lost everything, or never had anything.
LEMMA OnlyMaps ==
  ASSUME OneStore, History, OnlyReadersWant', NEW t \in Threads, ThreadStep(t), WriterStep(t),
         AddOnly(t)
  PROVE  Mapped /\ Priors' /\ Readable'
<1> USE DEF OneStore
<1>1. /\ pc[t] = "add_only" /\ pc'[t] = "idle" /\ monitor = None
      /\ UNCHANGED data /\ servers' = servers \cup {arg[t].srv}
      /\ servers = {} => committed' = data[arg[t].srv]
  BY ReturnMoves DEF AddOnly, serverVars, Underneath, Walking, Typed
<1>2. Others(t) /\ UNCHANGED life
  BY StepDiscipline DEF ThreadStep, Underneath, Walking
<1>3. servers = {}
  BY <1>1 DEF Underneath, Replicated, Alone
<1>4. Writing = {} /\ Open = {}
  BY <1>1, NoWriter
<1>5. Writing' = {} /\ Open' = {}
  BY <1>1, <1>2, <1>4, WriterLeaves DEF WritePcs
<1>6. ASSUME NEW k \in Keys PROVE Held(k)' = Held(k)
  <2>1. Held(k) = {Absent}
    BY <1>3 DEF Held
  <2>2. Held(k)' = {data[s][k] : s \in {arg[t].srv}}
    BY <1>1, <1>3, <1>5 DEF Held
  <2>3. data[arg[t].srv][k] = Absent
    BY <1>1 DEF Underneath, JoinersData
  <2>4. QED
    BY <2>1, <2>2, <2>3
<1>7. SameRequestsSeen /\ \A x \in Threads : Carries(x)
  BY WritersTellNothing
<1>c. committed' = [k \in Keys |-> Absent]
  <2>1. arg[t].srv \in ServerIds
    BY <1>1 DEF Underneath, Walking, Typed, Requests, Needs, AddPcs, TransferPcs
  <2>2. \A k \in Keys : data[arg[t].srv][k] = Absent
    BY <1>1 DEF Underneath, JoinersData
  <2>3. QED
    BY <1>1, <1>3, <2>1, <2>2 DEF Underneath, Walking, Typed, State
<1>8. Mapped
  BY <1>1, <1>3, <1>4, <1>5, <1>6, <1>7, <1>c, FirstJoins DEF Mapped
<1>9. Progress
  BY <1>1, <1>2, PendingStays DEF Progress
<1>10. QED
  BY <1>5, <1>7, <1>8, <1>9, PriorsClosed, ReadersKeep

\* A server joins with the data of the sender: readers cannot tell.
LEMMA JoinMaps ==
  ASSUME OneStore, History, OnlyReadersWant', NEW t \in Threads, ThreadStep(t), WriterStep(t),
         AddDone(t)
  PROVE  Mapped /\ Priors' /\ Readable'
<1> USE DEF OneStore
<1>1. /\ pc[t] = "add_unlock" /\ pc'[t] = "idle"
      /\ UNCHANGED <<data, committed>> /\ servers' = servers \cup {arg[t].srv}
  BY ReturnMoves DEF AddDone, serverVars, Underneath, Walking, Typed
<1>2. Others(t) /\ UNCHANGED life
  BY StepDiscipline DEF ThreadStep, Underneath, Walking
<1>3. arg[t].from \in servers /\ unsent = {}
  BY <1>1 DEF Underneath, Replicated, SendProgress
<1>4. Writing = {} /\ Open = {}
  BY <1>1, LoopLabels, NoWriter DEF WritePcs
<1>5. Writing' = {} /\ Open' = {}
  BY <1>1, <1>2, <1>4, WriterLeaves DEF WritePcs
<1>6. ASSUME NEW k \in Keys PROVE Held(k)' = Held(k)
  <2>1. data[arg[t].srv][k] = data[arg[t].from][k]
    BY <1>1, <1>3 DEF Underneath, Replicated, SendProgress, JoinersData
  <2>2. Held(k) = {data[s][k] : s \in servers}
    BY <1>3, <1>4 DEF Held
  <2>3. Held(k)' = {data[s][k] : s \in servers \cup {arg[t].srv}}
    BY <1>1, <1>3, <1>5 DEF Held
  <2>4. QED
    BY <1>3, <2>1, <2>2, <2>3
<1>7. SameStore
  BY <1>1, <1>3, <1>4, <1>5, <1>6, NothingNew DEF SameStore
<1>8. SameRequestsSeen /\ \A x \in Threads : Carries(x)
  BY WritersTellNothing
<1>9. Mapped
  BY <1>7, <1>8, Stutters DEF Mapped, SameRequestsSeen
<1>10. Progress
  BY <1>1, <1>2, PendingStays DEF Progress
<1>11. QED
  BY <1>5, <1>8, <1>9, <1>10, PriorsClosed, ReadersKeep

\* One entry is put at the joiner, where nobody reads it yet; one who still
\* reads there finds a value of the store.
LEMMA SendMaps ==
  ASSUME OneStore, History, OnlyReadersWant', NEW t \in Threads, ThreadStep(t), WriterStep(t),
         NEW j \in Keys, SendOne(t, j), UNCHANGED frontendVars
  PROVE  Mapped /\ Priors' /\ Readable'
<1> USE DEF OneStore
<1>1. pc' = pc /\ arg' = arg /\ UNCHANGED <<servers, committed>>
  BY DEF SendOne, requestVars, frontendVars
<1>2. Others(t) /\ UNCHANGED life
  BY StepDiscipline DEF ThreadStep, Underneath, Walking
<1>3. /\ pc[t] = "send" /\ arg[t].srv \in ServerIds \ servers /\ arg[t].from \in servers
      /\ \A x \in ServerIds, k \in Keys :
           data'[x][k] = IF x = arg[t].srv /\ k = j THEN data[arg[t].from][j] ELSE data[x][k]
  BY SendAt
<1>4. Open = {}
  BY <1>3, LoopLabels, NoWriter DEF WritePcs
<1>5. servers \subseteq ServerIds
  BY DEF Underneath, Walking, Typed, State
<1>6. \A s \in servers, k \in Keys : data'[s][k] = data[s][k]
  BY <1>3, <1>5
<1>7. SameStore
  BY <1>1, <1>2, <1>6, StoreStays
<1>8. data[arg[t].from][j] \in Held(j)
  BY <1>3, <1>4 DEF Held
<1>9. Progress
  BY <1>2, <1>3, <1>7, <1>8, PendingStays DEF Progress, SameStore
<1>10. QED
  BY <1>1, <1>6, <1>7, <1>9, WritersTellNothing, StoreKept, Stutters
     DEF Mapped, SameRequestsSeen

LEMMA AddMaps ==
  ASSUME OneStore, History, OnlyReadersWant', NEW t \in Threads, ThreadStep(t), WriterStep(t),
         AddStep(t)
  PROVE  Mapped /\ Priors' /\ Readable'
<1>r. Requests
  BY DEF OneStore, Underneath, Walking, Typed
<1>1. CASE AddFirst(t) \/ AddEnter(t) \/ AddSend(t) \/ AddSent(t)
  <2>1. /\ pc[t] \notin WritePcs /\ pc'[t] \notin WritePcs
        /\ UNCHANGED <<servers, data, committed>>
    BY <1>r, <1>1, GotoMoves
       DEF AddFirst, AddEnter, AddSend, AddSent, NextLoop, serverVars, frontendVars, WritePcs,
           Goto, Requests
  <2>2. QED
    BY <2>1, QuietStep DEF WritePcs
<1>2. CASE AddSendThrows(t) \/ SendThrows(t)
  BY <1>2, ThrowMaps DEF AddSendThrows, SendThrows, WritePcs
<1>3. QED
  BY <1>1, <1>2, OnlyMaps, JoinMaps, SendMaps DEF AddStep

-----------------------------------------------------------------------------
(* Calls, the heartbeat and the JVMs *)

\* What steps outside the calls in progress have in common: the list may lose
\* servers while serversLock is free, and all else the store is made of stays.
Outside ==
  /\ UNCHANGED <<data, isLocked, todo, monitor, committed>>
  /\ UNCHANGED servers \/ (monitor = None /\ servers' \subseteq servers)
  /\ \A s \in ServerIds : life[s] = "crashed" => life'[s] = "crashed"
  /\ \A t \in Threads :
       \/ pc'[t] = pc[t] /\ arg'[t] = arg[t]
       \/ pc[t] = "idle" /\ pc'[t] \notin LoopPcs

LEMMA OutsideKeepsPending ==
  ASSUME Outside, NEW s \in ServerIds, NEW k \in Keys, Pending(s, k)
  PROVE  Pending(s, k)'
<1>1. PICK w \in Threads : pc[w] = "put_write" /\ arg[w].key = k /\ s \in todo
  BY DEF Pending
<1>2. pc'[w] = pc[w] /\ arg'[w] = arg[w]
  BY <1>1 DEF Outside
<1>3. QED
  BY <1>1, <1>2 DEF Outside, Pending

LEMMA OutsideProgress ==
  ASSUME Outside
  PROVE  Progress
BY OutsideKeepsPending DEF Progress, Outside

LEMMA OutsideStores ==
  ASSUME Priors, History, Outside, UNCHANGED servers
  PROVE  SameStore
<1>1. Writing' = Writing /\ \A w \in Writing : arg'[w] = arg[w]
  BY LoopLabels DEF Outside, Writing
<1>2. Open' = Open
  BY <1>1 DEF Open
<1>3. \A k \in Keys : New(k)' = New(k)
  BY <1>1 DEF New
<1>4. prior' = prior
  BY <1>2, PriorStays
<1>5. ASSUME NEW k \in Keys PROVE Held(k)' = Held(k)
  <2>1. New(k)' = New(k) /\ UNCHANGED <<servers, data>>
    BY <1>3 DEF Outside
  <2>2. QED
    BY <1>2, <1>4, <2>1 DEF Held
<1>6. QED
  BY <1>2, <1>3, <1>5 DEF SameStore, Outside

LEMMA OutsideMaps ==
  ASSUME OneStore, History, Outside, SameRequestsSeen,
         \A x \in Threads : Carries(x) \/ ReadableBy(x)'
  PROVE  Mapped /\ Priors' /\ Readable'
<1> USE DEF OneStore
<1>1. Progress
  BY OutsideProgress
<1>2. CASE UNCHANGED servers
  <2>1. SameStore
    BY <1>2, OutsideStores
  <2>2. \A s \in servers, k \in Keys \cap Open : data'[s][k] = data[s][k]
    BY DEF Outside
  <2>3. QED
    BY <1>1, <1>2, <2>1, <2>2, StoreKept, Stutters DEF Mapped, SameRequestsSeen
<1>3. CASE monitor = None /\ servers' \subseteq servers
  <2>1. Writing = {} /\ Open = {}
    BY <1>3, NoWriter
  <2>2. Writing' = {}
    BY <2>1, LoopLabels DEF Outside, Writing
  <2>3. Open' = {}
    BY <2>2 DEF Open
  <2>4. UNCHANGED <<data, committed>>
    BY DEF Outside
  <2>5. QED
    BY <1>1, <1>3, <2>1, <2>2, <2>3, <2>4, Leaves, PriorsClosed, ReadersKeep DEF Mapped
<1>4. QED
  BY <1>2, <1>3 DEF Outside

LEMMA CallIsOutside ==
  ASSUME Underneath, NEW t \in Threads, IsCall(t)
  PROVE  Outside /\ Others(t)
<1> USE DEF Underneath, Walking
<1>1. CallEffect(t) /\ Others(t) /\ pc[t] = "idle"
  BY CallHasEffect, CallAnswers, CallDiscipline DEF IsCall
<1>2. UNCHANGED <<data, committed>>
  BY DEF IsCall, ClientCall, GetCall, PutCall, List, ListServer, AddNode, AddAgain, AddCall,
         AdminCall, PrintCall, ShutdownServer, serverVars, frontendVars
<1>3. \A x \in Threads :
        \/ pc'[x] = pc[x] /\ arg'[x] = arg[x]
        \/ pc[x] = "idle" /\ pc'[x] \notin LoopPcs
        \/ pc[x] = "wait"
  BY <1>1 DEF Others, CallEffect
<1>4. ~(\E x \in Threads : pc[x] = "wait" /\ pc'[x] # pc[x])
  BY <1>1, CallAnswers DEF Return, Begin, Goto, Typed, Requests
<1>5. QED
  BY <1>1, <1>2, <1>3, <1>4 DEF Outside, CallEffect, Others

\* get and printKVPairs ask for keys.
LEMMA AskingMaps ==
  ASSUME OneStore, History, Outside, NEW t \in Threads, Others(t), pc[t] = "idle",
         UNCHANGED servers, NEW K \in SUBSET Keys, arg'[t].want = K,
         arg'[t].shown = [k \in Keys |-> None], Carries(t) \/ ReadableBy(t)'
  PROVE  Mapped /\ Priors' /\ Readable'
<1> USE DEF OneStore
<1>1. arg[t].want = {} /\ arg[t].shown = [k \in Keys |-> None]
  BY DEF Underneath, OnlyReadersWant, AtServerPcs, ReadPcs
<1>2. SameStore /\ Progress /\ Else(t)
  BY OutsideStores, OutsideProgress DEF Else, Others
<1>3. Mapped
  BY <1>1, <1>2, Asks DEF Mapped
<1>4. \A s \in servers, k \in Keys \cap Open : data'[s][k] = data[s][k]
  BY DEF Outside
<1>5. QED
  BY <1>2, <1>3, <1>4, OthersCarry, StoreKept

LEMMA CallMaps ==
  ASSUME OneStore, OnlyReadersWant', History, NEW t \in Threads, IsCall(t)
  PROVE  Mapped /\ Priors' /\ Readable'
<1> USE DEF OneStore
<1>r. Requests
  BY DEF Underneath, Walking, Typed
<1>1. Outside /\ Others(t) /\ pc[t] = "idle"
  BY CallIsOutside, CallAnswers DEF Underneath, Walking
<1>2. CASE pc'[t] \notin {"get_pick"} \cup AtServerPcs
  <2>1. SameRequestsSeen
    BY <1>1, <1>2
       DEF SameRequestsSeen, Others, Underneath, OnlyReadersWant, AtServerPcs, ReadPcs
  <2>2. \A x \in Threads : Carries(x)
    BY <1>1, <1>2, OthersCarry DEF Carries
  <2>3. QED
    BY <1>1, <2>1, <2>2, OutsideMaps
<1>3. ASSUME NEW k \in Keys, NEW i, servers # {}, UNCHANGED servers,
             Begin(t, "get_pick", [NoArgs EXCEPT !.want = {k}, !.idx = i])
      PROVE  Mapped /\ Priors' /\ Readable'
  <2>1. pc'[t] = "get_pick" /\ arg'[t] = [NoArgs EXCEPT !.want = {k}, !.idx = i]
    BY <1>r, <1>3 DEF Begin, Goto, Requests
  <2>2. arg'[t].want = {k} /\ arg'[t].shown = [j \in Keys |-> None]
    BY <2>1 DEF NoArgs
  <2>3. Carries(t)
    BY <2>1 DEF Carries, AtServerPcs, ReadPcs
  <2>4. QED
    BY <1>1, <1>3, <2>2, <2>3, AskingMaps
<1>4. ASSUME NEW s \in servers, UNCHANGED servers, UNCHANGED life,
             Begin(t, "check", [NoArgs EXCEPT !.srv = s, !.want = Keys])
      PROVE  Mapped /\ Priors' /\ Readable'
  <2>1. pc'[t] = "check" /\ arg'[t] = [NoArgs EXCEPT !.srv = s, !.want = Keys]
    BY <1>r, <1>4 DEF Begin, Goto, Requests
  <2>2. /\ arg'[t].srv = s /\ arg'[t].want = Keys
        /\ arg'[t].shown = [j \in Keys |-> None]
    BY <2>1 DEF NoArgs
  <2>3. ReadableBy(t)'
    <3>1. s \in ServerIds
      BY DEF Underneath, Walking, Typed, State
    <3> SUFFICES ASSUME NEW k \in Keys
                 PROVE  \/ data'[s][k] \in seen'[t][k]
                        \/ life'[s] = "crashed"
                        \/ Pending(s, k)'
      BY <2>1, <2>2 DEF ReadableBy, Pending
    <3>2. Held(k) \subseteq seen'[t][k]
      BY <1>1, <1>4, <2>2, OutsideStores DEF History, SameStore
    <3>3. data[s][k] \in Held(k) \/ life[s] = "crashed" \/ Pending(s, k)
      BY Arrives
    <3>4. QED
      BY <1>1, <1>4, <3>1, <3>2, <3>3, OutsideKeepsPending DEF Outside
  <2>4. QED
    BY <1>1, <1>4, <2>2, <2>3, AskingMaps
<1>5. ASSUME NEW answer, Return(t, answer) PROVE Mapped /\ Priors' /\ Readable'
  <2>1. pc'[t] = "idle"
    BY <1>r, <1>5, ReturnMoves
  <2>2. QED
    BY <1>2, <2>1 DEF AtServerPcs, ReadPcs
<1>6. ASSUME NEW label \in {"put_enter", "add_first"}, NEW a, Begin(t, label, a)
      PROVE  Mapped /\ Priors' /\ Readable'
  <2>1. pc'[t] = label
    BY <1>r, <1>6 DEF Begin, Goto, Requests
  <2>2. QED
    BY <1>2, <2>1 DEF AtServerPcs, ReadPcs
<1>7. CASE ClientCall(t)
  <2>1. ASSUME NEW k \in Keys, GetCall(t, k) PROVE Mapped /\ Priors' /\ Readable'
    BY <1>3, <1>5, <2>1 DEF GetCall, frontendVars
  <2>2. ASSUME NEW k \in Keys, NEW v \in Values, PutCall(t, k, v)
        PROVE  Mapped /\ Priors' /\ Readable'
    BY <1>6, <2>2 DEF PutCall
  <2>3. QED
    BY <1>7, <2>1, <2>2 DEF ClientCall
<1>8. CASE List(t)
  BY <1>5, <1>8 DEF List, ListServer
<1>9. ASSUME NEW s \in ServerIds, AddNode(t, s) \/ AddAgain(t, s) \/ AdminCall(t, s)
      PROVE  Mapped /\ Priors' /\ Readable'
  <2>1. CASE AddCall(t, s) \/ ShutdownServer(t, s)
    BY <1>5, <1>6, <2>1 DEF AddCall, ShutdownServer
  <2>2. CASE PrintCall(t, s) /\ UNCHANGED life
    BY <1>4, <1>5, <2>2 DEF PrintCall, frontendVars
  <2>3. QED
    BY <1>9, <2>1, <2>2 DEF AddNode, AddAgain, AdminCall
<1>10. QED
  BY <1>7, <1>8, <1>9 DEF IsCall

LEMMA BackgroundMaps ==
  ASSUME OneStore, History, HeartBeatStep \/ JvmStep \/ UNCHANGED allVars
  PROVE  Mapped /\ Priors' /\ Readable'
<1>1. UNCHANGED <<pc, arg>> /\ Outside
  <2>1. /\ UNCHANGED <<pc, arg, data, isLocked, todo, monitor, committed>>
        /\ UNCHANGED servers \/ (monitor = None /\ servers' \subseteq servers)
    BY DEF HeartBeatStep, Probe, Remove, JvmStep, allVars, vars, serverVars, requestVars,
           frontendVars
  <2>2. \A s \in ServerIds : life[s] = "crashed" => life'[s] = "crashed"
    BY DEF HeartBeatStep, JvmStep, Start, Crash, allVars, OneStore, Underneath, Walking,
           Typed, State
  <2>3. QED
    BY <2>1, <2>2 DEF Outside
<1>2. QED
  BY <1>1, OutsideMaps DEF SameRequestsSeen, Carries

-----------------------------------------------------------------------------
(* The theorem *)

LEMMA InitMaps == InitC => OneStore /\ KV!Init
<1> SUFFICES ASSUME InitC PROVE OneStore /\ KV!Init
  OBVIOUS
<1>0. Init
  BY DEF InitC
<1>1. \A t \in Threads : pc[t] = "idle" /\ arg[t] = NoArgs
  BY <1>0 DEF Init
<1>2. Replicated /\ Walking /\ NewIds
  BY <1>0, InitReplicates, InitWalks
<1>3. NoneStarting /\ JoinersData /\ WrittenWhileLocked /\ OnlyReadersWant
  BY <1>0, <1>1 DEF Init, NoneStarting, JoinersData, WrittenWhileLocked, OnlyReadersWant, NoArgs
<1>4. Writing = {} /\ Open = {}
  BY <1>1 DEF Writing, Open
<1>5. \A k \in Keys : Held(k) = {Absent} /\ New(k) = {}
  BY <1>0, <1>4, NothingNew DEF Init, Held
<1>6. \A t \in Threads : arg[t].want = {} /\ arg[t].shown = [k \in Keys |-> None]
  BY <1>1 DEF NoArgs
<1>7. Priors /\ Watching
  BY <1>4, <1>6 DEF InitC, Priors, Watching
<1>8. Readable
  BY <1>6 DEF Readable, ReadableBy
<1>9. KV!Init
  BY <1>0, <1>4, <1>5, <1>6 DEF InitC, Init, KV!Init, KV!Empty, KV!NoAnswer,
                                    KV!NoValues, KV!Unset
<1>10. QED
  BY <1>2, <1>3, <1>7, <1>8, <1>9 DEF OneStore, Underneath

LEMMA NextMaps ==
  AsDriven /\ OneStore /\ [Next /\ History]_allVarsC => OneStore' /\ Mapped
<1> SUFFICES ASSUME AsDriven, OneStore, [Next /\ History]_allVarsC
             PROVE  OneStore' /\ Mapped
  OBVIOUS
<1>1. CASE Next /\ History
  <2>1. Underneath'
    BY <1>1, NextUnderneath DEF OneStore
  <2>2. OnlyReadersWant'
    BY <2>1 DEF Underneath
  <2>3. ASSUME NEW t \in Threads, ThreadStep(t) PROVE Mapped /\ Priors' /\ Readable'
    <3>1. CASE ReadStep(t) /\ UNCHANGED frontendVars
      BY <1>1, <2>3, <3>1, ReadMaps DEF OneStore
    <3>2. CASE WriterStep(t)
      BY <1>1, <2>2, <2>3, <3>2, PutMaps, LoopMaps, AddMaps DEF WriterStep
    <3>3. QED
      BY <2>3, <3>1, <3>2 DEF ThreadStep, WriterStep
  <2>4. Mapped /\ Priors' /\ Readable'
    BY <1>1, <2>2, <2>3, NextCases, CallMaps, BackgroundMaps
  <2>5. Watching'
    BY <1>1, HistoryWatches
  <2>6. QED
    BY <2>1, <2>4, <2>5 DEF OneStore
<1>2. CASE UNCHANGED allVarsC
  <2>1. UNCHANGED <<allVars, seen, prior>>
    BY <1>2 DEF allVarsC
  <2>2. UNCHANGED <<life, isLocked, data, unsent, pc, arg, reply, servers, monitor, todo,
                    committed, suspect, seen, prior>>
    BY <2>1 DEF allVars, vars, serverVars, requestVars, frontendVars
  <2>3. Underneath'
    BY <2>1, NextUnderneath DEF OneStore
  <2>4. SameStore
    BY <2>2, StoreUntouched
  <2>5. Priors' /\ Watching'
    BY <2>2, <2>4 DEF OneStore, Priors, Watching, SameStore
  <2>6. Readable'
    BY <2>2 DEF OneStore, Readable, ReadableBy, Pending
  <2>7. UNCHANGED KV!kvVars
    <3>1. /\ [k \in Keys |-> Held(k)]' = [k \in Keys |-> Held(k)]
          /\ [k \in Keys |-> New(k)]' = [k \in Keys |-> New(k)]
      BY <2>4 DEF SameStore
    <3>2. QED
      BY <2>2, <3>1 DEF KV!kvVars
  <2>8. QED
    BY <2>3, <2>5, <2>6, <2>7 DEF OneStore, Mapped
<1>3. QED
  BY <1>1, <1>2

\* The handlers of the frontend, run by any number of threads over any number of
\* servers that join, leave and crash, implement a store with one copy of each
\* pair, when they are driven as run_cluster.py drives them, whether or not pods
\* answer once they run.  If they do, the store is one in which a put takes
\* effect at one instant; if not, one in which it does so at the latest when it
\* is acknowledged.
THEOREM OneStoreImplemented == AsDriven => (SpecC => IsOneStore)
<1> SUFFICES ASSUME AsDriven PROVE SpecC => IsOneStore
  OBVIOUS
<1>1. OneStore /\ [Next /\ History]_allVarsC => OneStore' /\ [KV!Next]_(KV!kvVars)
  BY NextMaps DEF Mapped
<1>2. QED
  BY <1>1, InitMaps, PTL DEF SpecC, IsOneStore, KV!Spec
=============================================================================
