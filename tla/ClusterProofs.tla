----------------------------- MODULE ClusterProofs -----------------------------
(* Theorems about Cluster, for every number of servers, threads, keys, values, *)
(* calls and crashes.                                                           *)
EXTENDS Cluster, FiniteSetTheorems, TLAPS

-----------------------------------------------------------------------------
(* TypeOK is not inductive: a step uses the locals of its request, and their   *)
(* types allow None.  Needs says which are set by the time a request reaches a *)
(* program point.                                                              *)

PutPcs == {"put_enter", "put_lock", "put_write", "put_unlock"}
TransferPcs == {"add_enter", "add_lock", "send", "add_unlock"}
AddPcs == {"add_first", "add_only"} \cup TransferPcs
AtServerPcs == {"get_exists", "get_call"} \cup ReadPcs

Needs(label, a) ==
  /\ label \in PutPcs => a.key \in Keys /\ a.val \in Values
  /\ label \in AddPcs \cup AtServerPcs => a.srv \in ServerIds
  /\ label \in TransferPcs => a.from \in ServerIds

Requests ==
  /\ pc \in [Threads -> Pcs]
  /\ arg \in [Threads -> Args]
  /\ reply \in [Threads -> Replies]
  /\ \A t \in Threads : Needs(pc[t], arg[t])

\* Everything else that has a type.
State ==
  /\ life \in [ServerIds -> {"absent", "starting", "up", "crashed"}]
  /\ isLocked \in [ServerIds -> BOOLEAN]
  /\ data \in [ServerIds -> [Keys -> Stored]]
  /\ unsent \in SUBSET Keys
  /\ servers \in SUBSET ServerIds
  /\ monitor \in Threads \cup {None}
  /\ todo \in SUBSET ServerIds
  /\ committed \in [Keys -> Stored \cup {None}]
  /\ suspect \in ServerIds \cup {None}
  /\ calls \in Nat /\ crashes \in Nat

Typed == Requests /\ State

LEMMA TypedImpliesTypeOK == Typed => TypeOK
BY DEF Typed, Requests, State, TypeOK

-----------------------------------------------------------------------------
(* Routing *)

\* The index of a key is an integer as long as some server is registered.
LEMMA RemainderIsInt ==
  ASSUME NEW k \in Int, NEW n \in Nat, n > 0
  PROVE  JavaRem(k, n) \in Int
BY DEF JavaRem

\* The registered servers can be counted, and the count is 0 only when there
\* are none.
LEMMA CountServers ==
  ASSUME NEW S \in SUBSET ServerIds, S # {}
  PROVE  Cardinality(S) \in Nat /\ Cardinality(S) > 0
<1>1. IsFiniteSet(S)
  BY ServerIdsAssumption, FS_Subset
<1>2. QED
  BY <1>1, FS_CardinalityType, FS_EmptySet

-----------------------------------------------------------------------------
(* The ways a request moves on *)

LEMMA NoArgsTyped == NoArgs \in Args
BY DEF NoArgs, Args, Stored

\* A call that begins has the locals its first program point needs.
LEMMA BeginKeepsRequests ==
  ASSUME Requests, NEW t \in Threads, NEW label \in Pcs, NEW a \in Args,
         Needs(label, a), Begin(t, label, a)
  PROVE  Requests'
BY DEF Requests, Begin, Goto, Replies

\* A request that returns needs no locals any more.
LEMMA ReturnKeepsRequests ==
  ASSUME Requests, NEW t \in Threads, NEW answer \in Replies, Return(t, answer)
  PROVE  Requests'
<1>1. "idle" \in Pcs /\ Needs("idle", NoArgs)
  BY DEF Pcs, Needs, PutPcs, AddPcs, AtServerPcs, TransferPcs, ReadPcs
<1>2. QED
  BY <1>1, NoArgsTyped DEF Requests, Return

\* A request that moves on has the locals its next program point needs.
LEMMA GotoKeepsRequests ==
  ASSUME Requests, NEW t \in Threads, NEW label \in Pcs, NEW a \in Args,
         Needs(label, a), Goto(t, label),
         arg' = [arg EXCEPT ![t] = a], UNCHANGED reply
  PROVE  Requests'
BY DEF Requests, Goto

\* The same, when its locals stay as they are.
LEMMA GotoOnlyKeepsRequests ==
  ASSUME Requests, NEW t \in Threads, NEW label \in Pcs,
         Needs(label, arg[t]), Goto(t, label), UNCHANGED <<arg, reply>>
  PROVE  Requests'
BY DEF Requests, Goto

LEMMA SameRequests ==
  ASSUME Requests, UNCHANGED requestVars
  PROVE  Requests'
BY DEF Requests, requestVars

\* notifyAll moves waiting readers to the flag again, at the same server.
LEMMA UnlockKeepsRequests ==
  ASSUME Requests, NEW s \in ServerIds, ServerUnlock(s), UNCHANGED <<arg, reply>>
  PROVE  Requests'
<1>1. "check" \in Pcs
  BY DEF Pcs, ReadPcs
<1>2. \A a : Needs("wait", a) => Needs("check", a)
  BY DEF Needs, PutPcs, AddPcs, AtServerPcs, TransferPcs, ReadPcs
<1>3. QED
  BY <1>1, <1>2 DEF Requests, ServerUnlock

-----------------------------------------------------------------------------
(* Typed is inductive: the calls *)

LEMMA InitTyped == Init => Typed
<1> SUFFICES ASSUME Init PROVE Typed
  OBVIOUS
<1>1. Requests
  BY DEF Init, Requests, Args, NoArgs, Stored, Pcs, Replies,
         Needs, PutPcs, AddPcs, AtServerPcs, TransferPcs, ReadPcs
<1>2. State
  BY DEF Init, State, Stored
<1>3. QED
  BY <1>1, <1>2 DEF Typed

LEMMA ClientCallTyped ==
  ASSUME Typed, NEW t \in Clients, ClientCall(t)
  PROVE  Typed'
<1> USE DEF Typed
<1>t. t \in Threads
  BY DEF Threads
<1>1. ASSUME NEW k \in Keys, NEW v \in Values, PutCall(t, k, v) PROVE Requests'
  <2> DEFINE a == [NoArgs EXCEPT !.key = k, !.val = v]
  <2>1. a \in Args
    BY NoArgsTyped DEF Args, Stored
  <2>2. "put_enter" \in Pcs /\ Needs("put_enter", a)
    BY DEF Pcs, NoArgs, Needs, PutPcs, AddPcs, AtServerPcs, TransferPcs, ReadPcs
  <2>3. Begin(t, "put_enter", a)
    BY <1>1 DEF PutCall
  <2> HIDE DEF a
  <2>4. QED
    BY <1>t, <2>1, <2>2, <2>3, BeginKeepsRequests
<1>2. ASSUME NEW k \in Keys, GetCall(t, k) PROVE Requests'
  <2>1. CASE servers = {}
    <3>1. Return(t, "fault")
      BY <1>2, <2>1 DEF GetCall
    <3>2. QED
      BY <1>t, <3>1, ReturnKeepsRequests DEF Replies
  <2>2. CASE servers # {}
    <3> DEFINE i == JavaRem(k, Cardinality(servers))
               a == [NoArgs EXCEPT !.want = {k}, !.idx = i]
    <3>1. i \in Int
      BY <2>2, CountServers, RemainderIsInt, KeysAssumption DEF State
    <3>2. Begin(t, "get_pick", a)
      BY <1>2, <2>2 DEF GetCall
    <3> HIDE DEF i
    <3>3. a \in Args
      BY <3>1, NoArgsTyped DEF Args, Stored
    <3>4. "get_pick" \in Pcs /\ Needs("get_pick", a)
      BY DEF Pcs, Needs, PutPcs, AddPcs, AtServerPcs, TransferPcs, ReadPcs
    <3> HIDE DEF a
    <3>5. QED
      BY <1>t, <3>2, <3>3, <3>4, BeginKeepsRequests
  <2>3. QED
    BY <2>1, <2>2
<1>3. Requests'
  BY <1>1, <1>2 DEF ClientCall
<1>4. UNCHANGED <<serverVars, frontendVars>>
  BY DEF ClientCall, PutCall, GetCall
<1>5. State'
  BY <1>4 DEF ClientCall, CountCall, State, serverVars, frontendVars
<1>6. QED
  BY <1>3, <1>5

\* addServer, named by AddNode and AddAgain.
LEMMA AddCallKeepsRequests ==
  ASSUME Requests, NEW t \in Threads, NEW s \in ServerIds, AddCall(t, s)
  PROVE  Requests'
<1> DEFINE a == [NoArgs EXCEPT !.srv = s]
<1>1. a \in Args
  BY NoArgsTyped DEF Args, Stored
<1>2. "add_first" \in Pcs /\ Needs("add_first", a)
  BY DEF Pcs, NoArgs, Needs, PutPcs, AddPcs, AtServerPcs, TransferPcs, ReadPcs
<1>3. Return(t, "exists") \/ Begin(t, "add_first", a)
  BY DEF AddCall
<1> HIDE DEF a
<1>4. QED
  BY <1>1, <1>2, <1>3, BeginKeepsRequests, ReturnKeepsRequests DEF Replies

LEMMA PrintCallKeepsRequests ==
  ASSUME Requests, NEW t \in Threads, NEW s \in ServerIds, PrintCall(t, s)
  PROVE  Requests'
<1> DEFINE a == [NoArgs EXCEPT !.srv = s, !.want = Keys]
<1>1. a \in Args
  BY NoArgsTyped DEF Args, Stored
<1>2. "check" \in Pcs /\ Needs("check", a)
  BY DEF Pcs, NoArgs, Needs, PutPcs, AddPcs, AtServerPcs, TransferPcs, ReadPcs
<1>3. Return(t, "ERR_NOEXIST") \/ Return(t, "fault") \/ Begin(t, "check", a)
  BY DEF PrintCall
<1> HIDE DEF a
<1>4. QED
  BY <1>1, <1>2, <1>3, BeginKeepsRequests, ReturnKeepsRequests DEF Replies

LEMMA AdminCallsTyped ==
  ASSUME Typed, NEW t \in Admins, NEW s \in ServerIds,
         AddNode(t, s) \/ AddAgain(t, s) \/ AdminCall(t, s)
  PROVE  Typed'
<1> USE DEF Typed
<1>t. t \in Threads
  BY DEF Threads
<1>1. CASE AddNode(t, s)
  <2>1. Requests'
    BY <1>1, <1>t, AddCallKeepsRequests DEF AddNode
  <2>2. State'
    BY <1>1 DEF AddNode, AddCall, CountCall, State, serverVars, frontendVars
  <2>3. QED
    BY <2>1, <2>2
<1>2. CASE AddAgain(t, s)
  <2>1. Requests'
    BY <1>2, <1>t, AddCallKeepsRequests DEF AddAgain
  <2>2. State'
    BY <1>2 DEF AddAgain, AddCall, CountCall, State, serverVars, frontendVars
  <2>3. QED
    BY <2>1, <2>2
<1>3. CASE AdminCall(t, s)
  <2>1. CASE PrintCall(t, s)
    <3>1. Requests'
      BY <2>1, <1>t, PrintCallKeepsRequests
    <3>2. State'
      BY <1>3, <2>1 DEF AdminCall, PrintCall, CountCall, State, serverVars, frontendVars
    <3>3. QED
      BY <3>1, <3>2
  <2>2. CASE ShutdownServer(t, s)
    <3>1. Return(t, "ERR_NOEXIST") \/ Return(t, "fault") \/ Return(t, "ok")
      BY <2>2 DEF ShutdownServer
    <3>2. Requests'
      BY <3>1, <1>t, ReturnKeepsRequests DEF Replies
    <3>3. State'
      BY <1>3, <2>2 DEF AdminCall, ShutdownServer, CountCall, State, serverVars
    <3>4. QED
      BY <3>2, <3>3
  <2>3. QED
    BY <1>3, <2>1, <2>2 DEF AdminCall
<1>4. QED
  BY <1>1, <1>2, <1>3

LEMMA ListTyped ==
  ASSUME Typed, NEW t \in Admins, List(t)
  PROVE  Typed'
<1>1. Return(t, "ERR_NOSERVERS") \/ Return(t, "ok")
  BY DEF List, ListServer
<1>2. Requests'
  BY <1>1, ReturnKeepsRequests DEF Typed, Replies, Threads
<1>3. State'
  BY DEF Typed, List, ListServer, CountCall, State, serverVars, frontendVars
<1>4. QED
  BY <1>2, <1>3 DEF Typed

-----------------------------------------------------------------------------
(* Typed is inductive: the steps of the calls in progress.  Each lemma splits  *)
(* on the actions of its group: the request first, the rest of the state next. *)

LEMMA ThrowTyped ==
  ASSUME Typed, NEW t \in Threads, Throw(t)
  PROVE  Requests' /\ (UNCHANGED <<life, suspect, driverVars>> => State')
<1>1. Requests'
  BY ReturnKeepsRequests DEF Typed, Throw, Replies
<1>2. ASSUME UNCHANGED <<life, suspect, driverVars>> PROVE State'
  BY <1>2 DEF Typed, Throw, Leave, State, driverVars
<1>3. QED
  BY <1>1, <1>2

LEMMA NextLoopTyped ==
  ASSUME Typed, NEW t \in Threads,
         NEW from, NEW to \in Pcs, Needs(to, arg[t]), NextLoop(t, from, to),
         UNCHANGED <<life, suspect, driverVars>>
  PROVE  Typed'
<1>1. Requests'
  BY GotoOnlyKeepsRequests DEF Typed, NextLoop
<1>2. State'
  BY DEF Typed, NextLoop, State, serverVars, driverVars
<1>3. QED
  BY <1>1, <1>2 DEF Typed

LEMMA PutStepTyped ==
  ASSUME Typed, NEW t \in Threads, PutStep(t),
         UNCHANGED <<life, suspect, driverVars>>
  PROVE  Typed'
<1> USE DEF Typed
<1>0. /\ {"put_lock", "put_write", "put_unlock"} \subseteq Pcs
      /\ pc[t] \in PutPcs => /\ Needs("put_lock", arg[t])
                             /\ Needs("put_write", arg[t])
                             /\ Needs("put_unlock", arg[t])
  BY DEF Pcs, LoopPcs, Requests, Needs, PutPcs, AddPcs, AtServerPcs, TransferPcs, ReadPcs
<1>1. CASE PutEnter(t)
  <2>1. Requests'
    BY <1>0, <1>1, GotoOnlyKeepsRequests DEF PutEnter, PutPcs
  <2>2. State'
    BY <1>1 DEF PutEnter, Enter, State, serverVars, driverVars
  <2>3. QED
    BY <2>1, <2>2
<1>2. CASE PutLocked(t)
  BY <1>0, <1>2, NextLoopTyped DEF PutLocked, NextLoop, PutPcs
<1>3. CASE PutWritten(t)
  BY <1>0, <1>3, NextLoopTyped DEF PutWritten, NextLoop, PutPcs
<1>4. CASE PutDone(t)
  <2>1. Requests'
    BY <1>4, ReturnKeepsRequests DEF PutDone, Replies
  <2>2. arg[t].key \in Keys /\ arg[t].val \in Values
    BY <1>4 DEF PutDone, Requests, Needs, PutPcs
  <2>3. State'
    BY <1>4, <2>2 DEF PutDone, Leave, State, Stored, serverVars, driverVars
  <2>4. QED
    BY <2>1, <2>3
<1>5. ASSUME NEW s \in ServerIds, WriteOne(t, s) PROVE Typed'
  <2>1. Requests'
    BY <1>5, SameRequests DEF WriteOne
  <2>2. arg[t].key \in Keys /\ arg[t].val \in Values
    BY <1>5 DEF WriteOne, Requests, Needs, PutPcs
  <2>3. data' \in [ServerIds -> [Keys -> Stored]]
    BY <1>5, <2>2 DEF WriteOne, ServerPut, State, Stored
  <2>4. State'
    BY <1>5, <2>3 DEF WriteOne, State, driverVars
  <2>5. QED
    BY <2>1, <2>4
<1>6. QED
  BY <1>1, <1>2, <1>3, <1>4, <1>5 DEF PutStep

LEMMA LoopStepTyped ==
  ASSUME Typed, NEW t \in Threads, LoopStep(t),
         UNCHANGED <<life, suspect, driverVars>>
  PROVE  Typed'
<1> USE DEF Typed
<1>1. ASSUME NEW s \in ServerIds, LockOne(t, s) PROVE Typed'
  <2>1. Requests'
    BY <1>1, SameRequests DEF LockOne
  <2>2. State'
    BY <1>1 DEF LockOne, ServerLock, State, driverVars
  <2>3. QED
    BY <2>1, <2>2
<1>2. ASSUME NEW s \in ServerIds, UnlockOne(t, s) PROVE Typed'
  <2>1. Requests'
    BY <1>2, UnlockKeepsRequests DEF UnlockOne
  <2>2. State'
    BY <1>2 DEF UnlockOne, ServerUnlock, State, driverVars
  <2>3. QED
    BY <2>1, <2>2
<1>3. ASSUME NEW s \in ServerIds, LoopThrows(t, s) PROVE Typed'
  BY <1>3, ThrowTyped DEF LoopThrows
<1>4. QED
  BY <1>1, <1>2, <1>3 DEF LoopStep

LEMMA AddStepTyped ==
  ASSUME Typed, NEW t \in Threads, AddStep(t),
         UNCHANGED <<life, suspect, driverVars>>
  PROVE  Typed'
<1> USE DEF Typed
<1>0. /\ {"add_only", "add_lock", "send", "add_unlock", "add_enter"} \subseteq Pcs
      /\ pc[t] \in AddPcs => Needs("add_only", arg[t])
      /\ pc[t] \in TransferPcs => /\ Needs("add_lock", arg[t])
                                  /\ Needs("send", arg[t])
                                  /\ Needs("add_unlock", arg[t])
  BY DEF Pcs, LoopPcs, Requests, Needs, PutPcs, AddPcs, AtServerPcs, TransferPcs, ReadPcs
<1>1. CASE AddFirst(t)
  <2>1. State'
    BY <1>1 DEF AddFirst, State, serverVars, frontendVars, driverVars
  <2>2. CASE Goto(t, "add_only") /\ UNCHANGED arg
    BY <1>0, <1>1, <2>1, <2>2, GotoOnlyKeepsRequests DEF AddFirst, AddPcs
  <2>3. ASSUME NEW s \in servers,
               arg' = [arg EXCEPT ![t] = [@ EXCEPT !.from = s]],
               Goto(t, "add_enter")
        PROVE  Requests'
    <3> DEFINE a == [arg[t] EXCEPT !.from = s]
    <3>1. arg[t] \in Args /\ arg[t].srv \in ServerIds /\ s \in ServerIds
      BY <1>1 DEF AddFirst, Requests, State, Needs, AddPcs
    <3>2. a \in Args
      BY <3>1 DEF Args
    <3>3. a.from = s /\ a.srv = arg[t].srv
      BY <3>1 DEF Args
    <3>4. arg' = [arg EXCEPT ![t] = a]
      BY <2>3
    <3> HIDE DEF a
    <3>5. Needs("add_enter", a)
      BY <3>1, <3>3 DEF Needs, PutPcs, AddPcs, AtServerPcs, TransferPcs, ReadPcs
    <3>6. QED
      BY <1>0, <1>1, <2>3, <3>2, <3>4, <3>5, GotoKeepsRequests DEF AddFirst
  <2>4. QED
    BY <1>1, <2>1, <2>2, <2>3 DEF AddFirst
<1>2. CASE AddOnly(t)
  <2>1. Requests'
    BY <1>2, ReturnKeepsRequests DEF AddOnly, Replies
  <2>2. arg[t].srv \in ServerIds
    BY <1>2 DEF AddOnly, Requests, Needs, AddPcs
  <2>3. servers' \in SUBSET ServerIds /\ committed' \in [Keys -> Stored \cup {None}]
    BY <1>2, <2>2 DEF AddOnly, State
  <2>4. State'
    BY <1>2, <2>3 DEF AddOnly, State, serverVars, driverVars
  <2>5. QED
    BY <2>1, <2>4
<1>3. CASE AddEnter(t)
  <2>1. Requests'
    BY <1>0, <1>3, GotoOnlyKeepsRequests DEF AddEnter, TransferPcs
  <2>2. State'
    BY <1>3 DEF AddEnter, Enter, State, serverVars, driverVars
  <2>3. QED
    BY <2>1, <2>2
<1>4. CASE AddSend(t)
  <2>1. Requests'
    BY <1>0, <1>4, GotoOnlyKeepsRequests DEF AddSend, TransferPcs
  <2>2. State'
    BY <1>4 DEF AddSend, Entries, State, frontendVars, driverVars
  <2>3. QED
    BY <2>1, <2>2
<1>5. CASE AddSendThrows(t) \/ SendThrows(t)
  BY <1>5, ThrowTyped DEF AddSendThrows, SendThrows
<1>6. CASE AddSent(t)
  BY <1>0, <1>6, NextLoopTyped DEF AddSent, NextLoop, TransferPcs
<1>7. CASE AddDone(t)
  <2>1. Requests'
    BY <1>7, ReturnKeepsRequests DEF AddDone, Replies
  <2>2. arg[t].srv \in ServerIds
    BY <1>7 DEF AddDone, Requests, Needs, AddPcs, TransferPcs
  <2>3. State'
    BY <1>7, <2>2 DEF AddDone, Leave, State, serverVars, driverVars
  <2>4. QED
    BY <2>1, <2>3
<1>8. ASSUME NEW k \in Keys, SendOne(t, k), UNCHANGED frontendVars PROVE Typed'
  <2>1. Requests'
    BY <1>8, SameRequests DEF SendOne
  <2>2. arg[t].srv \in ServerIds /\ arg[t].from \in ServerIds
    BY <1>8 DEF SendOne, Requests, Needs, AddPcs, TransferPcs
  <2>3. data' \in [ServerIds -> [Keys -> Stored]]
    BY <1>8, <2>2 DEF SendOne, ServerPut, State
  <2>4. State'
    BY <1>8, <2>3 DEF SendOne, State, frontendVars, driverVars
  <2>5. QED
    BY <2>1, <2>4
<1>9. QED
  BY <1>1, <1>2, <1>3, <1>4, <1>5, <1>6, <1>7, <1>8 DEF AddStep

LEMMA ReadStepTyped ==
  ASSUME Typed, NEW t \in Threads, ReadStep(t), UNCHANGED frontendVars,
         UNCHANGED <<life, suspect, driverVars>>
  PROVE  Typed'
<1> USE DEF Typed
<1>0. /\ {"get_exists", "get_call", "check", "park", "wait", "read"} \subseteq Pcs
      /\ pc[t] \in AtServerPcs => \A label \in AtServerPcs : Needs(label, arg[t])
  BY DEF Pcs, Requests, Needs, PutPcs, AddPcs, AtServerPcs, TransferPcs, ReadPcs
<1>1. State'
  BY DEF ReadStep, GetPick, GetExists, GetSend, CheckLock, Park, ReadKey,
         ReadDone, ReadBroken, State, serverVars, frontendVars, driverVars
<1>2. CASE GetPick(t)
  <2>1. CASE Return(t, "fault")
    BY <1>1, <2>1, ReturnKeepsRequests DEF Replies
  <2>2. ASSUME NEW s \in servers,
               arg' = [arg EXCEPT ![t] = [@ EXCEPT !.srv = s, !.idx = 0]],
               Goto(t, "get_exists"), UNCHANGED reply
        PROVE  Requests'
    <3> DEFINE a == [arg[t] EXCEPT !.srv = s, !.idx = 0]
    <3>1. arg[t] \in Args /\ s \in ServerIds
      BY DEF Requests, State
    <3>2. [arg[t] EXCEPT !.srv = s] \in Args /\ 0 \in Int
      BY <3>1 DEF Args
    <3>3. a \in Args
      BY <3>2 DEF Args
    <3>4. a.srv = s
      BY <3>1 DEF Args
    <3>5. arg' = [arg EXCEPT ![t] = a]
      BY <2>2
    <3> HIDE DEF a
    <3>6. Needs("get_exists", a)
      BY <3>1, <3>4 DEF Needs, PutPcs, AddPcs, AtServerPcs, TransferPcs, ReadPcs
    <3>7. QED
      BY <1>0, <2>2, <3>3, <3>5, <3>6, GotoKeepsRequests
  <2>3. QED
    BY <1>1, <1>2, <2>1, <2>2 DEF GetPick
<1>3. CASE GetExists(t)
  <2>1. \/ Goto(t, "get_call") /\ UNCHANGED <<arg, reply>>
        \/ Return(t, "ERR_NOEXIST")
    BY <1>3 DEF GetExists
  <2>2. "get_call" \in AtServerPcs /\ pc[t] \in AtServerPcs
    BY <1>3 DEF AtServerPcs, GetExists
  <2>3. QED
    BY <1>0, <1>1, <2>1, <2>2, GotoOnlyKeepsRequests, ReturnKeepsRequests DEF Replies
<1>4. CASE GetSend(t)
  <2>1. \/ Goto(t, "check") /\ UNCHANGED <<arg, reply>>
        \/ Return(t, "fault")
    BY <1>4 DEF GetSend
  <2>2. "check" \in AtServerPcs /\ pc[t] \in AtServerPcs
    BY <1>4 DEF AtServerPcs, GetSend, ReadPcs
  <2>3. QED
    BY <1>0, <1>1, <2>1, <2>2, GotoOnlyKeepsRequests, ReturnKeepsRequests DEF Replies
<1>5. CASE CheckLock(t) \/ Park(t)
  <2>1. \E label \in {"park", "read", "wait"} :
          Goto(t, label) /\ UNCHANGED <<arg, reply>>
    BY <1>5 DEF CheckLock, Park
  <2>2. {"park", "read", "wait"} \subseteq AtServerPcs /\ pc[t] \in AtServerPcs
    BY <1>5 DEF AtServerPcs, CheckLock, Park, ReadPcs
  <2>3. QED
    BY <1>0, <1>1, <2>1, <2>2, GotoOnlyKeepsRequests
<1>6. CASE ReadDone(t) \/ ReadBroken(t)
  BY <1>1, <1>6, ReturnKeepsRequests DEF ReadDone, ReadBroken, Replies
<1>7. ASSUME NEW k \in Keys, ReadKey(t, k) PROVE Requests'
  <2> DEFINE found == data[arg[t].srv][k]
             a == [arg[t] EXCEPT !.want = arg[t].want \ {k}, !.shown[k] = found]
  <2>1. pc[t] = "read" /\ arg[t] \in Args /\ arg[t].srv \in ServerIds
    BY <1>7 DEF ReadKey, Requests, Needs, AtServerPcs, ReadPcs
  <2>2. found \in Stored
    BY <2>1 DEF State
  <2>3. arg' = [arg EXCEPT ![t] = a]
    BY <1>7 DEF ReadKey
  <2> HIDE DEF found
  <2>4. a \in Args
    BY <2>1, <2>2 DEF Args
  <2>5. a.srv = arg[t].srv
    BY <2>1, <2>2 DEF Args
  <2> HIDE DEF a
  <2>6. Needs("read", a)
    BY <2>1, <2>5 DEF Needs, PutPcs, AddPcs, AtServerPcs, TransferPcs, ReadPcs
  <2>7. UNCHANGED <<pc, reply>>
    BY <1>7 DEF ReadKey
  <2>8. QED
    BY <2>1, <2>3, <2>4, <2>6, <2>7 DEF Requests
<1>8. QED
  BY <1>1, <1>2, <1>3, <1>4, <1>5, <1>6, <1>7 DEF ReadStep

-----------------------------------------------------------------------------
(* Typed is inductive: everything else, and the theorem *)

LEMMA HeartBeatTyped ==
  ASSUME Typed, HeartBeatStep
  PROVE  Typed'
<1>1. Requests'
  BY SameRequests DEF Typed, HeartBeatStep, Probe, Remove, vars
<1>2. State'
  BY DEF Typed, HeartBeatStep, Probe, Remove, vars, serverVars, frontendVars, driverVars, State
<1>3. QED
  BY <1>1, <1>2 DEF Typed

LEMMA JvmTyped ==
  ASSUME Typed, JvmStep
  PROVE  Typed'
<1>1. Requests'
  BY SameRequests DEF Typed, JvmStep, vars
<1>2. State'
  BY DEF Typed, JvmStep, Start, Crash, vars, serverVars, frontendVars, State
<1>3. QED
  BY <1>1, <1>2 DEF Typed

LEMMA NextTyped == Typed /\ [Next]_allVars => Typed'
<1> SUFFICES ASSUME Typed, [Next]_allVars PROVE Typed'
  OBVIOUS
<1>1. ASSUME NEW t \in Threads, ThreadStep(t) PROVE Typed'
  BY <1>1, PutStepTyped, LoopStepTyped, AddStepTyped, ReadStepTyped DEF ThreadStep
<1>2. CASE UNCHANGED allVars
  <2>1. Requests'
    BY <1>2, SameRequests DEF Typed, allVars, vars
  <2>2. State'
    BY <1>2 DEF Typed, State, allVars, vars, serverVars, frontendVars, driverVars
  <2>3. QED
    BY <2>1, <2>2 DEF Typed
<1>3. QED
  BY <1>1, <1>2, ClientCallTyped, ListTyped, AdminCallsTyped, HeartBeatTyped, JvmTyped DEF Next

\* Type correctness: whatever the threads, the heartbeat and crashes interleave
\* to, no handler ever uses a local it has not set or a server id, key or value
\* that was never handed out.
THEOREM TypeCorrect == Spec => []TypeOK
<1>1. Spec => []Typed
  BY InitTyped, NextTyped, PTL DEF Spec
<1>2. QED
  BY <1>1, TypedImpliesTypeOK, PTL

-----------------------------------------------------------------------------
(* serversLock.  A step of one thread leaves the requests of the others alone, *)
(* but for waking readers, and it enters or leaves the loops only together     *)
(* with the monitor.                                                           *)

Others(t) ==
  \A x \in Threads \ {t} :
    /\ arg'[x] = arg[x]
    /\ pc'[x] = pc[x] \/ (pc[x] = "wait" /\ pc'[x] = "check")

Discipline(t) ==
  \/ monitor' = monitor /\ (pc'[t] \in LoopPcs => pc[t] \in LoopPcs)
  \/ monitor = None /\ monitor' = t
  \/ monitor' = None /\ pc[t] \in LoopPcs /\ pc'[t] \notin LoopPcs

\* What a step needs to know of the program points.
LEMMA LoopLabels ==
  /\ {"put_lock", "put_write", "put_unlock", "add_lock", "send", "add_unlock"} = LoopPcs
  /\ {"idle", "put_enter", "get_pick", "get_exists", "get_call", "add_first",
      "add_only", "add_enter", "check", "park", "wait", "read"} \cap LoopPcs = {}
BY DEF LoopPcs

\* Where a request goes, and that the other requests stay.
LEMMA BeginMoves ==
  ASSUME Requests, NEW t \in Threads, NEW label, NEW a, Begin(t, label, a)
  PROVE  Others(t) /\ pc'[t] = label
BY DEF Requests, Begin, Goto, Others

LEMMA ReturnMoves ==
  ASSUME Requests, NEW t \in Threads, NEW answer, Return(t, answer)
  PROVE  Others(t) /\ pc'[t] = "idle"
BY DEF Requests, Return, Others

LEMMA GotoMoves ==
  ASSUME Requests, NEW t \in Threads, NEW label, Goto(t, label),
         UNCHANGED arg \/ \E a : arg' = [arg EXCEPT ![t] = a]
  PROVE  Others(t) /\ pc'[t] = label
BY DEF Requests, Goto, Others

LEMMA CallDiscipline ==
  ASSUME Typed, NEW t \in Threads,
         \/ ClientCall(t)
         \/ List(t)
         \/ \E s \in ServerIds : AddNode(t, s) \/ AddAgain(t, s) \/ AdminCall(t, s)
  PROVE  Others(t) /\ Discipline(t)
<1> USE DEF Typed
<1>1. Others(t) /\ pc'[t] \notin LoopPcs
  <2>1. CASE ClientCall(t)
    BY <2>1, BeginMoves, ReturnMoves, LoopLabels DEF ClientCall, PutCall, GetCall
  <2>2. CASE List(t)
    BY <2>2, ReturnMoves, LoopLabels DEF List, ListServer
  <2>3. ASSUME NEW s \in ServerIds, AddNode(t, s) \/ AddAgain(t, s)
        PROVE  Others(t) /\ pc'[t] \notin LoopPcs
    BY <2>3, BeginMoves, ReturnMoves, LoopLabels DEF AddNode, AddAgain, AddCall
  <2>4. ASSUME NEW s \in ServerIds, AdminCall(t, s)
        PROVE  Others(t) /\ pc'[t] \notin LoopPcs
    BY <2>4, BeginMoves, ReturnMoves, LoopLabels DEF AdminCall, PrintCall, ShutdownServer
  <2>5. QED
    BY <2>1, <2>2, <2>3, <2>4
<1>2. UNCHANGED monitor
  BY DEF ClientCall, PutCall, GetCall, List, ListServer, AddNode, AddAgain, AddCall,
         AdminCall, PrintCall, ShutdownServer, frontendVars
<1>3. QED
  BY <1>1, <1>2 DEF Discipline

LEMMA ThrowDiscipline ==
  ASSUME Typed, NEW t \in Threads, Throw(t), pc[t] \in LoopPcs
  PROVE  Others(t) /\ Discipline(t)
BY ReturnMoves, LoopLabels DEF Typed, Throw, Leave, Discipline

LEMMA StepDiscipline ==
  ASSUME Typed, NEW t \in Threads, ThreadStep(t)
  PROVE  Others(t) /\ Discipline(t)
<1> USE DEF Typed
<1>1. CASE PutStep(t)
  <2>1. CASE PutEnter(t)
    BY <2>1, GotoMoves DEF PutEnter, Enter, Discipline
  <2>2. CASE PutLocked(t) \/ PutWritten(t)
    BY <2>2, GotoMoves, LoopLabels DEF PutLocked, PutWritten, NextLoop, Discipline
  <2>3. CASE PutDone(t)
    BY <2>3, ReturnMoves, LoopLabels DEF PutDone, Leave, Discipline
  <2>4. ASSUME NEW s \in ServerIds, WriteOne(t, s) PROVE Others(t) /\ Discipline(t)
    BY <2>4 DEF WriteOne, requestVars, Others, Discipline
  <2>5. QED
    BY <1>1, <2>1, <2>2, <2>3, <2>4 DEF PutStep
<1>2. CASE LoopStep(t)
  <2>1. ASSUME NEW s \in ServerIds, LockOne(t, s) PROVE Others(t) /\ Discipline(t)
    BY <2>1 DEF LockOne, requestVars, Others, Discipline
  <2>2. ASSUME NEW s \in ServerIds, UnlockOne(t, s) PROVE Others(t) /\ Discipline(t)
    BY <2>2, LoopLabels DEF UnlockOne, ServerUnlock, Others, Discipline
  <2>3. ASSUME NEW s \in ServerIds, LoopThrows(t, s) PROVE Others(t) /\ Discipline(t)
    BY <2>3, ThrowDiscipline, LoopLabels DEF LoopThrows
  <2>4. QED
    BY <1>2, <2>1, <2>2, <2>3 DEF LoopStep
<1>3. CASE AddStep(t)
  <2>1. CASE AddFirst(t)
    BY <2>1, GotoMoves, LoopLabels DEF AddFirst, frontendVars, Discipline
  <2>2. CASE AddOnly(t)
    BY <2>2, ReturnMoves, LoopLabels DEF AddOnly, Discipline
  <2>3. CASE AddEnter(t)
    BY <2>3, GotoMoves DEF AddEnter, Enter, Discipline
  <2>4. CASE AddSend(t)
    BY <2>4, GotoMoves, LoopLabels DEF AddSend, frontendVars, Discipline
  <2>5. CASE AddSendThrows(t) \/ SendThrows(t)
    BY <2>5, ThrowDiscipline, LoopLabels DEF AddSendThrows, SendThrows
  <2>6. CASE AddSent(t)
    BY <2>6, GotoMoves, LoopLabels DEF AddSent, NextLoop, Discipline
  <2>7. CASE AddDone(t)
    BY <2>7, ReturnMoves, LoopLabels DEF AddDone, Leave, Discipline
  <2>8. ASSUME NEW k \in Keys, SendOne(t, k), UNCHANGED frontendVars
        PROVE  Others(t) /\ Discipline(t)
    BY <2>8 DEF SendOne, requestVars, frontendVars, Others, Discipline
  <2>9. QED
    BY <1>3, <2>1, <2>2, <2>3, <2>4, <2>5, <2>6, <2>7, <2>8 DEF AddStep
<1>4. CASE ReadStep(t) /\ UNCHANGED frontendVars
  <2>1. CASE GetPick(t)
    BY <1>4, <2>1, GotoMoves, ReturnMoves, LoopLabels DEF GetPick, frontendVars, Discipline
  <2>2. CASE GetExists(t) \/ GetSend(t)
    BY <1>4, <2>2, GotoMoves, ReturnMoves, LoopLabels
       DEF GetExists, GetSend, frontendVars, Discipline
  <2>3. CASE CheckLock(t) \/ Park(t)
    BY <1>4, <2>3, GotoMoves, LoopLabels DEF CheckLock, Park, frontendVars, Discipline
  <2>4. CASE ReadDone(t) \/ ReadBroken(t)
    BY <1>4, <2>4, ReturnMoves, LoopLabels DEF ReadDone, ReadBroken, frontendVars, Discipline
  <2>5. ASSUME NEW k \in Keys, ReadKey(t, k) PROVE Others(t) /\ Discipline(t)
    BY <1>4, <2>5 DEF ReadKey, Requests, frontendVars, Others, Discipline
  <2>6. QED
    BY <1>4, <2>1, <2>2, <2>3, <2>4, <2>5 DEF ReadStep
<1>5. QED
  BY <1>1, <1>2, <1>3, <1>4 DEF ThreadStep

\* A thread that keeps the discipline keeps the loops to one thread.
LEMMA DisciplineExcludes ==
  ASSUME Typed, SingleWriter, NEW t \in Threads, Others(t), Discipline(t)
  PROVE  SingleWriter'
<1> SUFFICES ASSUME NEW x \in Threads, pc'[x] \in LoopPcs PROVE monitor' = x
  BY DEF SingleWriter
<1>1. CASE x = t
  BY <1>1 DEF Discipline, SingleWriter
<1>2. CASE x # t
  <2>1. pc[x] \in LoopPcs
    BY <1>2, LoopLabels DEF Others
  <2>2. monitor = x /\ x # None
    BY <2>1, NoneAssumption DEF SingleWriter
  <2>3. QED
    BY <1>2, <2>2 DEF Discipline, SingleWriter
<1>3. QED
  BY <1>1, <1>2

LEMMA NextExcludes == Typed /\ SingleWriter /\ [Next]_allVars => SingleWriter'
<1> SUFFICES ASSUME Typed, SingleWriter, [Next]_allVars PROVE SingleWriter'
  OBVIOUS
<1>1. CASE \E t \in Threads : Others(t) /\ Discipline(t)
  BY <1>1, DisciplineExcludes
<1>2. CASE UNCHANGED <<pc, monitor>>
  BY <1>2 DEF SingleWriter
<1>3. HeartBeatStep => UNCHANGED <<pc, monitor>>
  BY DEF HeartBeatStep, Probe, Remove, vars, requestVars, frontendVars
<1>4. JvmStep \/ UNCHANGED allVars => UNCHANGED <<pc, monitor>>
  BY DEF JvmStep, allVars, vars, requestVars, frontendVars
<1>5. QED
  BY <1>1, <1>2, <1>3, <1>4, CallDiscipline, StepDiscipline DEF Next, Threads

\* Mutual exclusion: whatever calls are made and servers crash, at most one
\* thread at a time locks, writes, transfers or unlocks, and it holds
\* serversLock from its first lock() to its last unlock().
THEOREM MutualExclusion == Spec => []SingleWriter
<1>1. Init => SingleWriter
  BY DEF Init, SingleWriter, LoopPcs
<1>2. Spec => [](Typed /\ SingleWriter)
  BY <1>1, InitTyped, NextTyped, NextExcludes, PTL DEF Spec
<1>3. QED
  BY <1>2, PTL

-----------------------------------------------------------------------------
(* The membership *)

\* The steps of a call in progress that change the list of servers wait for
\* the monitor or give it back.
LEMMA StepKeepsServers ==
  ASSUME NEW t \in Threads, ThreadStep(t), servers' # servers
  PROVE  monitor = None \/ monitor' = None
<1>1. ~PutStep(t)
  BY DEF PutStep, PutEnter, PutLocked, PutWritten, NextLoop, PutDone, WriteOne
<1>2. ~LoopStep(t)
  BY DEF LoopStep, LockOne, UnlockOne, LoopThrows, Throw
<1>3. AddStep(t)
  BY <1>1, <1>2 DEF ThreadStep, frontendVars
<1>4. AddOnly(t) \/ AddDone(t)
  BY <1>3 DEF AddStep, AddFirst, AddEnter, AddSend, AddSendThrows, SendThrows, Throw,
              AddSent, NextLoop, frontendVars
<1>5. QED
  BY <1>4 DEF AddOnly, AddDone, Leave

LEMMA NextKeepsServers ==
  ASSUME Next, servers' # servers
  PROVE  monitor = None \/ monitor' = None
<1>1. ASSUME NEW t \in Clients PROVE ~ClientCall(t)
  BY DEF ClientCall, PutCall, GetCall, frontendVars
<1>2. ASSUME NEW t \in Admins PROVE ~List(t)
  BY DEF List, ListServer, frontendVars
<1>3. ASSUME NEW t \in Admins, NEW s \in ServerIds,
             AddNode(t, s) \/ AddAgain(t, s) \/ AdminCall(t, s)
      PROVE  monitor = None
  BY <1>3 DEF AddNode, AddAgain, AddCall, AdminCall, PrintCall, ShutdownServer, frontendVars
<1>4. HeartBeatStep => monitor = None
  BY DEF HeartBeatStep, Probe, Remove, vars, frontendVars
<1>5. ~JvmStep
  BY DEF JvmStep, vars, frontendVars
<1>6. QED
  BY <1>1, <1>2, <1>3, <1>4, <1>5, StepKeepsServers DEF Next

\* One membership per call: as long as a thread keeps serversLock, neither the
\* heartbeat nor another call changes the list its loops walk.
THEOREM OneMembership == Spec => LoopsSeeOneMembership
<1>1. [Next]_allVars =>
        [monitor # None /\ monitor' = monitor => servers' = servers]_allVars
  BY NextKeepsServers DEF allVars, vars, frontendVars
<1>2. QED
  BY <1>1, PTL DEF Spec, LoopsSeeOneMembership
-----------------------------------------------------------------------------
(* Replication: why an acknowledged put is, and stays, at every registered     *)
(* server.  One administrator is assumed, as in run_cluster.py.                *)

OneAdministrator == \A a, b \in Admins : a = b

-----------------------------------------------------------------------------
(* The inductive invariant                                                   *)

\* Client threads put, the administrator's threads add.
Roles ==
  \A t \in Threads :
    /\ pc[t] \in PutPcs => t \in Clients
    /\ pc[t] \in AddPcs => t \in Admins

\* addServer found no server, and no other addServer is there to add one.
Alone == \A t \in Threads : pc[t] = "add_only" => servers = {}

\* The write loop has left the value at the servers it visited, and the unlock
\* loop starts when that is all of them.
WriteProgress ==
  \A t \in Threads :
    /\ pc[t] = "put_write" =>
         \A s \in servers \ todo : data[s][arg[t].key] = arg[t].val
    /\ pc[t] = "put_unlock" =>
         \A s \in servers : data[s][arg[t].key] = arg[t].val

\* The joiner has every entry of the sender that is no longer to be sent.
SendProgress ==
  \A t \in Threads :
    pc[t] \in {"send", "add_unlock"} =>
      /\ arg[t].from \in servers
      /\ pc[t] = "add_unlock" => unsent = {}
      /\ \A k \in Keys \ unsent :
           data[arg[t].from][k] # Absent =>
             data[arg[t].srv][k] = data[arg[t].from][k]

Replicated ==
  Typed /\ SingleWriter /\ Roles /\ Alone /\ WriteProgress /\ SendProgress /\ Durable

-----------------------------------------------------------------------------
(* Frames *)

\* The program points the invariant says something about.
Claims == {"put_write", "put_unlock", "send", "add_unlock", "add_only"}
WritePcs == {"put_write", "put_unlock"}

\* A thread inside the loops is alone there; nobody is while the monitor is free.
LEMMA Solo ==
  ASSUME Typed, SingleWriter, NEW t \in Threads, pc[t] \in LoopPcs \/ monitor = None
  PROVE  \A x \in Threads \ {t} : pc[x] \notin LoopPcs
BY NoneAssumption DEF SingleWriter

\* A request stays with the handler it called.
LEMMA StepStaysInCall ==
  ASSUME Typed, NEW t \in Threads, ThreadStep(t)
  PROVE  /\ pc'[t] \in PutPcs => pc[t] \in PutPcs
         /\ pc'[t] \in AddPcs => pc[t] \in AddPcs
<1> USE DEF Typed, PutPcs, AddPcs, TransferPcs
<1>1. CASE PutStep(t)
  BY <1>1, GotoMoves, ReturnMoves
     DEF PutStep, PutEnter, PutLocked, PutWritten, NextLoop, PutDone, WriteOne, requestVars
<1>2. CASE LoopStep(t)
  BY <1>2, ReturnMoves DEF LoopStep, LockOne, UnlockOne, ServerUnlock, LoopThrows, Throw, requestVars
<1>3. CASE AddStep(t)
  BY <1>3, GotoMoves, ReturnMoves
     DEF AddStep, AddFirst, AddOnly, AddEnter, AddSend, AddSendThrows, SendThrows, Throw,
         AddSent, NextLoop, AddDone, SendOne, requestVars
<1>4. CASE ReadStep(t)
  <2>1. CASE GetPick(t)
    <3>1. Goto(t, "get_exists") \/ Return(t, "fault")
      BY <2>1 DEF GetPick
    <3>2. pc'[t] \in {"get_exists", "idle"}
      BY <3>1, ReturnMoves DEF Goto, Requests
    <3>3. QED
      BY <3>2
  <2>2. CASE GetExists(t) \/ GetSend(t)
    BY <2>2, GotoMoves, ReturnMoves DEF GetExists, GetSend
  <2>3. CASE CheckLock(t) \/ Park(t)
    BY <2>3, GotoMoves DEF CheckLock, Park
  <2>4. CASE ReadDone(t) \/ ReadBroken(t)
    BY <2>4, ReturnMoves DEF ReadDone, ReadBroken
  <2>5. ASSUME NEW k \in Keys, ReadKey(t, k) PROVE UNCHANGED pc
    BY <2>5 DEF ReadKey
  <2>6. QED
    BY <1>4, <2>1, <2>2, <2>3, <2>4, <2>5 DEF ReadStep
<1>5. QED
  BY <1>1, <1>2, <1>3, <1>4 DEF ThreadStep

LEMMA NextKeepsRoles == Typed /\ Roles /\ [Next]_allVars => Roles'
<1> SUFFICES ASSUME Typed, Roles, [Next]_allVars PROVE Roles'
  OBVIOUS
<1> USE DEF Typed
<1>0. ASSUME NEW t \in Threads, Others(t),
             pc'[t] \in PutPcs => t \in Clients, pc'[t] \in AddPcs => t \in Admins
      PROVE  Roles'
  BY <1>0 DEF Roles, Others, PutPcs, AddPcs, TransferPcs
<1>1. ASSUME NEW t \in Clients, ClientCall(t) PROVE Roles'
  <2>1. t \in Threads /\ Others(t)
    BY <1>1, CallDiscipline DEF Threads
  <2>2. ASSUME NEW k \in Keys, NEW v \in Values, PutCall(t, k, v)
        PROVE  pc'[t] = "put_enter"
    BY <2>1, <2>2, BeginMoves DEF PutCall
  <2>3. ASSUME NEW k \in Keys, GetCall(t, k)
        PROVE  pc'[t] \in {"idle", "get_pick"}
    BY <2>1, <2>3, BeginMoves, ReturnMoves DEF GetCall
  <2>4. pc'[t] \notin AddPcs
    BY <1>1, <2>2, <2>3 DEF ClientCall, AddPcs, TransferPcs
  <2>5. QED
    BY <1>0, <2>1, <2>4
<1>2. ASSUME NEW t \in Admins, List(t) PROVE Roles'
  <2>1. t \in Threads /\ Others(t)
    BY <1>2, CallDiscipline DEF Threads
  <2>2. pc'[t] \notin PutPcs
    BY <1>2, <2>1, ReturnMoves DEF List, ListServer, PutPcs
  <2>3. QED
    BY <1>0, <2>1, <2>2
<1>3. ASSUME NEW t \in Admins, NEW s \in ServerIds,
             AddNode(t, s) \/ AddAgain(t, s) \/ AdminCall(t, s)
      PROVE  Roles'
  <2>1. t \in Threads /\ Others(t)
    BY <1>3, CallDiscipline DEF Threads
  <2>2. pc'[t] \notin PutPcs
    BY <1>3, <2>1, BeginMoves, ReturnMoves
       DEF AddNode, AddAgain, AddCall, AdminCall, PrintCall, ShutdownServer, PutPcs
  <2>3. QED
    BY <1>0, <2>1, <2>2
<1>4. ASSUME NEW t \in Threads, ThreadStep(t) PROVE Roles'
  BY <1>0, <1>4, StepDiscipline, StepStaysInCall DEF Roles
<1>5. HeartBeatStep \/ JvmStep \/ UNCHANGED allVars => UNCHANGED pc
  BY DEF HeartBeatStep, Probe, Remove, JvmStep, allVars, vars, requestVars
<1>6. QED
  BY <1>1, <1>2, <1>3, <1>4, <1>5 DEF Next, Roles

\* A step that makes no new claim, touches no data, list or history, and
\* changes the loop variables only if nobody else is in a loop.
LEMMA Quiet ==
  ASSUME Replicated, NEW t \in Threads, Others(t),
         Typed', SingleWriter', Roles',
         UNCHANGED <<data, servers, committed>>,
         pc[t] \notin WritePcs, pc'[t] \notin Claims,
         UNCHANGED <<todo, unsent>> \/ \A x \in Threads \ {t} : pc[x] \notin LoopPcs
  PROVE  Replicated'
<1> USE DEF Replicated, Claims, WritePcs
<1>1. \A x \in Threads : pc'[x] \in Claims => x # t /\ pc'[x] = pc[x] /\ arg'[x] = arg[x]
  BY DEF Others
<1>2. \A x \in Threads : pc[x] \in WritePcs => pc'[x] = pc[x] /\ arg'[x] = arg[x]
  BY DEF Others
<1>3. Alone'
  BY <1>1 DEF Alone
<1>4. WriteProgress'
  BY <1>1, LoopLabels DEF WriteProgress
<1>5. SendProgress'
  BY <1>1, LoopLabels DEF SendProgress
<1>6. Durable'
  BY <1>2 DEF Durable, WritingKey
<1>7. QED
  BY <1>3, <1>4, <1>5, <1>6

\* A step that touches neither the requests nor anything the invariant is about.
LEMMA Aside ==
  ASSUME Replicated, Typed', SingleWriter', Roles',
         UNCHANGED <<pc, arg, data, servers, committed, todo, unsent>>
  PROVE  Replicated'
<1> USE DEF Replicated
<1>1. Alone' /\ WriteProgress' /\ SendProgress'
  BY DEF Alone, WriteProgress, SendProgress
<1>2. Durable'
  BY DEF Durable, WritingKey
<1>3. QED
  BY <1>1, <1>2

\* A server leaves the list while nobody holds the monitor.
LEMMA ServerLeaves ==
  ASSUME Replicated, monitor = None, servers' \subseteq servers,
         Typed', SingleWriter', Roles',
         UNCHANGED <<data, committed, todo, unsent>>,
         UNCHANGED <<pc, arg>> \/ \E t \in Threads : Others(t) /\ pc'[t] = "idle"
  PROVE  Replicated'
<1> USE DEF Replicated
<1>1. \A x \in Threads : pc[x] \notin LoopPcs
  BY NoneAssumption DEF SingleWriter
<1>2. \A x \in Threads : pc'[x] \notin LoopPcs /\ (pc'[x] = "add_only" => pc[x] = "add_only")
  BY <1>1, LoopLabels DEF Others
<1>3. Alone'
  BY <1>2 DEF Alone
<1>4. WriteProgress' /\ SendProgress'
  BY <1>2, LoopLabels DEF WriteProgress, SendProgress
<1>5. Durable'
  BY <1>1, LoopLabels DEF Durable, WritingKey
<1>6. QED
  BY <1>3, <1>4, <1>5

\* A step inside a loop: of the claims only the thread's own can be disturbed.
LEMMA InLoop ==
  ASSUME Replicated, NEW t \in Threads, Others(t), pc[t] \in LoopPcs,
         Typed', SingleWriter', Roles', pc'[t] # "add_only",
         servers' = servers \/ t \in Admins, OneAdministrator,
         Durable',
         pc'[t] = "put_write" =>
           \A s \in servers' \ todo' : data'[s][arg'[t].key] = arg'[t].val,
         pc'[t] = "put_unlock" =>
           \A s \in servers' : data'[s][arg'[t].key] = arg'[t].val,
         pc'[t] \in {"send", "add_unlock"} =>
           /\ arg'[t].from \in servers'
           /\ pc'[t] = "add_unlock" => unsent' = {}
           /\ \A k \in Keys \ unsent' :
                data'[arg'[t].from][k] # Absent =>
                  data'[arg'[t].srv][k] = data'[arg'[t].from][k]
  PROVE  Replicated'
<1> USE DEF Replicated
<1>1. \A x \in Threads : pc'[x] \in LoopPcs => x = t
  BY Solo, LoopLabels DEF Others
<1>2. Alone'
  <2> SUFFICES ASSUME NEW x \in Threads, pc'[x] = "add_only" PROVE servers' = {}
    BY DEF Alone
  <2>1. x # t /\ pc[x] = "add_only"
    BY DEF Others
  <2>2. servers = {} /\ x \in Admins
    BY <2>1 DEF Alone, Roles, AddPcs
  <2>3. QED
    BY <2>1, <2>2 DEF OneAdministrator
<1>3. WriteProgress'
  BY <1>1, LoopLabels DEF WriteProgress
<1>4. SendProgress'
  BY <1>1, LoopLabels DEF SendProgress
<1>5. QED
  BY <1>2, <1>3, <1>4

-----------------------------------------------------------------------------
(* put *)

\* The key a thread writes is its own, and known; nobody else writes.
LEMMA WriterAlone ==
  ASSUME Replicated, NEW t \in Threads, pc[t] \in LoopPcs
  PROVE  \A x \in Threads \ {t} : WritingKey(x) = {}
BY Solo, LoopLabels DEF Replicated, WritingKey

LEMMA PutReplicates ==
  ASSUME Replicated, OneAdministrator, NEW t \in Threads, PutStep(t),
         ThreadStep(t), Typed', SingleWriter', Roles'
  PROVE  Replicated'
<1> USE DEF Replicated, Claims, WritePcs
<1>o. Others(t)
  BY StepDiscipline
<1>r. Requests
  BY DEF Typed
<1>1. CASE PutEnter(t)
  <2>1. pc'[t] = "put_lock"
    BY <1>1, <1>r, GotoMoves DEF PutEnter
  <2>2. \A x \in Threads \ {t} : pc[x] \notin LoopPcs
    BY <1>1, Solo DEF PutEnter, Enter
  <2>3. QED
    BY <1>o, <1>1, <2>1, <2>2, Quiet DEF PutEnter, serverVars
<1>2. CASE PutLocked(t)
  <2>1. pc[t] \in LoopPcs /\ pc'[t] = "put_write" /\ arg'[t] = arg[t] /\ todo' = servers'
    BY <1>2, <1>r, GotoMoves, LoopLabels DEF PutLocked, NextLoop
  <2>2. \A x \in Threads : WritingKey(x) \subseteq WritingKey(x)'
    BY <1>o, <1>2, LoopLabels DEF WritingKey, Others, PutLocked, NextLoop
  <2>3. Durable'
    BY <1>2, <2>2 DEF Durable, PutLocked, NextLoop, serverVars
  <2>4. QED
    BY <1>o, <1>2, <2>1, <2>3, InLoop DEF PutLocked, NextLoop
<1>3. CASE PutWritten(t)
  <2>1. /\ pc[t] = "put_write" /\ pc[t] \in LoopPcs /\ pc'[t] = "put_unlock"
        /\ arg'[t] = arg[t] /\ todo = {}
    BY <1>3, <1>r, GotoMoves, LoopLabels DEF PutWritten, NextLoop
  <2>2. UNCHANGED <<data, servers, committed>>
    BY <1>3 DEF PutWritten, NextLoop, serverVars
  <2>3. \A x \in Threads : WritingKey(x) \subseteq WritingKey(x)'
    BY <1>o, <2>1 DEF WritingKey, Others
  <2>4. Durable'
    BY <2>2, <2>3 DEF Durable
  <2>5. \A s \in servers' : data'[s][arg'[t].key] = arg'[t].val
    BY <2>1, <2>2 DEF WriteProgress
  <2>6. QED
    BY <1>o, <2>1, <2>2, <2>4, <2>5, InLoop
<1>4. CASE PutDone(t)
  <2>1. pc[t] = "put_unlock" /\ pc[t] \in LoopPcs /\ pc'[t] = "idle"
    BY <1>4, <1>r, ReturnMoves, LoopLabels DEF PutDone
  <2>2. UNCHANGED <<data, servers>> /\ committed' = [committed EXCEPT ![arg[t].key] = arg[t].val]
    BY <1>4 DEF PutDone, serverVars
  <2>3. ASSUME NEW k \in Keys, k # arg[t].key, committed'[k] \in Values, NEW s \in servers'
        PROVE  data'[s][k] = committed'[k]
    <3>1. committed'[k] = committed[k]
      BY <2>2, <2>3 DEF Typed, State
    <3>2. \A x \in Threads : k \notin WritingKey(x)
      BY <2>1, <2>3, WriterAlone DEF WritingKey
    <3>3. QED
      BY <2>2, <2>3, <3>1, <3>2 DEF Durable
  <2>4. ASSUME NEW k \in Keys, k = arg[t].key, NEW s \in servers'
        PROVE  data'[s][k] = committed'[k]
    BY <2>1, <2>2, <2>4 DEF WriteProgress, Typed, State
  <2>5. Durable'
    BY <2>3, <2>4 DEF Durable
  <2>6. QED
    BY <1>o, <2>1, <2>2, <2>5, InLoop
<1>5. ASSUME NEW s \in ServerIds, WriteOne(t, s) PROVE Replicated'
  <2>1. /\ pc[t] = "put_write" /\ pc[t] \in LoopPcs
        /\ pc' = pc /\ arg' = arg /\ todo' = todo \ {s}
        /\ servers' = servers /\ committed' = committed
    BY <1>5, LoopLabels DEF WriteOne, requestVars
  <2>2. data' = [data EXCEPT ![s][arg[t].key] = arg[t].val]
    BY <1>5 DEF WriteOne, ServerPut
  <2>3. arg[t].key \in Keys
    BY <2>1 DEF Typed, Requests, Needs, PutPcs
  <2>4. \A x \in ServerIds, k \in Keys :
          data'[x][k] = IF x = s /\ k = arg[t].key THEN arg[t].val ELSE data[x][k]
    BY <2>2 DEF Typed, State
  <2>5. Durable'
    <3> SUFFICES ASSUME NEW k \in Keys, committed[k] \in Values,
                        \A x \in Threads : k \notin WritingKey(x)', NEW x \in servers
                 PROVE  data'[x][k] = committed[k]
      BY <2>1 DEF Durable
    <3>1. \A y \in Threads : k \notin WritingKey(y)
      BY <2>1 DEF WritingKey
    <3>2. k # arg[t].key
      BY <2>1, <3>1 DEF WritingKey
    <3>3. QED
      BY <2>4, <3>1, <3>2 DEF Durable, Typed, State
  <2>6. \A x \in servers' \ todo' : data'[x][arg'[t].key] = arg'[t].val
    BY <2>1, <2>3, <2>4 DEF WriteProgress, Typed, State
  <2>7. QED
    BY <1>o, <2>1, <2>5, <2>6, InLoop
<1>6. QED
  BY <1>1, <1>2, <1>3, <1>4, <1>5 DEF PutStep

-----------------------------------------------------------------------------
(* The loops of ServerLockUtil, and an exception in one of the loops *)

\* What an exception leaves is no longer an acknowledged value.
LEMMA ThrowReplicates ==
  ASSUME Replicated, OneAdministrator, NEW t \in Threads, Throw(t), pc[t] \in LoopPcs,
         Typed', SingleWriter', Roles'
  PROVE  Replicated'
<1> USE DEF Replicated, WritePcs
<1>1. Others(t) /\ pc'[t] = "idle"
  BY ReturnMoves DEF Typed, Throw
<1>2. UNCHANGED <<data, servers>>
  BY DEF Throw
<1>3. ASSUME NEW k \in Keys, committed'[k] \in Values, NEW s \in servers'
      PROVE  data'[s][k] = committed'[k]
  <2>1. k \notin WritingKey(t) /\ committed'[k] = committed[k]
    BY <1>3, NoneAssumption DEF Throw, WritingKey, Typed, State
  <2>2. \A x \in Threads : k \notin WritingKey(x)
    BY <2>1, WriterAlone
  <2>3. QED
    BY <1>2, <1>3, <2>1, <2>2 DEF Durable
<1>4. Durable'
  BY <1>3 DEF Durable
<1>5. QED
  BY <1>1, <1>2, <1>4, InLoop

LEMMA LoopReplicates ==
  ASSUME Replicated, OneAdministrator, NEW t \in Threads, LoopStep(t),
         ThreadStep(t), Typed', SingleWriter', Roles'
  PROVE  Replicated'
<1> USE DEF Replicated
<1>o. Others(t)
  BY StepDiscipline
<1>1. ASSUME NEW s \in ServerIds, LockOne(t, s) PROVE Replicated'
  <2>1. /\ pc[t] \in {"put_lock", "add_lock"} /\ pc[t] \in LoopPcs /\ pc'[t] = pc[t]
        /\ UNCHANGED <<data, servers, committed>>
    BY <1>1, LoopLabels DEF LockOne, requestVars
  <2>2. QED
    BY <1>o, <2>1, Solo, Quiet DEF Claims, WritePcs
<1>2. ASSUME NEW s \in ServerIds, UnlockOne(t, s) PROVE Replicated'
  <2>1. /\ pc[t] \in {"put_unlock", "add_unlock"} /\ pc[t] \in LoopPcs
        /\ pc'[t] = pc[t] /\ arg' = arg
        /\ UNCHANGED <<data, servers, committed, unsent>>
    BY <1>2, LoopLabels DEF UnlockOne, ServerUnlock
  <2>2. \A x \in Threads : WritingKey(x)' = WritingKey(x)
    BY <1>o, <2>1 DEF WritingKey, Others
  <2>3. Durable'
    BY <2>1, <2>2 DEF Durable
  <2>4. QED
    BY <1>o, <2>1, <2>3, InLoop DEF WriteProgress, SendProgress
<1>3. ASSUME NEW s \in ServerIds, LoopThrows(t, s) PROVE Replicated'
  BY <1>3, ThrowReplicates, LoopLabels DEF LoopThrows
<1>4. QED
  BY <1>1, <1>2, <1>3 DEF LoopStep

-----------------------------------------------------------------------------
(* addServer *)

LEMMA AddReplicates ==
  ASSUME Replicated, OneAdministrator, NEW t \in Threads, AddStep(t),
         ThreadStep(t), Typed', SingleWriter', Roles'
  PROVE  Replicated'
<1> USE DEF Replicated, Claims, WritePcs
<1>o. Others(t)
  BY StepDiscipline
<1>r. Requests
  BY DEF Typed
<1>1. CASE AddFirst(t)
  <2>1. pc[t] = "add_first" /\ UNCHANGED <<data, servers, committed, todo, unsent>>
    BY <1>1 DEF AddFirst, serverVars, frontendVars
  <2>2. CASE servers = {} /\ Goto(t, "add_only")
    <3>1. pc'[t] = "add_only"
      BY <1>r, <2>2 DEF Goto, Requests
    <3>2. Alone'
      BY <2>1, <2>2 DEF Alone
    <3>3. \A x \in Threads : pc'[x] \in LoopPcs => pc'[x] = pc[x] /\ arg'[x] = arg[x]
      BY <1>o, <3>1, LoopLabels DEF Others
    <3>4. WriteProgress' /\ SendProgress'
      BY <2>1, <3>3, LoopLabels DEF WriteProgress, SendProgress
    <3>5. \A x \in Threads : WritingKey(x)' = WritingKey(x)
      BY <1>o, <2>1, <3>1 DEF WritingKey, Others
    <3>6. Durable'
      BY <2>1, <3>5 DEF Durable
    <3>7. QED
      BY <3>2, <3>4, <3>6
  <2>3. CASE Goto(t, "add_enter")
    BY <1>o, <1>r, <2>1, <2>3, Quiet DEF Goto, Requests
  <2>4. QED
    BY <1>1, <2>2, <2>3 DEF AddFirst
<1>2. CASE AddOnly(t)
  <2>1. /\ pc[t] = "add_only" /\ servers = {} /\ pc'[t] = "idle"
        /\ arg[t].srv \in ServerIds /\ servers' = {arg[t].srv}
    BY <1>2, <1>r, ReturnMoves DEF AddOnly, Alone, Requests, Needs, AddPcs
  <2>2. UNCHANGED data /\ committed' = data[arg[t].srv] /\ monitor = None
    BY <1>2, <2>1 DEF AddOnly, serverVars
  <2>3. \A x \in Threads : pc[x] \notin LoopPcs
    BY <2>2, NoneAssumption DEF SingleWriter
  <2>4. \A x \in Threads : pc'[x] \notin LoopPcs
    BY <1>o, <2>1, <2>3, LoopLabels DEF Others
  <2>5. Alone'
    <3> SUFFICES ASSUME NEW x \in Threads, pc'[x] = "add_only" PROVE FALSE
      BY DEF Alone
    <3>1. x # t /\ pc[x] = "add_only"
      BY <1>o, <2>1 DEF Others
    <3>2. QED
      BY <2>1, <3>1 DEF Roles, AddPcs, OneAdministrator
  <2>6. WriteProgress' /\ SendProgress'
    BY <2>4, LoopLabels DEF WriteProgress, SendProgress
  <2>7. Durable'
    BY <2>1, <2>2 DEF Durable
  <2>8. QED
    BY <2>5, <2>6, <2>7
<1>3. CASE AddEnter(t)
  <2>1. pc'[t] = "add_lock"
    BY <1>3, <1>r, GotoMoves DEF AddEnter
  <2>2. \A x \in Threads \ {t} : pc[x] \notin LoopPcs
    BY <1>3, Solo DEF AddEnter, Enter
  <2>3. QED
    BY <1>o, <1>3, <2>1, <2>2, Quiet DEF AddEnter, serverVars
<1>4. CASE AddSend(t)
  <2>1. /\ pc[t] \in LoopPcs /\ pc[t] \notin WritePcs /\ pc'[t] = "send"
        /\ arg' = arg /\ arg[t].from \in servers
        /\ UNCHANGED <<data, servers, committed>> /\ unsent' = Entries(arg[t].from)
    BY <1>4, <1>r, GotoMoves, LoopLabels DEF AddSend, frontendVars
  <2>2. \A x \in Threads : WritingKey(x) \subseteq WritingKey(x)'
    BY <1>o, <2>1 DEF WritingKey, Others
  <2>3. Durable'
    BY <2>1, <2>2 DEF Durable
  <2>4. QED
    BY <1>o, <2>1, <2>3, InLoop DEF Entries
<1>5. CASE AddSendThrows(t) \/ SendThrows(t)
  BY <1>5, ThrowReplicates, LoopLabels DEF AddSendThrows, SendThrows
<1>6. CASE AddSent(t)
  <2>1. /\ pc[t] = "send" /\ pc[t] \in LoopPcs /\ pc'[t] = "add_unlock"
        /\ arg' = arg /\ unsent = {} /\ unsent' = {}
        /\ UNCHANGED <<data, servers, committed>>
    BY <1>6, <1>r, GotoMoves, LoopLabels DEF AddSent, NextLoop, serverVars
  <2>2. \A x \in Threads : WritingKey(x) \subseteq WritingKey(x)'
    BY <1>o, <2>1 DEF WritingKey, Others
  <2>3. Durable'
    BY <2>1, <2>2 DEF Durable
  <2>4. QED
    BY <1>o, <2>1, <2>3, InLoop DEF SendProgress
<1>7. CASE AddDone(t)
  <2>1. /\ pc[t] = "add_unlock" /\ pc[t] \in LoopPcs /\ pc'[t] = "idle" /\ t \in Admins
        /\ servers' = servers \cup {arg[t].srv}
        /\ UNCHANGED <<data, committed>>
    BY <1>7, <1>r, ReturnMoves, LoopLabels DEF AddDone, Roles, AddPcs, TransferPcs, serverVars
  <2>2. ASSUME NEW k \in Keys, committed[k] \in Values, NEW s \in servers'
        PROVE  data[s][k] = committed[k]
    <3>1. \A x \in Threads : k \notin WritingKey(x)
      BY <2>1, WriterAlone DEF WritingKey
    <3>2. \A x \in servers : data[x][k] = committed[k]
      BY <2>2, <3>1 DEF Durable
    <3>3. data[arg[t].from][k] = committed[k] /\ committed[k] # Absent
      BY <2>1, <2>2, <3>2, NoneAssumption DEF SendProgress
    <3>4. data[arg[t].srv][k] = committed[k]
      BY <2>1, <3>3 DEF SendProgress
    <3>5. QED
      BY <2>1, <2>2, <3>2, <3>4
  <2>3. Durable'
    BY <2>1, <2>2 DEF Durable
  <2>4. QED
    BY <1>o, <2>1, <2>3, InLoop
<1>8. ASSUME NEW k \in Keys, SendOne(t, k), UNCHANGED frontendVars PROVE Replicated'
  <2>1. /\ pc[t] = "send" /\ pc[t] \in LoopPcs /\ pc' = pc /\ arg' = arg
        /\ UNCHANGED <<servers, committed>> /\ unsent' = unsent \ {k}
    BY <1>8, LoopLabels DEF SendOne, requestVars, frontendVars
  <2>2. arg[t].srv \in ServerIds /\ arg[t].from \in ServerIds /\ arg[t].from \in servers
    BY <2>1, <1>r DEF Requests, Needs, AddPcs, TransferPcs, SendProgress
  <2>3. data' = [data EXCEPT ![arg[t].srv][k] = data[arg[t].from][k]]
    BY <1>8 DEF SendOne, ServerPut
  <2>4. \A x \in ServerIds, j \in Keys :
          data'[x][j] = IF x = arg[t].srv /\ j = k THEN data[arg[t].from][k] ELSE data[x][j]
    BY <2>2, <2>3 DEF Typed, State
  <2>5. Durable'
    <3> SUFFICES ASSUME NEW j \in Keys, committed[j] \in Values, NEW x \in servers
                 PROVE  data'[x][j] = committed[j]
      BY <2>1 DEF Durable
    <3>1. \A y \in Threads : j \notin WritingKey(y)
      BY <2>1, WriterAlone DEF WritingKey
    <3>2. data[x][j] = committed[j] /\ data[arg[t].from][j] = committed[j]
      BY <2>2, <3>1 DEF Durable
    <3>3. QED
      BY <2>4, <3>2 DEF Typed, State
  <2>6. \A j \in Keys \ unsent' :
          data'[arg[t].from][j] # Absent =>
            data'[arg[t].srv][j] = data'[arg[t].from][j]
    BY <2>1, <2>2, <2>4 DEF SendProgress
  <2>7. QED
    BY <1>o, <2>1, <2>2, <2>5, <2>6, InLoop
<1>9. QED
  BY <1>1, <1>2, <1>3, <1>4, <1>5, <1>6, <1>7, <1>8 DEF AddStep

-----------------------------------------------------------------------------
(* Gets, calls, the heartbeat, and the theorem *)

LEMMA ReadReplicates ==
  ASSUME Replicated, NEW t \in Threads, ReadStep(t), UNCHANGED frontendVars,
         ThreadStep(t), Typed', SingleWriter', Roles'
  PROVE  Replicated'
<1> USE DEF Replicated
<1>1. Others(t)
  BY StepDiscipline
<1>2. pc[t] \notin WritePcs
  BY DEF ReadStep, GetPick, GetExists, GetSend, CheckLock, Park, ReadKey, ReadDone,
         ReadBroken, ReadPcs, WritePcs
<1>3. pc'[t] \notin Claims
  <2> USE DEF Typed, Claims
  <2>1. CASE GetPick(t)
    <3>1. Goto(t, "get_exists") \/ Return(t, "fault")
      BY <2>1 DEF GetPick
    <3>2. pc'[t] \in {"get_exists", "idle"}
      BY <3>1, ReturnMoves DEF Goto, Requests
    <3>3. QED
      BY <3>2
  <2>2. CASE GetExists(t) \/ GetSend(t)
    BY <2>2, GotoMoves, ReturnMoves DEF GetExists, GetSend
  <2>3. CASE CheckLock(t) \/ Park(t)
    BY <2>3, GotoMoves DEF CheckLock, Park
  <2>4. CASE ReadDone(t) \/ ReadBroken(t)
    BY <2>4, ReturnMoves DEF ReadDone, ReadBroken
  <2>5. ASSUME NEW k \in Keys, ReadKey(t, k) PROVE pc'[t] = "read"
    BY <2>5 DEF ReadKey
  <2>6. QED
    BY <2>1, <2>2, <2>3, <2>4, <2>5 DEF ReadStep
<1>4. UNCHANGED <<data, unsent>>
  BY DEF ReadStep, GetPick, GetExists, GetSend, CheckLock, Park, ReadKey, ReadDone,
         ReadBroken, serverVars
<1>5. QED
  BY <1>1, <1>2, <1>3, <1>4, Quiet DEF frontendVars

LEMMA CallReplicates ==
  ASSUME Replicated, NEW t \in Threads, Typed', SingleWriter', Roles',
         \/ ClientCall(t)
         \/ List(t)
         \/ \E s \in ServerIds : AddNode(t, s) \/ AddAgain(t, s) \/ AdminCall(t, s)
  PROVE  Replicated'
<1> USE DEF Replicated
<1>o. Others(t)
  BY CallDiscipline
<1>r. Requests
  BY DEF Typed
<1>q. ASSUME pc[t] = "idle", pc'[t] \notin Claims, UNCHANGED <<serverVars, frontendVars>>
      PROVE  Replicated'
  BY <1>o, <1>q, Quiet DEF WritePcs, serverVars, frontendVars
<1>1. ASSUME NEW k \in Keys, NEW v \in Values, PutCall(t, k, v) PROVE Replicated'
  BY <1>1, <1>q, <1>r, BeginMoves DEF PutCall, Claims
<1>2. ASSUME NEW k \in Keys, GetCall(t, k) PROVE Replicated'
  BY <1>2, <1>q, <1>r, BeginMoves, ReturnMoves DEF GetCall, Claims
<1>3. ASSUME ListServer(t) PROVE Replicated'
  BY <1>3, <1>q, <1>r, ReturnMoves DEF ListServer, Claims
<1>4. ASSUME NEW s \in ServerIds, AddCall(t, s) PROVE Replicated'
  BY <1>4, <1>q, <1>r, BeginMoves, ReturnMoves DEF AddCall, Claims
<1>5. ASSUME NEW s \in ServerIds, PrintCall(t, s) PROVE Replicated'
  BY <1>5, <1>q, <1>r, BeginMoves, ReturnMoves DEF PrintCall, Claims
<1>6. ASSUME NEW s \in ServerIds, ShutdownServer(t, s) PROVE Replicated'
  <2>1. /\ monitor = None /\ servers' \subseteq servers
        /\ UNCHANGED <<data, committed, todo, unsent>>
    BY <1>6 DEF ShutdownServer, serverVars
  <2>2. pc'[t] = "idle"
    BY <1>6, <1>r, ReturnMoves DEF ShutdownServer
  <2>3. QED
    BY <1>o, <2>1, <2>2, ServerLeaves
<1>7. QED
  BY <1>1, <1>2, <1>3, <1>4, <1>5, <1>6 DEF ClientCall, List, AddNode, AddAgain, AdminCall

LEMMA HeartBeatReplicates ==
  ASSUME Replicated, HeartBeatStep, Typed', SingleWriter', Roles'
  PROVE  Replicated'
<1>1. CASE \E s \in ServerIds : Probe(s)
  BY <1>1, Aside DEF Probe, vars, serverVars, requestVars, frontendVars
<1>2. CASE Remove
  BY <1>2, ServerLeaves DEF Remove, serverVars, requestVars
<1>3. QED
  BY <1>1, <1>2 DEF HeartBeatStep

LEMMA NextReplicates ==
  Replicated /\ OneAdministrator /\ [Next]_allVars => Replicated'
<1> SUFFICES ASSUME Replicated, OneAdministrator, [Next]_allVars PROVE Replicated'
  OBVIOUS
<1>0. Typed' /\ SingleWriter' /\ Roles'
  BY NextTyped, NextExcludes, NextKeepsRoles DEF Replicated
<1>1. ASSUME NEW t \in Threads, ThreadStep(t) PROVE Replicated'
  BY <1>0, <1>1, PutReplicates, LoopReplicates, AddReplicates, ReadReplicates DEF ThreadStep
<1>2. CASE JvmStep \/ UNCHANGED allVars
  BY <1>0, <1>2, Aside DEF JvmStep, allVars, vars, serverVars, requestVars, frontendVars
<1>3. QED
  BY <1>0, <1>1, <1>2, CallReplicates, HeartBeatReplicates DEF Next, Threads

LEMMA InitReplicates == Init => Replicated
<1> SUFFICES ASSUME Init PROVE Replicated
  OBVIOUS
<1>1. \A t \in Threads : pc[t] = "idle"
  BY DEF Init
<1>2. SingleWriter /\ Roles /\ Alone /\ WriteProgress /\ SendProgress
  BY <1>1 DEF SingleWriter, LoopPcs, Roles, PutPcs, AddPcs, TransferPcs,
              Alone, WriteProgress, SendProgress
<1>3. Durable
  BY NoneAssumption DEF Init, Durable
<1>4. QED
  BY <1>2, <1>3, InitTyped DEF Replicated

\* An acknowledged put is at every registered server until the next put of its
\* key, for any number of client threads and servers, any crashes, any order of
\* joins and departures, and servers that start late or come back with old data;
\* what it needs is that no two addServer calls run at once.
THEOREM AcknowledgedPutsStay == OneAdministrator => (Spec => []Durable)
<1> SUFFICES ASSUME OneAdministrator PROVE Spec => []Durable
  OBVIOUS
<1>1. Replicated /\ [Next]_allVars => Replicated'
  BY NextReplicates
<1>2. Replicated => Durable
  BY DEF Replicated
<1>3. QED
  BY <1>1, <1>2, InitReplicates, PTL DEF Spec
=============================================================================
