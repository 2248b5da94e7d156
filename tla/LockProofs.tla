------------------------------ MODULE LockProofs ------------------------------
(* The flags of the servers: who may have left one set, and when none is.      *)
EXTENDS ClusterProofs

UnlockPcs == {"put_unlock", "add_unlock"}

-----------------------------------------------------------------------------
(* The inductive invariant                                                   *)

\* Only servers that have a pod are registered, locked or being registered.
Existing ==
  /\ \A s \in servers : life[s] # "absent"
  /\ \A s \in ServerIds : isLocked[s] => life[s] # "absent"
  /\ \A t \in Threads : pc[t] \in AddPcs => life[arg[t].srv] # "absent"

\* A loop walks registered servers.
Walk == todo \subseteq servers /\ (monitor = None => todo = {})

\* The servers the unlock loop has passed are open.
Unlocking ==
  \A t \in Threads :
    pc[t] \in UnlockPcs => \A s \in servers \ todo : ~isLocked[s]

\* A server that is being registered never was before: it is nobody else's, and
\* nobody has locked it.
NewIds ==
  \A t \in Threads :
    pc[t] \in AddPcs =>
      /\ arg[t].srv \notin servers /\ ~isLocked[arg[t].srv]
      /\ \A x \in Threads \ {t} : pc[x] \in AddPcs => arg[x].srv # arg[t].srv

Walking == Typed /\ SingleWriter /\ Existing /\ Walk /\ Unlocking

\* As long as every server answers: a lock is that of the call which holds
\* serversLock, and the sender of a transfer stays registered.
Steady ==
  Reliable =>
    /\ suspect = None
    /\ \A s \in ServerIds : life[s] \in {"absent", "up"}
    /\ \A s \in ServerIds : isLocked[s] => monitor # None /\ s \in servers
    /\ \A t \in Threads : pc[t] \in TransferPcs => arg[t].from \in servers

-----------------------------------------------------------------------------
(* What one step of a call in progress does to the lists and the flags        *)

\* The call cannot go on: a server it walks, sends from or sends to is down.
Stuck(t) ==
  \/ \E s \in todo : ~Up(s)
  \/ /\ pc[t] \in TransferPcs
     /\ arg[t].from \notin servers \/ ~Up(arg[t].from) \/ ~Up(arg[t].srv)

Joins(t) ==
  pc[t] \in AddPcs /\ pc'[t] = "idle" /\ servers' = servers \cup {arg[t].srv}

\* A server is locked by the loop that visits it; a thread outside the loops
\* leaves lists and flags alone while another is inside; serversLock is given
\* back when all are unlocked, or because the call is stuck.
Effect(t) ==
  /\ UNCHANGED life
  /\ UNCHANGED servers \/ Joins(t)
  /\ \A s \in ServerIds : isLocked'[s] => isLocked[s] \/ s \in todo
  /\ Walk'
  /\ monitor = None \/ pc[t] \in LoopPcs \/ UNCHANGED <<servers, isLocked, todo>>
  /\ pc'[t] \in UnlockPcs => \A s \in servers' \ todo' : ~isLocked'[s]
  /\ monitor' = None =>
       \/ monitor = None
       \/ pc[t] \in UnlockPcs /\ todo = {} /\ UNCHANGED isLocked
       \/ Stuck(t)

\* A step that touches none of what Effect is about.
LEMMA NoEffect ==
  ASSUME Typed, Walk, NEW t \in Threads,
         UNCHANGED <<life, servers, isLocked, todo, monitor>>, pc'[t] \notin UnlockPcs
  PROVE  Effect(t)
BY DEF Effect, Walk

\* A step that takes the monitor, or starts the next loop, over all servers.
LEMMA NextLoopEffect ==
  ASSUME Typed, NEW t \in Threads, UNCHANGED <<life, servers, isLocked>>,
         todo' = servers, monitor' # None, monitor = None \/ pc[t] \in LoopPcs
  PROVE  Effect(t)
BY DEF Effect, Walk

LEMMA ThrowEffect ==
  ASSUME Typed, Walk, NEW t \in Threads, Throw(t), pc[t] \in LoopPcs, Stuck(t),
         UNCHANGED life
  PROVE  Effect(t)
<1>1. pc'[t] = "idle"
  BY ReturnMoves DEF Typed, Throw
<1>2. QED
  BY <1>1 DEF Throw, Leave, Effect, Walk, UnlockPcs

LEMMA PutEffect ==
  ASSUME Typed, SingleWriter, Walk, Unlocking, NEW t \in Threads, PutStep(t),
         UNCHANGED life
  PROVE  Effect(t)
<1>r. Requests
  BY DEF Typed
<1>m. pc[t] \in LoopPcs => monitor = t /\ t # None
  BY NoneAssumption DEF SingleWriter
<1>1. CASE PutEnter(t)
  BY <1>1, NoneAssumption, NextLoopEffect DEF PutEnter, Enter, serverVars
<1>2. CASE PutLocked(t) \/ PutWritten(t)
  BY <1>2, <1>m, LoopLabels, NextLoopEffect DEF PutLocked, PutWritten, NextLoop, serverVars
<1>3. CASE PutDone(t)
  <2>1. pc'[t] = "idle"
    BY <1>3, <1>r, ReturnMoves DEF PutDone
  <2>2. QED
    BY <1>3, <2>1, LoopLabels DEF PutDone, Leave, serverVars, Effect, Walk, UnlockPcs
<1>4. ASSUME NEW s \in ServerIds, WriteOne(t, s) PROVE Effect(t)
  BY <1>4, <1>m, LoopLabels DEF WriteOne, requestVars, Effect, Walk, UnlockPcs
<1>5. QED
  BY <1>1, <1>2, <1>3, <1>4 DEF PutStep

LEMMA LoopEffect ==
  ASSUME Typed, SingleWriter, Walk, Unlocking, NEW t \in Threads, LoopStep(t),
         UNCHANGED life
  PROVE  Effect(t)
<1>m. pc[t] \in LoopPcs => monitor = t /\ t # None
  BY NoneAssumption DEF SingleWriter
<1>1. ASSUME NEW s \in ServerIds, LockOne(t, s) PROVE Effect(t)
  <2>1. /\ pc[t] \in {"put_lock", "add_lock"} /\ pc[t] \in LoopPcs /\ pc' = pc
        /\ UNCHANGED <<servers, monitor>> /\ todo' = todo \ {s} /\ s \in todo
    BY <1>1, LoopLabels DEF LockOne, requestVars
  <2>2. \A x \in ServerIds : isLocked'[x] => isLocked[x] \/ x \in todo
    BY <1>1, <2>1 DEF LockOne, ServerLock, Typed, State
  <2>3. QED
    BY <1>m, <2>1, <2>2 DEF Effect, Walk, UnlockPcs
<1>2. ASSUME NEW s \in ServerIds, UnlockOne(t, s) PROVE Effect(t)
  <2>1. /\ pc[t] \in UnlockPcs /\ pc[t] \in LoopPcs
        /\ UNCHANGED <<servers, monitor>> /\ todo' = todo \ {s}
        /\ isLocked' = [isLocked EXCEPT ![s] = FALSE]
    BY <1>2, LoopLabels DEF UnlockOne, ServerUnlock, UnlockPcs
  <2>2. \A x \in ServerIds : isLocked'[x] = (x # s /\ isLocked[x])
    BY <2>1 DEF Typed, State
  <2>3. \A x \in servers \ todo : ~isLocked[x]
    BY <2>1 DEF Unlocking
  <2>4. \A x \in servers' \ todo' : ~isLocked'[x]
    BY <2>1, <2>2, <2>3 DEF Typed, State
  <2>5. QED
    BY <1>m, <2>1, <2>2, <2>4 DEF Effect, Walk
<1>3. ASSUME NEW s \in ServerIds, LoopThrows(t, s) PROVE Effect(t)
  BY <1>3, LoopLabels, ThrowEffect DEF LoopThrows, Stuck
<1>4. QED
  BY <1>1, <1>2, <1>3 DEF LoopStep

LEMMA AddEffect ==
  ASSUME Typed, SingleWriter, Walk, Unlocking, NEW t \in Threads, AddStep(t),
         UNCHANGED life
  PROVE  Effect(t)
<1>r. Requests
  BY DEF Typed
<1>m. pc[t] \in LoopPcs => monitor = t /\ t # None
  BY NoneAssumption DEF SingleWriter
<1>1. CASE AddFirst(t)
  <2>1. pc'[t] \in {"add_only", "add_enter"}
    BY <1>1, <1>r DEF AddFirst, Goto, Requests
  <2>2. QED
    BY <1>1, <2>1, NoEffect DEF AddFirst, serverVars, frontendVars, UnlockPcs
<1>2. CASE AddOnly(t)
  <2>1. pc'[t] = "idle"
    BY <1>2, <1>r, ReturnMoves DEF AddOnly
  <2>2. QED
    BY <1>2, <2>1 DEF AddOnly, serverVars, Effect, Joins, AddPcs, Walk, UnlockPcs
<1>3. CASE AddEnter(t)
  BY <1>3, NoneAssumption, NextLoopEffect DEF AddEnter, Enter, serverVars
<1>4. CASE AddSend(t)
  <2>1. pc'[t] = "send"
    BY <1>4, <1>r, GotoMoves DEF AddSend
  <2>2. QED
    BY <1>4, <2>1, NoEffect DEF AddSend, frontendVars, UnlockPcs
<1>5. CASE AddSendThrows(t) \/ SendThrows(t)
  BY <1>5, LoopLabels, ThrowEffect DEF AddSendThrows, SendThrows, Stuck, TransferPcs
<1>6. CASE AddSent(t)
  BY <1>6, <1>m, LoopLabels, NextLoopEffect DEF AddSent, NextLoop, serverVars
<1>7. CASE AddDone(t)
  <2>1. pc'[t] = "idle"
    BY <1>7, <1>r, ReturnMoves DEF AddDone
  <2>2. QED
    BY <1>7, <2>1, LoopLabels
       DEF AddDone, Leave, serverVars, Effect, Joins, AddPcs, TransferPcs, Walk, UnlockPcs
<1>8. ASSUME NEW k \in Keys, SendOne(t, k), UNCHANGED frontendVars PROVE Effect(t)
  BY <1>8, NoEffect DEF SendOne, requestVars, frontendVars, UnlockPcs
<1>9. QED
  BY <1>1, <1>2, <1>3, <1>4, <1>5, <1>6, <1>7, <1>8 DEF AddStep

\* Gets and prints set no flag and enter no loop.
LEMMA ReadEffect ==
  ASSUME Typed, SingleWriter, Walk, NEW t \in Threads, ReadStep(t),
         UNCHANGED frontendVars, UNCHANGED life, ThreadStep(t)
  PROVE  Effect(t)
<1>1. UNCHANGED isLocked
  BY DEF ReadStep, GetPick, GetExists, GetSend, CheckLock, Park, ReadKey, ReadDone,
         ReadBroken, serverVars
<1>2. pc[t] \notin PutPcs \cup AddPcs
  BY DEF ReadStep, GetPick, GetExists, GetSend, CheckLock, Park, ReadKey, ReadDone,
         ReadBroken, ReadPcs, PutPcs, AddPcs, TransferPcs
<1>3. pc'[t] \notin UnlockPcs
  BY <1>2, StepStaysInCall DEF PutPcs, AddPcs, TransferPcs, UnlockPcs
<1>4. QED
  BY <1>1, <1>3, NoEffect DEF frontendVars

LEMMA StepEffect ==
  ASSUME Walking, NEW t \in Threads, ThreadStep(t)
  PROVE  Effect(t)
BY PutEffect, LoopEffect, AddEffect, ReadEffect DEF ThreadStep, Walking

\* A step of addServer keeps the server it registers, and once the sender is
\* chosen, from the servers registered at that moment, keeps it too.
Faithful(t) ==
  /\ pc'[t] \in AddPcs => pc[t] \in AddPcs /\ arg'[t].srv = arg[t].srv
  /\ pc'[t] \in TransferPcs =>
       \/ arg'[t].from \in servers
       \/ pc[t] \in TransferPcs /\ arg'[t].from = arg[t].from

LEMMA SameArgsFaithful ==
  ASSUME NEW t \in Threads, arg'[t] = arg[t],
         pc'[t] \in AddPcs => pc[t] \in AddPcs,
         pc'[t] \in TransferPcs => pc[t] \in TransferPcs
  PROVE  Faithful(t)
BY DEF Faithful

LEMMA GoneFaithful ==
  ASSUME NEW t \in Threads, pc'[t] \notin AddPcs
  PROVE  Faithful(t)
BY DEF Faithful, AddPcs

LEMMA StepFaithful ==
  ASSUME Typed, NEW t \in Threads, ThreadStep(t)
  PROVE  Faithful(t)
<1>r. Requests
  BY DEF Typed
<1>0. CASE pc[t] \notin AddPcs
  BY <1>0, StepStaysInCall, GoneFaithful
<1>1. CASE AddFirst(t)
  <2>1. pc[t] \in AddPcs /\ arg[t] \in Args
    BY <1>1, <1>r DEF AddFirst, AddPcs, Requests
  <2>2. CASE Goto(t, "add_only") /\ UNCHANGED arg
    BY <1>r, <2>1, <2>2, GotoMoves, SameArgsFaithful DEF TransferPcs
  <2>3. ASSUME NEW s \in servers, arg' = [arg EXCEPT ![t] = [@ EXCEPT !.from = s]]
        PROVE  Faithful(t)
    <3>1. arg'[t] = [arg[t] EXCEPT !.from = s]
      BY <1>r, <2>3 DEF Requests
    <3>2. arg'[t].srv = arg[t].srv /\ arg'[t].from = s
      BY <2>1, <3>1 DEF Args
    <3>3. QED
      BY <2>1, <3>2 DEF Faithful
  <2>4. QED
    BY <1>1, <2>2, <2>3 DEF AddFirst
<1>2. CASE AddOnly(t) \/ AddDone(t) \/ Throw(t)
  BY <1>2, <1>r, ReturnMoves, GoneFaithful DEF AddOnly, AddDone, Throw, AddPcs, TransferPcs
<1>3. CASE AddEnter(t) \/ AddSend(t) \/ AddSent(t)
  BY <1>3, SameArgsFaithful DEF AddEnter, AddSend, AddSent, NextLoop, AddPcs, TransferPcs
<1>4. ASSUME UNCHANGED <<pc, arg>> PROVE Faithful(t)
  BY <1>4, SameArgsFaithful
<1>5. ASSUME NEW s \in ServerIds, UnlockOne(t, s), pc[t] = "add_unlock"
      PROVE  Faithful(t)
  BY <1>5, <1>r, SameArgsFaithful DEF UnlockOne, ServerUnlock, Requests
<1>6. CASE pc[t] \in AddPcs
  <2>1. ~PutStep(t) \/ UNCHANGED <<pc, arg>>
    BY <1>6 DEF PutStep, PutEnter, PutLocked, PutWritten, PutDone, NextLoop, WriteOne,
                requestVars, AddPcs, TransferPcs
  <2>2. ~ReadStep(t)
    BY <1>6 DEF ReadStep, GetPick, GetExists, GetSend, CheckLock, Park, ReadKey, ReadDone,
                ReadBroken, ReadPcs, AddPcs, TransferPcs
  <2>3. ASSUME LoopStep(t) PROVE Faithful(t)
    BY <1>2, <1>4, <1>5, <1>6, <2>3
       DEF LoopStep, LockOne, UnlockOne, LoopThrows, requestVars, AddPcs, TransferPcs
  <2>4. ASSUME AddStep(t) PROVE Faithful(t)
    BY <1>1, <1>2, <1>3, <1>4, <2>4
       DEF AddStep, AddSendThrows, SendThrows, SendOne, requestVars
  <2>5. QED
    BY <1>4, <2>1, <2>2, <2>3, <2>4 DEF ThreadStep
<1>7. QED
  BY <1>0, <1>6

\* Nobody becomes an adder, or changes the server it adds, but by a call.
LEMMA AddersStay ==
  ASSUME NEW t \in Threads, Others(t), Faithful(t), NEW x \in Threads
  PROVE  /\ pc'[x] \in AddPcs => pc[x] \in AddPcs /\ arg'[x].srv = arg[x].srv
         /\ x # t /\ pc'[x] \in TransferPcs =>
              pc[x] \in TransferPcs /\ arg'[x].from = arg[x].from
         /\ x # t /\ pc'[x] \in LoopPcs => pc[x] = pc'[x]
BY DEF Others, Faithful, AddPcs, TransferPcs, LoopPcs

-----------------------------------------------------------------------------
(* A step of a call in progress keeps the invariant *)

LEMMA StepWalks ==
  ASSUME Walking, NEW t \in Threads, ThreadStep(t), Typed', SingleWriter'
  PROVE  Walking'
<1> USE DEF Walking
<1>1. Effect(t) /\ Others(t) /\ Faithful(t)
  BY StepEffect, StepFaithful, StepDiscipline
<1>2. Walk'
  BY <1>1 DEF Effect
<1>3. Existing'
  <2>1. \A s \in servers' : life[s] # "absent"
    BY <1>1 DEF Effect, Joins, Existing
  <2>2. \A s \in ServerIds : isLocked'[s] => life[s] # "absent"
    BY <1>1 DEF Effect, Existing, Walk
  <2>3. \A x \in Threads : pc'[x] \in AddPcs => life[arg'[x].srv] # "absent"
    BY <1>1, AddersStay DEF Existing
  <2>4. QED
    BY <1>1, <2>1, <2>2, <2>3 DEF Effect, Existing
<1>4. Unlocking'
  <2> SUFFICES ASSUME NEW x \in Threads, x # t, pc'[x] \in UnlockPcs
               PROVE  \A s \in servers' \ todo' : ~isLocked'[s]
    BY <1>1 DEF Unlocking, Effect
  <2>1. pc[x] = pc'[x] /\ pc[x] \in LoopPcs
    BY <1>1, AddersStay, LoopLabels DEF UnlockPcs
  <2>2. monitor = x /\ monitor # None /\ pc[t] \notin LoopPcs
    BY <2>1, NoneAssumption DEF SingleWriter
  <2>3. UNCHANGED <<servers, isLocked, todo>>
    BY <1>1, <2>2 DEF Effect
  <2>4. QED
    BY <2>1, <2>3 DEF Unlocking
<1>5. QED
  BY <1>2, <1>3, <1>4

LEMMA StepKeepsNewIds ==
  ASSUME Walking, NewIds, NEW t \in Threads, ThreadStep(t)
  PROVE  NewIds'
<1> USE DEF Walking
<1>1. Effect(t) /\ Others(t) /\ Faithful(t)
  BY StepEffect, StepFaithful, StepDiscipline
<1> SUFFICES ASSUME NEW x \in Threads, pc'[x] \in AddPcs
             PROVE  /\ arg'[x].srv \notin servers' /\ ~isLocked'[arg'[x].srv]
                    /\ \A y \in Threads \ {x} : pc'[y] \in AddPcs => arg'[y].srv # arg'[x].srv
  BY DEF NewIds
<1>2. pc[x] \in AddPcs /\ arg'[x].srv = arg[x].srv /\ arg[x].srv \in ServerIds
  BY <1>1, AddersStay DEF Typed, Requests, Needs
<1>3. arg[x].srv \notin servers /\ ~isLocked[arg[x].srv]
  BY <1>2 DEF NewIds
<1>4. arg[x].srv \notin servers'
  <2>1. CASE Joins(t)
    <3>1. x # t
      BY <2>1 DEF Joins, AddPcs, TransferPcs
    <3>2. arg[t].srv # arg[x].srv
      BY <1>2, <2>1, <3>1 DEF Joins, NewIds
    <3>3. QED
      BY <1>3, <2>1, <3>2 DEF Joins
  <2>2. QED
    BY <1>1, <1>3, <2>1 DEF Effect
<1>5. ~isLocked'[arg[x].srv]
  BY <1>1, <1>2, <1>3 DEF Effect, Walk
<1>6. \A y \in Threads \ {x} : pc'[y] \in AddPcs => arg'[y].srv # arg[x].srv
  BY <1>1, <1>2, AddersStay DEF NewIds
<1>7. QED
  BY <1>2, <1>4, <1>5, <1>6

\* While every server answers no call is stuck.
LEMMA NobodyIsStuck ==
  ASSUME Walking, Steady, Reliable, NEW t \in Threads
  PROVE  ~Stuck(t)
<1>1. \A s \in servers : Up(s)
  BY DEF Walking, Existing, Steady, Typed, State, Up
<1>2. ASSUME pc[t] \in TransferPcs PROVE Up(arg[t].srv) /\ arg[t].from \in servers
  BY <1>2 DEF Walking, Existing, Steady, Typed, Requests, Needs, AddPcs, Up
<1>3. QED
  BY <1>1, <1>2 DEF Stuck, Walking, Walk

LEMMA StepSteady ==
  ASSUME Walking, Steady, NEW t \in Threads, ThreadStep(t)
  PROVE  Steady'
<1> USE DEF Walking
<1> SUFFICES ASSUME Reliable' PROVE Steady'
  BY DEF Steady
<1>1. Effect(t) /\ Others(t) /\ Faithful(t) /\ UNCHANGED <<life, suspect>>
  BY StepEffect, StepFaithful, StepDiscipline DEF ThreadStep
<1>2. Reliable
  BY <1>1 DEF Reliable
<1>3. servers \subseteq servers'
  BY <1>1 DEF Effect, Joins
<1>4. ASSUME NEW s \in ServerIds, isLocked'[s] PROVE monitor' # None /\ s \in servers'
  <2>1. isLocked[s] \/ s \in todo
    BY <1>1, <1>4 DEF Effect
  <2>2. monitor # None /\ s \in servers
    BY <1>2, <2>1 DEF Steady, Walk
  <2>3. ~(pc[t] \in UnlockPcs /\ todo = {} /\ UNCHANGED isLocked)
    BY <1>4, <2>2 DEF Unlocking
  <2>4. monitor' # None
    BY <1>1, <1>2, <2>2, <2>3, NobodyIsStuck DEF Effect
  <2>5. QED
    BY <1>3, <2>2, <2>4
<1>5. ASSUME NEW x \in Threads, pc'[x] \in TransferPcs PROVE arg'[x].from \in servers'
  <2>1. \/ arg'[x].from \in servers
        \/ pc[x] \in TransferPcs /\ arg'[x].from = arg[x].from
    BY <1>1, <1>5, AddersStay DEF Faithful
  <2>2. QED
    BY <1>2, <1>3, <2>1 DEF Steady
<1>6. QED
  BY <1>1, <1>2, <1>4, <1>5 DEF Steady

-----------------------------------------------------------------------------
(* Calls, the heartbeat and the JVMs keep it too *)

IsCall(t) ==
  \/ t \in Clients /\ ClientCall(t)
  \/ t \in Admins /\ List(t)
  \/ t \in Admins /\ \E s \in ServerIds : AddNode(t, s) \/ AddAgain(t, s) \/ AdminCall(t, s)

LEMMA NextCases ==
  [Next]_allVars =>
    \/ \E t \in Threads : ThreadStep(t) \/ IsCall(t)
    \/ HeartBeatStep \/ JvmStep \/ UNCHANGED allVars
BY DEF Next, IsCall, Threads

\* A call locks nothing and enters no loop.  It may take a server off the list
\* while nobody is in one, or name a server to register, whose pod it may create.
CallEffect(t) ==
  /\ UNCHANGED <<isLocked, todo, monitor, suspect>>
  /\ pc'[t] \notin LoopPcs \cup TransferPcs
  /\ \/ UNCHANGED servers
     \/ monitor = None /\ servers' \subseteq servers /\ t \in Admins
  /\ pc'[t] \in AddPcs =>
       /\ arg'[t].srv \in ServerIds \ servers'
       /\ life'[arg'[t].srv] # "absent"
       /\ ReuseIds \/ life[arg'[t].srv] = "absent"
  /\ \A s \in ServerIds :
       life'[s] = life[s] \/ (life[s] = "absent" /\ (~SlowStart => life'[s] = "up"))
  /\ \A s \in ServerIds : life[s] # "absent" => life'[s] # "absent"

LEMMA AddCallMoves ==
  ASSUME Typed, NEW t \in Threads, NEW s \in ServerIds, AddCall(t, s)
  PROVE  /\ pc'[t] \notin LoopPcs \cup TransferPcs
         /\ pc'[t] \in AddPcs => arg'[t].srv = s /\ s \notin servers
         /\ UNCHANGED <<isLocked, todo, monitor, servers>>
<1>r. Requests
  BY DEF Typed
<1>1. UNCHANGED <<isLocked, todo, monitor, servers>>
  BY DEF AddCall, serverVars, frontendVars
<1>2. CASE Return(t, "exists")
  BY <1>r, <1>1, <1>2, ReturnMoves, LoopLabels DEF AddPcs, TransferPcs
<1>3. CASE s \notin servers /\ Begin(t, "add_first", [NoArgs EXCEPT !.srv = s])
  <2>1. pc'[t] = "add_first"
    BY <1>r, <1>3, BeginMoves
  <2>2. arg'[t] = [NoArgs EXCEPT !.srv = s]
    BY <1>r, <1>3 DEF Begin, Requests
  <2>3. arg'[t].srv = s
    BY <2>2 DEF NoArgs
  <2>4. QED
    BY <1>1, <1>3, <2>1, <2>3, LoopLabels DEF AddPcs, TransferPcs
<1>4. QED
  BY <1>2, <1>3 DEF AddCall

LEMMA CallHasEffect ==
  ASSUME Typed, NEW t \in Threads, IsCall(t)
  PROVE  CallEffect(t)
<1>r. Requests
  BY DEF Typed
<1>q. ASSUME pc'[t] \in {"idle", "put_enter", "get_pick", "check"},
             UNCHANGED <<life, suspect, isLocked, todo, monitor>>,
             UNCHANGED servers \/ (monitor = None /\ servers' \subseteq servers /\ t \in Admins)
      PROVE  CallEffect(t)
  BY <1>q, LoopLabels DEF CallEffect, AddPcs, TransferPcs
<1>1. CASE ClientCall(t)
  <2>1. pc'[t] \in {"idle", "put_enter", "get_pick"}
    BY <1>1, <1>r, BeginMoves, ReturnMoves DEF ClientCall, PutCall, GetCall
  <2>2. UNCHANGED <<life, suspect, isLocked, todo, monitor, servers>>
    BY <1>1 DEF ClientCall, PutCall, GetCall, serverVars, frontendVars
  <2>3. QED
    BY <1>q, <2>1, <2>2
<1>2. CASE List(t)
  BY <1>2, <1>q, <1>r, ReturnMoves DEF List, ListServer, serverVars, frontendVars
<1>3. ASSUME t \in Admins, NEW s \in ServerIds, AdminCall(t, s) PROVE CallEffect(t)
  <2>1. CASE PrintCall(t, s)
    BY <1>3, <1>q, <1>r, <2>1, BeginMoves, ReturnMoves
       DEF AdminCall, PrintCall, serverVars, frontendVars
  <2>2. CASE ShutdownServer(t, s)
    <3>1. pc'[t] = "idle"
      BY <1>r, <2>2, ReturnMoves DEF ShutdownServer
    <3>2. QED
      BY <1>3, <1>q, <2>2, <3>1 DEF AdminCall, ShutdownServer, serverVars
  <2>3. QED
    BY <1>3, <2>1, <2>2 DEF AdminCall
<1>4. ASSUME NEW s \in ServerIds, AddAgain(t, s) PROVE CallEffect(t)
  BY <1>4, AddCallMoves DEF AddAgain, CallEffect
<1>5. ASSUME NEW s \in ServerIds, AddNode(t, s) PROVE CallEffect(t)
  <2>1. /\ life[s] = "absent"
        /\ \A x \in ServerIds :
             life'[x] = IF x = s THEN IF SlowStart THEN "starting" ELSE "up" ELSE life[x]
    BY <1>5 DEF AddNode, Typed, State
  <2>2. AddCall(t, s) /\ UNCHANGED suspect
    BY <1>5 DEF AddNode
  <2>3. QED
    BY <2>1, <2>2, AddCallMoves DEF CallEffect
<1>6. QED
  BY <1>1, <1>2, <1>3, <1>4, <1>5 DEF IsCall

LEMMA CallWalks ==
  ASSUME Walking, NEW t \in Threads, IsCall(t), Typed', SingleWriter'
  PROVE  Walking'
<1> USE DEF Walking
<1>1. CallEffect(t) /\ Others(t)
  BY CallHasEffect, CallDiscipline DEF IsCall
<1>2. servers' \subseteq servers
  BY <1>1 DEF CallEffect
<1>3. Existing'
  <2>1. \A x \in Threads : pc'[x] \in AddPcs => life'[arg'[x].srv] # "absent"
    <3> SUFFICES ASSUME NEW x \in Threads, x # t, pc'[x] \in AddPcs
                 PROVE  life'[arg'[x].srv] # "absent"
      BY <1>1 DEF CallEffect
    <3>1. pc[x] \in AddPcs /\ arg'[x] = arg[x]
      BY <1>1 DEF Others, AddPcs, TransferPcs
    <3>2. arg[x].srv \in ServerIds /\ life[arg[x].srv] # "absent"
      BY <3>1 DEF Existing, Typed, Requests, Needs
    <3>3. QED
      BY <1>1, <3>1, <3>2 DEF CallEffect
  <2>2. \A s \in servers' : life'[s] # "absent"
    BY <1>1, <1>2 DEF CallEffect, Existing, Typed, State
  <2>3. \A s \in ServerIds : isLocked'[s] => life'[s] # "absent"
    BY <1>1 DEF CallEffect, Existing
  <2>4. QED
    BY <2>1, <2>2, <2>3 DEF Existing
<1>4. Walk'
  BY <1>1 DEF CallEffect, Walk
<1>5. Unlocking'
  <2> SUFFICES ASSUME NEW x \in Threads, pc'[x] \in UnlockPcs
               PROVE  \A s \in servers' \ todo' : ~isLocked'[s]
    BY DEF Unlocking
  <2>1. x # t /\ pc[x] \in UnlockPcs
    BY <1>1, LoopLabels DEF CallEffect, Others, UnlockPcs
  <2>2. QED
    BY <1>1, <1>2, <2>1 DEF CallEffect, Unlocking
<1>6. QED
  BY <1>3, <1>4, <1>5

LEMMA CallKeepsNewIds ==
  ASSUME Walking, NewIds, ~ReuseIds, NEW t \in Threads, IsCall(t)
  PROVE  NewIds'
<1> USE DEF Walking
<1>1. CallEffect(t) /\ Others(t)
  BY CallHasEffect, CallDiscipline DEF IsCall
<1>2. ASSUME NEW x \in Threads, x # t, pc'[x] \in AddPcs
      PROVE  /\ pc[x] \in AddPcs /\ arg'[x] = arg[x] /\ arg[x].srv \in ServerIds
             /\ life[arg[x].srv] # "absent"
             /\ arg[x].srv \notin servers' /\ ~isLocked'[arg[x].srv]
  <2>1. pc[x] \in AddPcs /\ arg'[x] = arg[x]
    BY <1>1, <1>2 DEF Others, AddPcs, TransferPcs
  <2>2. QED
    BY <1>1, <2>1 DEF CallEffect, NewIds, Existing, Typed, Requests, Needs
<1>3. ASSUME pc'[t] \in AddPcs
      PROVE  /\ arg'[t].srv \in ServerIds /\ life[arg'[t].srv] = "absent"
             /\ arg'[t].srv \notin servers' /\ ~isLocked'[arg'[t].srv]
  BY <1>1, <1>3 DEF CallEffect, Existing
<1>4. ASSUME NEW x \in Threads, NEW y \in Threads \ {x},
             pc'[x] \in AddPcs, pc'[y] \in AddPcs
      PROVE  arg'[y].srv # arg'[x].srv
  <2>1. CASE x = t \/ y = t
    BY <1>2, <1>3, <1>4, <2>1
  <2>2. CASE x # t /\ y # t
    BY <1>2, <1>4, <2>2 DEF NewIds
  <2>3. QED
    BY <2>1, <2>2
<1>5. QED
  BY <1>2, <1>3, <1>4 DEF NewIds

LEMMA CallSteady ==
  ASSUME Walking, Steady, Roles, OneAdministrator, NEW t \in Threads, IsCall(t)
  PROVE  Steady'
<1> USE DEF Walking
<1> SUFFICES ASSUME Reliable' PROVE Steady'
  BY DEF Steady
<1>1. CallEffect(t) /\ Others(t)
  BY CallHasEffect, CallDiscipline DEF IsCall
<1>2. Reliable
  BY <1>1 DEF CallEffect, Reliable
<1>3. \A s \in ServerIds : life'[s] \in {"absent", "up"}
  BY <1>1, <1>2 DEF CallEffect, Steady, Reliable
<1>4. \A s \in ServerIds : isLocked'[s] => monitor' # None /\ s \in servers'
  BY <1>1, <1>2 DEF CallEffect, Steady
<1>5. ASSUME NEW x \in Threads, pc'[x] \in TransferPcs PROVE arg'[x].from \in servers'
  <2>1. x # t /\ pc[x] \in TransferPcs /\ arg'[x] = arg[x]
    BY <1>1, <1>5 DEF CallEffect, Others, TransferPcs
  <2>2. x \in Admins
    BY <2>1 DEF Roles, AddPcs
  <2>3. t \notin Admins
    BY <2>1, <2>2 DEF OneAdministrator
  <2>4. QED
    BY <1>1, <1>2, <2>1, <2>3 DEF CallEffect, Steady
<1>6. QED
  BY <1>1, <1>2, <1>3, <1>4, <1>5 DEF CallEffect, Steady

\* The heartbeat takes a server off the list while nobody is in a loop.
LEMMA HeartBeatWalks ==
  ASSUME Walking, HeartBeatStep \/ JvmStep \/ UNCHANGED allVars, Typed', SingleWriter'
  PROVE  /\ Walking'
         /\ UNCHANGED <<pc, arg, isLocked>> /\ servers' \subseteq servers
<1> USE DEF Walking
<1>1. /\ UNCHANGED <<pc, arg, isLocked, todo, monitor>> /\ servers' \subseteq servers
      /\ UNCHANGED servers \/ monitor = None
  BY DEF HeartBeatStep, Probe, Remove, JvmStep, allVars, vars, serverVars, requestVars,
         frontendVars
<1>2. \A s \in ServerIds : life[s] # "absent" => life'[s] # "absent"
  BY DEF HeartBeatStep, JvmStep, Start, Crash, allVars, Typed, State
<1>3. Existing'
  BY <1>1, <1>2 DEF Existing, Typed, State, Requests, Needs
<1>4. Walk' /\ Unlocking'
  BY <1>1 DEF Walk, Unlocking
<1>5. QED
  BY <1>1, <1>3, <1>4

LEMMA HeartBeatSteady ==
  ASSUME Walking, Steady, HeartBeatStep \/ JvmStep \/ UNCHANGED allVars
  PROVE  Steady'
<1> USE DEF Walking
<1> SUFFICES ASSUME Reliable' PROVE Steady'
  BY DEF Steady
<1>1. CASE HeartBeatStep
  <2>1. Reliable /\ UNCHANGED life
    BY <1>1 DEF HeartBeatStep, Reliable
  <2>2. suspect = None /\ \A s \in servers : Up(s)
    BY <2>1 DEF Steady, Existing, Typed, State, Up
  <2>3. FALSE
    BY <1>1, <2>2 DEF HeartBeatStep, Probe, Remove
  <2>4. QED
    BY <2>3
<1>2. CASE JvmStep
  <2>1. PICK s \in ServerIds : Start(s) \/ Crash(s)
    BY <1>2 DEF JvmStep
  <2>2. CASE Crash(s)
    BY <2>2 DEF Crash, Reliable, Typed, State
  <2>3. CASE Start(s)
    <3>1. life[s] = "starting" /\ Reliable
      BY <2>3 DEF Start, Reliable, Typed, State
    <3>2. QED
      BY <3>1 DEF Steady
  <2>4. QED
    BY <2>1, <2>2, <2>3
<1>3. CASE UNCHANGED allVars
  BY <1>3 DEF allVars, vars, serverVars, requestVars, frontendVars, Steady, Reliable
<1>4. QED
  BY <1>1, <1>2, <1>3

-----------------------------------------------------------------------------
(* Answers: a call in progress has none, so "ok" is that of its last step      *)

Unanswered ==
  \A t \in Threads : pc[t] \in PutPcs \cup AddPcs => reply[t] = "none"

\* A step either answers its call or leaves the answers alone.
LEMMA StepAnswers ==
  ASSUME NEW t \in Threads, ThreadStep(t)
  PROVE  UNCHANGED reply \/ \E answer : Return(t, answer)
<1>1. CASE PutStep(t)
  BY <1>1 DEF PutStep, PutEnter, PutLocked, PutWritten, NextLoop, PutDone, WriteOne, requestVars
<1>2. CASE LoopStep(t)
  BY <1>2 DEF LoopStep, LockOne, UnlockOne, LoopThrows, Throw, requestVars
<1>3. CASE AddStep(t)
  BY <1>3 DEF AddStep, AddFirst, AddOnly, AddEnter, AddSend, AddSendThrows, SendThrows,
              Throw, AddSent, NextLoop, AddDone, SendOne, requestVars
<1>4. CASE ReadStep(t)
  BY <1>4 DEF ReadStep, GetPick, GetExists, GetSend, CheckLock, Park, ReadKey, ReadDone,
              ReadBroken
<1>5. QED
  BY <1>1, <1>2, <1>3, <1>4 DEF ThreadStep

LEMMA CallAnswers ==
  ASSUME NEW t \in Threads, IsCall(t)
  PROVE  /\ pc[t] = "idle"
         /\ (\E answer : Return(t, answer)) \/ (\E label, a : Begin(t, label, a))
<1>1. CASE ClientCall(t)
  BY <1>1 DEF ClientCall, GetCall, PutCall
<1>2. CASE List(t)
  BY <1>2 DEF List, ListServer
<1>3. ASSUME NEW s \in ServerIds, AddNode(t, s) \/ AddAgain(t, s) \/ AdminCall(t, s)
      PROVE  /\ pc[t] = "idle"
             /\ (\E answer : Return(t, answer)) \/ (\E label, a : Begin(t, label, a))
  BY <1>3 DEF AddNode, AddAgain, AddCall, AdminCall, PrintCall, ShutdownServer
<1>4. QED
  BY <1>1, <1>2, <1>3 DEF IsCall

LEMMA NextUnanswered == Typed /\ Unanswered /\ [Next]_allVars => Unanswered'
<1> SUFFICES ASSUME Typed, Unanswered, [Next]_allVars PROVE Unanswered'
  OBVIOUS
<1>r. Requests
  BY DEF Typed
<1>1. ASSUME NEW t \in Threads, ThreadStep(t) PROVE Unanswered'
  <2>1. CASE UNCHANGED reply
    BY <1>1, <2>1, StepStaysInCall, StepDiscipline
       DEF Unanswered, Others, PutPcs, AddPcs, TransferPcs
  <2>2. ASSUME NEW answer, Return(t, answer) PROVE Unanswered'
    BY <1>r, <2>2 DEF Return, Requests, Unanswered, PutPcs, AddPcs, TransferPcs
  <2>3. QED
    BY <1>1, <2>1, <2>2, StepAnswers
<1>2. ASSUME NEW t \in Threads, IsCall(t) PROVE Unanswered'
  <2>1. ASSUME NEW answer, Return(t, answer) PROVE Unanswered'
    BY <1>r, <2>1 DEF Return, Requests, Unanswered, PutPcs, AddPcs, TransferPcs
  <2>2. ASSUME NEW label, NEW a, Begin(t, label, a) PROVE Unanswered'
    BY <1>r, <2>2 DEF Begin, Goto, Requests, Unanswered
  <2>3. QED
    BY <1>2, <2>1, <2>2, CallAnswers
<1>3. CASE HeartBeatStep \/ JvmStep \/ UNCHANGED allVars
  BY <1>3 DEF HeartBeatStep, Probe, Remove, JvmStep, allVars, vars, requestVars, Unanswered
<1>4. QED
  BY <1>1, <1>2, <1>3, NextCases

\* The last step of a call that locked servers, if it reports success.
LEMMA OnlyLastStepAnswers ==
  ASSUME Typed, Unanswered, [Next]_allVars, NEW t \in Threads,
         pc[t] \in UnlockPcs, reply'[t] = "ok"
  PROVE  PutDone(t) \/ AddDone(t)
<1>r. Requests
  BY DEF Typed
<1>0. pc[t] \in LoopPcs /\ pc[t] # "idle" /\ reply[t] = "none"
  BY LoopLabels DEF UnlockPcs, Unanswered, PutPcs, AddPcs, TransferPcs
<1>1. ASSUME NEW x \in Threads, IsCall(x) PROVE FALSE
  BY <1>r, <1>0, <1>1, CallAnswers DEF Return, Begin, Requests
<1>2. CASE HeartBeatStep \/ JvmStep \/ UNCHANGED allVars
  BY <1>0, <1>2 DEF HeartBeatStep, Probe, Remove, JvmStep, allVars, vars, requestVars
<1>3. ASSUME NEW x \in Threads, ThreadStep(x) PROVE PutDone(t) \/ AddDone(t)
  <2>1. PICK answer : Return(x, answer)
    BY <1>0, <1>3, StepAnswers
  <2>2. x = t /\ answer = "ok"
    BY <1>r, <1>0, <2>1 DEF Return, Requests
  <2>3. reply'[t] # reply[t] /\ ~Throw(t)
    BY <1>r, <1>0 DEF Throw, Return, Requests
  <2>4. ASSUME PutStep(t) PROVE PutDone(t)
    BY <2>3, <2>4 DEF PutStep, PutEnter, PutLocked, PutWritten, NextLoop, WriteOne, requestVars
  <2>5. ~LoopStep(t)
    BY <2>3 DEF LoopStep, LockOne, UnlockOne, LoopThrows, requestVars
  <2>6. ASSUME AddStep(t) PROVE AddDone(t)
    BY <1>0, <2>3, <2>6, LoopLabels
       DEF AddStep, AddFirst, AddOnly, AddEnter, AddSend, AddSendThrows, SendThrows,
           AddSent, NextLoop, SendOne, requestVars
  <2>7. ~ReadStep(t)
    BY DEF ReadStep, GetPick, GetExists, GetSend, CheckLock, Park, ReadKey, ReadDone,
           ReadBroken, ReadPcs, UnlockPcs
  <2>8. QED
    BY <1>3, <2>2, <2>4, <2>5, <2>6, <2>7 DEF ThreadStep
<1>4. QED
  BY <1>1, <1>2, <1>3, NextCases

-----------------------------------------------------------------------------
(* The theorems *)

LEMMA InitWalks == Init => Walking /\ NewIds /\ Steady /\ Roles
<1> SUFFICES ASSUME Init PROVE Walking /\ NewIds /\ Steady /\ Roles
  OBVIOUS
<1>1. \A t \in Threads : pc[t] \notin LoopPcs \cup AddPcs \cup PutPcs
  BY DEF Init, LoopPcs, AddPcs, PutPcs, TransferPcs
<1>2. Existing /\ Walk /\ Unlocking /\ NewIds /\ Steady /\ Roles /\ SingleWriter
  BY <1>1 DEF Init, Existing, Walk, Unlocking, NewIds, Steady, Roles, SingleWriter,
              LoopPcs, AddPcs, TransferPcs, UnlockPcs
<1>3. QED
  BY <1>2, InitTyped DEF Walking

LEMMA NextWalks == Walking /\ [Next]_allVars => Walking'
<1> SUFFICES ASSUME Walking, [Next]_allVars PROVE Walking'
  OBVIOUS
<1>1. Typed' /\ SingleWriter'
  BY NextTyped, NextExcludes DEF Walking
<1>2. QED
  BY <1>1, NextCases, StepWalks, CallWalks, HeartBeatWalks

LEMMA NextKeepsNewIds ==
  ~ReuseIds /\ Walking /\ NewIds /\ [Next]_allVars => NewIds'
<1> SUFFICES ASSUME ~ReuseIds, Walking, NewIds, [Next]_allVars PROVE NewIds'
  OBVIOUS
<1>1. CASE HeartBeatStep \/ JvmStep \/ UNCHANGED allVars
  <2>1. UNCHANGED <<pc, arg, isLocked>> /\ servers' \subseteq servers
    BY <1>1, HeartBeatWalks, NextTyped, NextExcludes DEF Walking
  <2>2. QED
    BY <2>1 DEF NewIds
<1>2. QED
  BY <1>1, NextCases, StepKeepsNewIds, CallKeepsNewIds

LEMMA NextSteady ==
  OneAdministrator /\ Walking /\ Roles /\ Steady /\ [Next]_allVars => Steady'
BY NextCases, StepSteady, CallSteady, HeartBeatSteady

\* A put or addServer that reports success has left every live registered
\* server open, the one it registers included: whatever crashed, answered late
\* or was left locked before, for any number of callers.  The proof asks that
\* addServer does not name an id twice, as run_cluster.py's counter sees to: a
\* server that is taken off the list while locked, and is then registered
\* again, is locked still.
THEOREM SuccessUnlocks == ~ReuseIds => (Spec => SuccessUnlocksAll)
<1> SUFFICES ASSUME ~ReuseIds PROVE Spec => SuccessUnlocksAll
  OBVIOUS
<1> DEFINE Opens ==
      \A t \in Threads :
        pc[t] \in {"put_unlock", "add_unlock"} /\ reply'[t] = "ok" =>
          \A s \in servers' : Up(s) => ~isLocked[s]
<1>0. Init => Unanswered
  BY DEF Init, Unanswered
<1>1. Spec => [](Walking /\ NewIds /\ Unanswered)
  <2>1. Walking => Typed
    BY DEF Walking
  <2>2. QED
    BY <1>0, <2>1, InitWalks, NextWalks, NextKeepsNewIds, NextUnanswered, PTL DEF Spec
<1>2. Walking /\ NewIds /\ Unanswered /\ [Next]_allVars => [Opens]_allVars
  <2> SUFFICES ASSUME Walking, NewIds, Unanswered, [Next]_allVars,
                      NEW t \in Threads, pc[t] \in UnlockPcs, reply'[t] = "ok"
               PROVE  \A s \in servers' : ~isLocked[s]
    BY DEF UnlockPcs
  <2>1. PutDone(t) \/ AddDone(t)
    BY OnlyLastStepAnswers DEF Walking
  <2>2. todo = {} /\ \A s \in servers : ~isLocked[s]
    BY <2>1 DEF PutDone, AddDone, Walking, Unlocking
  <2>3. CASE PutDone(t)
    BY <2>2, <2>3 DEF PutDone
  <2>4. CASE AddDone(t)
    BY <2>2, <2>4 DEF AddDone, NewIds, AddPcs, TransferPcs
  <2>5. QED
    BY <2>1, <2>3, <2>4
<1>3. QED
  BY <1>1, <1>2, PTL DEF Spec, SuccessUnlocksAll

\* As long as every server answers, and one administrator registers and shuts
\* down servers, no server is locked while no call holds serversLock.
THEOREM LocksAreUndone == OneAdministrator => (Spec => []NoStrandedLock)
<1> SUFFICES ASSUME OneAdministrator PROVE Spec => []NoStrandedLock
  OBVIOUS
<1>1. Walking /\ Roles /\ [Next]_allVars => Roles'
  BY NextKeepsRoles DEF Walking
<1>2. Walking /\ Steady => NoStrandedLock
  BY DEF Steady, NoStrandedLock
<1>3. QED
  BY <1>1, <1>2, InitWalks, NextWalks, NextSteady, PTL DEF Spec

-----------------------------------------------------------------------------
(* The holder of serversLock gets on                                          *)

\* serversLock belongs to a call in its loops, and to no other thread.
HolderIsInLoop == \A t \in Threads : monitor = t => pc[t] \in LoopPcs

LEMMA LoopsAreAhead ==
  /\ LoopsAhead("put_lock") = 3 /\ LoopsAhead("put_write") = 2
  /\ LoopsAhead("put_unlock") = 1
  /\ LoopsAhead("add_lock") = 3 /\ LoopsAhead("send") = 2
  /\ LoopsAhead("add_unlock") = 1
BY DEF LoopsAhead

\* A loop has ended, or has one server or entry less to visit.
Shrinks(t) ==
  /\ pc'[t] \in LoopPcs
  /\ \/ LoopsAhead(pc'[t]) < LoopsAhead(pc[t])
     \/ /\ pc'[t] = pc[t] /\ todo' \subseteq todo /\ unsent' \subseteq unsent
        /\ todo' # todo \/ unsent' # unsent

LEMMA NextLoopShrinks ==
  ASSUME Typed, NEW t \in Threads, NEW from, NEW to, Goto(t, to), UNCHANGED arg,
         pc[t] = from, to \in LoopPcs, LoopsAhead(to) < LoopsAhead(from)
  PROVE  Shrinks(t)
BY GotoMoves DEF Typed, Shrinks

\* Every step of the holder that keeps serversLock.
LEMMA HolderShrinks ==
  ASSUME Typed, NEW t \in Threads, ThreadStep(t), pc[t] \in LoopPcs, monitor' = t
  PROVE  Shrinks(t)
<1>t. t # None
  BY NoneAssumption
<1>1. CASE PutStep(t)
  <2>1. ~PutEnter(t) /\ ~PutDone(t)
    BY <1>t, LoopLabels DEF PutEnter, PutDone, Leave
  <2>2. CASE PutLocked(t)
    BY <2>2, LoopLabels, LoopsAreAhead, NextLoopShrinks DEF PutLocked, NextLoop
  <2>3. CASE PutWritten(t)
    BY <2>3, LoopLabels, LoopsAreAhead, NextLoopShrinks DEF PutWritten, NextLoop
  <2>4. ASSUME NEW s \in ServerIds, WriteOne(t, s) PROVE Shrinks(t)
    BY <2>4 DEF WriteOne, requestVars, Shrinks
  <2>5. QED
    BY <1>1, <2>1, <2>2, <2>3, <2>4 DEF PutStep
<1>2. CASE LoopStep(t)
  <2>1. ASSUME NEW s \in ServerIds, LockOne(t, s) PROVE Shrinks(t)
    BY <2>1 DEF LockOne, requestVars, Shrinks
  <2>2. ASSUME NEW s \in ServerIds, UnlockOne(t, s) PROVE Shrinks(t)
    <3>1. pc'[t] = pc[t]
      BY <2>2 DEF UnlockOne, ServerUnlock, Typed, Requests
    <3>2. QED
      BY <2>2, <3>1 DEF UnlockOne, Shrinks
  <2>3. ASSUME NEW s \in ServerIds PROVE ~LoopThrows(t, s)
    BY <1>t DEF LoopThrows, Throw, Leave
  <2>4. QED
    BY <1>2, <2>1, <2>2, <2>3 DEF LoopStep
<1>3. CASE AddStep(t)
  <2>1. ~AddFirst(t) /\ ~AddOnly(t) /\ ~AddEnter(t) /\ ~AddDone(t)
    BY <1>t, LoopLabels DEF AddFirst, AddOnly, AddEnter, AddDone, Leave
  <2>2. ~AddSendThrows(t) /\ ~SendThrows(t)
    BY <1>t DEF AddSendThrows, SendThrows, Throw, Leave
  <2>3. CASE AddSend(t)
    BY <2>3, LoopLabels, LoopsAreAhead, NextLoopShrinks DEF AddSend
  <2>4. CASE AddSent(t)
    BY <2>4, LoopLabels, LoopsAreAhead, NextLoopShrinks DEF AddSent, NextLoop
  <2>5. ASSUME NEW k \in Keys, SendOne(t, k), UNCHANGED frontendVars PROVE Shrinks(t)
    BY <2>5 DEF SendOne, requestVars, frontendVars, Shrinks
  <2>6. QED
    BY <1>3, <2>1, <2>2, <2>3, <2>4, <2>5 DEF AddStep
<1>4. ASSUME ReadStep(t) PROVE FALSE
  <2>1. pc[t] \in {"get_pick", "get_exists", "get_call"} \cup ReadPcs
    BY <1>4 DEF ReadStep, GetPick, GetExists, GetSend, CheckLock, Park, ReadKey, ReadDone,
                ReadBroken, ReadPcs
  <2>2. QED
    BY <2>1 DEF ReadPcs, LoopPcs
<1>5. QED
  BY <1>1, <1>2, <1>3, <1>4 DEF ThreadStep

\* Only threads in the loops touch the entries of a transfer, and a thread
\* that takes serversLock is in its first loop.
LEMMA OutsideTheLoops ==
  ASSUME Typed, NEW t \in Threads, ThreadStep(t), pc[t] \notin LoopPcs
  PROVE  UNCHANGED unsent /\ (monitor' = monitor \/ pc'[t] \in LoopPcs)
<1>1. ASSUME PutStep(t) PROVE PutEnter(t)
  BY <1>1, LoopLabels DEF PutStep, PutLocked, PutWritten, NextLoop, PutDone, WriteOne
<1>2. ~LoopStep(t)
  BY LoopLabels DEF LoopStep, LockOne, UnlockOne, LoopThrows
<1>3. ASSUME AddStep(t) PROVE AddFirst(t) \/ AddOnly(t) \/ AddEnter(t)
  BY <1>3, LoopLabels DEF AddStep, AddSend, AddSendThrows, SendThrows, AddSent, NextLoop,
                          AddDone, SendOne
<1>4. CASE PutEnter(t)
  BY <1>4, GotoMoves, LoopLabels DEF Typed, PutEnter, serverVars
<1>5. CASE AddEnter(t)
  BY <1>5, GotoMoves, LoopLabels DEF Typed, AddEnter, serverVars
<1>6. CASE AddFirst(t) \/ AddOnly(t)
  BY <1>6 DEF AddFirst, AddOnly, serverVars, frontendVars
<1>7. CASE ReadStep(t) /\ UNCHANGED frontendVars
  <2>1. UNCHANGED unsent
    BY <1>7 DEF ReadStep, GetPick, GetExists, GetSend, CheckLock, Park, ReadKey, ReadDone,
                ReadBroken, serverVars
  <2>2. QED
    BY <1>7, <2>1 DEF frontendVars
<1>8. QED
  BY <1>1, <1>2, <1>3, <1>4, <1>5, <1>6, <1>7 DEF ThreadStep

\* A call is made by a thread that has none in progress, and moves no entry.
LEMMA CallersAreIdle ==
  ASSUME NEW t \in Threads, IsCall(t)
  PROVE  pc[t] = "idle" /\ UNCHANGED <<unsent, monitor, todo>>
<1>1. CASE ClientCall(t)
  BY <1>1 DEF ClientCall, GetCall, PutCall, serverVars, frontendVars
<1>2. CASE List(t)
  BY <1>2 DEF List, ListServer, serverVars, frontendVars
<1>3. ASSUME NEW s \in ServerIds, AddNode(t, s) \/ AddAgain(t, s)
      PROVE  pc[t] = "idle" /\ UNCHANGED <<unsent, monitor, todo>>
  BY <1>3 DEF AddNode, AddAgain, AddCall, serverVars, frontendVars
<1>4. ASSUME NEW s \in ServerIds, AdminCall(t, s)
      PROVE  pc[t] = "idle" /\ UNCHANGED <<unsent, monitor, todo>>
  BY <1>4 DEF AdminCall, PrintCall, ShutdownServer, serverVars, frontendVars
<1>5. QED
  BY <1>1, <1>2, <1>3, <1>4 DEF IsCall

\* What a step of another thread leaves to the holder of serversLock.
LEMMA BystandersKeepOut ==
  ASSUME Walking, HolderIsInLoop, [Next]_allVars, NEW x \in Threads, monitor = x,
         ~ThreadStep(x)
  PROVE  UNCHANGED <<todo, unsent, monitor>> /\ pc'[x] = pc[x]
<1>x. pc[x] \in LoopPcs /\ monitor # None
  BY NoneAssumption DEF HolderIsInLoop
<1>1. ASSUME NEW t \in Threads, ThreadStep(t)
      PROVE  UNCHANGED <<todo, unsent, monitor>> /\ pc'[x] = pc[x]
  <2>1. t # x /\ pc[t] \notin LoopPcs
    BY <1>1 DEF Walking, SingleWriter
  <2>2. Others(t) /\ Discipline(t) /\ Effect(t)
    BY <1>1, StepEffect, StepDiscipline DEF Walking
  <2>3. UNCHANGED unsent /\ pc'[x] = pc[x]
    BY <1>1, <1>x, <2>1, <2>2, OutsideTheLoops, LoopLabels DEF Walking, Others
  <2>4. UNCHANGED <<todo, monitor>>
    BY <1>x, <2>1, <2>2 DEF Effect, Discipline
  <2>5. QED
    BY <2>3, <2>4
<1>2. ASSUME NEW t \in Threads, IsCall(t)
      PROVE  UNCHANGED <<todo, unsent, monitor>> /\ pc'[x] = pc[x]
  <2>1. Others(t) /\ t # x
    BY <1>2, <1>x, CallDiscipline, CallersAreIdle, LoopLabels DEF IsCall, Walking
  <2>2. QED
    BY <1>2, <1>x, <2>1, CallersAreIdle, LoopLabels DEF Others
<1>3. CASE HeartBeatStep \/ JvmStep \/ UNCHANGED allVars
  BY <1>3, <1>x DEF HeartBeatStep, Probe, Remove, JvmStep, allVars, vars, serverVars,
                    requestVars, frontendVars
<1>4. QED
  BY <1>1, <1>2, <1>3, NextCases

LEMMA NextKeepsHolder ==
  Walking /\ HolderIsInLoop /\ [Next]_allVars => HolderIsInLoop'
<1> SUFFICES ASSUME Walking, HolderIsInLoop, [Next]_allVars,
                    NEW x \in Threads, monitor' = x
             PROVE  pc'[x] \in LoopPcs
  BY DEF HolderIsInLoop
<1>x. x # None
  BY NoneAssumption
<1>1. CASE monitor = x /\ ~ThreadStep(x)
  BY <1>1, BystandersKeepOut DEF HolderIsInLoop
<1>2. CASE monitor = x /\ ThreadStep(x)
  BY <1>2, HolderShrinks DEF Walking, HolderIsInLoop, Shrinks
<1>3. CASE monitor # x
  <2>1. ASSUME NEW t \in Threads, ThreadStep(t) PROVE pc'[x] \in LoopPcs
    <3>1. Discipline(t)
      BY <2>1, StepDiscipline DEF Walking
    <3>2. monitor = None /\ t = x
      BY <1>x, <1>3, <3>1 DEF Discipline
    <3>3. pc[t] \notin LoopPcs
      BY <1>x, <3>2 DEF Walking, SingleWriter
    <3>4. QED
      BY <1>3, <2>1, <3>2, <3>3, OutsideTheLoops DEF Walking
  <2>2. ASSUME NEW t \in Threads, IsCall(t) PROVE FALSE
    BY <1>3, <2>2, CallersAreIdle
  <2>3. UNCHANGED monitor => FALSE
    BY <1>3
  <2>4. HeartBeatStep \/ JvmStep \/ UNCHANGED allVars => UNCHANGED monitor
    BY DEF HeartBeatStep, Probe, Remove, JvmStep, allVars, vars, frontendVars
  <2>5. QED
    BY <2>1, <2>2, <2>3, <2>4, NextCases
<1>4. QED
  BY <1>1, <1>2, <1>3

\* Who holds serversLock gets nearer to giving it back with every step, and
\* nobody else sets it back: not a crash, not the heartbeat, not a reader, in
\* whatever number.  What is left is a number of loops and finite sets of
\* servers and entries, so a holder that keeps being scheduled leaves.
THEOREM HoldersLeave == Spec => HoldersGetOn
<1> DEFINE GetsOn ==
      \A t \in Threads :
        monitor = t /\ monitor' = t =>
          /\ pc'[t] \in LoopPcs
          /\ \/ LoopsAhead(pc'[t]) < LoopsAhead(pc[t])
             \/ /\ pc'[t] = pc[t] /\ todo' \subseteq todo /\ unsent' \subseteq unsent
                /\ ThreadStep(t) => todo' # todo \/ unsent' # unsent
<1>1. Init => HolderIsInLoop
  BY NoneAssumption DEF Init, HolderIsInLoop
<1>2. Spec => [](Walking /\ HolderIsInLoop)
  BY <1>1, InitWalks, NextWalks, NextKeepsHolder, PTL DEF Spec
<1>3. Walking /\ HolderIsInLoop /\ [Next]_allVars => [GetsOn]_allVars
  <2> SUFFICES ASSUME Walking, HolderIsInLoop, [Next]_allVars PROVE GetsOn
    OBVIOUS
  <2> SUFFICES ASSUME NEW t \in Threads, monitor = t, monitor' = t
               PROVE  /\ pc'[t] \in LoopPcs
                      /\ \/ LoopsAhead(pc'[t]) < LoopsAhead(pc[t])
                         \/ /\ pc'[t] = pc[t] /\ todo' \subseteq todo
                            /\ unsent' \subseteq unsent
                            /\ ThreadStep(t) => todo' # todo \/ unsent' # unsent
    OBVIOUS
  <2>1. pc[t] \in LoopPcs
    BY DEF HolderIsInLoop
  <2>2. CASE ThreadStep(t)
    BY <2>1, <2>2, HolderShrinks DEF Walking, Shrinks
  <2>3. CASE ~ThreadStep(t)
    BY <2>1, <2>3, BystandersKeepOut
  <2>4. QED
    BY <2>2, <2>3
<1>4. QED
  BY <1>2, <1>3, PTL DEF Spec, HoldersGetOn
=============================================================================
