-------------------------------- MODULE Cluster -------------------------------
(* The whole system: servers, frontend and heartbeat, driven as                *)
(* run_cluster.py drives them: client pods call put and get; its own thread    *)
(* starts pods, registers them with addServer, lists, prints and shuts down    *)
(* servers, and killServer deletes pods.                                       *)
EXTENDS HeartBeat

CONSTANTS
  SlowStart,   \* a pod is reported Running before its JVM answers
  ReuseIds,    \* addServer may name an id that was registered before
               \* (run_cluster.py never does: serverUID only grows)
  MaxCalls,    \* bound: calls made in a behaviour
  MaxCrashes   \* bound: pods killed in a behaviour

ASSUME BoundsAssumption ==
  /\ MaxCalls \in Nat /\ MaxCrashes \in Nat
  /\ SlowStart \in BOOLEAN /\ ReuseIds \in BOOLEAN

VARIABLES calls, crashes

driverVars == <<calls, crashes>>
allVars == <<vars, life, suspect, driverVars>>

Init ==
  /\ life = [s \in ServerIds |-> "absent"]
  /\ isLocked = [s \in ServerIds |-> FALSE]
  /\ data = [s \in ServerIds |-> [k \in Keys |-> Absent]]
  /\ pc = [t \in Threads |-> "idle"]
  /\ arg = [t \in Threads |-> NoArgs]
  /\ reply = [t \in Threads |-> "none"]
  /\ unsent = {}
  /\ servers = {}
  /\ monitor = None
  /\ todo = {}
  /\ committed = [k \in Keys |-> Absent]
  /\ suspect = None
  /\ calls = 0 /\ crashes = 0

-----------------------------------------------------------------------------
(* Calls *)

CountCall == calls < MaxCalls /\ calls' = calls + 1 /\ UNCHANGED crashes

\* client.py forwards one request at a time.
ClientCall(t) ==
  /\ CountCall
  /\ \E k \in Keys : GetCall(t, k) \/ \E v \in Values : PutCall(t, k, v)
  /\ UNCHANGED <<life, suspect>>

\* add_nodes: create the pod of the next serverUID, wait until it is Running,
\* and register it.
AddNode(t, s) ==
  /\ CountCall
  /\ life[s] = "absent" /\ \A x \in ServerIds : x < s => life[x] # "absent"
  /\ life' = [life EXCEPT ![s] = IF SlowStart THEN "starting" ELSE "up"]
  /\ AddCall(t, s)
  /\ UNCHANGED suspect

AddAgain(t, s) ==
  /\ CountCall
  /\ ReuseIds /\ life[s] # "absent"
  /\ AddCall(t, s)
  /\ UNCHANGED <<life, suspect>>

AdminCall(t, s) ==
  /\ CountCall
  /\ life[s] # "absent"
  /\ PrintCall(t, s) \/ ShutdownServer(t, s)
  /\ UNCHANGED <<life, suspect>>

List(t) == CountCall /\ ListServer(t) /\ UNCHANGED <<life, suspect>>

-----------------------------------------------------------------------------
(* Steps of the calls in progress, the heartbeat and the JVMs *)

PutStep(t) ==
  \/ PutEnter(t) \/ PutLocked(t) \/ PutWritten(t) \/ PutDone(t)
  \/ \E s \in ServerIds : WriteOne(t, s)

LoopStep(t) ==
  \E s \in ServerIds : LockOne(t, s) \/ UnlockOne(t, s) \/ LoopThrows(t, s)

ReadStep(t) ==
  \/ GetPick(t) \/ GetExists(t) \/ GetSend(t)
  \/ CheckLock(t) \/ Park(t) \/ ReadDone(t) \/ ReadBroken(t)
  \/ \E k \in Keys : ReadKey(t, k)

AddStep(t) ==
  \/ AddFirst(t) \/ AddOnly(t) \/ AddEnter(t)
  \/ AddSend(t) \/ AddSendThrows(t) \/ SendThrows(t) \/ AddSent(t) \/ AddDone(t)
  \/ /\ UNCHANGED frontendVars
     /\ \E k \in Keys : SendOne(t, k)

ThreadStep(t) ==
  /\ \/ PutStep(t) \/ LoopStep(t) \/ AddStep(t)
     \/ ReadStep(t) /\ UNCHANGED frontendVars
  /\ UNCHANGED <<life, suspect, driverVars>>

HeartBeatStep ==
  /\ Remove \/ \E s \in ServerIds : Probe(s)
  /\ UNCHANGED <<life, driverVars>>

JvmStep ==
  \E s \in ServerIds :
    /\ \/ Start(s) /\ UNCHANGED crashes
       \/ Crash(s) /\ crashes < MaxCrashes /\ crashes' = crashes + 1
    /\ UNCHANGED <<vars, suspect, calls>>

Next ==
  \/ \E t \in Clients : ClientCall(t)
  \/ \E t \in Admins : List(t)
  \/ \E t \in Admins, s \in ServerIds :
       AddNode(t, s) \/ AddAgain(t, s) \/ AdminCall(t, s)
  \/ \E t \in Threads : ThreadStep(t)
  \/ HeartBeatStep
  \/ JvmStep

Spec == Init /\ [][Next]_allVars

\* Every frontend and server thread keeps being scheduled, and the heartbeat
\* loop comes back to every server.  Nobody has to make a call, and a JVM need
\* not start or crash.
Fairness ==
  /\ \A t \in Threads : WF_allVars(ThreadStep(t))
  /\ WF_allVars(HeartBeatStep)

FairSpec == Spec /\ Fairness

-----------------------------------------------------------------------------
(* Types *)

Pcs == {"idle", "put_enter", "get_pick", "get_exists", "get_call",
        "add_first", "add_only", "add_enter"} \cup LoopPcs \cup ReadPcs

Replies == {"none", "ok", "fault", "exists", "ERR_NOEXIST", "ERR_NOSERVERS"}

TypeOK ==
  /\ life \in [ServerIds -> {"absent", "starting", "up", "crashed"}]
  /\ isLocked \in [ServerIds -> BOOLEAN]
  /\ data \in [ServerIds -> [Keys -> Stored]]
  /\ pc \in [Threads -> Pcs]
  /\ arg \in [Threads -> Args]
  /\ reply \in [Threads -> Replies]
  /\ unsent \in SUBSET Keys
  /\ servers \in SUBSET ServerIds
  /\ monitor \in Threads \cup {None}
  /\ todo \in SUBSET ServerIds
  /\ committed \in [Keys -> Stored \cup {None}]
  /\ suspect \in ServerIds \cup {None}
  /\ calls \in Nat /\ crashes \in Nat

-----------------------------------------------------------------------------
(* Safety *)

\* serversLock: whoever is between lock() and the end of unlock() is alone
\* there, so no two calls lock, write or transfer at the same time.
SingleWriter == \A t \in Threads : pc[t] \in LoopPcs => monitor = t

\* "Don't ... modify/access the servers hash map except for reads" outside the
\* lock: the lock, write and unlock loops of one call walk the same servers.
LoopsSeeOneMembership ==
  [][monitor # None /\ monitor' = monitor => servers' = servers]_allVars

WritingKey(t) ==
  IF pc[t] \in {"put_write", "put_unlock"} THEN {arg[t].key} ELSE {}

\* Replication: the value of an acknowledged put is at every registered server,
\* joiners included, until the next put of the key begins to write, whatever
\* servers crash, leave or join meanwhile.  (A cluster that lost its last server
\* starts again from the data of the first one to join.)
Durable ==
  \A k \in Keys :
    committed[k] \in Values /\ (\A t \in Threads : k \notin WritingKey(t))
      => \A s \in servers : data[s][k] = committed[k]

\* As long as every server answers, a call that locked servers unlocks them all
\* before serversLock is free again, those that have left the list included.
Reliable == ~SlowStart /\ \A s \in ServerIds : life[s] # "crashed"
NoStrandedLock ==
  Reliable /\ monitor = None => \A s \in ServerIds : ~isLocked[s]

\* A put or addServer that reports success leaves every live registered server
\* open for gets, also one that an earlier, failed call had left locked.
SuccessUnlocksAll ==
  [][\A t \in Threads :
       pc[t] \in {"put_unlock", "add_unlock"} /\ reply'[t] = "ok" =>
         \A s \in servers' : Up(s) => ~isLocked[s]]_allVars

\* The loops a holder of serversLock has not finished.
LoopsAhead(label) ==
  CASE label \in {"put_lock", "add_lock"} -> 3
    [] label \in {"put_write", "send"} -> 2
    [] label \in {"put_unlock", "add_unlock"} -> 1
    [] OTHER -> 0

\* What a call that holds serversLock has before it only shrinks, with every
\* step of its own and whatever the other threads, the heartbeat and the JVMs
\* do: it finishes a loop, or has one server or entry less to visit in this one.
HoldersGetOn ==
  [][\A t \in Threads :
       monitor = t /\ monitor' = t =>
         /\ pc'[t] \in LoopPcs
         /\ \/ LoopsAhead(pc'[t]) < LoopsAhead(pc[t])
            \/ /\ pc'[t] = pc[t] /\ todo' \subseteq todo /\ unsent' \subseteq unsent
               /\ ThreadStep(t) => todo' # todo \/ unsent' # unsent]_allVars

-----------------------------------------------------------------------------
(* Liveness *)

\* Neither a crash nor a blocked reader keeps put, addServer or a thread waiting
\* for serversLock from coming back to its caller.
WritersReturn ==
  \A t \in Threads :
    pc[t] \in LoopPcs \cup {"put_enter", "add_first", "add_only", "add_enter"}
      ~> pc[t] = "idle"

\* The heartbeat unregisters a crashed server, so later puts can succeed again.
DeadServersLeave ==
  \A s \in ServerIds : s \in servers /\ life[s] = "crashed" ~> s \notin servers

-----------------------------------------------------------------------------
(* What comments and docs of the repository say and the code does not do     *)

\* ServerRPCImpl.get, "Waiting until lock opens": a get that waits at a server
\* whose lock is open goes on.
WaitersWake ==
  \A t \in Threads :
    pc[t] = "wait" /\ ~isLocked[arg[t].srv] /\ monitor = None ~> pc[t] # "wait"

\* FrontendRPCImpl.addServer, "Unlock all servers": when an addServer that
\* locked the servers is over, no live registered one is locked.
AddLeavesNoLock ==
  [][\A t \in Threads :
       pc[t] \in {"add_lock", "send", "add_unlock"} /\ pc'[t] = "idle" =>
         \A s \in servers : Up(s) => ~isLocked[s]]_allVars
=============================================================================
