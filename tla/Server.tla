-------------------------------- MODULE Server --------------------------------
(* The key-value servers (ServerRPCImpl, one JVM per id).                      *)
(*                                                                             *)
(* A request is named by the frontend worker thread that is blocked on it: the *)
(* thread's program counter moves into the server with the call and back with  *)
(* the reply.  An RPC on a server that is up takes effect and returns; on one  *)
(* that is not up it is refused.  ClientFactory timeouts are 0 (none), so a    *)
(* call is never abandoned while its server lives.                             *)
EXTENDS Integers, FiniteSets

CONSTANTS
  ServerIds,   \* ids run_cluster.py can hand out (serverUID)
  Clients,     \* frontend threads working for client pods: put and get
  Admins,      \* frontend threads working for run_cluster.py: the other calls
  Keys,
  Values,
  Absent,      \* ConcurrentHashMap.get found nothing ("ERR_KEY")
  None         \* no server, no thread, no key, not read yet, value unknown

Threads == Clients \cup Admins

ASSUME ServerIdsAssumption == ServerIds \subseteq Nat /\ IsFiniteSet(ServerIds)
ASSUME KeysAssumption == Keys \subseteq Int
ASSUME NoneAssumption ==
  /\ None \notin ServerIds \cup Threads \cup Keys \cup Values
  /\ Absent \notin Values \cup {None}
  /\ Clients \cap Admins = {}

VARIABLES
  life,        \* life[s]: "absent" (no pod), "starting" (pod runs, port closed),
               \*          "up", "crashed"
  isLocked,    \* isLocked[s]
  data,        \* data[s][k]
  pc,          \* pc[t]: where the request of thread t stands
  arg,         \* arg[t]: its arguments and locals
  reply,       \* reply[t]: how the last request of t ended
  unsent       \* entries sendValuesToServer still has to put

serverVars == <<isLocked, data, unsent>>
requestVars == <<pc, arg, reply>>

Stored == Values \cup {Absent}
Up(s) == life[s] = "up"

\* Places inside ServerRPCImpl.get and printKVPairs.
ReadPcs == {"check", "park", "wait", "read"}

\* key, val: put; srv: the server a call names or was routed to; idx: index
\* into the sorted list; from: sendingServerId; want, shown: the keys a get or
\* printKVPairs still has to read and the values it found.
NoArgs == [key |-> None, val |-> Absent, srv |-> None, idx |-> 0,
           from |-> None, want |-> {}, shown |-> [k \in Keys |-> None]]

Args == [key : Keys \cup {None}, val : Stored, srv : ServerIds \cup {None},
         idx : Int, from : ServerIds \cup {None}, want : SUBSET Keys,
         shown : [Keys -> Stored \cup {None}]]

Goto(t, label) == pc' = [pc EXCEPT ![t] = label]

\* A call enters with what it has been given; the last answer is forgotten.
Begin(t, label, a) ==
  /\ Goto(t, label)
  /\ arg' = [arg EXCEPT ![t] = a]
  /\ reply' = [reply EXCEPT ![t] = "none"]

Return(t, answer) ==
  /\ pc' = [pc EXCEPT ![t] = "idle"]
  /\ arg' = [arg EXCEPT ![t] = NoArgs]
  /\ reply' = [reply EXCEPT ![t] = answer]

-----------------------------------------------------------------------------
(* put, lock, unlock: what the handler does to the server's state.           *)

ServerPut(s, k, v) == data' = [data EXCEPT ![s][k] = v]

ServerLock(s) == isLocked' = [isLocked EXCEPT ![s] = TRUE]

\* Clearing the flag and notifyAll are one step: a thread that parks between
\* the two does not look at the flag again, so it fares as if it had parked
\* before both.
ServerUnlock(s) ==
  /\ isLocked' = [isLocked EXCEPT ![s] = FALSE]
  /\ pc' = [t \in Threads |->
              IF pc[t] = "wait" /\ arg[t].srv = s THEN "check" ELSE pc[t]]

-----------------------------------------------------------------------------
(* get and printKVPairs.  The flag is tested outside the monitor that guards  *)
(* wait(), so testing it and joining the wait set are two steps.              *)

\* Mutant of CheckLock: the handler does not look at the flag.
CheckLockIgnoresFlag(t) ==
  /\ pc[t] = "check" /\ Up(arg[t].srv)
  /\ Goto(t, "read")
  /\ UNCHANGED <<serverVars, arg, reply>>

CheckLock(t) ==
  /\ pc[t] = "check" /\ Up(arg[t].srv)
  /\ Goto(t, IF isLocked[arg[t].srv] THEN "park" ELSE "read")
  /\ UNCHANGED <<serverVars, arg, reply>>

Park(t) ==
  /\ pc[t] = "park" /\ Up(arg[t].srv)
  /\ Goto(t, "wait")
  /\ UNCHANGED <<serverVars, arg, reply>>

\* data.get(key), or one step of the weakly consistent iterator of entrySet().
ReadKey(t, k) ==
  /\ pc[t] = "read" /\ Up(arg[t].srv) /\ k \in arg[t].want
  /\ arg' = [arg EXCEPT ![t] =
               [@ EXCEPT !.want = arg[t].want \ {k},
                         !.shown[k] = data[arg[t].srv][k]]]
  /\ UNCHANGED <<serverVars, pc, reply>>

ReadDone(t) ==
  /\ pc[t] = "read" /\ Up(arg[t].srv) /\ arg[t].want = {}
  /\ Return(t, "ok")
  /\ UNCHANGED serverVars

\* The server died with the request in it: the caller gets an exception, and
\* neither get nor printKVPairs of the frontend retries.
ReadBroken(t) ==
  /\ pc[t] \in ReadPcs /\ life[arg[t].srv] = "crashed"
  /\ Return(t, "fault")
  /\ UNCHANGED serverVars

-----------------------------------------------------------------------------
(* sendValuesToServer, running at arg[t].from for the addServer call of t.    *)

Entries(s) == {k \in Keys : data[s][k] # Absent}

\* Mutant of SendOne: an entry the joiner already has is not overwritten.
SendOneIfAbsent(t, k) ==
  /\ pc[t] = "send" /\ k \in unsent
  /\ Up(arg[t].from) /\ Up(arg[t].srv)
  /\ IF data[arg[t].srv][k] = Absent
     THEN ServerPut(arg[t].srv, k, data[arg[t].from][k])
     ELSE UNCHANGED data
  /\ unsent' = unsent \ {k}
  /\ UNCHANGED <<isLocked, requestVars>>

\* One successful put at the new server.  An attempt that fails and is retried
\* changes nothing, and a repeated transfer puts the same values again.
SendOne(t, k) ==
  /\ pc[t] = "send" /\ k \in unsent
  /\ Up(arg[t].from) /\ Up(arg[t].srv)
  /\ ServerPut(arg[t].srv, k, data[arg[t].from][k])
  /\ unsent' = unsent \ {k}
  /\ UNCHANGED <<isLocked, requestVars>>

-----------------------------------------------------------------------------
(* The JVM around the handlers.                                              *)

Start(s) ==
  /\ life[s] = "starting"
  /\ life' = [life EXCEPT ![s] = "up"]

Crash(s) ==
  /\ life[s] \in {"starting", "up"}
  /\ life' = [life EXCEPT ![s] = "crashed"]
=============================================================================
