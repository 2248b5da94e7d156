------------------------------- MODULE Frontend -------------------------------
(* The frontend's request handlers (FrontendRPCImpl) with the loops of         *)
(* ServerLockUtil and the routing of ServerSelector.                           *)
(*                                                                             *)
(* put and addServer run under serversLock and walk the registered servers     *)
(* three resp. two times; get and printKVPairs read the server map without     *)
(* any lock, one ConcurrentHashMap call per step.                              *)
(*                                                                             *)
(* Retry.run makes up to four attempts.  An attempt on a server that is not up *)
(* changes nothing, so a retried call is one step that either succeeds (the    *)
(* server is up at that attempt) or throws (it was down at the last one).      *)
EXTENDS Server, Selector

VARIABLES
  servers,     \* ServersList.servers: the registered ids
  monitor,     \* the thread inside synchronized (serversLock), or None
  todo,        \* servers the current loop of the monitor's holder still visits
  committed    \* history: the value an acknowledged put left for each key;
               \* None once a put of the key ended in an exception

frontendVars == <<servers, monitor, todo, committed>>
vars == <<serverVars, requestVars, frontendVars>>

\* The loops that hold serversLock, in the order the code runs them.
LoopPcs == {"put_lock", "put_write", "put_unlock",
            "add_lock", "send", "add_unlock"}

\* Mutant of Enter: the loops are not inside synchronized (serversLock).
EnterUnsynchronized(t) ==
  /\ monitor' = t
  /\ todo' = servers

Enter(t) ==
  /\ monitor = None
  /\ monitor' = t
  /\ todo' = servers

Leave == monitor' = None /\ todo' = {}

\* Mutant of Throw: an exception keeps serversLock.
ThrowKeepsMonitor(t) ==
  /\ Return(t, "fault")
  /\ unsent' = {} /\ todo' = {}
  /\ UNCHANGED <<isLocked, data, servers, monitor, committed>>

\* An exception leaves the synchronized block and becomes the caller's fault.
\* Nothing in the code catches it to unlock the servers locked so far.
Throw(t) ==
  /\ Return(t, "fault")
  /\ Leave
  /\ unsent' = {}
  /\ committed' = IF pc[t] \in {"put_write", "put_unlock"}
                  THEN [committed EXCEPT ![arg[t].key] = None]
                  ELSE committed
  /\ UNCHANGED <<isLocked, data, servers>>

-----------------------------------------------------------------------------
(* ServerLockUtil: one turn of a loop.  The order in which the map's iterator *)
(* visits the servers is left open.                                           *)

\* lock() catches the exception of a server that does not answer.
LockOne(t, s) ==
  /\ pc[t] \in {"put_lock", "add_lock"} /\ s \in todo
  /\ IF Up(s) THEN ServerLock(s) ELSE UNCHANGED isLocked
  /\ todo' = todo \ {s}
  /\ UNCHANGED <<data, unsent, requestVars, servers, monitor, committed>>

\* Mutant of WriteOne: the loop catches the exception, as lock() does.
WriteOneCatches(t, s) ==
  /\ pc[t] = "put_write" /\ s \in todo
  /\ IF Up(s) THEN ServerPut(s, arg[t].key, arg[t].val) ELSE UNCHANGED data
  /\ todo' = todo \ {s}
  /\ UNCHANGED <<isLocked, unsent, requestVars, servers, monitor, committed>>

WriteOne(t, s) ==
  /\ pc[t] = "put_write" /\ s \in todo /\ Up(s)
  /\ ServerPut(s, arg[t].key, arg[t].val)
  /\ todo' = todo \ {s}
  /\ UNCHANGED <<isLocked, unsent, requestVars, servers, monitor, committed>>

\* Mutant of UnlockOne: only one server is unlocked.
UnlockOneStops(t, s) ==
  /\ pc[t] \in {"put_unlock", "add_unlock"} /\ s \in todo /\ Up(s)
  /\ ServerUnlock(s)
  /\ todo' = {}
  /\ UNCHANGED <<data, unsent, arg, reply, servers, monitor, committed>>

UnlockOne(t, s) ==
  /\ pc[t] \in {"put_unlock", "add_unlock"} /\ s \in todo /\ Up(s)
  /\ ServerUnlock(s)
  /\ todo' = todo \ {s}
  /\ UNCHANGED <<data, unsent, arg, reply, servers, monitor, committed>>

\* The write and unlock loops do not catch: Retry.run gave up on s.
LoopThrows(t, s) ==
  /\ pc[t] \in {"put_write", "put_unlock", "add_unlock"} /\ s \in todo /\ ~Up(s)
  /\ Throw(t)

\* One loop has visited every server and the next one starts.
NextLoop(t, from, to) ==
  /\ pc[t] = from /\ todo = {}
  /\ Goto(t, to)
  /\ todo' = servers
  /\ UNCHANGED <<serverVars, arg, reply, servers, monitor, committed>>

-----------------------------------------------------------------------------
(* put                                                                       *)

PutCall(t, k, v) ==
  /\ pc[t] = "idle"
  /\ Begin(t, "put_enter", [NoArgs EXCEPT !.key = k, !.val = v])
  /\ UNCHANGED <<serverVars, frontendVars>>

PutEnter(t) ==
  /\ pc[t] = "put_enter"
  /\ Enter(t)
  /\ Goto(t, "put_lock")
  /\ UNCHANGED <<serverVars, arg, reply, servers, committed>>

PutLocked(t) == NextLoop(t, "put_lock", "put_write")

\* Mutant of PutWritten: put returns without the unlock loop.
PutWrittenIsDone(t) ==
  /\ pc[t] = "put_write" /\ todo = {}
  /\ Goto(t, "put_unlock")
  /\ UNCHANGED <<serverVars, arg, reply, servers, monitor, todo, committed>>

PutWritten(t) == NextLoop(t, "put_write", "put_unlock")

PutDone(t) ==
  /\ pc[t] = "put_unlock" /\ todo = {}
  /\ Return(t, "ok")
  /\ Leave
  /\ committed' = [committed EXCEPT ![arg[t].key] = arg[t].val]
  /\ UNCHANGED <<serverVars, servers>>

-----------------------------------------------------------------------------
(* get: four looks at the live map, then the RPC.                            *)

\* servers.size(), and the remainder; an empty map divides by zero.
GetCall(t, k) ==
  /\ pc[t] = "idle"
  /\ \/ /\ servers = {}
        /\ Return(t, "fault")
     \/ /\ servers # {}
        /\ Begin(t, "get_pick",
                 [NoArgs EXCEPT !.want = {k},
                                !.idx = JavaRem(k, Cardinality(servers))])
  /\ UNCHANGED <<serverVars, frontendVars>>

\* sorted().get(index), on the map as it is now.
GetPick(t) ==
  /\ pc[t] = "get_pick"
  /\ \/ \E s \in servers :
          /\ Rank(servers, s) = arg[t].idx
          /\ arg' = [arg EXCEPT ![t] = [@ EXCEPT !.srv = s, !.idx = 0]]
          /\ Goto(t, "get_exists")
          /\ UNCHANGED reply
     \/ /\ ~InRange(servers, arg[t].idx)
        /\ Return(t, "fault")
  /\ UNCHANGED <<serverVars, frontendVars>>

GetExists(t) ==
  /\ pc[t] = "get_exists"
  /\ IF arg[t].srv \in servers
     THEN Goto(t, "get_call") /\ UNCHANGED <<arg, reply>>
     ELSE Return(t, "ERR_NOEXIST")
  /\ UNCHANGED <<serverVars, frontendVars>>

\* The map is asked for the stub once more: null if the server has left since.
GetSend(t) ==
  /\ pc[t] = "get_call"
  /\ \/ /\ arg[t].srv \in servers /\ Up(arg[t].srv)
        /\ Goto(t, "check")
        /\ UNCHANGED <<arg, reply>>
     \/ /\ arg[t].srv \notin servers \/ ~Up(arg[t].srv)
        /\ Return(t, "fault")
  /\ UNCHANGED <<serverVars, frontendVars>>

-----------------------------------------------------------------------------
(* printKVPairs: one look at the map, then the RPC.                          *)

PrintCall(t, s) ==
  /\ pc[t] = "idle"
  /\ \/ s \notin servers /\ Return(t, "ERR_NOEXIST")
     \/ s \in servers /\ ~Up(s) /\ Return(t, "fault")
     \/ /\ s \in servers /\ Up(s)
        /\ Begin(t, "check", [NoArgs EXCEPT !.srv = s, !.want = Keys])
  /\ UNCHANGED <<serverVars, frontendVars>>

-----------------------------------------------------------------------------
(* addServer                                                                 *)

\* containsKey, and creating the stub, which does not contact the server.
AddCall(t, s) ==
  /\ pc[t] = "idle"
  /\ \/ s \in servers /\ Return(t, "exists")
     \/ /\ s \notin servers
        /\ Begin(t, "add_first", [NoArgs EXCEPT !.srv = s])
  /\ UNCHANGED <<serverVars, frontendVars>>

\* keySet().stream().findFirst(), still outside serversLock.
AddFirst(t) ==
  /\ pc[t] = "add_first"
  /\ \/ /\ servers = {}
        /\ Goto(t, "add_only")
        /\ UNCHANGED arg
     \/ \E s \in servers :
          /\ arg' = [arg EXCEPT ![t] = [@ EXCEPT !.from = s]]
          /\ Goto(t, "add_enter")
  /\ UNCHANGED <<serverVars, reply, frontendVars>>

\* Mutant of AddOnly: registers the sender it did not find.
AddOnlyRegistersSender(t) ==
  /\ pc[t] = "add_only" /\ monitor = None
  /\ servers' = servers \cup {arg[t].from}
  /\ Return(t, "ok")
  /\ UNCHANGED <<serverVars, monitor, todo, committed>>

\* No other server was seen: register under the lock, without any data.
AddOnly(t) ==
  /\ pc[t] = "add_only" /\ monitor = None
  /\ servers' = servers \cup {arg[t].srv}
  /\ committed' = IF servers = {} THEN data[arg[t].srv] ELSE committed
  /\ Return(t, "ok")
  /\ UNCHANGED <<serverVars, monitor, todo>>

AddEnter(t) ==
  /\ pc[t] = "add_enter"
  /\ Enter(t)
  /\ Goto(t, "add_lock")
  /\ UNCHANGED <<serverVars, arg, reply, servers, committed>>

\* servers.get(sendingServerId) is null if the sender was removed before the
\* lock was taken.
AddSend(t) ==
  /\ pc[t] = "add_lock" /\ todo = {}
  /\ arg[t].from \in servers /\ Up(arg[t].from)
  /\ Goto(t, "send")
  /\ unsent' = Entries(arg[t].from)
  /\ UNCHANGED <<isLocked, data, arg, reply, frontendVars>>

AddSendThrows(t) ==
  /\ pc[t] = "add_lock" /\ todo = {}
  /\ arg[t].from \notin servers \/ ~Up(arg[t].from)
  /\ Throw(t)

\* Mutant of SendThrows: the transfer is tried again from its first entry.
SendStartsAgain(t) ==
  /\ pc[t] = "send"
  /\ ~Up(arg[t].from) \/ (~Up(arg[t].srv) /\ unsent # {})
  /\ unsent' = Entries(arg[t].from)
  /\ UNCHANGED <<isLocked, data, requestVars, frontendVars>>

SendThrows(t) ==
  /\ pc[t] = "send"
  /\ ~Up(arg[t].from) \/ (~Up(arg[t].srv) /\ unsent # {})
  /\ Throw(t)

AddSent(t) ==
  /\ pc[t] = "send" /\ unsent = {} /\ Up(arg[t].from)
  /\ NextLoop(t, "send", "add_unlock")

AddDone(t) ==
  /\ pc[t] = "add_unlock" /\ todo = {}
  /\ servers' = servers \cup {arg[t].srv}
  /\ Return(t, "ok")
  /\ Leave
  /\ UNCHANGED <<serverVars, committed>>

-----------------------------------------------------------------------------
(* shutdownServer and listServer hold serversLock from the first look at the *)
(* map to the last, so waiting for it is the same as being called later.     *)

\* ServerRPCImpl.shutdownServer only answers; the process goes on serving.
ShutdownServer(t, s) ==
  /\ pc[t] = "idle" /\ monitor = None
  /\ \/ s \notin servers /\ Return(t, "ERR_NOEXIST") /\ UNCHANGED servers
     \/ s \in servers /\ ~Up(s) /\ Return(t, "fault") /\ UNCHANGED servers
     \/ s \in servers /\ Up(s) /\ Return(t, "ok") /\ servers' = servers \ {s}
  /\ UNCHANGED <<serverVars, monitor, todo, committed>>

ListServer(t) ==
  /\ pc[t] = "idle" /\ monitor = None
  /\ Return(t, IF servers = {} THEN "ERR_NOSERVERS" ELSE "ok")
  /\ UNCHANGED <<serverVars, frontendVars>>
=============================================================================
