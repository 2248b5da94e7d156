------------------------------ MODULE DriverProofs -----------------------------
(* The safety of Driver for every bound: ids, client pods and the frontend's   *)
(* list stay in step, whatever fails and however often the driver starts.      *)
EXTENDS Driver, FiniteSetTheorems, TLAPS

-----------------------------------------------------------------------------
(* What links the driver to the pods and the frontend *)

\* A frontend that does not run has never met a server.
EmptyUnlessRunning ==
  phase[Frontend] # "Running" => ~open /\ servers = {} /\ joined = {}

\* Ids are met in the order of serverUID, which a new driver starts from 0 only
\* over a new frontend.
Known ==
  /\ servers \subseteq joined
  /\ pc # "off" => joined \subseteq 0 .. serverUID - 1

\* Clients are numbered without a gap.
Numbered == clientList = 0 .. clientUID - 1

\* What is left to add is within the bounds.
Room ==
  /\ clientUID + left.client <= MaxClients
  /\ serverUID + left.server <= MaxServers
  /\ event = "add" => serverUID < MaxServers

\* Which nodes are still to be added at each place of the program.
Places ==
  /\ pc = "off" => Idle
  /\ pc \in {"prompt", "test", "gone"} => left = None
  /\ pc = "test" => caller = "test"
  /\ pc = "prompt" => caller \in {"init", "command"}
  /\ caller = "worker" => left.client = 0
  /\ caller = "test" => left.server = 0
  /\ caller # "test" => event = "none"
  /\ pc = "running" /\ target[1] = "client" => left.client > 0
  /\ pc = "running" /\ target[1] = "server" => left.server > 0
  /\ pc = "join" => left.server > 0

\* A test has its clients, or is adding them.
Equipped ==
  caller \in {"test", "worker"} => threads <= clientUID + left.client

IInv ==
  /\ TypeOK /\ EmptyUnlessRunning /\ Known /\ Numbered
  /\ Room /\ Places /\ Equipped

-----------------------------------------------------------------------------

\* The pods and what their names tell apart.
LEMMA PodNames ==
  /\ Frontend \in Pods /\ Frontend[1] = "frontend"
  /\ \A i \in 0 .. MaxClients - 1 : Client(i) \in Pods /\ Client(i)[1] = "client"
                                    /\ Client(i) # Frontend
  /\ \A i \in ServerIds : Server(i) \in Pods /\ Server(i)[1] = "server"
                          /\ Server(i) # Frontend
BY DEF Pods, Frontend, Client, Server

LEMMA InitIInv == Init => IInv
<1> SUFFICES ASSUME Init PROVE IInv
  OBVIOUS
<1> USE DriverAssumption DEF Init, Idle, None
<1>1. Frontend \in Pods
  BY DEF Pods
<1>2. TypeOK
  <2>1. used \in [runs : Nat, commands : Nat, failures : Nat, faults : Nat]
    OBVIOUS
  <2>2. left \in [client : 0 .. MaxClients, server : 0 .. MaxServers]
    OBVIOUS
  <2>3. phase \in [Pods -> {"none", "Pending", "Running", "Failed"}]
    OBVIOUS
  <2>4. /\ deleting \subseteq Pods /\ open \in BOOLEAN
        /\ servers \subseteq ServerIds /\ joined \subseteq ServerIds
        /\ clientList \subseteq 0 .. MaxClients - 1
    OBVIOUS
  <2>5. /\ clientUID \in 0 .. MaxClients /\ serverUID \in 0 .. MaxServers
        /\ threads \in 0 .. MaxThreads
    OBVIOUS
  <2>6. QED
    BY <1>1, <2>1, <2>2, <2>3, <2>4, <2>5 DEF TypeOK
<1>3. EmptyUnlessRunning /\ Known /\ Numbered /\ Room /\ Equipped
  BY DEF EmptyUnlessRunning, Known, Numbered, Room, Equipped
<1>4. Places
  BY DEF Places, Frontend
<1>5. QED
  BY <1>2, <1>3, <1>4 DEF IInv


\* An exception that ends the driver keeps what the frontend and the pods are.
LEMMA ExitIInv ==
  ASSUME IInv, Exit, UNCHANGED <<podVars, frontendVars>>,
         used' \in [runs : Nat, commands : Nat, failures : Nat, faults : Nat]
  PROVE  IInv'
<1> USE DriverAssumption DEF IInv, None
<1>1. TypeOK'
  BY PodNames DEF TypeOK, Exit, podVars, frontendVars
<1>2. EmptyUnlessRunning' /\ Known' /\ Numbered' /\ Room' /\ Equipped'
  BY DEF EmptyUnlessRunning, Known, Numbered, Room, Equipped, Exit, podVars,
     frontendVars, TypeOK
<1>3. Places'
  BY PodNames DEF Places, Exit, Idle
<1>4. QED
  BY <1>1, <1>2, <1>3

\* One that ends a thread of the pool brings the test back.
LEMMA RaiseIInv ==
  ASSUME IInv, NEW who \in {caller, "command", "worker"}, RaiseAs(who),
         pc # "off", who = "worker" => caller \in {"test", "worker"} /\ left.client = 0,
         UNCHANGED <<podVars, frontendVars>>,
         used' \in [runs : Nat, commands : Nat, failures : Nat, faults : Nat]
  PROVE  IInv'
<1>1. CASE Exit
  BY <1>1, ExitIInv
<1>2. CASE who = "worker"
  <2> USE DriverAssumption, <1>2 DEF IInv, None, nodeVars
  <2>1. TypeOK'
    <3>1. left' \in [client : 0 .. MaxClients, server : 0 .. MaxServers]
      BY DEF RaiseAs
    <3>2. threads' \in 0 .. MaxThreads /\ clientUID' \in 0 .. MaxClients
          /\ serverUID' \in 0 .. MaxServers
      BY DEF TypeOK, RaiseAs
    <3>3. QED
      BY <3>1, <3>2, PodNames DEF TypeOK, RaiseAs, podVars, frontendVars
  <2>2. EmptyUnlessRunning' /\ Known' /\ Numbered' /\ Room' /\ Equipped'
    BY DEF EmptyUnlessRunning, Known, Numbered, Room, Equipped, RaiseAs, podVars,
       frontendVars, TypeOK
  <2>3. Places'
    BY PodNames DEF Places, RaiseAs
  <2>4. QED
    BY <2>1, <2>2, <2>3
<1>3. QED
  BY <1>1, <1>2 DEF RaiseAs

\* A pod that is asked for has the name of the next client or server.
LEMMA CreateIInv ==
  ASSUME IInv, pc = "add", UNCHANGED <<frontendVars, used>>,
         NEW p \in Pods, Create(p), p # Frontend,
         p[1] = "client" => left.client > 0, p[1] = "server" => left.server > 0
  PROVE  IInv'
<1>1. CASE phase[p] # "none"
  <2>1. used' \in [runs : Nat, commands : Nat, failures : Nat, faults : Nat]
    BY DEF IInv, TypeOK
  <2>2. RaiseAs(caller) /\ UNCHANGED podVars
    BY <1>1 DEF Create, Raise
  <2>3. caller = "worker" => left.client = 0
    BY DEF IInv, Places
  <2>4. QED
    BY <2>1, <2>2, <2>3, RaiseIInv
<1>2. CASE phase[p] = "none"
  <2>0. /\ phase' = [phase EXCEPT ![p] = "Pending"]
        /\ pc' = "running" /\ target' = p
        /\ UNCHANGED <<deleting, caller, left, nodeVars, threadVars>>
    BY <1>2 DEF Create
  <2> USE DriverAssumption DEF IInv, None
  <2>1. TypeOK'
    BY PodNames, <1>2, <2>0, SMT DEF TypeOK, Frontend, podVars, frontendVars, nodeVars, threadVars, taskVars, driverVars
  <2>2. EmptyUnlessRunning' /\ Known' /\ Numbered'
    BY PodNames, <1>2, <2>0, SMT DEF EmptyUnlessRunning, Known, Numbered, TypeOK, Places, Room, Idle,
       Frontend, podVars, frontendVars, nodeVars, threadVars, taskVars, driverVars
  <2>3. Room' /\ Places' /\ Equipped'
    BY PodNames, <1>2, <2>0, SMT DEF Room, Places, Equipped, Numbered, TypeOK, Idle, Frontend, podVars, frontendVars, nodeVars, threadVars, taskVars, driverVars
  <2>4. QED
    BY <2>1, <2>2, <2>3
<1>3. QED
  BY <1>1, <1>2

\* The last node of add_nodes is there.
LEMMA AddDoneIInv ==
  ASSUME IInv, AddDone
  PROVE  IInv'
<1> USE DriverAssumption DEF IInv, None
<1>1. TypeOK'
  BY PodNames, SMT DEF TypeOK, AddDone, Back, podVars, frontendVars, nodeVars, threadVars, taskVars, driverVars
<1>2. EmptyUnlessRunning' /\ Known' /\ Numbered'
  BY PodNames, SMT DEF EmptyUnlessRunning, Known, Numbered, TypeOK, Places, Room, Idle,
     AddDone, Back, podVars, frontendVars, nodeVars, threadVars, taskVars, driverVars
<1>3. Room' /\ Places' /\ Equipped'
  BY PodNames, SMT DEF Room, Places, Equipped, Numbered, TypeOK, Idle, AddDone, Back, podVars, frontendVars, nodeVars, threadVars, taskVars, driverVars
<1>4. QED
  BY <1>1, <1>2, <1>3

\* The wait for the frontend's pod ends.
LEMMA FrontendRunsIInv ==
  ASSUME IInv, FrontendRuns
  PROVE  IInv'
<1> USE DriverAssumption DEF IInv, None
<1>1. TypeOK'
  BY PodNames, SMT DEF TypeOK, FrontendRuns, podVars, frontendVars, nodeVars, threadVars, taskVars, driverVars
<1>2. EmptyUnlessRunning' /\ Known' /\ Numbered'
  BY PodNames, SMT DEF EmptyUnlessRunning, Known, Numbered, TypeOK, Places, Room, Idle,
     FrontendRuns, podVars, frontendVars, nodeVars, threadVars, taskVars, driverVars
<1>3. Room' /\ Places' /\ Equipped'
  BY PodNames, SMT DEF Room, Places, Equipped, Numbered, TypeOK, Idle, FrontendRuns, podVars, frontendVars, nodeVars, threadVars, taskVars, driverVars
<1>4. QED
  BY <1>1, <1>2, <1>3

\* A client gets the next number.
LEMMA ClientRunsIInv ==
  ASSUME IInv, ClientRuns
  PROVE  IInv'
<1> USE DriverAssumption DEF IInv, None
<1>1. /\ left.client \in 1 .. MaxClients /\ left.server \in 0 .. MaxServers
      /\ left' = [client |-> left.client - 1, server |-> left.server]
  BY DEF ClientRuns, TypeOK, Places
<1>2. clientUID < MaxClients /\ clientUID \in Nat /\ MaxClients \in Nat
  BY <1>1 DEF Room, TypeOK
<1>3. /\ clientList' = 0 .. clientUID /\ clientUID' = clientUID + 1
      /\ pc' = "add"
      /\ UNCHANGED <<podVars, frontendVars, caller, target, serverUID, threadVars,
                     used>>
  BY <1>2 DEF ClientRuns, Numbered
<1>4. left' \in [client : 0 .. MaxClients, server : 0 .. MaxServers]
  BY <1>1
<1>5. TypeOK'
  <2>1. clientUID' \in 0 .. MaxClients /\ clientList' \subseteq 0 .. MaxClients - 1
    BY <1>2, <1>3
  <2>2. QED
    BY <1>3, <1>4, <2>1 DEF TypeOK, podVars, frontendVars, threadVars
<1>6. EmptyUnlessRunning' /\ Known' /\ Numbered'
  BY <1>2, <1>3 DEF EmptyUnlessRunning, Known, Numbered, podVars, frontendVars,
     ClientRuns
<1>7. Room' /\ Equipped'
  BY <1>1, <1>2, <1>3 DEF Room, Equipped, TypeOK, threadVars
<1>8. Places'
  BY <1>1, <1>3 DEF Places, threadVars
<1>9. QED
  BY <1>5, <1>6, <1>7, <1>8

\* The wait for a server's pod ends.
LEMMA ServerRunsIInv ==
  ASSUME IInv, ServerRuns
  PROVE  IInv'
<1> USE DriverAssumption DEF IInv, None
<1>1. TypeOK'
  BY PodNames, SMT DEF TypeOK, ServerRuns, podVars, frontendVars, nodeVars, threadVars, taskVars, driverVars
<1>2. EmptyUnlessRunning' /\ Known' /\ Numbered'
  BY PodNames, SMT DEF EmptyUnlessRunning, Known, Numbered, TypeOK, Places, Room, Idle,
     ServerRuns, podVars, frontendVars, nodeVars, threadVars, taskVars, driverVars
<1>3. Room' /\ Places' /\ Equipped'
  BY PodNames, SMT DEF Room, Places, Equipped, Numbered, TypeOK, Idle, ServerRuns, podVars, frontendVars, nodeVars, threadVars, taskVars, driverVars
<1>4. QED
  BY <1>1, <1>2, <1>3

\* A server is registered under the next id.
LEMMA JoinIInv ==
  ASSUME IInv, Join
  PROVE  IInv'
<1> USE DriverAssumption DEF IInv, None
<1>1. /\ left.server \in 1 .. MaxServers /\ left.client \in 0 .. MaxClients
      /\ left' = [client |-> left.client, server |-> left.server - 1]
  BY DEF Join, TypeOK, Places
<1>2. serverUID < MaxServers /\ serverUID \in Nat /\ MaxServers \in Nat
  BY <1>1 DEF Room, TypeOK
<1>3. /\ servers' = servers \cup {serverUID} /\ joined' = joined \cup {serverUID}
      /\ serverUID' = serverUID + 1 /\ pc = "join" /\ pc' = "add" /\ open
      /\ UNCHANGED <<phase, deleting, open, caller, target, clientUID, clientList,
                     threads, event, used>>
  BY DEF Join, podVars, threadVars
<1>4. left' \in [client : 0 .. MaxClients, server : 0 .. MaxServers]
  BY <1>1
<1>5. TypeOK'
  <2>1. serverUID' \in 0 .. MaxServers /\ serverUID \in ServerIds
    BY <1>2, <1>3 DEF ServerIds
  <2>2. QED
    BY <1>3, <1>4, <2>1 DEF TypeOK
<1>6. EmptyUnlessRunning' /\ Known' /\ Numbered'
  BY <1>2, <1>3 DEF EmptyUnlessRunning, Known, Numbered
<1>7. event # "add"
  BY <1>1 DEF Places
<1>8. Room' /\ Equipped'
  BY <1>1, <1>2, <1>3, <1>7 DEF Room, Equipped, TypeOK
<1>9. Places'
  BY <1>1, <1>3 DEF Places
<1>10. QED
  BY <1>5, <1>6, <1>8, <1>9

\* A deleted pod is gone.
LEMMA PodIsGoneIInv ==
  ASSUME IInv, PodIsGone
  PROVE  IInv'
<1> USE DriverAssumption DEF IInv, None
<1>1. TypeOK'
  BY PodNames, SMT DEF TypeOK, PodIsGone, Back, podVars, frontendVars, nodeVars, threadVars, taskVars, driverVars
<1>2. EmptyUnlessRunning' /\ Known' /\ Numbered'
  BY PodNames, SMT DEF EmptyUnlessRunning, Known, Numbered, TypeOK, Places, Room, Idle,
     PodIsGone, Back, podVars, frontendVars, nodeVars, threadVars, taskVars, driverVars
<1>3. Room' /\ Places' /\ Equipped'
  BY PodNames, SMT DEF Room, Places, Equipped, Numbered, TypeOK, Idle, PodIsGone, Back, podVars, frontendVars, nodeVars, threadVars, taskVars, driverVars
<1>4. QED
  BY <1>1, <1>2, <1>3

\* Thread 0 of a test adds a server.
LEMMA AddIInv ==
  ASSUME IInv, Add
  PROVE  IInv'
<1> USE DriverAssumption DEF IInv, None
<1>1. TypeOK'
  BY PodNames, SMT DEF TypeOK, Add, podVars, frontendVars, nodeVars, threadVars, taskVars, driverVars
<1>2. EmptyUnlessRunning' /\ Known' /\ Numbered'
  BY PodNames, SMT DEF EmptyUnlessRunning, Known, Numbered, TypeOK, Places, Room, Idle,
     Add, podVars, frontendVars, nodeVars, threadVars, taskVars, driverVars
<1>3. Room' /\ Places' /\ Equipped'
  BY PodNames, SMT DEF Room, Places, Equipped, Numbered, TypeOK, Idle, Add, podVars, frontendVars, nodeVars, threadVars, taskVars, driverVars
<1>4. QED
  BY <1>1, <1>2, <1>3

\* Thread 0 of a test shuts a server down.
LEMMA RemoveIInv ==
  ASSUME IInv, Remove
  PROVE  IInv'
<1> USE DriverAssumption DEF IInv, None
<1>1. TypeOK'
  BY PodNames, SMT DEF TypeOK, Remove, Unregister, podVars, frontendVars, nodeVars, threadVars, taskVars, driverVars
<1>2. EmptyUnlessRunning' /\ Known' /\ Numbered'
  BY PodNames, SMT DEF EmptyUnlessRunning, Known, Numbered, TypeOK, Places, Room, Idle,
     Remove, Unregister, podVars, frontendVars, nodeVars, threadVars, taskVars, driverVars
<1>3. Room' /\ Places' /\ Equipped'
  BY PodNames, SMT DEF Room, Places, Equipped, Numbered, TypeOK, Idle, Remove, Unregister, podVars, frontendVars, nodeVars, threadVars, taskVars, driverVars
<1>4. QED
  BY <1>1, <1>2, <1>3

\* A test is over.
LEMMA TestEndsIInv ==
  ASSUME IInv, TestEnds
  PROVE  IInv'
<1> USE DriverAssumption DEF IInv, None
<1>1. TypeOK'
  BY PodNames, SMT DEF TypeOK, TestEnds, podVars, frontendVars, nodeVars, threadVars, taskVars, driverVars
<1>2. EmptyUnlessRunning' /\ Known' /\ Numbered'
  BY PodNames, SMT DEF EmptyUnlessRunning, Known, Numbered, TypeOK, Places, Room, Idle,
     TestEnds, podVars, frontendVars, nodeVars, threadVars, taskVars, driverVars
<1>3. Room' /\ Places' /\ Equipped'
  BY PodNames, SMT DEF Room, Places, Equipped, Numbered, TypeOK, Idle, TestEnds, podVars, frontendVars, nodeVars, threadVars, taskVars, driverVars
<1>4. QED
  BY <1>1, <1>2, <1>3

\* A call of addServer that raises.
LEMMA JoinRaisesIInv ==
  ASSUME IInv, JoinRaises
  PROVE  IInv'
<1>1. used' \in [runs : Nat, commands : Nat, failures : Nat, faults : Nat]
  BY DEF IInv, TypeOK, JoinRaises, Use
<1>2. /\ RaiseAs(caller) /\ pc = "join" /\ UNCHANGED <<podVars, frontendVars>>
      /\ caller = "worker" => left.client = 0
  BY DEF JoinRaises, Raise, IInv, Places
<1>3. QED
  BY <1>1, <1>2, RaiseIInv

\* A server's pod is deleted, by the user or in a test, or there is none.
LEMMA DeleteIInv ==
  ASSUME IInv, NEW i \in ServerIds, NEW who \in {"command", "worker"},
         Delete(i, who), UNCHANGED frontendVars,
         used' \in [runs : Nat, commands : Nat, failures : Nat, faults : Nat],
         \/ who = "command" /\ pc = "prompt"
         \/ who = "worker" /\ pc = "test"
  PROVE  IInv'
<1>1. left = None
  BY DEF IInv, Places
<1>2. CASE phase[Server(i)] = "none"
  <2>1. RaiseAs(who) /\ UNCHANGED podVars
    BY <1>2 DEF Delete
  <2>2. who = "worker" => caller \in {"test", "worker"} /\ left.client = 0
    BY <1>1 DEF IInv, Places, None
  <2>3. QED
    BY <2>1, <2>2, RaiseIInv
<1>3. CASE phase[Server(i)] # "none"
  <2> USE DriverAssumption DEF IInv, None
  <2>1. /\ deleting' = deleting \cup {Server(i)}
        /\ pc' = "gone" /\ caller' = who /\ target' = Server(i) /\ event' = "none"
        /\ UNCHANGED <<phase, left, nodeVars, threads>>
    BY <1>3 DEF Delete
  <2>2. who = "worker" => caller = "test"
    BY DEF Places
  <2>3. TypeOK'
    BY <2>1, PodNames DEF TypeOK, nodeVars, frontendVars
  <2>4. EmptyUnlessRunning' /\ Known' /\ Numbered'
    BY <2>1 DEF EmptyUnlessRunning, Known, Numbered, nodeVars, frontendVars
  <2>5. Room' /\ Equipped'
    BY <2>1, <2>2 DEF Room, Equipped, nodeVars
  <2>6. Places'
    BY <1>1, <2>1 DEF Places
  <2>7. QED
    BY <2>3, <2>4, <2>5, <2>6
<1>4. QED
  BY <1>2, <1>3

\* The driver starts: the pod of the frontend is new, or the call for it fails.
LEMMA StartIInv ==
  ASSUME IInv, NEW c \in 0 .. MaxClients, NEW n \in 0 .. MaxServers, Start(c, n)
  PROVE  IInv'
<1> USE DriverAssumption DEF IInv, None
<1>1. used' \in [runs : Nat, commands : Nat, failures : Nat, faults : Nat]
  BY DEF TypeOK, Start, Use
<1>2. Idle /\ UNCHANGED <<deleting, frontendVars, caller, nodeVars, threadVars>>
  BY DEF Start, Places
<1>3. CASE phase[Frontend] = "none"
  <2>1. /\ phase' = [phase EXCEPT ![Frontend] = "Pending"]
        /\ pc' = "running" /\ target' = Frontend
        /\ left' = [client |-> c, server |-> n]
    BY <1>3 DEF Start
  <2>2. TypeOK'
    BY <1>1, <1>2, <2>1, PodNames DEF TypeOK, frontendVars, nodeVars, threadVars
  <2>3. servers = {} /\ joined = {} /\ ~open
    BY <1>3 DEF EmptyUnlessRunning
  <2>4. EmptyUnlessRunning' /\ Known' /\ Numbered'
    BY <1>2, <2>1, <2>3 DEF EmptyUnlessRunning, Known, Numbered, frontendVars, nodeVars
  <2>5. Room' /\ Equipped'
    BY <1>2, <2>1 DEF Room, Equipped, Idle, nodeVars, threadVars
  <2>6. Places'
    BY <1>2, <2>1, PodNames DEF Places, Idle, threadVars
  <2>7. QED
    BY <2>2, <2>4, <2>5, <2>6
<1>4. CASE phase[Frontend] # "none"
  <2>1. UNCHANGED <<phase, pc, target, left>>
    BY <1>4 DEF Start
  <2>2. QED
    BY <1>1, <1>2, <2>1 DEF TypeOK, EmptyUnlessRunning, Known, Numbered, Room, Places,
       Equipped, Idle, frontendVars, nodeVars, threadVars
<1>5. QED
  BY <1>3, <1>4

\* A client or a server is added by a command.
LEMMA AddNodeIInv ==
  ASSUME IInv, NEW kind \in {"client", "server"}, AddNode(kind)
  PROVE  IInv'
<1> USE DriverAssumption DEF IInv, None
<1>1. /\ used' \in [runs : Nat, commands : Nat, failures : Nat, faults : Nat]
      /\ pc = "prompt" /\ pc' = "add" /\ caller' = "command" /\ event = "none"
      /\ UNCHANGED <<podVars, frontendVars, target, nodeVars, threadVars>>
  BY DEF AddNode, Command, Use, TypeOK, Places
<1>2. \/ left' = [client |-> 1, server |-> 0] /\ clientUID < MaxClients
      \/ left' = [client |-> 0, server |-> 1] /\ serverUID < MaxServers
  BY DEF AddNode
<1>3. left' \in [client : 0 .. MaxClients, server : 0 .. MaxServers]
  BY <1>2 DEF TypeOK
<1>4. TypeOK'
  BY <1>1, <1>3 DEF TypeOK, podVars, frontendVars, nodeVars, threadVars
<1>5. EmptyUnlessRunning' /\ Known' /\ Numbered'
  BY <1>1 DEF EmptyUnlessRunning, Known, Numbered, podVars, frontendVars, nodeVars
<1>6. Room' /\ Equipped'
  BY <1>1, <1>2 DEF Room, Equipped, TypeOK, nodeVars, threadVars
<1>7. Places'
  BY <1>1 DEF Places, threadVars
<1>8. QED
  BY <1>4, <1>5, <1>6, <1>7

\* A test adds the clients its threads lack.
LEMMA TestKVSIInv ==
  ASSUME IInv, NEW n \in 1 .. MaxThreads,
         NEW what \in {"none", "crash", "add", "remove"},
         what = "add" => serverUID < MaxServers, TestKVS(n, what)
  PROVE  IInv'
<1> USE DriverAssumption DEF IInv, None
<1>1. /\ used' \in [runs : Nat, commands : Nat, failures : Nat, faults : Nat]
      /\ pc' = "add" /\ caller' = "test" /\ threads' = n /\ event' = what
      /\ pc = "prompt"
      /\ UNCHANGED <<podVars, frontendVars, target, nodeVars>>
  BY DEF TestKVS, Command, Use, TypeOK
<1>2. Cardinality(clientList) = clientUID
  BY FS_Interval DEF Numbered, TypeOK
<1>3. left' = [client |-> IF clientUID < n THEN n - clientUID ELSE 0, server |-> 0]
  BY <1>2 DEF TestKVS
<1>4. /\ clientUID \in 0 .. MaxClients /\ serverUID \in 0 .. MaxServers
      /\ n \in 0 .. MaxClients
  BY DEF TypeOK
<1>5. left' \in [client : 0 .. MaxClients, server : 0 .. MaxServers]
  BY <1>3, <1>4
<1>6. TypeOK'
  BY <1>1, <1>5 DEF TypeOK, podVars, frontendVars, nodeVars
<1>7. EmptyUnlessRunning' /\ Known' /\ Numbered'
  BY <1>1 DEF EmptyUnlessRunning, Known, Numbered, podVars, frontendVars, nodeVars
<1>8. Room' /\ Equipped'
  BY <1>1, <1>3, <1>4 DEF Room, Equipped, nodeVars
<1>9. Places'
  BY <1>1, <1>3 DEF Places
<1>10. QED
  BY <1>6, <1>7, <1>8, <1>9

\* Steps that only change the pods or the frontend.
LEMMA OutsideIInv ==
  ASSUME IInv, UNCHANGED driverVars,
         phase' \in [Pods -> {"none", "Pending", "Running", "Failed"}],
         deleting' \subseteq Pods, open' \in BOOLEAN,
         servers' \subseteq servers, joined' \subseteq joined,
         servers' \subseteq joined', EmptyUnlessRunning',
         used' \in [runs : Nat, commands : Nat, failures : Nat, faults : Nat]
  PROVE  IInv'
<1> USE DEF IInv, driverVars, taskVars, nodeVars, threadVars
<1>1. TypeOK'
  BY DEF TypeOK
<1>2. Known' /\ Numbered' /\ Room' /\ Equipped'
  BY DEF Known, Numbered, Room, Equipped
<1>3. Places'
  BY DEF Places, Idle
<1>4. QED
  BY <1>1, <1>2, <1>3

\* What the frontend's process, its heartbeat and Kubernetes do.
LEMMA EnvironmentIInv ==
  ASSUME IInv,
         \/ FrontendOpens \/ DeletePods
         \/ \E i \in ServerIds : HeartBeat(i) \/ ShutdownServer(i)
         \/ \E q \in Pods : PodStep(q) \/ PodFails(q)
  PROVE  IInv'
<1> USE PodNames DEF IInv
<1>1. CASE FrontendOpens
  <2>1. /\ open' = TRUE /\ phase[Frontend] = "Running"
        /\ UNCHANGED <<phase, deleting, servers, joined, driverVars, used>>
    BY <1>1 DEF FrontendOpens, podVars
  <2>2. EmptyUnlessRunning'
    BY <2>1 DEF EmptyUnlessRunning
  <2>3. QED
    BY <2>1, <2>2, OutsideIInv DEF TypeOK, Known
<1>2. CASE DeletePods
  <2>1. deleting' \subseteq Pods /\ UNCHANGED <<phase, open, servers, joined, driverVars, used>>
    BY <1>2 DEF DeletePods, frontendVars
  <2>2. EmptyUnlessRunning'
    BY <2>1 DEF EmptyUnlessRunning
  <2>3. QED
    BY <2>1, <2>2, OutsideIInv DEF TypeOK, Known
<1>3. ASSUME NEW i \in ServerIds, HeartBeat(i) \/ ShutdownServer(i) PROVE IInv'
  <2>1. /\ servers' \subseteq servers
        /\ UNCHANGED <<phase, deleting, open, joined, driverVars>>
    BY <1>3 DEF HeartBeat, ShutdownServer, Unregister, podVars
  <2>2. used' \in [runs : Nat, commands : Nat, failures : Nat, faults : Nat]
    BY <1>3 DEF HeartBeat, ShutdownServer, Command, Use, TypeOK
  <2>3. EmptyUnlessRunning'
    BY <2>1 DEF EmptyUnlessRunning
  <2>4. QED
    BY <2>1, <2>2, <2>3, OutsideIInv DEF TypeOK, Known
<1>4. ASSUME NEW q \in Pods, PodStep(q) \/ PodFails(q) PROVE IInv'
  <2>1. /\ phase' \in [Pods -> {"none", "Pending", "Running", "Failed"}]
        /\ deleting' \subseteq Pods
        /\ UNCHANGED driverVars
    BY <1>4 DEF PodStep, PodRuns, PodGoes, PodFails, TypeOK
  <2>2. used' \in [runs : Nat, commands : Nat, failures : Nat, faults : Nat]
    BY <1>4 DEF PodStep, PodRuns, PodGoes, PodFails, Use, TypeOK
  <2>3. \/ UNCHANGED frontendVars /\ (q = Frontend => PodRuns(q))
        \/ q = Frontend /\ open' = FALSE /\ servers' = {} /\ joined' = {}
    BY <1>4 DEF PodStep, PodRuns, PodGoes, PodFails, FrontendEnds
  <2>4. /\ open' \in BOOLEAN /\ servers' \subseteq servers /\ joined' \subseteq joined
        /\ servers' \subseteq joined'
    BY <2>3 DEF frontendVars, TypeOK, Known
  <2>5. EmptyUnlessRunning'
    <3>1. CASE q = Frontend /\ open' = FALSE /\ servers' = {} /\ joined' = {}
      BY <3>1 DEF EmptyUnlessRunning
    <3>2. CASE UNCHANGED frontendVars /\ q = Frontend /\ PodRuns(q)
      BY <3>2 DEF EmptyUnlessRunning, PodRuns, TypeOK
    <3>3. CASE UNCHANGED frontendVars /\ q # Frontend
      <4>1. phase'[Frontend] = phase[Frontend]
        BY <1>4, <3>3 DEF PodStep, PodRuns, PodGoes, PodFails, TypeOK
      <4>2. QED
        BY <3>3, <4>1 DEF EmptyUnlessRunning, frontendVars
    <3>4. QED
      BY <2>3, <3>1, <3>2, <3>3
  <2>6. QED
    BY <2>1, <2>2, <2>4, <2>5, OutsideIInv
<1>5. QED
  BY <1>1, <1>2, <1>3, <1>4

\* A thread of the driver takes a step.
LEMMA DriverIInv ==
  ASSUME IInv, DriverStep
  PROVE  IInv'
<1> USE PodNames, DriverAssumption DEF IInv
<1>1. CASE AddClientPod
  <2>1. clientUID \in 0 .. MaxClients - 1
    BY <1>1 DEF AddClientPod, Room, TypeOK
  <2>2. Client(clientUID)[1] # "server"
    BY <2>1
  <2>3. QED
    BY <1>1, <2>1, <2>2, CreateIInv DEF AddClientPod
<1>2. CASE AddServerPod
  <2>1. serverUID \in ServerIds
    BY <1>2 DEF AddServerPod, Room, TypeOK, ServerIds
  <2>2. Server(serverUID)[1] # "client"
    BY <2>1
  <2>3. QED
    BY <1>2, <2>1, <2>2, CreateIInv DEF AddServerPod
<1>3. CASE Crash
  <2>1. 0 \in ServerIds
    BY DEF ServerIds
  <2>2. used' \in [runs : Nat, commands : Nat, failures : Nat, faults : Nat]
    BY <1>3 DEF Crash, TypeOK
  <2>3. QED
    BY <1>3, <2>1, <2>2, DeleteIInv DEF Crash
<1>4. QED
  BY <1>1, <1>2, <1>3, AddDoneIInv, FrontendRunsIInv, ClientRunsIInv, ServerRunsIInv,
     JoinIInv, JoinRaisesIInv, PodIsGoneIInv, AddIInv, RemoveIInv, TestEndsIInv
  DEF DriverStep

\* The user gives a command, starts or ends the driver, or deletes the pods.
LEMMA UserIInv ==
  ASSUME IInv, UserStep
  PROVE  IInv'
<1>1. ASSUME NEW i \in ServerIds, KillServer(i) PROVE IInv'
  <2>1. used' \in [runs : Nat, commands : Nat, failures : Nat, faults : Nat]
    BY <1>1 DEF KillServer, Command, Use, IInv, TypeOK
  <2>2. QED
    BY <1>1, <2>1, DeleteIInv DEF KillServer, Command
<1>2. CASE CommandRaises \/ Terminate
  <2>1. used' \in [runs : Nat, commands : Nat, failures : Nat, faults : Nat]
    BY <1>2 DEF CommandRaises, Terminate, Command, Use, IInv, TypeOK
  <2>2. QED
    BY <1>2, <2>1, ExitIInv DEF CommandRaises, Terminate
<1>3. QED
  BY <1>1, <1>2, StartIInv, AddNodeIInv, TestKVSIInv, EnvironmentIInv DEF UserStep

\* The invariant is inductive.
LEMMA NextIInv == IInv /\ [Next]_vars => IInv'
<1>1. ASSUME IInv, Next PROVE IInv'
  BY <1>1, DriverIInv, UserIInv, EnvironmentIInv DEF Next
<1>2. ASSUME IInv, UNCHANGED vars PROVE IInv'
  BY <1>2, OutsideIInv DEF IInv, vars, podVars, frontendVars, TypeOK, Known,
     EmptyUnlessRunning
<1>3. QED
  BY <1>1, <1>2

LEMMA Invariance == Spec => []IInv
BY InitIInv, NextIInv, PTL DEF Spec

-----------------------------------------------------------------------------
(* The properties *)

\* Ids, lists and phases stay within their types, for every bound.
THEOREM TypeCorrect == Spec => []TypeOK
<1>1. IInv => TypeOK
  BY DEF IInv
<1>2. QED
  BY <1>1, Invariance, PTL

\* Every thread of testKVS finds a client pod of its number, however many
\* clients commands and earlier tests have started.
THEOREM ClientsForThreads == Spec => []ThreadsHaveClients
<1>1. IInv => ThreadsHaveClients
  <2> SUFFICES ASSUME IInv, pc = "test", NEW i \in 0 .. threads - 1
               PROVE  i \in clientList
    BY DEF ThreadsHaveClients
  <2>1. threads <= clientUID /\ clientUID \in Nat /\ threads \in Nat
    BY DriverAssumption DEF IInv, Places, Equipped, None, TypeOK
  <2>2. QED
    BY <2>1 DEF IInv, Numbered
<1>2. QED
  BY <1>1, Invariance, PTL

\* The frontend meets no id twice, over every restart of the driver and of the
\* frontend and after every failed addServer.
THEOREM FreshIds == Spec => IdsAreFresh
<1> DEFINE Fresh == \A i \in servers' \ servers : i \notin joined
<1>1. ASSUME IInv, [Next]_vars PROVE [Fresh]_vars
  <2> SUFFICES ASSUME Next, NEW i \in servers' \ servers PROVE i \notin joined
    BY <1>1
  <2>1. Join
    BY DEF Next, DriverStep, UserStep, AddClientPod, AddServerPod, AddDone,
       FrontendRuns, ClientRuns, ServerRuns, JoinRaises, PodIsGone, Crash, Add,
       Remove, TestEnds, Start, AddNode, KillServer, ShutdownServer, Unregister,
       TestKVS, CommandRaises, Terminate, DeletePods, FrontendOpens, PodStep,
       PodRuns, PodGoes, PodFails, FrontendEnds, HeartBeat, frontendVars
  <2>2. i = serverUID /\ pc # "off"
    BY <2>1 DEF Join
  <2>3. joined \subseteq 0 .. serverUID - 1 /\ serverUID \in Nat
    BY <1>1, <2>2 DEF IInv, Known, TypeOK
  <2>4. QED
    BY <2>2, <2>3
<1>2. QED
  BY <1>1, Invariance, PTL DEF Spec, IdsAreFresh

-----------------------------------------------------------------------------
(* What the driver waits for *)

\* A deletion is over when its pod is gone.
Doomed == \A p \in deleting : phase[p] # "none"

Waits == IInv /\ Doomed /\ WaitsHaveCause

\* Steps after which nothing is waited for, and steps that leave the pods and
\* what is waited for alone.
LEMMA PodsStay ==
  ASSUME Waits, UNCHANGED podVars,
         pc' \notin {"running", "gone"} \/ UNCHANGED <<pc, target>>
  PROVE  Doomed' /\ WaitsHaveCause'
BY DEF Waits, Doomed, WaitsHaveCause, podVars

\* An exception, or the end of a command, ends the wait.
LEMMA RaiseWaits ==
  ASSUME Waits, NEW who, RaiseAs(who), UNCHANGED podVars
  PROVE  Doomed' /\ WaitsHaveCause'
BY PodsStay DEF RaiseAs, Exit

LEMMA CreateWaits ==
  ASSUME Waits, NEW p \in Pods, Create(p)
  PROVE  Doomed' /\ WaitsHaveCause'
<1>1. CASE phase[p] = "none"
  <2>1. /\ phase' = [phase EXCEPT ![p] = "Pending"] /\ pc' = "running" /\ target' = p
        /\ UNCHANGED deleting
    BY <1>1 DEF Create
  <2>2. p \notin deleting /\ phase'[p] = "Pending"
    BY <1>1, <2>1 DEF Waits, Doomed, IInv, TypeOK
  <2>3. QED
    BY <2>1, <2>2 DEF Waits, Doomed, WaitsHaveCause, IInv, TypeOK
<1>2. CASE phase[p] # "none"
  BY <1>2, RaiseWaits DEF Create, Raise
<1>3. QED
  BY <1>1, <1>2

LEMMA DeleteWaits ==
  ASSUME Waits, NEW i \in ServerIds, NEW who, Delete(i, who)
  PROVE  Doomed' /\ WaitsHaveCause'
<1>1. CASE phase[Server(i)] # "none"
  BY <1>1 DEF Delete, Waits, Doomed, WaitsHaveCause
<1>2. CASE phase[Server(i)] = "none"
  BY <1>2, RaiseWaits DEF Delete
<1>3. QED
  BY <1>1, <1>2

LEMMA DriverWaits ==
  ASSUME Waits, DriverStep
  PROVE  Doomed' /\ WaitsHaveCause'
<1>1. CASE AddClientPod
  <2>1. Client(clientUID) \in Pods
    BY <1>1, PodNames, DriverAssumption DEF AddClientPod, Waits, IInv, Room, TypeOK
  <2>2. QED
    BY <1>1, <2>1, CreateWaits DEF AddClientPod
<1>2. CASE AddServerPod
  <2>1. Server(serverUID) \in Pods
    BY <1>2, PodNames, DriverAssumption
       DEF AddServerPod, Waits, IInv, Room, TypeOK, ServerIds
  <2>2. QED
    BY <1>2, <2>1, CreateWaits DEF AddServerPod
<1>3. CASE AddDone \/ PodIsGone
  BY <1>3, PodsStay DEF AddDone, PodIsGone, Back
<1>4. CASE FrontendRuns \/ ClientRuns \/ ServerRuns \/ Join
  BY <1>4, PodsStay DEF FrontendRuns, ClientRuns, ServerRuns, Join
<1>5. CASE JoinRaises
  BY <1>5, RaiseWaits DEF JoinRaises, Raise
<1>6. CASE Crash
  <2>1. 0 \in ServerIds
    BY DriverAssumption DEF ServerIds
  <2>2. QED
    BY <1>6, <2>1, DeleteWaits DEF Crash
<1>7. CASE Add \/ Remove \/ TestEnds
  BY <1>7, PodsStay DEF Add, Remove, TestEnds
<1>8. QED
  BY <1>1, <1>2, <1>3, <1>4, <1>5, <1>6, <1>7 DEF DriverStep

LEMMA UserWaits ==
  ASSUME Waits, UserStep
  PROVE  Doomed' /\ WaitsHaveCause'
<1>1. ASSUME NEW c, NEW n, Start(c, n) PROVE Doomed' /\ WaitsHaveCause'
  <2>1. CASE UNCHANGED <<phase, pc, target, left>>
    BY <1>1, <2>1, PodsStay DEF Start, podVars
  <2>2. CASE /\ phase[Frontend] = "none"
             /\ phase' = [phase EXCEPT ![Frontend] = "Pending"]
             /\ pc' = "running" /\ target' = Frontend
    <3>1. Frontend \notin deleting /\ phase'[Frontend] = "Pending" /\ UNCHANGED deleting
      BY <1>1, <2>2, PodNames DEF Start, Waits, Doomed, IInv, TypeOK
    <3>2. QED
      BY <2>2, <3>1 DEF Waits, Doomed, WaitsHaveCause, IInv, TypeOK
  <2>3. QED
    BY <1>1, <2>1, <2>2 DEF Start
<1>2. ASSUME NEW kind, AddNode(kind) PROVE Doomed' /\ WaitsHaveCause'
  BY <1>2, PodsStay DEF AddNode
<1>3. ASSUME NEW i \in ServerIds, KillServer(i) \/ ShutdownServer(i)
      PROVE  Doomed' /\ WaitsHaveCause'
  BY <1>3, DeleteWaits, PodsStay DEF KillServer, ShutdownServer, driverVars, taskVars
<1>4. ASSUME NEW n, NEW what, TestKVS(n, what) PROVE Doomed' /\ WaitsHaveCause'
  BY <1>4, PodsStay DEF TestKVS
<1>5. CASE CommandRaises \/ Terminate
  BY <1>5, PodsStay DEF CommandRaises, Terminate, Exit
<1>6. CASE DeletePods
  BY <1>6 DEF DeletePods, Doomed, WaitsHaveCause, driverVars
<1>7. QED
  BY <1>1, <1>2, <1>3, <1>4, <1>5, <1>6 DEF UserStep

\* Kubernetes moves pods from phase to phase, and forgets deleted ones.
LEMMA PodWaits ==
  ASSUME Waits, NEW p \in Pods, PodStep(p) \/ PodFails(p)
  PROVE  Doomed' /\ WaitsHaveCause'
<1>0. UNCHANGED <<pc, target>> /\ phase \in [Pods -> {"none", "Pending", "Running", "Failed"}]
      /\ deleting \subseteq Pods /\ target \in Pods
  BY DEF PodStep, PodRuns, PodGoes, PodFails, driverVars, taskVars, Waits, IInv, TypeOK
<1>1. CASE PodGoes(p)
  BY <1>0, <1>1 DEF PodGoes, Waits, Doomed, WaitsHaveCause
<1>2. CASE PodRuns(p) \/ PodFails(p)
  <2>1. \E new \in {"Running", "Failed"} : phase' = [phase EXCEPT ![p] = new]
    BY <1>2 DEF PodRuns, PodFails
  <2>2. UNCHANGED deleting /\ phase[p] # "none"
    BY <1>2 DEF PodRuns, PodFails
  <2>3. \A x \in Pods : phase'[x] = "none" <=> phase[x] = "none"
    BY <1>0, <2>1, <2>2
  <2>4. QED
    BY <1>0, <2>2, <2>3 DEF Waits, Doomed, WaitsHaveCause
<1>3. QED
  BY <1>1, <1>2 DEF PodStep

LEMMA NextWaits == Waits /\ [Next]_vars => Waits'
<1> SUFFICES ASSUME Waits, [Next]_vars PROVE Waits'
  OBVIOUS
<1>1. ASSUME FrontendOpens \/ UNCHANGED vars \/ \E i \in ServerIds : HeartBeat(i)
      PROVE  Doomed' /\ WaitsHaveCause'
  <2>1. UNCHANGED podVars /\ UNCHANGED <<pc, target>>
    BY <1>1 DEF FrontendOpens, HeartBeat, vars, driverVars, taskVars
  <2>2. QED
    BY <2>1, PodsStay
<1>2. Doomed' /\ WaitsHaveCause'
  BY <1>1, DriverWaits, UserWaits, PodWaits DEF Next
<1>3. QED
  BY <1>2, NextIInv DEF Waits

\* The driver never polls for what cannot come, unless a pod has ended first:
\* over every restart above old pods, and after every failed command.
THEOREM WaitsAreWarranted == Spec => []WaitsHaveCause
<1>1. Init => Waits
  BY InitIInv DEF Init, Idle, Waits, Doomed, WaitsHaveCause
<1>2. Waits => WaitsHaveCause
  BY DEF Waits
<1>3. QED
  BY <1>1, <1>2, NextWaits, PTL DEF Spec
=============================================================================
