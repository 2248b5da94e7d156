-------------------------------- MODULE Driver --------------------------------
(* run_cluster.py and the pods it manages: init_cluster, the commands of       *)
(* event_trigger that create and delete pods, and the thread of testKVS that   *)
(* does so half-way through a test.                                            *)
(*                                                                             *)
(* Kubernetes is seen through the calls the driver makes: creating a pod whose *)
(* name is taken and deleting one that does not exist raise, a deleted pod     *)
(* stays listed with its old phase until it is gone, and a pod that ended is   *)
(* not started again (restartPolicy: Never).  The frontend is reduced to the   *)
(* list of servers that Cluster describes in full.                             *)
EXTENDS Integers, FiniteSets

CONSTANTS
  MaxClients, MaxServers,   \* bound: ids handed out by one run of the driver
  MaxThreads,               \* bound: num_threads of testKVS
  MaxRuns,                  \* bound: times the driver is started
  MaxCommands,              \* bound: commands given
  MaxFailures,              \* bound: pods that end on their own
  MaxFaults                 \* bound: addServer calls the frontend fails

ASSUME DriverAssumption ==
  /\ MaxClients \in Nat /\ MaxServers \in Nat \ {0} /\ MaxThreads \in 0 .. MaxClients
  /\ MaxRuns \in Nat /\ MaxCommands \in Nat
  /\ MaxFailures \in Nat /\ MaxFaults \in Nat

Frontend == <<"frontend", 0>>
Client(i) == <<"client", i>>
Server(i) == <<"server", i>>
ServerIds == 0 .. MaxServers - 1
Pods == {Frontend} \cup {Client(i) : i \in 0 .. MaxClients - 1}
                   \cup {Server(i) : i \in ServerIds}

VARIABLES
  phase,       \* phase[p]: "none", "Pending", "Running" or "Failed"
  deleting,    \* pods with a deletion under way
  open,        \* the frontend's JVM answers on its port
  servers,     \* ServersList.servers
  pc,          \* "off" (no driver runs), "add" (head of the loop of add_nodes),
               \* "running", "gone" (in check_wait_pod_status), "join" (calls
               \* frontend.addServer), "prompt" or "test" (the pool of testKVS)
  caller,      \* whose add_nodes or remove_node it is: "init", "command",
               \* "test" (testKVS itself) or "worker" (a thread of its pool)
  target,      \* the pod waited for
  left,        \* clients and servers still to add
  clientUID, serverUID, clientList,
  threads,     \* num_threads of the test
  event,       \* what thread 0 of the pool has still to do
  joined,      \* history: ids ever registered at this frontend
  used         \* how much of each bound is used

podVars == <<phase, deleting>>
frontendVars == <<open, servers, joined>>
nodeVars == <<clientUID, serverUID, clientList>>
threadVars == <<threads, event>>
taskVars == <<caller, target, left>>
driverVars == <<pc, taskVars, nodeVars, threadVars>>
vars == <<podVars, frontendVars, driverVars, used>>

None == [client |-> 0, server |-> 0]
Use(what, max) == used[what] < max /\ used' = [used EXCEPT ![what] = @ + 1]

-----------------------------------------------------------------------------
(* Exceptions.  Nothing in the script catches one: it ends the driver, except *)
(* in a thread of the pool, whose future nobody looks at.                     *)

Idle ==
  /\ pc = "off" /\ caller = "init" /\ target = Frontend /\ left = None
  /\ clientUID = 0 /\ serverUID = 0 /\ clientList = {}
  /\ threads = 0 /\ event = "none"

\* The process is gone and its globals with it; the pods stay.
Exit ==
  /\ pc' = "off" /\ caller' = "init" /\ target' = Frontend /\ left' = None
  /\ clientUID' = 0 /\ serverUID' = 0 /\ clientList' = {}
  /\ threads' = 0 /\ event' = "none"

RaiseAs(who) ==
  \/ who # "worker" /\ Exit
  \/ /\ who = "worker"
     /\ pc' = "test"
     /\ caller' = "test" /\ target' = Frontend /\ left' = None
     /\ event' = "none"
     /\ UNCHANGED <<nodeVars, threads>>

Raise == RaiseAs(caller)

\* A command, or the event of thread 0, is over.
Back(who) ==
  /\ pc' = IF who \in {"test", "worker"} THEN "test" ELSE "prompt"
  /\ caller' = IF who = "worker" THEN "test" ELSE who
  /\ target' = Frontend /\ left' = None

-----------------------------------------------------------------------------
(* shared/util.py and the Kubernetes calls                                   *)

\* Mutant of StatusReached: a selector that matches no pod is waited for.
StatusReachedOnPod(p, status) == phase[p] = status

\* check_wait_pod_status ends as soon as no pod of the selector has another
\* phase, also because no pod is left.
StatusReached(p, status) == phase[p] \in {"none", status}

\* Mutant of Create: a pod whose name is taken is waited for like a new one.
CreateIgnoresConflict(p) ==
  /\ phase' = [phase EXCEPT ![p] = IF @ = "none" THEN "Pending" ELSE @]
  /\ pc' = "running" /\ target' = p
  /\ UNCHANGED <<deleting, caller, left, nodeVars, threadVars>>

Create(p) ==
  \/ /\ phase[p] = "none"
     /\ phase' = [phase EXCEPT ![p] = "Pending"]
     /\ pc' = "running" /\ target' = p
     /\ UNCHANGED <<deleting, caller, left, nodeVars, threadVars>>
  \/ /\ phase[p] # "none"   \* 409 Conflict
     /\ Raise
     /\ UNCHANGED podVars

\* remove_node of a server.
Delete(i, who) ==
  \/ /\ phase[Server(i)] # "none"
     /\ deleting' = deleting \cup {Server(i)}
     /\ pc' = "gone" /\ caller' = who /\ target' = Server(i)
     /\ event' = "none"
     /\ UNCHANGED <<phase, left, nodeVars, threads>>
  \/ /\ phase[Server(i)] = "none"   \* 404 Not Found
     /\ RaiseAs(who)
     /\ UNCHANGED podVars

-----------------------------------------------------------------------------
(* add_nodes and remove_node                                                 *)

AddClientPod ==
  /\ pc = "add" /\ left.client > 0
  /\ Create(Client(clientUID))
  /\ UNCHANGED <<frontendVars, used>>

AddServerPod ==
  /\ pc = "add" /\ left.client = 0 /\ left.server > 0
  /\ Create(Server(serverUID))
  /\ UNCHANGED <<frontendVars, used>>

AddDone ==
  /\ pc = "add" /\ left = None
  /\ Back(caller)
  /\ UNCHANGED <<podVars, frontendVars, nodeVars, threadVars, used>>

FrontendRuns ==
  /\ pc = "running" /\ target = Frontend /\ StatusReached(target, "Running")
  /\ pc' = "add"
  /\ UNCHANGED <<podVars, frontendVars, taskVars, nodeVars, threadVars, used>>

\* Mutant of ClientRuns: the new client is not entered in clientList.
ClientRunsUnlisted ==
  /\ pc = "running" /\ target[1] = "client" /\ StatusReached(target, "Running")
  /\ clientUID' = clientUID + 1
  /\ left' = [left EXCEPT !.client = @ - 1]
  /\ pc' = "add"
  /\ UNCHANGED <<podVars, frontendVars, caller, target, clientList, serverUID,
                 threadVars, used>>

ClientRuns ==
  /\ pc = "running" /\ target[1] = "client" /\ StatusReached(target, "Running")
  /\ clientList' = clientList \cup {clientUID}
  /\ clientUID' = clientUID + 1
  /\ left' = [left EXCEPT !.client = @ - 1]
  /\ pc' = "add"
  /\ UNCHANGED <<podVars, frontendVars, caller, target, serverUID, threadVars,
                 used>>

ServerRuns ==
  /\ pc = "running" /\ target[1] = "server" /\ StatusReached(target, "Running")
  /\ pc' = "join"
  /\ UNCHANGED <<podVars, frontendVars, taskVars, nodeVars, threadVars, used>>

\* Mutant of Join: the id is not counted on.
JoinKeepsId ==
  /\ pc = "join" /\ open
  /\ servers' = servers \cup {serverUID}
  /\ joined' = joined \cup {serverUID}
  /\ left' = [left EXCEPT !.server = @ - 1]
  /\ pc' = "add"
  /\ UNCHANGED <<podVars, open, caller, target, nodeVars, threadVars, used>>

Join ==
  /\ pc = "join" /\ open
  /\ servers' = servers \cup {serverUID}
  /\ joined' = joined \cup {serverUID}
  /\ serverUID' = serverUID + 1
  /\ left' = [left EXCEPT !.server = @ - 1]
  /\ pc' = "add"
  /\ UNCHANGED <<podVars, open, caller, target, clientUID, clientList,
                 threadVars, used>>

\* The frontend does not answer yet, or its addServer gave up on a server.
JoinRaises ==
  /\ pc = "join"
  /\ \/ ~open /\ UNCHANGED used
     \/ open /\ Use("faults", MaxFaults)
  /\ Raise
  /\ UNCHANGED <<podVars, frontendVars>>

\* No pod has the phase "Terminating": the wait ends when the pod is gone.
PodIsGone ==
  /\ pc = "gone" /\ StatusReached(target, "Terminating")
  /\ Back(caller)
  /\ UNCHANGED <<podVars, frontendVars, nodeVars, threadVars, used>>

-----------------------------------------------------------------------------
(* main, init_cluster                                                        *)

\* Creating the frontend's pod is its first call.
Start(clients, n) ==
  /\ pc = "off" /\ Use("runs", MaxRuns)
  /\ \/ /\ phase[Frontend] = "none"
        /\ phase' = [phase EXCEPT ![Frontend] = "Pending"]
        /\ pc' = "running" /\ target' = Frontend
        /\ left' = [client |-> clients, server |-> n]
     \/ /\ phase[Frontend] # "none"
        /\ UNCHANGED <<phase, pc, target, left>>
  /\ UNCHANGED <<deleting, frontendVars, caller, nodeVars, threadVars>>

-----------------------------------------------------------------------------
(* event_trigger                                                             *)

Command == pc = "prompt" /\ Use("commands", MaxCommands)

\* addClient, addServer
AddNode(kind) ==
  /\ Command
  /\ IF kind = "client" THEN clientUID < MaxClients ELSE serverUID < MaxServers
  /\ pc' = "add" /\ caller' = "command" /\ left' = [None EXCEPT ![kind] = 1]
  /\ UNCHANGED <<podVars, frontendVars, target, nodeVars, threadVars>>

KillServer(i) ==
  /\ Command
  /\ Delete(i, "command")
  /\ UNCHANGED frontendVars

Live(i) == phase[Server(i)] = "Running" /\ Server(i) \notin deleting

\* frontend.shutdownServer: the answer to an unknown id is printed like others.
Unregister(i) ==
  /\ open /\ (i \notin servers \/ Live(i))
  /\ servers' = servers \ {i}
  /\ UNCHANGED <<open, joined>>

ShutdownServer(i) ==
  /\ Command
  /\ Unregister(i)
  /\ UNCHANGED <<podVars, driverVars>>

\* listServer, printKVPairs, put, get and shutdownServer change nothing when
\* they are answered.  They raise if the frontend or the chosen client pod does
\* not answer, if there is no client (random.choice of an empty list) or no
\* server (key % 0), and if the frontend gives up on a server.
CommandRaises ==
  /\ Command
  /\ \/ ~open \/ clientList = {} \/ servers = {}
     \/ \E i \in clientList : phase[Client(i)] # "Running"
     \/ \E i \in servers : ~Live(i)
  /\ Exit
  /\ UNCHANGED <<podVars, frontendVars>>

Terminate ==
  /\ pc = "prompt"
  /\ Exit
  /\ UNCHANGED <<podVars, frontendVars, used>>

-----------------------------------------------------------------------------
(* testKVS                                                                   *)

\* Mutant of TestKVS: clients there are too many of are subtracted.
TestKVSCountsDown(n, what) ==
  /\ Command
  /\ open
  /\ pc' = "add" /\ caller' = "test"
  /\ threads' = n /\ event' = what
  /\ left' = [client |-> n - Cardinality(clientList), server |-> 0]
  /\ UNCHANGED <<podVars, frontendVars, target, nodeVars>>

\* The list of servers is asked for, and clients are added up to num_threads.
TestKVS(n, what) ==
  /\ Command
  /\ open
  /\ pc' = "add" /\ caller' = "test"
  /\ threads' = n /\ event' = what
  /\ left' = [client |-> IF Cardinality(clientList) < n
                         THEN n - Cardinality(clientList) ELSE 0,
              server |-> 0]
  /\ UNCHANGED <<podVars, frontendVars, target, nodeVars>>

\* Thread 0 gets half-way through its requests.
Crash ==
  /\ pc = "test" /\ event = "crash"
  /\ Delete(0, "worker")
  /\ UNCHANGED <<frontendVars, used>>

Add ==
  /\ pc = "test" /\ event = "add"
  /\ pc' = "add" /\ caller' = "worker" /\ left' = [None EXCEPT !.server = 1]
  /\ event' = "none"
  /\ UNCHANGED <<podVars, frontendVars, target, nodeVars, threads, used>>

\* An exception of the call ends the thread and changes nothing else.
Remove ==
  /\ pc = "test" /\ event = "remove"
  /\ Unregister(0)
  /\ event' = "none"
  /\ UNCHANGED <<podVars, pc, taskVars, nodeVars, threads, used>>

\* All threads have ended, thread 0 perhaps before it was half-way.
TestEnds ==
  /\ pc = "test"
  /\ pc' = "prompt" /\ caller' = "command"
  /\ threads' = 0 /\ event' = "none"
  /\ UNCHANGED <<podVars, frontendVars, target, left, nodeVars, used>>

-----------------------------------------------------------------------------
(* Kubernetes, the JVM of the frontend and its heartbeat                     *)

PodRuns(p) ==
  /\ phase[p] = "Pending"
  /\ phase' = [phase EXCEPT ![p] = "Running"]
  /\ UNCHANGED <<deleting, frontendVars, driverVars, used>>

\* With its process a frontend loses the list of servers.
FrontendEnds(p) ==
  IF p = Frontend THEN open' = FALSE /\ servers' = {} /\ joined' = {}
  ELSE UNCHANGED frontendVars

PodFails(p) ==
  /\ phase[p] \in {"Pending", "Running"} /\ Use("failures", MaxFailures)
  /\ phase' = [phase EXCEPT ![p] = "Failed"]
  /\ FrontendEnds(p)
  /\ UNCHANGED <<deleting, driverVars>>

PodGoes(p) ==
  /\ p \in deleting
  /\ phase' = [phase EXCEPT ![p] = "none"]
  /\ deleting' = deleting \ {p}
  /\ FrontendEnds(p)
  /\ UNCHANGED <<driverVars, used>>

FrontendOpens ==
  /\ phase[Frontend] = "Running" /\ ~open
  /\ open' = TRUE
  /\ UNCHANGED <<podVars, servers, joined, driverVars, used>>

HeartBeat(i) ==
  /\ i \in servers /\ ~Live(i)
  /\ servers' = servers \ {i}
  /\ UNCHANGED <<podVars, open, joined, driverVars, used>>

\* scripts/delete_pods.sh, by hand between two runs of the driver.
DeletePods ==
  /\ pc = "off"
  /\ deleting' = {p \in Pods : phase[p] # "none"}
  /\ UNCHANGED <<phase, frontendVars, driverVars, used>>

-----------------------------------------------------------------------------

Init ==
  /\ phase = [p \in Pods |-> "none"] /\ deleting = {}
  /\ open = FALSE /\ servers = {} /\ joined = {}
  /\ Idle
  /\ used = [runs |-> 0, commands |-> 0, failures |-> 0, faults |-> 0]

DriverStep ==
  \/ AddClientPod \/ AddServerPod \/ AddDone
  \/ FrontendRuns \/ ClientRuns \/ ServerRuns
  \/ Join \/ JoinRaises \/ PodIsGone
  \/ Crash \/ Add \/ Remove \/ TestEnds

UserStep ==
  \/ \E c \in 0 .. MaxClients, n \in 0 .. MaxServers : Start(c, n)
  \/ \E kind \in {"client", "server"} : AddNode(kind)
  \/ \E i \in ServerIds : KillServer(i) \/ ShutdownServer(i)
  \/ \E n \in 1 .. MaxThreads, what \in {"none", "crash", "add", "remove"} :
       /\ what = "add" => serverUID < MaxServers
       /\ TestKVS(n, what)
  \/ CommandRaises \/ Terminate \/ DeletePods

PodStep(p) == PodRuns(p) \/ PodGoes(p)

Next ==
  \/ DriverStep \/ UserStep \/ FrontendOpens
  \/ \E p \in Pods : PodStep(p) \/ PodFails(p)
  \/ \E i \in ServerIds : HeartBeat(i)

Spec == Init /\ [][Next]_vars

\* The driver's threads run, those of a test to their end, and Kubernetes starts
\* pods that can start and removes those that are deleted.
FairSpec ==
  /\ Spec
  /\ WF_vars(DriverStep)
  /\ \A p \in Pods : WF_vars(PodStep(p))

-----------------------------------------------------------------------------
(* Properties *)

TypeOK ==
  /\ phase \in [Pods -> {"none", "Pending", "Running", "Failed"}]
  /\ deleting \subseteq Pods
  /\ open \in BOOLEAN
  /\ servers \subseteq ServerIds /\ joined \subseteq ServerIds
  /\ pc \in {"off", "add", "running", "gone", "join", "prompt", "test"}
  /\ caller \in {"init", "command", "test", "worker"}
  /\ target \in Pods
  /\ left \in [client : 0 .. MaxClients, server : 0 .. MaxServers]
  /\ clientUID \in 0 .. MaxClients /\ serverUID \in 0 .. MaxServers
  /\ clientList \subseteq 0 .. MaxClients - 1
  /\ threads \in 0 .. MaxThreads
  /\ event \in {"none", "crash", "add", "remove"}
  /\ used \in [runs : Nat, commands : Nat, failures : Nat, faults : Nat]

\* Every thread of a test has a client pod of its own number, whatever clients
\* were started before and however the driver was: clientList[thread_id] is
\* looked up without a test, and the KeyError would be lost in the pool.
ThreadsHaveClients ==
  pc = "test" => \A i \in 0 .. threads - 1 : i \in clientList

\* The frontend never meets an id twice, although pods fail to join, addServer
\* is given again after an error and the driver starts again counting from 0:
\* what Cluster assumes of its ids.
IdsAreFresh ==
  [][\A i \in servers' \ servers : i \notin joined]_vars

\* What the driver polls for is on its way: a pod it waits to see running was
\* created and is not being deleted, and one it waits to see gone is, although
\* pods outlive the driver that made them and keep their names until they are
\* gone.  The wait cannot tell: it would go on for ever.
WaitsHaveCause ==
  /\ pc = "running" => phase[target] # "none" /\ target \notin deleting
  /\ pc = "gone" => phase[target] = "none" \/ target \in deleting

\* The driver waits for no pod for ever, unless the pod has already ended: a
\* command that creates or deletes pods ends, with the prompt or with the driver.
\* Of a test the property takes for granted that its threads come to an end once
\* the events are through; Workload says when they do.
CommandsEnd ==
  pc \notin {"off", "prompt"}
    ~> \/ pc \in {"off", "prompt"}
       \/ pc = "running" /\ phase[target] = "Failed"

-----------------------------------------------------------------------------
(* What the docs of the repository say and the code does not do               *)

\* cluster.md: the event trigger "allows you to enter and execute kvs API
\* commands".  The name of the pod that addServer creates is not in use.
NamesAreFree ==
  pc = "add" /\ left.client = 0 /\ left.server > 0
    => phase[Server(serverUID)] = "none"
=============================================================================
