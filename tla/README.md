# TLA+ verification of the replicated key-value store

This directory specifies and checks the program under `src/project1`: the Java
servers and the Java frontend of a replicated key-value store, the clients and
the driver `run_cluster.py`, with kubespray's inventory builder beside them.
Paths below are relative to `src/project1`; the Java sources are named by their
class.

## The system

| Part | State it keeps | Operations | Talks to |
| --- | --- | --- | --- |
| Server, one JVM per id (`ServerRPCImpl`) | `data`, `isLocked`, the wait set of `canWriteLock` | put, get, printKVPairs, lock, unlock, sendValuesToServer, alive, shutdownServer | another server, during a transfer |
| Frontend (`FrontendRPCImpl`, `ServerLockUtil`, `ServersList`) | `servers` (a ConcurrentHashMap of stubs), the monitor `serversLock` | put, get, printKVPairs, addServer, listServer, shutdownServer; one thread per request | the servers, by XML-RPC |
| Routing (`ServerSelector`) | none | `select(key, servers)` | reads `servers` live |
| Heartbeat (`HeartBeat`) | the entry it is probing | probe, remove | the servers; shares `servers` and `serversLock` |
| Retry, RPC stubs (`Retry`, `ServerRPCClient`) | attempt counter | one call and three retries | |
| Driver (`run_cluster.py`, `shared/util.py`) | `serverUID`, `clientUID`, `clientList` | start and delete pods, every frontend call, testKVS | Kubernetes, frontend, clients |
| Client pod (`client.py`) | none | forwards put and get | frontend |
| Start-up and dispatch (`App`, `ProcessorFactoryFactory`) | one handler object | open a port | |
| Inventory builder (`kubespray/contrib/inventory_builder/inventory.py`) | the file of hosts and their roles | add, delete, load, assign roles | |
| `frontend.py`, `server.py`; `create_cluster.py`, `yaml/`, `dockerfiles/`, `scripts/`, the rest of `kubespray/` | | skeletons the Java code replaced; Kubernetes set-up; vendored | |

Every server holds all the data. put takes `serversLock`, locks every server,
writes every server, unlocks every server. addServer takes it, locks every
server, lets one of them send all its pairs to the newcomer, unlocks and
registers. get takes no lock in the frontend: it picks a server by
`key % servers.size()` in the sorted list, and waits at that server while it is
locked.

What is hard in it:

* Concurrency: gets and printKVPairs run beside puts and membership changes;
  the routing reads a map that changes under it; the flag a get waits for is
  tested outside the monitor it waits on; the sender of a transfer and "no
  other server" are decided before the lock is taken; the heartbeat acts on an
  old answer.
* Failure: a server can crash between any two steps. lock() swallows it, the
  write and unlock loops throw out of the middle. Servers may be written or
  locked in part when a call fails.
* Ordering: a half-written put must not be seen in a way that lets a later get
  go back; a joiner must not bring back what was overwritten.
* Timeouts: none on calls; four attempts with sleeps in between, nested in a
  transfer and made while `serversLock` is held. A pod counts as running before
  its JVM answers.
* Partial failure of the driver: an exception ends it while the pods stay, or
  ends a pool thread unseen while the driver goes on with ids half used.

What makes each part correct: replicas agree on acknowledged puts (servers and
frontend); the loops of two calls never overlap and see one membership
(frontend); locks are undone (frontend); dead servers are unregistered, and
what is read at one that is taken for dead does no harm (heartbeat); every key has exactly one server (routing); calls
return (frontend); the test program alarms only with reason and ends; ids, clients
and pods stay in step with what the frontend knows (driver); a retried call that
fails late fails safely (Retry); every host is listed once and every role has a
host (inventory).
`PROJECT.json` lists the hazards line by line.

## Modules

```
Selector   Server                      KVStore (abstract)
     \     /                              |
     Frontend                             |
        |                                 |
    HeartBeat                             |
        |                                 |
     Cluster -- Consistency --------------+      Workload -- WorkloadProofs   (testKVS)
        |            |                           Driver -- DriverProofs
    MCCluster   MCConsistency                    Inventory -- MCInventory
        |                                            |
  ClusterProofs -- LockProofs                    InventoryProofs
                       |
                ConsistencyProofs                Selector -- MCSelector -- SelectorProofs

  Retry -- Transfer (implements Cluster's transfer) -- TransferProofs
```

* `Selector` - `ServerSelector.select`, with Java's `%`. `Rank` and `JavaRem`
  are separate because `get` evaluates `size()` and `sorted()` at two instants.
* `Server` - the handlers of one server. A request is named by the frontend
  thread blocked on it: `pc[t]` walks through the frontend handler and into the
  server. `check`, `park`, `wait`, `read` are the places in get and
  printKVPairs; `ServerUnlock` clears the flag and wakes the wait set.
* `Frontend` - one action per step between two accesses to shared state.
  `monitor` is the owner of `serversLock`, `todo` the servers the current loop
  still visits (its order is left open, as a hash map's is), `Throw` the
  exception that leaves the synchronized block. `committed` is a history
  variable.
* `HeartBeat` - `Probe` without, `Remove` with `serversLock`.
* `Cluster` - the whole, with the driver as environment: `AddNode` hands out
  ids in order as `serverUID` does, `Crash` is killServer, `Start` the moment a
  JVM answers. Its properties are stated here.
* `KVStore` - what a caller may rely on: one value per key, linearizable
  puts and gets, failed puts that some readers see, loss with the last replica.
  With `Gradual` a put settles only at its acknowledgement: until then a reader
  may see the old value or the new. `acked` ties the answer of a put to what the
  store holds: an acknowledged put may not be explained as a failed one.
* `Consistency` - `Cluster` with two history variables, and the refinement
  mapping to `KVStore`: the value of a key is the one being written once a put's
  lock loop is over, else what the registered servers hold. `Gradual` is
  `SlowStart`: lock() skips a server whose JVM does not answer yet, which may
  then answer in the middle of the put.
* `Workload` - testKVS over the store's promise: load, barrier, run, in both
  modes, several commands in a row, failing calls and lost servers.
* `Retry`, `Transfer` - `Retry.run` and the two instances of it that a transfer
  nests: the frontend's around `sendValuesToServer`, the sender's around each
  put. `asks` and `puts` count failed attempts, `slept` the seconds. `C` maps
  this to `Cluster` with one sender and one joiner: `Put` is `SendOne`, the last
  failed attempt is `AddSendThrows` or `SendThrows`, everything else stutters.
* `Driver` - one thread of `run_cluster.py` at a time: `pc` is its place,
  `caller` says whose `add_nodes` or `remove_node` it is in, `RaiseAs` what an
  exception there does. Pods have a phase and may be `deleting`; the frontend is
  its list of servers. An id in `joined` was once registered at this frontend.
* `Inventory` - one action per command of the builder, from file to file;
  `Change` is one turn of the loop of `build_hostnames`, `Without` the deletion
  of an entry, `Assigned` the `set_*` methods in their order, `Written` the
  order the file keeps (`Only` picks the hosts it had before).
* `MCCluster`, `MCConsistency`, `MCSelector`, `MCInventory` - constants for TLC;
  `MCSelector` also has the reference definition of routing.

Definitions whose comment begins "Mutant of" are wrong on purpose: variants of
the definition that follows, which no specification uses. They show that each
property fails when the code is changed in a plausible way.

### Abstractions

* In `Cluster` a retried call is one step: it succeeds if the server is up at
  that instant and throws if it is not. An attempt on a dead server changes
  nothing and a dead server does not come back, so what four attempts and their
  sleeps add is the choice of the instant, which the interleaving already has.
  For the transfer, whose retries nest, `Transfer` states this and
  `IsTransferOfCluster` checks and proves it.
* In `Driver` the frontend is the list of servers and may fail any addServer;
  gets and puts of a test's threads are those of `Workload` and left out. What
  Kubernetes does is taken from the calls the driver makes: a name that is taken
  is a conflict, a name that does not exist is not found, deletion is not at
  once, and pods are never restarted (`restartPolicy: Never`, `yaml/pods`).
* In `Inventory` a name is its number, access addresses are left out and a range
  is the list of its addresses.
* A message is not lost on its own; the RPC's connection fails only with the
  server. With no timeouts a call is never abandoned at a live server.
* `isLocked` is atomic. It is not volatile in the code; each turn of the waiting
  loop passes through a monitor, the first test of a request does not.
* shutdownServer and listServer hold `serversLock` throughout and are one step.
* Values and keys are a few model values and numbers; texts of answers are
  reduced to their kind (`ok`, `fault`, `ERR_NOEXIST`, ...).

## Runs

Passing runs (`tlc -config <run>.cfg <module>`):

| Run | Instance | Shows |
| --- | --- | --- |
| `safety` (`MCCluster`) | 2 servers that may come back under their id, 2 clients, 1 administrator, 2 values, 1 key, 6 calls, 1 crash | `Durable` (acknowledged puts at every registered server); `SingleWriter`, `LoopsSeeOneMembership` (the loops of calls do not overlap and see one list); `NoStrandedLock` (locks undone); `TypeOK` |
| `live` (`MCConsistency`) | 2 servers whose pods run before their JVM answers, 1 client, 1 value, 5 calls, 1 crash, fair | `WritersReturn`, `DeadServersLeave`; `IsOneStore` (the cluster implements `KVStore` with gradual puts), `Durable`, `SuccessUnlocksAll` although lock() skips servers, the heartbeat removes living ones and earlier calls failed; `HoldersGetOn` (what a holder of `serversLock` has left only shrinks) |
| `onestore` (`MCConsistency`) | 3 servers that answer once they are Running, 2 clients, 2 values, 5 calls, 1 crash | `IsOneStore`: the cluster implements `KVStore` with atomic puts |
| `selector` (`MCSelector`) | every subset of 7 ids, 11 keys and their negatives | `SelectsFromSortedList`, `SelectsEvenly`, `NegativeKeysAreMultiples` |
| `workload` (`Workload`) | 5 keys, 2 threads, 3 requests each, two tests, a failing call per test, fair | `NoFalseAlarm`, `TestEnds`, `NobodySpins` (a thread that has keys has a next call to make), `TypeOK` |
| `driver` (`Driver`) | 2 clients, 2 servers, 2 starts of the driver, 3 commands, 1 pod that ends, 1 failing addServer, fair | `ThreadsHaveClients` (a test's threads find their client pods), `IdsAreFresh` (the frontend never meets an id twice), `CommandsEnd` (no wait goes on for ever, except for a pod that has ended), `WaitsHaveCause` (the pod a wait polls for is on its way), `TypeOK` |
| `transfer` (`Transfer`) | up to 4 entries, either JVM may start or die at any moment, fair | `LockHeldBriefly` (at most 33 s of sleep under `serversLock`, calls not counted), `GivesUpLate` (not before 30 s), `SuccessIsComplete`, `IsTransferOfCluster`, `TransferEnds`, `TypeOK` |
| `inventory` (`MCInventory`) | 5 machines, 5 names, thresholds 4 and 5, 1 control host; command lines of one argument, a host in the place of another, a named host and an address, new machines in any number | `OneHostPerMachine`, `RolesAreHosts`, `EveryRoleIsManned`, `AddsWhatIsNew`, `TypeOK` |

Runs that find what a comment or document says to be false of the code; each is
a finding in `PROJECT.json` with the lines:

| Run | Property | What happens |
| --- | --- | --- |
| `lost_wakeup` | `WaitersWake` | unlock comes between a get's test of the flag and its wait(); the get sleeps at an open server |
| `locked_after_add` | `AddLeavesNoLock` | the joiner dies in the transfer; addServer fails and leaves live servers locked |
| `name_taken` | `NamesAreFree` | addServer fails in a pool thread; its pod exists, its id is not counted on, and the next addServer asks for the same name |
| `workload_hangs` | `TestEnds` | with fewer keys than threads testKVS loops for ever |

Other places where the model shows code and text to differ, without a run of
their own:

* addServer chooses its sender before it takes the lock (`FrontendRPCImpl:76-77`)
  and fails with the other servers locked if it has left by then
  (`AddSendThrows`; the same `AddLeavesNoLock` as above).
* "No other servers" is decided outside the lock too (`AddFirst`, `AddOnly`); of
  two callers that both see none the second registers a server without data.
  `run_cluster.py` is one caller, which `Durable` is proved for.
* put answers "Success" though no server is registered (`PutWritten` with an
  empty `todo`); "responsible for inserting a new key-value pair",
  `FrontendRPC:6`.
* A pod that ends before the driver has seen it Running is waited for for ever
  (`util.py:66-72`): the exception that `CommandsEnd` makes.
* The wait for phase "Terminating" (`run_cluster.py:56`), which no pod has, ends
  when the pod is gone.
* The inventory builder: the number after the highest is read before the
  arguments, so the address behind a host that is named with that number takes
  its place, "Keeps already specified hosts", `inventory.py:174`; three hosts less
  one leave two etcd members, as members are only added, "Stop if even number of
  etcd hosts", kubespray's `0020-verify-settings.yml:89`; a named host that exists is looked up with its address
  (250) and so is overwritten, not skipped (`Change`); a name taken away and given again in one command keeps its roles at the new
  place, so etcd may get a fourth member (`Keep`, `Assigned`); calico_rr looks
  hosts up in the group, not in its hosts (348, 353), and excludes none.
* get looks the stub up twice, and it may be gone at the second look
  (`GetSend`); "Make sure server exists", `FrontendRPCImpl:30`.
* A get that passed the flag before the lock may read while a put has begun to
  write (`ReadKey` beside `WriteOne`); `IsOneStore` says it is harmless.
* A server that starts to answer after lock() skipped it is read in the middle of
  the put; "Make sure there are no other uncompleted writes exist",
  `ServerRPCImpl:30`.
* shutdownServer stops nothing (`ShutdownServer` leaves `life` alone) and takes a
  server that a failed addServer left locked off the list, where nothing unlocks it
  again: a get that waits there waits for ever; "to let the corresponding server
  terminate normally", `FrontendRPC:33`.
* listServer names crashed servers until the heartbeat has removed them;
  "currently active/alive", `FrontendRPC:28`. With `SlowStart` the heartbeat may
  remove a living one: the JVM opens its port after the last attempt and before the
  removal (`Probe`, `Start`, `Remove`).
* `run_cluster.py` waits for the pod's phase, not for its port, so `SlowStart =
  TRUE` is the program as it is driven. A get routed to a server that lock()
  skipped may read the old value although another, that had passed the lock
  elsewhere, has already read the new one. Gets are therefore not linearizable
  with the puts under way, only with those that are over: the promise `live`
  checks. An atomic store needs pods that answer when they are Running (`onestore`).
* The first server to be registered brings what it holds. With `ReuseIds = TRUE`
  that may be old data, after the last server had left; `KVStore` says the store
  is empty then, and `IsOneStore` fails.
* With `ReuseIds` and three servers, a server that left the list while locked
  comes back locked: addServer unlocks the servers it had locked and registers
  the newcomer afterwards, so `SuccessUnlocksAll` needs fresh ids.
* A negative key has a server only if their number divides it (`NegativeKeysAreMultiples`).
* testKVS leaves `num_keys % num_threads` keys out and rounds the requests per
  thread down (`Slice`, `Quota`; `cluster.md:154-156`), and its test for missing
  servers cannot fail (`ServerListLength`; `run_cluster.py:150`).

### Bounds

`MaxCalls` and `MaxCrashes` bound calls and crashes, `MaxTests` and `MaxFaults`
testKVS commands and threads hit by an exception. Five or six calls suffice to
join two or three servers, put twice and read or leave in between, which is the
most that any counterexample above and any mutant needs. Two servers show a server
that is written and one that is not; three show one on each side of a failure.
One key is enough for replication: keys interact only in that a transfer sends
several, and that it may stop between two is the same to each of them as
stopping before or after its own. Clients and values are symmetric in `safety` and
`onestore`; `live` uses no symmetry. For `IsOneStore` in `live` one client puts
while the administrator prints the pairs of any server it likes, and the key's old
value is `Absent`: a server that is skipped and one that is locked suffice to tell a
gradual put from an atomic one. Larger instances are the matter of the theorem. Deadlock is not an error in the runs
of the cluster and of testKVS: the driver may stop giving commands.

In `driver` two clients and two servers show one that exists and one that does
not; two starts a driver over pods it does not know; three commands a failed one,
one that repeats it and one that uses what is left. A second failing pod or call
would add nothing a restart does not. In `transfer` the sleeps do not depend on
the number of entries, which the proofs give for any. In `inventory` five
machines pass every threshold (etcd at 3, scale at 4, massive scale at 5; 3, 50
and 200 in the program) up and down; machines are symmetric. Names given on the
command line are one without the prefix and one that a generated name may meet.

Ids of `selector` leave gaps (0, 1, 2, 3, 5, 8, 9) as removed servers do. In
`Workload`, 5 keys leave one over, and slices of two indices with three requests
are gone through more than once; a cycle of three operations is out of step with
them. Slice bounds computed through Python floats agree with the exact floor for
these sizes.

### Fairness

`FairSpec` of `Cluster` (`FairSpecC` with the history variables) has weak fairness for each request thread and for the
heartbeat thread: threads of a JVM are scheduled, RPCs of a live server return.
Nothing is assumed of the environment: nobody has to call, start or crash.
The Java monitor is not fair; it need not be, as calls are bounded, so that
`serversLock` is free in the end. With clients that call for ever the
heartbeat, and any one put, could in principle be passed over for ever.
`FairSpec` of `Driver` assumes that the driver runs and that Kubernetes starts
and removes pods; no command, failure or heartbeat is promised. It takes the
threads of a test to end, which `workload` checks and `workload_hangs` refutes for
slices without keys, so `CommandsEnd` is a statement about the waits for pods. `FairSpec` of
`Transfer` assumes the two threads of the transfer run.
`FairSpec` of `Workload` assumes that calls come back; `lost_wakeup` shows when
a get does not, and then testKVS hangs with it.

## Proofs

All hold for any finite set of server ids, any clients, administrators, keys and
values, from the named assumptions of `Server` and `Cluster` (ids are naturals, the
sentinels are none of the values, clients and administrators are different
threads, bounds are naturals), those of `Driver`, `Transfer`, `Workload`,
`MCSelector` (ids and keys are naturals) and `Inventory` (finitely many machines;
the thresholds leave hosts for the control plane and for work) from theirs. Where the table names none, `SlowStart` and
`ReuseIds` may have either value.

| Theorem | Says |
| --- | --- |
| `ClusterProofs!TypeCorrect` | `Spec => []TypeOK` |
| `ClusterProofs!MutualExclusion` | `Spec => []SingleWriter` |
| `ClusterProofs!OneMembership` | `Spec => LoopsSeeOneMembership` |
| `ClusterProofs!AcknowledgedPutsStay` | one administrator: `Spec => []Durable` |
| `LockProofs!LocksAreUndone` | one administrator: `Spec => []NoStrandedLock` |
| `LockProofs!SuccessUnlocks` | `~ReuseIds`: `Spec => SuccessUnlocksAll` |
| `LockProofs!HoldersLeave` | `Spec => HoldersGetOn`: who holds `serversLock` gets nearer to giving it back with each step, and nobody sets it back |
| `ConsistencyProofs!OneStoreImplemented` | one administrator, `~ReuseIds`: `SpecC => IsOneStore`, so `Cluster` implements `KVStore`, gradual if `SlowStart` and atomic if not |
| `DriverProofs!TypeCorrect`, `ClientsForThreads`, `FreshIds` | `Spec => []TypeOK`, `[]ThreadsHaveClients`, `[]IdsAreFresh`, for any number of clients, servers, commands, starts and failures |
| `DriverProofs!WaitsAreWarranted` | `Spec => []WaitsHaveCause`, likewise |
| `WorkloadProofs!TypeCorrect`, `AlarmsHaveReasons` | `Spec => []TypeOK`, `[]NoFalseAlarm`, for any number of keys, threads, requests, tests and failures |
| `WorkloadProofs!OnlyEmptySlicesSpin` | `Spec => []NobodySpins`, likewise |
| `SelectorProofs!EveryKeyHasOneServer` | a non-negative key has exactly one server in a finite non-empty set of ids |
| `SelectorProofs!NegativeKeyHasNoServer` | a negative key has one if and only if their number divides it |
| `SelectorProofs!RoutesByTheList`, `Shares`, `NegativeKeys` | `Spec => []SelectsFromSortedList`, `[]SelectsEvenly`, `[]NegativeKeysAreMultiples` of `MCSelector`, for any ids and keys |
| `InventoryProofs!TypeCorrect`, `RolesHaveHosts`, `MachinesAreListedOnce`, `RolesAreManned`, `AddingIsAdding` | `Spec => []TypeOK`, `[]RolesAreHosts`, `[]OneHostPerMachine`, `[]EveryRoleIsManned`, `[]AddsWhatIsNew`, for any machines, names and thresholds |
| `InventoryProofs!AnyCommandLine` | the same for any sequence of arguments and any file of distinct hosts (`AnySpec`, which `Spec` is a part of) |
| `TransferProofs!TypeCorrect`, `LockTimeIsBounded`, `Patience`, `Completeness` | `Spec => []TypeOK`, `[]LockHeldBriefly`, `[]GivesUpLate`, `[]SuccessIsComplete`, for any number of entries |
| `TransferProofs!ImplementsCluster` | `Spec => IsTransferOfCluster`: the nested attempts are Cluster's transfer |

* `TypeOK` is not inductive: a thread inside a handler uses fields of `arg`
  that are `None` elsewhere. `Typed` adds `Needs`, which says per program
  counter which fields are set.
* `SingleWriter` is inductive together with it: only `Enter` brings a thread
  into the loops, and it needs a free monitor; `Leave` comes with every exit.
  `OneMembership` adds that `servers` changes only where the monitor is
  free or is given up.
* `Durable` says nothing of a put or transfer in progress, so it is not
  inductive. `Replicated` adds `WriteProgress` (servers the write loop has
  passed hold the new value; in the unlock loop all do), `SendProgress` (what
  is not in `unsent` any more is equal at sender and joiner), `Roles` (clients
  run puts and gets, administrators the rest) and `Alone` (at most one addServer is
  in progress, so a thread that saw an empty list still finds it empty).
  `OneAdministrator` is what `Alone` needs: with two a server joins a
  non-empty cluster without data.
* Routing: ranks increase strictly with the ids, so they are an injection of the
  set into `0 .. n-1`, and by its cardinality onto it: the remainder is the rank
  of one server and of no other. In an ascending list of the set the place of an
  element, counted from 0, is its rank, because the elements before it are the
  smaller ones: what `select` indexes is what `Selects` names. Of n numbers in a
  row each remainder is met once.
* Transfer: the bound on `slept` is inductive with its exact account. `SleptAtMost`
  gives the sleeps that `asks` failed rounds of the frontend and `puts` failed
  attempts of the current one can have taken, and three seconds more once a
  put has succeeded in a round after failures, which happens in one round only,
  as a joiner that has opened its port stays open or dies. `SleptAtLeast` is the
  converse while the sender lives. `SentInOrder` (the entries before `entry` have
  arrived) gives completeness, and `LastIsMissing` that the exception of the
  last attempt leaves an entry unsent, which `Cluster` asks of `SendThrows`.
* Locks: `Walk` (`todo` is a part of the list, and nobody walks without
  `serversLock`), `Unlocking` (what the unlock loop has passed is open), `Existing`
  (only pods that were created are listed, locked or joining) and `NewIds` (a joiner
  was never listed or locked), which is where `~ReuseIds` is needed. `Steady` is
  what holds while every server answers: no flag is set without a holder of
  `serversLock`, and the sender of a transfer is still registered, so no step of a
  call can throw.
* Giving `serversLock` back: `HolderIsInLoop` (the monitor belongs to a thread in
  its loops) makes every step of the holder one of the loops' own, which takes a
  server from `todo`, an entry from `unsent`, or goes to the next loop; every
  other thread is outside the loops, where neither is touched. With weak fairness
  of the holder this is why it leaves; that last inference is `WritersReturn`.
* One store: `OneStore` joins the above with `JoinersData` (a joiner holds
  nothing but what the sender sent), `WrittenWhileLocked` (without `SlowStart`
  every server that answers is locked during the write loop), `Priors`
  (during a write each replica holds the old value or the new, which is all a
  gradual put promises), `Watching` (the
  history is what `KVStore` keeps) and `Readable`, the heart of it: what a get
  would read at its server is a value the key has had since the get
  began, unless the server has crashed or the get has yet to wait there for the
  write in progress. Each action of `Cluster` is then one step of `KVStore` or
  none: the end of the lock loop is the write, the return of put the
  acknowledgement, an exception inside the loops a failure.
* Driver: `Known` (what the frontend has met is below `serverUID`, also after a
  restart, because a new driver that finds the old frontend does not get past
  creating it), `Numbered` (no gap in `clientList`), `Places` and `Room` (what is
  still to be added at each place of the program) and `Equipped` (a test that is
  adding clients adds enough). `Doomed` (a pod that is being deleted is still
  listed) is why a pod just created is not deleted under the driver's eyes: the
  name is free only when the old pod is gone.
* testKVS: `SlicesApart` (no two threads ask for the same key, however the keys
  divide: the end of a slice is no more than the start of the next) makes a thread's
  step invisible to the others unless the servers are gone. `Kept` says what the thread
  itself left in the store: the loaded value behind its position, and where it will
  only get; in the consistency test, between put and get, the value just put.
  `Served` and `Stages` say when there are servers and which key a step is for.
  `Turns` (the index comes back to a key of the slice) is what a thread without
  keys lacks.
* Inventory: a command is a fold over its arguments, and a fold is a recursive
  function chosen by its equation. That the function exists is proved once
  (`FoldExists`), by well-founded induction with a set in place of the property,
  which the provers can instantiate; from it come the values after each prefix
  of the arguments (`ChangeFolds`, `OnlyFolds`) and so invariants of the loop:
  hosts stay distinct in name and address, and with the arguments done every new
  address is listed. `WrittenLists`
  says that the order of the file is a permutation of the hosts of the command, so
  its counts and thresholds are theirs; `AssignedIsManned` that the `set_*` methods
  fill the roles whichever hosts kept theirs. The invariant asks of the file only
  that its hosts are distinct, not how it came about, hence `AnyCommandLine`.

`Typed`, `Replicated`, the lock invariants and `OneStore` were model-checked before
they were proved.

Every invariant and action property of a passing run is stated by a theorem.
Only model-checked is liveness, which is out of the prover's reach with fairness
and ENABLED: `WritersReturn`, `DeadServersLeave`, `CommandsEnd`, `TestEnds` and
`TransferEnds`. What these rest on besides fairness is proved
where it is more than a guard: `HoldersGetOn` for the first, `WaitsHaveCause` and
`NobodySpins` for `CommandsEnd` and `TestEnds`; for the last, the account of attempts behind `LockHeldBriefly`. The theorems for one
administrator or fresh ids are false without that (see above what TLC finds).

## Not modelled

* Start-up and XML-RPC dispatch, images and scripts, the Python skeletons (see
  the table of parts); the wording of answers; the heartbeat's period; the
  memory-model effects of the non-volatile flag.
* Functions of `shared/util.py` that nothing calls (`get_pod_ips`,
  `copy_file_to_pod`, ...).
* Of the inventory builder: access addresses, `USE_REAL_HOSTNAME` (asks the
  machine for its name), the print commands, which show an empty inventory.
* The rest of `kubespray/`, which is vendored: roles and playbooks in YAML, helpers
  for clouds that this project does not use, and `get-pip.py`. The last is an
  encoded archive of 27081 lines, more than nine in ten of the lines of the
  repository's programs: no model could stand for them, so the share
  of lines covered stays small however complete the models of the program are.

## Plan

Done: the cluster, its abstract store and refinement, testKVS, retries, the
driver and its pods, the inventory builder, and the proofs above. What is left:

A cluster of which the flag is not volatile, to see which properties rest on
its being atomic.
