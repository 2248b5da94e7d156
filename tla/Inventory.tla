------------------------------- MODULE Inventory -------------------------------
(* kubespray's inventory builder (contrib/inventory_builder/inventory.py), the *)
(* tool that writes the list of machines a cluster is made of.  Every command  *)
(* is a process of its own; what one leaves for the next is the file of hosts  *)
(* and their roles.                                                            *)
(*                                                                             *)
(* A name is a number: n > 0 stands for HOST_PREFIX + n, the names the builder *)
(* gives itself, and 0 for a name without the prefix.                          *)
EXTENDS Integers, Sequences, FiniteSets, SequencesExt

CONSTANTS
  Ips,                      \* addresses of the machines
  MaxId,                    \* bound: host numbers
  Given,                    \* bound: names that command lines and files give
  KUBE_CONTROL_HOSTS,
  SCALE_THRESHOLD,
  MASSIVE_SCALE_THRESHOLD

\* 2, 50 and 200 by default.  With less there would be no host left for the
\* control plane, or none for the workers, of a new separated cluster.
ASSUME ThresholdsAssumption ==
  /\ KUBE_CONTROL_HOSTS \in Nat \ {0}
  /\ SCALE_THRESHOLD \in Nat /\ SCALE_THRESHOLD > 3
  /\ MASSIVE_SCALE_THRESHOLD \in Nat
  /\ MASSIVE_SCALE_THRESHOLD >= SCALE_THRESHOLD
  /\ MASSIVE_SCALE_THRESHOLD > 3 + KUBE_CONTROL_HOSTS

ASSUME BoundsAssumption ==
  /\ IsFiniteSet(Ips)
  /\ MaxId \in Nat
  /\ Given \subseteq 0 .. MaxId

VARIABLES
  writer,   \* who wrote the file: "nobody" (there is none), "load" or "hosts"
  hosts,    \* all.hosts, in the order of the file
  role      \* role[r]: the names under all.children[r].hosts

vars == <<writer, hosts, role>>

Roles == {"etcd", "kube_control_plane", "kube_node", "calico_rr"}
Names == 0 .. MaxId
Host == [name : Names, ip : Ips]
Arg == [op : {"add"}, ip : Ips]                   \* "10.0.0.1"
         \cup [op : {"add"}, name : Given, ip : Ips]  \* "first,10.0.0.1"
         \cup [op : {"del"}, name : Names]            \* "-node1"
         \cup [op : {"del"}, ip : Ips]                \* "-10.0.0.1"

NamesOf(hs) == {hs[j].name : j \in DOMAIN hs}
IpsOf(hs) == {hs[j].ip : j \in DOMAIN hs}
HasName(a) == "name" \in DOMAIN a
FirstNames(hs, k) == {hs[j].name : j \in {x \in DOMAIN hs : x <= k}}

-----------------------------------------------------------------------------
(* build_hostnames                                                           *)

\* Mutant of NextId: counts the hosts.
NextIdByCount(hs) == Len(hs) + 1

\* The number after the highest of the existing hosts.  It is read once, before
\* the arguments.
NextId(hs) ==
  CHOOSE n \in 1 .. MaxId + 1 :
    n - 1 \in NamesOf(hs) \cup {0} /\ \A m \in NamesOf(hs) : m < n

\* Assigning to a key that is there keeps its place in the dictionary.
Assign(hs, n, i) ==
  IF n \in NamesOf(hs)
  THEN [j \in DOMAIN hs |-> IF hs[j].name = n THEN [name |-> n, ip |-> i]
                                              ELSE hs[j]]
  ELSE Append(hs, [name |-> n, ip |-> i])

Places(hs, a) == {j \in DOMAIN hs : IF HasName(a) THEN hs[j].name = a.name
                                                  ELSE hs[j].ip = a.ip}

\* "-node1" takes the name away, "-10.0.0.1" the first host of the address.
\* What is not there is ignored.
Without(hs, a) == IF Places(hs, a) = {} THEN hs ELSE RemoveAt(hs, Min(Places(hs, a)))

\* Mutant of Change: an address that is there already is added again.
ChangeAgain(acc, a) ==
  IF a.op = "del" THEN [acc EXCEPT !.hosts = Without(@, a)]
  ELSE IF HasName(a)
  THEN [acc EXCEPT !.hosts = Assign(@, a.name, a.ip)]
  ELSE [hosts |-> Assign(acc.hosts, acc.next, a.ip), next |-> acc.next + 1]

\* One argument.  An address that is there already is skipped; a name is not
\* (it is looked up with the address behind it, so it is never found).
Change(acc, a) ==
  IF a.op = "del" THEN [acc EXCEPT !.hosts = Without(@, a)]
  ELSE IF a.ip \in IpsOf(acc.hosts) THEN acc
  ELSE IF HasName(a)
  THEN [acc EXCEPT !.hosts = Assign(@, a.name, a.ip)]
  ELSE [hosts |-> Assign(acc.hosts, acc.next, a.ip), next |-> acc.next + 1]

-----------------------------------------------------------------------------
(* The command line *)

\* Mutant of Members: three members from the fourth host on.
MembersAboveThree(hs) == IF Len(hs) > 3 THEN 3 ELSE 1

\* etcd_hosts_count
Members(hs) == IF Len(hs) >= 3 THEN 3 ELSE 1

\* Mutant of Keep: hosts that are gone keep their roles.
KeepAll(old, hs) == old

\* purge_invalid_hosts
Keep(old, hs) == old \cap NamesOf(hs)

\* set_etcd, set_kube_control_plane, set_kube_node and set_calico_rr only add.
Assigned(old, hs) ==
  LET n == Len(hs)
      members == Members(hs)
      scaled == n >= SCALE_THRESHOLD
      etcd == Keep(old["etcd"], hs) \cup FirstNames(hs, members)
      control == Keep(old["kube_control_plane"], hs) \cup
                 IF scaled THEN FirstNames(hs, members + KUBE_CONTROL_HOSTS)
                                  \ FirstNames(hs, members)
                 ELSE FirstNames(hs, KUBE_CONTROL_HOSTS)
      workers == {h \in NamesOf(hs) :
                    /\ ~(scaled /\ h \in etcd)
                    /\ ~(n >= MASSIVE_SCALE_THRESHOLD /\ h \in control)}
  IN [etcd |-> etcd,
      kube_control_plane |-> control,
      kube_node |-> Keep(old["kube_node"], hs) \cup workers,
      calico_rr |-> Keep(old["calico_rr"], hs) \cup
                    IF scaled THEN FirstNames(hs, members) ELSE {}]

\* Mutant of NoRoles: a new file has no group calico_rr.
FewRoles == [r \in Roles \ {"calico_rr"} |-> {}]

NoRoles == [r \in Roles |-> {}]

Named(hs, n) == CHOOSE h \in Range(hs) : h.name = n

\* Those of hs that have one of the names ns, in their order.
Only(hs, ns) ==
  FoldLeft(LAMBDA kept, h : IF h.name \in ns THEN Append(kept, h) ELSE kept, <<>>, hs)

\* The purge of all.hosts and set_all: the hosts of the file that are left keep
\* their places, with their new addresses, and the others come behind them.
Written(old, hs) ==
  LET kept == Only(old, NamesOf(hs))
  IN [j \in DOMAIN kept |-> Named(hs, kept[j].name)]
       \o Only(hs, NamesOf(hs) \ NamesOf(old))

\* The hosts a command finds: without "add" in front the file is not read, only
\* written, unless the first argument takes a host away.
Loads(add, args) == add \/ args[1].op = "del"
Base(add, args) == IF Loads(add, args) THEN hosts ELSE <<>>

Command(add, args) ==
  LET base == Base(add, args)
      acc == FoldLeft(Change, [hosts |-> base, next |-> NextId(base)], args)
  IN /\ Loads(add, args) => writer # "nobody"
     /\ NamesOf(acc.hosts) \subseteq Names
     /\ hosts' = Written(base, acc.hosts)
     /\ writer' = "hosts"
     /\ role' = Assigned(IF Loads(add, args) THEN role ELSE NoRoles, acc.hosts)

\* load FILE: groups of hosts, one file here.  It replaces the inventory, too.
Load(hs, groups) ==
  /\ writer' = "load"
  /\ hosts' = hs
  /\ role' = groups

-----------------------------------------------------------------------------

Init == writer = "nobody" /\ hosts = <<>> /\ role = NoRoles

AddIps(range) == [j \in DOMAIN range |-> [op |-> "add", ip |-> range[j]]]

\* range2ips: "10.0.0.1-10.0.0.5" stands for its addresses, one argument each.
\* Known ones are skipped, and which the new ones are makes no difference.
NewMachines(base) ==
  {AddIps(SubSeq(SetToSeq(Ips \ IpsOf(base)), 1, n)) :
     n \in 1 .. Cardinality(Ips \ IpsOf(base))}

Of(op) == {a \in Arg : a.op = op}

Plain == {a \in Of("add") : ~HasName(a)}

\* One host, a host in the place of another, or a named host and an address.
Args == {<<a>> : a \in Arg} \cup {<<d, a>> : d \in Of("del"), a \in Of("add")}
          \cup {<<a, b>> : a \in Of("add") \ Plain, b \in Plain}

\* A file with two machines, in the groups it says.
TwoHosts == {hs \in [1 .. 2 -> [name : Given, ip : Ips]] :
               hs[1].name < hs[2].name /\ hs[1].ip # hs[2].ip}

Next ==
  \/ \E args \in Args \cup NewMachines(hosts) : Command(TRUE, args)
  \/ \E args \in {<<a>> : a \in Arg} \cup NewMachines(<<>>) : Command(FALSE, args)
  \/ \E hs \in TwoHosts : \E e \in {{}, NamesOf(hs)} :
       Load(hs, [NoRoles EXCEPT !["etcd"] = e, !["kube_node"] = NamesOf(hs)])

Spec == Init /\ [][Next]_vars

-----------------------------------------------------------------------------
(* Properties *)

TypeOK ==
  /\ writer \in {"nobody", "hosts", "load"}
  /\ hosts \in Seq(Host)
  /\ role \in [Roles -> SUBSET Names]

\* However hosts come and go, and in one command too, a role is only given to
\* hosts of the inventory: ansible would look for a machine that is not there.
RolesAreHosts == \A r \in Roles : role[r] \subseteq NamesOf(hosts)

\* No two hosts are the same machine, and none is listed twice, although names
\* are given out by a counter that does not see the names on the command line.
OneHostPerMachine ==
  \A i, j \in DOMAIN hosts :
    i # j => hosts[i].name # hosts[j].name /\ hosts[i].ip # hosts[j].ip

\* A cluster has an etcd member, three as soon as it has three hosts, and a
\* control plane, whatever hosts were taken away and in which order, and on both
\* sides of the thresholds at which the roles are separated.
EveryRoleIsManned ==
  writer = "hosts" /\ hosts # <<>> =>
    /\ Cardinality(role["etcd"]) >= IF Len(hosts) >= 3 THEN 3 ELSE 1
    /\ role["kube_control_plane"] # {}

\* Adding addresses keeps every machine and adds the new ones under names of
\* their own: the number after the highest is free, though "add" may follow
\* deletions, and numbers are not given twice in a command.
AddsWhatIsNew ==
  \A ips \in SUBSET Ips :
    LET acc == FoldLeft(Change, [hosts |-> hosts, next |-> NextId(hosts)],
                        AddIps(SetToSeq(ips)))
    IN Range(hosts) \subseteq Range(acc.hosts)
         /\ IpsOf(acc.hosts) = IpsOf(hosts) \cup ips
================================================================================
