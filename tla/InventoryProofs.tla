--------------------------- MODULE InventoryProofs ---------------------------
(* The inventory builder on command lines of any length, over any number of   *)
(* machines and between any thresholds.                                        *)
EXTENDS Inventory, FiniteSetTheorems, SequenceTheorems, TLAPS

-----------------------------------------------------------------------------
(* Folds.  A command is a fold over its arguments; its values after each       *)
(* prefix of them are what the proofs speak of.                                *)

\* Induction, with a set for the property.
LEMMA SetInduction ==
  ASSUME NEW P, 0 \in P, \A n \in Nat : n \in P => n + 1 \in P
  PROVE  Nat \subseteq P
<1> DEFINE Less == OpToRel(<, Nat)
           T == Nat \ P
<1>1. IsWellFoundedOn(Less, Nat)
  BY NatLessThanWellFounded
<1> SUFFICES ASSUME T # {} PROVE FALSE
  OBVIOUS
<1>2. PICK x \in T : \A y \in T : ~(<<y, x>> \in Less)
  <2> HIDE DEF Less
  <2>1. T \subseteq Nat
    OBVIOUS
  <2> HIDE DEF T
  <2>2. QED
    BY <1>1, <2>1, WFMin
<1>3. x \in Nat /\ x # 0
  OBVIOUS
<1>4. x - 1 \in Nat /\ x - 1 < x
  BY <1>3
<1>5. <<x - 1, x>> \in Less
  BY <1>3, <1>4 DEF OpToRel
<1>6. x - 1 \in P
  BY <1>2, <1>4, <1>5
<1>7. (x - 1) + 1 = x
  BY <1>3
<1>8. QED
  BY <1>4, <1>6, <1>7

\* The greatest number of a set that k is the greatest of.
LEMMA MaxIs ==
  ASSUME NEW S \in SUBSET Nat, NEW k \in S, \A x \in S : x <= k
  PROVE  Max(S) = k
<1>1. \A x \in S : (\A y \in S : x >= y) => x = k
  OBVIOUS
<1>2. k \in S /\ \A y \in S : k >= y
  OBVIOUS
<1>3. QED
  BY <1>1, <1>2 DEF Max

\* The first k places, and the last of them.
LEMMA PrefixOfPlaces ==
  ASSUME NEW n \in Nat, NEW k \in 1 .. n
  PROVE  /\ 1 .. k \in SUBSET (1 .. n)
         /\ 1 .. k # {}
         /\ (1 .. k) \ {k} = 1 .. k - 1
         /\ Max(1 .. k) = k
<1>1. /\ 1 .. k \in SUBSET (1 .. n)
      /\ 1 .. k # {}
      /\ (1 .. k) \ {k} = 1 .. k - 1
  OBVIOUS
<1>2. 1 .. k \in SUBSET Nat /\ k \in 1 .. k /\ \A x \in 1 .. k : x <= k
  OBVIOUS
<1>3. Max(1 .. k) = k
  BY <1>2, MaxIs
<1>4. QED
  BY <1>1, <1>3

\* The function a fold is taken from: its value for the places s is the step of
\* the last place, applied to its value for the others.
Recursive(h, n, base, step) ==
  h = [s \in SUBSET (1 .. n) |->
         IF s = {} THEN base ELSE step[Max(s)][h[s \ {Max(s)}]]]

\* There is one, for any number of places, and its values are of the type X.
LEMMA FoldExists ==
  ASSUME NEW X, NEW base \in X, NEW n \in Nat, NEW step \in [1 .. n -> [X -> X]]
  PROVE  \E h \in [SUBSET (1 .. n) -> X] : Recursive(h, n, base, step)
<1> DEFINE Has(m) == \E h \in [SUBSET (1 .. m) -> X] : Recursive(h, m, base, step)
           P == {m \in Nat : m <= n => Has(m)}
<1>1. 0 \in P
  <2> DEFINE h == [s \in SUBSET (1 .. 0) |-> base]
  <2>1. SUBSET (1 .. 0) = {{}}
    OBVIOUS
  <2>2. Recursive(h, 0, base, step) /\ h \in [SUBSET (1 .. 0) -> X]
    BY <2>1 DEF Recursive
  <2>3. QED
    BY <2>2
<1>2. ASSUME NEW m \in Nat, m \in P
      PROVE  m + 1 \in P
  <2> SUFFICES ASSUME m + 1 <= n
               PROVE  Has(m + 1)
    <3> HIDE DEF Has
    <3>1. QED
      OBVIOUS
  <2>0. Has(m)
    <3> HIDE DEF Has
    <3>1. QED
      BY <1>2
  <2>1. PICK f \in [SUBSET (1 .. m) -> X] : Recursive(f, m, base, step)
    BY <2>0
  <2> DEFINE h == [s \in SUBSET (1 .. m + 1) |->
                     IF m + 1 \in s THEN step[m + 1][f[s \ {m + 1}]] ELSE f[s]]
  <2>2. ASSUME NEW s \in SUBSET (1 .. m + 1)
        PROVE  h[s] = IF s = {} THEN base ELSE step[Max(s)][h[s \ {Max(s)}]]
    <3>1. CASE m + 1 \in s
      <4>1. Max(s) = m + 1
        <5>1. s \in SUBSET Nat /\ \A x \in s : x <= m + 1
          OBVIOUS
        <5>2. QED
          BY <3>1, <5>1, MaxIs
      <4>2. s \ {m + 1} \in SUBSET (1 .. m + 1) /\ m + 1 \notin s \ {m + 1}
        OBVIOUS
      <4>3. h[s \ {m + 1}] = f[s \ {m + 1}]
        BY <4>2
      <4>4. h[s] = step[m + 1][f[s \ {m + 1}]]
        BY <3>1
      <4>5. QED
        BY <3>1, <4>1, <4>3, <4>4
    <3>2. CASE m + 1 \notin s
      <4>1. s \in SUBSET (1 .. m)
        BY <3>2
      <4>2. f[s] = IF s = {} THEN base ELSE step[Max(s)][f[s \ {Max(s)}]]
        BY <2>1, <4>1, Zenon DEF Recursive
      <4>3. s \ {Max(s)} \in SUBSET (1 .. m + 1) /\ m + 1 \notin s \ {Max(s)}
        BY <3>2
      <4>4. h[s] = f[s] /\ h[s \ {Max(s)}] = f[s \ {Max(s)}]
        BY <3>2, <4>3
      <4> HIDE DEF h
      <4>5. QED
        BY <4>2, <4>4
    <3>3. QED
      BY <3>1, <3>2
  <2>3. h = [s \in SUBSET (1 .. m + 1) |-> h[s]]
    OBVIOUS
  <2>5. ASSUME NEW s \in SUBSET (1 .. m + 1)
         PROVE  h[s] \in X
    <3>1. CASE m + 1 \in s
      <4>1. s \ {m + 1} \in SUBSET (1 .. m)
        OBVIOUS
      <4>2. h[s] = step[m + 1][f[s \ {m + 1}]]
        BY <3>1
      <4>3. m + 1 \in 1 .. n
        OBVIOUS
      <4> HIDE DEF h
      <4>4. QED
        BY <4>1, <4>2, <4>3
    <3>2. CASE m + 1 \notin s
      <4>1. s \in SUBSET (1 .. m)
        BY <3>2
      <4>2. QED
        BY <3>2, <4>1
    <3>3. QED
      BY <3>1, <3>2
  <2>6. h \in [SUBSET (1 .. m + 1) -> X]
    BY <2>3, <2>5
  <2> HIDE DEF h
  <2>4. Recursive(h, m + 1, base, step)
    BY <2>2, <2>3, Zenon DEF Recursive
  <2>7. QED
    BY <2>4, <2>6
<1>3. n \in P
  <2> HIDE DEF P
  <2>1. QED
    BY <1>1, <1>2, SetInduction
<1>4. Has(n)
  <2> HIDE DEF Has
  <2>1. QED
    BY <1>3
<1>5. QED
  BY <1>4

\* A set of places has a last one.
LEMMA GreatestExists ==
  ASSUME NEW n \in Nat, NEW s \in SUBSET (1 .. n), s # {}
  PROVE  \E x \in s : \A y \in s : y <= x
<1> DEFINE P == {m \in Nat : \A t \in SUBSET (1 .. m) :
                               t # {} => \E x \in t : \A y \in t : y <= x}
<1>1. 0 \in P
  <2>1. \A t \in SUBSET (1 .. 0) : t = {}
    OBVIOUS
  <2>2. QED
    BY <2>1
<1>2. ASSUME NEW m \in Nat, m \in P
      PROVE  m + 1 \in P
  <2> SUFFICES ASSUME NEW t \in SUBSET (1 .. m + 1), t # {}
               PROVE  \E x \in t : \A y \in t : y <= x
    OBVIOUS
  <2>1. CASE m + 1 \in t
    BY <2>1
  <2>2. CASE m + 1 \notin t
    <3>1. t \in SUBSET (1 .. m)
      BY <2>2
    <3>2. QED
      BY <1>2, <3>1
  <2>3. QED
    BY <2>1, <2>2
<1>3. n \in P
  <2> HIDE DEF P
  <2>1. QED
    BY <1>1, <1>2, SetInduction
<1>4. QED
  BY <1>3

LEMMA MaxExists ==
  ASSUME NEW n \in Nat, NEW s \in SUBSET (1 .. n), s # {}
  PROVE  Max(s) \in s
BY GreatestExists DEF Max

\* And a first one.
LEMMA MinExists ==
  ASSUME NEW n \in Nat, NEW s \in SUBSET (1 .. n), s # {}
  PROVE  \E x \in s : \A y \in s : x <= y
<1> DEFINE t == {n + 1 - x : x \in s}
<1>1. t \in SUBSET (1 .. n) /\ t # {}
  <2>1. \A x \in s : n + 1 - x \in 1 .. n
    OBVIOUS
  <2>2. QED
    BY <2>1
<1>2. \A x \in s : n + 1 - x \in t
  OBVIOUS
<1> HIDE DEF t
<1>3. PICK m \in t : \A y \in t : y <= m
  BY <1>1, GreatestExists
<1>4. n + 1 - m \in s
  BY <1>1, <1>3 DEF t
<1>5. \A y \in s : n + 1 - m <= y
  BY <1>1, <1>2, <1>3
<1>6. QED
  BY <1>4, <1>5

-----------------------------------------------------------------------------
(* Types *)

AnyHost == [name : Nat, ip : Ips]
Accs == [hosts : Seq(AnyHost), next : Nat]

LEMMA ArgTypes ==
  ASSUME NEW a \in Arg
  PROVE  /\ a.op \in {"add", "del"}
         /\ a.op = "add" => a.ip \in Ips
         /\ HasName(a) => a.name \in Nat
         /\ ~HasName(a) => a.ip \in Ips
<1>1. Given \subseteq Nat /\ Names \subseteq Nat
  BY BoundsAssumption DEF Names
<1>2. CASE a \in [op : {"add"}, ip : Ips]
  BY <1>2 DEF HasName
<1>3. CASE a \in [op : {"add"}, name : Given, ip : Ips]
  BY <1>1, <1>3 DEF HasName
<1>4. CASE a \in [op : {"del"}, name : Names]
  BY <1>1, <1>4 DEF HasName
<1>5. CASE a \in [op : {"del"}, ip : Ips]
  BY <1>5 DEF HasName
<1>6. QED
  BY <1>2, <1>3, <1>4, <1>5 DEF Arg

\* A list without the element at one place.
LEMMA RemoveAtProperties ==
  ASSUME NEW S, NEW s \in Seq(S), NEW i \in 1 .. Len(s)
  PROVE  /\ RemoveAt(s, i) \in Seq(S)
         /\ Len(RemoveAt(s, i)) = Len(s) - 1
         /\ \A j \in 1 .. Len(s) - 1 :
              RemoveAt(s, i)[j] = s[IF j < i THEN j ELSE j + 1]
<1> DEFINE left == SubSeq(s, 1, i - 1)
           right == SubSeq(s, i + 1, Len(s))
<1>1. /\ left \in Seq(S)
      /\ Len(left) = i - 1
      /\ \A j \in 1 .. i - 1 : left[j] = s[j]
  OBVIOUS
<1>2. /\ right \in Seq(S)
      /\ Len(right) = Len(s) - i
      /\ \A j \in 1 .. Len(s) - i : right[j] = s[i + j]
  OBVIOUS
<1> HIDE DEF left, right
<1>3. /\ left \o right \in Seq(S)
      /\ Len(left \o right) = Len(s) - 1
  <2>1. Len(left \o right) = Len(left) + Len(right) /\ left \o right \in Seq(S)
    BY <1>1, <1>2, ConcatProperties
  <2>2. Len(s) \in Nat
    OBVIOUS
  <2>3. QED
    BY <1>1, <1>2, <2>1, <2>2
<1>4. ASSUME NEW j \in 1 .. Len(s) - 1
      PROVE  (left \o right)[j] = s[IF j < i THEN j ELSE j + 1]
  <2>1. CASE j < i
    BY <1>1, <1>2, <2>1
  <2>2. CASE ~(j < i)
    <3>1. (left \o right)[j] = right[j - (i - 1)]
      BY <1>1, <1>2, <2>2
    <3>2. j - (i - 1) \in 1 .. Len(s) - i /\ i + (j - (i - 1)) = j + 1
      BY <2>2
    <3>3. QED
      BY <1>2, <2>2, <3>1, <3>2
  <2>3. QED
    BY <2>1, <2>2
<1>5. QED
  BY <1>3, <1>4 DEF RemoveAt, left, right

-----------------------------------------------------------------------------
(* Lists of hosts                                                            *)

Distinct(hs) ==
  \A i, j \in DOMAIN hs : i # j => hs[i].name # hs[j].name /\ hs[i].ip # hs[j].ip

\* A list whose elements are elements of a distinct list, each at most once, is
\* distinct.
LEMMA SublistIsDistinct ==
  ASSUME NEW hs \in Seq(AnyHost), Distinct(hs), NEW t \in Seq(AnyHost),
         NEW f \in [DOMAIN t -> DOMAIN hs],
         \A i, j \in DOMAIN t : i # j => f[i] # f[j],
         \A i \in DOMAIN t : t[i] = hs[f[i]]
  PROVE  Distinct(t) /\ Range(t) \subseteq Range(hs)
<1>1. ASSUME NEW i \in DOMAIN t, NEW j \in DOMAIN t, i # j
      PROVE  t[i].name # t[j].name /\ t[i].ip # t[j].ip
  <2>1. f[i] \in DOMAIN hs /\ f[j] \in DOMAIN hs /\ f[i] # f[j]
    BY <1>1
  <2>2. hs[f[i]].name # hs[f[j]].name /\ hs[f[i]].ip # hs[f[j]].ip
    BY <2>1 DEF Distinct
  <2>3. QED
    BY <2>2
<1>3. Distinct(t)
  BY <1>1 DEF Distinct
<1>2. Range(t) \subseteq Range(hs)
  BY DEF Range
<1>4. QED
  BY <1>3, <1>2

LEMMA WithoutKeeps ==
  ASSUME NEW hs \in Seq(AnyHost), Distinct(hs), NEW a \in Arg
  PROVE  /\ Without(hs, a) \in Seq(AnyHost)
         /\ Distinct(Without(hs, a))
         /\ Range(Without(hs, a)) \subseteq Range(hs)
<1>1. CASE Places(hs, a) = {}
  BY <1>1 DEF Without
<1>2. CASE Places(hs, a) # {}
  <2> DEFINE i == Min(Places(hs, a))
             t == RemoveAt(hs, i)
  <2>1. i \in 1 .. Len(hs)
    <3>1. Places(hs, a) \in SUBSET (1 .. Len(hs))
      BY DEF Places
    <3>2. \E x \in Places(hs, a) : \A y \in Places(hs, a) : x <= y
      <4>1. Len(hs) \in Nat
        OBVIOUS
      <4>2. QED
        BY <1>2, <3>1, <4>1, MinExists
    <3>3. i \in Places(hs, a)
      BY <3>2 DEF Min
    <3>4. QED
      BY <3>1, <3>3
  <2> HIDE DEF i
  <2>2. /\ t \in Seq(AnyHost)
        /\ Len(t) = Len(hs) - 1
        /\ \A j \in 1 .. Len(hs) - 1 : t[j] = hs[IF j < i THEN j ELSE j + 1]
    BY <2>1, RemoveAtProperties
  <2> DEFINE f == [j \in DOMAIN t |-> IF j < i THEN j ELSE j + 1]
  <2>3. DOMAIN t = 1 .. Len(hs) - 1 /\ DOMAIN hs = 1 .. Len(hs)
    BY <2>2
  <2> HIDE DEF t
  <2>4. f \in [DOMAIN t -> DOMAIN hs]
    BY <2>1, <2>3
  <2>5. \A x, y \in DOMAIN t : x # y => f[x] # f[y]
    BY <2>1, <2>3
  <2>6. \A x \in DOMAIN t : t[x] = hs[f[x]]
    BY <2>2, <2>3
  <2> HIDE DEF f
  <2>7. Distinct(t) /\ Range(t) \subseteq Range(hs)
    BY <2>2, <2>4, <2>5, <2>6, SublistIsDistinct
  <2>8. Without(hs, a) = t
    BY <1>2 DEF Without, t, i
  <2>9. QED
    BY <2>2, <2>7, <2>8
<1>3. QED
  BY <1>1, <1>2

\* A new address, under a name of its own or in the place of that name.
LEMMA AssignKeeps ==
  ASSUME NEW hs \in Seq(AnyHost), Distinct(hs), NEW n \in Nat, NEW i \in Ips,
         i \notin IpsOf(hs)
  PROVE  /\ Assign(hs, n, i) \in Seq(AnyHost)
         /\ Distinct(Assign(hs, n, i))
<1> DEFINE new == [name |-> n, ip |-> i]
           D == DOMAIN hs
<1>1. new \in AnyHost
  BY DEF AnyHost
<1>2. D = 1 .. Len(hs) /\ Len(hs) \in Nat /\ \A j \in D : hs[j] \in AnyHost
  OBVIOUS
<1>3. \A j \in D : hs[j].ip # i
  BY DEF IpsOf
<1>4. CASE n \in NamesOf(hs)
  <2> DEFINE t == [j \in D |-> IF hs[j].name = n THEN new ELSE hs[j]]
  <2>1. Assign(hs, n, i) = t
    BY <1>4 DEF Assign
  <2>2. t \in [1 .. Len(hs) -> AnyHost]
    BY <1>1, <1>2
  <2>3. t \in Seq(AnyHost)
    BY <1>2, <2>2
  <2>4. \A j \in D : /\ t[j].name = hs[j].name
                     /\ hs[j].name = n => t[j].ip = i
                     /\ hs[j].name # n => t[j].ip = hs[j].ip
    OBVIOUS
  <2>5. DOMAIN t = D
    OBVIOUS
  <2> HIDE DEF t, D
  <2>6. ASSUME NEW x \in D, NEW y \in D, x # y
        PROVE  t[x].name # t[y].name /\ t[x].ip # t[y].ip
    <3>1. hs[x].name # hs[y].name /\ hs[x].ip # hs[y].ip
      BY <2>6 DEF Distinct, D
    <3>2. QED
      BY <1>3, <2>4, <3>1
  <2>7. Distinct(t)
    BY <2>5, <2>6 DEF Distinct
  <2>8. QED
    BY <2>1, <2>3, <2>7
<1>5. CASE n \notin NamesOf(hs)
  <2> DEFINE t == Append(hs, new)
  <2>1. Assign(hs, n, i) = t
    BY <1>5 DEF Assign
  <2>2. /\ t \in Seq(AnyHost)
        /\ DOMAIN t = 1 .. Len(hs) + 1
        /\ \A j \in D : t[j] = hs[j]
        /\ t[Len(hs) + 1] = new
    BY <1>1, <1>2
  <2>3. \A j \in D : hs[j].name # n
    BY <1>5 DEF NamesOf
  <2> HIDE DEF t
  <2>4. ASSUME NEW x \in DOMAIN t, NEW y \in DOMAIN t, x # y
        PROVE  t[x].name # t[y].name /\ t[x].ip # t[y].ip
    <3>1. CASE x \in D /\ y \in D
      BY <2>2, <2>4, <3>1 DEF Distinct
    <3>2. CASE x \in D /\ y = Len(hs) + 1
      BY <1>3, <2>2, <2>3, <3>2
    <3>3. CASE x = Len(hs) + 1 /\ y \in D
      BY <1>3, <2>2, <2>3, <3>3
    <3>4. QED
      BY <1>2, <2>2, <2>4, <3>1, <3>2, <3>3
  <2>5. Distinct(t)
    BY <2>4 DEF Distinct
  <2>6. QED
    BY <2>1, <2>2, <2>5
<1>6. QED
  BY <1>4, <1>5

\* One argument.
LEMMA ChangeKeeps ==
  ASSUME NEW acc \in Accs, NEW a \in Arg
  PROVE  Distinct(acc.hosts) => Change(acc, a) \in Accs /\ Distinct(Change(acc, a).hosts)
<1> SUFFICES ASSUME Distinct(acc.hosts)
             PROVE  Change(acc, a) \in Accs /\ Distinct(Change(acc, a).hosts)
  OBVIOUS
<1> DEFINE hs == acc.hosts
<1>1. hs \in Seq(AnyHost) /\ acc.next \in Nat /\ acc = [hosts |-> hs, next |-> acc.next]
  BY DEF Accs
<1>2. CASE a.op = "del"
  <2>1. Change(acc, a) = [hosts |-> Without(hs, a), next |-> acc.next]
    BY <1>1, <1>2 DEF Change, Accs
  <2>2. Without(hs, a) \in Seq(AnyHost) /\ Distinct(Without(hs, a))
    BY <1>1, WithoutKeeps
  <2>3. QED
    BY <1>1, <2>1, <2>2 DEF Accs
<1>3. CASE a.op # "del" /\ a.ip \in IpsOf(hs)
  BY <1>3 DEF Change
<1>4. CASE a.op # "del" /\ a.ip \notin IpsOf(hs) /\ HasName(a)
  <2>1. Change(acc, a) = [hosts |-> Assign(hs, a.name, a.ip), next |-> acc.next]
    BY <1>1, <1>4 DEF Change, Accs
  <2>2. a.name \in Nat /\ a.ip \in Ips
    BY <1>4, ArgTypes
  <2>3. Assign(hs, a.name, a.ip) \in Seq(AnyHost) /\ Distinct(Assign(hs, a.name, a.ip))
    BY <1>1, <1>4, <2>2, AssignKeeps
  <2>4. QED
    BY <1>1, <2>1, <2>3 DEF Accs
<1>5. CASE a.op # "del" /\ a.ip \notin IpsOf(hs) /\ ~HasName(a)
  <2>1. Change(acc, a) = [hosts |-> Assign(hs, acc.next, a.ip), next |-> acc.next + 1]
    BY <1>5 DEF Change
  <2>2. a.ip \in Ips
    BY <1>5, ArgTypes
  <2>3. Assign(hs, acc.next, a.ip) \in Seq(AnyHost) /\ Distinct(Assign(hs, acc.next, a.ip))
    BY <1>1, <1>5, <2>2, AssignKeeps
  <2>4. QED
    BY <1>1, <2>1, <2>3 DEF Accs
<1>6. QED
  BY <1>2, <1>3, <1>4, <1>5

\* What a command does to lists of distinct hosts, argument by argument.
Fine == {acc \in Accs : Distinct(acc.hosts)}

LEMMA ChangeFolds ==
  ASSUME NEW base \in Fine, NEW args \in Seq(Arg)
  PROVE  \E acc \in [0 .. Len(args) -> Fine] :
           /\ acc[0] = base
           /\ \A k \in 1 .. Len(args) : acc[k] = Change(acc[k - 1], args[k])
           /\ FoldLeft(Change, base, args) = acc[Len(args)]
<1> DEFINE n == Len(args)
           F(h) == [s \in SUBSET (DOMAIN args) |->
                      IF s = {} THEN base ELSE Change(h[s \ {Max(s)}], args[Max(s)])]
           it == CHOOSE h : h = F(h)
           step == [k \in 1 .. n |-> [x \in Fine |-> Change(x, args[k])]]
<1>1. n \in Nat /\ DOMAIN args = 1 .. n /\ \A k \in 1 .. n : args[k] \in Arg
  OBVIOUS
<1>2. \A k \in 1 .. n : \A x \in Fine : Change(x, args[k]) \in Fine
  BY <1>1, ChangeKeeps DEF Fine
<1>3. step \in [1 .. n -> [Fine -> Fine]]
  BY <1>2
<1>4. PICK g \in [SUBSET (1 .. n) -> Fine] : Recursive(g, n, base, step)
  <2> HIDE DEF step, n
  <2>1. QED
    BY <1>1, <1>3, FoldExists
<1>5. g = F(g)
  <2>1. ASSUME NEW s \in SUBSET (1 .. n)
        PROVE  g[s] = IF s = {} THEN base ELSE Change(g[s \ {Max(s)}], args[Max(s)])
    <3>1. g[s] = IF s = {} THEN base ELSE step[Max(s)][g[s \ {Max(s)}]]
      BY <1>4, Zenon DEF Recursive
    <3>2. CASE s # {}
      <4>1. Max(s) \in 1 .. n
        BY <1>1, <3>2, MaxExists
      <4>2. g[s \ {Max(s)}] \in Fine
        BY <1>4
      <4>3. step[Max(s)][g[s \ {Max(s)}]] = Change(g[s \ {Max(s)}], args[Max(s)])
        BY <4>1, <4>2
      <4> HIDE DEF step
      <4>4. QED
        BY <3>1, <3>2, <4>3
    <3>3. QED
      BY <3>1, <3>2
  <2>2. g = [s \in SUBSET (1 .. n) |-> g[s]]
    BY <1>4
  <2>3. QED
    BY <1>1, <2>1, <2>2, Zenon
<1>6. FoldLeft(Change, base, args) = it[DOMAIN args]
  BY Zenon DEF FoldLeft, MapThenFoldSet
<1> HIDE DEF F
<1>7. \E h : h = F(h)
  BY <1>5
<1>8. it = F(it)
  BY <1>7, Zenon
<1> HIDE DEF it
<1>9. \A s \in SUBSET (1 .. n) :
        it[s] = IF s = {} THEN base ELSE Change(it[s \ {Max(s)}], args[Max(s)])
  BY <1>1, <1>8, Zenon DEF F
<1> DEFINE acc == [k \in 0 .. n |-> it[1 .. k]]
<1>10. acc[0] = base
  <2>1. 1 .. 0 = {} /\ 0 \in 0 .. n
    BY <1>1
  <2>2. it[{}] = base
    BY <1>9
  <2>3. QED
    BY <2>1, <2>2
<1>11. ASSUME NEW k \in 1 .. n
       PROVE  acc[k] = Change(acc[k - 1], args[k])
  <2>1. 1 .. k \in SUBSET (1 .. n) /\ 1 .. k # {} /\ (1 .. k) \ {k} = 1 .. k - 1
    BY <1>1, PrefixOfPlaces
  <2>2. Max(1 .. k) = k
    BY <1>1, PrefixOfPlaces
  <2>3. it[1 .. k] = Change(it[1 .. k - 1], args[k])
    BY <1>9, <2>1, <2>2, Zenon
  <2>4. k \in 0 .. n /\ k - 1 \in 0 .. n
    BY <1>1
  <2>5. QED
    BY <2>3, <2>4
<1>12. acc[n] = it[DOMAIN args]
  BY <1>1
<1>13. acc = [k \in 0 .. n |-> acc[k]]
  OBVIOUS
<1> HIDE DEF acc, n
<1>14. \A k \in 0 .. n : acc[k] \in Fine
  <2> DEFINE P == {k \in Nat : k <= n => acc[k] \in Fine}
  <2>1. 0 \in P
    BY <1>10
  <2>2. ASSUME NEW k \in Nat, k \in P
        PROVE  k + 1 \in P
    <3> SUFFICES ASSUME k + 1 <= n PROVE acc[k + 1] \in Fine
      OBVIOUS
    <3>1. k + 1 \in 1 .. n /\ (k + 1) - 1 = k /\ k <= n
      BY <1>1
    <3>2. acc[k + 1] = Change(acc[k], args[k + 1])
      BY <1>11, <3>1
    <3>3. acc[k] \in Fine
      BY <2>2, <3>1
    <3>4. QED
      BY <1>2, <3>1, <3>2, <3>3
  <2> HIDE DEF P
  <2>3. Nat \subseteq P
    BY <2>1, <2>2, SetInduction
  <2>4. QED
    BY <1>1, <2>3 DEF P
<1>15. acc \in [0 .. n -> Fine]
  BY <1>13, <1>14
<1>16. QED
  BY <1>6, <1>10, <1>11, <1>12, <1>15 DEF n

\* Only goes through the list, too: what it has kept of the first k hosts.
LEMMA OnlyFolds ==
  ASSUME NEW hs \in Seq(AnyHost), NEW ns
  PROVE  \E kept \in [0 .. Len(hs) -> Seq(AnyHost)] :
           /\ kept[0] = <<>>
           /\ \A k \in 1 .. Len(hs) :
                kept[k] = IF hs[k].name \in ns THEN Append(kept[k - 1], hs[k])
                                               ELSE kept[k - 1]
           /\ Only(hs, ns) = kept[Len(hs)]
<1> DEFINE n == Len(hs)
           Lists == Seq(AnyHost)
           Add(x, h) == IF h.name \in ns THEN Append(x, h) ELSE x
           F(h) == [s \in SUBSET (DOMAIN hs) |->
                      IF s = {} THEN <<>> ELSE Add(h[s \ {Max(s)}], hs[Max(s)])]
           it == CHOOSE h : h = F(h)
           step == [k \in 1 .. n |-> [x \in Lists |-> Add(x, hs[k])]]
<1>1. n \in Nat /\ DOMAIN hs = 1 .. n /\ \A k \in 1 .. n : hs[k] \in AnyHost
  OBVIOUS
<1>2. \A k \in 1 .. n : \A x \in Lists : Add(x, hs[k]) \in Lists
  BY <1>1
<1>17. <<>> \in Lists
  OBVIOUS
<1> HIDE DEF Lists
<1>6. Only(hs, ns) = it[DOMAIN hs]
  BY Zenon DEF Only, FoldLeft, MapThenFoldSet
<1> HIDE DEF Add
<1>3. step \in [1 .. n -> [Lists -> Lists]]
  BY <1>2
<1>4. PICK g \in [SUBSET (1 .. n) -> Lists] : Recursive(g, n, <<>>, step)
  <2> HIDE DEF step, n
  <2>1. QED
    BY <1>1, <1>3, <1>17, FoldExists
<1>5. g = F(g)
  <2>1. ASSUME NEW s \in SUBSET (1 .. n)
        PROVE  g[s] = IF s = {} THEN <<>> ELSE Add(g[s \ {Max(s)}], hs[Max(s)])
    <3>1. g[s] = IF s = {} THEN <<>> ELSE step[Max(s)][g[s \ {Max(s)}]]
      BY <1>4, Zenon DEF Recursive
    <3>2. CASE s # {}
      <4>1. Max(s) \in 1 .. n
        BY <1>1, <3>2, MaxExists
      <4>2. g[s \ {Max(s)}] \in Lists
        BY <1>4
      <4>3. step[Max(s)][g[s \ {Max(s)}]] = Add(g[s \ {Max(s)}], hs[Max(s)])
        BY <4>1, <4>2
      <4> HIDE DEF step
      <4>4. QED
        BY <3>1, <3>2, <4>3
    <3>3. QED
      BY <3>1, <3>2
  <2>2. g = [s \in SUBSET (1 .. n) |-> g[s]]
    BY <1>4
  <2>3. QED
    BY <1>1, <2>1, <2>2, Zenon
<1> HIDE DEF F
<1>7. \E h : h = F(h)
  BY <1>5
<1>8. it = F(it)
  BY <1>7, Zenon
<1> HIDE DEF it
<1>9. \A s \in SUBSET (1 .. n) :
        it[s] = IF s = {} THEN <<>> ELSE Add(it[s \ {Max(s)}], hs[Max(s)])
  BY <1>1, <1>8, Zenon DEF F
<1> DEFINE kept == [k \in 0 .. n |-> it[1 .. k]]
<1>10. kept[0] = <<>>
  <2>1. 1 .. 0 = {} /\ 0 \in 0 .. n
    BY <1>1
  <2>2. it[{}] = <<>>
    BY <1>9
  <2>3. QED
    BY <2>1, <2>2
<1>11. ASSUME NEW k \in 1 .. n
       PROVE  kept[k] = Add(kept[k - 1], hs[k])
  <2>1. 1 .. k \in SUBSET (1 .. n) /\ 1 .. k # {} /\ (1 .. k) \ {k} = 1 .. k - 1
    BY <1>1, PrefixOfPlaces
  <2>2. Max(1 .. k) = k
    BY <1>1, PrefixOfPlaces
  <2>3. it[1 .. k] = Add(it[1 .. k - 1], hs[k])
    BY <1>9, <2>1, <2>2, Zenon
  <2>4. k \in 0 .. n /\ k - 1 \in 0 .. n
    BY <1>1
  <2>5. QED
    BY <2>3, <2>4
<1>12. kept[n] = it[DOMAIN hs]
  BY <1>1
<1>13. kept = [k \in 0 .. n |-> kept[k]]
  OBVIOUS
<1> HIDE DEF kept, n
<1>14. \A k \in 0 .. n : kept[k] \in Lists
  <2> DEFINE P == {k \in Nat : k <= n => kept[k] \in Lists}
  <2>1. 0 \in P
    BY <1>10, <1>17
  <2>2. ASSUME NEW k \in Nat, k \in P
        PROVE  k + 1 \in P
    <3> SUFFICES ASSUME k + 1 <= n PROVE kept[k + 1] \in Lists
      OBVIOUS
    <3>1. k + 1 \in 1 .. n /\ (k + 1) - 1 = k /\ k <= n
      BY <1>1
    <3>2. kept[k + 1] = Add(kept[k], hs[k + 1])
      BY <1>11, <3>1
    <3>3. kept[k] \in Lists
      BY <2>2, <3>1
    <3>4. QED
      BY <1>2, <3>1, <3>2, <3>3
  <2> HIDE DEF P
  <2>3. Nat \subseteq P
    BY <2>1, <2>2, SetInduction
  <2>4. QED
    BY <1>1, <2>3 DEF P
<1>15. kept \in [0 .. n -> Lists]
  BY <1>13, <1>14
<1>16. QED
  BY <1>6, <1>10, <1>11, <1>12, <1>15 DEF n, Add, Lists

\* One more host.
LEMMA AppendIs ==
  ASSUME NEW t \in Seq(AnyHost), NEW h \in AnyHost
  PROVE  /\ Append(t, h) \in Seq(AnyHost)
         /\ Range(Append(t, h)) = Range(t) \cup {h}
         /\ DOMAIN Append(t, h) = DOMAIN t \cup {Len(t) + 1}
         /\ \A j \in DOMAIN t : Append(t, h)[j] = t[j]
         /\ Append(t, h)[Len(t) + 1] = h
<1> DEFINE a == Append(t, h)
<1>1. /\ a \in Seq(AnyHost)
      /\ DOMAIN a = 1 .. Len(t) + 1
      /\ DOMAIN t = 1 .. Len(t)
      /\ Len(t) \in Nat
      /\ \A j \in 1 .. Len(t) : a[j] = t[j]
      /\ a[Len(t) + 1] = h
  OBVIOUS
<1>2. DOMAIN a = DOMAIN t \cup {Len(t) + 1}
  BY <1>1
<1> HIDE DEF a
<1>3. Range(a) = Range(t) \cup {h}
  BY <1>1, <1>2 DEF Range
<1>4. QED
  BY <1>1, <1>2, <1>3 DEF a

\* What Only keeps: the hosts of these names, each as often as it was there.
LEMMA OnlyKeeps ==
  ASSUME NEW hs \in Seq(AnyHost), Distinct(hs), NEW ns
  PROVE  /\ Only(hs, ns) \in Seq(AnyHost)
         /\ Distinct(Only(hs, ns))
         /\ Range(Only(hs, ns)) = {h \in Range(hs) : h.name \in ns}
<1> DEFINE n == Len(hs)
           Kept(k) == {hs[j] : j \in {x \in 1 .. k : hs[x].name \in ns}}
<1>1. n \in Nat /\ DOMAIN hs = 1 .. n /\ \A k \in 1 .. n : hs[k] \in AnyHost
  OBVIOUS
<1>2. PICK kept \in [0 .. n -> Seq(AnyHost)] :
         /\ kept[0] = <<>>
         /\ \A k \in 1 .. n :
              kept[k] = IF hs[k].name \in ns THEN Append(kept[k - 1], hs[k])
                                             ELSE kept[k - 1]
         /\ Only(hs, ns) = kept[n]
  BY OnlyFolds
<1> DEFINE P == {k \in Nat : k <= n => Distinct(kept[k]) /\ Range(kept[k]) = Kept(k)}
<1> HIDE DEF n
<1>3. 0 \in P
  BY <1>2 DEF Distinct, Range
<1>4. ASSUME NEW k \in Nat, k \in P
      PROVE  k + 1 \in P
  <2> SUFFICES ASSUME k + 1 <= n
               PROVE  Distinct(kept[k + 1]) /\ Range(kept[k + 1]) = Kept(k + 1)
    <3> HIDE DEF Kept
    <3>1. QED
      OBVIOUS
  <2> DEFINE t == kept[k]
             h == hs[k + 1]
  <2>1. k + 1 \in 1 .. n /\ (k + 1) - 1 = k /\ k <= n /\ k \in 0 .. n
    BY <1>1
  <2>2. Distinct(t) /\ Range(t) = Kept(k)
    <3> HIDE DEF Kept
    <3>1. QED
      BY <1>4, <2>1
  <2>3. kept[k + 1] = IF h.name \in ns THEN Append(t, h) ELSE t
    BY <1>2, <2>1
  <2>4. t \in Seq(AnyHost) /\ h \in AnyHost
    BY <1>1, <1>2, <2>1
  <2>5. 1 .. k + 1 = (1 .. k) \cup {k + 1}
    OBVIOUS
  <2>6. CASE h.name \notin ns
    <3>1. Kept(k + 1) = Kept(k)
      BY <2>5, <2>6
    <3> HIDE DEF Kept, t
    <3>2. QED
      BY <2>2, <2>3, <2>6, <3>1
  <2>7. CASE h.name \in ns
    <3>1. Kept(k + 1) = Kept(k) \cup {h}
      BY <2>5, <2>7
    <3>2. \A j \in DOMAIN t : t[j].name # h.name /\ t[j].ip # h.ip
      <4> SUFFICES ASSUME NEW j \in DOMAIN t
                   PROVE  t[j].name # h.name /\ t[j].ip # h.ip
        OBVIOUS
      <4>1. t[j] \in Kept(k)
        BY <2>2 DEF Range
      <4>2. PICK x \in 1 .. k : t[j] = hs[x]
        BY <4>1
      <4>3. x \in DOMAIN hs /\ k + 1 \in DOMAIN hs /\ x # k + 1
        BY <1>1, <2>1
      <4>4. QED
        BY <4>2, <4>3 DEF Distinct
    <3> HIDE DEF Kept, t, h
    <3> DEFINE a == Append(t, h)
    <3>3. /\ Range(a) = Range(t) \cup {h}
          /\ DOMAIN a = DOMAIN t \cup {Len(t) + 1}
          /\ \A j \in DOMAIN t : a[j] = t[j]
          /\ a[Len(t) + 1] = h
      BY <2>4, AppendIs
    <3> HIDE DEF a
    <3>4. ASSUME NEW x \in DOMAIN a, NEW y \in DOMAIN a, x # y
          PROVE  a[x].name # a[y].name /\ a[x].ip # a[y].ip
      <4>1. CASE x \in DOMAIN t /\ y \in DOMAIN t
        BY <2>2, <3>3, <3>4, <4>1 DEF Distinct
      <4>2. CASE x \in DOMAIN t /\ y = Len(t) + 1
        BY <3>2, <3>3, <4>2
      <4>3. CASE x = Len(t) + 1 /\ y \in DOMAIN t
        BY <3>2, <3>3, <4>3
      <4>4. QED
        BY <3>3, <3>4, <4>1, <4>2, <4>3
    <3>5. Distinct(a)
      BY <3>4 DEF Distinct
    <3>6. kept[k + 1] = a
      BY <2>3, <2>7 DEF a
    <3>7. QED
      BY <2>2, <3>1, <3>3, <3>5, <3>6
  <2>8. QED
    BY <2>6, <2>7
<1> HIDE DEF P
<1>5. n \in P
  BY <1>1, <1>3, <1>4, SetInduction
<1>6. Distinct(kept[n]) /\ Range(kept[n]) = Kept(n)
  <2> HIDE DEF Kept
  <2>1. QED
    BY <1>1, <1>5 DEF P
<1>7. Kept(n) = {h \in Range(hs) : h.name \in ns}
  BY <1>1 DEF Range
<1>8. kept[n] \in Seq(AnyHost)
  BY <1>1, <1>2
<1>9. QED
  BY <1>2, <1>6, <1>7, <1>8

\* Distinct lists of the same names are equally long.
LEMMA CountOfNames ==
  ASSUME NEW hs \in Seq(AnyHost), Distinct(hs), NEW k \in 0 .. Len(hs)
  PROVE  IsFiniteSet(FirstNames(hs, k)) /\ Cardinality(FirstNames(hs, k)) = k
<1> DEFINE D == 1 .. k
           f == [j \in D |-> hs[j].name]
           N == FirstNames(hs, k)
<1>1. Len(hs) \in Nat /\ DOMAIN hs = 1 .. Len(hs) /\ k \in Nat
  OBVIOUS
<1>2. {x \in DOMAIN hs : x <= k} = D
  BY <1>1
<1>3. N = {hs[j].name : j \in D}
  BY <1>2 DEF FirstNames
<1>4. f \in [D -> N]
  BY <1>3
<1>5. \A x, y \in D : f[x] = f[y] => x = y
  BY <1>1 DEF Distinct
<1>6. \A m \in N : \E x \in D : f[x] = m
  BY <1>3
<1> HIDE DEF f, N
<1>7. f \in Bijection(D, N)
  BY <1>4, <1>5, <1>6 DEF Bijection, Injection, Surjection, IsInjective
<1>8. IsFiniteSet(D) /\ Cardinality(D) = k
  BY <1>1, FS_Interval
<1>9. ExistsBijection(D, N)
  BY <1>7 DEF ExistsBijection
<1> HIDE DEF D
<1>10. IsFiniteSet(N) /\ Cardinality(N) = k
  BY <1>8, <1>9, FS_Bijection
<1>11. QED
  BY <1>10 DEF N

LEMMA NamesAreFirst ==
  ASSUME NEW hs \in Seq(AnyHost)
  PROVE  NamesOf(hs) = FirstNames(hs, Len(hs))
BY DEF NamesOf, FirstNames

\* The next number is free, and so are those behind it.
LEMMA NextIdIsFree ==
  ASSUME NEW hs \in Seq(Host)
  PROVE  NextId(hs) \in Nat /\ \A m \in NamesOf(hs) : m < NextId(hs)
<1> DEFINE S == NamesOf(hs) \cup {0}
           T == {x + 1 : x \in S}
<1>1. S \in SUBSET (0 .. MaxId) /\ MaxId \in Nat
  <2>1. MaxId \in Nat
    BY BoundsAssumption
  <2>2. \A j \in DOMAIN hs : hs[j] \in Host
    OBVIOUS
  <2>3. \A h \in Host : h.name \in 0 .. MaxId
    BY DEF Host, Names
  <2>4. NamesOf(hs) \in SUBSET (0 .. MaxId)
    BY <2>2, <2>3 DEF NamesOf
  <2>5. 0 \in 0 .. MaxId
    BY <2>1
  <2>6. QED
    BY <2>1, <2>4, <2>5
<1>2. T \in SUBSET (1 .. MaxId + 1) /\ T # {} /\ MaxId + 1 \in Nat
  <2> HIDE DEF S
  <2>1. \A x \in S : x + 1 \in 1 .. MaxId + 1
    BY <1>1
  <2>2. 0 \in S
    BY DEF S
  <2>3. QED
    BY <1>1, <2>1, <2>2
<1>3. \A x \in S : x + 1 \in T
  OBVIOUS
<1>4. \A n \in T : n - 1 \in S
  <2> HIDE DEF S
  <2>1. QED
    BY <1>1
<1>5. 0 \in S /\ NamesOf(hs) \subseteq S
  OBVIOUS
<1> HIDE DEF T
<1>6. PICK n \in T : \A y \in T : y <= n
  BY <1>2, GreatestExists
<1>7. n \in 1 .. MaxId + 1 /\ n - 1 \in S
  BY <1>2, <1>4, <1>6
<1>8. \A m \in NamesOf(hs) : m < n
  <2> HIDE DEF S
  <2> SUFFICES ASSUME NEW m \in NamesOf(hs) PROVE m < n
    OBVIOUS
  <2>1. m \in S /\ m + 1 <= n
    BY <1>3, <1>5, <1>6
  <2>2. m \in Nat /\ n \in Nat
    BY <1>1, <1>7, <2>1
  <2>3. QED
    BY <2>1, <2>2
<1>9. /\ NextId(hs) \in 1 .. MaxId + 1
      /\ \A m \in NamesOf(hs) : m < NextId(hs)
  BY <1>7, <1>8 DEF NextId
<1>10. QED
  BY <1>1, <1>9

-----------------------------------------------------------------------------
(* The file                                                                  *)

\* The file lists the hosts of the command, each once: in another order, if the
\* file had some of them.
LEMMA WrittenLists ==
  ASSUME NEW old \in Seq(AnyHost), Distinct(old), NEW hs \in Seq(AnyHost), Distinct(hs)
  PROVE  /\ Written(old, hs) \in Seq(AnyHost)
         /\ Distinct(Written(old, hs))
         /\ Range(Written(old, hs)) = Range(hs)
<1> DEFINE kept == Only(old, NamesOf(hs))
           placed == [j \in DOMAIN kept |-> Named(hs, kept[j].name)]
           added == Only(hs, NamesOf(hs) \ NamesOf(old))
           file == placed \o added
<1>1. /\ kept \in Seq(AnyHost)
      /\ Distinct(kept)
      /\ Range(kept) = {h \in Range(old) : h.name \in NamesOf(hs)}
  BY OnlyKeeps
<1>2. /\ added \in Seq(AnyHost)
      /\ Distinct(added)
      /\ Range(added) = {h \in Range(hs) : h.name \in NamesOf(hs) \ NamesOf(old)}
  BY OnlyKeeps
<1>3. \A h \in Range(hs) : h \in AnyHost /\ h.name \in NamesOf(hs)
  BY DEF Range, NamesOf
<1>4. \A x, y \in Range(hs) : x # y => x.name # y.name /\ x.ip # y.ip
  BY DEF Range, Distinct
<1>5. \A m \in NamesOf(hs) : Named(hs, m) \in Range(hs) /\ Named(hs, m).name = m
  <2> SUFFICES ASSUME NEW m \in NamesOf(hs)
               PROVE  Named(hs, m) \in Range(hs) /\ Named(hs, m).name = m
    OBVIOUS
  <2>1. \E h \in Range(hs) : h.name = m
    BY DEF Range, NamesOf
  <2>2. QED
    BY <2>1 DEF Named
<1>6. \A j \in DOMAIN kept : kept[j].name \in NamesOf(hs) \cap NamesOf(old)
  <2> SUFFICES ASSUME NEW j \in DOMAIN kept
               PROVE  kept[j].name \in NamesOf(hs) \cap NamesOf(old)
    OBVIOUS
  <2>1. kept[j] \in Range(kept)
    BY DEF Range
  <2>2. kept[j] \in Range(old) /\ kept[j].name \in NamesOf(hs)
    BY <1>1, <2>1
  <2>3. QED
    BY <2>2 DEF Range, NamesOf
<1> HIDE DEF kept, added
<1>7. /\ placed \in Seq(AnyHost)
      /\ DOMAIN placed = DOMAIN kept
      /\ Len(placed) = Len(kept)
      /\ \A j \in DOMAIN placed : placed[j] \in Range(hs) /\ placed[j].name = kept[j].name
  <2>1. DOMAIN kept = 1 .. Len(kept) /\ Len(kept) \in Nat
    BY <1>1
  <2>2. \A j \in DOMAIN kept : placed[j] \in Range(hs) /\ placed[j].name = kept[j].name
    BY <1>5, <1>6
  <2>3. placed \in [1 .. Len(kept) -> AnyHost]
    BY <1>3, <2>1, <2>2
  <2>4. placed \in Seq(AnyHost) /\ Len(placed) = Len(kept)
    BY <2>1, <2>3
  <2>5. QED
    BY <2>2, <2>4
<1>8. \A j \in DOMAIN added :
        added[j] \in Range(hs) /\ added[j].name \notin NamesOf(old)
  <2>1. \A j \in DOMAIN added : added[j] \in Range(added)
    BY DEF Range
  <2>2. QED
    BY <1>2, <2>1
<1>9. \A h \in Range(hs) : h.name \in NamesOf(old) =>
                             \E j \in DOMAIN placed : placed[j] = h
  <2> SUFFICES ASSUME NEW h \in Range(hs), h.name \in NamesOf(old)
               PROVE  \E j \in DOMAIN placed : placed[j] = h
    OBVIOUS
  <2>1. PICK i \in DOMAIN old : old[i].name = h.name
    BY DEF NamesOf
  <2>2. old[i] \in Range(old) /\ old[i].name \in NamesOf(hs)
    BY <1>3, <2>1 DEF Range
  <2>3. old[i] \in Range(kept)
    BY <1>1, <2>2
  <2>4. PICK j \in DOMAIN kept : kept[j] = old[i]
    BY <2>3 DEF Range
  <2>5. placed[j] \in Range(hs) /\ placed[j].name = h.name
    BY <1>7, <2>1, <2>4
  <2>6. placed[j] = h
    BY <1>4, <2>5
  <2>7. QED
    BY <1>7, <2>4, <2>6
<1>10. \A h \in Range(hs) : h.name \notin NamesOf(old) =>
                              \E j \in DOMAIN added : added[j] = h
  <2> SUFFICES ASSUME NEW h \in Range(hs), h.name \notin NamesOf(old)
               PROVE  \E j \in DOMAIN added : added[j] = h
    OBVIOUS
  <2>1. h \in Range(added)
    BY <1>2, <1>3
  <2>2. QED
    BY <2>1 DEF Range
<1>11. \A i, j \in DOMAIN placed : i # j => placed[i] # placed[j]
  BY <1>1, <1>7 DEF Distinct
<1>12. \A i, j \in DOMAIN added : i # j => added[i] # added[j]
  BY <1>2 DEF Distinct
<1>13. \A i \in DOMAIN placed : \A j \in DOMAIN added : placed[i] # added[j]
  BY <1>6, <1>7, <1>8
<1> HIDE DEF placed
<1>14. /\ file \in Seq(AnyHost)
       /\ DOMAIN file = 1 .. Len(placed) + Len(added)
       /\ DOMAIN placed = 1 .. Len(placed)
       /\ DOMAIN added = 1 .. Len(added)
       /\ Len(placed) \in Nat /\ Len(added) \in Nat
       /\ \A j \in DOMAIN file :
            file[j] = IF j <= Len(placed) THEN placed[j] ELSE added[j - Len(placed)]
  <2>1. Len(file) = Len(placed) + Len(added) /\ file \in Seq(AnyHost)
    BY <1>2, <1>7, ConcatProperties
  <2>2. DOMAIN file = 1 .. Len(file)
    BY <2>1
  <2>3. QED
    BY <1>2, <1>7, <2>1, <2>2, ConcatProperties
<1> HIDE DEF file
<1>15. ASSUME NEW j \in DOMAIN file
       PROVE  \/ j \in DOMAIN placed /\ file[j] = placed[j]
              \/ /\ j \notin DOMAIN placed
                 /\ j - Len(placed) \in DOMAIN added
                 /\ file[j] = added[j - Len(placed)]
  BY <1>14
<1>16. ASSUME NEW i \in DOMAIN file, NEW j \in DOMAIN file, i # j
       PROVE  file[i] # file[j] /\ file[i] \in Range(hs) /\ file[j] \in Range(hs)
  <2>1. i \in Int /\ j \in Int /\ Len(placed) \in Int
    BY <1>14
  <2>2. i - Len(placed) # j - Len(placed)
    BY <1>16, <2>1
  <2>3. CASE i \in DOMAIN placed /\ j \in DOMAIN placed
    BY <1>7, <1>11, <1>15, <1>16, <2>3
  <2>4. CASE i \in DOMAIN placed /\ j \notin DOMAIN placed
    BY <1>7, <1>8, <1>13, <1>15, <2>4
  <2>5. CASE i \notin DOMAIN placed /\ j \in DOMAIN placed
    BY <1>7, <1>8, <1>13, <1>15, <2>5
  <2>6. CASE i \notin DOMAIN placed /\ j \notin DOMAIN placed
    BY <1>8, <1>12, <1>15, <2>2, <2>6
  <2>7. QED
    BY <2>3, <2>4, <2>5, <2>6
<1>17. Distinct(file)
  BY <1>4, <1>16 DEF Distinct
<1>18. Range(file) = Range(hs)
  <2>1. ASSUME NEW j \in DOMAIN file
        PROVE  file[j] \in Range(hs)
    BY <1>7, <1>8, <1>15
  <2>2. ASSUME NEW h \in Range(hs)
        PROVE  \E j \in DOMAIN file : file[j] = h
    <3>1. CASE h.name \in NamesOf(old)
      <4>1. PICK j \in DOMAIN placed : placed[j] = h
        BY <1>9, <3>1
      <4>2. j \in DOMAIN file
        BY <1>14
      <4>3. QED
        BY <1>15, <4>1, <4>2
    <3>2. CASE h.name \notin NamesOf(old)
      <4>1. PICK j \in DOMAIN added : added[j] = h
        BY <1>10, <3>2
      <4>2. j + Len(placed) \in DOMAIN file /\ (j + Len(placed)) - Len(placed) = j
        BY <1>14
      <4>3. ~(j + Len(placed) <= Len(placed))
        BY <1>14
      <4>4. file[j + Len(placed)] = added[j]
        BY <1>14, <4>2, <4>3
      <4>5. QED
        BY <4>1, <4>2, <4>4
    <3>3. QED
      BY <3>1, <3>2
  <2>3. QED
    BY <2>1, <2>2 DEF Range
<1>19. Written(old, hs) = file
  BY DEF Written, file, placed, added, kept
<1>20. QED
  BY <1>14, <1>17, <1>18, <1>19

\* Two distinct lists of the same hosts.
LEMMA SameHosts ==
  ASSUME NEW s \in Seq(AnyHost), Distinct(s), NEW t \in Seq(AnyHost), Distinct(t),
         Range(s) = Range(t)
  PROVE  /\ NamesOf(s) = NamesOf(t)
         /\ IpsOf(s) = IpsOf(t)
         /\ Len(s) = Len(t)
<1>1. /\ NamesOf(s) = {h.name : h \in Range(s)} /\ IpsOf(s) = {h.ip : h \in Range(s)}
      /\ NamesOf(t) = {h.name : h \in Range(t)} /\ IpsOf(t) = {h.ip : h \in Range(t)}
  BY DEF NamesOf, IpsOf, Range
<1>2. Len(s) \in 0 .. Len(s) /\ Len(t) \in 0 .. Len(t)
  OBVIOUS
<1>3. Cardinality(NamesOf(s)) = Len(s) /\ Cardinality(NamesOf(t)) = Len(t)
  BY <1>2, CountOfNames, NamesAreFirst
<1>4. QED
  BY <1>1, <1>3

\* The groups of a command: hosts of its list, and enough of them.
LEMMA AssignedIsManned ==
  ASSUME NEW old \in [Roles -> SUBSET Nat], NEW hs \in Seq(AnyHost), Distinct(hs)
  PROVE  /\ Assigned(old, hs) \in [Roles -> SUBSET NamesOf(hs)]
         /\ hs # <<>> =>
              /\ Cardinality(Assigned(old, hs)["etcd"]) >= IF Len(hs) >= 3 THEN 3 ELSE 1
              /\ Assigned(old, hs)["kube_control_plane"] # {}
<1> DEFINE n == Len(hs)
           m == Members(hs)
           scaled == n >= SCALE_THRESHOLD
           new == Assigned(old, hs)
           first == FirstNames(hs, m)
<1>1. n \in Nat /\ DOMAIN hs = 1 .. n
  OBVIOUS
<1>2. \A k \in Nat : FirstNames(hs, k) \subseteq NamesOf(hs)
  BY DEF FirstNames, NamesOf
<1>3. m \in {1, 3} /\ m \in Nat /\ KUBE_CONTROL_HOSTS \in Nat \ {0}
  BY ThresholdsAssumption DEF Members
<1>4. DOMAIN new = Roles
  BY DEF Assigned, Roles
<1>5. \A r \in Roles : Keep(old[r], hs) \subseteq NamesOf(hs)
  BY DEF Keep
<1>6. /\ new["etcd"] = Keep(old["etcd"], hs) \cup first
      /\ new["etcd"] \subseteq NamesOf(hs)
  BY <1>2, <1>3, <1>5 DEF Assigned, Roles
<1>7. new["kube_control_plane"] =
        Keep(old["kube_control_plane"], hs) \cup
          IF scaled THEN FirstNames(hs, m + KUBE_CONTROL_HOSTS) \ first
          ELSE FirstNames(hs, KUBE_CONTROL_HOSTS)
  BY DEF Assigned
<1>8. new["kube_control_plane"] \subseteq NamesOf(hs)
  <2>1. m + KUBE_CONTROL_HOSTS \in Nat
    BY <1>3
  <2>2. "kube_control_plane" \in Roles
    BY DEF Roles
  <2> HIDE DEF new, m, first, scaled
  <2>3. QED
    BY <1>2, <1>3, <1>5, <1>7, <2>1, <2>2
<1>9. new["kube_node"] \subseteq NamesOf(hs)
  BY <1>5 DEF Assigned, Roles
<1>10. new["calico_rr"] \subseteq NamesOf(hs)
  BY <1>2, <1>3, <1>5 DEF Assigned, Roles
<1>11. new = [r \in Roles |-> new[r]]
  BY DEF Assigned, Roles
<1> HIDE DEF new
<1>12. new \in [Roles -> SUBSET NamesOf(hs)]
  BY <1>6, <1>8, <1>9, <1>10, <1>11 DEF Roles
<1>13. ASSUME hs # <<>>
       PROVE  Cardinality(new["etcd"]) >= IF n >= 3 THEN 3 ELSE 1
  <2>1. n >= 1
    BY <1>1, <1>13
  <2>2. m \in 0 .. n /\ m = IF n >= 3 THEN 3 ELSE 1
    BY <1>1, <2>1 DEF Members
  <2>3. IsFiniteSet(first) /\ Cardinality(first) = m
    BY <2>2, CountOfNames
  <2>4. IsFiniteSet(NamesOf(hs))
    <3>1. n \in 0 .. n
      BY <1>1
    <3>2. QED
      BY <3>1, CountOfNames, NamesAreFirst
  <2> HIDE DEF first, m
  <2>5. IsFiniteSet(new["etcd"]) /\ first \subseteq new["etcd"]
    BY <1>6, <2>4, FS_Subset
  <2>6. Cardinality(first) <= Cardinality(new["etcd"])
    BY <2>5, FS_Subset
  <2>7. Cardinality(new["etcd"]) \in Nat
    BY <2>5, FS_CardinalityType
  <2>8. QED
    BY <1>3, <2>2, <2>3, <2>6, <2>7
<1>14. ASSUME hs # <<>>
       PROVE  new["kube_control_plane"] # {}
  <2>1. n >= 1
    BY <1>1, <1>14
  <2>2. CASE scaled
    <3> DEFINE h == hs[m + 1].name
    <3>1. m + 1 \in 1 .. n /\ m + 1 <= m + KUBE_CONTROL_HOSTS /\ ~(m + 1 <= m)
      BY <1>1, <1>3, <2>2, ThresholdsAssumption
    <3>2. h \in FirstNames(hs, m + KUBE_CONTROL_HOSTS)
      BY <1>1, <3>1 DEF FirstNames
    <3>3. h \notin first
      <4> SUFFICES ASSUME NEW j \in DOMAIN hs, j <= m, hs[j].name = h PROVE FALSE
        BY DEF FirstNames
      <4>1. j = m + 1
        BY <1>1, <3>1 DEF Distinct
      <4>2. QED
        BY <3>1, <4>1
    <3> HIDE DEF h, first, m, scaled
    <3>4. QED
      BY <1>7, <2>2, <3>2, <3>3
  <2>3. CASE ~scaled
    <3>1. hs[1].name \in FirstNames(hs, KUBE_CONTROL_HOSTS)
      BY <1>1, <1>3, <2>1 DEF FirstNames
    <3> HIDE DEF scaled, first
    <3>2. QED
      BY <1>7, <2>3, <3>1
  <2>4. QED
    BY <2>2, <2>3
<1>15. QED
  BY <1>12, <1>13, <1>14 DEF new

-----------------------------------------------------------------------------
(* The inductive invariant                                                   *)

\* Any command line at all, and any file of distinct hosts.
AnyNext ==
  \/ \E add \in BOOLEAN : \E args \in Seq(Arg) \ {<<>>} : Command(add, args)
  \/ \E hs \in Seq(Host) : \E groups \in [Roles -> SUBSET NamesOf(hs)] :
       Distinct(hs) /\ Load(hs, groups)

AnySpec == Init /\ [][AnyNext]_vars

Inv == TypeOK /\ RolesAreHosts /\ Distinct(hosts) /\ EveryRoleIsManned

LEMMA HostTypes ==
  /\ Names \subseteq Nat
  /\ Host \subseteq AnyHost
  /\ Seq(Host) \subseteq Seq(AnyHost)
<1>1. Names \subseteq Nat
  BY BoundsAssumption DEF Names
<1>2. Host \subseteq AnyHost
  BY <1>1 DEF Host, AnyHost
<1>3. QED
  BY <1>1, <1>2

\* The fold of a command starts and ends with distinct hosts.
LEMMA FoldIsFine ==
  ASSUME NEW hs \in Seq(Host), Distinct(hs), NEW args \in Seq(Arg)
  PROVE  /\ [hosts |-> hs, next |-> NextId(hs)] \in Fine
         /\ FoldLeft(Change, [hosts |-> hs, next |-> NextId(hs)], args) \in Fine
<1> DEFINE base == [hosts |-> hs, next |-> NextId(hs)]
<1>1. base \in Fine
  BY HostTypes, NextIdIsFree DEF Fine, Accs
<1> HIDE DEF base
<1>2. PICK acc \in [0 .. Len(args) -> Fine] : FoldLeft(Change, base, args) = acc[Len(args)]
  BY <1>1, ChangeFolds
<1>3. Len(args) \in 0 .. Len(args)
  OBVIOUS
<1>4. QED
  BY <1>1, <1>2, <1>3 DEF base

LEMMA InitIsInv == Init => Inv
<1> SUFFICES ASSUME Init PROVE Inv
  OBVIOUS
<1>1. TypeOK
  BY DEF Init, TypeOK, NoRoles
<1>2. RolesAreHosts /\ Distinct(hosts) /\ EveryRoleIsManned
  BY DEF Init, RolesAreHosts, Distinct, EveryRoleIsManned, NoRoles
<1>3. QED
  BY <1>1, <1>2 DEF Inv

LEMMA CommandKeepsInv ==
  ASSUME Inv, NEW add \in BOOLEAN, NEW args \in Seq(Arg) \ {<<>>}, Command(add, args)
  PROVE  Inv'
<1> DEFINE base == Base(add, args)
           acc == FoldLeft(Change, [hosts |-> base, next |-> NextId(base)], args)
           hs == acc.hosts
           old == IF Loads(add, args) THEN role ELSE NoRoles
<1>1. base \in Seq(Host) /\ Distinct(base)
  <2>1. <<>> \in Seq(Host) /\ Distinct(<<>>)
    BY DEF Distinct
  <2>2. QED
    BY <2>1 DEF Inv, TypeOK, Base
<1>2. acc \in Fine
  BY <1>1, FoldIsFine
<1>3. hs \in Seq(AnyHost) /\ Distinct(hs)
  BY <1>2 DEF Fine, Accs
<1>4. NamesOf(hs) \subseteq Names /\ hosts' = Written(base, hs) /\ writer' = "hosts"
      /\ role' = Assigned(old, hs)
  BY DEF Command
<1>5. old \in [Roles -> SUBSET Nat]
  BY HostTypes DEF Inv, TypeOK, NoRoles
<1>6. base \in Seq(AnyHost)
  BY <1>1, HostTypes
<1> HIDE DEF base, acc, hs, old
<1>7. hosts' \in Seq(AnyHost) /\ Distinct(hosts') /\ Range(hosts') = Range(hs)
  BY <1>1, <1>3, <1>4, <1>6, WrittenLists
<1>8. NamesOf(hosts') = NamesOf(hs) /\ Len(hosts') = Len(hs)
  BY <1>3, <1>7, SameHosts
<1> DEFINE new == Assigned(old, hs)
<1>9. /\ new \in [Roles -> SUBSET NamesOf(hs)]
      /\ hs # <<>> => /\ Cardinality(new["etcd"]) >= IF Len(hs) >= 3 THEN 3 ELSE 1
                      /\ new["kube_control_plane"] # {}
  BY <1>3, <1>5, AssignedIsManned
<1> HIDE DEF new
<1>15. role' = new
  BY <1>4 DEF new
<1>10. hosts' \in Seq(Host)
  <2>1. DOMAIN hosts' = 1 .. Len(hosts') /\ Len(hosts') \in Nat
    BY <1>7
  <2>2. \A j \in DOMAIN hosts' : hosts'[j] \in AnyHost /\ hosts'[j].name \in NamesOf(hosts')
    BY <1>7 DEF NamesOf
  <2>3. \A j \in DOMAIN hosts' : hosts'[j] \in Host
    BY <1>4, <1>8, <2>2 DEF AnyHost, Host
  <2>4. QED
    BY <1>7, <2>1, <2>3
<1>11. TypeOK'
  BY <1>4, <1>9, <1>10, <1>15 DEF TypeOK
<1>12. RolesAreHosts'
  BY <1>8, <1>9, <1>15 DEF RolesAreHosts
<1>13. EveryRoleIsManned'
  <2> SUFFICES ASSUME hosts' # <<>>
               PROVE  /\ Cardinality(new["etcd"]) >= IF Len(hosts') >= 3 THEN 3 ELSE 1
                      /\ new["kube_control_plane"] # {}
    BY <1>15 DEF EveryRoleIsManned
  <2>1. Len(hosts') # 0
    BY <1>7
  <2>2. hs # <<>>
    BY <1>8, <2>1
  <2>3. QED
    BY <1>8, <1>9, <2>2
<1>14. QED
  BY <1>7, <1>11, <1>12, <1>13 DEF Inv

LEMMA LoadKeepsInv ==
  ASSUME Inv, NEW hs \in Seq(Host), Distinct(hs),
         NEW groups \in [Roles -> SUBSET NamesOf(hs)], Load(hs, groups)
  PROVE  Inv'
<1>1. NamesOf(hs) \subseteq Names
  <2>1. \A j \in DOMAIN hs : hs[j] \in Host
    OBVIOUS
  <2>2. QED
    BY <2>1 DEF NamesOf, Host
<1>2. writer' = "load" /\ hosts' = hs /\ role' = groups
  BY DEF Load
<1>3. TypeOK'
  BY <1>1, <1>2 DEF TypeOK
<1>4. RolesAreHosts' /\ Distinct(hosts)' /\ EveryRoleIsManned'
  BY <1>2 DEF RolesAreHosts, EveryRoleIsManned
<1>5. QED
  BY <1>3, <1>4 DEF Inv

LEMMA AnyInv == AnySpec => []Inv
<1>1. Inv /\ [AnyNext]_vars => Inv'
  <2> SUFFICES ASSUME Inv, [AnyNext]_vars PROVE Inv'
    OBVIOUS
  <2>1. CASE UNCHANGED vars
    BY <2>1 DEF vars, Inv, TypeOK, RolesAreHosts, Distinct, EveryRoleIsManned
  <2>2. CASE AnyNext
    BY <2>2, CommandKeepsInv, LoadKeepsInv DEF AnyNext
  <2>3. QED
    BY <2>1, <2>2
<1>2. QED
  BY <1>1, InitIsInv, PTL DEF AnySpec

-----------------------------------------------------------------------------
(* Adding addresses                                                          *)

\* SetToSeq lists all of a finite set.
LEMMA ListOfSet ==
  ASSUME NEW S, IsFiniteSet(S)
  PROVE  SetToSeq(S) \in [1 .. Cardinality(S) -> S] /\ Range(SetToSeq(S)) = S
<1> DEFINE n == Cardinality(S)
           D == 1 .. n
           list == SetToSeq(S)
<1>1. n \in Nat
  BY FS_CardinalityType
<1>2. \E f \in [D -> S] : IsInjective(f)
  <2>1. PICK m \in Nat : ExistsBijection(1 .. m, S)
    BY FS_NatBijection
  <2>2. m = n
    BY <2>1, FS_CountingElements
  <2>3. QED
    BY <2>1, <2>2 DEF ExistsBijection, Bijection, Injection
<1>3. list \in [D -> S] /\ IsInjective(list)
  BY <1>2 DEF SetToSeq
<1>4. IsFiniteSet(D) /\ Cardinality(D) = n
  BY <1>1, FS_Interval
<1> HIDE DEF list, D
<1>5. list \in Injection(D, S)
  BY <1>3 DEF Injection
<1>6. list \in Surjection(D, S)
  BY <1>4, <1>5, FS_Injection
<1>7. Range(list) = S
  BY <1>3, <1>6 DEF Surjection, Range
<1>8. QED
  BY <1>3, <1>7 DEF list, D

\* One address, if the next number is behind all names.
LEMMA AddressIsAdded ==
  ASSUME NEW acc \in Fine, \A m \in NamesOf(acc.hosts) : m < acc.next, NEW i \in Ips
  PROVE  LET new == Change(acc, [op |-> "add", ip |-> i])
         IN /\ \A m \in NamesOf(new.hosts) : m < new.next
            /\ Range(acc.hosts) \subseteq Range(new.hosts)
            /\ IpsOf(new.hosts) = IpsOf(acc.hosts) \cup {i}
<1> DEFINE a == [op |-> "add", ip |-> i]
           new == Change(acc, a)
           hs == acc.hosts
           host == [name |-> acc.next, ip |-> i]
<1>1. a.op = "add" /\ a.ip = i /\ ~HasName(a)
  BY DEF HasName
<1>2. hs \in Seq(AnyHost) /\ acc.next \in Nat
  BY DEF Fine, Accs
<1>3. \A t : IpsOf(t) = {h.ip : h \in Range(t)} /\ NamesOf(t) = {h.name : h \in Range(t)}
  BY DEF IpsOf, NamesOf, Range
<1> HIDE DEF a
<1>4. CASE i \in IpsOf(hs)
  <2>1. new = acc
    BY <1>1, <1>4 DEF Change
  <2> HIDE DEF new
  <2>2. QED
    BY <1>4, <2>1 DEF new, a
<1>5. CASE i \notin IpsOf(hs)
  <2>1. new = [hosts |-> Assign(hs, acc.next, i), next |-> acc.next + 1]
    BY <1>1, <1>5 DEF Change
  <2>2. acc.next \notin NamesOf(hs)
    BY <1>2
  <2>3. new.hosts = Append(hs, host) /\ new.next = acc.next + 1
    BY <2>1, <2>2 DEF Assign
  <2>4. host \in AnyHost
    BY <1>2 DEF AnyHost
  <2> HIDE DEF new, host
  <2>5. Range(new.hosts) = Range(hs) \cup {host}
    BY <1>2, <2>3, <2>4, AppendIs
  <2>6. IpsOf(new.hosts) = IpsOf(hs) \cup {i}
    <3>1. host.ip = i
      BY DEF host
    <3> HIDE DEF hs
    <3>2. QED
      BY <1>3, <2>5, <3>1
  <2>7. \A m \in NamesOf(new.hosts) : m < new.next
    <3>1. host.name = acc.next
      BY DEF host
    <3>2. NamesOf(new.hosts) = NamesOf(hs) \cup {acc.next}
      <4> HIDE DEF hs
      <4>1. QED
        BY <1>3, <2>5, <3>1
    <3>3. \A m \in NamesOf(hs) : m \in Nat
      <4>1. \A j \in DOMAIN hs : hs[j] \in AnyHost
        BY <1>2
      <4>2. QED
        BY <4>1 DEF NamesOf, AnyHost
    <3>4. QED
      BY <1>2, <2>3, <3>2, <3>3
  <2>8. QED
    BY <2>5, <2>6, <2>7 DEF new, a
<1>6. QED
  BY <1>4, <1>5

\* All of them.
LEMMA AddressesAreAdded ==
  ASSUME NEW hs \in Seq(Host), Distinct(hs), NEW ips \in SUBSET Ips
  PROVE  LET acc == FoldLeft(Change, [hosts |-> hs, next |-> NextId(hs)],
                             AddIps(SetToSeq(ips)))
         IN Range(hs) \subseteq Range(acc.hosts) /\ IpsOf(acc.hosts) = IpsOf(hs) \cup ips
<1> DEFINE list == SetToSeq(ips)
           args == AddIps(list)
           n == Cardinality(ips)
           base == [hosts |-> hs, next |-> NextId(hs)]
<1>1. IsFiniteSet(ips)
  BY FS_Subset, BoundsAssumption
<1>2. n \in Nat
  BY <1>1, FS_CardinalityType
<1>3. list \in [1 .. n -> ips] /\ Range(list) = ips
  BY <1>1, ListOfSet
<1> HIDE DEF list, n
<1>4. \A j \in 1 .. n : args[j] = [op |-> "add", ip |-> list[j]] /\ list[j] \in Ips
  BY <1>3 DEF AddIps
<1>5. args \in Seq(Arg) /\ Len(args) = n
  <2>1. args \in [1 .. n -> Arg]
    <3>1. \A i \in Ips : [op |-> "add", ip |-> i] \in Arg
      BY DEF Arg
    <3>2. DOMAIN args = 1 .. n /\ args = [j \in 1 .. n |-> args[j]]
      BY <1>3 DEF AddIps
    <3> HIDE DEF args
    <3>3. QED
      BY <1>4, <3>1, <3>2
  <2> HIDE DEF args
  <2>2. QED
    BY <1>2, <2>1
<1>6. base \in Fine
  BY <1>5, FoldIsFine
<1> HIDE DEF args
<1>7. PICK acc \in [0 .. n -> Fine] :
         /\ acc[0] = base
         /\ \A k \in 1 .. n : acc[k] = Change(acc[k - 1], args[k])
         /\ FoldLeft(Change, base, args) = acc[n]
  <2> HIDE DEF base
  <2>1. QED
    BY <1>5, <1>6, ChangeFolds
<1> DEFINE First(k) == {list[j] : j \in 1 .. k}
           Good(k) == /\ \A m \in NamesOf(acc[k].hosts) : m < acc[k].next
                      /\ Range(hs) \subseteq Range(acc[k].hosts)
                      /\ IpsOf(acc[k].hosts) = IpsOf(hs) \cup First(k)
           P == {k \in Nat : k <= n => Good(k)}
<1>8. Good(0)
  <2>1. First(0) = {}
    OBVIOUS
  <2>2. acc[0].hosts = hs /\ acc[0].next = NextId(hs)
    BY <1>7
  <2>3. QED
    BY <2>1, <2>2, NextIdIsFree
<1>9. ASSUME NEW k \in Nat, k + 1 <= n, Good(k)
      PROVE  Good(k + 1)
  <2>1. k + 1 \in 1 .. n /\ (k + 1) - 1 = k /\ k \in 0 .. n
    BY <1>2, <1>9
  <2> DEFINE i == list[k + 1]
             x == acc[k]
             y == Change(x, [op |-> "add", ip |-> i])
  <2>2. acc[k + 1] = y /\ i \in Ips /\ x \in Fine
    BY <1>4, <1>7, <2>1
  <2>3. /\ \A m \in NamesOf(y.hosts) : m < y.next
        /\ Range(x.hosts) \subseteq Range(y.hosts)
        /\ IpsOf(y.hosts) = IpsOf(x.hosts) \cup {i}
    <3> HIDE DEF i, x
    <3>1. \A m \in NamesOf(x.hosts) : m < x.next
      BY <1>9 DEF x
    <3>2. QED
      BY <2>2, <3>1, AddressIsAdded
  <2>4. First(k + 1) = First(k) \cup {i}
    <3>1. 1 .. k + 1 = (1 .. k) \cup {k + 1}
      OBVIOUS
    <3>2. QED
      BY <3>1
  <2> HIDE DEF First, y, i
  <2>5. QED
    BY <1>9, <2>2, <2>3, <2>4
<1>10. n \in P
  <2> HIDE DEF Good
  <2>1. 0 \in P
    BY <1>8
  <2>2. \A k \in Nat : k \in P => k + 1 \in P
    BY <1>2, <1>9
  <2> HIDE DEF P
  <2>3. QED
    BY <1>2, <2>1, <2>2, SetInduction
<1>11. Good(n)
  <2> HIDE DEF Good
  <2>1. QED
    BY <1>2, <1>10
<1>12. First(n) = ips
  BY <1>3 DEF Range
<1> HIDE DEF First
<1>13. QED
  BY <1>7, <1>11, <1>12 DEF args, list, base

-----------------------------------------------------------------------------
(* Theorems                                                                  *)

LEMMA InvImplies == Inv => OneHostPerMachine /\ AddsWhatIsNew
<1> SUFFICES ASSUME Inv PROVE OneHostPerMachine /\ AddsWhatIsNew
  OBVIOUS
<1>1. OneHostPerMachine
  BY DEF Inv, Distinct, OneHostPerMachine
<1>2. AddsWhatIsNew
  BY AddressesAreAdded DEF Inv, TypeOK, AddsWhatIsNew
<1>3. QED
  BY <1>1, <1>2

\* The commands of Spec are some of them.
LEMMA MachinesAreArguments ==
  ASSUME NEW hs, NEW args \in NewMachines(hs)
  PROVE  args \in Seq(Arg) \ {<<>>}
<1> DEFINE S == Ips \ IpsOf(hs)
           list == SetToSeq(S)
           c == Cardinality(S)
<1>1. IsFiniteSet(S) /\ c \in Nat
  BY FS_Subset, FS_CardinalityType, BoundsAssumption
<1>2. list \in [1 .. c -> S]
  BY <1>1, ListOfSet
<1>3. PICK n \in 1 .. c : args = AddIps(SubSeq(list, 1, n))
  BY DEF NewMachines
<1> DEFINE some == SubSeq(list, 1, n)
<1> HIDE DEF list, c
<1>4. list \in Seq(S) /\ Len(list) = c
  BY <1>1, <1>2
<1>5. some \in Seq(S) /\ Len(some) = n
  BY <1>1, <1>4
<1> HIDE DEF some
<1>6. DOMAIN some = 1 .. n /\ n \in Nat \ {0} /\ \A j \in 1 .. n : some[j] \in Ips
  BY <1>1, <1>5
<1>7. args = [j \in 1 .. n |-> [op |-> "add", ip |-> some[j]]]
  BY <1>3, <1>6 DEF AddIps, some
<1>8. \A i \in Ips : [op |-> "add", ip |-> i] \in Arg
  BY DEF Arg
<1>9. args \in [1 .. n -> Arg]
  BY <1>6, <1>7, <1>8
<1>10. QED
  BY <1>6, <1>9

LEMMA FileHasDistinctHosts ==
  ASSUME NEW hs \in TwoHosts, NEW e \in {{}, NamesOf(hs)}
  PROVE  /\ hs \in Seq(Host) /\ Distinct(hs)
         /\ [NoRoles EXCEPT !["etcd"] = e, !["kube_node"] = NamesOf(hs)]
              \in [Roles -> SUBSET NamesOf(hs)]
<1>1. hs \in [1 .. 2 -> [name : Given, ip : Ips]] /\ hs[1].name < hs[2].name /\ hs[1].ip # hs[2].ip
  BY DEF TwoHosts
<1>2. Given \subseteq Names /\ Names \subseteq Nat
  BY BoundsAssumption, HostTypes DEF Names
<1>3. hs \in [1 .. 2 -> Host]
  BY <1>1, <1>2 DEF Host
<1>4. hs \in Seq(Host)
  <2>1. 2 \in Nat
    OBVIOUS
  <2>2. QED
    BY <1>3, <2>1, SeqDef
<1>5. hs[1].name # hs[2].name
  <2>1. hs[1].name \in Nat /\ hs[2].name \in Nat
    <3>1. 1 \in 1 .. 2 /\ 2 \in 1 .. 2
      OBVIOUS
    <3>2. \A h \in Host : h.name \in Nat
      BY <1>2 DEF Host
    <3>3. QED
      BY <1>3, <3>1, <3>2
  <2>2. QED
    BY <1>1, <2>1
<1>6. DOMAIN hs = {1, 2}
  BY <1>3
<1>7. Distinct(hs)
  BY <1>1, <1>5, <1>6 DEF Distinct
<1>8. QED
  BY <1>4, <1>7 DEF NoRoles, Roles

LEMMA SpecIsAny == Spec => AnySpec
<1>1. Next => AnyNext
  <2> SUFFICES ASSUME Next PROVE AnyNext
    OBVIOUS
  <2>1. \A a, d \in Arg : <<a>> \in Seq(Arg) \ {<<>>} /\ <<d, a>> \in Seq(Arg) \ {<<>>}
    OBVIOUS
  <2>2. Args \subseteq Seq(Arg) \ {<<>>}
    <3> SUFFICES ASSUME NEW args \in Args PROVE args \in Seq(Arg) \ {<<>>}
      OBVIOUS
    <3>1. \/ \E a \in Arg : args = <<a>>
          \/ \E d, a \in Arg : args = <<d, a>>
      <4>1. /\ \A a \in Of("del") : a \in Arg
            /\ \A a \in Of("add") : a \in Arg
            /\ \A a \in Plain : a \in Arg
        BY DEF Of, Plain
      <4>2. \/ \E a \in Arg : args = <<a>>
            \/ \E d \in Of("del"), a \in Of("add") : args = <<d, a>>
            \/ \E a \in Of("add"), b \in Plain : args = <<a, b>>
        BY DEF Args
      <4>3. QED
        BY <4>1, <4>2
    <3> HIDE DEF Args
    <3>2. QED
      BY <2>1, <3>1
  <2>3. CASE \E args \in Args \cup NewMachines(hosts) : Command(TRUE, args)
    BY <2>2, <2>3, MachinesAreArguments DEF AnyNext
  <2>4. CASE \E args \in {<<a>> : a \in Arg} \cup NewMachines(<<>>) : Command(FALSE, args)
    BY <2>1, <2>4, MachinesAreArguments DEF AnyNext
  <2>5. CASE \E hs \in TwoHosts : \E e \in {{}, NamesOf(hs)} :
               Load(hs, [NoRoles EXCEPT !["etcd"] = e, !["kube_node"] = NamesOf(hs)])
    BY <2>5, FileHasDistinctHosts DEF AnyNext
  <2>6. QED
    BY <2>3, <2>4, <2>5 DEF Next
<1>2. QED
  BY <1>1, PTL DEF Spec, AnySpec

\* Everything a run checks holds for any command lines and files, too: any
\* arguments in any number and order, with and without "add".
THEOREM AnyCommandLine ==
  AnySpec => [](TypeOK /\ RolesAreHosts /\ OneHostPerMachine /\ EveryRoleIsManned
                  /\ AddsWhatIsNew)
<1>1. Inv => TypeOK /\ RolesAreHosts /\ OneHostPerMachine /\ EveryRoleIsManned
              /\ AddsWhatIsNew
  BY InvImplies DEF Inv
<1>2. QED
  BY <1>1, AnyInv, PTL

\* The file of hosts and roles is well formed after every command.
THEOREM TypeCorrect == Spec => []TypeOK
BY SpecIsAny, AnyCommandLine, PTL

\* A role is only given to hosts of the inventory.
THEOREM RolesHaveHosts == Spec => []RolesAreHosts
BY SpecIsAny, AnyCommandLine, PTL

\* No two hosts are the same machine, and no name is given twice.
THEOREM MachinesAreListedOnce == Spec => []OneHostPerMachine
BY SpecIsAny, AnyCommandLine, PTL

\* The builder leaves no cluster without its etcd members or control plane, on
\* either side of the thresholds and whatever their values.
THEOREM RolesAreManned == Spec => []EveryRoleIsManned
BY SpecIsAny, AnyCommandLine, PTL

\* Adding addresses loses no host, and gives each new one a name of its own.
THEOREM AddingIsAdding == Spec => []AddsWhatIsNew
BY SpecIsAny, AnyCommandLine, PTL
==============================================================================
