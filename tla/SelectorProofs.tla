---------------------------- MODULE SelectorProofs -----------------------------
(* ServerSelector.select answers for every key that is not negative, and with *)
(* one server only, whatever the set of registered ids: the one the sorted    *)
(* list has at the index, each server for its share of the keys.              *)
EXTENDS MCSelector, FiniteSetTheorems, TLAPS

\* Java's remainder of a key that is not negative is an index of the list.
LEMMA RemainderIsIndex ==
  ASSUME NEW key \in Nat, NEW n \in Nat, n > 0
  PROVE  JavaRem(key, n) \in 0 .. n - 1
BY DEF JavaRem

\* A rank counts some of the set, but not the element itself.
LEMMA RankRange ==
  ASSUME NEW S \in SUBSET Int, IsFiniteSet(S), NEW s \in S
  PROVE  Rank(S, s) \in 0 .. Cardinality(S) - 1
<1> DEFINE B == {x \in S : x < s}
<1>1. B \in SUBSET S /\ B # S
  BY DEF B
<1>2. IsFiniteSet(B) /\ Cardinality(B) <= Cardinality(S) /\ Cardinality(S) # Cardinality(B)
  BY <1>1, FS_Subset
<1>3. Cardinality(B) \in Nat /\ Cardinality(S) \in Nat
  BY <1>2, FS_CardinalityType
<1>4. QED
  BY <1>2, <1>3 DEF Rank

\* A greater id has a greater rank.
LEMMA RankIncreases ==
  ASSUME NEW S \in SUBSET Int, IsFiniteSet(S), NEW x \in S, NEW y \in S, x < y
  PROVE  Rank(S, x) < Rank(S, y)
<1> DEFINE A == {z \in S : z < x}
           B == {z \in S : z < y}
<1>1. B \in SUBSET S
  OBVIOUS
<1>2. A \in SUBSET B /\ A # B
  <2>1. x \in B /\ x \notin A
    OBVIOUS
  <2>2. \A z \in A : z \in B
    OBVIOUS
  <2> HIDE DEF A, B
  <2>3. QED
    BY <2>1, <2>2
<1>3. IsFiniteSet(B)
  BY <1>1, FS_Subset
<1>4. Cardinality(A) <= Cardinality(B) /\ Cardinality(A) # Cardinality(B) /\ IsFiniteSet(A)
  BY <1>2, <1>3, FS_Subset
<1>5. Cardinality(A) \in Nat /\ Cardinality(B) \in Nat
  BY <1>3, <1>4, FS_CardinalityType
<1>6. QED
  BY <1>4, <1>5 DEF Rank

\* Every index of the list is the rank of some id: as many ranks as indices,
\* and no two ids of the same rank.
LEMMA RanksCoverIndices ==
  ASSUME NEW S \in SUBSET Int, IsFiniteSet(S), NEW i \in 0 .. Cardinality(S) - 1
  PROVE  \E s \in S : Rank(S, s) = i
<1> DEFINE n == Cardinality(S)
           T == 0 .. n - 1
           f == [s \in S |-> Rank(S, s)]
<1>1. n \in Nat
  BY FS_CardinalityType
<1>2. IsFiniteSet(T) /\ Cardinality(T) = n
  BY <1>1, FS_Interval
<1>3. f \in [S -> T]
  BY RankRange
<1>4. \A x, y \in S : f[x] = f[y] => x = y
  <2> SUFFICES ASSUME NEW x \in S, NEW y \in S, Rank(S, x) = Rank(S, y) PROVE x = y
    OBVIOUS
  <2>1. ~(x < y) /\ ~(y < x)
    BY RankIncreases, RankRange
  <2>2. QED
    BY <2>1
<1>5. f \in Injection(S, T)
  BY <1>3, <1>4 DEF Injection, IsInjective
<1> HIDE DEF f, T, n
<1>6. f \in Surjection(S, T)
  BY <1>2, <1>5, FS_Injection DEF n
<1>7. \E s \in S : f[s] = i
  BY <1>6 DEF Surjection, T, n
<1>8. QED
  BY <1>7 DEF f

\* Routing is total and unambiguous: as long as a server is registered, the get
\* of a key that is not negative goes to one server.
THEOREM EveryKeyHasOneServer ==
  ASSUME NEW S \in SUBSET Int, IsFiniteSet(S), S # {}, NEW key \in Nat
  PROVE  \E s \in S : /\ Selects(key, S, s)
                      /\ \A x \in S : Selects(key, S, x) => x = s
<1> DEFINE i == JavaRem(key, Cardinality(S))
<1>1. Cardinality(S) \in Nat /\ Cardinality(S) > 0
  BY FS_CardinalityType, FS_EmptySet
<1>2. i \in 0 .. Cardinality(S) - 1
  BY <1>1, RemainderIsIndex
<1> HIDE DEF i
<1>3. PICK s \in S : Rank(S, s) = i
  BY <1>2, RanksCoverIndices
<1>4. ASSUME NEW x \in S, Rank(S, x) = i PROVE x = s
  <2>1. ~(x < s) /\ ~(s < x)
    BY <1>3, <1>4, RankIncreases, RankRange
  <2>2. QED
    BY <2>1
<1>5. QED
  BY <1>3, <1>4 DEF Selects, i

\* A negative key has a server if and only if the number of servers divides it:
\* Java's remainder is negative otherwise, and List.get throws.
THEOREM NegativeKeyHasNoServer ==
  ASSUME NEW S \in SUBSET Int, IsFiniteSet(S), S # {}, NEW key \in Int, key < 0
  PROVE  (\E s \in S : Selects(key, S, s)) <=> (-key) % Cardinality(S) = 0
<1>1. Cardinality(S) \in Nat /\ Cardinality(S) > 0
  BY FS_CardinalityType, FS_EmptySet
<1>2. (-key) % Cardinality(S) \in Nat
  BY <1>1
<1>3. CASE (-key) % Cardinality(S) # 0
  <2>1. JavaRem(key, Cardinality(S)) < 0
    BY <1>2, <1>3 DEF JavaRem
  <2>2. \A s \in S : Rank(S, s) >= 0
    BY RankRange
  <2>3. QED
    BY <1>2, <1>3, <2>1, <2>2, RankRange DEF Selects
<1>4. CASE (-key) % Cardinality(S) = 0
  <2>1. JavaRem(key, Cardinality(S)) = 0
    BY <1>4 DEF JavaRem
  <2>2. 0 \in 0 .. Cardinality(S) - 1
    BY <1>1
  <2>3. \E s \in S : Rank(S, s) = 0
    BY <2>2, RanksCoverIndices
  <2>4. QED
    BY <1>4, <2>1, <2>3 DEF Selects
<1>5. QED
  BY <1>3, <1>4

-----------------------------------------------------------------------------
(* The sorted list                                                           *)

\* No two ids have the same rank.
LEMMA RankIsUnique ==
  ASSUME NEW S \in SUBSET Int, IsFiniteSet(S), NEW x \in S, NEW y \in S,
         Rank(S, x) = Rank(S, y)
  PROVE  x = y
<1>1. ~(x < y) /\ ~(y < x)
  BY RankIncreases, RankRange
<1>2. QED
  BY <1>1

\* The set S has a list in ascending order.
LEMMA ListExists ==
  ASSUME NEW S \in SUBSET Int, IsFiniteSet(S)
  PROVE  \E list \in [1 .. Cardinality(S) -> S] :
           \A i, j \in 1 .. Cardinality(S) : i < j => list[i] < list[j]
<1> DEFINE n == Cardinality(S)
           list == [i \in 1 .. n |-> CHOOSE s \in S : Rank(S, s) = i - 1]
<1>1. n \in Nat
  BY FS_CardinalityType
<1>2. ASSUME NEW i \in 1 .. n
      PROVE  list[i] \in S /\ Rank(S, list[i]) = i - 1
  <2>1. i - 1 \in 0 .. n - 1
    BY <1>1
  <2>2. \E s \in S : Rank(S, s) = i - 1
    BY <2>1, RanksCoverIndices
  <2>3. QED
    BY <2>2
<1>3. list \in [1 .. n -> S]
  BY <1>2
<1> HIDE DEF list, n
<1>4. ASSUME NEW i \in 1 .. n, NEW j \in 1 .. n, i < j
      PROVE  list[i] < list[j]
  <2>1. /\ list[i] \in S /\ Rank(S, list[i]) = i - 1
        /\ list[j] \in S /\ Rank(S, list[j]) = j - 1
    BY <1>2
  <2>2. list[i] # list[j]
    BY <1>1, <1>4, <2>1
  <2>3. ~(list[j] < list[i])
    <3>1. list[j] < list[i] => j - 1 < i - 1
      BY <2>1, RankIncreases
    <3>2. QED
      BY <1>1, <1>4, <3>1
  <2>4. list[i] \in Int /\ list[j] \in Int
    BY <2>1
  <2>5. QED
    BY <2>2, <2>3, <2>4
<1>5. QED
  BY <1>3, <1>4 DEF n

\* In an ascending list of the set the place of an id is its rank.
LEMMA PlaceIsRank ==
  ASSUME NEW S \in SUBSET Int, IsFiniteSet(S),
         NEW list \in [1 .. Cardinality(S) -> S],
         \A i, j \in 1 .. Cardinality(S) : i < j => list[i] < list[j],
         NEW k \in 1 .. Cardinality(S)
  PROVE  Rank(S, list[k]) = k - 1
<1> DEFINE n == Cardinality(S)
           D == 1 .. n
           Below == {x \in S : x < list[k]}
           g == [i \in 1 .. k - 1 |-> list[i]]
<1>1. n \in Nat /\ k \in Nat
  BY FS_CardinalityType
<1>2. IsFiniteSet(D) /\ Cardinality(D) = n
  BY <1>1, FS_Interval
<1> HIDE DEF n
<1>13. \A i, j \in D : i < j => list[i] < list[j]
  BY DEF n
<1>14. \A i \in D : list[i] \in Int /\ i \in Nat
  <2> SUFFICES ASSUME NEW i \in D PROVE list[i] \in Int /\ i \in Nat
    OBVIOUS
  <2>1. list[i] \in S
    BY DEF n
  <2>2. i \in Nat
    BY <1>1
  <2>3. QED
    BY <2>1, <2>2
<1>3. \A i, j \in D : list[i] = list[j] => i = j
  <2> SUFFICES ASSUME NEW i \in D, NEW j \in D, list[i] = list[j] PROVE i = j
    OBVIOUS
  <2>1. ~(i < j) /\ ~(j < i)
    BY <1>13, <1>14
  <2>2. QED
    BY <2>1, <1>14
<1>4. list \in Injection(D, S)
  BY <1>3 DEF n, Injection, IsInjective
<1>5. list \in Surjection(D, S)
  <2> HIDE DEF D
  <2>1. QED
    BY <1>2, <1>4, FS_Injection DEF n
<1>6. g \in [1 .. k - 1 -> Below]
  BY <1>1, <1>13 DEF n
<1>7. \A i, j \in 1 .. k - 1 : g[i] = g[j] => i = j
  BY <1>1, <1>3 DEF n
<1>8. \A x \in Below : \E i \in 1 .. k - 1 : g[i] = x
  <2> SUFFICES ASSUME NEW x \in Below PROVE \E i \in 1 .. k - 1 : g[i] = x
    OBVIOUS
  <2>1. PICK i \in D : list[i] = x
    <3>1. x \in S
      OBVIOUS
    <3>2. QED
      BY <1>5, <3>1 DEF Surjection
  <2>2. i # k /\ ~(k < i)
    BY <1>13, <1>14, <2>1 DEF n
  <2>3. i \in 1 .. k - 1
    BY <1>1, <1>14, <2>2
  <2>4. QED
    BY <2>1, <2>3
<1> HIDE DEF g, Below
<1>9. g \in Bijection(1 .. k - 1, Below)
  BY <1>6, <1>7, <1>8 DEF Bijection, Injection, Surjection, IsInjective
<1>10. IsFiniteSet(1 .. k - 1) /\ Cardinality(1 .. k - 1) = k - 1
  <2>1. 1 \in Int /\ k - 1 \in Int
    BY <1>1
  <2>2. /\ IsFiniteSet(1 .. k - 1)
        /\ Cardinality(1 .. k - 1) = IF 1 > k - 1 THEN 0 ELSE (k - 1) - 1 + 1
    BY <2>1, FS_Interval
  <2>3. QED
    BY <1>1, <2>2
<1>11. Cardinality(Below) = k - 1
  <2>1. ExistsBijection(1 .. k - 1, Below)
    BY <1>9 DEF ExistsBijection
  <2>2. QED
    BY <1>10, <2>1, FS_Bijection
<1>12. QED
  BY <1>11 DEF Rank, Below

\* Sorted is such a list.
LEMMA SortedIsList ==
  ASSUME registered \in SUBSET Nat, IsFiniteSet(registered)
  PROVE  /\ Sorted \in [1 .. Cardinality(registered) -> registered]
         /\ \A i, j \in 1 .. Cardinality(registered) : i < j => Sorted[i] < Sorted[j]
<1>1. registered \in SUBSET Int
  OBVIOUS
<1>2. QED
  BY <1>1, ListExists DEF Sorted

-----------------------------------------------------------------------------
(* Shares                                                                    *)

\* Division with remainder.
LEMMA Division ==
  ASSUME NEW a \in Nat, NEW n \in Nat, n > 0
  PROVE  /\ a % n \in 0 .. n - 1
         /\ \E d \in Nat : a = n * d + (a % n)
<1>1. a % n \in 0 .. n - 1
  OBVIOUS
<1>2. a \div n \in Int /\ a \div n >= 0
  OBVIOUS
<1>3. ASSUME NEW x \in Int, NEW m \in Int, m > 0
      PROVE  x = m * (x \div m) + (x % m)
  BY <1>3, SMTT(30)
<1>4. a = n * (a \div n) + (a % n)
  BY <1>3
<1>5. a \div n \in Nat
  BY <1>2
<1> DEFINE q == a \div n
<1>6. a = n * q + (a % n) /\ q \in Nat
  BY <1>4, <1>5
<1> HIDE DEF q
<1>7. QED
  BY <1>1, <1>6

\* The remainder is the only one.
LEMMA RemainderIsUnique ==
  ASSUME NEW n \in Nat, n > 0, NEW d \in Nat, NEW r \in 0 .. n - 1
  PROVE  (n * d + r) % n = r
<1> DEFINE a == n * d + r
<1>1. a \in Nat
  OBVIOUS
<1>2. PICK e \in Nat : a = n * e + (a % n)
  BY <1>1, Division
<1> DEFINE q == a % n
<1>3. q \in 0 .. n - 1
  BY <1>1, Division
<1> HIDE DEF q
<1>4. n * d + r = n * e + q
  <2>1. a = n * e + q
    BY <1>2 DEF q
  <2>2. QED
    BY <2>1
<1> HIDE DEF a
<1>5. d = e
  <2>1. CASE d < e
    <3>1. n * (d + 1) <= n * e
      BY <2>1
    <3>2. QED
      BY <1>3, <1>4, <3>1
  <2>2. CASE e < d
    <3>1. n * (e + 1) <= n * d
      BY <2>2
    <3>2. QED
      BY <1>3, <1>4, <3>1
  <2>3. QED
    BY <2>1, <2>2
<1>6. q = r
  BY <1>3, <1>4, <1>5
<1>7. QED
  BY <1>6 DEF a, q

\* Of n numbers in a row exactly one leaves a given remainder.
LEMMA OneOfEachRemainder ==
  ASSUME NEW first \in Nat, NEW n \in Nat, n > 0, NEW r \in 0 .. n - 1
  PROVE  \E k \in first .. first + n - 1 :
           \A key \in first .. first + n - 1 : key % n = r <=> key = k
<1> DEFINE m == first % n
<1>1. PICK d \in Nat : first = n * d + m
  BY Division
<1>2. m \in 0 .. n - 1
  BY Division
<1> HIDE DEF m
<1> DEFINE k == IF m <= r THEN n * d + r ELSE n * (d + 1) + r
<1>3. k \in first .. first + n - 1 /\ k % n = r
  <2>1. CASE m <= r
    <3>1. k = n * d + r
      BY <2>1
    <3>2. k % n = r
      BY <3>1, RemainderIsUnique
    <3>3. QED
      BY <1>1, <1>2, <2>1, <3>1, <3>2
  <2>2. CASE ~(m <= r)
    <3>1. k = n * (d + 1) + r /\ d + 1 \in Nat
      BY <2>2
    <3>2. k % n = r
      BY <3>1, RemainderIsUnique
    <3>3. n * (d + 1) = n * d + n
      OBVIOUS
    <3>4. QED
      BY <1>1, <1>2, <2>2, <3>1, <3>2, <3>3
  <2>3. QED
    BY <2>1, <2>2
<1> HIDE DEF k
<1>4. ASSUME NEW x \in Nat, NEW y \in Nat, x < y, x % n = y % n
      PROVE  y - x >= n
  <2> DEFINE q == x % n
  <2>1. PICK b \in Nat : x = n * b + q
    BY Division
  <2>2. PICK c \in Nat : y = n * c + q
    BY <1>4, Division
  <2>3. q \in Nat
    BY Division
  <2> HIDE DEF q
  <2>4. n * b < n * c
    BY <1>4, <2>1, <2>2, <2>3
  <2>5. b < c
    <3>1. CASE c <= b
      <4>1. n * c <= n * b
        BY <3>1
      <4>2. QED
        BY <2>4, <4>1
    <3>2. QED
      BY <3>1
  <2>6. n * (b + 1) <= n * c
    BY <2>5
  <2>7. n * (b + 1) = n * b + n
    OBVIOUS
  <2>8. QED
    BY <2>1, <2>2, <2>3, <2>6, <2>7
<1>5. ASSUME NEW key \in first .. first + n - 1, key % n = r
      PROVE  key = k
  <2>1. key \in Nat /\ k \in Nat
    BY <1>3
  <2>2. ~(key < k) /\ ~(k < key)
    BY <1>3, <1>4, <1>5, <2>1
  <2>3. QED
    BY <2>1, <2>2
<1>6. QED
  BY <1>3, <1>5

-----------------------------------------------------------------------------
(* Theorems about the registry                                               *)

Registry == registered \in SUBSET Nat /\ IsFiniteSet(registered)

LEMMA RegistryIsFinite == Spec => []Registry
<1>1. Init => Registry
  BY FS_EmptySet DEF Init, Registry
<1>2. Registry /\ [Next]_registered => Registry'
  <2> SUFFICES ASSUME Registry, [Next]_registered PROVE Registry'
    OBVIOUS
  <2>1. ASSUME NEW s \in Ids, Register(s) PROVE Registry'
    <3>1. s \in Nat
      BY IdsAssumption
    <3>2. QED
      BY <2>1, <3>1, FS_AddElement DEF Register, Registry
  <2>2. ASSUME NEW s \in Ids, Unregister(s) PROVE Registry'
    BY <2>2, FS_RemoveElement DEF Unregister, Registry
  <2>3. CASE UNCHANGED registered
    BY <2>3 DEF Registry
  <2>4. QED
    BY <2>1, <2>2, <2>3 DEF Next
<1>3. QED
  BY <1>1, <1>2, PTL DEF Spec

\* A key goes to the server that the sorted list has at the key's remainder,
\* for every set of servers and every key: FrontendRPCImpl.get asks that one.
THEOREM RoutesByTheList == Spec => []SelectsFromSortedList
<1>1. Registry => SelectsFromSortedList
  <2> SUFFICES ASSUME Registry, registered # {}, NEW key \in Keys
               PROVE  {s \in registered : Selects(key, registered, s)}
                        = {Sorted[(key % Cardinality(registered)) + 1]}
    BY DEF SelectsFromSortedList
  <2> DEFINE n == Cardinality(registered)
             i == key % n
             s0 == Sorted[i + 1]
  <2>1. n \in Nat /\ n > 0 /\ key \in Nat
    BY FS_CardinalityType, FS_EmptySet, KeysAssumption DEF Registry
  <2>2. i \in 0 .. n - 1 /\ JavaRem(key, n) = i
    BY <2>1, Division DEF JavaRem
  <2> HIDE DEF i
  <2>3. i + 1 \in 1 .. n /\ (i + 1) - 1 = i
    BY <2>1, <2>2
  <2>4. registered \in SUBSET Int /\ IsFiniteSet(registered)
    BY DEF Registry
  <2>5. s0 \in registered /\ Rank(registered, s0) = i
    BY <2>3, <2>4, SortedIsList, PlaceIsRank DEF Registry
  <2> HIDE DEF n, s0
  <2>6. ASSUME NEW s \in registered, Rank(registered, s) = i
        PROVE  s = s0
    <3>1. Rank(registered, s) = Rank(registered, s0)
      BY <2>5, <2>6
    <3>2. QED
      BY <2>4, <2>5, <3>1, RankIsUnique
  <2>7. \A s : s \in registered /\ Selects(key, registered, s) <=> s = s0
    BY <2>2, <2>5, <2>6 DEF Selects, n
  <2>8. {s \in registered : Selects(key, registered, s)} = {s0}
    BY <2>7
  <2>9. QED
    BY <2>8 DEF s0, n, i
<1>2. QED
  BY <1>1, RegistryIsFinite, PTL

\* Keys in a row are spread over the servers without gap or preference, for any
\* number of servers.
THEOREM Shares == Spec => []SelectsEvenly
<1>1. Registry => SelectsEvenly
  <2> SUFFICES ASSUME Registry, NEW first \in Keys, NEW s \in registered
               PROVE  Cardinality({key \in first .. first + Cardinality(registered) - 1 :
                                     Selects(key, registered, s)}) = 1
    BY DEF SelectsEvenly
  <2> DEFINE n == Cardinality(registered)
             row == first .. first + n - 1
             r == Rank(registered, s)
  <2>1. n \in Nat /\ n > 0 /\ first \in Nat
    BY FS_CardinalityType, FS_EmptySet, KeysAssumption DEF Registry
  <2>2. r \in 0 .. n - 1
    BY RankRange DEF Registry
  <2>3. \A key \in row : Selects(key, registered, s) <=> key % n = r
    <3> SUFFICES ASSUME NEW key \in row
                 PROVE  Selects(key, registered, s) <=> key % n = r
      OBVIOUS
    <3>1. key \in Nat
      BY <2>1
    <3>2. JavaRem(key, n) = key % n
      BY <3>1 DEF JavaRem
    <3> HIDE DEF r, n
    <3>3. QED
      BY <3>2 DEF Selects, n, r
  <2> HIDE DEF n, r
  <2>4. PICK k \in row : \A key \in row : key % n = r <=> key = k
    BY <2>1, <2>2, OneOfEachRemainder
  <2>5. {key \in row : Selects(key, registered, s)} = {k}
    BY <2>3, <2>4
  <2>6. QED
    BY <2>5, FS_Singleton DEF n
<1>2. QED
  BY <1>1, RegistryIsFinite, PTL

\* Whether the gets of a negative key end in an exception depends on the number
\* of servers: its remainder is no index unless it is zero.
THEOREM NegativeKeys == Spec => []NegativeKeysAreMultiples
<1>1. Registry => NegativeKeysAreMultiples
  <2> SUFFICES ASSUME Registry, registered # {}, NEW key \in Keys
               PROVE  (\E s \in registered : Selects(-key, registered, s))
                         <=> key % Cardinality(registered) = 0
    BY DEF NegativeKeysAreMultiples
  <2>1. key \in Nat /\ registered \in SUBSET Int /\ IsFiniteSet(registered)
    BY KeysAssumption DEF Registry
  <2>2. CASE key = 0
    <3> DEFINE opposite == -key
    <3>0. opposite \in Int /\ opposite + key = 0
      BY <2>1
    <3>1. opposite = 0 /\ 0 \in Nat
      <4> HIDE DEF opposite
      <4>1. QED
        BY <2>2, <3>0
    <3>2. \E s \in registered : Selects(0, registered, s)
      BY <2>1, <3>1, EveryKeyHasOneServer
    <3>3. Cardinality(registered) \in Nat /\ Cardinality(registered) > 0
      BY <2>1, FS_CardinalityType, FS_EmptySet
    <3>4. key % Cardinality(registered) = 0
      BY <2>2, <3>3
    <3>5. QED
      BY <3>1, <3>2, <3>4
  <2>3. CASE key > 0
    <3>1. -key \in Int /\ -key < 0 /\ -(-key) = key
      BY <2>1, <2>3
    <3>2. QED
      BY <2>1, <3>1, NegativeKeyHasNoServer
  <2>4. QED
    BY <2>1, <2>2, <2>3
<1>2. QED
  BY <1>1, RegistryIsFinite, PTL
=============================================================================
