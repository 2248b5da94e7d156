------------------------------ MODULE Selector ------------------------------
(* ServerSelector.select: which registered server answers the gets of a key. *)
(* The code takes key % size and then indexes the ascending list of ids; the *)
(* two halves are kept apart because FrontendRPCImpl.get hands it the live   *)
(* key set, which another thread may change between them.                    *)
EXTENDS Integers, FiniteSets

\* Mutant of JavaRem: clamps the key instead of wrapping it.
JavaRemClamps(a, n) == IF a >= n THEN n - 1 ELSE a

\* Mutant of JavaRem: Math.floorMod.
JavaRemFloor(a, n) == a % n

\* Java's %: the remainder takes the sign of the dividend.
JavaRem(a, n) == IF a >= 0 THEN a % n ELSE -((-a) % n)

\* Mutant of Rank: counts from 1.
RankFromOne(S, s) == Cardinality({x \in S : x <= s})

\* The position of s in the ascending list of S, counted from 0.
Rank(S, s) == Cardinality({x \in S : x < s})

\* List.get(i) is defined, that is, does not throw IndexOutOfBounds.
InRange(S, i) == i >= 0 /\ i < Cardinality(S)

\* select(key, S) on a set nobody changes.
Selects(key, S, s) == s \in S /\ Rank(S, s) = JavaRem(key, Cardinality(S))
=============================================================================
