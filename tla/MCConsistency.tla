---------------------------- MODULE MCConsistency -----------------------------
(* Values of the constants for the runs of Consistency.                         *)
EXTENDS Consistency, TLC

CONSTANTS c1, c2, a1, v1, v2

OneClient == {c1}
TwoClients == {c1, c2}
OneAdmin == {a1}
OneValue == {v1}
TwoValues == {v1, v2}

\* Clients and values are interchangeable: no definition names one.
ClientsAndValues == Permutations(TwoClients) \cup Permutations(TwoValues)
=============================================================================
