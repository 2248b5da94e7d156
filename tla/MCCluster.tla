------------------------------- MODULE MCCluster -------------------------------
(* Values of the constants for the runs of Cluster.                             *)
EXTENDS Cluster, TLC

CONSTANTS c1, c2, a1, v1, v2

TwoClients == {c1, c2}
OneClient == {c1}
OneAdmin == {a1}
TwoValues == {v1, v2}
OneValue == {v1}

\* Clients and values are interchangeable: no definition names one.
ClientsAndValues == Permutations(TwoClients) \cup Permutations(TwoValues)
=============================================================================
