------------------------------ MODULE MCInventory ------------------------------
(* Values of the constants for the run of Inventory.                            *)
EXTENDS Inventory

\* Addresses are only compared.
Machines == Permutations(Ips)
================================================================================
