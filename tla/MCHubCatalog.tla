---------------------------- MODULE MCHubCatalog ----------------------------
(* Instances of HubCatalog for TLC: two nodes that use the same ID.        *)
EXTENDS HubCatalog, TLC

CONSTANT a  \* the ID

MCIdOf == [p \in Proxies |-> a]

(* The nodes are interchangeable.                                          *)
Symmetry == Permutations(Proxies)
=============================================================================
