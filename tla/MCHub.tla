------------------------------- MODULE MCHub -------------------------------
(* Instances of Hub for TLC: nodes that all use the same ID, the case in   *)
(* which they meet; nodes with other IDs share only the goroutine run.     *)
EXTENDS Hub

CONSTANT a  \* the ID

MCIdOf == [p \in Proxies |-> a]
=============================================================================
