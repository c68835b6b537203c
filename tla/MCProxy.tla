------------------------------ MODULE MCProxy ------------------------------
(* Instances of Proxy for TLC: the hub replaces the proxy while the node   *)
(* says it disconnects.                                                    *)
EXTENDS Proxy, TLC

CONSTANTS k1, k2

MCClosers == {k1, k2}
MCErrOf == (k1 :> "ErrDuplicateReplaced") @@ (k2 :> "clientDisconnect")

MCOneCloser == {k1}
MCOneErrOf == k1 :> "ErrDuplicateReplaced"

Symmetry == Permutations(Conns)
=============================================================================
