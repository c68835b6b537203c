---------------------------- MODULE MCEntEvents ----------------------------
(* Instances of EntEvents for TLC.                                         *)
EXTENDS EntEvents, TLC

(* Identifiers, streams and closers are interchangeable; no liveness       *)
(* property is checked under a symmetry.                                   *)
Symmetry == Permutations(Ids) \union Permutations(Streams)
            \union Permutations(Closers)
=============================================================================
