------------------------------ MODULE MCSplice ------------------------------
(* Instances of Splice for TLC.                                            *)
EXTENDS Splice
=============================================================================
