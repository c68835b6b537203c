----------------------------- MODULE MCNodeMain -----------------------------
(* Instances of NodeMain for TLC.                                          *)
EXTENDS NodeMain
=============================================================================
