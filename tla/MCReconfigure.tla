--------------------------- MODULE MCReconfigure ---------------------------
(* Instances of Reconfigure for TLC. *)
EXTENDS Reconfigure

CONSTANTS c1, c2, e1
=============================================================================
