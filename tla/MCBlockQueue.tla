---------------------------- MODULE MCBlockQueue ----------------------------
(* Instances of BlockQueue for TLC. *)
EXTENDS BlockQueue

CONSTANTS p1, p2, c
=============================================================================
