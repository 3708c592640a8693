---------------------------- MODULE MCBinaryUpdate ----------------------------
(* The shipped binary v1, two signed releases and bytes nobody signed. *)
EXTENDS BinaryUpdate
CONSTANTS v1, v2, v3, bad
=============================================================================
