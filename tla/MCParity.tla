------------------------------ MODULE MCParity -------------------------------
(* Instances of Parity for TLC: no definitions beyond the constants of a cfg. *)
EXTENDS Parity, TLC
=============================================================================
