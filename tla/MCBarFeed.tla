----------------------------- MODULE MCBarFeed ------------------------------
(* Instances of BarFeed for TLC: no definitions beyond the constants of a cfg. *)
EXTENDS BarFeed, TLC
=============================================================================
