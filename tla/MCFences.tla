------------------------------ MODULE MCFences -----------------------------
(* Values of the constants of Fences for TLC. *)
EXTENDS Fences

CONSTANTS c0, c1, none

Two == {c0, c1}
=============================================================================
