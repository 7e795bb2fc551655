---------------------------- MODULE MCResources ----------------------------
(***************************************************************************)
(* Resources for TLC: handles and contexts are interchangeable.            *)
(***************************************************************************)
EXTENDS Resources, TLC

Symmetry == Permutations(Handles) \union Permutations(Contexts)
=============================================================================
