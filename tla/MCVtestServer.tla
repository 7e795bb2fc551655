--------------------------- MODULE MCVtestServer ---------------------------
(* Three client threads: the second ends the library under the first, and  *)
(* the third initialises it again while the first goes on.                 *)
EXTENDS VtestServer
=============================================================================
