---------------------------- MODULE MCVgoBridge ----------------------------
(* Three clicks, two shifts, three clients and sockets that hold one frame.  *)
EXTENDS VgoBridge
=============================================================================
