--------------------------- MODULE MCRingSession ---------------------------
(* Values of the constants of RingSession for TLC: command 1 is a query with *)
(* a reply in two writes, command 2 reads its data in two and has no reply. *)
EXTENDS RingSession

SessionCommands == {1, 2}
SessionData == <<<<>>, <<1, 1>>>>
SessionReply == <<<<1, 1>>, <<>>>>
NoMessages == [p \in {"client", "server"} |-> {}]
=============================================================================
