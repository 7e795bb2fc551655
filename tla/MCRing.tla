------------------------------ MODULE MCRing -------------------------------
(* Values of the constants of Ring for TLC. *)
EXTENDS Ring

\* Both directions at once.  The client's messages do not fit into the ring and
\* begin at each of its places in turn; the server's reads end within them.
DuplexMessages == [p \in {"client", "server"} |->
  IF p = "client" THEN {<<1, 2, 3, 4, 5>>} ELSE {<<3>>}]
DuplexReads == [p \in {"client", "server"} |-> IF p = "client" THEN {1} ELSE {4}]
=============================================================================
