---------------------------- MODULE ByteChannel ----------------------------
(***************************************************************************)
(* What the shared-memory transport of vtest/ring.c promises its two       *)
(* callers: one bounded FIFO byte stream in each direction.  ring_write    *)
(* hands over the caller's bytes in order, piece by piece, and ring_read   *)
(* delivers them in the same order, none lost, doubled or invented.        *)
(* Ring implements this specification (see Ring!Channel).                  *)
(***************************************************************************)
EXTENDS Integers, Sequences

CONSTANTS
  Sides,     \* the two ends of the transport
  Peer(_),   \* the other end
  Messages,  \* Messages[p]: the byte strings side p may hand to ring_write
  Capacity   \* the largest number of bytes a direction can hold

VARIABLES
  toSend,    \* toSend[p]: bytes of the current ring_write of p not yet sent
  chan,      \* chan[p]: bytes sent by p and not yet taken by its peer
  got        \* got[p]: bytes delivered so far to the current ring_read of p

chanVars == <<toSend, chan, got>>

Init ==
  /\ toSend = [p \in Sides |-> <<>>]
  /\ chan   = [p \in Sides |-> <<>>]
  /\ got    = [p \in Sides |-> <<>>]

\* A caller starts to write a message.
Submit(p) ==
  /\ toSend[p] = <<>>
  /\ \E m \in Messages[p] : toSend' = [toSend EXCEPT ![p] = m]
  /\ UNCHANGED <<chan, got>>

\* A piece of the message enters the stream, never more than it can hold.
Send(p) ==
  \E n \in 1..Len(toSend[p]) :
    /\ Len(chan[p]) + n <= Capacity
    /\ chan'   = [chan EXCEPT ![p] = @ \o SubSeq(toSend[p], 1, n)]
    /\ toSend' = [toSend EXCEPT ![p] = SubSeq(@, n + 1, Len(@))]
    /\ UNCHANGED got

\* A caller starts a new read.
Ask(p) ==
  /\ got' = [got EXCEPT ![p] = <<>>]
  /\ UNCHANGED <<toSend, chan>>

\* The oldest bytes of the peer's stream are delivered to the reader.
Deliver(p) ==
  \E n \in 1..Len(chan[Peer(p)]) :
    /\ got'  = [got EXCEPT ![p] = @ \o SubSeq(chan[Peer(p)], 1, n)]
    /\ chan' = [chan EXCEPT ![Peer(p)] = SubSeq(@, n + 1, Len(@))]
    /\ UNCHANGED toSend

Next == \E p \in Sides : Submit(p) \/ Send(p) \/ Ask(p) \/ Deliver(p)

Spec == Init /\ [][Next]_chanVars
=============================================================================
