----------------------------- MODULE MCVkrRing -----------------------------
(* VkrRing for TLC: the counters wrap around at twice the size of the buffer. *)
EXTENDS VkrRing

SmallSizes == {1, 2}
=============================================================================
