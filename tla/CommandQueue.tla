---------------------------- MODULE CommandQueue ---------------------------
(***************************************************************************)
(* What a ring of Venus promises its driver: the units of command data run *)
(* in the order in which they were submitted, each once, and none before   *)
(* it was submitted.  Units are numbered.  VkrRing implements this.        *)
(***************************************************************************)
EXTENDS Integers, Sequences

VARIABLES
  submitted,  \* how many units were submitted
  executed    \* the units that ran

Init == submitted = 0 /\ executed = <<>>

Submit(n) ==
  /\ submitted' = submitted + n
  /\ UNCHANGED executed

\* The next n units run as one buffer of commands.
Execute(n) ==
  /\ Len(executed) + n <= submitted
  /\ executed' = executed \o [i \in 1..n |-> Len(executed) + i]
  /\ UNCHANGED submitted

Next ==
  \/ \E n \in 1 .. (submitted' - submitted) : Submit(n)
  \/ \E n \in 1 .. (submitted - Len(executed)) : Execute(n)

Spec == Init /\ [][Next]_<<submitted, executed>>
=============================================================================
