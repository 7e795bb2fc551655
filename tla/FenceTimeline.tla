--------------------------- MODULE FenceTimeline ---------------------------
(***************************************************************************)
(* What virgl_context.h promises of fences: each goes through submitted,   *)
(* signaled and retired; the callback fence_retire is called for fences of *)
(* a context in the order of submission, never before the fence and all    *)
(* earlier ones of the context have signaled, and it may be called for the *)
(* latest of several only when the earlier ones are flagged mergeable.     *)
(* Fences implements this specification (see Fences!Timeline).             *)
(***************************************************************************)
EXTENDS Integers, Sequences

CONSTANTS
  Contexts,  \* the rendering contexts
  Ctx0       \* the renderer's own context, which only a reset replaces

VARIABLES
  submitted,  \* the fences in the order of submission: their context and flag
  signaled,   \* the fences that the GPU has passed
  owed,       \* the fences whose retirement the context is still owed
  calls       \* the fences that fence_retire was called with, in order

timelineVars == <<submitted, signaled, owed, calls>>

Owner(f) == submitted[f].ctx

\* The callback for f answers for every earlier fence of its context too.
AnsweredWith(f) == {g \in owed : Owner(g) = Owner(f) /\ g <= f}

Init ==
  /\ submitted = <<>>
  /\ signaled = {}
  /\ owed = {}
  /\ calls = <<>>

Submit(c, mergeable) ==
  /\ submitted' = Append(submitted, [ctx |-> c, mergeable |-> mergeable])
  /\ owed' = owed \union {Len(submitted) + 1}
  /\ UNCHANGED <<signaled, calls>>

Signal(f) ==
  /\ signaled' = signaled \union {f}
  /\ UNCHANGED <<submitted, owed, calls>>

Retire(f) ==
  /\ AnsweredWith(f) \subseteq signaled
  /\ \A g \in AnsweredWith(f) \ {f} : submitted[g].mergeable
  /\ owed' = owed \ AnsweredWith(f)
  /\ calls' = Append(calls, f)
  /\ UNCHANGED <<submitted, signaled>>

\* The owner is destroyed with its fences.  The code can take along one fence of
\* another context, the one its sync thread is waiting on.
Destroy(c) ==
  /\ \E lost \in SUBSET owed :
       /\ \A f, g \in lost : f = g
       /\ owed' = {f \in owed : Owner(f) # c} \ lost
  /\ UNCHANGED <<submitted, signaled, calls>>

Reset ==
  /\ owed' = {}
  /\ UNCHANGED <<submitted, signaled, calls>>

Next ==
  \/ \E c \in Contexts, mergeable \in BOOLEAN : Submit(c, mergeable)
  \/ \E f \in 1..Len(submitted) : Signal(f)
  \/ \E f \in owed : Retire(f)
  \/ \E c \in Contexts \ {Ctx0} : Destroy(c)
  \/ Reset

Spec == Init /\ [][Next]_timelineVars
=============================================================================
