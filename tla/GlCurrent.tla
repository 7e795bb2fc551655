----------------------------- MODULE GlCurrent -----------------------------
(***************************************************************************)
(* Which GL context is current in the thread that serves the guests, and   *)
(* the two caches vrend_renderer.c keeps of it: current_ctx, the           *)
(* vrend_context whose commands run, and current_hw_ctx, the one whose GL  *)
(* context was made current last.  Sub-contexts are made current by their  *)
(* own commands, the overlay of vtest_renderer.c makes another context     *)
(* current with EGL, and neither goes through the caches.  Queries are     *)
(* modelled with it, because examining them switches contexts.             *)
(*                                                                         *)
(* The build is the one the repository ships, without eventfd and hence    *)
(* without a sync thread: renderer_loop polls before each command, and the *)
(* poll forces context 0.  Calls into the library are serialised.  GL      *)
(* executes what it is given in order: a fence is signaled only after the  *)
(* queries that ended before it have their results.                        *)
(***************************************************************************)
EXTENDS Naturals, Sequences, FiniteSets

CONSTANTS Ctxs,       \* the contexts of guests
          Ctx0,       \* the host's own context, vrend_state.ctx0
          NoCtx,      \* the null pointer
          Subs,       \* names of sub-contexts, 0 among them
          Queries,    \* query objects of all guests
          Targets,    \* what a query measures, q->gltype with q->index
          Timestamp,  \* GL_TIMESTAMP, which GL measures at a point
          MaxFences   \* bound: fences that wait for GL at a time

ASSUME CtxAssumption == Ctx0 \notin Ctxs /\ NoCtx \notin Ctxs \cup {Ctx0}
ASSUME SubAssumption == 0 \in Subs

VARIABLES
  phase,           \* where the serving thread is, see Phases
  running,         \* the context whose command buffer is decoded, or NoCtx
  current_ctx,     \* vrend_state.current_ctx
  current_hw_ctx,  \* vrend_state.current_hw_ctx
  gl,              \* the GL context EGL has current
  sub_ctxs,        \* ctx->sub_ctxs, {} for a context that does not exist
  sub,             \* ctx->sub
  in_error,        \* the contexts with ctx->in_error
  overlay_ctx,     \* the global of vrend_renderer.h
  alone,           \* history: no two guests had contexts at once since the start
  owner,           \* the GL context a query object was generated in
  gltype,          \* the target of a query object
  qstate,          \* "none", "new", "begun" or "ended", as GL has it
  done,            \* queries whose result GL has
  waiting,         \* vrend_state.waiting_query_list
  unchecked,       \* entries of it that check_queries has still to visit
  readAt,          \* history: the GL context an answer of this poll or buffer was read in
  fences,          \* vrend_state.fence_list: the queries each fence follows
  retired          \* retired_fences of the poll in progress

curvars  == <<current_ctx, current_hw_ctx, gl>>
ctxvars  == <<sub_ctxs, sub, in_error, overlay_ctx, alone>>
qvars    == <<owner, gltype, qstate, done, waiting, readAt>>
fencevars == <<fences, unchecked, retired>>
vars     == <<phase, running, curvars, ctxvars, qvars, fencevars>>

Phases  == {"down", "idle", "check", "ready", "decode"}
AllCtxs == Ctxs \cup {Ctx0}
Overlay == <<NoCtx, 0>>           \* r->egl_ctx, the context of vtest itself
Nowhere == <<NoCtx, 1>>           \* no GL context, or a destroyed one
GlCtxs  == (AllCtxs \X Subs) \cup {Overlay, Nowhere}
Exists(c) == sub_ctxs[c] # {}
GlOf(c)   == <<c, sub[c]>>

----------------------------------------------------------------------------
(* Switching. *)

\* vrend_hw_switch_context with now = true succeeds.
CanSwitch(c) == c = current_ctx \/ c = Ctx0 \/ c \notin in_error

\* vrend_hw_switch_context with now = true, and vrend_finish_context_switch:
\* both caches may spare the call of make_current.
SwitchContext(c) ==
  IF c = current_ctx \/ ~CanSwitch(c) THEN UNCHANGED curvars
  ELSE /\ current_ctx' = c
       /\ current_hw_ctx' = c
       /\ gl' = IF current_hw_ctx = c THEN gl ELSE GlOf(c)

\* Mutant: the caches are trusted.
ForceCtx0Cached == SwitchContext(Ctx0)

\* vrend_renderer_force_ctx_0 clears the caches before it switches.
ForceCtx0 ==
  /\ current_ctx' = Ctx0
  /\ current_hw_ctx' = Ctx0
  /\ gl' = GlOf(Ctx0)

\* A make_current call that bypasses the caches.
MakeCurrent(g) == gl' = g /\ UNCHANGED <<current_ctx, current_hw_ctx>>

\* Mutant: destroyed queries stay on the waiting list.
DropQueriesListed(S) ==
  LET gone == {q \in Queries : owner[q] \in S} IN
  /\ owner' = [q \in Queries |-> IF q \in gone THEN Nowhere ELSE owner[q]]
  /\ gltype' = [q \in Queries |-> IF q \in gone THEN "none" ELSE gltype[q]]
  /\ qstate' = [q \in Queries |-> IF q \in gone THEN "none" ELSE qstate[q]]
  /\ readAt' = [q \in Queries |-> IF q \in gone THEN Nowhere ELSE readAt[q]]
  /\ done' = done \ gone
  /\ waiting' = waiting
  /\ fences' = [i \in DOMAIN fences |-> fences[i] \ gone]

\* Query objects whose sub-context is in S go away with its object table,
\* and leave the waiting list.
DropQueries(S) ==
  LET gone == {q \in Queries : owner[q] \in S} IN
  /\ owner' = [q \in Queries |-> IF q \in gone THEN Nowhere ELSE owner[q]]
  /\ gltype' = [q \in Queries |-> IF q \in gone THEN "none" ELSE gltype[q]]
  /\ qstate' = [q \in Queries |-> IF q \in gone THEN "none" ELSE qstate[q]]
  /\ readAt' = [q \in Queries |-> IF q \in gone THEN Nowhere ELSE readAt[q]]
  /\ done' = done \ gone
  /\ waiting' = waiting \ gone
  /\ fences' = [i \in DOMAIN fences |-> fences[i] \ gone]

----------------------------------------------------------------------------
(* Start and end of the renderer. *)

Init ==
  /\ phase = "down" /\ running = NoCtx
  /\ current_ctx = NoCtx /\ current_hw_ctx = NoCtx /\ gl = Nowhere
  /\ sub_ctxs = [c \in AllCtxs |-> {}]
  /\ sub = [c \in AllCtxs |-> 0]
  /\ in_error = {} /\ overlay_ctx = NoCtx /\ alone = TRUE
  /\ owner = [q \in Queries |-> Nowhere]
  /\ gltype = [q \in Queries |-> "none"] /\ qstate = [q \in Queries |-> "none"]
  /\ done = {} /\ waiting = {} /\ unchecked = {}
  /\ readAt = [q \in Queries |-> Nowhere]
  /\ fences = <<>> /\ retired = {}

\* virgl_renderer_init: vrend_renderer_init creates context 0, whose first
\* sub-context is made current; the caches stay null.
Startup ==
  /\ phase = "down"
  /\ phase' = "idle"
  /\ sub_ctxs' = [sub_ctxs EXCEPT ![Ctx0] = {0}]
  /\ MakeCurrent(<<Ctx0, 0>>)
  /\ overlay_ctx' = Ctx0 /\ alone' = TRUE
  /\ UNCHANGED <<running, sub, in_error, qvars, fencevars>>

\* vtest_destroy_renderer: the overlay's surfaces, the client's context and
\* virgl_renderer_cleanup.  overlay_ctx is left pointing to a freed context.
Cleanup ==
  /\ phase = "idle"
  /\ phase' = "down"
  /\ sub_ctxs' = [c \in AllCtxs |-> {}]
  /\ sub' = [c \in AllCtxs |-> 0]
  /\ in_error' = {}
  /\ current_ctx' = NoCtx /\ current_hw_ctx' = NoCtx /\ gl' = Nowhere
  /\ owner' = [q \in Queries |-> Nowhere]
  /\ gltype' = [q \in Queries |-> "none"] /\ qstate' = [q \in Queries |-> "none"]
  /\ readAt' = [q \in Queries |-> Nowhere]
  /\ done' = {} /\ waiting' = {} /\ fences' = <<>>
  /\ UNCHANGED <<running, overlay_ctx, alone, unchecked, retired>>

\* Mutant: overlay_ctx is set once per process.
CreateContextFirst(c) ==
  /\ phase = "idle" /\ ~Exists(c)
  /\ sub_ctxs' = [sub_ctxs EXCEPT ![c] = {0}]
  /\ sub' = [sub EXCEPT ![c] = 0]
  /\ in_error' = in_error \ {c}
  /\ overlay_ctx' = IF overlay_ctx \in Ctxs THEN overlay_ctx ELSE c
  /\ alone' = (alone /\ \A d \in Ctxs : ~Exists(d))
  /\ MakeCurrent(<<c, 0>>)
  /\ UNCHANGED <<phase, running, qvars, fencevars>>

\* vrend_create_context: sub-context 0 is created, selected and made current.
CreateContext(c) ==
  /\ phase = "idle" /\ ~Exists(c)
  /\ sub_ctxs' = [sub_ctxs EXCEPT ![c] = {0}]
  /\ sub' = [sub EXCEPT ![c] = 0]
  /\ in_error' = in_error \ {c}
  /\ overlay_ctx' = c
  /\ alone' = (alone /\ \A d \in Ctxs : ~Exists(d))
  /\ MakeCurrent(<<c, 0>>)
  /\ UNCHANGED <<phase, running, qvars, fencevars>>

\* vrend_destroy_context of a guest: its sub-contexts are made current one by
\* one to be destroyed, context 0 is forced, and the context that was current,
\* if it is another one, is switched to again.
DestroyContext(c) ==
  /\ phase = "idle" /\ Exists(c)
  /\ LET back == /\ current_ctx \notin {c, NoCtx}
                 /\ current_ctx = Ctx0 \/ current_ctx \notin in_error
         cur  == IF back THEN current_ctx ELSE Ctx0
     IN /\ current_ctx' = cur /\ current_hw_ctx' = cur /\ gl' = GlOf(cur)
  /\ sub_ctxs' = [sub_ctxs EXCEPT ![c] = {}]
  /\ sub' = [sub EXCEPT ![c] = 0]
  /\ in_error' = in_error \ {c}
  /\ DropQueries({c} \X Subs)
  /\ UNCHANGED <<phase, running, overlay_ctx, alone, unchecked, retired>>

----------------------------------------------------------------------------
(* Polling: vrend_renderer_check_fences without a sync thread. *)

\* Mutant: the poll leaves the current context alone.
PollAnywhere ==
  /\ phase = "idle"
  /\ phase' = "ready"
  /\ UNCHANGED <<running, curvars, ctxvars, qvars, fencevars>>

\* Mutant: fences are reported before the queries are examined.
PollReportsFirst ==
  /\ phase = "idle"
  /\ ForceCtx0
  /\ \E n \in 0 .. Len(fences) :
       /\ \A i \in 1 .. n : fences[i] \subseteq done
       /\ fences' = SubSeq(fences, n + 1, Len(fences))
       /\ retired' = UNION {fences[i] : i \in 1 .. n}
       /\ phase' = IF n = 0 THEN "ready" ELSE "check"
       /\ UNCHANGED unchecked
  /\ UNCHANGED <<running, ctxvars, qvars>>

\* virgl_renderer_poll before a command: context 0 is forced, the fences GL
\* has signaled are taken in order, and unless there is none the queries are
\* examined next.
Poll ==
  /\ phase = "idle"
  /\ ForceCtx0
  /\ \E n \in 0 .. Len(fences) :
       /\ \A i \in 1 .. n : fences[i] \subseteq done
       /\ fences' = SubSeq(fences, n + 1, Len(fences))
       /\ retired' = UNION {fences[i] : i \in 1 .. n}
       /\ IF n = 0 THEN phase' = "ready" /\ UNCHANGED unchecked
                   ELSE phase' = "check" /\ unchecked' = waiting
  /\ UNCHANGED <<running, ctxvars, qvars>>

\* One round of vrend_renderer_check_queries.  The query's context is switched
\* to, whatever sub-context that has selected; a query that was generated in
\* another one is unknown there or another query, and ready is any value, as it is
\* for one that has not ended.  The order of the list is left open.
CheckQuery(q) ==
  LET c == owner[q][1] IN
  /\ phase = "check" /\ q \in unchecked
  /\ unchecked' = unchecked \ {q}
  /\ SwitchContext(c)
  /\ IF CanSwitch(c)
     THEN \E ready \in BOOLEAN :
            /\ gl' = owner[q] /\ qstate[q] = "ended" => ready = (q \in done)
            /\ waiting' = IF ready THEN waiting \ {q} ELSE waiting
            /\ readAt' = IF ready THEN [readAt EXCEPT ![q] = gl'] ELSE readAt
     ELSE waiting' = waiting \ {q} /\ UNCHANGED readAt
  /\ UNCHANGED <<phase, running, ctxvars, owner, gltype, qstate, done, fences, retired>>

\* The retired fences are reported to their clients, after the queries.
ReportFences ==
  /\ phase = "check" /\ unchecked = {}
  /\ phase' = "ready" /\ retired' = {}
  /\ readAt' = [q \in Queries |-> Nowhere]
  /\ UNCHANGED <<running, curvars, ctxvars, owner, gltype, qstate, done, waiting, fences,
                 unchecked>>

----------------------------------------------------------------------------
(* Commands: each follows a poll, as in renderer_loop. *)

\* vrend_decode_ctx_submit_cmd: EINVAL for a context in error.
SubmitCmd(c) ==
  /\ phase = "ready" /\ Exists(c)
  /\ SwitchContext(c)
  /\ IF CanSwitch(c) THEN phase' = "decode" /\ running' = c
                     ELSE phase' = "idle" /\ UNCHANGED running
  /\ UNCHANGED <<ctxvars, qvars, fencevars>>

\* Mutant: the decoder remembers the context of the last buffer.
EndSubmitForgets ==
  /\ phase = "decode"
  /\ phase' = "idle"
  /\ UNCHANGED <<running, curvars, ctxvars, qvars, fencevars>>

EndSubmit ==
  /\ phase = "decode"
  /\ phase' = "idle" /\ running' = NoCtx
  /\ readAt' = [q \in Queries |-> Nowhere]
  /\ UNCHANGED <<curvars, ctxvars, owner, gltype, qstate, done, waiting, fencevars>>

\* vrend_renderer_transfer_internal ignores the result of the switch.
Transfer(c) ==
  /\ phase = "ready" /\ Exists(c)
  /\ SwitchContext(c)
  /\ phase' = "idle"
  /\ UNCHANGED <<running, ctxvars, qvars, fencevars>>

\* vtest_dt_flush and vtest_dt_destroy call eglMakeCurrent themselves.
DtCmd ==
  /\ phase = "ready"
  /\ MakeCurrent(Overlay)
  /\ phase' = "idle"
  /\ UNCHANGED <<running, ctxvars, qvars, fencevars>>

\* vtest_renderer_create_fence.
CreateFence ==
  /\ phase = "ready" /\ Len(fences) < MaxFences
  /\ fences' = Append(fences, {q \in Queries : qstate[q] = "ended"})
  /\ phase' = "idle"
  /\ UNCHANGED <<running, curvars, ctxvars, qvars, unchecked, retired>>

----------------------------------------------------------------------------
(* What a command buffer may hold. *)

\* vrend_renderer_create_sub_ctx of a name that is not in use.
CreateSubCtx(s) ==
  /\ phase = "decode" /\ s \notin sub_ctxs[running]
  /\ MakeCurrent(<<running, s>>)
  /\ sub' = [sub EXCEPT ![running] = s]
  /\ sub_ctxs' = [sub_ctxs EXCEPT ![running] = @ \cup {s}]
  /\ UNCHANGED <<phase, running, in_error, overlay_ctx, alone, qvars, fencevars>>

\* vrend_renderer_set_sub_ctx of another sub-context than the selected one.
SetSubCtx(s) ==
  /\ phase = "decode" /\ s \in sub_ctxs[running] \ {sub[running]}
  /\ sub' = [sub EXCEPT ![running] = s]
  /\ MakeCurrent(<<running, s>>)
  /\ UNCHANGED <<phase, running, sub_ctxs, in_error, overlay_ctx, alone, qvars,
                 fencevars>>

\* vrend_renderer_destroy_sub_ctx: never 0; the selected one is made current
\* again after the destroyed one was.
DestroySubCtx(s) ==
  /\ phase = "decode" /\ s \in sub_ctxs[running] \ {0}
  /\ sub' = [sub EXCEPT ![running] = IF @ = s THEN 0 ELSE @]
  /\ sub_ctxs' = [sub_ctxs EXCEPT ![running] = @ \ {s}]
  /\ MakeCurrent(<<running, sub'[running]>>)
  /\ DropQueries({<<running, s>>})
  /\ UNCHANGED <<phase, running, in_error, overlay_ctx, alone, unchecked, retired>>

\* vrend_report_context_error: the context is in error for good.  Whether the
\* rest of the buffer is decoded depends on the command.
FailCommand ==
  /\ phase = "decode"
  /\ in_error' = in_error \cup {running}
  /\ UNCHANGED <<phase, running, curvars, sub_ctxs, sub, overlay_ctx, alone, qvars,
                 fencevars>>

\* vrend_create_query: glGenQueries in the GL context that is current.
CreateQuery(q) ==
  /\ phase = "decode" /\ qstate[q] = "none"
  /\ qstate' = [qstate EXCEPT ![q] = "new"]
  /\ owner' = [owner EXCEPT ![q] = gl]
  /\ \E t \in Targets : gltype' = [gltype EXCEPT ![q] = t]
  /\ UNCHANGED <<phase, running, curvars, ctxvars, done, waiting, readAt, fencevars>>

\* Queries are found in the object table of the selected sub-context.
Finds(q) == phase = "decode" /\ qstate[q] # "none" /\ owner[q] = GlOf(running)

\* What GL measures for the target of q in its GL context: one query at most.
Active(q) ==
  {a \in Queries : qstate[a] = "begun" /\ owner[a] = owner[q] /\ gltype[a] = gltype[q]}

\* GL starts over with q, whose earlier result is gone.
Measure(q, state) ==
  /\ qstate' = [qstate EXCEPT ![q] = state]
  /\ done' = done \ {q}
  /\ readAt' = [readAt EXCEPT ![q] = Nowhere]
  /\ fences' = [i \in DOMAIN fences |-> fences[i] \ {q}]

\* vrend_begin_query takes the query off the waiting list.  A timestamp is not begun,
\* and GL refuses a second query of a target.
BeginQuery(q) ==
  /\ Finds(q)
  /\ waiting' = waiting \ {q}
  /\ IF gltype[q] = Timestamp \/ Active(q) # {}
     THEN UNCHANGED <<qstate, done, readAt, fences>>
     ELSE Measure(q, "begun")
  /\ UNCHANGED <<phase, running, curvars, ctxvars, owner, gltype, unchecked, retired>>

\* vrend_end_query: glQueryCounter, or glEndQuery, which knows only the target and
\* ends what is active there, be it another query; if nothing is, GL refuses.
EndQuery(q) ==
  /\ Finds(q)
  /\ \/ gltype[q] = Timestamp /\ Measure(q, "ended")
     \/ gltype[q] # Timestamp /\ \E a \in Active(q) : Measure(a, "ended")
  /\ UNCHANGED <<phase, running, curvars, ctxvars, owner, gltype, waiting, unchecked,
                 retired>>

\* vrend_get_query_result: answered at once, or put on the waiting list.  Of a query
\* that has not ended GL says nothing, and ready is any value.
GetQueryResult(q) ==
  /\ Finds(q)
  /\ \E ready \in BOOLEAN :
       /\ qstate[q] = "ended" => ready = (q \in done)
       /\ waiting' = IF ready THEN waiting \ {q} ELSE waiting \cup {q}
       /\ readAt' = IF ready THEN [readAt EXCEPT ![q] = gl] ELSE readAt
  /\ UNCHANGED <<phase, running, curvars, ctxvars, owner, gltype, qstate, done, fencevars>>

\* vrend_destroy_query.
DestroyQuery(q) ==
  /\ Finds(q)
  /\ owner' = [owner EXCEPT ![q] = Nowhere]
  /\ gltype' = [gltype EXCEPT ![q] = "none"]
  /\ Measure(q, "none")
  /\ waiting' = waiting \ {q}
  /\ UNCHANGED <<phase, running, curvars, ctxvars, unchecked, retired>>

----------------------------------------------------------------------------
\* GL finishes a measurement, at any time.
GpuFinish(q) ==
  /\ qstate[q] = "ended" /\ q \notin done
  /\ done' = done \cup {q}
  /\ UNCHANGED <<phase, running, curvars, ctxvars, owner, gltype, qstate, waiting,
                 readAt, fencevars>>

SubCommand == \E s \in Subs : CreateSubCtx(s) \/ SetSubCtx(s) \/ DestroySubCtx(s)

QueryCommand ==
  \E q \in Queries : \/ CreateQuery(q) \/ BeginQuery(q) \/ EndQuery(q)
                     \/ GetQueryResult(q) \/ DestroyQuery(q)

Next ==
  \/ Startup \/ Cleanup \/ Poll \/ ReportFences \/ EndSubmit \/ FailCommand
  \/ DtCmd \/ CreateFence \/ SubCommand \/ QueryCommand
  \/ \E c \in Ctxs : \/ CreateContext(c) \/ DestroyContext(c)
                     \/ SubmitCmd(c) \/ Transfer(c)
  \/ \E q \in Queries : CheckQuery(q) \/ GpuFinish(q)

Spec == Init /\ [][Next]_vars

----------------------------------------------------------------------------
(* Properties. *)

\* The types of the variables, which the code's declarations give.
TypeOK ==
  /\ phase \in Phases
  /\ running \in Ctxs \cup {NoCtx}
  /\ current_ctx \in AllCtxs \cup {NoCtx}
  /\ current_hw_ctx \in AllCtxs \cup {NoCtx}
  /\ gl \in GlCtxs
  /\ sub_ctxs \in [AllCtxs -> SUBSET Subs]
  /\ sub \in [AllCtxs -> Subs]
  /\ in_error \subseteq Ctxs
  /\ overlay_ctx \in AllCtxs \cup {NoCtx}
  /\ alone \in BOOLEAN
  /\ owner \in [Queries -> GlCtxs]
  /\ gltype \in [Queries -> Targets \cup {"none"}]
  /\ qstate \in [Queries -> {"none", "new", "begun", "ended"}]
  /\ done \subseteq Queries /\ waiting \subseteq Queries
  /\ unchecked \subseteq Queries /\ retired \subseteq Queries
  /\ readAt \in [Queries -> GlCtxs]
  /\ fences \in Seq(SUBSET Queries)
  /\ phase = "decode" <=> running # NoCtx

\* From a poll to the end of the command that follows it, the two caches agree
\* and tell the truth, although others made GL contexts current without them:
\* this is what vrend_hw_switch_context relies on to skip make_current.
CachesTrue ==
  phase \in {"check", "ready", "decode"} =>
    current_ctx = current_hw_ctx /\ current_ctx \in AllCtxs /\ gl = GlOf(current_ctx)

\* While a command buffer is decoded, the GL context that is current is the
\* selected sub-context of the guest that sent it, which exists, whatever the overlay, other
\* guests' contexts, queries and sub-context commands made current before:
\* vrend_hw_switch_context may trust its caches.
CommandsInOwnContext ==
  phase = "decode" => gl = GlOf(running) /\ sub[running] \in sub_ctxs[running]

\* When fences are reported, the queries that ended before them and whose
\* result was asked for are answered: vrend_renderer_check_queries comes before
\* the loop that retires.  The exception is a query of a sub-context that is no
\* longer the selected one, which is looked up in the wrong GL context.
AnsweredBeforeReport ==
  phase = "check" /\ unchecked = {} =>
    \A q \in retired \cap waiting : owner[q] # GlOf(owner[q][1])

\* An answer is read in a GL context of the guest the query belongs to, and
\* that context still has that sub-context when it is on the waiting list: a
\* query leaves the list before what it points to is destroyed.
QueriesOfTheLiving ==
  /\ \A q \in Queries : readAt[q] # Nowhere => readAt[q][1] = owner[q][1]
  /\ \A q \in waiting \cup unchecked :
       owner[q] # Nowhere /\ owner[q][2] \in sub_ctxs[owner[q][1]]

\* The overlay looks its texture up in overlay_ctx, the context created last.
\* That is the client's own as long as no two clients shared the renderer, over
\* any number of restarts.
OverlayIsTheClient ==
  phase # "down" /\ alone => \A c \in Ctxs : Exists(c) => overlay_ctx = c
=============================================================================
