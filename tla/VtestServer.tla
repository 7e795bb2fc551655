---------------------------- MODULE VtestServer ----------------------------
(***************************************************************************)
(* One process of the native service as vtest_renderer.c makes it: each    *)
(* client has a thread that runs renderer_loop, and all of them share one  *)
(* virglrenderer, one counter of contexts and one variable for flags.      *)
(* Nothing serialises the loops: a step of the model is one command of one *)
(* client, and a busy wait is as many steps as it touches shared state.    *)
(* The service's single-threaded mode is the case of one thread.           *)
(***************************************************************************)
EXTENDS Naturals, Sequences, FiniteSets, Functions

CONSTANTS NProcs,   \* cfgProfile.eglAccessMaxThreads
          MaxFence  \* bound: fences that clients ask for in their lifetime

ASSUME BoundAssumption == NProcs \in Nat \ {0} /\ MaxFence \in Nat

VARIABLES
  pc,          \* where each thread is, see Pcs
  ctx_id,      \* static counter of runSocketLoop
  raced,       \* history: two threads were between its two accesses at once
  id,          \* r->ctx_id of each client, 0 before there is an r
  inited,      \* local of renderer_loop: the client's first command has come
  made,        \* history: the client's virgl_renderer_init succeeded
  fence_id,    \* r->fence_id
  last_fence,  \* r->last_fence
  fenced,      \* history: the creation of the client's last fence succeeded
  asked,       \* history: the flags of the busy wait the client is in
  cookie,      \* state.cookie of virglrenderer.c, 0 when not initialized
  fence_list,  \* vrend_state.fence_list: who asked for which fence
  gl_queue,    \* those GL has still to reach
  flags,       \* global of vtest_renderer.c
  strayed,     \* history: clients whose renderer took fences of others
  orphaned     \* history: clients whose renderer another one tore down

idvars    == <<ctx_id, raced, id>>
opening   == <<inited, made>>
fencing   == <<fence_id, fenced, asked>>
listing   == <<last_fence, fence_list>>
libvars   == <<cookie, orphaned>>
vars      == <<pc, idvars, opening, fencing, listing, gl_queue, libvars, flags, strayed>>

Procs == 1 .. NProcs

Loop == {"loop", "test", "wait", "idle", "busy", "fail"}
Pcs  == Loop \cup {"entering", "numbered", "ended", "crashed"}
Serving(p) == pc[p] \in Loop

\* r->last_fence == r->fence_id - 1
Reached(p) == last_fence[p] = fence_id[p] - 1

Go(p, to) == pc' = [pc EXCEPT ![p] = to]

Init ==
  /\ pc = [p \in Procs |-> "entering"]
  /\ ctx_id = 0 /\ raced = FALSE /\ id = [p \in Procs |-> 0]
  /\ inited = [p \in Procs |-> FALSE] /\ made = [p \in Procs |-> FALSE]
  /\ fence_id = [p \in Procs |-> 1] /\ last_fence = [p \in Procs |-> 0]
  /\ fenced = [p \in Procs |-> FALSE] /\ asked = [p \in Procs |-> "poll"]
  /\ cookie = 0 /\ fence_list = <<>> /\ gl_queue = <<>>
  /\ flags = "poll" /\ strayed = {} /\ orphaned = {}

----------------------------------------------------------------------------
(* Entry. *)

\* Mutant: every client is context 1, as main of vtest_server.c has it.
NumberOne(p) ==
  /\ pc[p] = "entering"
  /\ ctx_id' = 1 /\ raced' = raced
  /\ Go(p, "numbered")
  /\ UNCHANGED <<id, opening, fencing, listing, gl_queue, libvars, flags, strayed>>

\* runSocketLoop: ctx_id++.
Number(p) ==
  /\ pc[p] = "entering"
  /\ ctx_id' = ctx_id + 1
  /\ raced' = (raced \/ \E q \in Procs : pc[q] = "numbered")
  /\ Go(p, "numbered")
  /\ UNCHANGED <<id, opening, fencing, listing, gl_queue, libvars, flags, strayed>>

\* runSocketLoop: create_renderer(fileDescriptor, ctx_id).
CreateRenderer(p) ==
  /\ pc[p] = "numbered"
  /\ id' = [id EXCEPT ![p] = ctx_id]
  /\ Go(p, "loop")
  /\ UNCHANGED <<ctx_id, raced, opening, fencing, listing, gl_queue, libvars, flags, strayed>>

----------------------------------------------------------------------------
(* The library. *)

\* Mutant: fences that GL has not reached yet retire too.
RetiresEarly(n) == n = Len(fence_list)

\* check_fences takes the first n fences: it stops where GL has not come to.
Retires(n) ==
  /\ \A i \in 1 .. n : fence_list[i] \notin Range(gl_queue)
  /\ n < Len(fence_list) => fence_list[n + 1] \in Range(gl_queue)

\* virgl_renderer_poll: of the fences that retire together only the last is
\* reported, to the current cookie.  Without a library there are no fences.
Poll ==
  \E n \in 0 .. Len(fence_list) :
    /\ Retires(n)
    /\ fence_list' = SubSeq(fence_list, n + 1, Len(fence_list))
    /\ last_fence' = IF n = 0 THEN last_fence
                     ELSE [last_fence EXCEPT ![cookie] = fence_list[n][2]]

\* GL gets to the next fence.
GpuSignal ==
  /\ gl_queue # <<>>
  /\ gl_queue' = Tail(gl_queue)
  /\ UNCHANGED <<pc, idvars, opening, fencing, listing, libvars, flags, strayed>>

\* Mutant: the cookie survives the cleanup.
CleanupKeepsCookie(p) ==
  /\ fence_list' = <<>> /\ gl_queue' = <<>>
  /\ cookie' = cookie
  /\ orphaned' = orphaned \cup ({cookie} \ {0, p})

\* Mutant: the fences survive the cleanup.
CleanupKeepsFences(p) ==
  /\ UNCHANGED fence_list /\ gl_queue' = <<>>
  /\ cookie' = 0
  /\ orphaned' = orphaned \cup ({cookie} \ {0, p})

\* virgl_renderer_cleanup, whoever had initialised the library.
CleanupLibrary(p) ==
  /\ fence_list' = <<>> /\ gl_queue' = <<>>
  /\ cookie' = 0
  /\ orphaned' = orphaned \cup ({cookie} \ {0, p})

----------------------------------------------------------------------------
(* renderer_loop. *)

\* vtest_create_renderer when virgl_renderer_init finds another client; the
\* loop polls before it gives up.
OpenBusy(p) ==
  /\ pc[p] = "loop" /\ ~inited[p]
  /\ cookie \notin {0, p}
  /\ inited' = [inited EXCEPT ![p] = TRUE]
  /\ Poll
  /\ Go(p, "fail")
  /\ UNCHANGED <<idvars, made, fencing, gl_queue, libvars, flags, strayed>>

\* vtest_create_renderer when virgl_renderer_init fails and cleans up.
OpenFails(p) ==
  /\ pc[p] = "loop" /\ ~inited[p]
  /\ cookie = 0
  /\ inited' = [inited EXCEPT ![p] = TRUE]
  /\ Go(p, "fail")
  /\ UNCHANGED <<idvars, made, fencing, listing, gl_queue, libvars, flags, strayed>>

\* vtest_create_renderer when virgl_renderer_init succeeds: the name may be
\* cut short, and an error of the context's creation is not negative.
Open(p) ==
  /\ pc[p] = "loop" /\ ~inited[p]
  /\ cookie = 0
  /\ cookie' = p
  /\ inited' = [inited EXCEPT ![p] = TRUE]
  /\ made' = [made EXCEPT ![p] = TRUE]
  /\ \E to \in {"loop", "fail"} : Go(p, to)
  /\ UNCHANGED <<idvars, fencing, listing, gl_queue, orphaned, flags, strayed>>

\* The header cannot be read, or a client does not begin with CREATE_RENDERER.
LeaveLoop(p) ==
  /\ pc[p] = "loop"
  /\ Go(p, "fail")
  /\ UNCHANGED <<idvars, opening, fencing, listing, gl_queue, libvars, flags, strayed>>

\* The tables are gone while nobody has the library initialised, but their
\* pointers are not cleared: a use of them goes unnoticed or is the end.
Crash(p) ==
  /\ cookie = 0
  /\ Go(p, "crashed")
  /\ UNCHANGED <<idvars, opening, fencing, listing, gl_queue, libvars, flags, strayed>>

\* A command that looks something up in the tables.
Command(p) ==
  /\ pc[p] = "loop" /\ inited[p]
  /\ \/ /\ Poll
        /\ \E to \in {"loop", "fail"} : Go(p, to)
        /\ UNCHANGED <<idvars, opening, fencing, gl_queue, libvars, flags, strayed>>
     \/ Crash(p)

\* The fences all clients have asked for.
Asked == FoldFunction(+, 0, [q \in Procs |-> fence_id[q] - 1])

\* vtest_renderer_create_fence: fence_id advances whether or not it succeeds.
Fences(p, ok) ==
  /\ fence_id' = [fence_id EXCEPT ![p] = @ + 1]
  /\ fenced' = [fenced EXCEPT ![p] = ok]

\* RESOURCE_BUSY_WAIT, which polls and makes a fence.
BusyWait(p, f) ==
  /\ pc[p] = "loop" /\ inited[p]
  /\ Asked < MaxFence
  /\ \E n \in 0 .. Len(fence_list), ok \in BOOLEAN :
       /\ ok => cookie # 0
       /\ Retires(n)
       /\ Fences(p, ok)
       /\ last_fence' = IF n = 0 THEN last_fence
                        ELSE [last_fence EXCEPT ![cookie] = fence_list[n][2]]
       /\ LET left == SubSeq(fence_list, n + 1, Len(fence_list))
              new  == <<p, fence_id[p]>>
          IN IF ok
             THEN /\ fence_list' = Append(left, new)
                  /\ gl_queue' = Append(gl_queue, new)
                  /\ strayed' = strayed \cup ({cookie} \ {p})
             ELSE fence_list' = left /\ UNCHANGED <<gl_queue, strayed>>
  /\ asked' = [asked EXCEPT ![p] = f]
  /\ \/ Go(p, "test") /\ flags' = f
     \/ Go(p, "fail") /\ UNCHANGED flags
  /\ UNCHANGED <<idvars, opening, libvars>>

\* vtest_resource_busy_wait: the test of flags, and the answer without a wait.
Test(p) ==
  /\ pc[p] = "test"
  /\ Go(p, IF flags = "wait" THEN "wait" ELSE IF Reached(p) THEN "idle" ELSE "busy")
  /\ UNCHANGED <<idvars, opening, fencing, listing, gl_queue, libvars, flags, strayed>>

\* Mutant: the loop does not poll.
WaitBlindly(p) ==
  /\ pc[p] = "wait" /\ Reached(p)
  /\ Go(p, "idle")
  /\ UNCHANGED <<idvars, opening, fencing, listing, gl_queue, libvars, flags, strayed>>

\* vtest_resource_busy_wait: an iteration of its loop.
Wait(p) ==
  /\ pc[p] = "wait"
  /\ IF Reached(p) THEN Go(p, "idle") /\ UNCHANGED listing
     ELSE Poll /\ UNCHANGED pc
  /\ UNCHANGED <<idvars, opening, fencing, gl_queue, libvars, flags, strayed>>

\* The answer is written, which the client may not take.
Reply(p) ==
  /\ pc[p] \in {"idle", "busy"}
  /\ \E to \in {"loop", "fail"} : Go(p, to)
  /\ asked' = [asked EXCEPT ![p] = "poll"]
  /\ UNCHANGED <<idvars, opening, fence_id, fenced, listing, gl_queue, libvars, flags, strayed>>

\* vtest_destroy_renderer, the context and then the library, and free(r).
Teardown(p) ==
  /\ pc[p] = "fail"
  /\ \/ /\ CleanupLibrary(p)
        /\ Go(p, "ended")
        /\ inited' = [inited EXCEPT ![p] = FALSE] /\ made' = [made EXCEPT ![p] = FALSE]
        /\ fence_id' = [fence_id EXCEPT ![p] = 1] /\ last_fence' = [last_fence EXCEPT ![p] = 0]
        /\ fenced' = [fenced EXCEPT ![p] = FALSE] /\ asked' = [asked EXCEPT ![p] = "poll"]
        /\ UNCHANGED <<idvars, flags, strayed>>
     \/ Crash(p)

Serve(p) ==
  \/ OpenBusy(p) \/ OpenFails(p) \/ Open(p) \/ LeaveLoop(p) \/ Command(p)
  \/ \E f \in {"wait", "poll"} : BusyWait(p, f)

Own(p) == Test(p) \/ Wait(p) \/ Reply(p) \/ Teardown(p)

Dead == \E p \in Procs : pc[p] = "crashed"

Next ==
  /\ ~Dead
  /\ \/ GpuSignal
     \/ \E p \in Procs : Number(p) \/ CreateRenderer(p) \/ Serve(p) \/ Own(p)

\* A thread that has something to do goes on, and GL executes what it was
\* given.  Nothing makes a client connect or send.
Spec ==
  /\ Init /\ [][Next]_vars
  /\ WF_vars(~Dead /\ GpuSignal)
  /\ \A p \in Procs : WF_vars(~Dead /\ Own(p))

----------------------------------------------------------------------------
(* Properties. *)

\* Type correctness.
TypeOK ==
  /\ pc \in [Procs -> Pcs]
  /\ ctx_id \in Nat /\ raced \in BOOLEAN /\ id \in [Procs -> Nat]
  /\ inited \in [Procs -> BOOLEAN] /\ made \in [Procs -> BOOLEAN]
  /\ fence_id \in [Procs -> Nat \ {0}] /\ last_fence \in [Procs -> Nat]
  /\ fenced \in [Procs -> BOOLEAN] /\ asked \in [Procs -> {"wait", "poll"}]
  /\ cookie \in Procs \cup {0}
  /\ fence_list \in Seq(Procs \X Nat) /\ gl_queue \in Seq(Procs \X Nat)
  /\ cookie = 0 => fence_list = <<>>
  /\ flags \in {"wait", "poll"}
  /\ strayed \subseteq Procs /\ orphaned \subseteq Procs

\* The library reports fences through state.cookie: it always points to a
\* vtest_renderer that is not freed yet, whichever client cleaned up last.
CookieLives == cookie # 0 => Serving(cookie)

\* The clients of one process have different contexts, unless their threads
\* went through runSocketLoop at once.
ContextsApart ==
  \A p, q \in Procs : p # q /\ ~raced /\ id[p] # 0 => id[p] # id[q]

\* Only a client whose own initialisation did not succeed, or whose library
\* another client tore down, ever uses the table of contexts when it is gone.
CrashOnlyUninitialised ==
  \A p \in Procs : pc[p] = "crashed" => ~made[p] \/ p \in orphaned

\* p is told that it is idle or busy.
Told(p, a) == pc[p] \in {"test", "wait"} /\ pc'[p] = a

\* Of what the clients share, nothing is used after its owner freed it, except
\* by who never had it or lost it to another client.
LibraryLives == CookieLives /\ CrashOnlyUninitialised

\* A client is told that it is idle only when GL has reached the last fence
\* it asked for, unless another client's fences went to its renderer.
IdleIsTrue ==
  [][\A p \in Procs : Told(p, "idle") /\ p \notin strayed =>
       /\ fenced[p]
       /\ <<p, fence_id[p] - 1>> \notin Range(gl_queue)]_vars

\* Who asks to wait is never told "busy" although the flags of all clients are
\* one global, unless a client goes on whose library was torn down.
WaitHonoured ==
  [][\A p \in Procs : Told(p, "busy") /\ orphaned = {} => asked[p] = "poll"]_vars

\* The query of a client that is alone is always answered "busy", however long
\* GL has been done: it makes a fence of its own, which nobody polls before
\* the answer.
QueryIsBusy ==
  [][\A p \in Procs : Told(p, "idle") /\ (\A q \in Procs \ {p} : id[q] = 0) =>
       asked[p] = "wait"]_vars

\* What a busy wait answers.
AnswersAreTrue == IdleIsTrue /\ WaitHonoured /\ QueryIsBusy

\* A client that waits for its last fence is answered, unless the creation of
\* that fence failed, its library was torn down under it, or the fences of
\* another client went to its renderer.
WaitAnswered ==
  \A p \in Procs :
    pc[p] = "wait" ~> (pc[p] # "wait" \/ ~fenced[p] \/ p \in orphaned \cup strayed \/ Dead)

=============================================================================
