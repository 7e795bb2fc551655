------------------------------- MODULE Fences ------------------------------
(***************************************************************************)
(* The fences of vrend_renderer.c.  The main thread creates fences, polls  *)
(* for the ones the GPU has passed (vrend_renderer_check_fences) and calls *)
(* fence_retire for them; it also destroys contexts and resets the         *)
(* renderer.  With threaded sync a second thread (thread_sync) waits for   *)
(* each fence in turn and reports through a list and an eventfd; without,  *)
(* the main thread asks the GPU itself.                                    *)
(*                                                                         *)
(* What runs under fence_mutex is one step.  Fences are numbered in the    *)
(* order of creation and 0 stands for no fence, NULL and a list's head.    *)
(***************************************************************************)
EXTENDS Integers, Sequences, SequencesExt

CONSTANTS
  Contexts,    \* the contexts, ctx0 among them
  Ctx0,        \* vrend_state.ctx0
  NoContext,   \* the NULL that marks a fence invalid
  MaxFences    \* bound: how many fences the main thread creates

ASSUME FencesAssumption ==
  /\ Ctx0 \in Contexts
  /\ NoContext \notin Contexts
  /\ MaxFences \in Nat

VARIABLES
  fence,       \* fence[f]: the context and the mergeable flag f was created with
  ctx,         \* ctx[f]: fence->ctx as it is now
  passed,      \* the fences whose sync object the GPU has signaled
  waitList,    \* fence_wait_list
  fenceList,   \* fence_list
  waiting,     \* fence_waiting
  readable,    \* the counter of eventfd is not zero
  stop,        \* stop_sync_thread
  syncThread,  \* sync_thread is not 0
  thread,      \* where thread_sync stands
  stor,        \* the next fence as thread_sync's loop remembers it
  main,        \* where the main thread stands
  retired,     \* retired_fences, the local list of vrend_renderer_check_fences
  live,        \* the contexts that exist
  calls,       \* history: the fences that fence_retire was called with
  gone         \* history: the fences dropped by a destroyed context or a reset

lists == <<waitList, fenceList, waiting>>
sync  == <<stop, syncThread, thread, stor>>
vars  == <<fence, ctx, passed, lists, readable, sync, main, retired, live, calls, gone>>

Created == 1..Len(fence)

\* What reads through the links of a freed fence ends the process (thread_sync's
\* next list_del dereferences the NULL that the first one left): no step follows.
Running == thread # "crashed"

Init ==
  /\ fence = <<>> /\ ctx = <<>> /\ passed = {}
  /\ waitList = <<>> /\ fenceList = <<>> /\ waiting = 0
  /\ readable = FALSE
  /\ stop = FALSE /\ syncThread \in BOOLEAN
  /\ thread = (IF syncThread THEN "top" ELSE "done")
  /\ stor = 0
  /\ main = "idle" /\ retired = <<>> /\ live = Contexts
  /\ calls = <<>> /\ gone = {}

\* Mutant of Signaled: the thread is not woken.
SignaledNot == thread

\* pipe_condvar_signal wakes thread_sync if it waits.
Signaled == IF thread = "cond" THEN "top" ELSE thread

-----------------------------------------------------------------------------
(* The GPU                                                                  *)

\* Fences of different contexts may be passed in any order.
GpuPasses(f) ==
  /\ Running
  /\ f \in Range(waitList) \union Range(fenceList) \union {waiting}
  /\ f \notin passed \union {0}
  /\ passed' = passed \union {f}
  /\ UNCHANGED <<fence, ctx, lists, readable, sync, main, retired, live, calls, gone>>

-----------------------------------------------------------------------------
(* The main thread                                                          *)

CreateFence(c, mergeable) ==
  LET f == Len(fence) + 1 IN
  /\ Running /\ main = "idle"
  /\ c \in live /\ Len(fence) < MaxFences
  /\ fence' = Append(fence, [ctx |-> c, mergeable |-> mergeable])
  /\ ctx' = Append(ctx, c)
  /\ IF syncThread
     THEN waitList' = Append(waitList, f) /\ thread' = Signaled /\ UNCHANGED fenceList
     ELSE fenceList' = Append(fenceList, f) /\ UNCHANGED <<waitList, thread>>
  /\ UNCHANGED <<passed, waiting, readable, stop, syncThread, stor, main, retired,
                 live, calls, gone>>

\* Mutant of NeedRetire: the flag of the fence is not looked at.
NeedRetireAlwaysMerges(list, i) ==
  \/ i = Len(list)
  \/ ctx[list[i + 1]] # ctx[list[i]]

\* Mutant of NeedRetire: fences are merged across contexts.
NeedRetireAnyContext(list, i) ==
  \/ i = Len(list)
  \/ ~fence[list[i]].mergeable

\* need_fence_retire_signal_locked for the i-th fence of a list
NeedRetire(list, i) ==
  \/ i = Len(list)
  \/ ctx[list[i + 1]] # ctx[list[i]]
  \/ ~fence[list[i]].mergeable

\* A list from which all is unlinked that is not at a position of S.
Kept(list, S) ==
  [k \in 1..Cardinality(S) |-> list[CHOOSE i \in S : Cardinality({j \in S : j <= i}) = k]]

\* The fences of a list of signaled ones that fence_retire is called for.
ToRetire(list) ==
  Kept(list, {i \in DOMAIN list : ctx[list[i]] # NoContext /\ NeedRetire(list, i)})

\* vrend_renderer_check_fences begins: flush_eventfd, outside the mutex.
CheckFlush ==
  /\ Running /\ main = "idle" /\ syncThread
  /\ readable' = FALSE
  /\ main' = "flushed"
  /\ UNCHANGED <<fence, ctx, passed, lists, sync, retired, live, calls, gone>>

\* Under the mutex every fence of the list is freed, or moved to retired_fences.
CheckDrain ==
  /\ Running /\ main = "flushed"
  /\ retired' = ToRetire(fenceList)
  /\ fenceList' = <<>>
  /\ main' = "retiring"
  /\ UNCHANGED <<fence, ctx, passed, waitList, waiting, readable, sync, live, calls, gone>>

\* The longest beginning of fence_list whose fences the GPU has passed.
Done ==
  LET busy == {i \in DOMAIN fenceList : fenceList[i] \notin passed}
  IN IF busy = {} THEN Len(fenceList) ELSE Min(busy) - 1

\* Without the thread, do_wait asks for each fence until one is not signaled.
CheckPoll ==
  /\ Running /\ main = "idle" /\ ~syncThread
  /\ retired' = ToRetire(SubSeq(fenceList, 1, Done))
  /\ fenceList' = SubSeq(fenceList, Done + 1, Len(fenceList))
  /\ main' = "retiring"
  /\ UNCHANGED <<fence, ctx, passed, waitList, waiting, readable, sync, live, calls, gone>>

\* Mutant of Retire: the eventfd is flushed after the fences of the list were retired,
\* and not before the list is emptied.
RetireFlushes ==
  /\ Running /\ main = "retiring"
  /\ IF retired = <<>>
     THEN main' = "idle" /\ readable' = FALSE /\ UNCHANGED <<retired, calls>>
     ELSE /\ calls' = Append(calls, Head(retired))
          /\ retired' = Tail(retired)
          /\ UNCHANGED <<main, readable>>
  /\ UNCHANGED <<fence, ctx, passed, lists, sync, live, gone>>

Retire ==
  /\ Running /\ main = "retiring"
  /\ IF retired = <<>>
     THEN main' = "idle" /\ UNCHANGED <<retired, calls>>
     ELSE /\ calls' = Append(calls, Head(retired))
          /\ retired' = Tail(retired)
          /\ UNCHANGED main
  /\ UNCHANGED <<fence, ctx, passed, lists, readable, sync, live, gone>>

\* The fences of a list that do not belong to c: the others are freed.
WithoutContext(list, c) == Kept(list, {i \in DOMAIN list : ctx[list[i]] # c})

OfContext(c) == {f \in Created : ctx[f] = c}

\* Mutant of Invalidated: the fence that the thread waits on is forgotten.
InvalidatedNone == ctx

\* fence_waiting->ctx = NULL, whoever the context of that fence is
Invalidated == [f \in DOMAIN ctx |-> IF f = waiting THEN NoContext ELSE ctx[f]]

\* vrend_destroy_context with vrend_free_fences_for_context, which asks for the
\* thread once more and has nothing on fence_wait_list without it.
DestroyContext(c) ==
  /\ Running /\ main = "idle"
  /\ c \in live \ {Ctx0}
  /\ live' = live \ {c}
  /\ fenceList' = WithoutContext(fenceList, c)
  /\ IF syncThread
     THEN /\ waitList' = WithoutContext(waitList, c)
          /\ ctx' = Invalidated
          /\ gone' = gone \union OfContext(c) \union ({waiting} \ {0})
     ELSE /\ gone' = gone \union OfContext(c)
          /\ UNCHANGED <<waitList, ctx>>
  /\ UNCHANGED <<fence, passed, waiting, readable, sync, main, retired, calls>>

\* virgl_renderer_reset: vrend_free_sync_thread asks the thread to stop ...
PrepareReset ==
  /\ Running /\ main = "idle"
  /\ main' = "joining"
  /\ IF syncThread THEN stop' = TRUE /\ thread' = Signaled ELSE UNCHANGED <<stop, thread>>
  /\ UNCHANGED <<fence, ctx, passed, lists, readable, syncThread, stor, retired, live,
                 calls, gone>>

\* ... and waits for its end; then the tables of contexts and resources are
\* emptied, every fence is freed and ctx0 made anew.  No thread is started again.
FinishReset ==
  /\ Running /\ main = "joining" /\ thread = "done"
  /\ main' = "idle"
  /\ syncThread' = FALSE
  /\ live' = {Ctx0}
  /\ waitList' = <<>> /\ fenceList' = <<>>
  /\ gone' = gone \union Created
  /\ UNCHANGED <<fence, ctx, passed, waiting, readable, stop, thread, stor, retired, calls>>

-----------------------------------------------------------------------------
(* The sync thread                                                          *)

\* Take the fence pos off fence_wait_list and wait for it without the mutex.
TakeFence(i) ==
  /\ waiting' = waitList[i]
  /\ stor' = IF i < Len(waitList) THEN waitList[i + 1] ELSE 0
  /\ waitList' = [k \in 1..(Len(waitList) - 1) |-> waitList[IF k < i THEN k ELSE k + 1]]
  /\ thread' = "waiting"

\* The outer loop of thread_sync, with the mutex held: stop, sleep or begin the
\* walk of the list anew.
ThreadScan ==
  /\ thread = "top"
  /\ CASE stop -> thread' = "done" /\ UNCHANGED <<lists, stor>>
       [] ~stop /\ waitList = <<>> -> thread' = "cond" /\ UNCHANGED <<lists, stor>>
       [] OTHER -> TakeFence(1) /\ UNCHANGED fenceList
  /\ UNCHANGED <<fence, ctx, passed, readable, stop, syncThread, main, retired, live,
                 calls, gone>>

\* A condition variable may wake without a signal.
SpuriousWakeUp ==
  /\ thread = "cond"
  /\ thread' = "top"
  /\ UNCHANGED <<fence, ctx, passed, lists, readable, stop, syncThread, stor, main,
                 retired, live, calls, gone>>

\* wait_sync: do_wait has returned; the fence is reported under the mutex ...
ThreadReport ==
  /\ thread = "waiting" /\ waiting \in passed
  /\ fenceList' = Append(fenceList, waiting)
  /\ waiting' = 0
  /\ thread' = "notify"
  /\ UNCHANGED <<fence, ctx, passed, waitList, readable, stop, syncThread, stor, main,
                 retired, live, calls, gone>>

\* ... and the eventfd written after it is unlocked.
ThreadNotify ==
  /\ thread = "notify"
  /\ readable' = TRUE
  /\ thread' = "next"
  /\ UNCHANGED <<fence, ctx, passed, lists, stop, syncThread, stor, main, retired, live,
                 calls, gone>>

\* The walk goes on with the fence remembered before the mutex was unlocked.
ThreadResume ==
  /\ thread = "next"
  /\ IF stor = 0 \/ (stop /\ stor \in Range(waitList))
     THEN thread' = "top" /\ UNCHANGED <<lists, stor>>
     ELSE IF stor \in Range(waitList)
     THEN /\ \E i \in DOMAIN waitList : waitList[i] = stor /\ TakeFence(i)
          /\ UNCHANGED fenceList
     ELSE thread' = "crashed" /\ UNCHANGED <<lists, stor>>
  /\ UNCHANGED <<fence, ctx, passed, readable, stop, syncThread, main, retired, live,
                 calls, gone>>

\* After a crash nothing happens.
Crashed == ~Running /\ UNCHANGED vars

SyncThread == ThreadScan \/ ThreadReport \/ ThreadNotify \/ ThreadResume

Check == CheckFlush \/ CheckDrain \/ CheckPoll \/ Retire

Next ==
  \/ \E f \in Created : GpuPasses(f)
  \/ \E c \in Contexts, mergeable \in BOOLEAN : CreateFence(c, mergeable)
  \/ Check
  \/ \E c \in Contexts : DestroyContext(c)
  \/ PrepareReset \/ FinishReset
  \/ SyncThread \/ SpuriousWakeUp
  \/ Crashed

\* The GPU makes progress, both threads are scheduled, and the main thread keeps
\* polling (vtest polls after every command and while a client waits).
Fairness ==
  /\ \A f \in 1..MaxFences : WF_vars(f \in Created /\ GpuPasses(f))
  /\ WF_vars(SyncThread)
  /\ WF_vars(Check) /\ WF_vars(FinishReset)

Spec == Init /\ [][Next]_vars

LiveSpec == Spec /\ Fairness
-----------------------------------------------------------------------------
(* Properties                                                               *)

FenceIds == 1..MaxFences

\* The types of the state, and no context in it that does not exist: the lists
\* hold created fences, and the context of a fence on a list is live.
TypeOK ==
  /\ fence \in Seq([ctx : Contexts, mergeable : BOOLEAN]) /\ Len(fence) <= MaxFences
  /\ ctx \in [Created -> Contexts \union {NoContext}]
  /\ passed \subseteq Created /\ gone \subseteq Created
  /\ waitList \in Seq(Created) /\ fenceList \in Seq(Created) /\ retired \in Seq(Created)
  /\ calls \in Seq(Created)
  /\ waiting \in Created \union {0} /\ stor \in Created \union {0}
  /\ readable \in BOOLEAN /\ stop \in BOOLEAN /\ syncThread \in BOOLEAN
  /\ thread \in {"top", "cond", "waiting", "notify", "next", "done", "crashed"}
  /\ main \in {"idle", "flushed", "retiring", "joining"}
  /\ live \subseteq Contexts

\* A fence that fence_retire is called for, or may be soon, has a context that
\* still exists: destroying a context leaves no fence of its own behind.
OwnersLive ==
  /\ TypeOK
  /\ \A f \in Range(waitList) \union Range(fenceList) \union Range(retired) \union {waiting} :
       f # 0 => ctx[f] \in live \union {NoContext}

\* The fences that fence_retire still has to answer for: their context was not
\* taken from them and no later fence of the same context was retired.
Owed ==
  {f \in Created \ gone :
    \A k \in DOMAIN calls : fence[calls[k]].ctx = fence[f].ctx => calls[k] < f}

\* A fence that is owed is never lost: it is on one of the lists, the sync thread
\* waits on it, or it was merged into a later one that is about to be retired
\* (the comment on fence_list in vrend_state).
Accounted ==
  \A f \in Owed :
    \/ f \in Range(waitList) \union Range(fenceList) \union Range(retired) \union {waiting}
    \/ \E g \in Range(retired) : g > f /\ fence[g].ctx = fence[f].ctx

\* No wake-up of the poller is lost: when signaled fences lie on fence_list, the
\* eventfd is readable, or the thread is about to write it, or the main thread,
\* which flushed it, is about to empty the list.
SignalReachesFd ==
  syncThread /\ fenceList # <<>> => readable \/ thread = "notify" \/ main = "flushed"

\* Fences retire in order, after the GPU passed them and every earlier one of their
\* context, and none that is not mergeable is skipped: the promise of virgl_context.h.
Timeline == INSTANCE FenceTimeline WITH
  submitted <- fence, signaled <- passed, owed <- Owed
Retirement == Timeline!Spec

\* Every fence is answered for in the end, unless its context was taken from it or
\* the process ended.
AnswerComes == \A f \in FenceIds : [](f \in Owed => <>(f \notin Owed \/ ~Running))

-----------------------------------------------------------------------------
(* What comments of the sources say, and the code does not do               *)

\* "When the sync thread is waiting on the fence and the main thread destroys the
\* context, ctx is set to NULL.  Otherwise, ctx is always valid."
CtxNullOnlyIfDestroyed ==
  \A f \in Created : ctx[f] = NoContext => fence[f].ctx \notin live
=============================================================================
