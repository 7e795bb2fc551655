------------------------------ MODULE VkrRing ------------------------------
(***************************************************************************)
(* A command ring of the Venus renderer (vkr_ring.c): the driver in the    *)
(* guest writes commands into shared memory and moves the tail; a thread   *)
(* of the renderer runs them and moves the head.  A thread that had        *)
(* nothing to do for a while says so in the status word and sleeps; the    *)
(* driver that sees it idle sends vkNotifyRingMESA to the context, whose   *)
(* own thread (here "main") signals the condition variable.                *)
(*                                                                         *)
(* Loads and stores of the shared memory are steps of their own; what runs *)
(* under ring->mutex is one step.  ctx->mutex, which every command runs    *)
(* under, is modelled by its holder.  Time is not: the thread may find     *)
(* that its idle timeout is over whenever it looks.                        *)
(***************************************************************************)
EXTENDS Integers, Sequences

CONSTANTS
  BufferSize,  \* ring->buffer_size, a power of two
  Wrap,        \* what the counters head, tail and cur wrap around at (2^32)
  Sizes,       \* the sizes of the commands that the driver submits
  MaxUnits     \* bound: how many units of commands the driver submits

ASSUME VkrRingAssumption ==
  /\ BufferSize \in Nat \ {0} /\ Wrap \in Nat \ {0}
  /\ Wrap % BufferSize = 0 /\ Wrap > BufferSize
  /\ Sizes \subseteq 1..BufferSize
  /\ MaxUnits \in Nat

VARIABLES
  buffer,    \* shared.buffer
  head,      \* shared.head
  tail,      \* shared.tail
  status,    \* shared.status is VKR_RING_STATUS_IDLE
  cur,       \* ring->cur
  size,      \* cmd_size
  cmd,       \* ring->cmd
  started,   \* ring->started
  pending,   \* ring->pending_notify
  thread,    \* where vkr_ring_thread stands
  driver,    \* where the driver stands
  batch,     \* the size of the command that the driver is submitting
  notes,     \* how many vkNotifyRingMESA are on their way
  holder,    \* who holds ctx->mutex
  main,      \* where the context's own thread stands
  sent,      \* history: units submitted
  executed   \* history: units that ran

mem   == <<buffer, head, tail, status>>
local == <<cur, size, cmd, thread>>
drv   == <<driver, batch, notes, sent>>
vars  == <<mem, local, started, pending, drv, holder, main, executed>>

Init ==
  /\ buffer = [i \in 0 .. BufferSize - 1 |-> 0]
  /\ head = 0 /\ tail = 0 /\ status = FALSE
  /\ cur = 0 /\ size = 0 /\ cmd = <<>>
  /\ started = TRUE /\ pending = FALSE
  /\ thread = "top" /\ driver = "ready" /\ batch = 0 /\ notes = 0
  /\ holder = "none" /\ main = "running"
  /\ sent = 0 /\ executed = <<>>

\* Mutant of Distance: the counters are compared as if they did not wrap around.
DistanceSigned(a, b) == a - b

\* a - b in uint32_t
Distance(a, b) == (a - b) % Wrap

ThreadGoes(from, to) == thread = from /\ thread' = to

-----------------------------------------------------------------------------
(* The driver                                                               *)

\* A command is written where the head says that there is room ...
DriverWrite(n) ==
  /\ driver = "ready" /\ sent + n <= MaxUnits
  /\ Distance(tail, head) + n <= BufferSize
  /\ buffer' = [i \in 0 .. BufferSize - 1 |->
                  LET k == (i - tail) % BufferSize
                  IN IF k < n THEN sent + k + 1 ELSE buffer[i]]
  /\ batch' = n /\ driver' = "written"
  /\ UNCHANGED <<head, tail, status, local, started, pending, notes, sent, holder, main,
                 executed>>

\* ... the tail is moved, then the status is looked at.
DriverStoreTail ==
  /\ driver = "written"
  /\ tail' = (tail + batch) % Wrap
  /\ sent' = sent + batch
  /\ driver' = "stored"
  /\ UNCHANGED <<buffer, head, status, local, started, pending, batch, notes, holder, main,
                 executed>>

DriverLoadStatus ==
  /\ driver = "stored"
  /\ notes' = notes + (IF status THEN 1 ELSE 0)
  /\ driver' = "ready"
  /\ UNCHANGED <<mem, local, started, pending, batch, sent, holder, main, executed>>

-----------------------------------------------------------------------------
(* vkr_ring_thread                                                          *)

\* The head of the loop, when the timeout is not over.
Look ==
  /\ ThreadGoes("top", IF started THEN "load" ELSE "exited")
  /\ UNCHANGED <<mem, cur, size, cmd, started, pending, drv, holder, main, executed>>

\* The timeout is over: forget old notifications, say so, and look once more.
IdleClear ==
  /\ started /\ ThreadGoes("top", "announce")
  /\ pending' = FALSE
  /\ UNCHANGED <<mem, cur, size, cmd, started, drv, holder, main, executed>>

IdleAnnounce ==
  /\ ThreadGoes("announce", "test")
  /\ status' = TRUE
  /\ UNCHANGED <<buffer, head, tail, cur, size, cmd, started, pending, drv, holder, main,
                 executed>>

IdleTest ==
  /\ ThreadGoes("test", IF cur = tail THEN "lock" ELSE "busy")
  /\ UNCHANGED <<mem, cur, size, cmd, started, pending, drv, holder, main, executed>>

\* The status is taken back: there is work, or the thread wakes.
Busy ==
  /\ \/ ThreadGoes("busy", "load")
     \/ ThreadGoes("woken", "checked")
  /\ status' = FALSE
  /\ UNCHANGED <<buffer, head, tail, cur, size, cmd, started, pending, drv, holder, main,
                 executed>>

\* Mutant of Sleep: pending_notify is not looked at.
SleepBlind ==
  /\ ThreadGoes("lock", IF started THEN "asleep" ELSE "woken")
  /\ UNCHANGED <<mem, cur, size, cmd, started, pending, drv, holder, main, executed>>

\* Under the mutex: cnd_wait unless it was notified or stopped meanwhile.
Sleep ==
  /\ ThreadGoes("lock", IF started /\ ~pending THEN "asleep" ELSE "woken")
  /\ UNCHANGED <<mem, cur, size, cmd, started, pending, drv, holder, main, executed>>

\* A condition variable may wake without a signal.
SpuriousWakeUp ==
  /\ ThreadGoes("asleep", "woken")
  /\ UNCHANGED <<mem, cur, size, cmd, started, pending, drv, holder, main, executed>>

Checked ==
  /\ ThreadGoes("checked", IF started THEN "load" ELSE "exited")
  /\ UNCHANGED <<mem, cur, size, cmd, started, pending, drv, holder, main, executed>>

\* Mutant of LoadTail: the head is moved before the commands are copied.
LoadTailPublishes ==
  /\ size' = Distance(tail, cur)
  /\ ThreadGoes("load", IF size' = 0 THEN "top"
                        ELSE IF size' > BufferSize THEN "exited" ELSE "copy")
  /\ head' = tail
  /\ UNCHANGED <<buffer, tail, status, cur, cmd, started, pending, drv, holder, main, executed>>

\* More than the buffer holds ends the thread.
LoadTail ==
  /\ size' = Distance(tail, cur)
  /\ ThreadGoes("load", IF size' = 0 THEN "top"
                        ELSE IF size' > BufferSize THEN "exited" ELSE "copy")
  /\ UNCHANGED <<mem, cur, cmd, started, pending, drv, holder, main, executed>>

\* vkr_ring_read_buffer
ReadBuffer ==
  /\ ThreadGoes("copy", "submit")
  /\ cmd' = [i \in 1..size |-> buffer[(cur + i - 1) % BufferSize]]
  /\ cur' = (cur + size) % Wrap
  /\ UNCHANGED <<mem, size, started, pending, drv, holder, main, executed>>

\* ctx->submit_cmd takes ctx->mutex and runs the commands.
SubmitLock ==
  /\ holder = "none" /\ ThreadGoes("submit", "execute")
  /\ holder' = "ring"
  /\ UNCHANGED <<mem, cur, size, cmd, started, pending, drv, main, executed>>

SubmitRun ==
  /\ ThreadGoes("execute", "store_head")
  /\ executed' = executed \o cmd
  /\ holder' = "none"
  /\ UNCHANGED <<mem, cur, size, cmd, started, pending, drv, main>>

StoreHead ==
  /\ ThreadGoes("store_head", "top")
  /\ head' = cur
  /\ UNCHANGED <<buffer, tail, status, cur, size, cmd, started, pending, drv, holder, main,
                 executed>>

-----------------------------------------------------------------------------
(* The thread of the context                                                *)

\* cnd_signal
Signaled == IF thread = "asleep" THEN "woken" ELSE thread

\* Mutant of Notify: the condition variable is not signaled.
NotifyQuiet ==
  /\ main = "running" /\ holder = "none" /\ notes > 0
  /\ notes' = notes - 1
  /\ pending' = TRUE
  /\ UNCHANGED <<mem, cur, size, cmd, thread, started, driver, batch, sent, holder, main, executed>>

\* vkNotifyRingMESA, a command and so under ctx->mutex
Notify ==
  /\ main = "running" /\ holder = "none" /\ notes > 0
  /\ notes' = notes - 1
  /\ pending' = TRUE
  /\ thread' = Signaled
  /\ UNCHANGED <<mem, cur, size, cmd, started, driver, batch, sent, holder, main, executed>>

\* Mutant of Stop: the condition variable is not signaled.
StopQuiet(caller) ==
  /\ main = "running" /\ (caller = "main" => holder = "none")
  /\ holder' = IF caller = "main" THEN "main" ELSE holder
  /\ started' = FALSE
  /\ main' = "joining"
  /\ UNCHANGED <<mem, local, pending, drv, executed>>

\* vkr_ring_stop begins.  vkDestroyRingMESA is a command and holds ctx->mutex until it
\* is done, so caller is "main"; vkr_context_destroy takes no mutex: caller is "none".
Stop(caller) ==
  /\ main = "running" /\ (caller = "main" => holder = "none")
  /\ holder' = IF caller = "main" THEN "main" ELSE holder
  /\ started' = FALSE
  /\ thread' = Signaled
  /\ main' = "joining"
  /\ UNCHANGED <<mem, cur, size, cmd, pending, drv, executed>>

\* thrd_join returns, and the ring is destroyed.
Join ==
  /\ main = "joining" /\ thread = "exited"
  /\ main' = "ended"
  /\ holder' = "none"
  /\ UNCHANGED <<mem, local, started, pending, drv, executed>>

Driver == (\E n \in Sizes : DriverWrite(n)) \/ DriverStoreTail \/ DriverLoadStatus

Thread ==
  \/ Look \/ IdleClear \/ IdleAnnounce \/ IdleTest \/ Busy \/ Sleep \/ Checked
  \/ LoadTail \/ ReadBuffer \/ SubmitLock \/ SubmitRun \/ StoreHead

Next ==
  \/ Driver \/ Thread \/ SpuriousWakeUp \/ Notify \/ Join
  \/ \E caller \in {"main", "none"} : Stop(caller)

\* The thread is scheduled, the driver finishes what it began, and the context takes the
\* next command.  Nobody has to submit or to stop.
Fairness ==
  /\ WF_vars(Thread) /\ WF_vars(DriverStoreTail) /\ WF_vars(DriverLoadStatus)
  /\ WF_vars(Notify) /\ WF_vars(Join)

Spec == Init /\ [][Next]_vars

LiveSpec == Spec /\ Fairness
-----------------------------------------------------------------------------
(* Properties                                                               *)

Counters == 0 .. Wrap - 1

\* The types of the state; what is read at once fits the buffer.
TypeOK ==
  /\ buffer \in [0 .. BufferSize - 1 -> Nat]
  /\ head \in Counters /\ tail \in Counters /\ cur \in Counters
  /\ status \in BOOLEAN /\ started \in BOOLEAN /\ pending \in BOOLEAN
  /\ size \in 0..BufferSize
  /\ cmd \in Seq(Nat) /\ executed \in Seq(Nat)
  /\ thread \in {"top", "announce", "test", "busy", "lock", "asleep", "woken", "checked",
                 "load", "copy", "submit", "execute", "store_head", "exited"}
  /\ driver \in {"ready", "written", "stored"}
  /\ batch \in Nat /\ notes \in Nat /\ sent \in Nat
  /\ holder \in {"none", "ring", "main"}
  /\ main \in {"running", "joining", "ended"}

\* No wake-up is lost: while the thread sleeps beside commands, the driver is about to see
\* that it is idle or its notification is on the way; and it never sleeps once it is to
\* stop.
NoLostWakeUp ==
  thread = "asleep" =>
    started /\ (tail # cur => driver = "stored" \/ notes > 0)

\* Commands run in order, once, and unharmed by what the driver writes meanwhile.
Queue == INSTANCE CommandQueue WITH submitted <- sent
Delivery == Queue!Spec

\* Whatever is submitted runs, unless the ring is stopped.
CommandsRun == \A k \in 1..MaxUnits : sent >= k ~> Len(executed) >= k \/ ~started

\* vkr_ring_stop returns, unless vkDestroyRingMESA waits, with ctx->mutex, for a thread
\* that waits for ctx->mutex to run a command: then neither ever goes on.
StopReturns == main = "joining" ~> main = "ended" \/ (holder = "main" /\ thread = "submit")
=============================================================================
