# VirGL Overlay: specifications, model checks and proofs

VirGL Overlay is an Android application that renders the OpenGL of a guest
(a Linux program in a container, through Mesa's `virgl` driver) with the OpenGL ES
of the device. A guest process talks the *vtest* protocol to a native server inside
the application, which feeds it to virglrenderer and blits the result onto an
Android surface. The same sources build, with meson, the usual vtest server and
library, which add a thread for fences and the Venus (Vulkan) renderer.

This directory holds TLA+ specifications of the parts whose correctness depends on
the order of things, their TLC configurations, and theorems checked by TLAPS.
`PROJECT.json` names for each definition the lines it translates.

Paths below are relative to `src/app/src/main/cpp/` (C) and
`src/app/src/main/java/com/catfixture/virgloverlay/` (Java).

## 1. The system

| Part | Sources | State | Operations | Correct when |
|---|---|---|---|---|
| Ring transport | `vtest/ring.c` | two byte rings, four marks, one `waiting` flag, a socket | `ring_write`, `ring_read`, `ring_wait`, `ring_post` | bytes arrive in order and once; no side sleeps beside data; both never sleep |
| vtest server | `vtest/vtest_server.c`, `vtest/vtest_renderer.c` | clients, `vtest_renderer` of each, fence counters, overlay windows | accept, `renderer_loop` and its commands, teardown | every query is answered; a client ends without harm to others |
| Fence engine | `src/vrend_renderer.c` 5900-6110, 9360-9490 | two lists of fences, `fence_waiting`, eventfd, thread | create, `thread_sync`, check, destroy context, reset | fences retire in order, after the GPU, and none is lost |
| Resources and contexts | `src/virglrenderer.c`, `src/virgl_resource.c`, `src/virgl_context.c`, `src/vrend_renderer.c` | tables of resources and contexts, `res_hash`, parked and unclaimed resources, reference counts | create, blob, attach, detach, set type, unref, destroy, reset | a lookup finds the living resource; none is freed in use |
| GL context switching and queries | `src/vrend_renderer.c` 9360-9598, 10739-10996 | the current GL context and two caches of it; queries that wait | switch, sub-contexts, poll, query commands, overlay flush | commands run in the context they belong to; a query is answered before the fence after it |
| Decoder and objects | `src/vrend_decode.c`, `src/vrend_object.c` | command buffer, object tables | decode, create, bind, destroy | objects keep type and life time |
| GL state, shaders, formats | `src/vrend_renderer.c`, `src/vrend_shader.c`, ... | GL state | draw, blit, transfer | GL draws what gallium means |
| Window systems | `src/vrend_winsys*.c` | EGL, GBM, GLX handles | create, make current | |
| Venus | `src/vkr_renderer.c`, `src/vkr_ring.c` | Vulkan objects; a ring with a thread | dispatch; consume, idle, notify | no command stays in the ring unnoticed |
| Service process and overlays | Java `core/impl/android`, `core/utils/process/ThreadUtils`, `core/overlay` | starter, processor threads, queue of the UI thread, windows and surfaces | start, accept, make overlays, open and close windows, end | all threads listen; a client draws on its own window; its end becomes known |
| Service control | Java `core/impl/ServerController`, `core/impl/handles/ServiceHandle` | linker, bound service, state of the server | start, stop, restart, watch | one server at a time; it starts when it should |
| VGO bridge | Java `core/vgobridge/*` | frame of events, byte buffer, socket | set and enqueue events, compile, send | no event is lost or doubled; the UI thread is not held up |
| Input, settings | Java `core/input`, `ui`, `data` | touch controls, profiles | UI callbacks | |

How they interact. `NativeServerInstance` (a service in a process of its own) opens
the socket and gives each accepted connection a thread that runs `renderer_loop`.
The loop takes commands from the ring (or the socket), calls virglrenderer
synchronously and polls it after each command; a wait for a fence polls until
`fence_retire` was called. virglrenderer's main thread is thus the thread of the
client; the sync thread shares the lists of fences with it under `fence_mutex`, and
wakes it through an eventfd. `ServerController`, in the process of the user
interface, binds the service, watches its state once a second and kills it to stop
it.

Hard behaviours: two processes on one shared flag without a lock (ring); a thread
that waits for the GPU outside the mutex while contexts are destroyed (fences);
pointers without ownership between tables with different life times (resources);
caches of the current GL context (context switching); several clients on the one
state of virglrenderer (server); hand-over between threads with `wait` and `notify`
without a condition, and a watcher racing delayed callbacks (Java). `PROJECT.json`
lists the hazards line by line with the properties that catch them.

Two builds matter. The application's `CMakeLists.txt` defines neither
`HAVE_EVENTFD_H` nor `HAVE_EPOXY_EGL_H` and has no Venus: fences are polled and no
dmabuf exists. The meson build has all of them. `Fences` begins with or without the
sync thread; the resources of the application are those behaviours of `Resources` in
which no dmabuf is created.

## 2. Modules

### Ring, ByteChannel, RingSession, RingProofs

`Ring` models `ring.c` at the level of single loads and stores of shared memory.
Variables keep the names of the code from the point of view of the owner: `wr[p]` is
`*write_out` of side p and `*write_in` of its peer, `rd[p]` the read mark of the same
ring, `buf[p]` its bytes; `waiting` is the one flag both directions share and `fd[p]`
counts the bytes in the socket. `pc`, `mark`, `src`, `want`, `dst` are the locals of
the call in progress. `WriteLoad`, `WriteCopy`, `WritePublish`, `PostFlag`,
`PostByte` are `ring_write_partial` and `ring_post`; `ReadLoad`, `ReadSync`,
`ReadReload`, `ReadCopy`, `ReadAdvance`, `WaitFlag`, `WaitBlock` are
`ring_read_partial` and `ring_wait`. The exchange and compare-and-swap of the code
are atomic, and memory is sequentially consistent: `ring.c` uses the `__sync`
builtins around the flag, and the ordering of the processor is not modelled. A copy of
bytes is one step, since the other side never touches that part of the buffer before
the mark moves (which `FIFO` verifies for the marks). `Disconnect` is the death of one
process.

`ByteChannel` is the abstract specification: two FIFO byte streams of bounded
capacity. `Ring!Channel` maps the part of the ring between the copied and the
written mark to what is in flight, and `FIFO` says that Ring implements it.

`RingSession` composes Ring with a client that sends commands and waits for replies
(Mesa's winsys: external) and the server thread of `renderer_loop`, which reads a
header (`ReadHeader`), calls the handler of the command (`Dispatch`), reads its data in as
many `vtest_block_read`s as the handler makes (`ReadData`; a transfer reads its header and
then its data) and writes its reply (`WriteReply`). `Data` and `Reply` give the sizes of
these calls. `Fail` is the `goto fail` after a handler that returned an error: it may come
between any two calls of the transport, closes the server's side and leaves the rings as
they are.

### Fences, FenceTimeline, FencesProofs

`Fences` models the main thread (`CreateFence`, the steps `CheckFlush`, `CheckDrain`,
`CheckPoll`, `Retire` of `vrend_renderer_check_fences`, `DestroyContext`,
`PrepareReset` and `FinishReset`) and the sync thread (`ThreadScan`, `ThreadReport`,
`ThreadNotify`, `ThreadResume`). What runs under `fence_mutex` is one step; the wait
for the GPU, the write of the eventfd and the calls of `fence_retire` are outside.
`stor` is the iterator of `LIST_FOR_EACH_ENTRY_SAFE` that survives the unlock; when
it points to a freed fence the model ends in `crashed`, as `list_del` follows the
NULL links that the first removal left, and asserts nothing further.

`FenceTimeline` is what `virgl_context.h` promises of the callback `fence_retire`,
independent of lists and threads; `Retirement` is the refinement.

### Resources, ResourcesProofs

`Resources` numbers resources in order of creation, so that a dead resource and a new
one under the same handle differ. `table` is `virgl_resource_table`; `resHash`,
`cache`, `parked`, `unclaimed` are `res_hash`, `untyped_resource_cache`,
`untyped_resources` and `vrend_resources` of each context; `refs` the reference
counts. `views` stands for every object that holds a reference (surface, sampler
view, streamout target, query) and `slot` for the bindings that cache a handle (the
index buffer). Each public function is one action, since virglrenderer is called
from one thread. Callers give new resources a handle that names none, as the vtest
protocol of Mesa does; creating over a living handle is not modelled.

### GlCurrent, GlCurrentProofs

`GlCurrent` follows the current GL context (`gl`) and the two caches of it,
`current_ctx` and `current_hw_ctx`, through everything that changes one without the
others: creation and destruction of contexts, sub-contexts, the overlay of vtest, which
calls EGL itself (`DtCmd`), and restarts of the library. `phase` is the place of the
serving thread: `renderer_loop` polls before each command, so from `idle` a `Poll`
forces context 0, `check` examines the waiting queries one by one (`CheckQuery`),
`ReportFences` retires, and in `ready` one command runs; a command buffer is decoded in
`decode`, command by command. It is the application's build: no sync thread, fences are
polled. Queries are part of the module because `vrend_renderer_check_queries` switches
contexts in the middle of a poll. GL finishes a query at any time (`GpuFinish`) and
reaches a fence only after the queries before it. Which sub-context a query is looked up
in is modelled by what GL does with a name of another context: any answer. The decoder
checks no order of the query commands, so `BeginQuery`, `EndQuery` and `GetQueryResult`
come in any: `vrend_begin_query` takes even a running query off the waiting list while
GL refuses a second one of the same target, `glEndQuery` ends whatever its target has
active (`Active`), and `ready`, which GL leaves unset for a query that has not ended, is
any value.

### VtestServer, VtestServerProofs

`VtestServer` is one process of the service: client threads that each run
`renderer_loop` over one virglrenderer, one counter `ctx_id` and one global `flags`. A
step is one command of one client; a busy wait is as many steps as it touches shared
state (`BusyWait`, `Test`, `Wait`, `Reply`). `runSocketLoop` increments and reads
`ctx_id` in two statements, `Number` and `CreateRenderer`. `Open`, `OpenBusy` and
`OpenFails` are the outcomes of the first command; `Teardown` destroys context and
library, whoever had initialised it. `Crash` is a use of the freed table of contexts,
which may also go unnoticed. The histories `orphaned` and `strayed` name the clients
whom another one took the library or the fences from; properties except them by name.
The entry is `runSocketLoop`, as the application uses it: `main` of `vtest_server.c` is
not compiled into it. Each entry of a thread is one client, since the service never
accepts on a thread twice.

### ServiceProcess, ServiceProcessProofs

`ServiceProcess` is the Java side of the same process. The starter creates the processor
threads and waits for each to announce itself (`Spawn`, `AwaitAnnouncement`,
`Announce`); a processor accepts one client and hands tasks to the UI thread, `ui` being
its queue: making the overlays, creating a view, removing one. `Post`, `Await`,
`Notify` and `Resume` are `LockThreadUntilUITask` with its wait that looks at no
condition, so that a notification before the wait is lost (`lost`) and any other than the
thread's own releases it too early (`stray`). The system gives, takes and returns the
surface of a view (`SurfaceCreated`, `SurfaceTaken`) and Java may wake a waiter without
reason (`WakeSpuriously`). With the client's first command `vtest_egl_init` opens a
window of its own (`InitEgl`), which no record holds and nothing closes; then the client
opens and closes windows (`NewWindow`, `CloseWindow`) or hangs up; its end closes its
window on the UI thread (`Teardown`) before the service learns of it. An exception on the
UI thread is caught by the default handler, and with it the thread ends (`uiDead`),
whether or not the fragment was added by then (`InitOverlays`). The two server models are kept apart: one renders without windows, the other
opens windows without rendering, and they meet where `ServiceProcess` says how many
clients get to the loop that `VtestServer` models.

### VgoBridge, VgoBridgeProofs

`VgoBridge` is the frame of input events, the UI thread that adds to it (`AddEvent`) or
replaces the pending shift of the pointer (`SetEvent`), and the bridge's thread, which
compiles the frame, writes a header and the data and flushes. All of that is under the
monitor of the frame (`Locked`). A socket takes `Capacity` frames that the client has
not read; one that the client closed takes writes until the reset comes back, and then a
write throws, which leaves the frame as it was.

### VkrRing, CommandQueue, VkrRingProofs

`VkrRing` models `vkr_ring.c`: the driver in the guest (external: it stores the tail
and then looks at the status, as the comments of `vkr_ring_store_head` and
`vkr_ring_load_tail` expect), the ring thread with one step for each access of shared
memory, and the thread of the context, which runs `vkr_ring_notify` and
`vkr_ring_stop`. `thread` names the places of the loop of `vkr_ring_thread`. What
runs under `ring->mutex` is one step (`Sleep`, `Notify`, the beginning of `Stop`);
`ctx->mutex`, under which every command runs, is `holder`. The idle timeout may be
over at any look. `CommandQueue` is the abstract specification: submitted units run
once and in order; `Delivery` is the refinement.

Each of these modules has an `MC` module with the values of its constants.

## 3. Runs

| Run | Question | Bounds, and why they are enough |
|---|---|---|
| `ring_duplex` | flag protocol and streams with both sides writing and reading, either may die | ring of 4, client's messages of 5 bytes, which do not fit and, 5 and 4 being coprime, begin at every place of the ring, server's of 1; reads of 4, which end within messages, and of 1; a full flag cycle in each direction and both orders of every race on `waiting` |
| `session_live` | do replies arrive, and are headers taken for headers | ring of 8, one query with a reply in two writes, one command with data in two reads (`VCMD_TRANSFER_PUT`), any command may fail; a client that sends less than a ring between replies (`Window`) |
| `session_misread` (violation) | the same, with the condition of `ring.c:120` as written | ring of 8 is the smallest where the marks that misread occur in a session |
| `fences` | all promises, with the thread and without, and liveness | two contexts, so that a fence of another lies between two of one and another context can be destroyed while the thread waits; three fences give every combination of waiting, remembered next and listed; a reset leads from the thread to polling |
| `fences_ctx_null` (violation) | what a comment says | one fence |
| `gl_current` | who is current, and in what order queries and fences are answered | two guests, two sub-contexts each, two queries that may share a target or be timestamps, two unreached fences: a query of an unselected sub-context, of another guest, and one that ended between two fences |
| `resources` | lookups, parked resources, references | two contexts and two handles, three resources (one more than handles, so that handles are used again), two references of views and index buffers at a time (`MaxBound`), which two objects of a context, two contexts or a view beside an index buffer may hold |
| `resources_parked` (violation) | what a comment says | two resources |
| `vkr_ring` | wake-ups, order, progress and stop of the Venus ring | buffer of 2, counters modulo 4 (the smallest multiple that tells full from empty), six units: the counters wrap around and the buffer wraps twice |
| `vtest_server` | what the shared library, counter and flags cost, and who is answered | three threads: the second tears down the library of the first and the third initialises it again; two fences in all, of one client or of two |
| `service_process` | who listens, who is served, which window a client gets, which waits end | two processors (a second client is where the overlays fail), the window of `vtest_egl_init` and two windows of a client, so that one is opened after another was closed; one surface taken or one wake-up for no reason; one of the 32 window records of a client, which never hand tasks over at once |
| `vgo_bridge` | is input lost or doubled, and who is held up | three clicks and two shifts, so that a shift is replaced between clicks; three clients, so that one follows after a reset; a socket that holds one frame |

Deadlock is checked except where the system may come to rest: all resources used up,
both ends of the Venus ring stopped, the clients of a process gone, the process killed,
no more input.

Fairness. `RingSession` lets each side take its next step in `ring.c`, and the client
follow the protocol; a client need not start a command, and no command fails by fairness. `Fences!Fairness` lets the
GPU finish each fence, the sync thread run, and the main thread poll and end a reset
it began: vtest polls after each command and in the loop that waits for a fence.
Nothing makes the main thread create, destroy or reset. `VkrRing!Fairness` schedules
the thread, lets the driver finish a submission it began and the context take a
notification; nobody has to submit or stop. `VtestServer` lets GL execute what it was
given and a thread in a busy wait, an answer or a teardown go on; no client has to
connect or send. `ServiceProcess` runs the starter, the processors and the UI thread and
lets a view that stays get a surface, as the system does; no client has to come, and no
wake-up without a notification is assumed. `VgoBridge` runs both threads; a client need
not read, nor a user touch. Weak fairness is enough everywhere: no step is disabled
again and again, except the UI thread's entry of the monitor of the frame, which each new
client may close once more and of which the bound on clients leaves finitely many.

## 4. What the checks show

These hold.

- Ring: the flag protocol (`FlagProtocol`: the sides never sleep on each other, the flag
  tells the truth, at most one byte wakes a sleeper); the two rings are FIFO streams;
  a piece is never empty. In a session the server takes only headers for headers, a
  reply belongs to the command that waits and leaves nothing in the ring, and the two
  sides never both wait in a `ring_read` on empty rings (`Framing`).
- Fences: what is on a list has a context that lives (`OwnersLive`); fences retire in
  order and never before the GPU (`Retirement`), none is lost but those below
  (`Accounted`, `AnswerComes`), and no signal is hidden from a poller that waits on the
  eventfd (`SignalReachesFd`).
- Resources: lookups of a context are current, references balance (`NeverFreedInUse`,
  `FreedAtLast`).
- GL: the caches are true whenever they are consulted (`CachesTrue`), because each
  command follows a poll that forces context 0; that alone makes the overlay's own
  `eglMakeCurrent` harmless, as the mutant `PollAnywhere` shows. Commands run in their
  sender's context; queries are answered before the fence that follows them is
  reported, except those of a sub-context that is not selected; `overlay_ctx` is the
  client's own as long as clients come one at a time.
- Server: what clients share is used after its end only by one that never initialised it
  or lost it to another (`LibraryLives`); contexts differ unless the threads raced
  through `runSocketLoop`; an answer of a busy wait is true, a wait is honoured, and
  who waits is answered, with the exceptions the properties name (`AnswersAreTrue`,
  `WaitAnswered`).
- Service: at most one of the clients that were woken only by their own task is served,
  whatever `eglAccessMaxThreads` says; its windows are its own; all threads listen and all
  waits end, unless a notification came before its wait, a view was removed without its
  surface, or the UI thread died.
- Bridge: clicks and keys reach sockets once and in order, the last shift is not lost
  (`FrameKept`), the UI thread comes back unless a client stays and does not read
  (`UiReturns`), and the next client is accepted unless there is nothing to send that
  would show that the last one is gone (`NextIsAccepted`).

These do not, each shown by a run that quotes the comment it contradicts:

1. `ring.c:120` computes `w & (mask - r) & mask`. When the bits of the write mark are
   a subset of those of the read mark the reader takes a full ring for empty and
   sleeps (`session_misread`). `session_live` therefore checks `ReplyArrivesIfRead`,
   which excuses only that case.
2. `vrend_free_fences_for_context` invalidates the fence the thread waits on even when
   another context is destroyed (`fences_ctx_null`): that fence is never retired.
   `FenceTimeline!Destroy` therefore allows one such loss, and `Accounted` counts the
   fence among those gone.
3. Detaching an untyped resource that another context typed leaves its pointer on the
   list of parked resources (`resources_parked`). `UntypedParkedExist` is what holds.

More was met while modelling. No document says otherwise, so there is no run that is
expected to fail; the models contain the behaviour and the properties name it.

- A writer wakes its reader only if it saw an empty ring before it wrote; the reader
  may fall asleep in between. The client's next command wakes it, unless the ring is
  full first: then the client spins in `ring_write` for ever.
- `vrend_free_fences_for_context` can free the fence that `thread_sync` remembers as the
  next.
- A resource that waits for its blob is forgotten, not freed, with its context.
- `vkDestroyRingMESA` joins the ring thread under `ctx->mutex`; a thread that has
  commands to run waits for the same mutex, and both wait for ever. `StopReturns`
  excludes exactly this state.
- After a reset no thread writes the eventfd that `virgl_renderer_get_poll_fd` still
  returns; callers that poll without it are answered (`AnswerComes`).
- `SET_TYPE` unparks a resource before it knows that it can be typed; after a failure
  no later `SET_TYPE` finds it.
- `vrend_renderer_check_queries` switches to the query's context and not to its
  sub-context, and may read the answer of another query (`AnsweredBeforeReport`).
- A second client's failed initialisation ends with a cleanup of the first one's
  library, whose table of contexts is freed and not set to NULL (`LibraryLives`,
  `orphaned`). A poll of the second client before that reports fences to the first.
- The busy-wait query that does not wait makes a fence of its own, so that a client that
  is alone is always told "busy" (`QueryIsBusy`).
- `OverlayManager.Add` throws when a second client has the overlays made, and the UI
  thread ends with it. In multithreaded mode (labelled "[Not impl.]" in the settings) all
  threads accept, and the second client stops what the first needs the UI thread for.
  `VtestServer` nevertheless has several clients: that is what the native code permits,
  and one woken by accident, a `stray`, gets there.
- The end of a client whose window lost its surface is never reported: the removal of
  the view brings no `surfaceDestroyed`, which is what the thread waits for. The end of
  any client otherwise stops the server and kills the process; its socket is not closed
  before.
- A bridge client that hung up is found by a failing write alone, and a client that does
  not read stops the UI thread, which every renderer that opens a window waits for.
- `SetEvent` replaces the shift where it stands in the frame, so a click between two
  shifts is sent after the second one's position.

## 5. What is proved

All proofs take their module's assumptions about constants and nothing else; no bound of
section 3 appears in them. Each follows the same plan: an inductive invariant, a lemma
for each group of actions, and a last step by PTL.

`RingProofs`, for every size of the ring that is at least 2, every set of messages and
of read sizes: `TypeOK` and `FlagProtocol`. Its three parts are not inductive one by
one: `WakeInvariant` relates the flag, the program counters, the bytes in the sockets and
who is alive, and each action preserves it. The proof uses `SizeNat`, which follows from
`SizeAssumption`, and `CallersAssumption`.

Its second half, under the same assumptions, proves the refinement `FIFO` and
`ReloadFindsData`. The invariant says of each direction that a mark its owner read
earlier, while the peer moves on, only shows less than there is: the data a reader saw
is still there (`ReaderOK`), and the room a writer saw is still free (`WriterOK`).
Nothing orders a writer's and a reader's steps beyond that, so it is what a copy from a
stale mark rests on. With it, each step maps to one of `ByteChannel` or to a stutter: a
`WritePublish` sends the bytes copied and a `ReadCopy` receives; a `ReadAdvance` only
gives the room back, so it stutters.

Its third part is about sessions: `Framing`, for every set of commands, all sizes of
their data and replies (none, one call of the transport or many) and of the ring, whether
commands fail or not, and `SessionKeepsProtocol`,
that the flag protocol and `ReloadFindsData` hold there as well, though `RingSession`
calls the ring with messages that depend on its state. What a session needs of the ring is
`SessionTransport`: a step of `ring.c` moves nothing that the session can see, or moves
bytes from the front of one side's *stream* (what is in the ring and what the current
`ring_write` still holds) to the other side's read. The invariant (`SessionInv`) says where
in the client's stream headers are (`Headers`): the stream is the rest of the command that
the server works on, or failed in, and then whole commands. While the client waits, exactly one of three
things is true of its command (`Asked`): it is the last in the stream and no other there has
a reply, the server holds its header, or the server answers it and what is in the server's
stream and what it has still to write add up to what the client has still to read. When the
read returns, that sum is zero, so nothing is left over. That both sides wait is impossible
for the same reason: two empty streams leave a reply that is due and that the server, which
reads, does not write. The size of a reply or of data is a recursive function (`Total`); the few facts
about it are shown by induction up to a bound, from the well-foundedness of `<` (`UpTo`).
This part also takes `CommandsAssumption`: sizes are
positive, and the window is a natural number.

`FencesProofs`, for any contexts and any number of fences: every safety property of
the run and the refinement `Retirement`. That a fence is never called for before an
earlier one of its context is a matter of order, so the invariant says that fences pass in
the order of their creation (`InOrder`) from the wait list to the sync thread, to
`fence_list`, to the local list of the poll and to the calls; in particular what the
thread remembers as the next fence is the oldest that waits. `Contexted` says that a
fence has the context it was made for unless it is gone, and that what is gone but still
listed has none. `NoneLost` is `Accounted` and more: an owed fence that is on no list is
mergeable, was passed, and a later one of its context is about to be retired. The step
that needs care is the drain of the list: `need_fence_retire_signal_locked` looks only at
the next fence, and `Answering` shows, by the least position at which it says yes, that
each fence has a later one of its context that is called for, and that no fence in between
is of another context or not mergeable. With `InOrder` and `NoneLost` a call of
`fence_retire` then answers for exactly what `FenceTimeline` lets it answer for
(`RetireAnswers`). The lemmas about `Kept`, what stays of a list, count positions.

`ResourcesProofs`, for all handles, numbers of resources and finite sets of contexts: every
property of the run `resources`. `LookupsCurrent`
needs that the table and the resource agree on the handle (`IdsAgree`), that what
waits for a blob has no handle and is on one list (`UnclaimedNameless`), and that a dead
context finds nothing (`DeadFindNothing`). Late typing is the interesting step: a context
that types a resource puts it into its own `res_hash` under the handle the resource
knows, which `IdsAgree` identifies with the table's, and `SetType` reads it only if it is
alive. The same module proves `UntypedParkedExist` on top of that. Detaching an untyped
resource looks into a context's cache and, only if it is not there, into its list, and
it visits only contexts that exist; so the argument needs that no resource is in both
and that a dead context remembers nothing (`RememberedOnce`). The first holds because
a caller attaches an untyped resource once, a guard of `AttachResource`.

The reference counts come last, from a second invariant. `Counted` says that the count of
a resource that has a handle is the number of its holders, which are the table (if the
resource is typed), the contexts with an object on it and the contexts whose index buffer
it is; and 1 for a resource that has not had a handle. `HeldTyped` says that only typed
resources with a handle are held, and `DeadHold` that a dead context holds nothing.
`NeverFreedInUse`, `FreedAtLast`, `IndexBufferNamed` and `TypeOK` follow. The step that
needs care is the end of contexts, one or all at once with the table: it gives back as
many references as cardinalities of sets say, and the difference must be the new number
of holders. The argument counts holders, hence the assumption that `Contexts` is finite.

`GlCurrentProofs`, for any guests, sub-contexts, queries and fences: every property of
the run. `Inv` adds to them that the decoder works for the current context
(`DecodesCurrent`), that the selected sub-context of a context exists and 0 is never
destroyed (`SubsExist`), that a query's sub-context exists as long as the query
(`OwnersExist`), that waiting queries exist, what has a result has ended and nothing is left over between
polls (`WaitingExist`), and that what retires has its results and is answered once it was
looked at in the right place (`RetiredAnswered`).

`VtestServerProofs`, for any number of threads and fences: `TypeOK`, `LibraryLives`,
`ContextsApart` and the action properties of `AnswersAreTrue`. `Owner` ties the cookie to
the client that initialised the library and still serves; `Numbers` says that contexts
are numbered in turn while the threads come one by one; `Listed` and `Reported` follow a
fence from its creation to the answer; `AloneAsks` is the case of one client.

`ServiceProcessProofs`, for any number of threads and windows and any number of lost
surfaces and stray wake-ups: `OneClientServed`. `OneThrough` says that without the
fragment nobody is through the making of the overlays, and that of two threads that only
their own task woke at most one is. That a thread has been told is recorded in the step
in which the UI thread makes the fragment, which it does once.

On top of it the module proves `WindowIsOwn`. What a thread takes when it goes on is the
view made last, a variable of the UI thread, so the invariant follows the message: it
belongs to a thread that waits for it and has no other (`Messages`), who waits for a window
has a message or the latest view, and who was told has the latest view and it had a surface
(`Made`), and a view does not exist before it was asked for (`Numbered`). That nobody
else's view becomes the latest is `OneThrough` again: a thread that asks for a window is
through. All this holds as long as nothing else woke a thread, the condition of the property.

`VkrRingProofs`, for all sizes of buffer, counters and commands: `NoLostWakeUp`. The
invariant says that the thread is announced as idle from its last look at the tail until
it sleeps (`AnnouncedIdle`), and that a command that appears in between makes the driver
notify or is already pending (`Noticed`): whichever of the two stores comes first, the
other side sees it.

Its second half, for all sizes again: the refinement `Delivery`, and `TypeOK`. The
invariant counts units without wrapping (run, copied, freed, written) and says that the
tail, `cur` and the head are those counts modulo `Wrap` (`CountersMean`), that no more
than a buffer is in flight (`Room`, the promise of the driver), that a unit written and not
yet copied is in the buffer at its count modulo `BufferSize` (`Stored`), and that the copied
command is the next of the queue (`CmdIsNext`). `VkrRingAssumption`, by which `Wrap` is a
multiple of `BufferSize`, is what makes an index computed from a wrapped counter the index of
the count; the lemmas about remainders rest on it.

`VgoBridgeProofs`, for any number of touches and clients and any capacity of a socket:
`FrameKept`. The frame holds at most one shift (`OneShift`), so leaving out the first
leaves out all, and the clicks and keys of a frame (`Keys`) are what stands before the shift
and what stands behind it; the lemmas say what an append and an added shift do to them. The
buffer is the compiled frame until it is flushed (`Compiled`), although the UI thread could
change the frame between the two writes: it would need the monitor. So a flush moves to the
sent events what it takes from the frame, and a write that throws moves nothing.

Every safety property of the passing runs, invariant, action property or refinement, is
thus the statement of a theorem. Only model-checked: all liveness (`ReplyArrivesIfRead`,
`AnswerComes`, `CommandsRun`, `StopReturns`, `WaitAnswered`, `AllListen`, `WaitsEnd`,
`UiReturns`, `NextIsAccepted`), which together with ENABLED is out of reach of the prover.

## 6. What is not modelled, and why

- GL state, shaders, formats and blits: a sequential translation whose correctness is
  what OpenGL draws. Together with the generated and vendored sources (libepoxy,
  gallium, gl4es, the Venus protocol headers) it is by far the largest part of the
  repository, so that the modelled lines are a small share of all.
- Window systems and Venus objects: calls into drivers.
- Decoder and object tables: bounded arithmetic over command words and a hash table per
  context. What the order of commands does to objects is in `Resources` and `GlCurrent`.
- Service control: `ServerController` acts through the AndLinker library, which is not in
  the repository; whether a late or second bind reaches the service is decided there.
  Known from reading alone: a delayed start of `Restart` and the watcher's own start may
  both bind; the process id that STOP kills may still be 0 when it is read.
- Settings, touch controls, notifications, statistics: sequential code of the UI thread.
- In the modelled parts: the handshake of the ring, hardware memory ordering, the export
  of fences, iovecs and transfers, vertex buffers, bindings that hold bare pointers,
  `vkr_ring_write_extra`, the blitter's GL context, buffer queries, the layout of an
  event in bytes.
