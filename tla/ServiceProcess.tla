--------------------------- MODULE ServiceProcess ---------------------------
(***************************************************************************)
(* The Java side of the native service's process: the thread that starts   *)
(* the server, the processor threads that accept one client each, and the  *)
(* UI thread, which alone may touch windows.  A thread hands a task to the *)
(* UI thread and waits on its own monitor without looking at any condition *)
(* (LockThreadUntilUITask), so the notification may come too early, for    *)
(* another task, or never.  What the served client does to the renderer is *)
(* in VtestServer; here it opens and closes its window and hangs up.       *)
(***************************************************************************)
EXTENDS Naturals, Sequences, FiniteSets, SequencesExt

CONSTANTS NProcs,      \* cfgProfile.eglAccessMaxThreads
          MaxViews,    \* bound: windows that a client opens in its lifetime, the first by
                       \* vtest_egl_init
          MaxFaults    \* bound: surfaces that the system takes away and wake-ups without a
                       \* notification, together

ASSUME BoundAssumption == NProcs \in Nat \ {0} /\ MaxViews \in Nat /\ MaxFaults \in Nat

VARIABLES
  multi,     \* cfgProfile.useMultithreadedEGLAccess
  server,    \* state of NativeServerInstance: "starting", "running", "error"
  starter,   \* the thread of Run(): "boot", "spawn", "started", "asleep", "done"
  spawned,   \* its loop variable: processor threads started so far
  pc,        \* where each processor is, see Pcs
  task,      \* what it has the UI thread do
  ui,        \* the messages in the UI thread's queue: <<processor, task, view>>
  uiDead,    \* an exception ended the UI thread's loop
  fragment,  \* RENDERING_OVERLAY_FRAGMENT is in fragmentHashMap
  latest,    \* RenderingOverlayFragment.surfaceView, the view made last
  view,      \* the system's part: what became of each view
  opened,    \* how many windows each client has asked for
  dt,        \* dt->java_surf
  egl,       \* dt->egl_surf is a surface
  hungup,    \* the clients that are gone: their loop has ended
  faults,    \* surfaces taken away and wake-ups without a notification so far
  lost,      \* history: whose notification came before the wait, 0 the starter
  stray,     \* history: who was woken by anything else than its own task
  hidden,    \* history: who had a view removed that had no surface
  killed     \* the process got the signal that STOP leads to

starting == <<multi, server, starter, spawned>>
uivars   == <<ui, uiDead, fragment, latest, view>>
native   == <<opened, dt, egl, hungup>>
waits    == <<lost, stray, hidden>>
vars     == <<starting, pc, task, uivars, native, faults, waits, killed>>

Procs == 1 .. NProcs
Views == Procs \X (1 .. MaxViews)
NoView == <<0, 0>>

Pcs == {"none", "announce", "accept", "posted", "asleep", "awake", "loop", "ended", "crashed"}
Served == {"loop", "ended", "crashed"}

Go(p, to) == pc' = [pc EXCEPT ![p] = to]

Init ==
  /\ multi \in BOOLEAN /\ server = "starting" /\ starter = "boot" /\ spawned = 0
  /\ pc = [p \in Procs |-> "none"] /\ task = [p \in Procs |-> "none"]
  /\ ui = <<>> /\ uiDead = FALSE /\ fragment = FALSE /\ latest = NoView
  /\ view = [v \in Views |-> "none"]
  /\ opened = [p \in Procs |-> 0] /\ dt = [p \in Procs |-> NoView]
  /\ egl = [p \in Procs |-> FALSE] /\ hungup = {}
  /\ faults = 0 /\ lost = {} /\ stray = {} /\ hidden = {}
  /\ killed = FALSE

-----------------------------------------------------------------------------
(* Starting. *)

\* TryRunVigGLServer: runServer opens the socket or fails.  Without threads this
\* thread is itself the one processor.
StartServer ==
  /\ starter = "boot"
  /\ \/ /\ server' = "running"
        /\ IF multi THEN starter' = "spawn" /\ UNCHANGED <<spawned, pc>>
           ELSE starter' = "done" /\ spawned' = 1 /\ Go(1, "accept")
     \/ server' = "error" /\ starter' = "done" /\ UNCHANGED <<spawned, pc>>
  /\ UNCHANGED <<multi, task, uivars, native, faults, waits, killed>>

\* procThread.start(): the new thread runs before this one waits.
Spawn ==
  /\ starter = "spawn"
  /\ spawned' = spawned + 1
  /\ Go(spawned', "announce")
  /\ starter' = "started"
  /\ UNCHANGED <<multi, server, task, uivars, native, faults, waits, killed>>

\* mutex.wait()
AwaitAnnouncement ==
  /\ starter = "started"
  /\ starter' = "asleep"
  /\ UNCHANGED <<multi, server, spawned, pc, task, uivars, native, faults, waits, killed>>

StarterWakes == starter' = IF spawned = NProcs THEN "done" ELSE "spawn"

\* Mutant: the processor does not notify.
AnnounceSilently(p) ==
  /\ pc[p] = "announce"
  /\ Go(p, "accept")
  /\ UNCHANGED <<starting, task, uivars, native, faults, waits, killed>>

\* AddNewService and mutex.notifyAll(), which nobody hears that does not wait yet.
Announce(p) ==
  /\ pc[p] = "announce"
  /\ Go(p, "accept")
  /\ IF starter = "asleep" THEN StarterWakes /\ UNCHANGED lost
     ELSE lost' = lost \cup {0} /\ UNCHANGED starter
  /\ UNCHANGED <<multi, server, spawned, task, uivars, native, faults, stray, hidden, killed>>

-----------------------------------------------------------------------------
(* Threads and the UI thread. *)

\* handler.post in LockThreadUntilUITask; v is the view that the task is about.
Post(p, t, v) ==
  /\ Go(p, "posted")
  /\ task' = [task EXCEPT ![p] = t]
  /\ ui' = Append(ui, <<p, t, v>>)

\* notifyAll on the monitor of p, for the task that p waits for or another.
Notify(p, own) ==
  /\ pc' = IF pc[p] = "asleep" THEN [pc EXCEPT ![p] = "awake"] ELSE pc
  /\ lost' = IF pc[p] = "posted" THEN lost \cup {p} ELSE lost
  /\ stray' = IF pc[p] = "asleep" /\ ~own THEN stray \cup {p} ELSE stray

\* acceptSocket returns with a client; the overlays are asked for.
Accept(p) ==
  /\ pc[p] = "accept"
  /\ Post(p, "init", NoView)
  /\ UNCHANGED <<starting, uiDead, fragment, latest, view, native, faults, waits, killed>>

\* mutex.wait() in LockThreadUntilUITask
Await(p) ==
  /\ pc[p] = "posted"
  /\ Go(p, "asleep")
  /\ UNCHANGED <<starting, task, uivars, native, faults, waits, killed>>

\* Java lets a thread wake up that nobody notified.
WakeSpuriously(p) ==
  /\ faults < MaxFaults
  /\ faults' = faults + 1
  /\ \/ p # 0 /\ pc[p] = "asleep" /\ Go(p, "awake") /\ UNCHANGED starter
     \/ p = 0 /\ starter = "asleep" /\ StarterWakes /\ UNCHANGED pc
  /\ stray' = stray \cup {p}
  /\ UNCHANGED <<multi, server, spawned, task, uivars, native, lost, hidden, killed>>

\* Mutant: a fragment that is there already is replaced.
InitAgain(p) ==
  \/ fragment' = TRUE /\ Notify(p, task[p] = "init") /\ UNCHANGED uiDead
  \/ uiDead' = TRUE /\ UNCHANGED <<fragment, pc, lost, stray>>

\* Mutant: the overlays are there, and nobody is told.
InitSilently(p) ==
  \/ ~fragment /\ fragment' = TRUE /\ UNCHANGED <<uiDead, pc, lost, stray>>
  \/ uiDead' = TRUE /\ UNCHANGED <<fragment, pc, lost, stray>>

\* OverlayManager.Add of the rendering fragment, unless one is there already.
AddFragment == ~fragment /\ fragment' = TRUE

\* OverlayInitializer.Init adds that fragment first.  An exception, in this Add (the ID
\* is there, the system refuses the window) or in one of those that follow, goes to
\* GlobalExceptions, which logs it, and the UI thread is gone.
InitOverlays(p) ==
  \/ AddFragment /\ Notify(p, task[p] = "init") /\ UNCHANGED uiDead
  \/ uiDead' = TRUE /\ (AddFragment \/ UNCHANGED fragment) /\ UNCHANGED <<pc, lost, stray>>

\* Mutant: the thread is told as soon as the view is in the container.
NewViewAtOnce(p, v) ==
  /\ latest' = v
  /\ view' = [view EXCEPT ![v] = "pending"]
  /\ Notify(p, TRUE)

\* The task of CreateSurface: a SurfaceView in the container.
NewView(p, v) ==
  /\ latest' = v
  /\ view' = [view EXCEPT ![v] = "pending"]
  /\ UNCHANGED <<pc, lost, stray>>

\* The task of DestroySurface: the view leaves the container, and the system says
\* surfaceDestroyed if it had a surface.
RemoveView(p, v) ==
  /\ view' = [view EXCEPT ![v] = "removed"]
  /\ IF view[v] = "ready"
     THEN Notify(p, task[p] = "destroy" /\ dt[p] = v) /\ UNCHANGED hidden
     ELSE hidden' = hidden \cup {p} /\ UNCHANGED <<pc, lost, stray>>

\* The UI thread takes the next message.
RunTask ==
  /\ ~uiDead /\ ui # <<>>
  /\ LET p == Head(ui)[1]  t == Head(ui)[2]  v == Head(ui)[3]
     IN \/ t = "init" /\ InitOverlays(p) /\ UNCHANGED <<latest, view, hidden>>
        \/ t = "create" /\ NewView(p, v) /\ UNCHANGED <<uiDead, fragment, hidden>>
        \/ t = "destroy" /\ RemoveView(p, v) /\ UNCHANGED <<uiDead, fragment, latest>>
  /\ ui' = Tail(ui)
  /\ UNCHANGED <<starting, task, native, faults, killed>>

\* The system gives a view its surface, for the first time or again, and says
\* surfaceCreated on the UI thread: it notifies the thread that made the view.
SurfaceCreated(v) ==
  /\ ~uiDead /\ view[v] \in {"pending", "gone"}
  /\ view' = [view EXCEPT ![v] = "ready"]
  /\ Notify(v[1], task[v[1]] = "create" /\ opened[v[1]] = v[2])
  /\ UNCHANGED <<starting, task, ui, uiDead, fragment, latest, native, faults, hidden, killed>>

\* The system takes the surface of a view that stays, as when the screen goes dark.
SurfaceTaken(v) ==
  /\ ~uiDead /\ view[v] = "ready" /\ faults < MaxFaults
  /\ view' = [view EXCEPT ![v] = "gone"]
  /\ faults' = faults + 1
  /\ UNCHANGED <<starting, pc, task, ui, uiDead, fragment, latest, native, waits, killed>>

-----------------------------------------------------------------------------
(* The client's loop in runSocketLoop. *)

\* The window of p is the one of vtest_egl_init, which is never closed.
Fake(p) == opened[p] = 1

\* LockThreadUntilUITask returns.  CreateSurface takes what surfaceView is by now;
\* without a view the call of GetSurface fails and takes the process with it.
Resume(p) ==
  /\ pc[p] = "awake"
  /\ IF task[p] = "create" /\ latest = NoView
     THEN killed' = TRUE /\ Go(p, "crashed")
     ELSE Go(p, "loop") /\ UNCHANGED killed
  /\ dt' = CASE task[p] = "create" /\ ~Fake(p) -> [dt EXCEPT ![p] = latest]
             [] task[p] = "destroy" -> [dt EXCEPT ![p] = NoView]
             [] OTHER -> dt
  /\ egl' = [egl EXCEPT ![p] = /\ task[p] = "create" /\ ~Fake(p)
                               /\ latest # NoView /\ view[latest] = "ready"]
  /\ UNCHANGED <<starting, task, uivars, opened, hungup, faults, waits>>

\* NativeSurfaceManager.CreateWindow finds no fragment if the overlays were never made.
OpenWindow(p) ==
  /\ pc[p] = "loop" /\ p \notin hungup /\ opened[p] < MaxViews
  /\ IF fragment
     THEN /\ opened' = [opened EXCEPT ![p] = @ + 1]
          /\ Post(p, "create", <<p, opened'[p]>>)
          /\ UNCHANGED killed
     ELSE killed' = TRUE /\ Go(p, "crashed") /\ UNCHANGED <<opened, task, ui>>
  /\ UNCHANGED <<starting, uiDead, fragment, latest, view, dt, egl, hungup, faults, waits>>

\* vtest_egl_init, with the client's first command.
InitEgl(p) == opened[p] = 0 /\ OpenWindow(p)

\* vtest_dt_create
NewWindow(p) == opened[p] > 0 /\ ~egl[p] /\ OpenWindow(p)

\* vtest_dt_destroy and NativeSurfaceManager.DestroyWindow
CloseWindow(p) ==
  /\ pc[p] = "loop" /\ dt[p] # NoView
  /\ Post(p, "destroy", dt[p])
  /\ UNCHANGED <<starting, uiDead, fragment, latest, view, native, faults, waits, killed>>

\* A read of the client's loop fails.
HangUp(p) ==
  /\ pc[p] = "loop" /\ p \notin hungup
  /\ hungup' = hungup \cup {p}
  /\ UNCHANGED <<starting, pc, task, uivars, opened, dt, egl, faults, waits, killed>>

\* vtest_destroy_renderer closes the window first; then the loop returns, the service
\* broadcasts STOP and this thread does not accept again.
Teardown(p) ==
  /\ p \in hungup
  /\ \/ CloseWindow(p)
     \/ /\ pc[p] = "loop" /\ dt[p] = NoView
        /\ Go(p, "ended") /\ server' = "error"
        /\ UNCHANGED <<multi, starter, spawned, task, uivars, native, faults, waits, killed>>

\* STOP has gone through the controller: Process.killProcess(serverPID).
Kill ==
  /\ \E p \in Procs : pc[p] = "ended"
  /\ killed' = TRUE
  /\ UNCHANGED <<starting, pc, task, uivars, native, faults, waits>>

StartUp == StartServer \/ Spawn \/ AwaitAnnouncement

Processor(p) == Announce(p) \/ Await(p) \/ Resume(p) \/ Teardown(p)

Client(p) == Accept(p) \/ InitEgl(p) \/ NewWindow(p) \/ CloseWindow(p) \/ HangUp(p)

System == \E v \in Views : SurfaceCreated(v) \/ SurfaceTaken(v)

Next ==
  /\ ~killed
  /\ \/ StartUp \/ RunTask \/ System \/ Kill
     \/ \E p \in Procs : Processor(p) \/ Client(p)
     \/ \E p \in Procs \cup {0} : WakeSpuriously(p)

\* The threads run, and a view that stays in the container gets a surface; clients
\* need not come, and nobody wakes up spuriously by right.
Spec ==
  /\ Init /\ [][Next]_vars
  /\ WF_vars(~killed /\ StartUp) /\ WF_vars(~killed /\ RunTask)
  /\ \A p \in Procs : WF_vars(~killed /\ Processor(p))
  /\ \A v \in Views : WF_vars(~killed /\ SurfaceCreated(v))

-----------------------------------------------------------------------------
(* Properties *)

PastInit(p) == pc[p] \in Served \/ task[p] \in {"create", "destroy"}

\* Among the threads that only their own task woke, at most one gets to its client's
\* loop: the overlays of a process serve one client (OverlayManager.Add).
OneClientServed == Cardinality({p \in Procs \ stray : PastInit(p)}) <= 1

\* CreateSurface returns the window it made, and it has had its surface, as long as
\* no thread was woken by anything but its own task; vtest_dt_create records it.
WindowIsOwn ==
  [][\A p \in Procs :
       /\ pc[p] = "awake" /\ task[p] = "create" /\ pc'[p] # "awake"
       /\ stray \subseteq {0}
       => /\ latest = <<p, opened[p]>> /\ view[latest] \in {"ready", "gone"}
          /\ ~Fake(p) => dt'[p] = latest]_vars

\* All processor threads come to listen, unless one announced itself before the thread
\* that starts them waited for it.
AllListen ==
  multi /\ server = "running" ~> spawned = NProcs \/ 0 \in lost \/ killed

\* Only these make a thread wait for the UI thread for ever: the notification came
\* before the wait, or the view was removed while it had no surface, or an exception
\* ended the UI thread.
Stuck(p) == p \in lost \cup hidden \/ uiDead

\* A wait for the UI thread ends, and the end of a client, whose window has to be closed
\* on the UI thread, becomes known, unless the thread is stuck.
WaitsEnd ==
  \A p \in Procs :
    /\ pc[p] \in {"posted", "asleep"} ~> pc[p] \notin {"posted", "asleep"} \/ Stuck(p) \/ killed
    /\ p \in hungup ~> server = "error" \/ Stuck(p) \/ killed
=============================================================================
