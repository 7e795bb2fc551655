------------------------ MODULE ServiceProcessProofs ------------------------
(* For any number of processor threads, windows and wake-ups: one client is  *)
(* served, and it gets the windows that it opens.  A thread that only its    *)
(* own task woke is through the making of the overlays, and these are made   *)
(* once; so no other thread's window can be the latest.                      *)
EXTENDS ServiceProcess, FiniteSetTheorems, TLAPS

Tasks == {"none", "init", "create", "destroy"}

Types ==
  /\ pc \in [Procs -> Pcs]
  /\ task \in [Procs -> Tasks]
  /\ fragment \in BOOLEAN

\* The thread has been told that the overlays are there.
Through(p) == PastInit(p) \/ pc[p] = "awake"

\* The strengthening: without the fragment nobody is through, and of two threads one
\* at most, unless something else woke them.
OneThrough ==
  /\ \A p \in Procs \ stray : Through(p) => fragment
  /\ \A p, q \in Procs \ stray : Through(p) /\ Through(q) => p = q

IInv == Types /\ OneThrough

----------------------------------------------------------------------------

\* A step that takes nobody through keeps the invariant.
LEMMA Nobody ==
  ASSUME IInv, Types', stray \subseteq stray', fragment => fragment',
         \A p \in Procs \ stray' : Through(p)' => Through(p)
  PROVE  IInv'
<1>1. \A p \in Procs \ stray' : p \in Procs \ stray
  OBVIOUS
<1>2. \A p \in Procs \ stray' : Through(p)' => fragment'
  BY <1>1 DEF IInv, OneThrough
<1>3. \A p, q \in Procs \ stray' : Through(p)' /\ Through(q)' => p = q
  BY <1>1 DEF IInv, OneThrough
<1> QED BY <1>2, <1>3 DEF IInv, OneThrough

LEMMA Initially == Init => IInv
  BY DEF Init, IInv, Types, OneThrough, Through, PastInit, Served, Pcs, Tasks

\* A notification takes through only whom it was for.
LEMMA Notified ==
  ASSUME Types, NEW p, NEW own \in BOOLEAN, Notify(p, own), UNCHANGED <<task, fragment>>
  PROVE  /\ Types' /\ stray \subseteq stray'
         /\ \A q \in Procs \ stray' : Through(q)' => Through(q) \/ (q = p /\ own)
  BY DEF Types, Notify, Through, PastInit, Served, Pcs

LEMMA StartUpKeeps == ASSUME IInv, StartUp PROVE IInv'
<1> USE DEF StartUp
<1>1. Types'
  BY DEF IInv, Types, StartServer, Spawn, AwaitAnnouncement, Go, Pcs, uivars
<1>2. stray' = stray /\ fragment' = fragment /\ task' = task
  BY DEF StartServer, Spawn, AwaitAnnouncement, waits, uivars
<1>3. \A p \in Procs : Through(p)' => Through(p)
  BY <1>2 DEF IInv, Types, StartServer, Spawn, AwaitAnnouncement, Go, Through, PastInit, Served
<1> QED BY <1>1, <1>2, <1>3, Nobody

LEMMA SystemKeeps == ASSUME IInv, System PROVE IInv'
<1>1. PICK v \in Views : SurfaceCreated(v) \/ SurfaceTaken(v)
  BY DEF System
<1>2. CASE SurfaceCreated(v)
  <2> DEFINE own == task[v[1]] = "create" /\ opened[v[1]] = v[2]
  <2>1. Notify(v[1], own) /\ UNCHANGED <<task, fragment>>
    BY <1>2 DEF SurfaceCreated
  <2>2. own => Through(v[1])
    BY DEF Through, PastInit
  <2>3. /\ Types' /\ stray \subseteq stray'
        /\ \A q \in Procs \ stray' : Through(q)' => Through(q) \/ (q = v[1] /\ own)
    BY <2>1, Notified DEF IInv
  <2> QED BY <2>1, <2>2, <2>3, Nobody
<1>3. CASE SurfaceTaken(v)
  <2>1. UNCHANGED <<pc, task, fragment, stray>>
    BY <1>3 DEF SurfaceTaken, waits
  <2> QED BY <2>1, Nobody DEF IInv, Types, Through, PastInit
<1> QED BY <1>1, <1>2, <1>3

\* The one step that takes a thread through.
LEMMA RunTaskKeeps == ASSUME IInv, RunTask PROVE IInv'
<1> DEFINE p == Head(ui)[1]  v == Head(ui)[3]
<1>1. CASE InitOverlays(p) /\ UNCHANGED task
  <2>1. CASE AddFragment /\ Notify(p, task[p] = "init")
    <3>1. \A q \in Procs \ stray : ~Through(q)
      BY <2>1 DEF IInv, OneThrough, AddFragment
    <3>2. /\ pc' \in [Procs -> Pcs] /\ stray \subseteq stray'
          /\ \A q \in Procs : pc'[q] # pc[q] => q = p
      BY <2>1 DEF IInv, Types, Notify, Pcs
    <3>3. \A q \in Procs \ stray' : Through(q)' => q = p
      BY <1>1, <3>1, <3>2 DEF Through, PastInit
    <3> QED BY <1>1, <2>1, <3>2, <3>3 DEF IInv, Types, OneThrough, AddFragment
  <2>2. CASE (AddFragment \/ UNCHANGED fragment) /\ UNCHANGED <<pc, lost, stray>>
    BY <1>1, <2>2, Nobody DEF IInv, Types, Through, PastInit, AddFragment
  <2> QED BY <1>1, <2>1, <2>2 DEF InitOverlays
<1>2. CASE NewView(p, v) /\ UNCHANGED <<fragment, task>>
  BY <1>2, Nobody DEF NewView, IInv, Types, Through, PastInit
<1>3. CASE RemoveView(p, v) /\ UNCHANGED <<fragment, task>>
  <2> DEFINE own == task[p] = "destroy" /\ dt[p] = v
  <2>1. CASE view[v] = "ready"
    <3>1. Notify(p, own)
      BY <1>3, <2>1 DEF RemoveView
    <3>2. own => Through(p)
      BY DEF Through, PastInit
    <3>3. /\ Types' /\ stray \subseteq stray'
          /\ \A q \in Procs \ stray' : Through(q)' => Through(q) \/ (q = p /\ own)
      BY <1>3, <3>1, Notified DEF IInv
    <3> QED BY <1>3, <3>2, <3>3, Nobody
  <2>2. CASE view[v] # "ready"
    BY <1>3, <2>2, Nobody DEF RemoveView, IInv, Types, Through, PastInit
  <2> QED BY <2>1, <2>2
<1> QED BY <1>1, <1>2, <1>3 DEF RunTask

LEMMA ProcessorKeeps ==
  ASSUME IInv, NEW p \in Procs, Processor(p) \/ Client(p) \/ Kill PROVE IInv'
<1>1. Types' /\ stray' = stray /\ fragment' = fragment
  <2>1. CASE Announce(p)
    BY <2>1 DEF Announce, Go, IInv, Types, Pcs, uivars
  <2>2. CASE Await(p) \/ Kill
    BY <2>2 DEF Await, Kill, Go, IInv, Types, Pcs, uivars, waits
  <2>3. CASE Resume(p)
    BY <2>3 DEF Resume, Go, IInv, Types, Pcs, uivars, waits
  <2>4. CASE Accept(p) \/ InitEgl(p) \/ NewWindow(p)
    BY <2>4 DEF Accept, InitEgl, NewWindow, OpenWindow, Post, Go, IInv, Types, Pcs, Tasks, waits
  <2>5. CASE CloseWindow(p) \/ HangUp(p) \/ Teardown(p)
    BY <2>5 DEF CloseWindow, HangUp, Teardown, Post, Go, IInv, Types, Pcs, Tasks, uivars, waits
  <2> QED BY <2>1, <2>2, <2>3, <2>4, <2>5 DEF Processor, Client
<1>2. \A q \in Procs : Through(q)' => Through(q)
  <2> USE DEF Through, PastInit, Served, Go, IInv, Types
  <2>1. CASE Announce(p)
    BY <2>1 DEF Announce
  <2>2. CASE Await(p) \/ Kill
    BY <2>2 DEF Await, Kill
  <2>3. CASE Resume(p)
    BY <2>3 DEF Resume
  <2>4. CASE Accept(p)
    BY <2>4 DEF Accept, Post
  <2>5. CASE InitEgl(p) \/ NewWindow(p)
    BY <2>5 DEF InitEgl, NewWindow, OpenWindow, Post
  <2>6. CASE CloseWindow(p) \/ HangUp(p) \/ Teardown(p)
    BY <2>6 DEF CloseWindow, HangUp, Teardown, Post
  <2> QED BY <2>1, <2>2, <2>3, <2>4, <2>5, <2>6 DEF Processor, Client
<1> QED BY <1>1, <1>2, Nobody

LEMMA SpuriousKeeps == ASSUME IInv, NEW p, WakeSpuriously(p) PROVE IInv'
<1>1. Types' /\ stray' = stray \cup {p} /\ fragment' = fragment /\ task' = task
  BY DEF WakeSpuriously, Go, IInv, Types, Pcs, uivars
<1>2. \A q \in Procs : q # p => (Through(q)' => Through(q))
  BY <1>1 DEF WakeSpuriously, Go, IInv, Types, Through, PastInit
<1> QED BY <1>1, <1>2, Nobody

\* The inductive invariant: of the threads that only their own task woke, at most one
\* has been told that the overlays are there, and none before they are.
THEOREM InvariantHolds == Spec => []IInv
<1>1. IInv /\ [Next]_vars => IInv'
  <2> SUFFICES ASSUME IInv, [Next]_vars PROVE IInv'
    OBVIOUS
  <2>1. CASE UNCHANGED vars
    BY <2>1 DEF vars, IInv, Types, OneThrough, Through, PastInit, uivars, waits
  <2>2. CASE StartUp \/ System \/ RunTask \/ Kill
    <3>1. CASE Kill
      BY <3>1, <2>2, Nobody DEF Kill, IInv, Types, Through, PastInit, uivars, waits
    <3> QED BY <2>2, <3>1, StartUpKeeps, SystemKeeps, RunTaskKeeps
  <2>3. CASE \E p \in Procs : Processor(p) \/ Client(p)
    BY <2>3, ProcessorKeeps
  <2>4. CASE \E p \in Procs \cup {0} : WakeSpuriously(p)
    BY <2>4, SpuriousKeeps
  <2> QED BY <2>1, <2>2, <2>3, <2>4 DEF Next
<1> QED BY Initially, <1>1, PTL DEF Spec

\* Among the threads that only their own task woke, at most one gets to the loop of
\* its client, however many threads the profile asks for.
THEOREM OneClientHolds == Spec => []OneClientServed
<1>1. IInv => OneClientServed
  <2> SUFFICES ASSUME IInv PROVE OneClientServed
    OBVIOUS
  <2> DEFINE S == {p \in Procs \ stray : PastInit(p)}
  <2>1. \A p, q \in S : p = q
    BY DEF IInv, OneThrough, Through
  <2>2. CASE S = {}
    BY <2>2, FS_EmptySet DEF OneClientServed
  <2>3. CASE S # {}
    <3>1. PICK p : S = {p}
      BY <2>1, <2>3
    <3> QED BY <3>1, FS_Singleton DEF OneClientServed
  <2> QED BY <2>2, <2>3
<1> QED BY <1>1, InvariantHolds, PTL

----------------------------------------------------------------------------
(* The window that CreateSurface returns.                                    *)

Own(q) == <<q, opened[q]>>

WindowTypes ==
  /\ ui \in Seq(Procs \X Tasks \X (Views \cup {NoView}))
  /\ latest \in Views \cup {NoView}
  /\ view \in [Views -> {"none", "pending", "ready", "gone", "removed"}]
  /\ opened \in [Procs -> 0 .. MaxViews]
  /\ dt \in [Procs -> Views \cup {NoView}]

\* A message is of a thread that waits for it, which has no other; a view does not exist
\* before its message is taken.
Messages ==
  \A i \in DOMAIN ui :
    /\ pc[ui[i][1]] \in {"posted", "asleep"} /\ task[ui[i][1]] = ui[i][2]
    /\ ui[i][2] = "create" => ui[i][3] = Own(ui[i][1]) /\ view[ui[i][3]] = "none"
    /\ ui[i][2] = "destroy" => ui[i][3] = dt[ui[i][1]]
    /\ \A j \in DOMAIN ui : ui[j][1] = ui[i][1] => j = i

\* Who waits for a window has it asked for or made; who was told has one that had a surface.
Made ==
  \A q \in Procs : task[q] = "create" =>
    /\ pc[q] \in {"posted", "asleep"} =>
         \/ \E i \in DOMAIN ui : ui[i][1] = q
         \/ latest = Own(q) /\ view[Own(q)] \in {"pending", "ready", "gone"}
    /\ pc[q] = "awake" => latest = Own(q) /\ view[Own(q)] \in {"ready", "gone"}

\* Views that were not asked for do not exist, and a client holds one it asked for.
Numbered ==
  /\ \A q \in Procs : \A k \in 1 .. MaxViews : k > opened[q] => view[<<q, k>>] = "none"
  /\ \A q \in Procs : dt[q] # NoView => dt[q][1] = q /\ dt[q][2] <= opened[q]

Windows == stray \subseteq {0} => Messages /\ Made /\ Numbered

\* A thread that was not started is nowhere.
NotStarted ==
  /\ spawned \in Nat /\ (starter = "boot" => spawned = 0)
  /\ \A q \in Procs : q > spawned => pc[q] = "none"

\* Without a stray wake-up one thread at most is through the making of the overlays.
LEMMA OneIsThrough ==
  ASSUME IInv, stray \subseteq {0}, NEW p \in Procs, NEW q \in Procs, Through(p), Through(q)
  PROVE  p = q
<1>1. p \in Procs \ stray /\ q \in Procs \ stray
  BY DEF Procs
<1> QED BY <1>1 DEF IInv, OneThrough

LEMMA WindowsInit == Init => WindowTypes /\ Windows
<1> SUFFICES ASSUME Init PROVE WindowTypes /\ Windows
  OBVIOUS
<1>1. WindowTypes
  BY BoundAssumption DEF Init, WindowTypes
<1>2. Messages /\ Made /\ Numbered
  BY BoundAssumption DEF Init, Messages, Made, Numbered, Views
<1> QED BY <1>1, <1>2 DEF Windows

\* The thread p, which waits for nothing, asks the UI thread for something.
LEMMA PostKeeps ==
  ASSUME Types, WindowTypes, Messages, Made, Numbered,
         NEW p \in Procs, pc[p] \notin {"posted", "asleep"},
         NEW t \in {"init", "create", "destroy"}, NEW v \in Views \cup {NoView}, Post(p, t, v),
         UNCHANGED <<latest, view, dt>>,
         WindowTypes', \A q \in Procs : q # p => opened'[q] = opened[q],
         opened'[p] >= opened[p],
         t = "create" => v = Own(p)' /\ opened'[p] > opened[p],
         t = "destroy" => v = dt[p]
  PROVE  Messages' /\ Made' /\ Numbered'
<1> USE DEF Types, WindowTypes
<1>1. /\ pc' = [pc EXCEPT ![p] = "posted"] /\ task' = [task EXCEPT ![p] = t]
      /\ ui' = Append(ui, <<p, t, v>>)
  BY DEF Post, Go
<1>2. /\ Len(ui') = Len(ui) + 1 /\ ui'[Len(ui) + 1] = <<p, t, v>>
      /\ \A i \in DOMAIN ui : ui'[i] = ui[i] /\ ui[i][1] \in Procs /\ ui[i][1] # p
  BY <1>1 DEF Messages
<1>3. DOMAIN ui' = DOMAIN ui \cup {Len(ui) + 1} /\ Len(ui) + 1 \notin DOMAIN ui
  BY <1>1, <1>2
<1>4. Numbered'
  <2>1. \A q \in Procs : opened[q] \in Nat /\ opened'[q] \in Nat /\ opened[q] <= opened'[q]
    <3>1. \A q \in Procs : opened[q] \in 0 .. MaxViews /\ opened'[q] \in 0 .. MaxViews
      OBVIOUS
    <3>2. \A q \in Procs : opened[q] \in Nat /\ opened'[q] \in Nat
      BY <3>1, BoundAssumption
    <3>3. opened[p] <= opened'[p]
      BY <3>2
    <3>4. ASSUME NEW q \in Procs, q # p PROVE opened[q] <= opened'[q]
      BY <3>2, <3>4
    <3>5. \A q \in Procs : opened[q] <= opened'[q]
      BY <3>3, <3>4
    <3> QED BY <3>2, <3>5
  <2>2. \A q \in Procs : \A k \in 1 .. MaxViews : k > opened'[q] => view'[<<q, k>>] = "none"
    BY <2>1, BoundAssumption DEF Numbered
  <2>3. \A w \in Views : w[2] \in Nat
    BY BoundAssumption DEF Views
  <2>4. \A q \in Procs : dt'[q] # NoView => dt'[q][1] = q /\ dt'[q][2] <= opened'[q]
    BY <2>1, <2>3 DEF Numbered
  <2> QED BY <2>2, <2>4 DEF Numbered
<1>5. t = "create" => view[v] = "none"
  BY DEF Numbered, Own, Views
<1>6. Messages'
  <2> SUFFICES ASSUME NEW i \in DOMAIN ui'
      PROVE  /\ pc'[ui'[i][1]] \in {"posted", "asleep"} /\ task'[ui'[i][1]] = ui'[i][2]
             /\ ui'[i][2] = "create" => ui'[i][3] = <<ui'[i][1], opened'[ui'[i][1]]>> /\ view'[ui'[i][3]] = "none"
             /\ ui'[i][2] = "destroy" => ui'[i][3] = dt'[ui'[i][1]]
             /\ \A j \in DOMAIN ui' : ui'[j][1] = ui'[i][1] => j = i
    BY DEF Messages, Own
  <2>1. CASE i = Len(ui) + 1
    BY <2>1, <1>1, <1>2, <1>3, <1>5 DEF Own
  <2>2. CASE i \in DOMAIN ui
    <3>1. /\ pc[ui[i][1]] \in {"posted", "asleep"} /\ task[ui[i][1]] = ui[i][2]
          /\ ui[i][2] = "create" => ui[i][3] = Own(ui[i][1]) /\ view[ui[i][3]] = "none"
          /\ ui[i][2] = "destroy" => ui[i][3] = dt[ui[i][1]]
          /\ \A j \in DOMAIN ui : ui[j][1] = ui[i][1] => j = i
      BY <2>2 DEF Messages
    <3> QED BY <2>2, <3>1, <1>1, <1>2, <1>3 DEF Own
  <2> QED BY <2>1, <2>2, <1>3
<1>7. Made'
  <2> SUFFICES ASSUME NEW q \in Procs, task'[q] = "create"
      PROVE  /\ pc'[q] \in {"posted", "asleep"} =>
                  \/ \E i \in DOMAIN ui' : ui'[i][1] = q
                  \/ latest' = Own(q)' /\ view'[Own(q)'] \in {"pending", "ready", "gone"}
             /\ pc'[q] = "awake" => latest' = Own(q)' /\ view'[Own(q)'] \in {"ready", "gone"}
    BY DEF Made, Own
  <2>1. CASE q = p
    BY <2>1, <1>1, <1>2, <1>3
  <2>2. CASE q # p
    BY <2>2, <1>1, <1>2, <1>3 DEF Made, Own
  <2> QED BY <2>1, <2>2
<1> QED BY <1>4, <1>6, <1>7

\* A step that moves no message and no view: a thread starts to wait, goes on, or ends.
LEMMA StayKeeps ==
  ASSUME Types, WindowTypes, Messages, Made, Numbered,
         UNCHANGED <<ui, latest, view, opened, task>>,
         \A q \in Procs : pc'[q] = "awake" => pc[q] = "awake",
         \A q \in Procs : pc'[q] \in {"posted", "asleep"} <=> pc[q] \in {"posted", "asleep"},
         \A q \in Procs : dt'[q] # NoView => dt'[q][1] = q /\ dt'[q][2] <= opened[q],
         \A q \in Procs : pc[q] \in {"posted", "asleep"} => dt'[q] = dt[q]
  PROVE  Messages' /\ Made' /\ Numbered'
<1>1. \A i \in DOMAIN ui : ui[i][1] \in Procs
  BY DEF WindowTypes
<1>2. Messages'
  BY <1>1 DEF Messages, Own
<1>3. Made'
  BY DEF Made, Own
<1>4. Numbered'
  BY DEF Numbered
<1> QED BY <1>2, <1>3, <1>4

\* The UI thread or the system changes views, and wakes nobody but the thread p.
LEMMA TypesOfWindows == Types /\ WindowTypes /\ [Next]_vars => WindowTypes'
<1> SUFFICES ASSUME Types, WindowTypes, [Next]_vars PROVE WindowTypes'
  OBVIOUS
<1> USE DEF WindowTypes
<1>1. CASE UNCHANGED <<ui, latest, view, opened, dt>>
  BY <1>1
<1>2. ASSUME NEW v \in Views, SurfaceCreated(v) \/ SurfaceTaken(v) PROVE WindowTypes'
  BY <1>2 DEF SurfaceCreated, SurfaceTaken, native
<1>3. CASE RunTask
  <2>1. UNCHANGED <<opened, dt>> /\ ui # <<>> /\ ui' = Tail(ui)
    BY <1>3 DEF RunTask, native
  <2>2. ui' \in Seq(Procs \X Tasks \X (Views \cup {NoView}))
    BY <2>1
  <2>3. Head(ui)[3] \in Views \cup {NoView}
    BY <2>1
  <2>4. latest' \in Views \cup {NoView}
        /\ view' \in [Views -> {"none", "pending", "ready", "gone", "removed"}]
    BY <1>3, <2>3 DEF RunTask, NewView, RemoveView
  <2> QED BY <2>1, <2>2, <2>4
<1>4. ASSUME NEW p \in Procs, Accept(p) \/ CloseWindow(p) PROVE WindowTypes'
  <2> DEFINE Asked == Procs \X Tasks \X (Views \cup {NoView})
  <2>1. PICK t \in Tasks : \E v \in Views \cup {NoView} :
          Post(p, t, v) /\ UNCHANGED <<latest, view, opened, dt>>
    BY <1>4 DEF Accept, CloseWindow, native, Tasks
  <2>2. PICK v \in Views \cup {NoView} : Post(p, t, v) /\ UNCHANGED <<latest, view, opened, dt>>
    BY <2>1
  <2>3. ui' = Append(ui, <<p, t, v>>) /\ <<p, t, v>> \in Asked
    BY <2>2 DEF Post
  <2>4. ui' \in Seq(Asked)
    <3> HIDE DEF Asked
    <3>1. ui \in Seq(Asked)
      BY DEF Asked
    <3> QED BY <3>1, <2>3
  <2> QED BY <2>2, <2>4
<1>5. ASSUME NEW p \in Procs, OpenWindow(p) PROVE WindowTypes'
  <2>1. CASE UNCHANGED <<opened, ui>>
    BY <1>5, <2>1 DEF OpenWindow
  <2>2. CASE opened' = [opened EXCEPT ![p] = @ + 1] /\ Post(p, "create", <<p, opened'[p]>>)
    <3>1. opened[p] + 1 \in 1 .. MaxViews
      BY <1>5, BoundAssumption DEF OpenWindow
    <3>2. opened' \in [Procs -> 0 .. MaxViews] /\ <<p, opened'[p]>> \in Views
      BY <2>2, <3>1, BoundAssumption DEF Views
    <3>3. ui' \in Seq(Procs \X Tasks \X (Views \cup {NoView}))
      <4> DEFINE Asked == Procs \X Tasks \X (Views \cup {NoView})
      <4>1. <<p, "create", <<p, opened'[p]>> >> \in Asked /\ ui \in Seq(Asked)
        BY <3>2 DEF Tasks
      <4> HIDE DEF Asked
      <4>2. ui' \in Seq(Asked)
        BY <2>2, <4>1 DEF Post
      <4> QED BY <4>2 DEF Asked
    <3> QED BY <1>5, <3>2, <3>3 DEF OpenWindow
  <2> QED BY <1>5, <2>1, <2>2 DEF OpenWindow
<1>6. ASSUME NEW p \in Procs, Resume(p) PROVE WindowTypes'
  BY <1>6 DEF Resume, uivars
<1>7. ASSUME NEW p \in Procs, Processor(p) \/ Client(p) PROVE WindowTypes'
  BY <1>1, <1>4, <1>5, <1>6, <1>7
  DEF Processor, Client, InitEgl, NewWindow, Announce, Await, Teardown, HangUp, uivars, native
<1>8. CASE StartUp \/ Kill \/ \E p \in Procs \cup {0} : WakeSpuriously(p)
  BY <1>1, <1>8
  DEF StartUp, StartServer, Spawn, AwaitAnnouncement, Kill, WakeSpuriously, uivars, native
<1>9. CASE UNCHANGED vars
  BY <1>1, <1>9 DEF vars, uivars, native
<1> QED BY <1>2, <1>3, <1>7, <1>8, <1>9 DEF Next, System

LEMMA ClientKeepsWindows ==
  ASSUME IInv, WindowTypes, Windows, WindowTypes', stray \subseteq {0},
         NEW p \in Procs, Processor(p) \/ Client(p)
  PROVE  Windows'
<1>0. Types /\ Messages /\ Made /\ Numbered
  BY DEF IInv, Windows
<1>1. CASE Accept(p)
  <2>1. pc[p] \notin {"posted", "asleep"} /\ Post(p, "init", NoView)
        /\ UNCHANGED <<latest, view, dt, opened>>
    BY <1>1 DEF Accept, native
  <2>2. opened'[p] >= opened[p]
    BY <2>1, BoundAssumption DEF WindowTypes
  <2>3. Messages' /\ Made' /\ Numbered'
    BY <2>1, <2>2, <1>0, PostKeeps
  <2> QED BY <2>3 DEF Windows
<1>2. CASE CloseWindow(p)
  <2>1. pc[p] \notin {"posted", "asleep"} /\ Post(p, "destroy", dt[p])
        /\ dt[p] \in Views \cup {NoView} /\ UNCHANGED <<latest, view, dt, opened>>
    BY <1>2 DEF CloseWindow, native, WindowTypes
  <2>2. opened'[p] >= opened[p]
    BY <2>1, BoundAssumption DEF WindowTypes
  <2>3. Messages' /\ Made' /\ Numbered'
    BY <2>1, <2>2, <1>0, PostKeeps
  <2> QED BY <2>3 DEF Windows
<1>3. CASE OpenWindow(p)
  <2>1. CASE fragment
    <3>1. /\ opened' = [opened EXCEPT ![p] = @ + 1] /\ opened[p] < MaxViews
          /\ Post(p, "create", <<p, opened'[p]>>) /\ pc[p] = "loop"
          /\ UNCHANGED <<latest, view, dt>>
      BY <1>3, <2>1 DEF OpenWindow
    <3>2. opened[p] \in Nat /\ opened'[p] = opened[p] + 1
      BY <3>1, BoundAssumption DEF WindowTypes
    <3>3. <<p, opened'[p]>> \in Views
      BY <3>1, <3>2, BoundAssumption DEF Views
    <3>4. \A q \in Procs : q # p => opened'[q] = opened[q]
      BY <3>1 DEF WindowTypes
    <3>5. Own(p)' = <<p, opened'[p]>> /\ opened'[p] > opened[p] /\ opened'[p] >= opened[p]
      BY <3>2 DEF Own
    <3>6. Messages' /\ Made' /\ Numbered'
      BY <3>1, <3>3, <3>4, <3>5, <1>0, PostKeeps
    <3> QED BY <3>6 DEF Windows
  <2>2. CASE ~fragment
    <3>1. /\ pc' = [pc EXCEPT ![p] = "crashed"] /\ pc[p] = "loop"
          /\ UNCHANGED <<ui, latest, view, opened, task, dt>>
      BY <1>3, <2>2 DEF OpenWindow, Go
    <3>2. Messages' /\ Made' /\ Numbered'
      BY <3>1, <1>0, StayKeeps DEF Types, Numbered
    <3> QED BY <3>2 DEF Windows
  <2> QED BY <2>1, <2>2
<1>4. CASE Resume(p)
  <2>1. /\ \E to \in {"loop", "crashed"} : pc' = [pc EXCEPT ![p] = to]
        /\ pc[p] = "awake" /\ UNCHANGED <<ui, latest, view, opened, task>>
    BY <1>4 DEF Resume, Go, uivars
  <2>2. \A q \in Procs : dt'[q] = dt[q] \/ (q = p /\ dt'[p] = NoView)
                         \/ (q = p /\ task[p] = "create" /\ dt'[p] = latest)
    BY <1>4 DEF Resume, WindowTypes
  <2>3. task[p] = "create" => latest = <<p, opened[p]>> /\ opened[p] <= opened[p]
    <3>1. opened[p] \in Nat
      BY BoundAssumption DEF WindowTypes
    <3>2. task[p] = "create" => latest = <<p, opened[p]>>
      BY <1>0, <2>1 DEF Made, Own
    <3> QED BY <3>1, <3>2
  <2>4. \A q \in Procs : dt'[q] # NoView => dt'[q][1] = q /\ dt'[q][2] <= opened[q]
    BY <1>0, <2>2, <2>3 DEF Numbered
  <2>5. \A q \in Procs : q # p => dt'[q] = dt[q]
    BY <2>2
  <2>6. Messages' /\ Made' /\ Numbered'
    BY <2>1, <2>4, <2>5, <1>0, StayKeeps DEF Types
  <2> QED BY <2>6 DEF Windows
<1>5. CASE Announce(p) \/ Await(p) \/ HangUp(p) \/ (pc[p] = "loop" /\ Go(p, "ended")
                 /\ UNCHANGED <<ui, latest, view, opened, task, dt>>)
  <2>1. /\ \E to \in {"accept", "asleep", "ended", "loop"} :
             /\ pc' = [pc EXCEPT ![p] = to]
             /\ pc[p] \in {"announce", "loop", "posted"} /\ (to = "asleep" <=> pc[p] = "posted")
        /\ UNCHANGED <<ui, latest, view, opened, task, dt>>
    BY <1>5, <1>0 DEF Announce, Await, HangUp, Go, uivars, native, Types
  <2>2. Messages' /\ Made' /\ Numbered'
    BY <2>1, <1>0, StayKeeps DEF Types, Numbered
  <2> QED BY <2>2 DEF Windows
<1> QED
  BY <1>1, <1>2, <1>3, <1>4, <1>5
  DEF Processor, Client, InitEgl, NewWindow, Teardown, uivars, native

\* The UI thread takes the first message.  What stays keeps its meaning, since the taken
\* message was the only one of its thread.
LEMMA Taken ==
  ASSUME WindowTypes, Messages, ui # <<>>, ui' = Tail(ui)
  PROVE  \E p \in Procs : \E t \in Tasks : \E v \in Views \cup {NoView} :
           /\ Head(ui) = <<p, t, v>> /\ pc[p] \in {"posted", "asleep"} /\ task[p] = t
           /\ t = "create" => v = Own(p) /\ view[v] = "none"
           /\ t = "destroy" => v = dt[p]
           /\ DOMAIN ui' = 1 .. Len(ui) - 1
           /\ \A i \in DOMAIN ui' : i + 1 \in DOMAIN ui /\ ui'[i] = ui[i + 1] /\ ui'[i][1] # p
           /\ \A q \in Procs : q # p => \A i \in DOMAIN ui : ui[i][1] = q =>
                i - 1 \in DOMAIN ui' /\ ui'[i - 1] = ui[i]
<1> DEFINE Asked == Procs \X Tasks \X (Views \cup {NoView})
<1>1. ui \in Seq(Asked)
  BY DEF WindowTypes
<1> HIDE DEF Asked
<1>2. Len(ui) \in Nat /\ Len(ui) > 0 /\ DOMAIN ui = 1 .. Len(ui) /\ Head(ui) = ui[1] /\ ui[1] \in Asked
  BY <1>1
<1>3. PICK p \in Procs : \E t \in Tasks : \E v \in Views \cup {NoView} : Head(ui) = <<p, t, v>>
  BY <1>2 DEF Asked
<1>4. PICK t \in Tasks : \E v \in Views \cup {NoView} : Head(ui) = <<p, t, v>>
  BY <1>3
<1>5. PICK v \in Views \cup {NoView} : Head(ui) = <<p, t, v>>
  BY <1>4
<1>6. ui[1] = <<p, t, v>> /\ 1 \in DOMAIN ui
  BY <1>2, <1>5
<1>7. DOMAIN ui' = 1 .. Len(ui) - 1
      /\ \A i \in DOMAIN ui' : i + 1 \in DOMAIN ui /\ ui'[i] = ui[i + 1] /\ i + 1 # 1
  BY <1>1, <1>2
<1>8. \A j \in DOMAIN ui : ui[j][1] = p => j = 1
  BY <1>6 DEF Messages
<1>9. \A i \in DOMAIN ui' : ui'[i][1] # p
  BY <1>7, <1>8
<1>10. \A q \in Procs : q # p => \A i \in DOMAIN ui : ui[i][1] = q =>
                i - 1 \in DOMAIN ui' /\ ui'[i - 1] = ui[i]
  <2> SUFFICES ASSUME NEW q \in Procs, q # p, NEW i \in DOMAIN ui, ui[i][1] = q
               PROVE  i - 1 \in DOMAIN ui' /\ ui'[i - 1] = ui[i]
    OBVIOUS
  <2>1. i # 1 /\ i \in 1 .. Len(ui)
    BY <1>2, <1>6
  <2>2. i - 1 \in DOMAIN ui'
    BY <1>2, <1>7, <2>1
  <2> QED BY <1>7, <2>1, <2>2
<1>11. /\ pc[p] \in {"posted", "asleep"} /\ task[p] = t
       /\ t = "create" => v = Own(p) /\ view[v] = "none"
       /\ t = "destroy" => v = dt[p]
  BY <1>6 DEF Messages
<1> QED BY <1>5, <1>7, <1>9, <1>10, <1>11

LEMMA TakeKeeps ==
  ASSUME Types, WindowTypes, Messages, Made, ui # <<>>, ui' = Tail(ui),
         UNCHANGED <<task, opened, dt>>, NEW p, Head(ui)[1] = p,
         \A q \in Procs : q # p => pc'[q] = pc[q],
         \A q \in Procs : q # p /\ task[q] = "create" =>
           latest' = latest /\ view'[<<q, opened[q]>>] = view[<<q, opened[q]>>],
         task[p] = "create" =>
           latest' = <<p, opened[p]>> /\ view'[<<p, opened[p]>>] = "pending" /\ pc'[p] # "awake"
  PROVE  Messages' /\ Made'
<1>1. PICK h \in Procs : \E t \in Tasks : \E v \in Views \cup {NoView} :
           /\ Head(ui) = <<h, t, v>> /\ pc[h] \in {"posted", "asleep"} /\ task[h] = t
           /\ t = "create" => v = Own(h) /\ view[v] = "none"
           /\ t = "destroy" => v = dt[h]
           /\ DOMAIN ui' = 1 .. Len(ui) - 1
           /\ \A i \in DOMAIN ui' : i + 1 \in DOMAIN ui /\ ui'[i] = ui[i + 1] /\ ui'[i][1] # h
           /\ \A q \in Procs : q # h => \A i \in DOMAIN ui : ui[i][1] = q =>
                i - 1 \in DOMAIN ui' /\ ui'[i - 1] = ui[i]
  BY Taken
<1>2. h = p
  BY <1>1
<1>3. /\ DOMAIN ui' = 1 .. Len(ui) - 1
      /\ \A i \in DOMAIN ui' : i + 1 \in DOMAIN ui /\ ui'[i] = ui[i + 1] /\ ui'[i][1] # p
      /\ \A q \in Procs : q # p => \A i \in DOMAIN ui : ui[i][1] = q =>
           i - 1 \in DOMAIN ui' /\ ui'[i - 1] = ui[i]
  BY <1>1, <1>2
<1>4. \A i \in DOMAIN ui : ui[i][1] \in Procs
  BY DEF WindowTypes
<1>5. Messages'
  <2> SUFFICES ASSUME NEW i \in DOMAIN ui'
      PROVE  /\ pc'[ui'[i][1]] \in {"posted", "asleep"} /\ task[ui'[i][1]] = ui'[i][2]
             /\ ui'[i][2] = "create" =>
                  ui'[i][3] = <<ui'[i][1], opened[ui'[i][1]]>> /\ view'[ui'[i][3]] = "none"
             /\ ui'[i][2] = "destroy" => ui'[i][3] = dt[ui'[i][1]]
             /\ \A j \in DOMAIN ui' : ui'[j][1] = ui'[i][1] => j = i
    BY DEF Messages, Own
  <2>1. i + 1 \in DOMAIN ui /\ ui'[i] = ui[i + 1] /\ ui'[i][1] # p /\ ui'[i][1] \in Procs
    BY <1>3, <1>4
  <2>2. /\ pc[ui'[i][1]] \in {"posted", "asleep"} /\ task[ui'[i][1]] = ui'[i][2]
        /\ ui'[i][2] = "create" =>
             ui'[i][3] = <<ui'[i][1], opened[ui'[i][1]]>> /\ view[ui'[i][3]] = "none"
        /\ ui'[i][2] = "destroy" => ui'[i][3] = dt[ui'[i][1]]
        /\ \A j \in DOMAIN ui : ui[j][1] = ui'[i][1] => j = i + 1
    BY <2>1 DEF Messages, Own
  <2>3. \A j \in DOMAIN ui' : ui'[j][1] = ui'[i][1] => j = i
    <3> SUFFICES ASSUME NEW j \in DOMAIN ui', ui'[j][1] = ui'[i][1] PROVE j = i
      OBVIOUS
    <3>1. j + 1 = i + 1
      BY <2>2, <1>3
    <3>2. i \in Int /\ j \in Int
      BY <1>3
    <3> QED BY <3>1, <3>2
  <2> QED BY <2>1, <2>2, <2>3
<1>6. Made'
  <2> SUFFICES ASSUME NEW q \in Procs, task[q] = "create"
      PROVE  /\ pc'[q] \in {"posted", "asleep"} =>
                  \/ \E i \in DOMAIN ui' : ui'[i][1] = q
                  \/ latest' = <<q, opened[q]>>
                     /\ view'[<<q, opened[q]>>] \in {"pending", "ready", "gone"}
             /\ pc'[q] = "awake" =>
                  latest' = <<q, opened[q]>> /\ view'[<<q, opened[q]>>] \in {"ready", "gone"}
    BY DEF Made, Own
  <2>1. CASE q = p
    BY <2>1
  <2>2. CASE q # p
    BY <2>2, <1>3 DEF Made, Own
  <2> QED BY <2>1, <2>2
<1> QED BY <1>5, <1>6

LEMMA RunTaskKeepsWindows ==
  ASSUME IInv, WindowTypes, Windows, stray \subseteq {0}, stray' \subseteq {0}, RunTask
  PROVE  Windows'
<1> DEFINE p == Head(ui)[1]  t == Head(ui)[2]  v == Head(ui)[3]
<1>0. Types /\ Messages /\ Made /\ Numbered
  BY DEF IInv, Windows
<1>1. ui # <<>> /\ ui' = Tail(ui) /\ UNCHANGED <<task, opened, dt>>
  BY DEF RunTask, native
<1>2. /\ p \in Procs /\ t \in Tasks /\ v \in Views \cup {NoView}
      /\ pc[p] \in {"posted", "asleep"} /\ task[p] = t
      /\ t = "create" => v = <<p, opened[p]>> /\ view[v] = "none"
      /\ t = "destroy" => v = dt[p]
  BY Taken, <1>0, <1>1 DEF Own
<1>3. \A q \in Procs : opened[q] \in Nat /\ q # 0
  BY BoundAssumption DEF WindowTypes, Procs
<1>4. CASE t = "init"
  <2>1. InitOverlays(p) /\ UNCHANGED <<latest, view>>
    BY <1>4 DEF RunTask
  <2>2. \A q \in Procs : q # p => pc'[q] = pc[q]
    BY <2>1, <1>0 DEF InitOverlays, Notify, Types
  <2>3. Messages' /\ Made'
    <3> HIDE DEF p, t, v
    <3>1. Head(ui)[1] = p /\ task[p] # "create"
      BY <1>2, <1>4 DEF p
    <3> QED BY <2>1, <2>2, <3>1, <1>0, <1>1, TakeKeeps
  <2> QED BY <2>1, <2>3, <1>0, <1>1 DEF Windows, Numbered
<1>5. CASE t = "create"
  <2>1. UNCHANGED pc /\ latest' = v /\ view' = [view EXCEPT ![v] = "pending"]
    BY <1>5 DEF RunTask, NewView
  <2>2. \A q \in Procs : task[q] = "create" => q = p
    BY <1>2, <1>5, OneIsThrough DEF Through, PastInit
  <2>3. v \in Views /\ view'[v] = "pending"
    BY <2>1, <1>2, <1>3, <1>5 DEF NoView, WindowTypes
  <2>4. Messages' /\ Made'
    <3> HIDE DEF p, t, v
    <3>1. /\ Head(ui)[1] = p /\ latest' = <<p, opened[p]>> /\ view'[<<p, opened[p]>>] = "pending"
          /\ pc'[p] # "awake"
      BY <2>1, <2>3, <1>2, <1>5 DEF p
    <3>2. \A q \in Procs : q # p => pc'[q] = pc[q] /\ task[q] # "create"
      BY <2>1, <2>2
    <3> QED BY <3>1, <3>2, <1>0, <1>1, TakeKeeps
  <2>5. Numbered'
    <3>1. \A q \in Procs : \A k \in 1 .. MaxViews : k > opened[q] => view'[<<q, k>>] = "none"
      <4> SUFFICES ASSUME NEW q \in Procs, NEW k \in 1 .. MaxViews, k > opened[q]
                   PROVE  view'[<<q, k>>] = "none"
        OBVIOUS
      <4>1. <<q, k>> # v /\ <<q, k>> \in Views
        BY <1>2, <1>3, <1>5 DEF Views
      <4> QED BY <2>1, <4>1, <1>0 DEF Numbered, WindowTypes
    <3> QED BY <3>1, <1>0, <1>1 DEF Numbered
  <2> QED BY <2>4, <2>5 DEF Windows
<1>6. CASE t = "destroy"
  <2>1. RemoveView(p, v) /\ UNCHANGED latest
    BY <1>6 DEF RunTask
  <2>2. \A q \in Procs : task[q] # "create"
    BY <1>2, <1>6, OneIsThrough DEF Through, PastInit
  <2>3. \A q \in Procs : q # p => pc'[q] = pc[q]
    BY <2>1, <1>0 DEF RemoveView, Notify, Types
  <2>4. Messages' /\ Made'
    <3> HIDE DEF p, t, v
    <3>1. Head(ui)[1] = p /\ task[p] # "create"
      BY <1>2, <2>2 DEF p
    <3> QED BY <2>2, <2>3, <3>1, <1>0, <1>1, TakeKeeps
  <2>5. Numbered'
    <3>1. \A q \in Procs : \A k \in 1 .. MaxViews : k > opened[q] => view'[<<q, k>>] = "none"
      <4> SUFFICES ASSUME NEW q \in Procs, NEW k \in 1 .. MaxViews, k > opened[q]
                   PROVE  view'[<<q, k>>] = "none"
        OBVIOUS
      <4>1. <<q, k>> # NoView /\ k \in Nat
        BY <1>3, BoundAssumption DEF NoView
      <4>2. <<q, k>> # dt[p]
        <5>1. SUFFICES ASSUME <<q, k>> = dt[p] PROVE FALSE
          OBVIOUS
        <5>2. q = p /\ k <= opened[p]
          <6>1. dt[p] # NoView
            BY <5>1, <4>1
          <6>2. dt[p][1] = p /\ dt[p][2] <= opened[p]
            BY <6>1, <1>0, <1>2 DEF Numbered
          <6>3. dt[p][1] = q /\ dt[p][2] = k
            BY <5>1
          <6> QED BY <6>2, <6>3
        <5> QED BY <5>2, <4>1, <1>3
      <4>3. <<q, k>> \in Views
        BY DEF Views
      <4> QED BY <2>1, <4>2, <4>3, <1>0, <1>2, <1>6 DEF Numbered, WindowTypes, RemoveView
    <3> QED BY <3>1, <1>0, <1>1 DEF Numbered
  <2> QED BY <2>4, <2>5 DEF Windows
<1> QED BY <1>4, <1>5, <1>6 DEF RunTask

\* The system gives a view its surface or takes it.
LEMMA SystemKeepsWindows ==
  ASSUME IInv, WindowTypes, Windows, stray \subseteq {0}, stray' \subseteq {0}, System
  PROVE  Windows'
<1>0. Types /\ Messages /\ Made /\ Numbered
  BY DEF IInv, Windows
<1>1. PICK w \in Views : SurfaceCreated(w) \/ SurfaceTaken(w)
  BY DEF System
<1> DEFINE p == w[1]
<1>2. /\ UNCHANGED <<ui, latest, task, opened, dt>>
      /\ view[w] \in {"pending", "ready", "gone"}
      /\ \E s \in {"ready", "gone"} : view' = [view EXCEPT ![w] = s]
  BY <1>1 DEF SurfaceCreated, SurfaceTaken, native
<1>3. p \in Procs /\ \E k \in 1 .. MaxViews : w = <<p, k>> /\ w[2] = k
  BY DEF Views
<1>4. \A q \in Procs : <<q, opened[q]>> = w => q = p /\ opened[p] = w[2]
  OBVIOUS
<1>5. \A q \in Procs : pc'[q] # pc[q] =>
        /\ q = p /\ pc[q] = "asleep" /\ pc'[q] = "awake"
        /\ task[p] = "create" /\ w = <<p, opened[p]>> /\ view'[w] = "ready"
  <2>1. CASE SurfaceTaken(w)
    BY <2>1 DEF SurfaceTaken
  <2>2. CASE SurfaceCreated(w)
    <3> SUFFICES ASSUME NEW q \in Procs, pc'[q] # pc[q]
        PROVE /\ q = p /\ pc[q] = "asleep" /\ pc'[q] = "awake"
              /\ task[p] = "create" /\ w = <<p, opened[p]>> /\ view'[w] = "ready"
      OBVIOUS
    <3>1. Notify(p, task[p] = "create" /\ opened[p] = w[2]) /\ view'[w] = "ready"
      BY <2>2 DEF SurfaceCreated, WindowTypes
    <3>2. q = p /\ pc[q] = "asleep" /\ pc'[q] = "awake"
      BY <3>1, <1>0, <1>3 DEF Notify, Types
    <3>3. task[p] = "create" /\ opened[p] = w[2]
      <4>1. p # 0
        BY <1>3 DEF Procs
      <4> QED BY <3>1, <3>2, <4>1 DEF Notify
    <3> QED BY <3>1, <3>2, <3>3, <1>3
  <2> QED BY <1>1, <2>1, <2>2
<1>6. \A x \in Views : view'[x] = view[x] \/ (x = w /\ view'[x] \in {"ready", "gone"})
  BY <1>2 DEF WindowTypes
<1>7. \A q \in Procs : pc'[q] = "awake" /\ pc[q] # "awake" =>
        \A i \in DOMAIN ui : ui[i][1] # q
  <2> SUFFICES ASSUME NEW q \in Procs, pc'[q] = "awake", pc[q] # "awake",
                      NEW i \in DOMAIN ui, ui[i][1] = q
               PROVE  FALSE
    OBVIOUS
  <2>1. task[q] = "create" /\ w = <<q, opened[q]>>
    BY <1>5
  <2>2. view[w] = "none"
    BY <2>1, <1>0 DEF Messages, Own
  <2> QED BY <2>2, <1>2
<1>8. Messages'
  <2>1. \A i \in DOMAIN ui : ui[i][1] \in Procs /\ ui[i][3] \in Views \cup {NoView}
    BY DEF WindowTypes
  <2>2. \A i \in DOMAIN ui : pc'[ui[i][1]] = pc[ui[i][1]]
    BY <2>1, <1>5, <1>7
  <2>3. \A x : view[x] = "none" => view'[x] = view[x]
    BY <1>2 DEF WindowTypes
  <2> QED BY <2>2, <2>3, <1>0, <1>2 DEF Messages, Own
<1>9. Made'
  <2> SUFFICES ASSUME NEW q \in Procs, task[q] = "create"
      PROVE  /\ pc'[q] \in {"posted", "asleep"} =>
                  \/ \E i \in DOMAIN ui : ui[i][1] = q
                  \/ latest = <<q, opened[q]>>
                     /\ view'[<<q, opened[q]>>] \in {"pending", "ready", "gone"}
             /\ pc'[q] = "awake" =>
                  latest = <<q, opened[q]>> /\ view'[<<q, opened[q]>>] \in {"ready", "gone"}
    BY <1>2 DEF Made, Own
  <2>1. \A S \in {{"pending", "ready", "gone"}, {"ready", "gone"}} :
          view[<<q, opened[q]>>] \in S => view'[<<q, opened[q]>>] \in S
    BY <1>2 DEF WindowTypes
  <2>2. /\ pc[q] \in {"posted", "asleep"} =>
             \/ \E i \in DOMAIN ui : ui[i][1] = q
             \/ latest = <<q, opened[q]>>
                /\ view[<<q, opened[q]>>] \in {"pending", "ready", "gone"}
        /\ pc[q] = "awake" =>
             latest = <<q, opened[q]>> /\ view[<<q, opened[q]>>] \in {"ready", "gone"}
    BY <1>0 DEF Made, Own
  <2>3. CASE pc'[q] = pc[q]
    BY <2>1, <2>2, <2>3
  <2>4. CASE pc'[q] # pc[q]
    BY <2>2, <2>4, <1>5, <1>7
  <2> QED BY <2>3, <2>4
<1>10. Numbered'
  <2>1. \A q \in Procs : \A k \in 1 .. MaxViews : k > opened[q] => view'[<<q, k>>] = "none"
    BY <1>0, <1>2 DEF Numbered, WindowTypes
  <2> QED BY <2>1, <1>0, <1>2 DEF Numbered
<1> QED BY <1>8, <1>9, <1>10 DEF Windows

LEMMA Starts ==
  ASSUME Types, NotStarted, StartUp
  PROVE  /\ NotStarted'
         /\ \A q \in Procs : pc'[q] = pc[q] \/ (pc[q] = "none" /\ pc'[q] \in {"announce", "accept"})
<1>0. spawned \in Nat /\ \A q \in Procs : q \in Nat
  BY DEF NotStarted, Procs
<1>1. CASE StartServer
  <2>1. spawned = 0 /\ starter' # "boot"
    BY <1>1 DEF StartServer, NotStarted
  <2>2. \A q \in Procs : pc[q] = "none"
    <3>1. \A q \in Procs : q > spawned
      BY <2>1 DEF Procs
    <3> QED BY <3>1 DEF NotStarted
  <2>3. CASE UNCHANGED <<spawned, pc>>
    BY <2>1, <2>3 DEF NotStarted
  <2>4. CASE spawned' = 1 /\ pc' = [pc EXCEPT ![1] = "accept"]
    <3>1. \A q \in Procs : q > 1 => pc'[q] = "none"
      BY <2>2, <2>4 DEF Types
    <3>2. \A q \in Procs : pc'[q] = pc[q] \/ (pc[q] = "none" /\ pc'[q] = "accept")
      BY <2>2, <2>4 DEF Types
    <3> QED BY <2>1, <2>4, <3>1, <3>2 DEF NotStarted
  <2> QED BY <1>1, <2>3, <2>4 DEF StartServer, Go
<1>2. CASE Spawn
  <2>1. spawned' = spawned + 1 /\ starter' # "boot" /\ pc' = [pc EXCEPT ![spawned + 1] = "announce"]
    BY <1>2 DEF Spawn, Go
  <2>2. \A q \in Procs : q > spawned + 1 => q > spawned /\ q # spawned + 1
    BY <1>0
  <2>3. \A q \in Procs : q = spawned + 1 => q > spawned
    BY <1>0
  <2>4. \A q \in Procs : q > spawned' => pc'[q] = "none"
    BY <2>1, <2>2 DEF Types, NotStarted
  <2>5. \A q \in Procs : pc'[q] = pc[q] \/ (pc[q] = "none" /\ pc'[q] = "announce")
    BY <2>1, <2>3 DEF Types, NotStarted
  <2> QED BY <1>0, <2>1, <2>4, <2>5 DEF NotStarted
<1>3. CASE AwaitAnnouncement
  BY <1>3 DEF AwaitAnnouncement, NotStarted
<1> QED BY <1>1, <1>2, <1>3 DEF StartUp

\* What starts the server or ends the process moves no window, and a spurious wake-up
\* is stray.
LEMMA RestKeepsWindows ==
  ASSUME IInv, WindowTypes, Windows, NotStarted, stray \subseteq {0}, stray' \subseteq {0},
         \/ StartUp \/ Kill \/ UNCHANGED vars
         \/ \E p \in Procs \cup {0} : WakeSpuriously(p)
  PROVE  Windows'
<1>0. Types /\ Messages /\ Made /\ Numbered
  BY DEF IInv, Windows
<1>1. UNCHANGED <<ui, latest, view, opened, task, dt>>
  BY DEF StartUp, StartServer, Spawn, AwaitAnnouncement, Kill, WakeSpuriously, vars, uivars, native
<1>2. \A q \in Procs : pc'[q] = pc[q] \/ (pc[q] = "none" /\ pc'[q] \in {"announce", "accept"})
  <2>1. CASE StartUp
    BY <1>0, <2>1, Starts
  <2>2. CASE Kill \/ UNCHANGED vars
    BY <2>2 DEF Kill, vars
  <2>3. ASSUME NEW p \in Procs \cup {0}, WakeSpuriously(p)
        PROVE  \A q \in Procs : pc'[q] = pc[q]
    <3>1. p = 0
      BY <2>3 DEF WakeSpuriously
    <3> QED BY <2>3, <3>1 DEF WakeSpuriously
  <2> QED BY <2>1, <2>2, <2>3
<1>3. Messages' /\ Made' /\ Numbered'
  BY <1>0, <1>1, <1>2, StayKeeps DEF Numbered
<1> QED BY <1>3 DEF Windows


LEMMA StrayGrows == [Next]_vars => stray \subseteq stray'
<1> SUFFICES ASSUME [Next]_vars PROVE stray \subseteq stray'
  OBVIOUS
<1>1. CASE StartUp \/ Kill \/ UNCHANGED vars
  BY <1>1 DEF StartUp, StartServer, Spawn, AwaitAnnouncement, Kill, vars, waits
<1>2. CASE RunTask
  BY <1>2 DEF RunTask, InitOverlays, NewView, RemoveView, Notify
<1>3. CASE System
  BY <1>3 DEF System, SurfaceCreated, SurfaceTaken, Notify, waits
<1>4. ASSUME NEW p \in Procs, Processor(p) \/ Client(p) PROVE stray \subseteq stray'
  BY <1>4 DEF Processor, Client, Announce, Await, Resume, Teardown, CloseWindow, Accept,
     InitEgl, NewWindow, OpenWindow, HangUp, waits
<1>5. ASSUME NEW p \in Procs \cup {0}, WakeSpuriously(p) PROVE stray \subseteq stray'
  BY <1>5 DEF WakeSpuriously
<1> QED BY <1>1, <1>2, <1>3, <1>4, <1>5 DEF Next

\* Where a thread can go, seen from two places: one that does not run stays unless it is
\* started, and who was told goes on by itself.
LEMMA Moves ==
  ASSUME Types, WindowTypes, [Next]_vars, NEW q \in Procs, pc'[q] # pc[q]
  PROVE  /\ pc[q] = "none" => StartUp
         /\ pc[q] = "awake" => StartUp \/ Resume(q)
<1>1. CASE StartUp
  BY <1>1
<1>2. CASE Kill \/ UNCHANGED vars
  BY <1>2 DEF Kill, vars
<1>3. ASSUME NEW p, NEW own, Notify(p, own) PROVE pc[q] = "asleep"
  BY <1>3 DEF Notify, Types
<1>4. CASE RunTask
  BY <1>3, <1>4 DEF RunTask, InitOverlays, NewView, RemoveView
<1>5. CASE System
  BY <1>3, <1>5 DEF System, SurfaceCreated, SurfaceTaken
<1>6. ASSUME NEW p \in Procs, Processor(p) \/ Client(p)
      PROVE  q = p /\ (pc[p] \in {"announce", "posted", "loop", "accept"} \/ Resume(p))
  BY <1>6 DEF Types, Processor, Client, Announce, Await, Teardown, CloseWindow, Accept,
     InitEgl, NewWindow, OpenWindow, HangUp, Post, Go, Resume
<1>7. ASSUME NEW p \in Procs \cup {0}, WakeSpuriously(p) PROVE pc[q] = "asleep"
  BY <1>7 DEF WakeSpuriously, Go, Types
<1>8. ASSUME Resume(q) PROVE pc[q] # "none"
  BY <1>8 DEF Resume
<1> QED BY <1>1, <1>2, <1>4, <1>5, <1>6, <1>7, <1>8 DEF Next

LEMMA NotStartedKeeps ==
  ASSUME Types, WindowTypes, NotStarted, [Next]_vars PROVE NotStarted'
<1>1. CASE StartUp
  BY <1>1, Starts
<1>2. CASE ~StartUp
  <2>1. spawned' = spawned /\ (starter' = "boot" => starter = "boot")
    <3>1. CASE RunTask \/ System \/ Kill \/ UNCHANGED vars
      BY <3>1 DEF RunTask, System, SurfaceCreated, SurfaceTaken, Kill, vars, starting
    <3>2. ASSUME NEW p \in Procs, Processor(p) \/ Client(p)
          PROVE  spawned' = spawned /\ (starter' = "boot" => starter = "boot")
      BY <3>2 DEF Processor, Client, Announce, StarterWakes, Await, Resume, Teardown,
         CloseWindow, Accept, InitEgl, NewWindow, OpenWindow, HangUp, starting
    <3>3. ASSUME NEW p \in Procs \cup {0}, WakeSpuriously(p)
          PROVE  spawned' = spawned /\ (starter' = "boot" => starter = "boot")
      BY <3>3 DEF WakeSpuriously, StarterWakes
    <3> QED BY <1>2, <3>1, <3>2, <3>3 DEF Next
  <2>2. \A q \in Procs : pc[q] = "none" => pc'[q] = "none"
    BY <1>2, Moves
  <2> QED BY <2>1, <2>2 DEF NotStarted
<1> QED BY <1>1, <1>2

WInv == WindowTypes /\ Windows /\ NotStarted

LEMMA WindowsAlways == Spec => [](IInv /\ WInv)
<1>1. IInv /\ WInv /\ [Next]_vars => WInv'
  <2> SUFFICES ASSUME IInv, WInv, [Next]_vars PROVE WInv'
    OBVIOUS
  <2>0. WindowTypes /\ Windows /\ NotStarted /\ Types
    BY DEF WInv, IInv
  <2>1. WindowTypes' /\ NotStarted'
    BY <2>0, TypesOfWindows, NotStartedKeeps
  <2>2. CASE ~(stray' \subseteq {0})
    BY <2>1, <2>2 DEF Windows, WInv
  <2>3. CASE stray' \subseteq {0}
    <3>1. stray \subseteq {0}
      BY <2>3, StrayGrows
    <3>2. CASE RunTask \/ System
      BY <2>0, <2>1, <2>3, <3>1, <3>2, RunTaskKeepsWindows, SystemKeepsWindows DEF WInv
    <3>3. ASSUME NEW p \in Procs, Processor(p) \/ Client(p) PROVE WInv'
      BY <2>0, <2>1, <3>1, <3>3, ClientKeepsWindows DEF WInv
    <3>4. CASE \/ StartUp \/ Kill \/ UNCHANGED vars
               \/ \E p \in Procs \cup {0} : WakeSpuriously(p)
      BY <2>0, <2>1, <2>3, <3>1, <3>4, RestKeepsWindows DEF WInv
    <3> QED BY <3>2, <3>3, <3>4 DEF Next
  <2> QED BY <2>2, <2>3
<1>2. Init => WInv
  BY WindowsInit DEF WInv, Init, NotStarted
<1> QED BY <1>2, <1>1, InvariantHolds, PTL DEF Spec

\* CreateSurface returns the window that it made, and it has had its surface, for any
\* number of threads and windows, as long as no thread was woken by anything else than
\* its own task: of views that were opened, lost and closed before it takes none.
THEOREM OwnWindowReturned == Spec => WindowIsOwn
<1>1. ASSUME IInv, WInv, [Next]_vars
      PROVE  \A p \in Procs :
               /\ pc[p] = "awake" /\ task[p] = "create" /\ pc'[p] # "awake"
               /\ stray \subseteq {0}
               => /\ latest = <<p, opened[p]>> /\ view[latest] \in {"ready", "gone"}
                  /\ ~Fake(p) => dt'[p] = latest
  <2> SUFFICES ASSUME NEW p \in Procs, pc[p] = "awake", task[p] = "create", pc'[p] # "awake",
                      stray \subseteq {0}
               PROVE  /\ latest = <<p, opened[p]>> /\ view[latest] \in {"ready", "gone"}
                      /\ ~Fake(p) => dt'[p] = latest
    OBVIOUS
  <2>1. latest = <<p, opened[p]>> /\ view[<<p, opened[p]>>] \in {"ready", "gone"}
    BY <1>1 DEF WInv, Windows, Made, Own
  <2>2. Resume(p)
    <3>1. Types /\ WindowTypes /\ NotStarted
      BY <1>1 DEF IInv, WInv
    <3>2. StartUp => pc'[p] = pc[p]
      BY <3>1, Starts
    <3> QED BY <1>1, <3>1, <3>2, Moves
  <2>3. ~Fake(p) => dt'[p] = latest
    BY <1>1, <2>2 DEF Resume, WInv, WindowTypes
  <2> QED BY <2>1, <2>3
<1>2. IInv /\ WInv /\ [Next]_vars =>
        [\A p \in Procs :
           /\ pc[p] = "awake" /\ task[p] = "create" /\ pc'[p] # "awake"
           /\ stray \subseteq {0}
           => /\ latest = <<p, opened[p]>> /\ view[latest] \in {"ready", "gone"}
              /\ ~Fake(p) => dt'[p] = latest]_vars
  BY <1>1
<1> QED BY <1>2, WindowsAlways, PTL DEF Spec, WindowIsOwn
=============================================================================
