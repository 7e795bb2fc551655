------------------------- MODULE VtestServerProofs -------------------------
(***************************************************************************)
(* The safety properties of the renderer loops for any number of client    *)
(* threads and any number of fences.                                       *)
(***************************************************************************)
EXTENDS VtestServer, SequenceTheorems, TLAPS

USE BoundAssumption

\* The library belongs to a client that initialised it, and such a client has
\* it as long as it serves and nobody tears it down.
Owner ==
  /\ cookie # 0 => Serving(cookie) /\ made[cookie] /\ cookie \notin orphaned
  /\ \A p \in Procs : made[p] /\ Serving(p) /\ p \notin orphaned => cookie = p
  /\ \A p \in orphaned : inited[p] \/ pc[p] = "ended"

\* A client in a command has initialised the library and has a fence to ask for.
Opened ==
  \A p \in Procs :
    /\ made[p] => inited[p]
    /\ inited[p] /\ pc[p] \in Loop \ {"fail"} => made[p]
    /\ pc[p] \in {"test", "wait", "idle", "busy"} => inited[p]
    /\ pc[p] \in {"test", "wait"} => fence_id[p] > 1
    /\ inited[p] => pc[p] \in Loop \cup {"crashed"}

\* Numbers of contexts are given in turn while the threads come one by one.
Numbers ==
  /\ \A p \in Procs : pc[p] \in {"entering", "numbered"} => id[p] = 0
  /\ \A p \in Procs : pc[p] \in Loop => id[p] # 0
  /\ \A p \in Procs : pc[p] = "numbered" => ctx_id # 0
  /\ ~raced =>
       /\ \A p \in Procs : id[p] <= ctx_id
       /\ \A p, q \in Procs : pc[p] = "numbered" => id[q] < ctx_id
       /\ \A p, q \in Procs : pc[p] = "numbered" /\ pc[q] = "numbered" => p = q

\* The flags are those of the one client that has the library.
FlagsOfClient ==
  orphaned = {} => \A p \in Procs : pc[p] = "test" => flags = asked[p]

\* The fences that have not retired were asked for by who has the library.
Listed ==
  /\ Range(gl_queue) \subseteq Range(fence_list)
  /\ \A e \in Range(fence_list) :
       /\ e[2] # 0 /\ e[2] < fence_id[e[1]]
       /\ e[2] = fence_id[e[1]] - 1 => fenced[e[1]]
       /\ cookie \in strayed \/ e[1] = cookie

\* The last fence a client heard of was its own, and GL has come to it.
ReportedTo(p, last) ==
  /\ last < fence_id[p]
  /\ last # 0 => <<p, last>> \notin Range(gl_queue)
  /\ last # 0 /\ last = fence_id[p] - 1 => fenced[p]
Reported == \A p \in Procs \ strayed : ReportedTo(p, last_fence[p])

\* A client that is alone gets no fences of others, and none of its own is
\* reported while it asks.
Alone(p) == \A q \in Procs \ {p} : id[q] = 0
AloneAsks ==
  \A p \in Procs : Alone(p) =>
    /\ p \notin strayed
    /\ pc[p] = "test" => ~Reached(p) /\ flags = asked[p]
    /\ pc[p] = "wait" => asked[p] = "wait"

IInv ==
  /\ TypeOK /\ Owner /\ Opened /\ Numbers /\ ContextsApart /\ FlagsOfClient
  /\ Listed /\ Reported /\ AloneAsks /\ CrashOnlyUninitialised

----------------------------------------------------------------------------
(* Sequences and what they hold. *)

LEMMA Held ==
  ASSUME NEW S, NEW s \in Seq(S)
  PROVE  /\ Len(s) \in Nat
         /\ Range(s) = {s[i] : i \in 1 .. Len(s)}
         /\ Range(s) \subseteq S
<1>1. Len(s) \in Nat /\ DOMAIN s = 1 .. Len(s)
  BY ONLY LenProperties, s \in Seq(S)
<1>2. \A i \in 1 .. Len(s) : s[i] \in S
  BY ONLY ElementOfSeq, s \in Seq(S)
<1> QED
  BY ONLY <1>1, <1>2 DEF Range

LEMMA Dropped ==
  ASSUME NEW S, NEW s \in Seq(S), NEW n \in 0 .. Len(s)
  PROVE  /\ SubSeq(s, n + 1, Len(s)) \in Seq(S)
         /\ Range(SubSeq(s, n + 1, Len(s))) = {s[i] : i \in n + 1 .. Len(s)}
         /\ n = Len(s) => SubSeq(s, n + 1, Len(s)) = <<>>
<1> DEFINE d == SubSeq(s, n + 1, Len(s))
<1> HIDE DEF d
<1>0. d = SubSeq(s, n + 1, Len(s))
  BY DEF d
<1>1. Len(s) \in Nat /\ n \in Nat /\ n <= Len(s) /\ n + 1 \in Int /\ Len(s) \in Int
  BY ONLY Held, s \in Seq(S), n \in 0 .. Len(s)
<1>2. \A i \in n + 1 .. Len(s) : s[i] \in S
  BY ONLY ElementOfSeq, s \in Seq(S), <1>1
<1>3. /\ d \in Seq(S)
      /\ Len(d) = IF n + 1 <= Len(s) THEN Len(s) - (n + 1) + 1 ELSE 0
      /\ \A i \in 1 .. Len(s) - (n + 1) + 1 : d[i] = s[n + 1 + i - 1]
  BY ONLY SubSeqProperties, <1>0, <1>1, <1>2
<1>4. Len(d) = Len(s) - n
  BY ONLY <1>1, <1>3
<1>5. \A i \in 1 .. Len(d) : n + i \in n + 1 .. Len(s) /\ d[i] = s[n + i]
  BY ONLY <1>1, <1>3, <1>4
<1>6. \A j \in n + 1 .. Len(s) : j - n \in 1 .. Len(d) /\ n + (j - n) = j
  BY ONLY <1>1, <1>4
<1>7. \A j \in n + 1 .. Len(s) : d[j - n] = s[j]
  BY ONLY <1>5, <1>6
<1>8. Range(d) = {d[i] : i \in 1 .. Len(d)}
  BY ONLY Held, <1>3
<1>9. {d[i] : i \in 1 .. Len(d)} = {s[i] : i \in n + 1 .. Len(s)}
  <2>1. ASSUME NEW i \in 1 .. Len(d) PROVE d[i] \in {s[j] : j \in n + 1 .. Len(s)}
    BY ONLY <1>5, <2>1
  <2>2. ASSUME NEW j \in n + 1 .. Len(s) PROVE s[j] \in {d[i] : i \in 1 .. Len(d)}
    BY ONLY <1>6, <1>7, <2>2
  <2> QED
    BY ONLY <2>1, <2>2
<1>10. n = Len(s) => d = <<>>
  BY ONLY <1>1, SubSeqEmpty, <1>0
<1> QED
  BY ONLY <1>0, <1>3, <1>8, <1>9, <1>10

LEMMA Appended ==
  ASSUME NEW S, NEW s \in Seq(S), NEW e \in S
  PROVE  /\ Append(s, e) \in Seq(S)
         /\ Range(Append(s, e)) = Range(s) \cup {e}
<1>1. /\ Append(s, e) \in Seq(S)
      /\ Len(Append(s, e)) = Len(s) + 1
      /\ \A i \in 1 .. Len(s) : Append(s, e)[i] = s[i]
      /\ Append(s, e)[Len(s) + 1] = e
  BY ONLY AppendProperties, s \in Seq(S), e \in S
<1>2. /\ Len(s) \in Nat
      /\ Range(s) = {s[i] : i \in 1 .. Len(s)}
      /\ Range(Append(s, e)) = {Append(s, e)[i] : i \in 1 .. Len(s) + 1}
  BY ONLY <1>1, Held, s \in Seq(S)
<1>3. 1 .. Len(s) + 1 = (1 .. Len(s)) \cup {Len(s) + 1}
  BY ONLY <1>2
<1> QED
  BY ONLY <1>1, <1>2, <1>3

LEMMA Shortened ==
  ASSUME NEW S, NEW s \in Seq(S), s # <<>>
  PROVE  Tail(s) \in Seq(S) /\ Range(Tail(s)) \subseteq Range(s)
<1>1. /\ Tail(s) \in Seq(S)
      /\ Len(Tail(s)) = Len(s) - 1
      /\ \A i \in 1 .. Len(Tail(s)) : Tail(s)[i] = s[i + 1]
  BY ONLY HeadTailProperties, s \in Seq(S), s # <<>>
<1>2. /\ Len(s) \in Nat
      /\ Range(s) = {s[i] : i \in 1 .. Len(s)}
      /\ Range(Tail(s)) = {Tail(s)[i] : i \in 1 .. Len(Tail(s))}
  BY ONLY <1>1, Held, s \in Seq(S)
<1>3. \A i \in 1 .. Len(Tail(s)) : i + 1 \in 1 .. Len(s)
  BY ONLY <1>1, <1>2
<1> QED
  BY ONLY <1>1, <1>2, <1>3

----------------------------------------------------------------------------
\* What a poll that takes n fences leaves and reports.
LEMMA Polling ==
  ASSUME TypeOK, Owner, Listed, Reported,
         NEW n \in 0 .. Len(fence_list), Retires(n)
  PROVE  LET left == SubSeq(fence_list, n + 1, Len(fence_list))
             last == IF n = 0 THEN last_fence
                     ELSE [last_fence EXCEPT ![cookie] = fence_list[n][2]]
         IN
         /\ left \in Seq(Procs \X Nat)
         /\ Range(left) \subseteq Range(fence_list)
         /\ Range(gl_queue) \subseteq Range(left)
         /\ cookie = 0 => left = <<>>
         /\ last \in [Procs -> Nat]
         /\ \A p \in Procs \ {cookie} : last[p] = last_fence[p]
         /\ \A p \in Procs \ strayed : ReportedTo(p, last[p])
<1> DEFINE left == SubSeq(fence_list, n + 1, Len(fence_list))
           last == IF n = 0 THEN last_fence
                   ELSE [last_fence EXCEPT ![cookie] = fence_list[n][2]]
<1> HIDE DEF left, last
<1>l. /\ left = SubSeq(fence_list, n + 1, Len(fence_list))
      /\ last = IF n = 0 THEN last_fence
                ELSE [last_fence EXCEPT ![cookie] = fence_list[n][2]]
  BY DEF left, last
<1>0. fence_list \in Seq(Procs \X Nat) /\ last_fence \in [Procs -> Nat] /\ cookie \in Procs \cup {0}
  BY DEF TypeOK
<1>1. /\ Len(fence_list) \in Nat
      /\ Range(fence_list) = {fence_list[i] : i \in 1 .. Len(fence_list)}
      /\ Range(fence_list) \subseteq Procs \X Nat
  BY ONLY Held, <1>0
<1>2. /\ left \in Seq(Procs \X Nat)
      /\ Range(left) = {fence_list[i] : i \in n + 1 .. Len(fence_list)}
      /\ n = Len(fence_list) => left = <<>>
  BY ONLY Dropped, <1>0, n \in 0 .. Len(fence_list), <1>l
<1>4. Range(left) \subseteq Range(fence_list)
  BY ONLY <1>1, <1>2, n \in 0 .. Len(fence_list)
<1>5. ASSUME NEW e \in Range(gl_queue) PROVE e \in Range(left)
  <2>1. PICK i \in 1 .. Len(fence_list) : e = fence_list[i]
    BY <1>1, <1>5 DEF Listed
  <2>2. i > n
    BY <1>1, <1>5, <2>1 DEF Retires
  <2>3. i \in n + 1 .. Len(fence_list)
    BY <1>1, <2>1, <2>2
  <2> QED
    BY <1>2, <2>1, <2>3
<1>6. n # 0 => cookie \in Procs /\ fence_list[n] \in Procs \X Nat /\ fence_list[n] \in Range(fence_list)
  <2>1. n # 0 => n \in 1 .. Len(fence_list)
    BY ONLY <1>1, n \in 0 .. Len(fence_list)
  <2>2. n # 0 => fence_list[n] \in Procs \X Nat /\ fence_list[n] \in Range(fence_list)
    BY <2>1, <1>1
  <2>3. fence_list = <<>> => Len(fence_list) = 0
    OBVIOUS
  <2>4. n # 0 => cookie # 0
    BY <2>1, <2>3 DEF TypeOK
  <2> QED
    BY <1>0, <2>2, <2>4
<1>7. last \in [Procs -> Nat] /\ \A p \in Procs \ {cookie} : last[p] = last_fence[p]
  BY <1>0, <1>6, <1>l
<1>8. cookie = 0 => left = <<>>
  <2>1. cookie = 0 => Len(fence_list) = 0
    BY DEF TypeOK
  <2> QED
    BY <1>2, <2>1
<1>9. ASSUME NEW p \in Procs \ strayed PROVE ReportedTo(p, last[p])
  <2>1. CASE n = 0 \/ p # cookie
    BY <1>0, <1>7, <1>9, <1>l, <2>1 DEF Reported
  <2>2. CASE n # 0 /\ p = cookie
    <3>1. last[p] = fence_list[n][2]
      BY <1>0, <1>6, <1>l, <2>2
    <3>2. fence_list[n][1] = p
      BY <1>6, <1>9, <2>2 DEF Listed
    <3>3. fence_list[n] = <<p, last[p]>>
      BY <1>6, <2>2, <3>1, <3>2
    <3>4. n \in 1 .. n
      BY <1>1, <2>2
    <3>5. <<p, last[p]>> \notin Range(gl_queue)
      BY <3>3, <3>4 DEF Retires
    <3>6. last[p] < fence_id[p] /\ (last[p] = fence_id[p] - 1 => fenced[p])
      BY <1>6, <2>2, <3>1, <3>2 DEF Listed
    <3> QED
      BY <3>5, <3>6 DEF ReportedTo
  <2> QED
    BY <2>1, <2>2
<1> QED
  BY <1>2, <1>4, <1>5, <1>7, <1>8, <1>9 DEF left, last

\* A step of which the fences know only that some retire.
LEMMA PollKeeps ==
  ASSUME TypeOK, Owner, Listed, Reported, Poll,
         UNCHANGED <<cookie, gl_queue, fence_id, fenced, strayed>>
  PROVE  /\ fence_list' \in Seq(Procs \X Nat) /\ last_fence' \in [Procs -> Nat]
         /\ cookie = 0 => fence_list' = <<>>
         /\ Listed' /\ Reported'
<1>1. PICK n \in 0 .. Len(fence_list) :
        /\ Retires(n)
        /\ fence_list' = SubSeq(fence_list, n + 1, Len(fence_list))
        /\ last_fence' = IF n = 0 THEN last_fence
                         ELSE [last_fence EXCEPT ![cookie] = fence_list[n][2]]
  BY DEF Poll
<1>2. /\ fence_list' \in Seq(Procs \X Nat)
      /\ Range(fence_list') \subseteq Range(fence_list)
      /\ Range(gl_queue) \subseteq Range(fence_list')
      /\ cookie = 0 => fence_list' = <<>>
      /\ last_fence' \in [Procs -> Nat]
      /\ \A p \in Procs \ strayed : ReportedTo(p, last_fence'[p])
  BY ONLY Polling, <1>1, TypeOK, Owner, Listed, Reported
<1>3. Listed'
  BY <1>2 DEF Listed
<1>4. Reported'
  BY <1>2 DEF Reported, ReportedTo
<1> QED
  BY <1>2, <1>3, <1>4

\* A step that leaves the fences as they are.
LEMMA FencesStay ==
  ASSUME Listed, Reported,
         UNCHANGED <<cookie, fencing, listing, gl_queue, strayed>>
  PROVE  Listed' /\ Reported'
BY DEF Listed, Reported, ReportedTo, fencing, listing

\* Who is alone is the only one that serves.
LEMMA AloneServes ==
  ASSUME IInv, NEW p \in Procs, NEW q \in Procs, Serving(p), Alone(q)
  PROVE  p = q
BY DEF IInv, Numbers, Alone, Serving

----------------------------------------------------------------------------
(* Every step keeps the invariant. *)

LEMMA InitHolds == Init => IInv
<1> SUFFICES ASSUME Init PROVE IInv
  OBVIOUS
<1>1. Range(fence_list) = {} /\ Range(gl_queue) = {}
  BY DEF Init, Range
<1>2. <<>> \in Seq(Procs \X Nat)
  OBVIOUS
<1>3. TypeOK
  <2>1. 0 \in Nat /\ 1 \in Nat \ {0}
    OBVIOUS
  <2> QED
    BY <1>2, <2>1 DEF Init, TypeOK, Pcs, Loop
<1>4. Owner /\ Opened /\ Numbers /\ ContextsApart /\ FlagsOfClient /\ CrashOnlyUninitialised
  BY DEF Init, Owner, Opened, Numbers, ContextsApart, FlagsOfClient, CrashOnlyUninitialised, Loop, Procs
<1>5. Listed /\ Reported /\ AloneAsks
  BY <1>1 DEF Init, Listed, Reported, ReportedTo, AloneAsks
<1> QED
  BY <1>3, <1>4, <1>5 DEF IInv

LEMMA NumberKeeps ==
  ASSUME IInv, NEW p \in Procs, Number(p) PROVE IInv'
<1> USE DEF IInv, Number, Go, opening, fencing, listing, libvars
<1>1. TypeOK'
  BY SMTT(30) DEF TypeOK, Pcs
<1>g. pc \in [Procs -> Pcs] /\ id \in [Procs -> Nat] /\ ctx_id \in Nat
  BY DEF TypeOK
<1>2. Owner'
  BY <1>g DEF Owner, Serving, Loop, Opened, TypeOK
<1>3. Opened'
  BY <1>g DEF Opened, Loop
<1>4. Numbers' /\ ContextsApart'
  <2>1. /\ \A q \in Procs : pc'[q] \in {"entering", "numbered"} => id[q] = 0
        /\ \A q \in Procs : pc'[q] \in Loop => id[q] # 0
    BY <1>g DEF Numbers, Loop
  <2>2. /\ ctx_id' # 0
        /\ ~raced' => ~raced /\ \A q \in Procs : pc[q] # "numbered"
    <3>1. ctx_id' # 0
      BY <1>g
    <3>2. raced' = (raced \/ \E q \in Procs : pc[q] = "numbered")
      BY Zenon
    <3> QED
      BY ONLY <3>1, <3>2
  <2>3. ~raced' => \A q \in Procs : id[q] <= ctx_id' /\ id[q] < ctx_id'
    BY <1>g, <2>2 DEF Numbers
  <2>4. ~raced' => \A q, r \in Procs : pc'[q] = "numbered" /\ pc'[r] = "numbered" => q = r
    BY <1>g, <2>2
  <2>5. Numbers'
    BY <2>1, <2>2, <2>3, <2>4 DEF Numbers
  <2>6. ContextsApart'
    BY <2>2 DEF ContextsApart
  <2> QED
    BY <2>5, <2>6
<1>5. FlagsOfClient' /\ AloneAsks' /\ CrashOnlyUninitialised'
  BY <1>g DEF FlagsOfClient, AloneAsks, Alone, Reached, CrashOnlyUninitialised
<1>6. Listed' /\ Reported'
  BY FencesStay
<1> QED
  BY <1>1, <1>2, <1>3, <1>4, <1>5, <1>6

LEMMA CreateRendererKeeps ==
  ASSUME IInv, NEW p \in Procs, CreateRenderer(p) PROVE IInv'
<1> USE DEF IInv, CreateRenderer, Go, opening, fencing, listing, libvars
<1>1. TypeOK'
  BY DEF TypeOK, Pcs, Loop
<1>g. pc \in [Procs -> Pcs] /\ id \in [Procs -> Nat] /\ ctx_id \in Nat
  BY DEF TypeOK
<1>2. Owner'
  BY <1>g DEF Owner, Serving, Loop, Opened, TypeOK
<1>3. Opened'
  BY <1>g DEF Opened, Loop
<1>4. Numbers'
  BY <1>g DEF Numbers, Loop
<1>5. ContextsApart'
  BY <1>g DEF Numbers, ContextsApart
<1>6. FlagsOfClient' /\ CrashOnlyUninitialised'
  BY <1>g DEF FlagsOfClient, CrashOnlyUninitialised
<1>7. AloneAsks'
  BY <1>g DEF AloneAsks, Alone, Reached, Numbers
<1>8. Listed' /\ Reported'
  BY FencesStay
<1> QED
  BY <1>1, <1>2, <1>3, <1>4, <1>5, <1>6, <1>7, <1>8

\* A step of one client inside its loop that leaves the library, the numbers
\* and the flags alone.
LEMMA LoopStepKeeps ==
  ASSUME IInv, NEW p \in Procs, Serving(p),
         NEW to \in {"loop", "wait", "idle", "busy", "fail"}, Go(p, to),
         pc[p] = "loop" => to \in {"loop", "fail"},
         to # "fail" => inited[p],
         pc[p] = "fail" => to = "fail",
         to = "wait" => fence_id[p] > 1 /\ (Alone(p) => asked[p] = "wait"),
         UNCHANGED <<idvars, opening, fence_id, fenced, gl_queue, libvars, flags, strayed>>,
         asked' \in [Procs -> {"wait", "poll"}],
         \A q \in Procs \ {p} : asked'[q] = asked[q],
         to = "wait" => asked'[p] = asked[p],
         last_fence' \in [Procs -> Nat], fence_list' \in Seq(Procs \X Nat),
         cookie = 0 => fence_list' = <<>>,
         Listed', Reported'
  PROVE  IInv'
<1> USE DEF IInv, Go, idvars, opening, libvars
<1>g. pc \in [Procs -> Pcs] /\ id \in [Procs -> Nat] /\ asked \in [Procs -> {"wait", "poll"}]
  BY DEF TypeOK
<1>h. Serving(p)' /\ pc'[p] = to /\ \A q \in Procs \ {p} : pc'[q] = pc[q]
  BY <1>g DEF Serving, Loop
<1>1. TypeOK'
  BY DEF TypeOK, Pcs, Loop
<1>2. Owner'
  <2>1. pc[p] # "ended" /\ pc'[p] # "ended"
    BY <1>h DEF Serving, Loop
  <2>2. \A q \in Procs : Serving(q)' <=> Serving(q)
    BY <1>g, <1>h DEF Serving
  <2> QED
    BY <1>h, <2>1, <2>2, ZenonT(30) DEF Owner, TypeOK
<1>3. Opened'
  <2>1. inited[p] /\ pc[p] # "fail" => made[p]
    BY DEF Opened, Serving, Loop
  <2> QED
    BY <1>g, <1>h, <2>1 DEF Opened, Loop
<1>4. Numbers' /\ ContextsApart'
  <2>1. \A q \in Procs : /\ pc'[q] \in {"entering", "numbered"} => pc'[q] = pc[q]
                         /\ pc'[q] \in Loop => pc[q] \in Loop
    BY <1>g, <1>h DEF Serving, Loop
  <2>2. Numbers'
    BY <2>1 DEF Numbers
  <2> QED
    BY <2>2 DEF ContextsApart
<1>5. FlagsOfClient'
  BY <1>g, <1>h DEF FlagsOfClient
<1>6. AloneAsks'
  <2>1. \A q \in Procs : Alone(q)' <=> Alone(q)
    BY DEF Alone
  <2>2. \A q \in Procs : Alone(q) => q = p
    BY AloneServes
  <2> QED
    BY <1>h, <2>1, <2>2 DEF AloneAsks
<1>7. CrashOnlyUninitialised'
  BY <1>h DEF CrashOnlyUninitialised
<1> QED
  BY <1>1, <1>2, <1>3, <1>4, <1>5, <1>6, <1>7

LEMMA OpenBusyKeeps ==
  ASSUME IInv, NEW p \in Procs, OpenBusy(p) PROVE IInv'
<1> USE DEF IInv, OpenBusy, Go, idvars, fencing, libvars
<1>1. /\ fence_list' \in Seq(Procs \X Nat) /\ last_fence' \in [Procs -> Nat]
      /\ cookie = 0 => fence_list' = <<>>
      /\ Listed' /\ Reported'
  BY PollKeeps
<1>g. pc \in [Procs -> Pcs] /\ id \in [Procs -> Nat] /\ inited \in [Procs -> BOOLEAN]
  BY DEF TypeOK
<1>h. Serving(p) /\ Serving(p)' /\ pc'[p] = "fail" /\ \A q \in Procs \ {p} : pc'[q] = pc[q]
  BY <1>g DEF Serving, Loop
<1>2. TypeOK'
  BY <1>1 DEF TypeOK, Pcs, Loop
<1>3. Owner'
  BY <1>g, <1>h DEF Owner, Serving, TypeOK
<1>4. Opened'
  BY <1>g, <1>h DEF Opened, Loop
<1>5. Numbers' /\ ContextsApart'
  BY <1>g, <1>h DEF Numbers, ContextsApart, Serving, Loop
<1>6. FlagsOfClient' /\ CrashOnlyUninitialised'
  BY <1>g, <1>h DEF FlagsOfClient, CrashOnlyUninitialised
<1>7. AloneAsks'
  <2>1. \A q \in Procs : Alone(q) => q = p
    BY <1>h, AloneServes
  <2> QED
    BY <1>h, <2>1 DEF AloneAsks, Alone
<1> QED
  BY <1>1, <1>2, <1>3, <1>4, <1>5, <1>6, <1>7

LEMMA OpenFailsKeeps ==
  ASSUME IInv, NEW p \in Procs, OpenFails(p) PROVE IInv'
<1> USE DEF IInv, OpenFails, Go, idvars, fencing, listing, libvars
<1>1. Listed' /\ Reported'
  BY FencesStay
<1>g. pc \in [Procs -> Pcs] /\ id \in [Procs -> Nat] /\ inited \in [Procs -> BOOLEAN]
  BY DEF TypeOK
<1>h. Serving(p) /\ Serving(p)' /\ pc'[p] = "fail" /\ \A q \in Procs \ {p} : pc'[q] = pc[q]
  BY <1>g DEF Serving, Loop
<1>2. TypeOK'
  BY DEF TypeOK, Pcs, Loop
<1>3. Owner'
  BY <1>g, <1>h DEF Owner, Serving, TypeOK
<1>4. Opened'
  BY <1>g, <1>h DEF Opened, Loop
<1>5. Numbers' /\ ContextsApart'
  BY <1>g, <1>h DEF Numbers, ContextsApart, Serving, Loop
<1>6. FlagsOfClient' /\ CrashOnlyUninitialised'
  BY <1>g, <1>h DEF FlagsOfClient, CrashOnlyUninitialised
<1>7. AloneAsks'
  <2>1. \A q \in Procs : Alone(q) => q = p
    BY <1>h, AloneServes
  <2> QED
    BY <1>h, <2>1 DEF AloneAsks, Alone
<1> QED
  BY <1>1, <1>2, <1>3, <1>4, <1>5, <1>6, <1>7

LEMMA OpenKeeps ==
  ASSUME IInv, NEW p \in Procs, Open(p) PROVE IInv'
<1> USE DEF IInv, Open, Go, idvars, fencing, listing
<1>g. pc \in [Procs -> Pcs] /\ id \in [Procs -> Nat]
      /\ inited \in [Procs -> BOOLEAN] /\ made \in [Procs -> BOOLEAN]
  BY DEF TypeOK
<1>h. /\ Serving(p) /\ Serving(p)' /\ pc[p] = "loop"
      /\ pc'[p] \in {"loop", "fail"} /\ \A q \in Procs \ {p} : pc'[q] = pc[q]
  BY <1>g DEF Serving, Loop
<1>0. fence_list = <<>> /\ Range(fence_list) = {}
  BY DEF TypeOK, Range
<1>1. Listed' /\ Reported'
  BY <1>0 DEF Listed, Reported, ReportedTo
<1>2. TypeOK'
  BY <1>0 DEF TypeOK, Pcs, Loop
<1>3. Owner'
  <2>1. p \notin orphaned
    BY <1>h DEF Owner
  <2>2. \A q \in Procs \ {p} : ~(made[q] /\ Serving(q) /\ q \notin orphaned)
    BY <1>g DEF Owner, Procs
  <2>3. \A q \in Procs \ {p} : made'[q] = made[q] /\ inited'[q] = inited[q]
    BY <1>g
  <2>4. made'[p] /\ inited'[p]
    BY <1>g
  <2> QED
    BY <1>h, <2>1, <2>2, <2>3, <2>4 DEF Owner, Serving, TypeOK
<1>4. Opened'
  BY <1>g, <1>h DEF Opened, Loop
<1>5. Numbers' /\ ContextsApart'
  BY <1>g, <1>h DEF Numbers, ContextsApart, Serving, Loop
<1>6. FlagsOfClient' /\ CrashOnlyUninitialised'
  BY <1>g, <1>h DEF FlagsOfClient, CrashOnlyUninitialised
<1>7. AloneAsks'
  <2>1. \A q \in Procs : Alone(q) => q = p
    BY <1>h, AloneServes
  <2> QED
    BY <1>h, <2>1 DEF AloneAsks, Alone
<1> QED
  BY <1>1, <1>2, <1>3, <1>4, <1>5, <1>6, <1>7

LEMMA LeaveLoopKeeps ==
  ASSUME IInv, NEW p \in Procs, LeaveLoop(p) PROVE IInv'
<1> USE DEF IInv, LeaveLoop, fencing, listing, libvars
<1>1. Serving(p)
  BY DEF Serving, Loop
<1>2. Listed' /\ Reported'
  BY FencesStay
<1>3. TypeOK /\ Go(p, "fail")
  OBVIOUS
<1> QED
  BY <1>1, <1>2, <1>3, LoopStepKeeps DEF TypeOK

LEMMA CrashKeeps ==
  ASSUME IInv, NEW p \in Procs, Serving(p), Crash(p) PROVE IInv'
<1> USE DEF IInv, Crash, Go, idvars, opening, fencing, listing, libvars
<1>g. pc \in [Procs -> Pcs] /\ id \in [Procs -> Nat]
  BY DEF TypeOK
<1>h. pc'[p] = "crashed" /\ \A q \in Procs \ {p} : pc'[q] = pc[q]
  BY <1>g
<1>1. TypeOK'
  BY DEF TypeOK, Pcs
<1>2. Owner'
  BY <1>g, <1>h DEF Owner, Serving, TypeOK, Loop
<1>3. Opened'
  BY <1>g, <1>h DEF Opened, Loop
<1>4. Numbers' /\ ContextsApart'
  BY <1>g, <1>h DEF Numbers, ContextsApart, Loop
<1>5. FlagsOfClient'
  BY <1>g, <1>h DEF FlagsOfClient
<1>6. AloneAsks'
  <2>1. \A q \in Procs : Alone(q) => q = p
    BY AloneServes
  <2> QED
    BY <1>h, <2>1 DEF AloneAsks, Alone
<1>7. CrashOnlyUninitialised'
  <2>1. made[p] => p \in orphaned
    BY DEF Owner, Procs
  <2> QED
    BY <1>h, <2>1 DEF CrashOnlyUninitialised
<1>8. Listed' /\ Reported'
  BY FencesStay
<1> QED
  BY <1>1, <1>2, <1>3, <1>4, <1>5, <1>6, <1>7, <1>8

LEMMA CommandKeeps ==
  ASSUME IInv, NEW p \in Procs, Command(p) PROVE IInv'
<1> USE DEF IInv
<1>1. Serving(p)
  BY DEF Command, Serving, Loop
<1>2. CASE Crash(p)
  BY <1>1, <1>2, CrashKeeps
<1>3. ASSUME NEW to \in {"loop", "fail"}, Poll, Go(p, to),
             pc[p] = "loop", inited[p],
             UNCHANGED <<idvars, opening, fencing, gl_queue, libvars, flags, strayed>>
      PROVE  IInv'
  <2>1. /\ fence_list' \in Seq(Procs \X Nat) /\ last_fence' \in [Procs -> Nat]
        /\ cookie = 0 => fence_list' = <<>>
        /\ Listed' /\ Reported'
    BY <1>3, PollKeeps DEF fencing, libvars
  <2>2. asked' = asked /\ asked \in [Procs -> {"wait", "poll"}]
    BY <1>3 DEF fencing, TypeOK
  <2> QED
    BY <1>1, <1>3, <2>1, <2>2, LoopStepKeeps DEF fencing
<1> QED
  BY <1>2, <1>3 DEF Command

LEMMA TestKeeps ==
  ASSUME IInv, NEW p \in Procs, Test(p) PROVE IInv'
<1> USE DEF IInv, Test, fencing, listing, libvars
<1>1. Serving(p) /\ inited[p] /\ fence_id[p] > 1
  BY DEF Serving, Loop, Opened
<1>2. Listed' /\ Reported'
  BY FencesStay
<1>3. PICK to \in {"wait", "idle", "busy"} :
        Go(p, to) /\ (to = "wait" => flags = "wait")
  <2>1. CASE flags = "wait"
    BY <2>1
  <2>2. CASE flags # "wait"
    BY <2>2
  <2> QED
    BY <2>1, <2>2
<1>4. to = "wait" /\ Alone(p) => asked[p] = "wait"
  BY <1>3 DEF AloneAsks
<1> QED
  BY <1>1, <1>2, <1>3, <1>4, LoopStepKeeps DEF TypeOK

LEMMA WaitKeeps ==
  ASSUME IInv, NEW p \in Procs, Wait(p) PROVE IInv'
<1> USE DEF IInv, Wait, fencing, libvars
<1>1. Serving(p) /\ inited[p] /\ fence_id[p] > 1 /\ (Alone(p) => asked[p] = "wait")
  BY DEF Serving, Loop, Opened, AloneAsks
<1>2. CASE Reached(p)
  <2>1. Listed' /\ Reported'
    BY <1>2, FencesStay DEF listing
  <2> QED
    BY <1>1, <1>2, <2>1, LoopStepKeeps DEF TypeOK, listing
<1>3. CASE ~Reached(p)
  <2>1. /\ fence_list' \in Seq(Procs \X Nat) /\ last_fence' \in [Procs -> Nat]
        /\ cookie = 0 => fence_list' = <<>>
        /\ Listed' /\ Reported'
    BY <1>3, PollKeeps
  <2>2. Go(p, "wait")
    BY <1>3 DEF Go, TypeOK
  <2> QED
    BY <1>1, <1>3, <2>1, <2>2, LoopStepKeeps DEF TypeOK
<1> QED
  BY <1>2, <1>3

LEMMA ReplyKeeps ==
  ASSUME IInv, NEW p \in Procs, Reply(p) PROVE IInv'
<1> USE DEF IInv, Reply, listing
<1>1. Serving(p) /\ inited[p]
  BY DEF Serving, Loop, Opened
<1>2. Listed' /\ Reported'
  BY DEF Listed, Reported, ReportedTo, libvars
<1>3. PICK to \in {"loop", "fail"} : Go(p, to)
  OBVIOUS
<1>4. asked' \in [Procs -> {"wait", "poll"}] /\ \A q \in Procs \ {p} : asked'[q] = asked[q]
  BY DEF TypeOK
<1> QED
  BY <1>1, <1>2, <1>3, <1>4, LoopStepKeeps, ZenonT(30) DEF TypeOK

LEMMA GpuSignalKeeps ==
  ASSUME IInv, GpuSignal PROVE IInv'
<1> USE DEF IInv, GpuSignal, idvars, opening, fencing, listing, libvars
<1>1. gl_queue' \in Seq(Procs \X Nat) /\ Range(gl_queue') \subseteq Range(gl_queue)
  BY Shortened DEF TypeOK
<1>2. TypeOK'
  BY <1>1 DEF TypeOK
<1>3. Owner' /\ Opened' /\ Numbers' /\ ContextsApart' /\ FlagsOfClient'
  BY DEF Owner, Opened, Numbers, ContextsApart, FlagsOfClient, Serving
<1>4. Listed' /\ Reported'
  BY <1>1 DEF Listed, Reported, ReportedTo
<1>5. AloneAsks' /\ CrashOnlyUninitialised'
  BY DEF AloneAsks, Alone, Reached, CrashOnlyUninitialised
<1> QED
  BY <1>2, <1>3, <1>4, <1>5

LEMMA BusyWaitKeeps ==
  ASSUME IInv, NEW p \in Procs, NEW f \in {"wait", "poll"}, BusyWait(p, f)
  PROVE  IInv'
<1> USE DEF IInv, idvars, opening, libvars
<1> DEFINE new == <<p, fence_id[p]>>
<1>0. PICK n \in 0 .. Len(fence_list), ok \in BOOLEAN :
        /\ ok => cookie # 0
        /\ Retires(n)
        /\ Fences(p, ok)
        /\ last_fence' = IF n = 0 THEN last_fence
                         ELSE [last_fence EXCEPT ![cookie] = fence_list[n][2]]
        /\ LET left == SubSeq(fence_list, n + 1, Len(fence_list))
           IN IF ok
              THEN /\ fence_list' = Append(left, new)
                   /\ gl_queue' = Append(gl_queue, new)
                   /\ strayed' = strayed \cup ({cookie} \ {p})
              ELSE fence_list' = left /\ UNCHANGED <<gl_queue, strayed>>
  BY DEF BusyWait
<1> DEFINE left == SubSeq(fence_list, n + 1, Len(fence_list))
<1>1. /\ left \in Seq(Procs \X Nat)
      /\ Range(left) \subseteq Range(fence_list)
      /\ Range(gl_queue) \subseteq Range(left)
      /\ cookie = 0 => left = <<>>
      /\ last_fence' \in [Procs -> Nat]
      /\ \A q \in Procs \ strayed : ReportedTo(q, last_fence'[q])
  BY <1>0, Polling
<1>g. /\ pc \in [Procs -> Pcs] /\ id \in [Procs -> Nat]
      /\ fence_id \in [Procs -> Nat \ {0}] /\ fenced \in [Procs -> BOOLEAN]
      /\ asked \in [Procs -> {"wait", "poll"}] /\ cookie \in Procs \cup {0}
      /\ gl_queue \in Seq(Procs \X Nat) /\ strayed \subseteq Procs
  BY DEF TypeOK
<1>b. /\ pc[p] = "loop" /\ inited[p] /\ asked' = [asked EXCEPT ![p] = f]
      /\ (Go(p, "test") /\ flags' = f) \/ (Go(p, "fail") /\ flags' = flags)
      /\ UNCHANGED <<idvars, opening, libvars>>
  BY DEF BusyWait
<1>h. /\ Serving(p) /\ Serving(p)' /\ pc'[p] \in {"test", "fail"}
      /\ pc'[p] = "test" => flags' = f
      /\ \A q \in Procs \ {p} : pc'[q] = pc[q] /\ asked'[q] = asked[q]
      /\ asked'[p] = f /\ asked' \in [Procs -> {"wait", "poll"}]
      /\ pc' \in [Procs -> Pcs]
  BY <1>b, <1>g DEF Serving, Loop, Go, Pcs
<1>i. /\ fence_id'[p] = fence_id[p] + 1 /\ fenced'[p] = ok
      /\ \A q \in Procs \ {p} : fence_id'[q] = fence_id[q] /\ fenced'[q] = fenced[q]
      /\ fence_id' \in [Procs -> Nat \ {0}] /\ fenced' \in [Procs -> BOOLEAN]
  BY <1>0, <1>g DEF Fences
<1>j. /\ new \in Procs \X Nat
      /\ ok => /\ fence_list' \in Seq(Procs \X Nat) /\ gl_queue' \in Seq(Procs \X Nat)
               /\ Range(fence_list') = Range(left) \cup {new}
               /\ Range(gl_queue') = Range(gl_queue) \cup {new}
  <2>1. new \in Procs \X Nat
    BY <1>g
  <2>2. ok => fence_list' = Append(left, new) /\ gl_queue' = Append(gl_queue, new)
    BY ONLY <1>0
  <2> HIDE DEF left, new
  <2>3. left \in Seq(Procs \X Nat) /\ gl_queue \in Seq(Procs \X Nat)
    BY ONLY <1>1, <1>g
  <2>4. /\ Append(left, new) \in Seq(Procs \X Nat)
        /\ Range(Append(left, new)) = Range(left) \cup {new}
    BY ONLY <2>1, <2>3, Appended
  <2>5. /\ Append(gl_queue, new) \in Seq(Procs \X Nat)
        /\ Range(Append(gl_queue, new)) = Range(gl_queue) \cup {new}
    BY ONLY <2>1, <2>3, Appended
  <2> QED
    BY ONLY <2>1, <2>2, <2>4, <2>5
<1>k. ~ok => fence_list' = left /\ gl_queue' = gl_queue /\ strayed' = strayed
  BY ONLY <1>0
<1>l. /\ ok => strayed' = strayed \cup ({cookie} \ {p}) /\ cookie # 0
      /\ strayed \subseteq strayed'
  BY ONLY <1>0
<1> HIDE DEF left
<1>2. TypeOK'
  <2>1. strayed' \subseteq Procs /\ flags' \in {"wait", "poll"}
    BY <1>b, <1>g, <1>k, <1>l DEF TypeOK
  <2>2. fence_list' \in Seq(Procs \X Nat) /\ gl_queue' \in Seq(Procs \X Nat)
    BY ONLY <1>1, <1>g, <1>j, <1>k
  <2>3. cookie = 0 => fence_list' = <<>>
    BY ONLY <1>1, <1>k, <1>l
  <2> QED
    BY <1>1, <1>b, <1>h, <1>i, <2>1, <2>2, <2>3 DEF TypeOK
<1>3. made[p]
  BY <1>b DEF Opened, Loop
<1>4. Owner'
  <2>1. \A q \in Procs : Serving(q)' <=> Serving(q)
    BY <1>h DEF Serving
  <2>2. pc[p] # "ended" /\ pc'[p] # "ended"
    BY <1>b, <1>h
  <2> QED
    BY <1>b, <1>h, <2>1, <2>2 DEF Owner, TypeOK
<1>5. Opened'
  <2>1. fence_id'[p] > 1
    BY <1>g, <1>i
  <2> QED
    BY <1>3, <1>b, <1>h, <1>i, <2>1 DEF Opened, Loop
<1>6. Numbers' /\ ContextsApart'
  BY <1>b, <1>h DEF Numbers, ContextsApart, Loop
<1>7. FlagsOfClient'
  <2>1. ASSUME orphaned = {}, NEW q \in Procs \ {p} PROVE pc[q] # "test"
    BY <1>3, <1>b, <1>h, <2>1 DEF Owner, Opened, Serving, Loop
  <2> QED
    BY <1>b, <1>h, <2>1 DEF FlagsOfClient
<1>8. Listed'
  <2>1. Range(gl_queue') \subseteq Range(fence_list')
    BY <1>1, <1>j, <1>k
  <2>2. ASSUME NEW e \in Range(fence_list), e[1] \in Procs, e[2] \in Nat
        PROVE  /\ e[2] # 0 /\ e[2] < fence_id'[e[1]]
               /\ e[2] = fence_id'[e[1]] - 1 => fenced'[e[1]]
               /\ cookie \in strayed' \/ e[1] = cookie
    <3>1. /\ e[2] # 0 /\ e[2] < fence_id[e[1]]
          /\ e[2] = fence_id[e[1]] - 1 => fenced[e[1]]
          /\ cookie \in strayed \/ e[1] = cookie
      BY <2>2 DEF Listed
    <3>2. CASE e[1] = p
      BY <1>g, <1>i, <1>l, <2>2, <3>1, <3>2
    <3>3. CASE e[1] # p
      BY <1>i, <1>l, <2>2, <3>1, <3>3
    <3> QED
      BY <3>2, <3>3
  <2>3. Range(fence_list) \subseteq Procs \X Nat
    BY Held DEF TypeOK
  <2>4. ok => /\ new[2] # 0 /\ new[2] < fence_id'[new[1]] /\ fenced'[new[1]]
              /\ cookie \in strayed' \/ new[1] = cookie
    BY <1>g, <1>i, <1>l
  <2>5. \A e \in Range(fence_list') : e \in Range(fence_list) \/ (ok /\ e = new)
    BY <1>1, <1>j, <1>k
  <2> HIDE DEF new
  <2>6. ASSUME NEW e \in Range(fence_list')
        PROVE  /\ e[2] # 0 /\ e[2] < fence_id'[e[1]]
               /\ e[2] = fence_id'[e[1]] - 1 => fenced'[e[1]]
               /\ cookie \in strayed' \/ e[1] = cookie
    BY <2>2, <2>3, <2>4, <2>5
  <2> QED
    BY <1>b, <2>1, <2>6 DEF Listed
<1>9. Reported'
  <2>1. ASSUME NEW q \in Procs \ strayed'
        PROVE  /\ last_fence'[q] < fence_id'[q]
               /\ last_fence'[q] # 0 => <<q, last_fence'[q]>> \notin Range(gl_queue')
               /\ last_fence'[q] # 0 /\ last_fence'[q] = fence_id'[q] - 1 => fenced'[q]
    <3>1. /\ q \in Procs /\ q \notin strayed
          /\ last_fence'[q] \in Nat /\ last_fence'[q] < fence_id[q]
          /\ last_fence'[q] # 0 => <<q, last_fence'[q]>> \notin Range(gl_queue)
          /\ last_fence'[q] # 0 /\ last_fence'[q] = fence_id[q] - 1 => fenced[q]
      BY <1>1, <1>l, <2>1 DEF ReportedTo
    <3>2. <<q, last_fence'[q]>> # new
      BY <1>g, <3>1
    <3>3. last_fence'[q] # 0 => <<q, last_fence'[q]>> \notin Range(gl_queue')
      BY <1>j, <1>k, <3>1, <3>2
    <3>4. CASE q = p
      BY <1>g, <1>i, <3>1, <3>3, <3>4
    <3>5. CASE q # p
      BY <1>i, <3>1, <3>3, <3>5
    <3> QED
      BY <3>4, <3>5
  <2> QED
    BY <2>1 DEF Reported, ReportedTo
<1>10. AloneAsks'
  <2>1. \A q \in Procs : Alone(q)' => Alone(q) /\ q = p
    BY <1>b, <1>h, AloneServes DEF Alone
  <2>2. Alone(p) => p \notin strayed /\ p \notin strayed'
    BY <1>k, <1>l DEF AloneAsks
  <2>3. Alone(p) => last_fence'[p] # fence_id'[p] - 1
    <3>1. Alone(p) => last_fence'[p] < fence_id[p]
      BY <1>1, <2>2 DEF ReportedTo
    <3> QED
      BY ONLY <1>1, <1>g, <1>i, <3>1, p \in Procs
  <2> QED
    BY <1>h, <2>1, <2>2, <2>3 DEF AloneAsks, Reached
<1>11. CrashOnlyUninitialised'
  BY <1>b, <1>h DEF CrashOnlyUninitialised
<1> QED
  BY <1>2, <1>4, <1>5, <1>6, <1>7, <1>8, <1>9, <1>10, <1>11

LEMMA TeardownKeeps ==
  ASSUME IInv, NEW p \in Procs, Teardown(p) PROVE IInv'
<1> USE DEF IInv
<1>1. CASE Crash(p)
  BY <1>1, CrashKeeps DEF Teardown, Serving, Loop
<1>2. CASE /\ CleanupLibrary(p)
           /\ Go(p, "ended")
           /\ inited' = [inited EXCEPT ![p] = FALSE] /\ made' = [made EXCEPT ![p] = FALSE]
           /\ fence_id' = [fence_id EXCEPT ![p] = 1] /\ last_fence' = [last_fence EXCEPT ![p] = 0]
           /\ fenced' = [fenced EXCEPT ![p] = FALSE] /\ asked' = [asked EXCEPT ![p] = "poll"]
           /\ UNCHANGED <<idvars, flags, strayed>>
  <2> USE <1>2 DEF CleanupLibrary, Go, idvars
  <2>g. /\ pc \in [Procs -> Pcs] /\ id \in [Procs -> Nat]
        /\ inited \in [Procs -> BOOLEAN] /\ made \in [Procs -> BOOLEAN]
        /\ fence_id \in [Procs -> Nat \ {0}] /\ last_fence \in [Procs -> Nat]
        /\ fenced \in [Procs -> BOOLEAN] /\ asked \in [Procs -> {"wait", "poll"}]
        /\ cookie \in Procs \cup {0}
    BY DEF TypeOK
  <2>h. /\ pc[p] = "fail" /\ Serving(p)
        /\ pc'[p] = "ended" /\ ~inited'[p] /\ ~made'[p]
        /\ fence_id'[p] = 1 /\ last_fence'[p] = 0
        /\ \A q \in Procs \ {p} : /\ pc'[q] = pc[q] /\ inited'[q] = inited[q] /\ made'[q] = made[q]
                                  /\ fence_id'[q] = fence_id[q] /\ last_fence'[q] = last_fence[q]
                                  /\ fenced'[q] = fenced[q] /\ asked'[q] = asked[q]
    BY <2>g DEF Teardown, Serving, Loop
  <2>0. Range(fence_list') = {} /\ Range(gl_queue') = {} /\ <<>> \in Seq(Procs \X Nat)
    BY DEF Range
  <2>1. TypeOK'
    <3>1. 1 \in Nat \ {0} /\ 0 \in Nat
      OBVIOUS
    <3>2. pc' \in [Procs -> Pcs]
      BY <2>g DEF Pcs
    <3>3. /\ fence_id' \in [Procs -> Nat \ {0}] /\ last_fence' \in [Procs -> Nat]
          /\ inited' \in [Procs -> BOOLEAN] /\ made' \in [Procs -> BOOLEAN]
          /\ fenced' \in [Procs -> BOOLEAN] /\ asked' \in [Procs -> {"wait", "poll"}]
      BY <2>g, <3>1
    <3> QED
      BY <2>g, <2>0, <3>2, <3>3 DEF TypeOK
  <2>2. Owner'
    <3>1. ASSUME NEW q \in Procs, made'[q], Serving(q)', q \notin orphaned' PROVE FALSE
      <4>1. q # p
        BY <2>h, <3>1 DEF Serving, Loop
      <4>2. made[q] /\ Serving(q) /\ q \notin orphaned
        BY <2>h, <3>1, <4>1 DEF Serving
      <4>3. cookie = q
        BY <4>2 DEF Owner
      <4> QED
        BY <3>1, <4>1, <4>3 DEF Procs
    <3>2. ASSUME NEW q \in orphaned' PROVE inited'[q] \/ pc'[q] = "ended"
      <4>1. CASE q = p
        BY <2>h, <4>1
      <4>2. CASE q # p /\ q \in orphaned
        BY <2>h, <4>2 DEF Owner, TypeOK
      <4>3. CASE q # p /\ q = cookie /\ cookie # 0
        BY <2>g, <2>h, <4>3 DEF Owner, Opened
      <4> QED
        BY <3>2, <4>1, <4>2, <4>3
    <3> QED
      BY <3>1, <3>2 DEF Owner
  <2>3. Opened'
    BY <2>h DEF Opened, Loop
  <2>4. Numbers' /\ ContextsApart'
    BY <2>h DEF Numbers, ContextsApart, Loop
  <2>5. FlagsOfClient'
    BY <2>h DEF FlagsOfClient
  <2>6. Listed'
    BY <2>0 DEF Listed
  <2>7. Reported'
    <3>1. ASSUME NEW q \in Procs \ strayed, q # p
          PROVE  ReportedTo(q, last_fence[q])'
      BY <2>0, <2>h, <3>1 DEF Reported, ReportedTo
    <3>2. ReportedTo(p, last_fence[p])'
      BY <2>h DEF ReportedTo
    <3> QED
      BY <3>1, <3>2 DEF Reported
  <2>8. AloneAsks'
    <3>1. \A q \in Procs : Alone(q) => q = p
      BY <2>h, AloneServes
    <3> QED
      BY <2>h, <3>1 DEF AloneAsks, Alone
  <2>9. CrashOnlyUninitialised'
    BY <2>h DEF CrashOnlyUninitialised
  <2> QED
    BY <2>1, <2>2, <2>3, <2>4, <2>5, <2>6, <2>7, <2>8, <2>9
<1> QED
  BY <1>1, <1>2 DEF Teardown

LEMMA NextKeeps == IInv /\ [Next]_vars => IInv'
<1> SUFFICES ASSUME IInv, [Next]_vars PROVE IInv'
  OBVIOUS
<1>1. CASE GpuSignal
  BY <1>1, GpuSignalKeeps
<1>2. ASSUME NEW p \in Procs,
             Number(p) \/ CreateRenderer(p) \/ Serve(p) \/ Own(p)
      PROVE  IInv'
  <2>1. CASE Number(p)
    BY <2>1, NumberKeeps
  <2>2. CASE CreateRenderer(p)
    BY <2>2, CreateRendererKeeps
  <2>3. CASE Serve(p)
    BY <2>3, OpenBusyKeeps, OpenFailsKeeps, OpenKeeps, LeaveLoopKeeps, CommandKeeps,
       BusyWaitKeeps DEF Serve
  <2>4. CASE Own(p)
    BY <2>4, TestKeeps, WaitKeeps, ReplyKeeps, TeardownKeeps DEF Own
  <2> QED
    BY <1>2, <2>1, <2>2, <2>3, <2>4
<1>3. CASE UNCHANGED vars
  <2> USE <1>3 DEF vars, idvars, opening, fencing, listing, libvars, IInv
  <2>1. TypeOK' /\ Owner' /\ Opened' /\ Numbers' /\ ContextsApart' /\ FlagsOfClient'
    BY DEF TypeOK, Owner, Serving, Opened, Numbers, ContextsApart, FlagsOfClient
  <2>2. Listed' /\ Reported'
    BY DEF Listed, Reported, ReportedTo
  <2>3. AloneAsks' /\ CrashOnlyUninitialised'
    BY DEF AloneAsks, Alone, Reached, CrashOnlyUninitialised
  <2> QED
    BY <2>1, <2>2, <2>3
<1> QED
  BY <1>1, <1>2, <1>3 DEF Next

----------------------------------------------------------------------------
(* What follows for every execution. *)

\* A client in a busy wait is answered only by its own test or wait.
LEMMA WhoTells ==
  ASSUME IInv, [Next]_vars, NEW p \in Procs,
         pc[p] \in {"test", "wait"}, pc'[p] \in {"idle", "busy"}
  PROVE  Test(p) \/ Wait(p)
<1>g. pc \in [Procs -> Pcs]
  BY DEF IInv, TypeOK
<1>1. ASSUME NEW q \in Procs,
             Number(q) \/ CreateRenderer(q) \/ Serve(q) \/ Own(q)
      PROVE  Test(p) \/ Wait(p)
  <2>1. CASE q # p
    <3>1. \E to : Go(q, to) \/ pc' = pc
      BY <1>1 DEF Number, CreateRenderer, Serve, OpenBusy, OpenFails, Open, LeaveLoop,
         Command, Crash, BusyWait, Own, Test, Wait, Reply, Teardown
    <3> QED
      BY <1>g, <2>1, <3>1 DEF Go
  <2>2. CASE q = p
    <3>1. ~(Number(p) \/ CreateRenderer(p) \/ Serve(p) \/ Reply(p) \/ Teardown(p))
      BY DEF Number, CreateRenderer, Serve, OpenBusy, OpenFails, Open, LeaveLoop,
         Command, BusyWait, Reply, Teardown
    <3> QED
      BY <1>1, <2>2, <3>1 DEF Own
  <2> QED
    BY <2>1, <2>2
<1>2. pc' # pc
  OBVIOUS
<1> QED
  BY <1>1, <1>2 DEF Next, GpuSignal, vars

\* The inductive invariant: who holds the library, which clients and contexts it knows,
\* and what a busy wait was told.
THEOREM InvariantHolds == Spec => []IInv
BY InitHolds, NextKeeps, PTL DEF Spec

\* Type correctness, with the table of fences that is empty without a library.
THEOREM TypesAreKept == Spec => []TypeOK
<1>1. IInv => TypeOK
  BY DEF IInv
<1> QED
  BY <1>1, InvariantHolds, PTL

\* The library never holds the vtest_renderer of a client that is gone.
THEOREM CookieIsAlive == Spec => []CookieLives
<1>1. IInv => CookieLives
  BY DEF IInv, Owner, CookieLives
<1> QED
  BY <1>1, InvariantHolds, PTL

\* Clients that enter one by one get different contexts.
THEOREM ContextsDiffer == Spec => []ContextsApart
<1>1. IInv => ContextsApart
  BY DEF IInv
<1> QED
  BY <1>1, InvariantHolds, PTL

\* The table that is gone is used by none whose library is its own.
THEOREM CrashesAreOfStrangers == Spec => []CrashOnlyUninitialised
<1>1. IInv => CrashOnlyUninitialised
  BY DEF IInv
<1> QED
  BY <1>1, InvariantHolds, PTL

\* "Idle" means that GL has come to the client's last fence.
THEOREM IdleMeansIdle == Spec => IdleIsTrue
<1>1. ASSUME IInv, [Next]_vars, NEW p \in Procs, Told(p, "idle"), p \notin strayed
      PROVE  fenced[p] /\ <<p, fence_id[p] - 1>> \notin Range(gl_queue)
  <2>1. Test(p) \/ Wait(p)
    BY <1>1, WhoTells DEF Told
  <2>2. Reached(p)
    BY <1>1, <2>1 DEF Test, Wait, Go, Told, IInv, TypeOK
  <2>3. last_fence[p] # 0 /\ last_fence[p] = fence_id[p] - 1
    BY <1>1, <2>2 DEF Told, Reached, IInv, Opened, TypeOK
  <2> QED
    BY <1>1, <2>3 DEF IInv, Reported, ReportedTo
<1>2. IInv /\ [Next]_vars =>
        [\A p \in Procs : Told(p, "idle") /\ p \notin strayed =>
           /\ fenced[p]
           /\ <<p, fence_id[p] - 1>> \notin Range(gl_queue)]_vars
  BY <1>1
<1> QED
  BY <1>2, InvariantHolds, PTL DEF Spec, IdleIsTrue

\* Without an orphan nobody who asked to wait is told "busy".
THEOREM WaitsAreHonoured == Spec => WaitHonoured
<1>1. ASSUME IInv, [Next]_vars, NEW p \in Procs, Told(p, "busy"), orphaned = {}
      PROVE  asked[p] = "poll"
  <2>1. Test(p) \/ Wait(p)
    BY <1>1, WhoTells DEF Told
  <2>2. pc[p] = "test" /\ flags # "wait"
    BY <1>1, <2>1 DEF Test, Wait, Go, Told, IInv, TypeOK
  <2>3. flags = asked[p] /\ asked[p] \in {"wait", "poll"}
    BY <1>1, <2>2 DEF IInv, FlagsOfClient, TypeOK
  <2> QED
    BY <2>2, <2>3
<1>2. IInv /\ [Next]_vars =>
        [\A p \in Procs : Told(p, "busy") /\ orphaned = {} => asked[p] = "poll"]_vars
  BY <1>1
<1> QED
  BY <1>2, InvariantHolds, PTL DEF Spec, WaitHonoured

\* The query of a client that is alone never tells it that it is idle.
THEOREM QueriesAreBusy == Spec => QueryIsBusy
<1>1. ASSUME IInv, [Next]_vars, NEW p \in Procs, Told(p, "idle"), Alone(p)
      PROVE  asked[p] = "wait"
  <2>1. Test(p) \/ Wait(p)
    BY <1>1, WhoTells DEF Told
  <2>2. CASE Test(p)
    <3>1. pc[p] = "test" /\ Reached(p)
      BY <1>1, <2>2 DEF Test, Go, Told, IInv, TypeOK
    <3> QED
      BY <1>1, <3>1 DEF IInv, AloneAsks
  <2>3. CASE Wait(p)
    BY <1>1, <2>3 DEF Wait, IInv, AloneAsks
  <2> QED
    BY <2>1, <2>2, <2>3
<1>2. IInv /\ [Next]_vars =>
        [\A p \in Procs : Told(p, "idle") /\ (\A q \in Procs \ {p} : id[q] = 0) =>
           asked[p] = "wait"]_vars
  BY <1>1 DEF Alone
<1> QED
  BY <1>2, InvariantHolds, PTL DEF Spec, QueryIsBusy

\* The library, its cookie and its tables serve only who initialised them.
THEOREM LibraryIsAlive == Spec => []LibraryLives
<1>1. IInv => LibraryLives
  BY DEF IInv, Owner, CookieLives, LibraryLives
<1> QED
  BY <1>1, InvariantHolds, PTL

\* Every answer of a busy wait is what it should be.
THEOREM AnswersHold == Spec => AnswersAreTrue
BY IdleMeansIdle, WaitsAreHonoured, QueriesAreBusy DEF AnswersAreTrue

=============================================================================
