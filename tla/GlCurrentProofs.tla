-------------------------- MODULE GlCurrentProofs --------------------------
(***************************************************************************)
(* The caches of the current GL context are right for any number of guest  *)
(* contexts, sub-contexts, queries and fences, in every order of commands, *)
(* polls, overlay flushes, failures and restarts.                          *)
(***************************************************************************)
EXTENDS GlCurrent, SequenceTheorems, TLAPS

USE CtxAssumption, SubAssumption

\* Taking queries out of the fences leaves a sequence of sets of queries.
LEMMA FencesWithout ==
  ASSUME fences \in Seq(SUBSET Queries), NEW S
  PROVE  [i \in DOMAIN fences |-> fences[i] \ S] \in Seq(SUBSET Queries)
<1>1. DOMAIN fences = 1 .. Len(fences) /\ Len(fences) \in Nat
  OBVIOUS
<1>2. \A i \in 1 .. Len(fences) : fences[i] \ S \in SUBSET Queries
  OBVIOUS
<1> QED
  BY <1>1, <1>2, IsASeq

LEMMA DropKeepsTypes ==
  ASSUME TypeOK, NEW S, DropQueries(S)
  PROVE  /\ owner' \in [Queries -> GlCtxs] /\ gltype' \in [Queries -> Targets \cup {"none"}]
         /\ qstate' \in [Queries -> {"none", "new", "begun", "ended"}]
         /\ readAt' \in [Queries -> GlCtxs]
         /\ done' \subseteq Queries /\ waiting' \subseteq Queries
         /\ fences' \in Seq(SUBSET Queries)
  BY FencesWithout DEF TypeOK, DropQueries, GlCtxs

LEMMA MeasureKeepsTypes ==
  ASSUME TypeOK, NEW q \in Queries, NEW s \in {"none", "begun", "ended"}, Measure(q, s)
  PROVE  /\ qstate' \in [Queries -> {"none", "new", "begun", "ended"}]
         /\ readAt' \in [Queries -> GlCtxs]
         /\ done' \subseteq Queries /\ fences' \in Seq(SUBSET Queries)
<1>1. Nowhere \in GlCtxs
  BY DEF GlCtxs
<1>2. fences \in Seq(SUBSET Queries)
  BY DEF TypeOK
<1>3. [i \in DOMAIN fences |-> fences[i] \ {q}] \in Seq(SUBSET Queries)
  BY ONLY <1>2, FencesWithout
<1> QED BY <1>1, <1>3 DEF TypeOK, Measure

LEMMA SwitchKeepsTypes ==
  ASSUME TypeOK, NEW c \in AllCtxs, SwitchContext(c)
  PROVE  /\ current_ctx' \in AllCtxs \cup {NoCtx}
         /\ current_hw_ctx' \in AllCtxs \cup {NoCtx}
         /\ gl' \in GlCtxs
  BY DEF TypeOK, SwitchContext, curvars, GlOf, GlCtxs

LEMMA MakeKeepsTypes ==
  ASSUME TypeOK, NEW g \in GlCtxs, MakeCurrent(g)
  PROVE  /\ current_ctx' \in AllCtxs \cup {NoCtx}
         /\ current_hw_ctx' \in AllCtxs \cup {NoCtx}
         /\ gl' \in GlCtxs
  BY DEF TypeOK, MakeCurrent

\* A query's owner is a guest's sub-context, which check_queries may switch to.
OwnersAreGuests ==
  \A q \in Queries : qstate[q] # "none" => owner[q] \in Ctxs \X Subs

\* Waiting queries exist and what has a result has ended; only a poll in progress has
\* entries left to check.
WaitingExist ==
  /\ \A q \in waiting : qstate[q] # "none"
  /\ \A q \in done : qstate[q] = "ended"
  /\ unchecked \subseteq waiting
  /\ phase # "check" => unchecked = {} /\ retired = {}

\* The selected sub-context of a context is one of its own, 0 is never destroyed,
\* and nothing exists while the renderer is down.
SubsExist ==
  /\ \A c \in AllCtxs : Exists(c) => 0 \in sub_ctxs[c] /\ sub[c] \in sub_ctxs[c]
  /\ sub[Ctx0] = 0
  /\ phase = "down" => \A c \in AllCtxs : ~Exists(c)

\* The decoder works for the current context.
DecodesCurrent ==
  phase = "decode" => running = current_ctx /\ running \in Ctxs /\ Exists(running)

\* A query's sub-context exists as long as the query does.
OwnersExist ==
  \A q \in Queries : qstate[q] # "none" => owner[q][2] \in sub_ctxs[owner[q][1]]

\* An answer was read in a context of the query's guest.
AnswersOwn ==
  \A q \in Queries :
    readAt[q] # Nowhere => qstate[q] # "none" /\ readAt[q][1] = owner[q][1]

\* What GL signaled before the poll has its results, and is answered as soon as
\* it was looked at in the right sub-context.
RetiredAnswered ==
  phase = "check" =>
    /\ retired \subseteq done
    /\ \A q \in retired \cap waiting :
         q \in unchecked \/ owner[q] # GlOf(owner[q][1])

Inv == /\ TypeOK /\ CachesTrue /\ SubsExist /\ DecodesCurrent
       /\ OwnersAreGuests /\ WaitingExist /\ OwnersExist /\ AnswersOwn
       /\ RetiredAnswered /\ OverlayIsTheClient

-----------------------------------------------------------------------------
LEMMA InvInit == Init => Inv
<1> SUFFICES ASSUME Init PROVE Inv
  OBVIOUS
<1> USE DEF Init
<1>1. TypeOK
  <2>1. fences \in Seq(SUBSET Queries)
    OBVIOUS
  <2> QED BY <2>1 DEF TypeOK, Phases, AllCtxs, GlCtxs, Nowhere
<1>2. CachesTrue /\ SubsExist /\ DecodesCurrent
  BY DEF CachesTrue, SubsExist, DecodesCurrent, Exists, AllCtxs
<1>3. OwnersAreGuests /\ WaitingExist /\ OwnersExist /\ AnswersOwn
  BY DEF OwnersAreGuests, WaitingExist, OwnersExist, AnswersOwn
<1>4. RetiredAnswered /\ OverlayIsTheClient
  BY DEF RetiredAnswered, OverlayIsTheClient
<1> QED BY <1>1, <1>2, <1>3, <1>4 DEF Inv

\* Types are kept by every action.
LEMMA TypeStep == Inv /\ [Next]_vars => TypeOK'
<1> SUFFICES ASSUME Inv, [Next]_vars PROVE TypeOK'
  OBVIOUS
<1>t. TypeOK /\ OwnersAreGuests /\ WaitingExist /\ DecodesCurrent
  BY DEF Inv
<1> USE DEF TypeOK, Phases, curvars, ctxvars, qvars, fencevars
<1>g. /\ \A c \in AllCtxs : GlOf(c) \in GlCtxs
      /\ \A c \in AllCtxs, s \in Subs : <<c, s>> \in GlCtxs
      /\ Overlay \in GlCtxs /\ Nowhere \in GlCtxs /\ Ctx0 \in AllCtxs
      /\ \A c \in Ctxs : c \in AllCtxs
  BY <1>t DEF GlOf, GlCtxs, AllCtxs
<1>1. CASE Startup
  BY <1>t, <1>g, <1>1 DEF Startup, MakeCurrent
<1>2. CASE Cleanup
  BY <1>t, <1>g, <1>2 DEF Cleanup
<1>3. CASE Poll
  <2>1. PICK n \in 0 .. Len(fences) :
          /\ fences' = SubSeq(fences, n + 1, Len(fences))
          /\ retired' = UNION {fences[i] : i \in 1 .. n}
          /\ IF n = 0 THEN phase' = "ready" /\ UNCHANGED unchecked
                      ELSE phase' = "check" /\ unchecked' = waiting
    BY <1>3 DEF Poll
  <2>2. fences' \in Seq(SUBSET Queries)
    BY <1>t, <2>1, SubSeqProperties
  <2>3. \A i \in 1 .. n : fences[i] \subseteq Queries
    BY <1>t, <2>1, ElementOfSeq
  <2>4. retired' \subseteq Queries
    BY <2>1, <2>3
  <2> QED BY <1>t, <1>g, <1>3, <2>1, <2>2, <2>4 DEF Poll, ForceCtx0, CachesTrue
<1>4. CASE ReportFences
  BY <1>t, <1>g, <1>4 DEF ReportFences
<1>5. CASE EndSubmit \/ FailCommand
  BY <1>t, <1>g, <1>5 DEF EndSubmit, FailCommand
<1>6. CASE DtCmd
  BY <1>t, <1>g, <1>6 DEF DtCmd, MakeCurrent
<1>7. CASE CreateFence
  <2>1. fences' \in Seq(SUBSET Queries)
    BY <1>t, <1>7 DEF CreateFence
  <2> QED BY <1>t, <1>7, <2>1 DEF CreateFence
<1>8. ASSUME NEW s \in Subs, CreateSubCtx(s) \/ SetSubCtx(s) PROVE TypeOK'
  <2>1. running \in AllCtxs
    BY <1>t, <1>8 DEF DecodesCurrent, CreateSubCtx, SetSubCtx, AllCtxs
  <2> QED BY <1>t, <1>g, <1>8, <2>1, SMTT(30) DEF CreateSubCtx, SetSubCtx, MakeCurrent
<1>9. ASSUME NEW s \in Subs, DestroySubCtx(s) PROVE TypeOK'
  <2>1. running \in AllCtxs /\ sub' \in [AllCtxs -> Subs]
    BY <1>t, <1>9 DEF DecodesCurrent, DestroySubCtx, AllCtxs
  <2>2. <<running, sub'[running]>> \in GlCtxs
    BY <1>g, <2>1
  <2> QED BY <1>t, <1>9, <2>1, <2>2, MakeKeepsTypes, DropKeepsTypes DEF DestroySubCtx
<1>10. ASSUME NEW q \in Queries, CreateQuery(q) PROVE TypeOK'
  BY <1>t, <1>10 DEF CreateQuery
<1>11. ASSUME NEW q \in Queries, BeginQuery(q) \/ EndQuery(q) \/ DestroyQuery(q) PROVE TypeOK'
  <2>1. \/ UNCHANGED <<qstate, done, readAt, fences>>
        \/ \E a \in Queries, s \in {"none", "begun", "ended"} : Measure(a, s)
    BY <1>11 DEF BeginQuery, EndQuery, DestroyQuery, Active
  <2>2. /\ qstate' \in [Queries -> {"none", "new", "begun", "ended"}]
        /\ readAt' \in [Queries -> GlCtxs]
        /\ done' \subseteq Queries /\ fences' \in Seq(SUBSET Queries)
    BY <1>t, <2>1, MeasureKeepsTypes
  <2>3. /\ owner' \in [Queries -> GlCtxs] /\ gltype' \in [Queries -> Targets \cup {"none"}]
        /\ waiting' \subseteq Queries
        /\ UNCHANGED <<phase, running, curvars, ctxvars, unchecked, retired>>
    BY <1>t, <1>g, <1>11 DEF BeginQuery, EndQuery, DestroyQuery
  <2> QED BY <1>t, <2>2, <2>3
<1>12. ASSUME NEW q \in Queries, GetQueryResult(q) PROVE TypeOK'
  BY <1>t, <1>12 DEF GetQueryResult
<1>13. ASSUME NEW c \in Ctxs, CreateContext(c) PROVE TypeOK'
  BY <1>t, <1>g, <1>13 DEF CreateContext, MakeCurrent
<1>14. ASSUME NEW c \in Ctxs, DestroyContext(c) PROVE TypeOK'
  <2>1. /\ current_ctx' \in AllCtxs \cup {NoCtx}
        /\ current_hw_ctx' \in AllCtxs \cup {NoCtx} /\ gl' \in GlCtxs
    BY <1>t, <1>g, <1>14 DEF DestroyContext
  <2> QED BY <1>t, <1>14, <2>1, DropKeepsTypes DEF DestroyContext
<1>15. ASSUME NEW c \in Ctxs, SubmitCmd(c) \/ Transfer(c) PROVE TypeOK'
  BY <1>t, <1>g, <1>15, SwitchKeepsTypes DEF SubmitCmd, Transfer
<1>16. ASSUME NEW q \in Queries, CheckQuery(q) PROVE TypeOK'
  <2>1. owner[q][1] \in AllCtxs
    BY <1>t, <1>g, <1>16 DEF CheckQuery, WaitingExist, OwnersAreGuests
  <2>2. gl' \in GlCtxs
    BY <1>t, <1>16, <2>1, SwitchKeepsTypes DEF CheckQuery
  <2> QED BY <1>t, <1>16, <2>1, <2>2, SwitchKeepsTypes DEF CheckQuery
<1>17. ASSUME NEW q \in Queries, GpuFinish(q) PROVE TypeOK'
  BY <1>t, <1>17 DEF GpuFinish
<1>18. CASE UNCHANGED vars
  BY <1>t, <1>18 DEF vars
<1> QED
  BY <1>1, <1>2, <1>3, <1>4, <1>5, <1>6, <1>7, <1>8, <1>9, <1>10, <1>11, <1>12,
     <1>13, <1>14, <1>15, <1>16, <1>17, <1>18 DEF Next, SubCommand, QueryCommand

-----------------------------------------------------------------------------
(* The contexts and the caches. *)

CtxInv == CachesTrue /\ SubsExist /\ DecodesCurrent

\* A switch from caches that are right leaves them right, and succeeds on the
\* context it was asked for whenever the code says so.
LEMMA SwitchIsTrue ==
  ASSUME current_ctx = current_hw_ctx, gl = GlOf(current_ctx), sub' = sub,
         NEW c, SwitchContext(c)
  PROVE  /\ current_ctx' = current_hw_ctx' /\ gl' = GlOf(current_ctx)'
         /\ CanSwitch(c) => current_ctx' = c
         /\ current_ctx' \in {c, current_ctx}
  BY DEF SwitchContext, CanSwitch, GlOf, curvars

LEMMA CtxStep == Inv /\ [Next]_vars => CtxInv'
<1> SUFFICES ASSUME Inv, [Next]_vars PROVE CtxInv'
  OBVIOUS
<1>t. TypeOK /\ CachesTrue /\ SubsExist /\ DecodesCurrent /\ OwnersAreGuests
      /\ WaitingExist
  BY DEF Inv
<1>g. /\ sub \in [AllCtxs -> Subs] /\ sub_ctxs \in [AllCtxs -> SUBSET Subs]
      /\ Ctx0 \in AllCtxs /\ \A c \in Ctxs : c \in AllCtxs /\ c # Ctx0
      /\ current_ctx \in AllCtxs \cup {NoCtx}
  BY <1>t DEF TypeOK, AllCtxs
<1> USE DEF CtxInv, curvars, ctxvars, Exists
<1>1. CASE Startup
  BY <1>t, <1>g, <1>1 DEF Startup, MakeCurrent, CachesTrue, SubsExist, DecodesCurrent
<1>2. CASE Cleanup
  BY <1>t, <1>g, <1>2 DEF Cleanup, CachesTrue, SubsExist, DecodesCurrent
<1>3. CASE Poll
  <2>1. phase' \in {"ready", "check"}
    BY <1>3 DEF Poll
  <2> QED BY <1>t, <1>g, <1>3, <2>1
          DEF Poll, ForceCtx0, GlOf, CachesTrue, SubsExist, DecodesCurrent
<1>4. CASE ReportFences
  BY <1>t, <1>g, <1>4 DEF ReportFences, GlOf, CachesTrue, SubsExist, DecodesCurrent
<1>5. CASE EndSubmit \/ FailCommand
  BY <1>t, <1>g, <1>5 DEF EndSubmit, FailCommand, GlOf, CachesTrue, SubsExist, DecodesCurrent
<1>6. CASE DtCmd \/ CreateFence
  BY <1>t, <1>g, <1>6 DEF DtCmd, CreateFence, MakeCurrent, CachesTrue, SubsExist,
     DecodesCurrent
<1>8. ASSUME NEW s \in Subs, CreateSubCtx(s) \/ SetSubCtx(s) PROVE CtxInv'
  BY <1>t, <1>g, <1>8 DEF CreateSubCtx, SetSubCtx, MakeCurrent, GlOf, CachesTrue,
     SubsExist, DecodesCurrent
<1>9. ASSUME NEW s \in Subs, DestroySubCtx(s) PROVE CtxInv'
  BY <1>t, <1>g, <1>9 DEF DestroySubCtx, MakeCurrent, GlOf, CachesTrue, SubsExist,
     DecodesCurrent
<1>10. ASSUME NEW q \in Queries,
              \/ CreateQuery(q) \/ BeginQuery(q) \/ EndQuery(q)
              \/ GetQueryResult(q) \/ DestroyQuery(q) \/ GpuFinish(q)
       PROVE CtxInv'
  <2>1. UNCHANGED <<phase, running, curvars, ctxvars>>
    BY <1>10 DEF CreateQuery, BeginQuery, EndQuery, GetQueryResult, DestroyQuery, GpuFinish
  <2> QED BY <1>t, <1>g, <2>1 DEF GlOf, CachesTrue, SubsExist, DecodesCurrent
<1>13. ASSUME NEW c \in Ctxs, CreateContext(c) PROVE CtxInv'
  BY <1>t, <1>g, <1>13 DEF CreateContext, MakeCurrent, CachesTrue, SubsExist,
     DecodesCurrent
<1>14. ASSUME NEW c \in Ctxs, DestroyContext(c) PROVE CtxInv'
  BY <1>t, <1>g, <1>14 DEF DestroyContext, CachesTrue, SubsExist, DecodesCurrent
<1>15. ASSUME NEW c \in Ctxs, SubmitCmd(c) \/ Transfer(c) PROVE CtxInv'
  <2>1. phase = "ready" /\ SwitchContext(c) /\ UNCHANGED ctxvars
    BY <1>15 DEF SubmitCmd, Transfer
  <2>2. current_ctx = current_hw_ctx /\ gl = GlOf(current_ctx) /\ current_ctx \in AllCtxs
    BY <1>t, <2>1 DEF CachesTrue
  <2>3. /\ current_ctx' = current_hw_ctx' /\ gl' = GlOf(current_ctx)'
        /\ CanSwitch(c) => current_ctx' = c
        /\ current_ctx' \in AllCtxs
    BY <2>1, <2>2, <1>g, SwitchIsTrue
  <2> QED BY <1>t, <1>g, <1>15, <2>1, <2>3
          DEF SubmitCmd, Transfer, CachesTrue, SubsExist, DecodesCurrent
<1>16. ASSUME NEW q \in Queries, CheckQuery(q) PROVE CtxInv'
  <2>1. /\ phase = "check" /\ phase' = phase /\ SwitchContext(owner[q][1])
        /\ UNCHANGED ctxvars
    BY <1>16 DEF CheckQuery
  <2>2. current_ctx = current_hw_ctx /\ gl = GlOf(current_ctx) /\ current_ctx \in AllCtxs
    BY <1>t, <2>1 DEF CachesTrue
  <2>3. owner[q][1] \in Ctxs
    BY <1>t, <1>16 DEF CheckQuery, WaitingExist, OwnersAreGuests
  <2>4. /\ current_ctx' = current_hw_ctx' /\ gl' = GlOf(current_ctx)'
        /\ current_ctx' \in AllCtxs
    BY <2>1, <2>2, <2>3, <1>g, SwitchIsTrue
  <2> QED BY <1>t, <1>g, <2>1, <2>4 DEF CachesTrue, SubsExist, DecodesCurrent
<1>18. CASE UNCHANGED vars
  BY <1>t, <1>18 DEF vars, GlOf, CachesTrue, SubsExist, DecodesCurrent
<1> QED
  BY <1>1, <1>2, <1>3, <1>4, <1>5, <1>6, <1>8, <1>9, <1>10, <1>13, <1>14, <1>15,
     <1>16, <1>18 DEF Next, SubCommand, QueryCommand

-----------------------------------------------------------------------------
(* Queries, and the overlay's pointer. *)

QueryInv == OwnersAreGuests /\ WaitingExist /\ OwnersExist /\ AnswersOwn

LEMMA DropKeepsQueries ==
  ASSUME QueryInv, TypeOK, phase # "check", phase' # "check", NEW S, DropQueries(S),
         UNCHANGED <<unchecked, retired>>,
         \A q \in Queries : qstate[q] # "none" /\ owner[q] \notin S =>
            owner[q][2] \in sub_ctxs'[owner[q][1]]
  PROVE  QueryInv'
  BY DEF QueryInv, TypeOK, DropQueries, OwnersAreGuests, WaitingExist, OwnersExist,
     AnswersOwn

LEMMA QueryStep == Inv /\ [Next]_vars => QueryInv'
<1> SUFFICES ASSUME Inv, [Next]_vars PROVE QueryInv'
  OBVIOUS
<1>t. TypeOK /\ QueryInv /\ CachesTrue /\ SubsExist /\ DecodesCurrent
  BY DEF Inv, QueryInv
<1>w. OwnersAreGuests /\ WaitingExist /\ OwnersExist /\ AnswersOwn
  BY DEF Inv
<1>g. /\ sub_ctxs \in [AllCtxs -> SUBSET Subs] /\ owner \in [Queries -> GlCtxs]
      /\ readAt \in [Queries -> GlCtxs] /\ \A c \in Ctxs : c \in AllCtxs /\ c # Ctx0
      /\ qstate \in [Queries -> {"none", "new", "begun", "ended"}]
      /\ sub \in [AllCtxs -> Subs]
  BY <1>t DEF TypeOK, AllCtxs
<1> USE DEF OwnersAreGuests, WaitingExist, OwnersExist, AnswersOwn, curvars, ctxvars, qvars,
            fencevars
<1>1. CASE Startup
  BY <1>w, <1>g, <1>1 DEF Startup, QueryInv
<1>2. CASE Cleanup
  BY <1>w, <1>g, <1>2 DEF Cleanup, QueryInv
<1>3. CASE Poll
  BY <1>w, <1>g, <1>3 DEF Poll, QueryInv
<1>4. CASE ReportFences \/ EndSubmit \/ FailCommand \/ DtCmd \/ CreateFence
  BY <1>w, <1>g, <1>4 DEF ReportFences, EndSubmit, FailCommand, DtCmd, CreateFence, QueryInv
<1>8. ASSUME NEW s \in Subs, CreateSubCtx(s) \/ SetSubCtx(s) PROVE QueryInv'
  BY <1>w, <1>g, <1>8 DEF CreateSubCtx, SetSubCtx, QueryInv
<1>9. ASSUME NEW s \in Subs, DestroySubCtx(s) PROVE QueryInv'
  <2>1. \A q \in Queries : qstate[q] # "none" /\ owner[q] \notin {<<running, s>>} =>
          owner[q][2] \in sub_ctxs'[owner[q][1]]
    BY <1>w, <1>g, <1>9 DEF DestroySubCtx
  <2> QED BY <1>t, <1>9, <2>1, DropKeepsQueries DEF DestroySubCtx
<1>10. ASSUME NEW q \in Queries, CreateQuery(q) PROVE QueryInv'
  <2>1. gl = <<running, sub[running]>> /\ running \in Ctxs /\ sub[running] \in Subs
        /\ sub[running] \in sub_ctxs[running]
    BY <1>t, <1>g, <1>10
    DEF CreateQuery, CachesTrue, DecodesCurrent, SubsExist, GlOf, AllCtxs
  <2>2. q \notin done /\ q \notin waiting
    BY <1>w, <1>10 DEF CreateQuery
  <2> QED BY <1>w, <1>g, <1>10, <2>1, <2>2 DEF CreateQuery, QueryInv
<1>11. ASSUME NEW q \in Queries, BeginQuery(q) \/ DestroyQuery(q) \/ EndQuery(q)
       PROVE QueryInv'
  <2>0. phase = "decode" /\ phase' = phase
    BY <1>11 DEF BeginQuery, DestroyQuery, EndQuery, Finds
  <2>1. CASE BeginQuery(q)
    <3>1. /\ qstate[q] # "none" /\ waiting' = waiting \ {q}
          /\ UNCHANGED <<phase, running, ctxvars, owner, gltype, unchecked, retired>>
      BY <2>1 DEF BeginQuery, Finds
    <3>2. CASE UNCHANGED <<qstate, done, readAt, fences>>
      BY <1>w, <2>0, <3>1, <3>2 DEF QueryInv
    <3>3. CASE Measure(q, "begun")
      BY <1>w, <1>g, <2>0, <3>1, <3>3 DEF Measure, QueryInv
    <3> QED BY <2>1, <3>2, <3>3 DEF BeginQuery
  <2>2. CASE EndQuery(q)
    <3>1. PICK a \in Queries : qstate[a] # "none" /\ Measure(a, "ended")
      BY <2>2 DEF EndQuery, Finds, Active
    <3> QED BY <1>w, <1>g, <2>0, <2>2, <3>1 DEF EndQuery, Measure, QueryInv
  <2>3. CASE DestroyQuery(q)
    BY <1>w, <1>g, <2>0, <2>3 DEF DestroyQuery, Measure, Finds, QueryInv
  <2> QED BY <1>11, <2>1, <2>2, <2>3
<1>12. ASSUME NEW q \in Queries, GetQueryResult(q) PROVE QueryInv'
  <2>1. gl = <<running, sub[running]>> /\ owner[q] = gl
    BY <1>t, <1>g, <1>12
    DEF GetQueryResult, Finds, CachesTrue, DecodesCurrent, GlOf
  <2> QED BY <1>w, <1>g, <1>12, <2>1 DEF GetQueryResult, Finds, QueryInv
<1>13. ASSUME NEW c \in Ctxs, CreateContext(c) PROVE QueryInv'
  BY <1>w, <1>g, <1>13 DEF CreateContext, Exists, QueryInv
<1>14. ASSUME NEW c \in Ctxs, DestroyContext(c) PROVE QueryInv'
  <2>1. \A q \in Queries : qstate[q] # "none" /\ owner[q] \notin {c} \X Subs =>
          owner[q][2] \in sub_ctxs'[owner[q][1]]
    BY <1>w, <1>g, <1>14 DEF DestroyContext
  <2> QED BY <1>t, <1>14, <2>1, DropKeepsQueries DEF DestroyContext
<1>15. ASSUME NEW c \in Ctxs, SubmitCmd(c) \/ Transfer(c) PROVE QueryInv'
  BY <1>w, <1>g, <1>15 DEF SubmitCmd, Transfer, QueryInv
<1>16. ASSUME NEW q \in Queries, CheckQuery(q) PROVE QueryInv'
  <2>1. /\ q \in unchecked /\ q \in waiting /\ SwitchContext(owner[q][1]) /\ sub' = sub
        /\ phase = "check" /\ qstate[q] # "none"
    BY <1>w, <1>16 DEF CheckQuery
  <2>0. current_ctx = current_hw_ctx /\ gl = GlOf(current_ctx)
    BY <1>t, <2>1 DEF CachesTrue
  <2>2. CanSwitch(owner[q][1]) => gl'[1] = owner[q][1]
    <3>1. gl' = GlOf(current_ctx)' /\ (CanSwitch(owner[q][1]) => current_ctx' = owner[q][1])
      BY <2>0, <2>1, SwitchIsTrue
    <3> QED BY <3>1 DEF GlOf
  <2> QED BY <1>w, <1>g, <1>16, <2>1, <2>2 DEF CheckQuery, QueryInv
<1>17. ASSUME NEW q \in Queries, GpuFinish(q) PROVE QueryInv'
  BY <1>w, <1>g, <1>17 DEF GpuFinish, QueryInv
<1>18. CASE UNCHANGED vars
  BY <1>w, <1>18 DEF vars, QueryInv
<1> QED
  BY <1>1, <1>2, <1>3, <1>4, <1>8, <1>9, <1>10, <1>11, <1>12, <1>13, <1>14, <1>15,
     <1>16, <1>17, <1>18 DEF Next, SubCommand, QueryCommand


LEMMA AnswerStep == Inv /\ [Next]_vars => RetiredAnswered'
<1> SUFFICES ASSUME Inv, [Next]_vars PROVE RetiredAnswered'
  OBVIOUS
<1>t. RetiredAnswered /\ WaitingExist /\ CachesTrue /\ TypeOK
  BY DEF Inv
<1>w. \A q \in done : qstate[q] = "ended"
  BY <1>t DEF WaitingExist
<1> USE DEF RetiredAnswered, curvars, ctxvars, qvars, fencevars
<1>1. CASE Startup \/ Cleanup
  BY <1>t, <1>1 DEF Startup, Cleanup
<1>3. CASE Poll
  <2>1. PICK n \in 0 .. Len(fences) :
          /\ \A i \in 1 .. n : fences[i] \subseteq done
          /\ retired' = UNION {fences[i] : i \in 1 .. n}
          /\ IF n = 0 THEN phase' = "ready" /\ UNCHANGED unchecked
                      ELSE phase' = "check" /\ unchecked' = waiting
    BY <1>3 DEF Poll
  <2>2. retired' \subseteq done
    BY <2>1
  <2>3. UNCHANGED <<done, waiting>>
    BY <1>3 DEF Poll
  <2> QED BY <2>1, <2>2, <2>3
<1>4. CASE ReportFences \/ EndSubmit \/ FailCommand \/ DtCmd \/ CreateFence
  BY <1>t, <1>4 DEF ReportFences, EndSubmit, FailCommand, DtCmd, CreateFence
<1>5. ASSUME NEW s \in Subs, CreateSubCtx(s) \/ SetSubCtx(s) \/ DestroySubCtx(s)
      PROVE RetiredAnswered'
  BY <1>5 DEF CreateSubCtx, SetSubCtx, DestroySubCtx
<1>6. ASSUME NEW q \in Queries,
             \/ CreateQuery(q) \/ BeginQuery(q) \/ EndQuery(q) \/ GetQueryResult(q)
             \/ DestroyQuery(q)
      PROVE RetiredAnswered'
  BY <1>6 DEF CreateQuery, BeginQuery, EndQuery, GetQueryResult, DestroyQuery, Finds
<1>7. ASSUME NEW c \in Ctxs,
             CreateContext(c) \/ DestroyContext(c) \/ SubmitCmd(c) \/ Transfer(c)
      PROVE RetiredAnswered'
  BY <1>7 DEF CreateContext, DestroyContext, SubmitCmd, Transfer
<1>8. ASSUME NEW q \in Queries, CheckQuery(q) PROVE RetiredAnswered'
  <2>1. /\ phase = "check" /\ q \in unchecked /\ unchecked' = unchecked \ {q}
        /\ SwitchContext(owner[q][1]) /\ UNCHANGED <<sub, owner, done, retired>>
    BY <1>8 DEF CheckQuery
  <2>2. current_ctx = current_hw_ctx /\ gl = GlOf(current_ctx)
    BY <1>t, <2>1 DEF CachesTrue
  <2>3. gl' = GlOf(current_ctx)' /\ (CanSwitch(owner[q][1]) => current_ctx' = owner[q][1])
    BY <2>1, <2>2, SwitchIsTrue
  <2>4. CanSwitch(owner[q][1]) => gl' = GlOf(owner[q][1])
    BY <2>1, <2>3 DEF GlOf
  <2>5. waiting' \subseteq waiting
    BY <1>8 DEF CheckQuery
  <2>6. ASSUME q \in retired, q \in waiting', owner[q] = GlOf(owner[q][1])
        PROVE  FALSE
    <3>1. CanSwitch(owner[q][1])
      BY <1>8, <2>6 DEF CheckQuery
    <3>2. PICK ready \in BOOLEAN :
            /\ gl' = owner[q] /\ qstate[q] = "ended" => ready = (q \in done)
            /\ waiting' = IF ready THEN waiting \ {q} ELSE waiting
      BY <1>8, <3>1 DEF CheckQuery
    <3>3. gl' = owner[q] /\ q \in done /\ qstate[q] = "ended"
      BY <1>w, <1>t, <2>1, <2>4, <2>6, <3>1
    <3> QED BY <2>6, <3>2, <3>3
  <2> QED BY <1>t, <2>1, <2>5, <2>6 DEF GlOf
<1>9. ASSUME NEW q \in Queries, GpuFinish(q) PROVE RetiredAnswered'
  BY <1>t, <1>9 DEF GpuFinish, GlOf
<1>10. CASE UNCHANGED vars
  BY <1>t, <1>10 DEF vars, GlOf
<1> QED
  BY <1>1, <1>3, <1>4, <1>5, <1>6, <1>7, <1>8, <1>9, <1>10
  DEF Next, SubCommand, QueryCommand

LEMMA OverlayStep == Inv /\ [Next]_vars => OverlayIsTheClient'
<1> SUFFICES ASSUME Inv, [Next]_vars PROVE OverlayIsTheClient'
  OBVIOUS
<1>t. /\ OverlayIsTheClient /\ SubsExist
      /\ sub_ctxs \in [AllCtxs -> SUBSET Subs] /\ running \in Ctxs \cup {NoCtx}
      /\ Ctxs \subseteq AllCtxs /\ Ctx0 \in AllCtxs
  BY DEF Inv, TypeOK, AllCtxs
<1> USE DEF OverlayIsTheClient, Exists, curvars, ctxvars, qvars, fencevars
<1>1. CASE Startup
  BY <1>t, <1>1 DEF Startup, SubsExist
<1>2. CASE Cleanup
  BY <1>t, <1>2 DEF Cleanup
<1>3. CASE Poll \/ ReportFences \/ EndSubmit \/ FailCommand \/ DtCmd \/ CreateFence
  <2>1. UNCHANGED <<sub_ctxs, overlay_ctx, alone>> /\ phase # "down"
    BY <1>3 DEF Poll, ReportFences, EndSubmit, FailCommand, DtCmd, CreateFence
  <2> QED BY <1>t, <2>1
<1>4. ASSUME NEW s \in Subs, CreateSubCtx(s) \/ SetSubCtx(s) \/ DestroySubCtx(s)
      PROVE OverlayIsTheClient'
  <2>1. DecodesCurrent
    BY DEF Inv
  <2> QED BY <1>t, <1>4, <2>1 DEF CreateSubCtx, SetSubCtx, DestroySubCtx, DecodesCurrent
<1>5. ASSUME NEW q \in Queries,
             \/ CreateQuery(q) \/ BeginQuery(q) \/ EndQuery(q) \/ GetQueryResult(q)
             \/ DestroyQuery(q) \/ CheckQuery(q) \/ GpuFinish(q)
      PROVE OverlayIsTheClient'
  <2>1. UNCHANGED <<phase, sub_ctxs, overlay_ctx, alone>>
    BY <1>5 DEF CreateQuery, BeginQuery, EndQuery, GetQueryResult, DestroyQuery, CheckQuery,
       GpuFinish
  <2> QED BY <1>t, <2>1
<1>6. ASSUME NEW c \in Ctxs, CreateContext(c) \/ DestroyContext(c)
      PROVE OverlayIsTheClient'
  <2>1. CASE CreateContext(c)
    <3>1. /\ phase = "idle" /\ phase' = phase /\ overlay_ctx' = c
          /\ sub_ctxs' = [sub_ctxs EXCEPT ![c] = {0}]
          /\ alone' => \A d \in Ctxs : sub_ctxs[d] = {}
      BY <2>1 DEF CreateContext
    <3> QED BY <1>t, <3>1
  <2>2. CASE DestroyContext(c)
    <3>1. /\ phase = "idle" /\ phase' = phase /\ UNCHANGED <<overlay_ctx, alone>>
          /\ sub_ctxs' = [sub_ctxs EXCEPT ![c] = {}]
      BY <2>2 DEF DestroyContext
    <3> QED BY <1>t, <3>1
  <2> QED BY <1>6, <2>1, <2>2
<1>7. ASSUME NEW c \in Ctxs, SubmitCmd(c) \/ Transfer(c) PROVE OverlayIsTheClient'
  BY <1>t, <1>7 DEF SubmitCmd, Transfer
<1>8. CASE UNCHANGED vars
  BY <1>t, <1>8 DEF vars
<1> QED
  BY <1>1, <1>2, <1>3, <1>4, <1>5, <1>6, <1>7, <1>8 DEF Next, SubCommand, QueryCommand

-----------------------------------------------------------------------------
\* The inductive invariant: what vrend_renderer.c knows of the GL context that is
\* current, and of the lists of sub-contexts and of waiting queries.
THEOREM Invariance == Spec => []Inv
<1>1. Init => Inv
  BY InvInit
<1>2. Inv /\ [Next]_vars => Inv'
  BY TypeStep, CtxStep, QueryStep, AnswerStep, OverlayStep DEF Inv, CtxInv, QueryInv
<1> QED
  BY <1>1, <1>2, PTL DEF Spec

\* vrend_hw_switch_context may skip make_current: whenever it is called, its
\* caches name the context that is current, for any number of contexts.
THEOREM CachesAreTrue == Spec => []CachesTrue
<1>1. Inv => CachesTrue
  BY DEF Inv
<1> QED
  BY Invariance, <1>1, PTL

\* Commands of vrend_decode_ctx_submit_cmd run in a GL context of their sender.
THEOREM OwnContext == Spec => []CommandsInOwnContext
<1>1. Inv => CommandsInOwnContext
  BY DEF Inv, CommandsInOwnContext, CachesTrue, SubsExist, DecodesCurrent, AllCtxs
<1> QED
  BY Invariance, <1>1, PTL

\* vrend_renderer_check_fences answers the queries before it reports the fences.
THEOREM AnswersComeFirst == Spec => []AnsweredBeforeReport
<1>1. Inv => AnsweredBeforeReport
  BY DEF Inv, AnsweredBeforeReport, RetiredAnswered
<1> QED
  BY Invariance, <1>1, PTL

\* No query outlives its sub-context on the waiting list, and no answer is read in
\* the GL context of another guest.
THEOREM NoQueryOutlives == Spec => []QueriesOfTheLiving
<1>1. Inv => QueriesOfTheLiving
  <2> SUFFICES ASSUME Inv PROVE QueriesOfTheLiving
    OBVIOUS
  <2>1. \A q \in waiting \cup unchecked : q \in Queries /\ qstate[q] # "none"
    BY DEF Inv, WaitingExist, TypeOK
  <2>2. \A q \in Queries : qstate[q] # "none" => owner[q] # Nowhere
    BY DEF Inv, OwnersAreGuests, Nowhere
  <2> QED BY <2>1, <2>2 DEF Inv, QueriesOfTheLiving, AnswersOwn, OwnersExist
<1> QED
  BY Invariance, <1>1, PTL

\* While clients come one at a time, overlay_ctx is the client's own context.
THEOREM OverlayIsOwn == Spec => []OverlayIsTheClient
<1>1. Inv => OverlayIsTheClient
  BY DEF Inv
<1> QED
  BY Invariance, <1>1, PTL

\* The variables keep their types.
THEOREM TypesAreKept == Spec => []TypeOK
<1>1. Inv => TypeOK
  BY DEF Inv
<1> QED
  BY Invariance, <1>1, PTL

=============================================================================
