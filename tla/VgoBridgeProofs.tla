--------------------------- MODULE VgoBridgeProofs ---------------------------
(***************************************************************************)
(* The bridge loses, doubles and reorders no click and no key and keeps    *)
(* the last shift, however many there are, whatever clients come and go    *)
(* and whenever a socket breaks.                                           *)
(***************************************************************************)
EXTENDS VgoBridge, SequenceTheorems, TLAPS

-----------------------------------------------------------------------------
(* Frames with at most one shift.                                           *)

OneShift(es) == \A i, j \in 1..Len(es) : es[i] = 0 /\ es[j] = 0 => i = j

LEMMA KeysWithout ==
  ASSUME NEW es \in Seq(Nat), ~Contains(es, 0)
  PROVE  Keys(es) = es
BY DEF Keys, RemoveFirst, Contains

LEMMA KeysWith ==
  ASSUME NEW es \in Seq(Nat), OneShift(es), NEW i \in 1..Len(es), es[i] = 0
  PROVE  Keys(es) = SubSeq(es, 1, i - 1) \o SubSeq(es, i + 1, Len(es))
<1> DEFINE I == {j \in 1..Len(es) : es[j] = 0}
<1>1. I = {i} /\ i \in Nat
  BY DEF OneShift
<1>2. Min(I) = i
  BY <1>1 DEF Min
<1>3. SelectInSeq(es, LAMBDA v : v = 0) = i
  BY <1>1, <1>2 DEF SelectInSeq
<1> QED BY <1>3 DEF Keys, RemoveFirst, RemoveAt

LEMMA KeysTyped ==
  ASSUME NEW es \in Seq(Nat), OneShift(es)
  PROVE  Keys(es) \in Seq(Nat)
<1>1. CASE ~Contains(es, 0)
  BY <1>1, KeysWithout
<1>2. CASE Contains(es, 0)
  <2>1. PICK i \in 1..Len(es) : es[i] = 0
    BY <1>2 DEF Contains
  <2>2. SubSeq(es, 1, i - 1) \in Seq(Nat) /\ SubSeq(es, i + 1, Len(es)) \in Seq(Nat)
    BY SubSeqProperties
  <2>3. Keys(es) = SubSeq(es, 1, i - 1) \o SubSeq(es, i + 1, Len(es))
    BY <2>1, KeysWith
  <2> QED BY <2>2, <2>3, ConcatProperties, SMTT(30)
<1> QED BY <1>1, <1>2

\* A click or key behind the others, as AddByteEvent and AddIntEvent put it.
LEMMA KeysAppend ==
  ASSUME NEW es \in Seq(Nat), OneShift(es), NEW n \in Nat \ {0}
  PROVE  /\ Append(es, n) \in Seq(Nat) /\ OneShift(Append(es, n))
         /\ Contains(Append(es, n), 0) <=> Contains(es, 0)
         /\ Keys(Append(es, n)) = Append(Keys(es), n)
<1> DEFINE t == Append(es, n)  l == Len(es)
<1>1. /\ t \in Seq(Nat) /\ Len(t) = l + 1 /\ l \in Nat /\ t[l + 1] = n
      /\ \A j \in 1..l : t[j] = es[j]
  BY AppendProperties
<1>2. OneShift(t) /\ (Contains(t, 0) <=> Contains(es, 0))
  BY <1>1 DEF OneShift, Contains
<1>3. CASE ~Contains(es, 0)
  BY <1>1, <1>2, <1>3, KeysWithout
<1>4. CASE Contains(es, 0)
  <2>1. PICK i \in 1..l : es[i] = 0
    BY <1>4 DEF Contains
  <2> DEFINE a == SubSeq(es, 1, i - 1)  b == SubSeq(es, i + 1, l)
             b1 == SubSeq(t, i + 1, l + 1)
  <2>2. Keys(es) = a \o b
    BY <2>1, KeysWith
  <2>3. Keys(t) = SubSeq(t, 1, i - 1) \o SubSeq(t, i + 1, l + 1)
    <3>1. i \in 1..Len(t) /\ t[i] = 0
      BY <1>1, <2>1
    <3> HIDE DEF t, l
    <3> QED BY <1>1, <1>2, <3>1, KeysWith
  <2>4. a \in Seq(Nat) /\ b \in Seq(Nat)
    BY SubSeqProperties
  <2>5. SubSeq(t, 1, i - 1) = a
    <3>1. /\ SubSeq(t, 1, i - 1) \in Seq(Nat) /\ Len(SubSeq(t, 1, i - 1)) = i - 1
          /\ \A j \in 1 .. i - 1 : SubSeq(t, 1, i - 1)[j] = t[j]
      BY <1>1, SubSeqProperties
    <3>2. Len(a) = i - 1 /\ \A j \in 1 .. i - 1 : a[j] = es[j]
      BY <1>1, SubSeqProperties
    <3> QED BY <1>1, <2>4, <3>1, <3>2, SeqEqual
  <2>6. b1 = Append(b, n)
    <3>1. /\ b1 \in Seq(Nat) /\ Len(b1) = l + 1 - i
          /\ \A j \in 1 .. l + 1 - i : b1[j] = t[i + j]
      BY <1>1, SubSeqProperties
    <3>2. Len(b) = l - i /\ \A j \in 1 .. l - i : b[j] = es[i + j]
      BY <1>1, SubSeqProperties
    <3>3. /\ Append(b, n) \in Seq(Nat) /\ Len(Append(b, n)) = l - i + 1
          /\ Append(b, n)[l - i + 1] = n /\ \A j \in 1 .. l - i : Append(b, n)[j] = b[j]
      BY <1>1, <2>4, <3>2, AppendProperties
    <3> DEFINE c == Append(b, n)
    <3>4. ASSUME NEW j \in 1 .. l + 1 - i PROVE b1[j] = c[j]
      <4>1. l - i \in Nat /\ l + 1 - i = l - i + 1 /\ i \in Nat
        BY <1>1
      <4> HIDE DEF b, b1, c
      <4>2. CASE j = l - i + 1
        <5>1. i + j = l + 1
          BY <1>1, <4>1, <4>2
        <5> QED BY <1>1, <3>1, <3>3, <4>1, <4>2, <5>1 DEF c
      <4>3. CASE j # l - i + 1
        <5>1. j \in 1 .. l - i /\ i + j \in 1..l
          BY <1>1, <4>1, <4>3
        <5> QED BY <1>1, <3>1, <3>2, <3>3, <5>1 DEF c
      <4> QED BY <4>2, <4>3
    <3>5. c \in Seq(Nat) /\ Len(c) = l + 1 - i /\ b1 \in Seq(Nat) /\ Len(b1) = l + 1 - i
      <4>1. l + 1 - i = l - i + 1
        BY <1>1
      <4> HIDE DEF b, b1, t, l
      <4> QED BY <3>1, <3>3, <4>1
    <3>6. b1 = c
      <4> HIDE DEF c, b1
      <4> QED BY <3>4, <3>5, SeqEqual
    <3> QED BY <3>6
  <2>7. a \o Append(b, n) = Append(a \o b, n)
    <3> HIDE DEF a, b
    <3> QED BY <2>4
  <2> QED BY <1>1, <1>2, <2>2, <2>3, <2>5, <2>6, <2>7
<1> QED BY <1>1, <1>2, <1>3, <1>4

\* The first shift of a frame, as SetEvent puts it.
LEMMA KeysShift ==
  ASSUME NEW es \in Seq(Nat), ~Contains(es, 0)
  PROVE  /\ Append(es, 0) \in Seq(Nat) /\ OneShift(Append(es, 0))
         /\ Contains(Append(es, 0), 0)
         /\ Keys(Append(es, 0)) = Keys(es)
<1> DEFINE t == Append(es, 0)  l == Len(es)
<1>1. /\ t \in Seq(Nat) /\ Len(t) = l + 1 /\ l \in Nat /\ t[l + 1] = 0
      /\ \A j \in 1..l : t[j] = es[j]
  BY AppendProperties
<1>2. OneShift(t) /\ Contains(t, 0)
  BY <1>1 DEF OneShift, Contains
<1>3. Keys(t) = SubSeq(t, 1, l) \o SubSeq(t, l + 2, l + 1)
  <2>1. PICK k \in 1..Len(t) : k = l + 1
    BY <1>1
  <2>2. k - 1 = l /\ k + 1 = l + 2 /\ Len(t) = l + 1 /\ t[k] = 0
    BY <1>1, <2>1
  <2> HIDE DEF t, l
  <2>3. Keys(t) = SubSeq(t, 1, k - 1) \o SubSeq(t, k + 1, Len(t))
    BY <1>1, <1>2, <2>2, KeysWith
  <2> QED BY <2>2, <2>3
<1>4. SubSeq(t, 1, l) = es /\ SubSeq(t, l + 2, l + 1) = <<>>
  <2>1. /\ SubSeq(t, 1, l) \in Seq(Nat) /\ Len(SubSeq(t, 1, l)) = l
        /\ \A j \in 1..l : SubSeq(t, 1, l)[j] = t[j]
    BY <1>1, SubSeqProperties
  <2>2. SubSeq(t, 1, l) = es
    BY <1>1, <2>1, SeqEqual
  <2> QED BY <1>1, <2>2
<1> QED BY <1>1, <1>2, <1>3, <1>4, KeysWithout

LEMMA KeysEmpty == OneShift(<<>>) /\ Keys(<<>>) = <<>> /\ ~Contains(<<>>, 0)
<1>1. <<>> \in Seq(Nat) /\ ~Contains(<<>>, 0) /\ OneShift(<<>>)
  BY DEF Contains, OneShift
<1> QED BY <1>1, KeysWithout

-----------------------------------------------------------------------------
(* The invariant.                                                           *)

Types ==
  /\ events \in Seq(Nat) /\ sent \in Seq(Nat)
  /\ added \in Nat /\ shifted \in Nat

\* What the bridge writes is the frame: the monitor keeps it as it was compiled.
Compiled == bridge \in {"header", "data"} => buffer = <<events, shift>>

FrameInv == Types /\ OneShift(events) /\ Compiled /\ FrameKept

LEMMA FrameInit == Init => FrameInv
<1> SUFFICES ASSUME Init PROVE FrameInv
  OBVIOUS
<1>1. events = <<>> /\ sent = <<>> /\ added = 0 /\ shifted = 0 /\ pointed = 0
      /\ bridge = "accept"
  BY DEF Init
<1>2. Pending = <<>> /\ ~Contains(events, 0) /\ OneShift(events)
  BY <1>1, KeysEmpty DEF Pending
<1>3. sent \o Pending = [i \in 1..added |-> i]
  BY <1>1, <1>2
<1> QED BY <1>1, <1>2, <1>3 DEF FrameInv, Types, Compiled, FrameKept

\* One more click or key.
LEMMA OneMore ==
  ASSUME NEW n \in Nat, NEW s \in Seq(Nat), s = [i \in 1..n |-> i]
  PROVE  Append(s, n + 1) = [i \in 1 .. n + 1 |-> i]
OBVIOUS

LEMMA AddStep == FrameInv /\ AddEvent => FrameInv'
<1> SUFFICES ASSUME FrameInv, AddEvent PROVE FrameInv'
  OBVIOUS
<1> USE DEF FrameInv, Types
<1>1. /\ bridge \notin {"header", "data", "flush"} /\ bridge' = bridge
      /\ added' = added + 1 /\ events' = Append(events, added + 1)
      /\ UNCHANGED <<shift, buffer, shifted, sent, pointed>>
  BY DEF AddEvent, Locked
<1>2. /\ events' \in Seq(Nat) /\ OneShift(events') /\ (Contains(events', 0) <=> Contains(events, 0))
      /\ Keys(events') = Append(Keys(events), added + 1)
  BY <1>1, KeysAppend
<1>3. sent' \o Pending' = [i \in 1..added' |-> i]
  <2>1. Keys(events) \in Seq(Nat) /\ sent \o Keys(events) = [i \in 1..added |-> i]
    BY <1>1, KeysTyped DEF FrameKept, Pending
  <2>2. sent \o Append(Keys(events), added + 1) = Append(sent \o Keys(events), added + 1)
    <3> DEFINE k == Keys(events)
    <3>1. k \in Seq(Nat)
      BY <2>1
    <3> HIDE DEF k
    <3>2. sent \o Append(k, added + 1) = Append(sent \o k, added + 1)
      BY <3>1
    <3> QED BY <3>2 DEF k
  <2>3. sent \o Keys(events) \in Seq(Nat)
    BY <2>1, ConcatProperties
  <2>4. Pending' = Append(Keys(events), added + 1)
    BY <1>1, <1>2 DEF Pending
  <2> QED BY <1>1, <2>1, <2>2, <2>3, <2>4, OneMore
<1>4. IF bridge' # "flush" /\ Contains(events', 0) THEN shift' = shifted' ELSE pointed' = shifted'
  BY <1>1, <1>2 DEF FrameKept
<1> QED BY <1>1, <1>2, <1>3, <1>4 DEF Compiled, FrameKept

LEMMA SetStep == FrameInv /\ SetEvent => FrameInv'
<1> SUFFICES ASSUME FrameInv, SetEvent PROVE FrameInv'
  OBVIOUS
<1> USE DEF FrameInv, Types
<1>1. /\ bridge \notin {"header", "data", "flush"} /\ bridge' = bridge
      /\ shifted' = shifted + 1 /\ shift' = shifted + 1
      /\ events' = IF Contains(events, 0) THEN events ELSE Append(events, 0)
      /\ UNCHANGED <<buffer, added, sent, pointed>>
  BY DEF SetEvent, Locked
<1>2. events' \in Seq(Nat) /\ OneShift(events') /\ Contains(events', 0) /\ Keys(events') = Keys(events)
  BY <1>1, KeysShift
<1>3. Compiled' /\ Types'
  BY <1>1, <1>2 DEF Compiled
<1>4. Pending' = Pending
  BY <1>1, <1>2 DEF Pending
<1>5. FrameKept'
  BY <1>1, <1>2, <1>4 DEF FrameKept
<1> QED BY <1>2, <1>3, <1>5

\* The whole frame goes to the socket in one write: what was pending is sent.
LEMMA WriteDataStep == FrameInv /\ WriteData => FrameInv'
<1> SUFFICES ASSUME FrameInv, WriteData PROVE FrameInv'
  OBVIOUS
<1> USE DEF FrameInv, Types
<1>1. /\ bridge = "data" /\ bridge' = "flush" /\ buffer = <<events, shift>>
      /\ sent' = sent \o Keys(events)
      /\ pointed' = IF Contains(events, 0) THEN shift ELSE pointed
      /\ UNCHANGED <<events, shift, added, shifted>>
  <2>1. bridge = "data" /\ bridge' = "flush" /\ buffer = <<events, shift>>
    BY DEF WriteData, Compiled
  <2>2. buffer[1] = events /\ buffer[2] = shift
    BY <2>1
  <2> QED BY <2>1, <2>2 DEF WriteData, frame, counts
<1>2. Keys(events) \in Seq(Nat) /\ sent \o Keys(events) = [i \in 1..added |-> i]
  BY <1>1, KeysTyped DEF FrameKept, Pending
<1>3. sent' \in Seq(Nat)
  BY <1>1, <1>2, ConcatProperties
<1>4. sent' \o Pending' = [i \in 1..added' |-> i]
  BY <1>1, <1>2, <1>3 DEF Pending
<1>5. pointed' = shifted'
  BY <1>1 DEF FrameKept
<1> QED BY <1>1, <1>3, <1>4, <1>5 DEF Compiled, FrameKept

LEMMA FlushStep == FrameInv /\ Flush => FrameInv'
<1> SUFFICES ASSUME FrameInv, Flush PROVE FrameInv'
  OBVIOUS
<1> USE DEF FrameInv, Types
<1>1. /\ bridge = "flush" /\ bridge' = "frame" /\ events' = <<>>
      /\ UNCHANGED <<shift, added, shifted, sent, pointed>>
  BY DEF Flush, counts
<1>2. ~Contains(events', 0) /\ OneShift(events') /\ Pending = <<>> /\ Pending' = <<>>
  BY <1>1, KeysEmpty DEF Pending
<1> QED BY <1>1, <1>2 DEF Compiled, FrameKept

\* Steps that leave the frame and what was sent alone, and do not end a flush.
LEMMA OtherSteps ==
  ASSUME FrameInv, UNCHANGED <<events, shift, added, shifted, sent, pointed>>,
         bridge' = "flush" <=> bridge = "flush",
         bridge' \in {"header", "data"} => buffer' = <<events, shift>>
  PROVE  FrameInv'
BY DEF FrameInv, Types, Compiled, FrameKept, Pending

LEMMA FrameStep == FrameInv /\ [Next]_vars => FrameInv'
<1> SUFFICES ASSUME FrameInv, [Next]_vars PROVE FrameInv'
  OBVIOUS
<1> USE DEF frame, counts
<1>1. CASE Touch
  BY <1>1, OtherSteps DEF Touch, FrameInv, Compiled
<1>2. CASE Ui
  BY <1>2, AddStep, SetStep DEF Ui
<1>3. CASE AcceptClient \/ AcceptFails \/ NapEnds
  BY <1>3, OtherSteps DEF AcceptClient, AcceptFails, NapEnds
<1>4. CASE Compile
  BY <1>4, OtherSteps DEF Compile
<1>5. CASE WriteHeader \/ WriteFails
  BY <1>5, OtherSteps DEF WriteHeader, WriteFails, FrameInv, Compiled
<1>6. CASE Connect \/ Read \/ HangUp
  BY <1>6, OtherSteps DEF Connect, Read, HangUp, FrameInv, Compiled
<1>7. CASE UNCHANGED vars
  BY <1>7, OtherSteps DEF vars, FrameInv, Compiled
<1> QED
  BY <1>1, <1>2, <1>3, <1>4, <1>5, <1>6, <1>7, WriteDataStep, FlushStep DEF Next, Bridge

\* Clicks and keys reach a socket once and in the order of the touches, whatever clients
\* come, hang up and break off, and the last shift is the one handed over last or is
\* still in the frame: the monitor of the frame makes SendData and Flush one step for
\* AddEvent and SetEvent, and a write that throws leaves the frame as it is.
THEOREM FrameKeptHolds == Spec => []FrameKept
<1>1. FrameInv => FrameKept
  BY DEF FrameInv
<1> QED BY FrameInit, FrameStep, <1>1, PTL DEF Spec
=============================================================================
