----------------------------- MODULE RingProofs -----------------------------
(***************************************************************************)
(* Proofs about Ring for every ring size, every set of messages and every  *)
(* set of read sizes: its types, the protocol of the shared flag, and that *)
(* it implements the two byte streams of ByteChannel.  Then the proof that *)
(* a session of RingSession, over any ring and with any set of commands,   *)
(* keeps its framing.                                                      *)
(***************************************************************************)
EXTENDS RingSession, SequenceTheorems, NaturalsInduction, WellFoundedInduction, TLAPS

-----------------------------------------------------------------------------
(* Index arithmetic                                                         *)

\* All that the proofs use of the assumption on the ring's size.
LEMMA SizeNat == Size \in Nat /\ Size > 1
BY SizeAssumption

\* Masking a sum or a difference of two indices, as ring.c does, gives an index.
LEMMA MaskInRange ==
  ASSUME NEW i \in Int, -Size <= i, i < 2 * Size
  PROVE  Mask(i) \in Indices
BY SizeNat DEF Mask, Indices

LEMMA SidesPeers == \A p \in Sides : Peer(p) \in Sides /\ Peer(p) # p /\ Peer(Peer(p)) = p
BY DEF Sides, Peer

\* What ring_write_partial stores fits the message, and the new write mark is an index.
LEMMA PieceFacts ==
  ASSUME TypeOK, NEW p \in Sides
  PROVE  /\ Piece(p) \in Nat
         /\ Piece(p) <= Len(src[p])
         /\ Mask(wr[p] + Piece(p)) \in Indices
<1>1. mark[p] \in Indices /\ wr[p] \in Indices /\ Len(src[p]) \in Nat
  BY DEF TypeOK
<1>2. Mask(mark[p] - wr[p] - 1) \in Indices
  BY <1>1, SizeNat, MaskInRange, SMTT(30) DEF Indices
<1>3. Piece(p) \in Nat /\ Piece(p) <= Len(src[p]) /\ Piece(p) < Size
  BY <1>1, <1>2, SizeNat DEF Piece, Smaller, Indices
<1>4. Mask(wr[p] + Piece(p)) \in Indices
  BY <1>1, <1>3, SizeNat, MaskInRange DEF Indices
<1> QED BY <1>3, <1>4

\* What ring_read_partial takes is wanted, and the new read mark is an index.
LEMMA ChunkFacts ==
  ASSUME TypeOK, NEW p \in Sides
  PROVE  /\ Chunk(p) \in Nat
         /\ Chunk(p) <= want[p]
         /\ Chunk(p) < Size
         /\ Mask(rd[Peer(p)] + Chunk(p)) \in Indices
<1>1. mark[p] \in Indices /\ rd[Peer(p)] \in Indices /\ want[p] \in Nat
  BY SidesPeers DEF TypeOK
<1>2. Mask(mark[p] - rd[Peer(p)]) \in Indices
  BY <1>1, SizeNat, MaskInRange DEF Indices
<1>3. Chunk(p) \in Nat /\ Chunk(p) <= want[p] /\ Chunk(p) < Size
  BY <1>1, <1>2, SizeNat DEF Chunk, Smaller, Indices
<1>4. Mask(rd[Peer(p)] + Chunk(p)) \in Indices
  BY <1>1, <1>3, SizeNat, MaskInRange DEF Indices
<1> QED BY <1>3, <1>4

\* A slice of a ring is a sequence of bytes.
LEMMA SliceType ==
  ASSUME TypeOK, NEW q \in Sides, NEW i \in Indices, NEW n \in Nat, n <= Size
  PROVE  Slice(q, i, n) \in Seq(Nat) /\ Len(Slice(q, i, n)) = n
<1>1. ASSUME NEW k \in 1..n PROVE buf[q][Mask(i + k - 1)] \in Nat
  <2>1. Mask(i + k - 1) \in Indices
    BY SizeNat, MaskInRange DEF Indices
  <2> QED BY <2>1 DEF TypeOK
<1>2. Slice(q, i, n) \in [1..n -> Nat]
  BY <1>1 DEF Slice
<1> QED BY <1>2

-----------------------------------------------------------------------------
(* Types                                                                    *)

LEMMA TypeInit == Init => TypeOK
BY SizeNat DEF Init, TypeOK, Indices, PCs, Sides

LEMMA GotoType ==
  ASSUME TypeOK, NEW p \in Sides, NEW from, NEW to \in PCs, Goto(p, from, to)
  PROVE  pc' \in [Sides -> PCs]
BY DEF TypeOK, Goto

LEMMA PostByteType ==
  ASSUME TypeOK, NEW p \in Sides, NEW from, NEW to, PostByte(p, from, to)
  PROVE  fd' \in [Sides -> Nat]
<1>1. CASE fd' = fd
  BY <1>1 DEF TypeOK
<1>2. CASE fd' = [fd EXCEPT ![Peer(p)] = @ + 1]
  <2>1. fd \in [Sides -> Nat]
    BY DEF TypeOK
  <2>2. fd[Peer(p)] + 1 \in Nat
    BY <2>1, SidesPeers
  <2> QED BY <1>2, <2>1, <2>2
<1> QED BY <1>1, <1>2 DEF PostByte

\* ring_write keeps the types.
LEMMA WritingType ==
  ASSUME TypeOK, NEW p \in Sides, Writing(p) PROVE TypeOK'
<1> USE DEF PCs
<1>1. AfterPiece(Len(src[p])) \in PCs /\ AfterPiece(Len(src[p]) - Piece(p)) \in PCs
  BY DEF AfterPiece
<1>2. CASE WriteLoad(p)
  BY <1>2, GotoType DEF WriteLoad, TypeOK, shared
<1>3. CASE WriteCopy(p)
  <2>1. ASSUME NEW i \in Indices, Mask(i - wr[p]) < Piece(p)
        PROVE  src[p][Mask(i - wr[p]) + 1] \in Nat
    <3>1. wr[p] \in Indices
      BY DEF TypeOK
    <3>2. i - wr[p] \in Int /\ -Size <= i - wr[p] /\ i - wr[p] < 2 * Size
      BY <3>1, SizeNat DEF Indices
    <3>3. Mask(i - wr[p]) \in Indices
      BY <3>2, MaskInRange
    <3>4. Mask(i - wr[p]) + 1 \in 1..Len(src[p])
      BY <2>1, <3>3, PieceFacts, SizeNat DEF Indices
    <3> QED BY <3>4 DEF TypeOK
  <2>2. buf' \in [Sides -> [Indices -> Nat]]
    BY <1>3, <2>1 DEF WriteCopy, TypeOK
  <2> QED BY <1>3, <2>2, GotoType DEF WriteCopy, TypeOK
<1>4. CASE WritePublish(p)
  <2>1. SubSeq(src[p], Piece(p) + 1, Len(src[p])) \in Seq(Nat)
    BY PieceFacts, SubSeqProperties, SMTT(30) DEF TypeOK
  <2>2. src' \in [Sides -> Seq(Nat)] /\ wr' \in [Sides -> Indices]
    BY <1>4, <2>1, PieceFacts DEF WritePublish, TypeOK
  <2>3. pc' \in [Sides -> PCs]
    BY <1>1, <1>4, GotoType DEF WritePublish
  <2> QED BY <1>4, <2>2, <2>3 DEF WritePublish, TypeOK
<1>5. CASE PostFlag(p, "write_post", "write_byte", AfterPiece(Len(src[p])))
  <2>1. pc' \in [Sides -> PCs]
    BY <1>1, <1>5, GotoType DEF PostFlag
  <2> QED BY <1>5, <2>1 DEF PostFlag, TypeOK
<1>6. CASE PostByte(p, "write_byte", AfterPiece(Len(src[p])))
  <2>1. pc' \in [Sides -> PCs]
    BY <1>1, <1>6, GotoType DEF PostByte
  <2> QED BY <1>6, <2>1, PostByteType DEF PostByte, TypeOK
<1> QED BY <1>2, <1>3, <1>4, <1>5, <1>6 DEF Writing

\* ring_read and ring_wait keep the types.
LEMMA ReadingType ==
  ASSUME TypeOK, NEW p \in Sides, Reading(p) PROVE TypeOK'
<1> USE SidesPeers DEF PCs
<1>1. CASE ReadLoad(p)
  BY <1>1, GotoType DEF ReadLoad, TypeOK, shared
<1>2. CASE ReadSync(p)
  BY <1>2, GotoType DEF ReadSync, TypeOK, shared
<1>3. CASE ReadReload(p)
  BY <1>3, GotoType DEF ReadReload, TypeOK, shared
<1>4. CASE ReadCopy(p)
  <2>1. Slice(Peer(p), rd[Peer(p)], Chunk(p)) \in Seq(Nat)
    <3>1. rd[Peer(p)] \in Indices
      BY DEF TypeOK
    <3> QED BY <3>1, SliceType, ChunkFacts, SizeNat
  <2>2. dst' \in [Sides -> Seq(Nat)]
    BY <1>4, <2>1 DEF ReadCopy, TypeOK
  <2> QED BY <1>4, <2>2, GotoType DEF ReadCopy, TypeOK, shared
<1>5. CASE ReadAdvance(p)
  <2>1. want[p] - Chunk(p) \in Nat
    <3>1. want[p] \in Nat
      BY DEF TypeOK
    <3> QED BY <3>1, ChunkFacts
  <2>2. want' \in [Sides -> Nat] /\ rd' \in [Sides -> Indices]
    BY <1>5, <2>1, ChunkFacts DEF ReadAdvance, TypeOK
  <2>3. pc' \in [Sides -> PCs]
    BY <1>5, GotoType DEF ReadAdvance
  <2> QED BY <1>5, <2>2, <2>3 DEF ReadAdvance, TypeOK
<1>6. CASE WaitFlag(p)
  BY <1>6, GotoType DEF WaitFlag, TypeOK
<1>7. CASE PostFlag(p, "wait_post", "wait_byte", "read_sync")
  <2>1. pc' \in [Sides -> PCs]
    BY <1>7, GotoType DEF PostFlag
  <2> QED BY <1>7, <2>1 DEF PostFlag, TypeOK
<1>8. CASE PostByte(p, "wait_byte", "read_sync")
  <2>1. pc' \in [Sides -> PCs]
    BY <1>8, GotoType DEF PostByte
  <2> QED BY <1>8, <2>1, PostByteType DEF PostByte, TypeOK
<1>9. CASE WaitBlock(p)
  <2>1. fd' \in [Sides -> Nat]
    BY <1>9 DEF WaitBlock, TypeOK
  <2> QED BY <1>9, <2>1, GotoType DEF WaitBlock, TypeOK
<1> QED
  BY <1>1, <1>2, <1>3, <1>4, <1>5, <1>6, <1>7, <1>8, <1>9 DEF Reading

\* Any caller may pass any bytes to ring_write and any size to ring_read.
LEMMA BeginWriteType ==
  ASSUME TypeOK, NEW p \in Sides, NEW m \in Seq(Nat), BeginWrite(p, m) PROVE TypeOK'
BY GotoType DEF BeginWrite, TypeOK, shared, PCs

LEMMA BeginReadType ==
  ASSUME TypeOK, NEW p \in Sides, NEW n \in Nat, BeginRead(p, n) PROVE TypeOK'
<1>1. pc' \in [Sides -> PCs] /\ <<>> \in Seq(Nat)
  BY GotoType DEF BeginRead, PCs
<1> QED BY <1>1 DEF BeginRead, TypeOK, shared

LEMMA TypeStep == TypeOK /\ [Next]_vars => TypeOK'
<1> SUFFICES ASSUME TypeOK, [Next]_vars PROVE TypeOK'
  OBVIOUS
<1>1. ASSUME NEW p \in Sides, Call(p) PROVE TypeOK'
  BY <1>1, CallersAssumption, BeginWriteType, BeginReadType DEF Call
<1>2. ASSUME NEW p \in Sides, Disconnect(p) PROVE TypeOK'
  BY <1>2 DEF Disconnect, TypeOK, local
<1>3. CASE UNCHANGED vars
  BY <1>3 DEF vars, shared, local, TypeOK
<1> QED BY <1>1, <1>2, <1>3, WritingType, ReadingType DEF Next

\* All indices stay inside the ring and all buffers hold bytes, for all sizes.
THEOREM TypeCorrect == Spec => []TypeOK
<1> QED BY TypeInit, TypeStep, PTL DEF Spec

-----------------------------------------------------------------------------
(* Going to sleep and waking up                                             *)

\* Inductive: the two sides' sleep is told by the flag, the byte and the step of
\* ring_post between the two, and by exactly one of the three at a time.
WakeInv == TypeOK /\ NoBothAsleep /\ OneWakeUp /\ FlagMeansAsleep

LEMMA TwoSides ==
  ASSUME NEW p \in Sides
  PROVE  \A s \in Sides : s = p \/ s = Peer(p)
BY DEF Sides, Peer

LEMMA WakeInit == Init => WakeInv
<1> SUFFICES ASSUME Init PROVE WakeInv
  OBVIOUS
<1>1. TypeOK
  BY TypeInit
<1>2. \A p \in Sides : pc[p] = "idle" /\ fd[p] = 0 /\ waiting = 0
  BY DEF Init
<1>3. \A p \in Sides : ~WakeSent(p) /\ ~Asleep(p) /\ ~Waking(p)
  BY <1>2, SidesPeers DEF WakeSent, Asleep, Waking
<1> QED
  BY <1>1, <1>2, <1>3 DEF WakeInv, NoBothAsleep, OneWakeUp, FlagMeansAsleep, Sides

\* Every step of ring.c outside ring_wait and ring_post.
LEMMA OtherSteps ==
  ASSUME WakeInv, TypeOK', NEW p \in Sides, NEW from, NEW to, Goto(p, from, to),
         UNCHANGED <<waiting, fd, alive>>,
         from \notin {"wait_block", "write_byte", "wait_byte"},
         to \notin {"wait_block", "write_byte", "wait_byte"}
  PROVE  WakeInv'
<1>1. pc[p] = from /\ pc'[p] = to /\ pc'[Peer(p)] = pc[Peer(p)]
  BY SidesPeers DEF Goto, WakeInv, TypeOK
<1>2. \A s \in Sides : /\ Waking(s)' <=> Waking(s)
                       /\ pc'[s] = "wait_block" <=> pc[s] = "wait_block"
  BY <1>1, TwoSides DEF Waking
<1>3. \A s \in Sides : (WakeSent(s)' <=> WakeSent(s)) /\ (Asleep(s)' <=> Asleep(s))
  BY <1>2, SidesPeers DEF WakeSent, Asleep
<1> QED
  BY <1>2, <1>3, SidesPeers DEF WakeInv, NoBothAsleep, OneWakeUp, FlagMeansAsleep,
     Connected, Sides

\* The compare-and-swap of ring_post: it only ever clears the flag of the peer.
LEMMA PostFlagStep ==
  ASSUME WakeInv, TypeOK', NEW p \in Sides, NEW from, NEW send, NEW skip,
         PostFlag(p, from, send, skip),
         from \notin {"wait_block", "write_byte", "wait_byte"},
         send \in {"write_byte", "wait_byte"},
         skip \notin {"wait_block", "write_byte", "wait_byte"}
  PROVE  WakeInv'
<1> DEFINE q == Peer(p)
<1>1. CASE waiting # 1
  <2>1. waiting = 0
    BY <1>1 DEF WakeInv, TypeOK
  <2> QED BY <1>1, <2>1, OtherSteps DEF PostFlag
<1>2. CASE waiting = 1 /\ Connected
  <2>1. pc[p] = from /\ pc'[p] = send /\ pc'[q] = pc[q] /\ fd' = fd /\ waiting' = 0
        /\ alive' = alive
    BY <1>2, SidesPeers DEF PostFlag, Goto, WakeInv, TypeOK
  <2>2. Asleep(q)
    BY <1>2, <2>1, TwoSides DEF WakeInv, FlagMeansAsleep, Asleep
  <2>3. pc[q] = "wait_block" /\ fd[q] = 0 /\ ~Waking(p)
    BY <2>2, SidesPeers, SMTT(30) DEF Asleep, WakeSent, WakeInv, TypeOK
  <2>4. ~WakeSent(p) /\ fd[p] = 0
    BY <1>2, <2>1, SidesPeers DEF WakeInv, OneWakeUp, WakeSent, TypeOK
  <2>5. Waking(p)' /\ ~Waking(q)'
    BY <2>1, <2>3 DEF Waking
  <2>6. WakeSent(q)' /\ ~WakeSent(p)'
    BY <2>1, <2>4, <2>5, SidesPeers DEF WakeSent
  <2>7. ~Asleep(p)' /\ ~Asleep(q)'
    BY <2>1, <2>6 DEF Asleep
  <2>8. NoBothAsleep' /\ FlagMeansAsleep'
    BY <2>1, <2>7, TwoSides DEF NoBothAsleep, FlagMeansAsleep, Sides
  <2>9. OneWakeUp'
    BY <2>1, <2>3, <2>4, <2>5, <2>6, TwoSides, SidesPeers DEF OneWakeUp
  <2> QED BY <2>8, <2>9 DEF WakeInv
<1>3. CASE ~Connected
  BY <1>3 DEF PostFlag, WakeInv, NoBothAsleep, OneWakeUp, FlagMeansAsleep, Connected
<1> QED BY <1>1, <1>2, <1>3

\* The write of ring_post: the sleeper it was meant for has not moved.
LEMMA PostByteStep ==
  ASSUME WakeInv, TypeOK', NEW p \in Sides, NEW from, NEW to, PostByte(p, from, to),
         from \in {"write_byte", "wait_byte"},
         to \notin {"wait_block", "write_byte", "wait_byte"}
  PROVE  WakeInv'
<1> DEFINE q == Peer(p)
<1>1. CASE ~Connected
  BY <1>1 DEF PostByte, WakeInv, NoBothAsleep, OneWakeUp, FlagMeansAsleep, Connected
<1>2. CASE Connected
  <2>1. /\ pc[p] = from /\ pc'[p] = to /\ pc'[q] = pc[q]
        /\ fd'[q] = fd[q] + 1 /\ fd'[p] = fd[p]
        /\ waiting' = waiting
    BY <1>2, SidesPeers DEF PostByte, Goto, WakeInv, TypeOK, Connected
  <2>2. Waking(p) /\ WakeSent(q)
    BY <2>1, SidesPeers DEF Waking, WakeSent
  <2>3. pc[q] = "wait_block" /\ fd[q] = 0 /\ ~Waking(q)
    <3>1. pc[q] = "wait_block" /\ ~(fd[q] > 0 /\ Waking(p))
      BY <1>2, <2>2, SidesPeers DEF WakeInv, OneWakeUp
    <3> QED BY <2>2, <3>1, SidesPeers, SMTT(30) DEF WakeInv, TypeOK, Waking
  <2>4. ~WakeSent(p) /\ fd[p] = 0
    <3>1. ~WakeSent(p)
      BY <1>2, <2>1, SidesPeers DEF WakeInv, OneWakeUp
    <3> QED BY <3>1, SidesPeers DEF WakeSent, WakeInv, TypeOK
  <2>5. ~Asleep(p) /\ ~Asleep(q) /\ ~Asleep(p)' /\ ~Asleep(q)'
    BY <2>1, <2>2, <2>3 DEF Asleep, WakeSent
  <2>6. NoBothAsleep' /\ FlagMeansAsleep'
    BY <1>2, <2>1, <2>5, TwoSides, SidesPeers DEF WakeInv, NoBothAsleep, FlagMeansAsleep, Sides
  <2>7. ~Waking(p)' /\ ~Waking(q)' /\ WakeSent(q)' /\ ~WakeSent(p)'
    BY <2>1, <2>3, <2>4, SidesPeers DEF Waking, WakeSent
  <2>8. OneWakeUp'
    BY <2>1, <2>3, <2>4, <2>7, TwoSides, SidesPeers DEF OneWakeUp
  <2> QED BY <2>6, <2>8 DEF WakeInv
<1> QED BY <1>1, <1>2

\* The test-and-set of ring_wait.
LEMMA WaitFlagStep ==
  ASSUME WakeInv, TypeOK', NEW p \in Sides, WaitFlag(p)
  PROVE  WakeInv'
<1> DEFINE q == Peer(p)
<1>1. CASE ~Connected
  BY <1>1 DEF WaitFlag, WakeInv, NoBothAsleep, OneWakeUp, FlagMeansAsleep, Connected
<1>2. CASE waiting = 1
  BY <1>2, OtherSteps DEF WaitFlag
<1>3. CASE waiting # 1 /\ Connected
  <2>1. /\ pc[p] = "wait_flag" /\ pc'[p] = "wait_block" /\ pc'[q] = pc[q]
        /\ fd' = fd /\ waiting' = 1
    BY <1>3, SidesPeers DEF WaitFlag, Goto, WakeInv, TypeOK
  <2>2. ~Asleep(q) /\ ~WakeSent(p)
    BY <1>3, <2>1, SidesPeers DEF WakeInv, FlagMeansAsleep, OneWakeUp
  <2>3. ~WakeSent(p)' /\ (WakeSent(q)' <=> WakeSent(q)) /\ ~Waking(p) /\ ~Waking(p)'
        /\ (Waking(q)' <=> Waking(q))
    BY <2>1, <2>2, SidesPeers DEF WakeSent, Waking
  <2>4. Asleep(p)' /\ ~Asleep(q)'
    BY <2>1, <2>2, <2>3 DEF Asleep
  <2>5. NoBothAsleep' /\ FlagMeansAsleep'
    BY <2>1, <2>4, TwoSides, SidesPeers DEF NoBothAsleep, FlagMeansAsleep, Sides
  <2>6. fd[p] <= 1 /\ fd[q] <= 1 /\ (WakeSent(q) => pc[q] = "wait_block")
    BY <1>3, SidesPeers DEF WakeInv, OneWakeUp
  <2>7. OneWakeUp'
    BY <2>1, <2>2, <2>3, <2>6, TwoSides, SidesPeers DEF OneWakeUp, WakeSent
  <2> QED BY <2>5, <2>7 DEF WakeInv
<1> QED BY <1>1, <1>2, <1>3

\* The read in ring_wait: one byte at most, and after it nothing is pending.
LEMMA WaitBlockStep ==
  ASSUME WakeInv, TypeOK', NEW p \in Sides, WaitBlock(p)
  PROVE  WakeInv'
<1> DEFINE q == Peer(p)
<1>1. CASE ~Connected
  BY <1>1 DEF WaitBlock, WakeInv, NoBothAsleep, OneWakeUp, FlagMeansAsleep, Connected
<1>2. CASE Connected
  <2>1. fd[p] = 1 /\ ~Waking(q)
    BY <1>2, SidesPeers DEF WaitBlock, Connected, WakeInv, OneWakeUp, TypeOK
  <2>2. /\ pc[p] = "wait_block" /\ pc'[p] = "read_sync" /\ pc'[q] = pc[q]
        /\ fd'[p] = 0 /\ fd'[q] = fd[q] /\ waiting' = waiting
    <3>1. pc' = [pc EXCEPT ![p] = "read_sync"] /\ pc[p] = "wait_block"
      BY <2>1 DEF WaitBlock, Goto
    <3>2. fd' = [fd EXCEPT ![p] = 0] /\ waiting' = waiting
      BY <2>1 DEF WaitBlock
    <3> QED BY <3>1, <3>2, SidesPeers DEF WakeInv, TypeOK
  <2>3. ~Asleep(p) /\ ~Asleep(p)' /\ ~WakeSent(p)' /\ ~Waking(p) /\ ~Waking(p)'
        /\ ~Waking(q)'
    BY <2>1, <2>2 DEF Asleep, WakeSent, Waking
  <2>4. (WakeSent(q)' <=> WakeSent(q)) /\ (Asleep(q)' <=> Asleep(q))
    BY <2>2, <2>3, SidesPeers DEF Asleep, WakeSent
  <2>5. NoBothAsleep' /\ FlagMeansAsleep'
    BY <1>2, <2>2, <2>3, <2>4, TwoSides, SidesPeers
       DEF WakeInv, NoBothAsleep, FlagMeansAsleep, Sides
  <2>6. fd[q] <= 1 /\ (WakeSent(q) => pc[q] = "wait_block")
    BY <1>2, SidesPeers DEF WakeInv, OneWakeUp
  <2>7. OneWakeUp'
    BY <2>2, <2>3, <2>4, <2>6, TwoSides, SidesPeers DEF OneWakeUp
  <2> QED BY <2>5, <2>7 DEF WakeInv
<1> QED BY <1>1, <1>2

\* The steps of ring_write and ring_read.
LEMMA WakeRingStep ==
  ASSUME WakeInv, TypeOK', NEW p \in Sides, Writing(p) \/ Reading(p)
  PROVE  WakeInv'
<1>1. CASE Writing(p)
  <2>1. \A n : AfterPiece(n) \notin {"wait_block", "write_byte", "wait_byte"}
    BY DEF AfterPiece
  <2>2. CASE WriteLoad(p) \/ WriteCopy(p)
    BY <2>2, OtherSteps DEF WriteLoad, WriteCopy, shared
  <2>3. CASE WritePublish(p)
    BY <2>1, <2>3, OtherSteps DEF WritePublish
  <2>4. CASE PostFlag(p, "write_post", "write_byte", AfterPiece(Len(src[p])))
    BY <2>1, <2>4, PostFlagStep
  <2>5. CASE PostByte(p, "write_byte", AfterPiece(Len(src[p])))
    BY <2>1, <2>5, PostByteStep
  <2> QED BY <1>1, <2>2, <2>3, <2>4, <2>5 DEF Writing
<1>2. CASE Reading(p)
  <2>1. CASE ReadLoad(p) \/ ReadSync(p) \/ ReadReload(p) \/ ReadCopy(p)
    BY <2>1, OtherSteps DEF ReadLoad, ReadSync, ReadReload, ReadCopy, shared
  <2>2. CASE ReadAdvance(p)
    BY <2>2, OtherSteps DEF ReadAdvance
  <2>3. CASE WaitFlag(p)
    BY <2>3, WaitFlagStep
  <2>4. CASE PostFlag(p, "wait_post", "wait_byte", "read_sync")
    BY <2>4, PostFlagStep
  <2>5. CASE PostByte(p, "wait_byte", "read_sync")
    BY <2>5, PostByteStep
  <2>6. CASE WaitBlock(p)
    BY <2>6, WaitBlockStep
  <2> QED BY <1>2, <2>1, <2>2, <2>3, <2>4, <2>5, <2>6 DEF Reading
<1> QED BY <1>1, <1>2

LEMMA WakeStep == WakeInv /\ [Next]_vars => WakeInv'
<1> SUFFICES ASSUME WakeInv, [Next]_vars PROVE WakeInv'
  OBVIOUS
<1>1. TypeOK'
  BY TypeStep DEF WakeInv
<1>2. ASSUME NEW p \in Sides, Call(p) PROVE WakeInv'
  BY <1>1, <1>2, OtherSteps DEF Call, BeginWrite, BeginRead, shared
<1>3. ASSUME NEW p \in Sides, Writing(p) \/ Reading(p) PROVE WakeInv'
  BY <1>1, <1>3, WakeRingStep
<1>4. ASSUME NEW p \in Sides, Disconnect(p) PROVE WakeInv'
  <2>1. ~Connected'
    BY <1>4 DEF Disconnect, Connected, WakeInv, TypeOK
  <2> QED BY <1>1, <2>1 DEF WakeInv, NoBothAsleep, OneWakeUp, FlagMeansAsleep
<1>5. CASE UNCHANGED vars
  BY <1>1, <1>5 DEF vars, shared, local, WakeInv, NoBothAsleep, OneWakeUp,
     FlagMeansAsleep, Connected, Asleep, WakeSent, Waking
<1> QED BY <1>2, <1>3, <1>4, <1>5 DEF Next

\* The protocol of ring_wait and ring_post, in the form that each step preserves.
THEOREM WakeInvariant == Spec => []WakeInv
<1> QED BY WakeInit, WakeStep, PTL DEF Spec

\* The two sides never sleep on each other: ring_wait and ring_post, racing on one
\* flag, always leave one side awake or about to be woken.
THEOREM NeverBothAsleep == Spec => []NoBothAsleep
<1>1. WakeInv => NoBothAsleep
  BY DEF WakeInv
<1> QED BY <1>1, WakeInvariant, PTL

\* A wake-up is sent once and only to a sleeper, so the socket never holds two.
THEOREM WakeUpsAreSingle == Spec => []OneWakeUp
<1>1. WakeInv => OneWakeUp
  BY DEF WakeInv
<1> QED BY <1>1, WakeInvariant, PTL

\* The flag is raised exactly while a side sleeps that nobody is waking.
THEOREM FlagIsSound == Spec => []FlagMeansAsleep
<1>1. WakeInv => FlagMeansAsleep
  BY DEF WakeInv
<1> QED BY <1>1, WakeInvariant, PTL

\* Together: the flag, the byte and the sleepers always agree.
THEOREM FlagProtocolHolds == Spec => []FlagProtocol
<1>1. WakeInv => FlagProtocol
  BY DEF WakeInv, FlagProtocol
<1> QED BY <1>1, WakeInvariant, PTL

-----------------------------------------------------------------------------
(* The two byte streams.  A reader and a writer work with an index of the  *)
(* other side that may be stale; the argument is that a stale index only   *)
(* ever shows less than there is.  First, distances on the ring.           *)

\* How far index a is ahead of index b.
Gap(a, b) == Mask(a - b)

LEMMA GapRange ==
  ASSUME NEW a \in Indices, NEW b \in Indices
  PROVE  /\ Gap(a, b) \in Indices /\ Gap(a, b) \in Nat /\ Gap(a, b) < Size
         /\ (Gap(a, b) = 0 <=> a = b)
BY SizeNat DEF Gap, Mask, Indices

\* Moving the front or the back of a stretch by n places.
LEMMA GapMoves ==
  ASSUME NEW a \in Indices, NEW b \in Indices, NEW n \in Nat
  PROVE  /\ Gap(a, b) + n < Size => Gap(Mask(a + n), b) = Gap(a, b) + n
         /\ n <= Gap(a, b) => Gap(a, Mask(b + n)) = Gap(a, b) - n
         /\ n < Size => Mask(a + n) \in Indices /\ Gap(Mask(a + n), a) = n
BY SizeNat DEF Gap, Mask, Indices

\* The room that ring_write_partial computes ends one place before readmark.
LEMMA RoomIs ==
  ASSUME NEW a \in Indices, NEW b \in Indices
  PROVE  Mask(b - a - 1) = Size - 1 - Gap(a, b)
BY SizeNat DEF Gap, Mask, Indices

LEMMA MaskTwice ==
  ASSUME NEW a \in Indices, NEW m \in Nat, NEW n \in Nat, m + n < Size
  PROVE  Mask(Mask(a + m) + n) = Mask(a + (m + n))
BY SizeNat DEF Mask, Indices

\* The places of the stretch from b to a are behind a, seen from a.
LEMMA Behind ==
  ASSUME NEW a \in Indices, NEW b \in Indices, NEW k \in Nat, k < Gap(a, b)
  PROVE  Mask(b + k) \in Indices /\ Gap(Mask(b + k), a) = Size - Gap(a, b) + k
BY SizeNat DEF Gap, Mask, Indices

-----------------------------------------------------------------------------
(* The invariant.                                                           *)

WritePCs == {"write_load", "write_copy", "write_publish", "write_post", "write_byte"}

ReadPCs == PCs \ (WritePCs \cup {"idle"})

\* Reader p, of the ring that q writes.
ReaderOK(p, q) ==
  /\ IF pc[p] \in ReadPCs THEN want[p] >= 1 ELSE want[p] = 0
  /\ pc[p] = "read_reload" => wr[q] # rd[q]
  /\ pc[p] \in {"read_copy", "read_advance"} =>
       mark[p] # rd[q] /\ Gap(mark[p], rd[q]) <= Gap(wr[q], rd[q])

\* Writer p: its mark shows no more room than there is, and what it copied is there.
WriterOK(p) ==
  /\ pc[p] \notin WritePCs => src[p] = <<>>
  /\ pc[p] \in {"write_copy", "write_publish"} =>
       Gap(wr[p], rd[p]) <= Gap(wr[p], mark[p])
  /\ pc[p] = "write_publish" =>
       \A k \in 1..Piece(p) : buf[p][Mask(wr[p] + k - 1)] = src[p][k]

StreamInv == TypeOK /\ \A p \in Sides : ReaderOK(p, Peer(p)) /\ WriterOK(p)

LEMMA StreamInit == Init => StreamInv
<1> SUFFICES ASSUME Init PROVE StreamInv
  OBVIOUS
<1>1. \A p \in Sides : pc[p] = "idle" /\ src[p] = <<>> /\ want[p] = 0
  BY DEF Init
<1> QED BY <1>1, TypeInit DEF StreamInv, ReaderOK, WriterOK, WritePCs, ReadPCs

\* A piece fits between the write mark and what the peer may still read.
LEMMA PieceFits ==
  ASSUME StreamInv, NEW p \in Sides, pc[p] \in {"write_copy", "write_publish"}
  PROVE  /\ Piece(p) \in Nat /\ Piece(p) <= Len(src[p])
         /\ Gap(wr[p], rd[p]) + Piece(p) < Size
<1>1. TypeOK /\ wr[p] \in Indices /\ rd[p] \in Indices /\ mark[p] \in Indices
  BY DEF StreamInv, TypeOK
<1>2. Piece(p) \in Nat /\ Piece(p) <= Len(src[p])
  BY <1>1, PieceFacts
<1>3. Gap(wr[p], rd[p]) <= Gap(wr[p], mark[p])
  BY DEF StreamInv, WriterOK
<1>4. Len(src[p]) \in Nat
  BY <1>1 DEF TypeOK
<1>5. Piece(p) <= Size - 1 - Gap(wr[p], mark[p])
  <2>1. Mask(mark[p] - wr[p] - 1) = Size - 1 - Gap(wr[p], mark[p])
    BY <1>1, RoomIs
  <2>2. Gap(wr[p], mark[p]) \in Nat
    BY <1>1, GapRange
  <2> QED BY <1>4, <2>1, <2>2, SizeNat DEF Piece, Smaller
<1> QED BY <1>1, <1>2, <1>3, <1>5, GapRange, SizeNat

\* A chunk is not empty and is no more than what is in the ring.
LEMMA ChunkFits ==
  ASSUME StreamInv, NEW p \in Sides, pc[p] \in {"read_copy", "read_advance"}
  PROVE  /\ Chunk(p) \in Nat /\ Chunk(p) >= 1 /\ Chunk(p) <= want[p]
         /\ Chunk(p) <= Gap(wr[Peer(p)], rd[Peer(p)])
<1> DEFINE q == Peer(p)
<1>1. TypeOK /\ wr[q] \in Indices /\ rd[q] \in Indices /\ mark[p] \in Indices /\ want[p] \in Nat
  BY SidesPeers DEF StreamInv, TypeOK
<1>2. /\ want[p] >= 1 /\ mark[p] # rd[q]
      /\ Gap(mark[p], rd[q]) <= Gap(wr[q], rd[q])
  BY DEF StreamInv, ReaderOK, ReadPCs, WritePCs, PCs
<1>3. Gap(mark[p], rd[q]) \in Nat /\ Gap(mark[p], rd[q]) >= 1
  BY <1>1, <1>2, GapRange
<1>4. Chunk(p) = Smaller(want[p], Gap(mark[p], rd[q]))
  BY DEF Chunk, Gap
<1> QED BY <1>1, <1>2, <1>3, <1>4, GapRange DEF Smaller

-----------------------------------------------------------------------------
(* What is in flight.                                                       *)

Chan(p) == Slice(p, Copied(p), Mask(wr[p] - Copied(p)))

\* The part of a ring that its reader has not copied out.
LEMMA CopiedIs ==
  ASSUME StreamInv, NEW p \in Sides
  PROVE  /\ Copied(p) \in Indices
         /\ Gap(wr[p], Copied(p)) <= Gap(wr[p], rd[p])
<1> DEFINE q == Peer(p)
<1>1. wr[p] \in Indices /\ rd[p] \in Indices /\ q \in Sides /\ Peer(q) = p
  BY SidesPeers DEF StreamInv, TypeOK
<1>2. CASE pc[q] = "read_advance"
  <2>1. Chunk(q) \in Nat /\ Chunk(q) <= Gap(wr[p], rd[p])
    BY <1>1, <1>2, ChunkFits
  <2>2. Copied(p) = Mask(rd[p] + Chunk(q))
    BY <1>2 DEF Copied
  <2>3. Gap(wr[p], rd[p]) \in Nat /\ Gap(wr[p], rd[p]) < Size
    BY <1>1, GapRange
  <2>4. Gap(wr[p], Mask(rd[p] + Chunk(q))) = Gap(wr[p], rd[p]) - Chunk(q)
    BY <1>1, <2>1, GapMoves
  <2>5. Mask(rd[p] + Chunk(q)) \in Indices
    BY <1>1, <2>1, <2>3, SizeNat, GapMoves
  <2> QED BY <2>1, <2>2, <2>3, <2>4, <2>5
<1>3. CASE pc[q] # "read_advance"
  BY <1>1, <1>3, GapRange DEF Copied
<1> QED BY <1>2, <1>3

LEMMA ChanLength ==
  ASSUME StreamInv, NEW p \in Sides
  PROVE  /\ Chan(p) \in Seq(Nat) /\ Len(Chan(p)) = Gap(wr[p], Copied(p))
         /\ Chan(p) = [k \in 1 .. Gap(wr[p], Copied(p)) |-> buf[p][Mask(Copied(p) + k - 1)]]
<1>1. wr[p] \in Indices /\ Copied(p) \in Indices /\ TypeOK
  BY CopiedIs DEF StreamInv, TypeOK
<1>2. Gap(wr[p], Copied(p)) \in Nat /\ Gap(wr[p], Copied(p)) <= Size
  BY <1>1, GapRange, SizeNat
<1>3. Chan(p) = Slice(p, Copied(p), Gap(wr[p], Copied(p)))
  BY DEF Chan, Gap
<1> QED BY <1>1, <1>2, <1>3, SliceType DEF Slice

LEMMA ChanTyped ==
  StreamInv => \A s \in Sides : Chan(s) \in Seq(Nat) /\ Len(Chan(s)) = Gap(wr[s], Copied(s))
BY ChanLength

-----------------------------------------------------------------------------
(* Steps.                                                                   *)

\* The streams as ByteChannel sees them.
streams == <<src, [p \in Sides |-> Chan(p)], dst>>

\* Of two directions, what one step leaves alone.
LEMMA ChanKept ==
  ASSUME NEW s \in Sides, wr'[s] = wr[s], rd'[s] = rd[s], buf'[s] = buf[s],
         \/ pc[Peer(s)] # "read_advance" /\ pc'[Peer(s)] # "read_advance"
         \/ UNCHANGED <<pc[Peer(s)], mark[Peer(s)], want[Peer(s)]>> /\ rd'[Peer(Peer(s))] = rd[Peer(Peer(s))]
  PROVE  Copied(s)' = Copied(s) /\ Chan(s)' = Chan(s)
<1>1. Copied(s)' = Copied(s)
  BY DEF Copied, Chunk
<1> QED BY <1>1 DEF Chan, Slice

LEMMA OthersKept ==
  ASSUME UNCHANGED <<src, dst>>,
         \A s \in Sides : Chan(s)' = Chan(s)
  PROVE  UNCHANGED streams
BY DEF streams

\* A step that moves no index and no byte.
LEMMA LocalStep ==
  ASSUME StreamInv, TypeOK', NEW p \in Sides, NEW from, NEW to, Goto(p, from, to),
         from # "read_advance", to # "read_advance",
         UNCHANGED <<wr, rd, buf, src, want>>, mark'[Peer(p)] = mark[Peer(p)],
         ReaderOK(p, Peer(p))', WriterOK(p)'
  PROVE  StreamInv' /\ \A s \in Sides : Chan(s)' = Chan(s)
<1> DEFINE q == Peer(p)
<1>1. pc[p] = from /\ pc'[p] = to /\ pc'[q] = pc[q] /\ q \in Sides /\ Peer(q) = p
  BY SidesPeers DEF Goto, StreamInv, TypeOK
<1>2. ReaderOK(q, p)' /\ WriterOK(q)'
  <2>1. ReaderOK(q, p) /\ WriterOK(q)
    BY <1>1 DEF StreamInv
  <2>2. ReaderOK(q, p)'
    BY <1>1, <2>1 DEF ReaderOK
  <2>3. Piece(q)' = Piece(q)
    BY <1>1 DEF Piece
  <2>4. WriterOK(q)'
    BY <1>1, <2>1, <2>3 DEF WriterOK
  <2> QED BY <2>2, <2>4
<1>3. StreamInv'
  BY <1>1, <1>2, TwoSides DEF StreamInv
<1>4. Chan(p)' = Chan(p)
  BY <1>1, ChanKept
<1>5. Chan(q)' = Chan(q)
  BY <1>1, ChanKept
<1> QED BY <1>3, <1>4, <1>5, TwoSides
\* Loads, tests, and the steps of ring_wait and ring_post.
LEMMA QuietSteps ==
  ASSUME StreamInv, TypeOK', NEW p \in Sides,
         \/ WriteLoad(p)
         \/ PostFlag(p, "write_post", "write_byte", AfterPiece(Len(src[p])))
         \/ PostByte(p, "write_byte", AfterPiece(Len(src[p])))
         \/ ReadLoad(p) \/ ReadSync(p) \/ ReadReload(p) \/ WaitFlag(p)
         \/ PostFlag(p, "wait_post", "wait_byte", "read_sync")
         \/ PostByte(p, "wait_byte", "read_sync") \/ WaitBlock(p)
  PROVE  StreamInv' /\ UNCHANGED streams
<1> DEFINE q == Peer(p)
<1> USE SidesPeers
<1>1. ReaderOK(p, q) /\ WriterOK(p) /\ TypeOK /\ q \in Sides /\ q # p
  BY DEF StreamInv
<1>2. wr[p] \in Indices /\ rd[p] \in Indices /\ wr[q] \in Indices /\ rd[q] \in Indices
      /\ Len(src[p]) \in Nat /\ src[p] \in Seq(Nat)
  BY <1>1 DEF TypeOK
<1>3. ASSUME NEW from, NEW to, Goto(p, from, to)
      PROVE  pc[p] = from /\ pc'[p] = to
  BY <1>1, <1>3 DEF Goto, TypeOK
<1>4. AfterPiece(Len(src[p])) \in {"idle", "write_load"}
      /\ (AfterPiece(Len(src[p])) = "idle" => src[p] = <<>>)
  BY <1>2 DEF AfterPiece
<1> USE DEF ReaderOK, WriterOK, WritePCs, ReadPCs, PCs
<1>5. ASSUME UNCHANGED <<src, dst>>, StreamInv' /\ \A s \in Sides : Chan(s)' = Chan(s)
      PROVE  StreamInv' /\ UNCHANGED streams
  BY <1>5, OthersKept
<1>6. CASE WriteLoad(p)
  <2>1. /\ Goto(p, "write_load", "write_copy") /\ UNCHANGED <<wr, rd, buf, src, want, dst>>
        /\ mark'[p] = rd[p] /\ mark'[q] = mark[q]
    BY <1>1, <1>6 DEF WriteLoad, shared, TypeOK
  <2>2. pc'[p] = "write_copy" /\ pc[p] = "write_load"
    BY <1>3, <2>1
  <2>3. ReaderOK(p, q)' /\ WriterOK(p)'
    BY <1>1, <1>2, <2>1, <2>2, GapRange
  <2> QED BY <1>5, <2>1, <2>3, LocalStep
<1>7. CASE PostFlag(p, "write_post", "write_byte", AfterPiece(Len(src[p])))
  <2>1. PICK to \in {"write_byte", "idle", "write_load"} :
          /\ Goto(p, "write_post", to) /\ (to = "idle" => src[p] = <<>>)
          /\ UNCHANGED <<wr, rd, buf, src, want, dst, mark>>
    BY <1>4, <1>7 DEF PostFlag
  <2>2. pc'[p] = to /\ pc[p] = "write_post"
    BY <1>3, <2>1
  <2>3. ReaderOK(p, q)' /\ WriterOK(p)'
    BY <1>1, <2>1, <2>2
  <2> QED BY <1>5, <2>1, <2>3, LocalStep
<1>8. CASE PostByte(p, "write_byte", AfterPiece(Len(src[p])))
  <2>1. PICK to \in {"idle", "write_load"} :
          /\ Goto(p, "write_byte", to) /\ (to = "idle" => src[p] = <<>>)
          /\ UNCHANGED <<wr, rd, buf, src, want, dst, mark>>
    BY <1>4, <1>8 DEF PostByte
  <2>2. pc'[p] = to /\ pc[p] = "write_byte"
    BY <1>3, <2>1
  <2>3. ReaderOK(p, q)' /\ WriterOK(p)'
    BY <1>1, <2>1, <2>2
  <2> QED BY <1>5, <2>1, <2>3, LocalStep
<1>9. CASE ReadLoad(p) \/ ReadReload(p)
  <2>1. PICK from \in {"read_load", "read_reload"}, to \in {"read_sync", "read_copy"} :
          /\ Goto(p, from, to) /\ (from = "read_load" /\ to = "read_copy" => wr[q] # rd[q])
          /\ UNCHANGED <<wr, rd, buf, src, want, dst>>
          /\ mark'[p] = wr[q] /\ mark'[q] = mark[q]
    BY <1>1, <1>9 DEF ReadLoad, ReadReload, shared, TypeOK
  <2>2. pc'[p] = to /\ pc[p] = from
    BY <1>3, <2>1
  <2>3. Gap(wr[q], rd[q]) <= Gap(wr[q], rd[q])
    BY <1>2, GapRange
  <2>4. ReaderOK(p, q)' /\ WriterOK(p)'
    BY <1>1, <2>1, <2>2, <2>3
  <2> QED BY <1>5, <2>1, <2>4, LocalStep
<1>10. CASE ReadSync(p)
  <2>1. PICK to \in {"wait_flag", "read_reload"} :
          /\ Goto(p, "read_sync", to) /\ (to = "read_reload" => ~SeesNothing(wr[q], rd[q]))
          /\ UNCHANGED <<wr, rd, buf, src, want, dst, mark>>
    BY <1>10 DEF ReadSync, shared
  <2>2. pc'[p] = to /\ pc[p] = "read_sync"
    BY <1>3, <2>1
  <2>3. \A i : SeesNothing(i, i)
    BY DEF SeesNothing
  <2>4. ReaderOK(p, q)' /\ WriterOK(p)'
    BY <1>1, <2>1, <2>2, <2>3
  <2> QED BY <1>5, <2>1, <2>4, LocalStep
<1>11. CASE \/ WaitFlag(p) \/ PostFlag(p, "wait_post", "wait_byte", "read_sync")
            \/ PostByte(p, "wait_byte", "read_sync") \/ WaitBlock(p)
  <2>1. PICK from \in {"wait_flag", "wait_post", "wait_byte", "wait_block"},
             to \in {"wait_post", "wait_block", "wait_byte", "read_sync"} :
          Goto(p, from, to) /\ UNCHANGED <<wr, rd, buf, src, want, dst, mark>>
    BY <1>11 DEF WaitFlag, PostFlag, PostByte, WaitBlock
  <2>2. pc'[p] = to /\ pc[p] = from
    BY <1>3, <2>1
  <2>3. ReaderOK(p, q)' /\ WriterOK(p)'
    BY <1>1, <2>1, <2>2
  <2> QED BY <1>5, <2>1, <2>3, LocalStep
<1> QED BY <1>6, <1>7, <1>8, <1>9, <1>10, <1>11

\* A call of ring_write, with any bytes.
LEMMA BeginWriteStep ==
  ASSUME StreamInv, NEW p \in Sides, NEW m \in Seq(Nat), BeginWrite(p, m)
  PROVE  /\ StreamInv' /\ \A s \in Sides : Chan(s)' = Chan(s)
         /\ src[p] = <<>> /\ src' = [src EXCEPT ![p] = m] /\ UNCHANGED dst
<1> DEFINE q == Peer(p)
<1>1. ReaderOK(p, q) /\ WriterOK(p) /\ TypeOK /\ q \in Sides /\ q # p /\ Peer(q) = p /\ TypeOK'
  BY SidesPeers, BeginWriteType DEF StreamInv
<1> USE DEF ReaderOK, WriterOK, WritePCs, ReadPCs, PCs
<1>2. /\ pc[p] = "idle" /\ pc'[p] = "write_load" /\ pc'[q] = pc[q] /\ src[p] = <<>>
      /\ UNCHANGED <<wr, rd, buf, mark, want, dst>> /\ src' = [src EXCEPT ![p] = m]
  BY <1>1 DEF BeginWrite, Goto, shared, TypeOK
<1>3. src'[q] = src[q]
  BY <1>1, <1>2 DEF TypeOK
<1>4. ReaderOK(q, p)' /\ WriterOK(q)' /\ ReaderOK(p, q)' /\ WriterOK(p)'
  <2>1. ReaderOK(q, p) /\ WriterOK(q)
    BY <1>1 DEF StreamInv
  <2>2. Piece(q)' = Piece(q)
    BY <1>2, <1>3 DEF Piece
  <2>3. WriterOK(q)'
    BY <1>2, <1>3, <2>1, <2>2
  <2>4. ReaderOK(q, p)' /\ ReaderOK(p, q)' /\ WriterOK(p)'
    BY <1>1, <1>2, <2>1
  <2> QED BY <2>3, <2>4
<1>5. Chan(p)' = Chan(p) /\ Chan(q)' = Chan(q)
  BY <1>1, <1>2, ChanKept
<1> QED BY <1>1, <1>2, <1>4, <1>5, TwoSides DEF StreamInv

\* A call of ring_read, of any size.
LEMMA BeginReadStep ==
  ASSUME StreamInv, NEW p \in Sides, NEW n \in Nat \ {0}, BeginRead(p, n)
  PROVE  /\ StreamInv' /\ \A s \in Sides : Chan(s)' = Chan(s)
         /\ dst' = [dst EXCEPT ![p] = <<>>] /\ UNCHANGED src
<1> DEFINE q == Peer(p)
<1>1. ReaderOK(p, q) /\ WriterOK(p) /\ TypeOK /\ q \in Sides /\ q # p /\ Peer(q) = p /\ TypeOK'
  BY SidesPeers, BeginReadType DEF StreamInv
<1> USE DEF ReaderOK, WriterOK, WritePCs, ReadPCs, PCs
<1>2. /\ pc[p] = "idle" /\ pc'[p] = "read_load" /\ pc'[q] = pc[q]
      /\ UNCHANGED <<wr, rd, buf, mark, src>> /\ want'[p] = n /\ want'[q] = want[q]
      /\ dst' = [dst EXCEPT ![p] = <<>>] /\ n >= 1
  BY <1>1 DEF BeginRead, Goto, shared, TypeOK
<1>3. ReaderOK(q, p)' /\ WriterOK(q)' /\ ReaderOK(p, q)' /\ WriterOK(p)'
  <2>1. ReaderOK(q, p) /\ WriterOK(q)
    BY <1>1 DEF StreamInv
  <2>2. Piece(q)' = Piece(q)
    BY <1>2 DEF Piece
  <2>3. WriterOK(q)'
    BY <1>2, <2>1, <2>2
  <2>4. ReaderOK(q, p)' /\ ReaderOK(p, q)' /\ WriterOK(p)'
    BY <1>1, <1>2, <2>1
  <2> QED BY <2>3, <2>4
<1>4. Chan(p)' = Chan(p) /\ Chan(q)' = Chan(q)
  BY <1>1, <1>2, ChanKept
<1> QED BY <1>1, <1>2, <1>3, <1>4, TwoSides DEF StreamInv

LEMMA CallStep ==
  ASSUME StreamInv, NEW p \in Sides, Call(p)
  PROVE  StreamInv' /\ [Channel!Next]_streams
<1>1. ASSUME NEW m \in Messages[p], BeginWrite(p, m) PROVE StreamInv' /\ Channel!Next
  <2>1. /\ StreamInv' /\ \A s \in Sides : Chan(s)' = Chan(s)
        /\ src[p] = <<>> /\ src' = [src EXCEPT ![p] = m] /\ UNCHANGED dst
    BY <1>1, CallersAssumption, BeginWriteStep
  <2>2. [s \in Sides |-> Chan(s)]' = [s \in Sides |-> Chan(s)]
    BY <2>1
  <2>3. Channel!Submit(p)
    BY <2>1, <2>2 DEF Channel!Submit, Chan
  <2> QED BY <2>1, <2>3 DEF Channel!Next
<1>2. ASSUME NEW n \in ReadSizes[p], BeginRead(p, n) PROVE StreamInv' /\ Channel!Next
  <2>1. /\ StreamInv' /\ \A s \in Sides : Chan(s)' = Chan(s)
        /\ dst' = [dst EXCEPT ![p] = <<>>] /\ UNCHANGED src
    BY <1>2, CallersAssumption, BeginReadStep
  <2>2. [s \in Sides |-> Chan(s)]' = [s \in Sides |-> Chan(s)]
    BY <2>1
  <2>3. Channel!Ask(p)
    BY <2>1, <2>2 DEF Channel!Ask, Chan
  <2> QED BY <2>1, <2>3 DEF Channel!Next
<1> QED BY <1>1, <1>2 DEF Call
-----------------------------------------------------------------------------
(* Two sequences and what is their concatenation.                           *)

LEMMA IsConcat ==
  ASSUME NEW s \in Seq(Nat), NEW t \in Seq(Nat), NEW u \in Seq(Nat),
         Len(u) = Len(s) + Len(t),
         \A k \in 1..Len(s) : u[k] = s[k],
         \A k \in 1..Len(t) : u[Len(s) + k] = t[k]
  PROVE  u = s \o t
<1>1. Len(s) \in Nat /\ Len(t) \in Nat
  OBVIOUS
<1>2. /\ s \o t \in Seq(Nat) /\ Len(s \o t) = Len(s) + Len(t)
      /\ \A k \in 1..Len(s) + Len(t) :
           (s \o t)[k] = IF k <= Len(s) THEN s[k] ELSE t[k - Len(s)]
  BY ConcatProperties
<1>3. ASSUME NEW k \in 1..Len(u) PROVE u[k] = (s \o t)[k]
  <2>1. CASE k <= Len(s)
    BY <1>1, <1>2, <2>1
  <2>2. CASE ~(k <= Len(s))
    <3>1. k - Len(s) \in 1..Len(t) /\ Len(s) + (k - Len(s)) = k
      BY <1>1, <2>2
    <3>2. u[Len(s) + (k - Len(s))] = t[k - Len(s)]
      BY <3>1
    <3> QED BY <1>1, <1>2, <2>2, <3>1, <3>2
  <2> QED BY <2>1, <2>2
<1> QED BY <1>2, <1>3, SeqEqual

-----------------------------------------------------------------------------
(* The writer's copy goes into the room, and appears at once with its index. *)

LEMMA CopyStep ==
  ASSUME StreamInv, TypeOK', NEW p \in Sides, WriteCopy(p)
  PROVE  StreamInv' /\ UNCHANGED streams
<1> DEFINE q == Peer(p)
<1>1. ReaderOK(p, q) /\ WriterOK(p) /\ TypeOK /\ q \in Sides /\ q # p /\ Peer(q) = p
      /\ wr[p] \in Indices /\ rd[p] \in Indices
  BY SidesPeers DEF StreamInv, TypeOK
<1>2. /\ pc[p] = "write_copy" /\ pc'[p] = "write_publish" /\ pc'[q] = pc[q]
      /\ UNCHANGED <<wr, rd, mark, src, want, dst>> /\ buf'[q] = buf[q]
      /\ \A i \in Indices :
           buf'[p][i] = IF Mask(i - wr[p]) < Piece(p) THEN src[p][Mask(i - wr[p]) + 1]
                        ELSE buf[p][i]
  BY <1>1 DEF WriteCopy, Goto, TypeOK
<1>3. Piece(p) \in Nat /\ Gap(wr[p], rd[p]) + Piece(p) < Size
      /\ Gap(wr[p], rd[p]) \in Nat
  BY <1>1, <1>2, PieceFits, GapRange
<1>4. \A s \in Sides : Piece(s)' = Piece(s)
  BY <1>2 DEF Piece
<1>5. ASSUME NEW k \in 1..Piece(p) PROVE buf'[p][Mask(wr[p] + k - 1)] = src[p][k]
  <2>1. k - 1 \in Nat /\ k - 1 < Piece(p) /\ k - 1 < Size /\ wr[p] + (k - 1) = wr[p] + k - 1
    BY <1>1, <1>3, SizeNat DEF Indices
  <2>2. Mask(wr[p] + (k - 1)) \in Indices /\ Gap(Mask(wr[p] + (k - 1)), wr[p]) = k - 1
    BY <1>1, <2>1, GapMoves
  <2>3. (k - 1) + 1 = k
    OBVIOUS
  <2> QED BY <1>2, <2>1, <2>2, <2>3 DEF Gap
<1>6. StreamInv'
  <2>1. ReaderOK(q, p) /\ WriterOK(q)
    BY <1>1 DEF StreamInv
  <2>2. ReaderOK(q, p)' /\ ReaderOK(p, q)'
    BY <1>1, <1>2, <2>1 DEF ReaderOK, ReadPCs, WritePCs
  <2>3. WriterOK(q)'
    <3>1. Piece(q)' = Piece(q)
      BY <1>1, <1>4
    <3> QED BY <1>2, <2>1, <3>1 DEF WriterOK
  <2>4. WriterOK(p)'
    BY <1>1, <1>2, <1>4, <1>5 DEF WriterOK, WritePCs
  <2> QED BY <1>1, <2>2, <2>3, <2>4, TwoSides DEF StreamInv
<1>7. Chan(q)' = Chan(q)
  BY <1>1, <1>2, ChanKept
<1>8. Chan(p)' = Chan(p)
  <2>1. Copied(p)' = Copied(p)
    BY <1>1, <1>2 DEF Copied, Chunk
  <2> DEFINE c == Copied(p)  n == Gap(wr[p], c)
  <2>2. c \in Indices /\ n \in Nat /\ n <= Gap(wr[p], rd[p])
    BY <1>1, CopiedIs, GapRange
  <2>3. ASSUME NEW k \in 1..n
        PROVE  buf'[p][Mask(c + k - 1)] = buf[p][Mask(c + k - 1)]
    <3>1. k - 1 \in Nat /\ k - 1 < n /\ c + (k - 1) = c + k - 1
      BY <2>2 DEF Indices
    <3>2. Mask(c + (k - 1)) \in Indices /\ Gap(Mask(c + (k - 1)), wr[p]) = Size - n + (k - 1)
      BY <1>1, <2>2, <3>1, Behind
    <3>3. Size - n + (k - 1) >= Piece(p)
      BY <1>3, <2>2, <3>1, SizeNat
    <3> QED BY <1>2, <1>3, <2>2, <3>1, <3>2, <3>3, SizeNat DEF Gap
  <2>4. Chan(p) = [k \in 1..n |-> buf[p][Mask(c + k - 1)]]
    BY ChanLength
  <2>5. Chan(p)' = [k \in 1..n |-> buf'[p][Mask(c + k - 1)]]
    BY <1>2, <2>1 DEF Chan, Slice, Gap
  <2> QED BY <2>3, <2>4, <2>5
<1> QED BY <1>2, <1>6, <1>7, <1>8, TwoSides, OthersKept

\* Side p moves n bytes from its message to the stream.
Published(p, n) ==
  /\ n \in 0 .. Len(src[p])
  /\ src' = [src EXCEPT ![p] = SubSeq(@, n + 1, Len(@))]
  /\ Chan(p)' = Chan(p) \o SubSeq(src[p], 1, n)
  /\ Chan(Peer(p))' = Chan(Peer(p))
  /\ UNCHANGED dst

\* Side p moves n bytes from its peer's stream to its own buffer.
Delivered(p, n) ==
  /\ n \in 1 .. Len(Chan(Peer(p)))
  /\ dst' = [dst EXCEPT ![p] = @ \o SubSeq(Chan(Peer(p)), 1, n)]
  /\ Chan(Peer(p))' = SubSeq(Chan(Peer(p)), n + 1, Len(Chan(Peer(p))))
  /\ Chan(p)' = Chan(p)
  /\ UNCHANGED src

LEMMA PublishStep ==
  ASSUME StreamInv, TypeOK', NEW p \in Sides, WritePublish(p)
  PROVE  StreamInv' /\ [Channel!Next]_streams /\ Published(p, Piece(p))
<1> DEFINE q == Peer(p)  n == Piece(p)  c == Copied(p)  g == Gap(wr[p], c)
<1>1. ReaderOK(p, q) /\ WriterOK(p) /\ TypeOK /\ q \in Sides /\ q # p /\ Peer(q) = p
      /\ wr[p] \in Indices /\ rd[p] \in Indices /\ src[p] \in Seq(Nat) /\ Len(src[p]) \in Nat
  <2>1. TypeOK /\ ReaderOK(p, q) /\ WriterOK(p) /\ q \in Sides /\ q # p /\ Peer(q) = p
    BY SidesPeers DEF StreamInv
  <2>2. wr[p] \in Indices /\ rd[p] \in Indices /\ src[p] \in Seq(Nat)
    BY <2>1 DEF TypeOK
  <2>3. Len(src[p]) \in Nat
    BY <2>2
  <2> QED BY <2>1, <2>2, <2>3
<1>2. /\ pc[p] = "write_publish" /\ pc'[q] = pc[q]
      /\ pc'[p] \in {"write_post", "write_load", "idle"}
      /\ (pc'[p] = "idle" => Len(src[p]) - n = 0)
      /\ UNCHANGED <<rd, buf, mark, want, dst>>
      /\ wr'[p] = Mask(wr[p] + n) /\ wr'[q] = wr[q]
      /\ src' = [src EXCEPT ![p] = SubSeq(@, n + 1, Len(@))]
  BY <1>1 DEF WritePublish, Goto, AfterPiece, TypeOK
<1>3. n \in Nat /\ n <= Len(src[p]) /\ Gap(wr[p], rd[p]) + n < Size
      /\ Gap(wr[p], rd[p]) \in Nat
  BY <1>1, <1>2, PieceFits, GapRange
<1>4. \A k \in 1..n : buf[p][Mask(wr[p] + k - 1)] = src[p][k]
  BY <1>1, <1>2 DEF WriterOK
<1>5. src'[p] = SubSeq(src[p], n + 1, Len(src[p])) /\ src'[q] = src[q]
      /\ Len(src'[p]) = Len(src[p]) - n /\ src'[p] \in Seq(Nat)
  <2>1. SubSeq(src[p], n + 1, Len(src[p])) \in Seq(Nat)
        /\ Len(SubSeq(src[p], n + 1, Len(src[p]))) = Len(src[p]) - n
    <3>1. Len(src[p]) \in Nat /\ n + 1 \in Nat /\ \A i \in n + 1 .. Len(src[p]) : src[p][i] \in Nat
      BY <1>1, <1>3
    <3> QED BY <1>1, <1>3, <3>1, SubSeqProperties
  <2> QED BY <1>1, <1>2, <2>1 DEF TypeOK
<1>6. Gap(wr'[p], rd[p]) = Gap(wr[p], rd[p]) + n
  BY <1>1, <1>2, <1>3, GapMoves
<1>7. StreamInv'
  <2>1. ReaderOK(q, p) /\ WriterOK(q)
    BY <1>1 DEF StreamInv
  <2>2. pc[q] = "read_reload" => wr'[p] # rd[p]
    <3>1. SUFFICES ASSUME pc[q] = "read_reload" PROVE wr'[p] # rd[p]
      OBVIOUS
    <3>2. Gap(wr[p], rd[p]) # 0
      BY <1>1, <2>1, <3>1, GapRange DEF ReaderOK
    <3>3. wr'[p] \in Indices /\ Gap(wr'[p], rd[p]) # 0
      BY <1>3, <1>6, <1>1, <3>2, SMTT(30) DEF TypeOK
    <3> QED BY <1>1, <3>3, GapRange
  <2>3. pc[q] \in {"read_copy", "read_advance"} =>
          mark[q] # rd[p] /\ Gap(mark[q], rd[p]) <= Gap(wr'[p], rd[p])
    <3>1. mark[q] \in Indices
      BY <1>1 DEF TypeOK
    <3>2. Gap(mark[q], rd[p]) \in Nat
      BY <1>1, <3>1, GapRange
    <3> QED BY <1>3, <1>6, <2>1, <3>2 DEF ReaderOK
  <2>4. ReaderOK(q, p)'
    BY <1>2, <2>1, <2>2, <2>3 DEF ReaderOK
  <2>5. ReaderOK(p, q)'
    BY <1>1, <1>2 DEF ReaderOK, ReadPCs, WritePCs
  <2>6. WriterOK(q)'
    <3>1. Piece(q)' = Piece(q)
      BY <1>2, <1>5 DEF Piece
    <3> QED BY <1>2, <1>5, <2>1, <3>1 DEF WriterOK
  <2>7. WriterOK(p)'
    BY <1>2, <1>5 DEF WriterOK, WritePCs
  <2> QED BY <1>1, <2>4, <2>5, <2>6, <2>7, TwoSides DEF StreamInv
<1>8. Chan(q)' = Chan(q)
  BY <1>1, <1>2, ChanKept
<1>9. c' = c /\ c \in Indices /\ g \in Nat /\ g + n < Size /\ g + n \in Nat
  <2>1. c' = c
    BY <1>2 DEF Copied, Chunk
  <2> QED BY <1>1, <1>3, <2>1, CopiedIs, GapRange, SizeNat
<1>10. Gap(wr'[p], c) = g + n
  BY <1>1, <1>2, <1>3, <1>9, GapMoves
<1>11. Chan(p) = [k \in 1..g |-> buf[p][Mask(c + k - 1)]] /\ Len(Chan(p)) = g /\ Chan(p) \in Seq(Nat)
  BY ChanLength
<1>12. Chan(p)' = [k \in 1..g + n |-> buf[p][Mask(c + k - 1)]]
  BY <1>2, <1>9, <1>10 DEF Chan, Slice, Gap
<1>13. Chan(p)' = Chan(p) \o SubSeq(src[p], 1, n)
  <2> DEFINE head == SubSeq(src[p], 1, n)
  <2>1. head \in Seq(Nat) /\ Len(head) = n /\ \A k \in 1..n : head[k] = src[p][k]
    <3>1. \A i \in 1..n : src[p][i] \in Nat
      BY <1>1, <1>3
    <3> QED BY <1>3, <3>1, SubSeqProperties
  <2>2. ASSUME NEW k \in 1..n PROVE buf[p][Mask(c + (g + k) - 1)] = src[p][k]
    <3>1. wr[p] = Mask(c + g)
      BY <1>1, <1>9, SizeNat DEF Gap, Mask, Indices
    <3>2. k - 1 \in Nat /\ g + (k - 1) < Size /\ c + (g + (k - 1)) = c + (g + k) - 1
          /\ wr[p] + (k - 1) = wr[p] + k - 1
      BY <1>1, <1>3, <1>9, SizeNat, SMTT(30) DEF Indices
    <3>3. Mask(Mask(c + g) + (k - 1)) = Mask(c + (g + (k - 1)))
      BY <1>9, <3>2, MaskTwice
    <3> QED BY <1>4, <3>1, <3>2, <3>3
  <2>3. Chan(p)' \in Seq(Nat) /\ Len(Chan(p)') = g + n
    <3>1. \A s \in Sides : Chan(s)' \in Seq(Nat) /\ Len(Chan(s)') = Gap(wr[s], Copied(s))'
      <4>1. (StreamInv => \A s \in Sides : Chan(s) \in Seq(Nat) /\ Len(Chan(s)) = Gap(wr[s], Copied(s)))'
        BY ChanTyped, PTL
      <4> QED BY <1>7, <4>1
    <3>2. Gap(wr[p], Copied(p))' = g + n
      BY <1>9, <1>10 DEF Gap
    <3> QED BY <3>1, <3>2
  <2>4. \A k \in 1..g : Chan(p)'[k] = Chan(p)[k]
    BY <1>9, <1>11, <1>12, <1>3
  <2>5. \A k \in 1..n : Chan(p)'[g + k] = head[k]
    BY <1>3, <1>9, <1>12, <2>1, <2>2, SMTT(30)
  <2>6. Chan(p) \in Seq(Nat) /\ Len(Chan(p)) = g
    BY <1>11
  <2> HIDE DEF head, g, n, c
  <2>7. Len(Chan(p)') = Len(Chan(p)) + Len(head)
    BY <2>1, <2>3, <2>6
  <2>8. Chan(p)' = Chan(p) \o head
    BY <2>1, <2>3, <2>4, <2>5, <2>6, <2>7, IsConcat
  <2> USE DEF head, n
  <2> QED BY <2>8
<1> DEFINE chan == [s \in Sides |-> Chan(s)]
<1>14. chan' = [chan EXCEPT ![p] = @ \o SubSeq(src[p], 1, n)]
  BY <1>1, <1>8, <1>13, TwoSides
<1>15. Published(p, n)
  BY <1>2, <1>3, <1>8, <1>13 DEF Published
<1>16. CASE n = 0
  <2>1. src'[p] = src[p]
    BY <1>1, <1>5, <1>16
  <2>2. src' = src
    BY <1>1, <1>2, <1>5, <2>1 DEF TypeOK
  <2>3. Chan(p)' = Chan(p)
    BY <1>11, <1>12, <1>9, <1>16
  <2> QED BY <1>2, <1>7, <1>8, <1>15, <2>2, <2>3, TwoSides, OthersKept
<1>17. CASE n # 0
  <2>1. n \in 1..Len(src[p]) /\ Len(chan[p]) + n <= Size - 1 /\ dst' = dst
    BY <1>1, <1>2, <1>3, <1>9, <1>11, <1>17, SizeNat
  <2>2. Channel!Send(p)
    BY <1>2, <1>14, <2>1 DEF Channel!Send, Chan
  <2> QED BY <1>7, <1>15, <2>2 DEF Channel!Next
<1> QED BY <1>16, <1>17
-----------------------------------------------------------------------------
(* The reader's copy takes from the front of the stream, and gives the room  *)
(* back later.                                                               *)

LEMMA ReadCopyStep ==
  ASSUME StreamInv, TypeOK', NEW p \in Sides, ReadCopy(p)
  PROVE  StreamInv' /\ Channel!Next /\ Delivered(p, Chunk(p))
<1> DEFINE q == Peer(p)  n == Chunk(p)  g == Gap(wr[q], rd[q])
<1>1. /\ TypeOK /\ ReaderOK(p, q) /\ WriterOK(p) /\ ReaderOK(q, p) /\ WriterOK(q)
      /\ q \in Sides /\ q # p /\ Peer(q) = p
  BY SidesPeers DEF StreamInv
<1>2. wr[q] \in Indices /\ rd[q] \in Indices
  BY <1>1 DEF TypeOK
<1>3. /\ pc[p] = "read_copy" /\ pc'[p] = "read_advance" /\ pc'[q] = pc[q]
      /\ UNCHANGED <<wr, rd, buf, mark, src, want>>
      /\ dst' = [dst EXCEPT ![p] = @ \o Slice(q, rd[q], n)]
  BY <1>1 DEF ReadCopy, Goto, shared, TypeOK
<1>4. n \in Nat /\ n >= 1 /\ n <= g /\ g \in Nat /\ g < Size /\ n < Size
  <2>1. n \in Nat /\ n >= 1 /\ n <= g
    BY <1>3, ChunkFits
  <2>2. g \in Nat /\ g < Size
    BY <1>2, GapRange
  <2> QED BY <2>1, <2>2, SizeNat
<1>5. StreamInv'
  <2>1. Piece(q)' = Piece(q)
    BY <1>3 DEF Piece
  <2>2. ReaderOK(p, q)' /\ WriterOK(p)'
    BY <1>1, <1>3 DEF ReaderOK, WriterOK, ReadPCs, WritePCs, PCs
  <2>3. ReaderOK(q, p)' /\ WriterOK(q)'
    BY <1>1, <1>3, <2>1 DEF ReaderOK, WriterOK
  <2> QED BY <1>1, <2>2, <2>3, TwoSides DEF StreamInv
<1>6. Chan(p)' = Chan(p)
  BY <1>1, <1>3, ChanKept
<1>7. Copied(q) = rd[q] /\ Copied(q)' = Mask(rd[q] + n)
  BY <1>1, <1>3 DEF Copied, Chunk
<1>8. /\ Chan(q) \in Seq(Nat) /\ Len(Chan(q)) = g
      /\ Chan(q) = [k \in 1..g |-> buf[q][Mask(rd[q] + k - 1)]]
  BY <1>1, <1>7, ChanLength
<1>9. SubSeq(Chan(q), 1, n) = Slice(q, rd[q], n)
  <2>1. Slice(q, rd[q], n) \in Seq(Nat) /\ Len(Slice(q, rd[q], n)) = n
    <3>1. n \in Nat /\ n <= Size
      BY <1>4, SizeNat
    <3> HIDE DEF n, q
    <3> QED BY <1>1, <1>2, <3>1, SliceType
  <2>2. \A k \in 1..n : Slice(q, rd[q], n)[k] = Chan(q)[k]
    BY <1>4, <1>8 DEF Slice
  <2>3. \A k \in 1..n : Chan(q)[k] \in Nat
    BY <1>4, <1>8
  <2>4. /\ SubSeq(Chan(q), 1, n) \in Seq(Nat) /\ Len(SubSeq(Chan(q), 1, n)) = n
        /\ \A k \in 1..n : SubSeq(Chan(q), 1, n)[k] = Chan(q)[k]
    BY <1>4, <2>3, SubSeqProperties
  <2> HIDE DEF n
  <2> QED BY <2>1, <2>2, <2>4, SeqEqual
<1>10. Chan(q)' = SubSeq(Chan(q), n + 1, Len(Chan(q)))
  <2>1. Gap(wr[q], Mask(rd[q] + n)) = g - n /\ Mask(rd[q] + n) \in Indices
    BY <1>2, <1>4, GapMoves
  <2>2. Chan(q)' = [k \in 1..g - n |-> buf[q][Mask(Mask(rd[q] + n) + k - 1)]]
    BY <1>3, <1>7, <2>1 DEF Chan, Slice, Gap
  <2>3. ASSUME NEW k \in 1..g - n
        PROVE  Chan(q)'[k] = Chan(q)[n + k]
    <3>1. k - 1 \in Nat /\ n + (k - 1) < Size /\ n + k \in 1..g
          /\ rd[q] + (n + (k - 1)) = rd[q] + (n + k) - 1
          /\ Mask(rd[q] + n) + (k - 1) = Mask(rd[q] + n) + k - 1
      BY <1>2, <1>4, <2>1, SizeNat DEF Indices
    <3>2. Mask(Mask(rd[q] + n) + (k - 1)) = Mask(rd[q] + (n + (k - 1)))
      BY <1>2, <1>4, <3>1, MaskTwice
    <3> QED BY <1>8, <2>2, <3>1, <3>2
  <2>4. Chan(q)' \in Seq(Nat) /\ Len(Chan(q)') = g - n
    <3>1. (StreamInv => \A s \in Sides : Chan(s) \in Seq(Nat) /\ Len(Chan(s)) = Gap(wr[s], Copied(s)))'
      BY ChanTyped, PTL
    <3>2. Gap(wr[q], Copied(q))' = g - n
      BY <1>3, <1>7, <2>1 DEF Gap
    <3> QED BY <1>1, <1>5, <3>1, <3>2
  <2>5. \A k \in n + 1 .. g : Chan(q)[k] \in Nat
    BY <1>4, <1>8
  <2>6. /\ SubSeq(Chan(q), n + 1, g) \in Seq(Nat) /\ Len(SubSeq(Chan(q), n + 1, g)) = g - n
        /\ \A k \in 1..g - n : SubSeq(Chan(q), n + 1, g)[k] = Chan(q)[n + k]
    BY <1>4, <2>5, SubSeqProperties
  <2>7. Chan(q)' = SubSeq(Chan(q), n + 1, g)
    <3> HIDE DEF n, g
    <3> QED BY <2>3, <2>4, <2>6, SeqEqual
  <2> QED BY <1>8, <2>7
<1> DEFINE chan == [s \in Sides |-> Chan(s)]
<1>11. chan' = [chan EXCEPT ![q] = SubSeq(@, n + 1, Len(@))]
  BY <1>1, <1>6, <1>10, TwoSides
<1>12. n \in 1..Len(chan[q]) /\ dst' = [dst EXCEPT ![p] = @ \o SubSeq(chan[q], 1, n)]
       /\ UNCHANGED src
  <2>1. chan[q] = Chan(q)
    BY <1>1
  <2>2. n \in 1..Len(Chan(q))
    BY <1>4, <1>8
  <2> HIDE DEF n
  <2> QED BY <1>3, <1>9, <2>1, <2>2
<1>13. Channel!Deliver(p)
  BY <1>11, <1>12 DEF Channel!Deliver, Chan
<1>14. Delivered(p, n)
  BY <1>1, <1>6, <1>10, <1>12 DEF Delivered
<1> QED BY <1>5, <1>13, <1>14 DEF Channel!Next

LEMMA AdvanceStep ==
  ASSUME StreamInv, TypeOK', NEW p \in Sides, ReadAdvance(p)
  PROVE  StreamInv' /\ UNCHANGED streams
<1> DEFINE q == Peer(p)  n == Chunk(p)  g == Gap(wr[q], rd[q])
<1>1. /\ TypeOK /\ ReaderOK(p, q) /\ WriterOK(p) /\ ReaderOK(q, p) /\ WriterOK(q)
      /\ q \in Sides /\ q # p /\ Peer(q) = p
  BY SidesPeers DEF StreamInv
<1>2. wr[q] \in Indices /\ rd[q] \in Indices /\ want[p] \in Nat /\ mark[q] \in Indices
  BY <1>1 DEF TypeOK
<1>3. /\ pc[p] = "read_advance" /\ pc'[q] = pc[q]
      /\ pc'[p] = IF want[p] = n THEN "idle" ELSE "read_load"
      /\ UNCHANGED <<wr, buf, mark, src, dst>>
      /\ rd'[q] = Mask(rd[q] + n) /\ rd'[p] = rd[p]
      /\ want'[p] = want[p] - n /\ want'[q] = want[q]
  BY <1>1 DEF ReadAdvance, Goto, TypeOK
<1>4. n \in Nat /\ n >= 1 /\ n <= g /\ g \in Nat /\ n <= want[p]
  BY <1>2, <1>3, ChunkFits, GapRange
<1>5. Gap(wr[q], rd'[q]) = g - n
  BY <1>2, <1>3, <1>4, GapMoves
<1>6. StreamInv'
  <2>1. Piece(q)' = Piece(q)
    BY <1>3 DEF Piece
  <2>2. ReaderOK(p, q)' /\ WriterOK(p)'
    BY <1>1, <1>2, <1>3, <1>4 DEF ReaderOK, WriterOK, ReadPCs, WritePCs, PCs
  <2>3. ReaderOK(q, p)'
    BY <1>1, <1>3 DEF ReaderOK
  <2>4. pc[q] \in {"write_copy", "write_publish"} => Gap(wr[q], rd'[q]) <= Gap(wr[q], mark[q])
    <3>1. Gap(wr[q], mark[q]) \in Nat
      BY <1>2, GapRange
    <3> QED BY <1>1, <1>4, <1>5, <3>1 DEF WriterOK
  <2>5. WriterOK(q)'
    BY <1>1, <1>3, <2>1, <2>4 DEF WriterOK
  <2> QED BY <1>1, <2>2, <2>3, <2>5, TwoSides DEF StreamInv
<1>7. Chan(p)' = Chan(p)
  BY <1>1, <1>3, ChanKept
<1>8. Copied(q) = Mask(rd[q] + n) /\ Copied(q)' = Mask(rd[q] + n)
  <2>1. pc'[p] # "read_advance"
    BY <1>3
  <2> QED BY <1>1, <1>3, <2>1 DEF Copied
<1>9. Chan(q)' = Chan(q)
  BY <1>3, <1>8 DEF Chan, Slice
<1> QED BY <1>3, <1>6, <1>7, <1>9, TwoSides, OthersKept

-----------------------------------------------------------------------------
LEMMA StreamStep == StreamInv /\ [Next]_vars => StreamInv' /\ [Channel!Next]_streams
<1> SUFFICES ASSUME StreamInv, [Next]_vars PROVE StreamInv' /\ [Channel!Next]_streams
  OBVIOUS
<1>1. TypeOK'
  BY TypeStep DEF StreamInv
<1>2. ASSUME NEW p \in Sides, Call(p) PROVE StreamInv' /\ [Channel!Next]_streams
  BY <1>1, <1>2, CallStep
<1>3. ASSUME NEW p \in Sides, Writing(p) PROVE StreamInv' /\ [Channel!Next]_streams
  BY <1>1, <1>3, QuietSteps, CopyStep, PublishStep DEF Writing
<1>4. ASSUME NEW p \in Sides, Reading(p) PROVE StreamInv' /\ [Channel!Next]_streams
  BY <1>1, <1>4, QuietSteps, ReadCopyStep, AdvanceStep DEF Reading
<1>5. CASE UNCHANGED <<wr, rd, buf, pc, mark, src, want, dst>>
  <2>1. \A s \in Sides : Piece(s)' = Piece(s) /\ Chan(s)' = Chan(s)
    BY <1>5 DEF Piece, Chan, Slice, Copied, Chunk
  <2>2. \A s \in Sides : ReaderOK(s, Peer(s))' /\ WriterOK(s)'
    BY <1>5, <2>1 DEF StreamInv, ReaderOK, WriterOK
  <2> QED BY <1>1, <1>5, <2>1, <2>2, OthersKept DEF StreamInv
<1>6. ASSUME NEW p \in Sides, Disconnect(p) PROVE StreamInv' /\ [Channel!Next]_streams
  BY <1>5, <1>6 DEF Disconnect, local
<1>7. CASE UNCHANGED vars
  BY <1>5, <1>7 DEF vars, shared, local
<1> QED BY <1>2, <1>3, <1>4, <1>6, <1>7 DEF Next

\* What the marks of ring_write_partial and ring_read_partial say of the two rings, at
\* every step: no more room than there is, and no byte that was not stored.
THEOREM StreamInvariant == Spec => []StreamInv
<1> QED BY StreamInit, StreamStep, PTL DEF Spec

\* The two rings are two streams of bytes, whatever the sizes of the ring and of the
\* calls and however the loads, copies and stores of ring_write and ring_read interleave.
THEOREM StreamsAreFIFO == Spec => FIFO
<1>1. Init => Channel!Init
  <2> SUFFICES ASSUME Init PROVE Channel!Init
    OBVIOUS
  <2>1. StreamInv
    BY StreamInit
  <2>2. ASSUME NEW p \in Sides PROVE Chan(p) = <<>>
    <3>1. wr[p] = 0 /\ rd[p] = 0 /\ pc[Peer(p)] = "idle" /\ 0 \in Indices
      BY SidesPeers, SizeNat DEF Init, Indices
    <3>2. Len(Chan(p)) = 0 /\ Chan(p) \in Seq(Nat)
      BY <2>1, <3>1, ChanLength, GapRange DEF Copied
    <3> QED BY <3>2
  <2> QED BY <2>2 DEF Init, Channel!Init, Chan
<1>2. StreamInv /\ [Next]_vars =>
        [Channel!Next]_<<src, [p \in Sides |-> Slice(p, Copied(p), Mask(wr[p] - Copied(p)))], dst>>
  BY StreamStep DEF streams, Chan
<1> QED BY <1>1, <1>2, StreamInvariant, PTL DEF Spec, FIFO, Channel!Spec, Channel!chanVars

LEMMA ReloadsFind == StreamInv => ReloadFindsData
<1> SUFFICES ASSUME StreamInv, NEW p \in Sides, pc[p] \in {"read_reload", "read_copy"}
             PROVE  wr[Peer(p)] # rd[Peer(p)]
  BY DEF ReloadFindsData
<1> DEFINE q == Peer(p)
<1>1. ReaderOK(p, q) /\ wr[q] \in Indices /\ rd[q] \in Indices /\ mark[p] \in Indices
  BY SidesPeers DEF StreamInv, TypeOK
<1>2. CASE pc[p] = "read_reload"
  BY <1>1, <1>2 DEF ReaderOK
<1>3. CASE pc[p] = "read_copy"
  <2>1. mark[p] # rd[q] /\ Gap(mark[p], rd[q]) <= Gap(wr[q], rd[q])
    BY <1>1, <1>3 DEF ReaderOK
  <2> QED BY <1>1, <2>1, GapRange
<1> QED BY <1>2, <1>3

\* What SYNC_WHILE of ring_read_partial saw in the ring is there when the index is
\* loaded again and copied from, so that no piece of a ring_read is empty.
THEOREM ReloadsFindData == Spec => []ReloadFindsData
<1> QED BY ReloadsFind, StreamInvariant, PTL

-----------------------------------------------------------------------------
(* A session.  What a ring_read still has to copy, and what a side has      *)
(* handed to ring_write and its peer has not copied yet.                    *)

Left(p) == IF pc[p] = "read_advance" THEN want[p] - Chunk(p) ELSE want[p]

Stream(p) == Chan(p) \o src[p]

LEMMA StreamTyped ==
  ASSUME StreamInv, NEW p \in Sides
  PROVE  /\ Stream(p) \in Seq(Nat) /\ Chan(p) \in Seq(Nat) /\ src[p] \in Seq(Nat)
         /\ Len(Stream(p)) = Len(Chan(p)) + Len(src[p])
<1>1. Chan(p) \in Seq(Nat) /\ src[p] \in Seq(Nat)
  BY ChanLength DEF StreamInv, TypeOK
<1> HIDE DEF Chan
<1> QED BY <1>1, ConcatProperties DEF Stream

\* Between its calls a side has nothing more to write and nothing more to copy.
LEMMA IdleIsDone ==
  ASSUME StreamInv, NEW p \in Sides
  PROVE  Left(p) \in Nat /\ (pc[p] = "idle" => Left(p) = 0 /\ src[p] = <<>>)
<1>1. TypeOK /\ ReaderOK(p, Peer(p)) /\ WriterOK(p) /\ want[p] \in Nat
  BY DEF StreamInv, TypeOK
<1>2. CASE pc[p] = "read_advance"
  BY <1>1, <1>2, ChunkFits DEF Left
<1>3. CASE pc[p] # "read_advance"
  BY <1>1, <1>3 DEF Left, ReaderOK, WriterOK, ReadPCs, WritePCs, PCs
<1> QED BY <1>2, <1>3

LEMMA LeftKept ==
  ASSUME NEW p \in Sides,
         UNCHANGED <<pc[p], want[p], mark[p]>>, rd'[Peer(p)] = rd[Peer(p)]
  PROVE  Left(p)' = Left(p)
BY DEF Left, Chunk

\* A step of ring_write or ring_read leaves both streams alone, moves bytes from a
\* message into one of them, or moves bytes out of the other that were asked for.
LEMMA TransportStep ==
  ASSUME StreamInv, NEW p \in Sides, Writing(p) \/ Reading(p)
  PROVE  /\ StreamInv' /\ Left(Peer(p))' = Left(Peer(p))
         /\ \/ UNCHANGED streams /\ Left(p)' = Left(p)
            \/ Published(p, Piece(p)) /\ Left(p)' = Left(p)
            \/ /\ Delivered(p, Chunk(p)) /\ Chunk(p) <= Left(p)
               /\ Left(p)' = Left(p) - Chunk(p)
<1> DEFINE q == Peer(p)
<1>1. TypeOK' /\ TypeOK /\ q \in Sides /\ q # p /\ Peer(q) = p
  BY WritingType, ReadingType, SidesPeers DEF StreamInv
<1>a. ASSUME Writing(p) PROVE StreamInv' /\ (UNCHANGED streams \/ Published(p, Piece(p)))
  BY <1>1, <1>a, QuietSteps, CopyStep, PublishStep DEF Writing
<1>b. ASSUME Reading(p), ~ReadCopy(p), ~ReadAdvance(p) PROVE StreamInv' /\ UNCHANGED streams
  BY <1>1, <1>b, QuietSteps DEF Reading
<1> USE DEF Writing, Reading, WriteLoad, WriteCopy, WritePublish, PostFlag, PostByte, Goto,
            ReadLoad, ReadSync, ReadReload, ReadCopy, ReadAdvance, WaitFlag, WaitBlock, shared
<1>2. pc'[q] = pc[q]
  BY <1>1, ZenonT(30) DEF TypeOK
<1>3. UNCHANGED <<want[q], mark[q]>> /\ rd'[p] = rd[p]
  BY <1>1 DEF TypeOK
<1>4. Left(q)' = Left(q)
  BY <1>1, <1>2, <1>3, LeftKept
<1>5. CASE Writing(p)
  <2>1. pc[p] \in WritePCs /\ pc'[p] \in WritePCs \cup {"idle"} /\ want' = want
    BY <1>1, <1>5 DEF TypeOK, WritePCs, AfterPiece
  <2>2. Left(p)' = Left(p)
    BY <2>1 DEF Left, WritePCs
  <2>3. StreamInv' /\ (UNCHANGED streams \/ Published(p, Piece(p)))
    BY <1>a, <1>5
  <2> QED BY <1>4, <2>2, <2>3
<1>6. CASE ReadCopy(p)
  <2>1. pc[p] = "read_copy" /\ pc'[p] = "read_advance" /\ UNCHANGED <<want, mark, rd>>
    BY <1>1, <1>6 DEF TypeOK
  <2>2. Left(p)' = Left(p) - Chunk(p) /\ Left(p) = want[p]
    BY <2>1 DEF Left, Chunk
  <2>3. Chunk(p) <= want[p]
    BY <2>1, ChunkFits
  <2> QED BY <1>1, <1>4, <1>6, <2>2, <2>3, ReadCopyStep
<1>7. CASE ReadAdvance(p)
  <2>1. pc[p] = "read_advance" /\ pc'[p] \in {"idle", "read_load"} /\ want'[p] = want[p] - Chunk(p)
    BY <1>1, <1>7 DEF TypeOK
  <2>2. Left(p)' = Left(p)
    BY <2>1 DEF Left
  <2> QED BY <1>1, <1>4, <1>7, <2>2, AdvanceStep
<1>8. CASE Reading(p) /\ ~ReadCopy(p) /\ ~ReadAdvance(p)
  <2>1. pc[p] # "read_advance" /\ pc'[p] # "read_advance" /\ want' = want
    BY <1>1, <1>8 DEF TypeOK
  <2>2. Left(p)' = Left(p)
    BY <2>1 DEF Left
  <2>3. StreamInv' /\ UNCHANGED streams
    BY <1>b, <1>8
  <2> QED BY <1>4, <2>2, <2>3
<1> QED BY <1>5, <1>6, <1>7, <1>8

-----------------------------------------------------------------------------
(* Sequences taken apart and put together again.                            *)

LEMMA DropTyped ==
  ASSUME NEW s \in Seq(Nat), NEW n \in 0 .. Len(s)
  PROVE  /\ SubSeq(s, n + 1, Len(s)) \in Seq(Nat)
         /\ Len(SubSeq(s, n + 1, Len(s))) = Len(s) - n
         /\ \A k \in 1 .. Len(s) - n : SubSeq(s, n + 1, Len(s))[k] = s[n + k]
<1>1. PICK m \in Nat : m = n + 1 /\ n \in Nat
  OBVIOUS
<1>2. Len(s) \in Nat /\ (m <= Len(s) => Len(s) - m + 1 = Len(s) - n) /\ Len(s) - m + 1 = Len(s) - n
  BY <1>1
<1>3. \A k \in m..Len(s) : s[k] \in Nat
  BY <1>1, <1>2
<1>4. /\ SubSeq(s, m, Len(s)) \in Seq(Nat)
      /\ Len(SubSeq(s, m, Len(s))) = IF m <= Len(s) THEN Len(s) - m + 1 ELSE 0
      /\ \A k \in 1 .. Len(s) - m + 1 : SubSeq(s, m, Len(s))[k] = s[m + k - 1]
  BY <1>1, <1>2, <1>3, SubSeqProperties
<1>5. ASSUME NEW k \in 1 .. Len(s) - n PROVE m + k - 1 = n + k
  BY <1>1, <1>2
<1>6. Len(SubSeq(s, m, Len(s))) = Len(s) - n
  <2>1. CASE m <= Len(s)
    BY <1>2, <1>4, <2>1
  <2>2. CASE ~(m <= Len(s))
    <3>1. PICK l \in Nat : l = Len(s) /\ n <= l
      BY <1>1
    <3>2. l - n = 0
      BY <1>1, <2>2, <3>1
    <3> QED BY <1>4, <2>2, <3>1, <3>2
  <2> QED BY <2>1, <2>2
<1> QED BY <1>1, <1>2, <1>4, <1>5, <1>6

LEMMA TakeTyped ==
  ASSUME NEW s \in Seq(Nat), NEW n \in 0 .. Len(s)
  PROVE  /\ SubSeq(s, 1, n) \in Seq(Nat) /\ Len(SubSeq(s, 1, n)) = n
         /\ \A k \in 1..n : SubSeq(s, 1, n)[k] = s[k]
<1>1. Len(s) \in Nat /\ n \in Nat /\ \A k \in 1..n : s[k] \in Nat
  OBVIOUS
<1> QED BY <1>1, SubSeqProperties
  
LEMMA Reassociate ==
  ASSUME NEW a \in Seq(Nat), NEW b \in Seq(Nat), NEW c \in Seq(Nat)
  PROVE  (a \o b) \o c = a \o (b \o c)
BY ConcatAssociative

LEMMA ConcatIs ==
  ASSUME NEW a \in Seq(Nat), NEW w \in Seq(Nat)
  PROVE  /\ a \o w \in Seq(Nat) /\ Len(a \o w) = Len(a) + Len(w)
         /\ \A k \in 1..Len(a) : (a \o w)[k] = a[k]
         /\ \A k \in 1..Len(w) : (a \o w)[Len(a) + k] = w[k]
<1>1. /\ a \o w \in Seq(Nat) /\ Len(a \o w) = Len(a) + Len(w)
      /\ \A k \in 1 .. Len(a) + Len(w) : (a \o w)[k] = IF k <= Len(a) THEN a[k] ELSE w[k - Len(a)]
  BY ConcatProperties
<1>2. Len(a) \in Nat /\ Len(w) \in Nat
  OBVIOUS
<1>3. ASSUME NEW k \in 1..Len(w) PROVE (a \o w)[Len(a) + k] = w[k]
  <2>1. Len(a) + k \in 1 .. Len(a) + Len(w) /\ ~(Len(a) + k <= Len(a)) /\ Len(a) + k - Len(a) = k
    BY <1>2
  <2> QED BY <1>1, <2>1
<1> QED BY <1>1, <1>2, <1>3

LEMMA FrontAndBack ==
  ASSUME NEW a \in Seq(Nat), NEW w \in Seq(Nat), NEW u, u = a \o w
  PROVE  SubSeq(u, 1, Len(a)) = a /\ SubSeq(u, Len(a) + 1, Len(u)) = w
<1>1. /\ u \in Seq(Nat) /\ Len(u) = Len(a) + Len(w) /\ Len(a) \in Nat /\ Len(w) \in Nat
      /\ \A k \in 1..Len(a) : u[k] = a[k]
      /\ \A k \in 1..Len(w) : u[Len(a) + k] = w[k]
  BY ConcatIs
<1>2. Len(a) \in 0..Len(u) /\ Len(u) - Len(a) = Len(w)
  BY <1>1
<1>3. /\ SubSeq(u, 1, Len(a)) \in Seq(Nat) /\ Len(SubSeq(u, 1, Len(a))) = Len(a)
      /\ \A k \in 1..Len(a) : SubSeq(u, 1, Len(a))[k] = u[k]
  BY <1>1, <1>2, TakeTyped
<1>4. /\ SubSeq(u, Len(a) + 1, Len(u)) \in Seq(Nat)
      /\ Len(SubSeq(u, Len(a) + 1, Len(u))) = Len(u) - Len(a)
      /\ \A k \in 1 .. Len(u) - Len(a) : SubSeq(u, Len(a) + 1, Len(u))[k] = u[Len(a) + k]
  BY <1>1, <1>2, DropTyped
<1>5. SubSeq(u, 1, Len(a)) = a
  <2>1. \A k \in 1..Len(a) : SubSeq(u, 1, Len(a))[k] = a[k]
    BY <1>1, <1>3
  <2> QED BY <1>3, <2>1, SeqEqual
<1>6. SubSeq(u, Len(a) + 1, Len(u)) = w
  <2>1. /\ SubSeq(u, Len(a) + 1, Len(u)) \in Seq(Nat) /\ Len(SubSeq(u, Len(a) + 1, Len(u))) = Len(w)
        /\ \A k \in 1..Len(w) : SubSeq(u, Len(a) + 1, Len(u))[k] = w[k]
    BY <1>1, <1>2, <1>4
  <2> QED BY <2>1, SeqEqual
<1> QED BY <1>5, <1>6

LEMMA Splits ==
  ASSUME NEW s \in Seq(Nat), NEW n \in 0 .. Len(s)
  PROVE  SubSeq(s, 1, n) \o SubSeq(s, n + 1, Len(s)) = s
<1>1. PICK a \in Seq(Nat) : a = SubSeq(s, 1, n) /\ Len(a) = n /\ \A k \in 1..n : a[k] = s[k]
  BY TakeTyped
<1>2. PICK b \in Seq(Nat) : /\ b = SubSeq(s, n + 1, Len(s)) /\ Len(b) = Len(s) - n
                            /\ \A k \in 1 .. Len(s) - n : b[k] = s[n + k]
  BY DropTyped
<1>3. Len(s) = Len(a) + Len(b) /\ Len(s) \in Nat /\ n \in Nat
  <2>1. PICK l \in Nat : l = Len(s)
    OBVIOUS
  <2>2. n \in Nat /\ n + (l - n) = l
    BY <2>1
  <2> QED BY <1>1, <1>2, <2>1, <2>2
<1>4. (\A k \in 1..Len(a) : s[k] = a[k]) /\ (\A k \in 1..Len(b) : s[Len(a) + k] = b[k])
  BY <1>1, <1>2, <1>3
<1>5. s = a \o b
  BY <1>3, <1>4, IsConcat
<1> QED BY <1>1, <1>2, <1>5

LEMMA PutTogether ==
  ASSUME NEW c \in Seq(Nat), NEW s \in Seq(Nat), NEW n \in 0 .. Len(s)
  PROVE  (c \o SubSeq(s, 1, n)) \o SubSeq(s, n + 1, Len(s)) = c \o s
<1>1. PICK a \in Seq(Nat) : a = SubSeq(s, 1, n)
  BY TakeTyped
<1>2. PICK b \in Seq(Nat) : b = SubSeq(s, n + 1, Len(s))
  BY DropTyped
<1>3. a \o b = s
  BY <1>1, <1>2, Splits
<1>4. (c \o a) \o b = c \o (a \o b)
  BY Reassociate
<1> QED BY <1>1, <1>2, <1>3, <1>4

LEMMA DropFromFront ==
  ASSUME NEW c \in Seq(Nat), NEW s \in Seq(Nat), NEW n \in 0 .. Len(c)
  PROVE  /\ SubSeq(c \o s, n + 1, Len(c \o s)) = SubSeq(c, n + 1, Len(c)) \o s
         /\ SubSeq(c \o s, 1, n) = SubSeq(c, 1, n)
<1>1. PICK a \in Seq(Nat) : a = SubSeq(c, 1, n) /\ Len(a) = n
  BY TakeTyped
<1>2. PICK b \in Seq(Nat) : b = SubSeq(c, n + 1, Len(c))
  BY DropTyped
<1>3. a \o b = c
  BY <1>1, <1>2, Splits
<1>4. b \o s \in Seq(Nat)
  BY ConcatIs
<1>5. c \o s = a \o (b \o s)
  BY <1>3, Reassociate
<1>6. PICK w \in Seq(Nat) : w = b \o s
  BY <1>4
<1>7. PICK u : u = c \o s
  OBVIOUS
<1>8. u = a \o w
  BY <1>5, <1>6, <1>7
<1>9. SubSeq(u, 1, Len(a)) = a /\ SubSeq(u, Len(a) + 1, Len(u)) = w
  BY <1>8, FrontAndBack
<1> QED BY <1>1, <1>2, <1>6, <1>7, <1>9

\* For the session a step of the transport either changes nothing or lets side p copy n
\* of the units it asked for from the front of its peer's stream.
Copies(p, n) ==
  /\ n \in 1 .. Left(p) /\ n <= Len(Stream(Peer(p)))
  /\ Left(p)' = Left(p) - n
  /\ dst' = [dst EXCEPT ![p] = @ \o SubSeq(Stream(Peer(p)), 1, n)]
  /\ Stream(Peer(p))' = SubSeq(Stream(Peer(p)), n + 1, Len(Stream(Peer(p))))
  /\ Stream(p)' = Stream(p) /\ Left(Peer(p))' = Left(Peer(p))

Silent == UNCHANGED dst /\ \A s \in Sides : Stream(s)' = Stream(s) /\ Left(s)' = Left(s)

LEMMA SessionTransport ==
  ASSUME StreamInv, NEW p \in Sides, Writing(p) \/ Reading(p)
  PROVE  StreamInv' /\ (Silent \/ \E n \in Nat : Copies(p, n))
<1> DEFINE q == Peer(p)
<1>1. /\ StreamInv' /\ Left(q)' = Left(q) /\ q \in Sides /\ q # p
      /\ \/ UNCHANGED streams /\ Left(p)' = Left(p)
         \/ Published(p, Piece(p)) /\ Left(p)' = Left(p)
         \/ /\ Delivered(p, Chunk(p)) /\ Chunk(p) <= Left(p)
            /\ Left(p)' = Left(p) - Chunk(p)
  BY TransportStep, SidesPeers
<1>2. \A s \in Sides : Chan(s) \in Seq(Nat) /\ src[s] \in Seq(Nat) /\ Len(Chan(s)) \in Nat /\ Len(src[s]) \in Nat
  <2>1. ASSUME NEW s \in Sides PROVE Chan(s) \in Seq(Nat) /\ src[s] \in Seq(Nat)
    BY StreamTyped
  <2> HIDE DEF Chan
  <2> QED BY <2>1
<1> HIDE DEF Chan
<1>3. CASE UNCHANGED streams /\ Left(p)' = Left(p)
  <2>1. \A s \in Sides : Chan(s)' = Chan(s)
    <3>1. [s \in Sides |-> Chan(s)]' = [s \in Sides |-> Chan(s)]
      BY <1>3 DEF streams
    <3>2. \A s \in Sides : [t \in Sides |-> Chan(t)][s] = Chan(s) /\ [t \in Sides |-> Chan(t)]'[s] = Chan(s)'
      OBVIOUS
    <3> QED BY <3>1, <3>2
  <2> QED BY <1>1, <1>3, <2>1, TwoSides DEF streams, Silent, Stream
<1>4. CASE Published(p, Piece(p)) /\ Left(p)' = Left(p)
  <2> DEFINE n == Piece(p)
  <2>1. /\ n \in 0 .. Len(src[p]) /\ UNCHANGED dst /\ src'[q] = src[q]
        /\ Chan(p)' = Chan(p) \o SubSeq(src[p], 1, n) /\ Chan(q)' = Chan(q)
        /\ src'[p] = SubSeq(src[p], n + 1, Len(src[p]))
    BY <1>1, <1>4 DEF Published, StreamInv, TypeOK
  <2> HIDE DEF n
  <2>2. Stream(p)' = Stream(p)
    BY <1>2, <2>1, PutTogether DEF Stream
  <2>3. Stream(q)' = Stream(q)
    BY <2>1 DEF Stream
  <2> QED BY <1>1, <1>4, <2>1, <2>2, <2>3, TwoSides DEF Silent
<1>5. CASE Delivered(p, Chunk(p)) /\ Chunk(p) <= Left(p) /\ Left(p)' = Left(p) - Chunk(p)
  <2>1. PICK n \in Nat : n = Chunk(p) /\ n \in 1 .. Len(Chan(q))
    BY <1>2, <1>1, <1>5 DEF Delivered
  <2>2. /\ UNCHANGED src /\ Chan(p)' = Chan(p)
        /\ dst' = [dst EXCEPT ![p] = @ \o SubSeq(Chan(q), 1, n)]
        /\ Chan(q)' = SubSeq(Chan(q), n + 1, Len(Chan(q)))
    BY <1>5, <2>1 DEF Delivered
  <2>3. /\ SubSeq(Stream(q), n + 1, Len(Stream(q))) = SubSeq(Chan(q), n + 1, Len(Chan(q))) \o src[q]
        /\ SubSeq(Stream(q), 1, n) = SubSeq(Chan(q), 1, n)
    <3>1. PICK c \in Seq(Nat), t \in Seq(Nat) : c = Chan(q) /\ t = src[q] /\ n \in 0..Len(c)
      BY <1>1, <1>2, <2>1
    <3>2. /\ SubSeq(c \o t, n + 1, Len(c \o t)) = SubSeq(c, n + 1, Len(c)) \o t
          /\ SubSeq(c \o t, 1, n) = SubSeq(c, 1, n)
      BY <3>1, DropFromFront
    <3> QED BY <3>1, <3>2 DEF Stream
  <2>4. Stream(q)' = SubSeq(Stream(q), n + 1, Len(Stream(q))) /\ Stream(p)' = Stream(p)
    BY <2>2, <2>3 DEF Stream
  <2>5. n <= Len(Stream(q)) /\ Left(p) \in Nat
    <3>1. Len(Stream(q)) = Len(Chan(q)) + Len(src[q]) /\ Left(p) \in Nat
      BY <1>1, StreamTyped, IdleIsDone
    <3> QED BY <1>1, <1>2, <2>1, <3>1
  <2>6. Copies(p, n)
    <3>1. n \in 1 .. Left(p) /\ Left(p)' = Left(p) - n /\ Left(q)' = Left(q)
      BY <1>1, <1>5, <2>1, <2>5
    <3>2. dst' = [dst EXCEPT ![p] = @ \o SubSeq(Stream(q), 1, n)]
      BY <2>2, <2>3
    <3> QED BY <2>4, <2>5, <3>1, <3>2 DEF Copies
  <2> QED BY <1>1, <2>6
<1> QED BY <1>1, <1>3, <1>4, <1>5

-----------------------------------------------------------------------------
(* The size of a reply, or of the data of a command: what Total sums up.    *)

LEMMA UpTo ==
  ASSUME NEW n \in Nat, NEW T, 0 \in T, \A i \in 0 .. n - 1 : i \in T => i + 1 \in T
  PROVE  \A i \in 0..n : i \in T
<1> DEFINE F == {i \in 0..n : i \notin T}
<1>1. SUFFICES ASSUME F # {} PROVE FALSE
  OBVIOUS
<1>2. F \in SUBSET Nat
  OBVIOUS
<1>3. PICK m \in F : \A i \in F : ~ (<<i, m>> \in OpToRel(<, Nat))
  <2> HIDE DEF F
  <2> QED BY <1>1, <1>2, NatLessThanWellFounded, WFMin
<1>4. \A i \in F : ~(i < m)
  <2>1. \A i \in F : i \in Nat /\ m \in Nat
    BY <1>2
  <2> HIDE DEF F
  <2> QED BY <1>3, <2>1, Zenon DEF OpToRel
<1>5. m \in 0..n /\ m \notin T /\ m # 0
  BY <1>3
<1>6. PICK j \in 0 .. n - 1 : m = j + 1
  <2>1. m - 1 \in 0 .. n - 1 /\ m = (m - 1) + 1
    BY <1>5
  <2> QED BY <2>1
<1>7. j \in T
  BY <1>4, <1>6
<1> QED BY <1>5, <1>6, <1>7

\* f is the sums of the beginnings of s.
Sums(s, f) == f = [i \in 0..Len(s) |-> IF i = 0 THEN 0 ELSE f[i - 1] + s[i]]

LEMMA SumsExist ==
  ASSUME NEW s \in Seq(Nat)
  PROVE  \E f : Sums(s, f)
<1> DEFINE To(n, f) == f = [i \in 0..n |-> IF i = 0 THEN 0 ELSE f[i - 1] + s[i]]
           T == {n \in 0..Len(s) : \E f \in [0..n -> Nat] : To(n, f)}
<1>1. Len(s) \in Nat
  OBVIOUS
<1>2. 0 \in T
  <2>1. PICK z \in {0} : TRUE
    OBVIOUS
  <2>2. PICK f : f = [i \in 0..z |-> 0]
    OBVIOUS
  <2>3. f \in [0..z -> Nat] /\ To(z, f)
    BY <2>1, <2>2
  <2>4. z \in T
    BY <1>1, <2>1, <2>3
  <2> QED BY <2>1, <2>4
<1>3. ASSUME NEW n \in 0 .. Len(s) - 1, n \in T PROVE n + 1 \in T
  <2>1. PICK f \in [0..n -> Nat] : To(n, f)
    BY <1>3
  <2> DEFINE g == [i \in 0 .. n + 1 |-> IF i = n + 1 THEN f[n] + s[n + 1] ELSE f[i]]
  <2>2. n \in Nat /\ n + 1 \in 0..Len(s)
    BY <1>1
  <2>3. ASSUME NEW i \in 0 .. n + 1
        PROVE  g[i] = IF i = 0 THEN 0 ELSE g[i - 1] + s[i]
    <3>1. CASE i = n + 1
      <4>1. i # 0 /\ i - 1 = n /\ n \in 0 .. n + 1 /\ n # n + 1
        BY <2>2, <3>1
      <4>2. g[n] = f[n]
        BY <4>1
      <4> QED BY <3>1, <4>1, <4>2
    <3>2. CASE i # n + 1
      <4>1. i \in 0..n /\ g[i] = f[i]
        BY <2>2, <3>2
      <4>2. CASE i = 0
        BY <2>1, <4>1, <4>2
      <4>3. CASE i # 0
        <5>1. i - 1 \in 0..n + 1 /\ i - 1 # n + 1
          BY <2>2, <4>1, <4>3
        <5>2. g[i - 1] = f[i - 1]
          BY <5>1
        <5>3. f[i] = f[i - 1] + s[i]
          BY <2>1, <4>1, <4>3
        <5> HIDE DEF g
        <5> QED BY <4>1, <4>3, <5>2, <5>3
      <4> QED BY <4>2, <4>3
    <3> QED BY <3>1, <3>2
  <2>4. g \in [0 .. n + 1 -> Nat] /\ To(n + 1, g)
    <3> DEFINE h == [i \in 0 .. n + 1 |-> IF i = 0 THEN 0 ELSE g[i - 1] + s[i]]
    <3>1. \A i \in 0 .. n + 1 : g[i] = h[i]
      BY <2>3
    <3>2. f[n] + s[n + 1] \in Nat /\ \A i \in 0 .. n + 1 : i # n + 1 => f[i] \in Nat
      BY <1>1, <2>2
    <3>3. g \in [0 .. n + 1 -> Nat]
      BY <3>2
    <3>4. h \in [0 .. n + 1 -> Nat]
      <4>1. \A i \in 0 .. n + 1 : h[i] \in Nat /\ h[i] = (IF i = 0 THEN 0 ELSE g[i - 1] + s[i])
        BY <3>1, <3>3
      <4> QED BY <4>1
    <3>5. g = h
      <4> HIDE DEF g, h
      <4> QED BY <3>1, <3>3, <3>4
    <3> QED BY <3>3, <3>5
  <2> HIDE DEF g
  <2> QED BY <2>2, <2>4
<1>4. Len(s) \in T
  <2>1. \A i \in 0..Len(s) : i \in T
    <3> HIDE DEF T
    <3> QED BY <1>1, <1>2, <1>3, UpTo
  <2> HIDE DEF T
  <2> QED BY <1>1, <2>1
<1> QED BY <1>4 DEF Sums

LEMMA SumsAre ==
  ASSUME NEW s \in Seq(Nat), NEW f, Sums(s, f)
  PROVE  /\ f[0] = 0
         /\ \A i \in 1..Len(s) : f[i] = f[i - 1] + s[i]
         /\ \A i \in 0..Len(s) : f[i] \in Nat
<1>1. Len(s) \in Nat
  OBVIOUS
<1>2. \A i \in 0..Len(s) : f[i] = IF i = 0 THEN 0 ELSE f[i - 1] + s[i]
  BY DEF Sums
<1>3. f[0] = 0 /\ \A i \in 1..Len(s) : f[i] = f[i - 1] + s[i]
  BY <1>1, <1>2
<1> DEFINE T == {i \in 0..Len(s) : f[i] \in Nat}
<1>4. 0 \in T
  BY <1>1, <1>3
<1>5. ASSUME NEW i \in 0 .. Len(s) - 1, i \in T PROVE i + 1 \in T
  <2>1. i + 1 \in 1..Len(s) /\ i + 1 - 1 = i
    BY <1>1
  <2>2. f[i + 1] = f[i] + s[i + 1] /\ s[i + 1] \in Nat
    BY <1>3, <2>1
  <2> QED BY <1>5, <2>1, <2>2
<1>6. \A i \in 0..Len(s) : i \in T
  <2> HIDE DEF T
  <2> QED BY <1>1, <1>4, <1>5, UpTo
<1> QED BY <1>3, <1>6

LEMMA TotalIs ==
  ASSUME NEW s \in Seq(Nat)
  PROVE  \E f : Sums(s, f) /\ Total(s) = f[Len(s)]
<1>1. PICK f : f = CHOOSE g : Sums(s, g)
  OBVIOUS
<1>2. Sums(s, f)
  BY <1>1, SumsExist
<1>3. Total(s) = f[Len(s)]
  BY <1>1 DEF Total, Sums
<1> QED BY <1>2, <1>3

\* The writes of a reply, and the reads of data, add up: one, and the others.
LEMMA TotalAdds ==
  ASSUME NEW s \in Seq(Nat \ {0})
  PROVE  /\ Total(s) \in Nat
         /\ s = <<>> => Total(s) = 0
         /\ s # <<>> => /\ Total(s) = Head(s) + Total(Tail(s)) /\ Total(s) > 0
                        /\ Head(s) \in Nat \ {0} /\ Tail(s) \in Seq(Nat \ {0})
                        /\ Total(Tail(s)) \in Nat
<1>1. s \in Seq(Nat) /\ Len(s) \in Nat
  OBVIOUS
<1>2. PICK f : Sums(s, f) /\ Total(s) = f[Len(s)]
  BY <1>1, TotalIs
<1>3. /\ f[0] = 0 /\ \A i \in 1..Len(s) : f[i] = f[i - 1] + s[i]
      /\ \A i \in 0..Len(s) : f[i] \in Nat
  BY <1>1, <1>2, SumsAre
<1>4. Total(s) \in Nat
  BY <1>1, <1>2, <1>3
<1>5. s = <<>> => Total(s) = 0
  BY <1>2, <1>3
<1>6. ASSUME s # <<>>
      PROVE  /\ Total(s) = Head(s) + Total(Tail(s)) /\ Total(s) > 0
             /\ Head(s) \in Nat \ {0} /\ Tail(s) \in Seq(Nat \ {0})
             /\ Total(Tail(s)) \in Nat
  <2>1. PICK t \in Seq(Nat \ {0}) : /\ t = Tail(s) /\ Len(t) = Len(s) - 1
                              /\ \A i \in 1 .. Len(s) - 1 : t[i] = s[i + 1]
    <3>1. /\ Tail(s) \in Seq(Nat \ {0}) /\ Len(Tail(s)) = Len(s) - 1
          /\ \A i \in 1 .. Len(s) - 1 : Tail(s)[i] = s[i + 1]
      BY <1>6, HeadTailProperties
    <3> QED BY <3>1
  <2>2. Head(s) = s[1] /\ s[1] \in Nat \ {0} /\ Len(s) >= 1
    BY <1>6
  <2>3. t \in Seq(Nat) /\ Len(t) \in Nat
    OBVIOUS
  <2>4. PICK g : Sums(t, g) /\ Total(t) = g[Len(t)]
    BY <2>3, TotalIs
  <2>5. /\ g[0] = 0 /\ \A i \in 1..Len(t) : g[i] = g[i - 1] + t[i]
        /\ \A i \in 0..Len(t) : g[i] \in Nat
    BY <2>3, <2>4, SumsAre
  <2> DEFINE T == {i \in 0..Len(t) : f[i + 1] = s[1] + g[i]}
  <2>6. 0 \in T
    <3>1. f[1] = f[0] + s[1]
      <4>1. 1 \in 1..Len(s) /\ 1 - 1 = 0
        BY <1>1, <2>2
      <4> QED BY <1>3, <4>1
    <3> QED BY <1>3, <2>2, <2>3, <2>5, <3>1
  <2>7. ASSUME NEW i \in 0 .. Len(t) - 1, i \in T PROVE i + 1 \in T
    <3>1. PICK j \in 1..Len(t) : j = i + 1 /\ j - 1 = i
      BY <2>3
    <3>2. j + 1 \in 1..Len(s) /\ j + 1 - 1 = j /\ t[j] = s[j + 1] /\ j \in 0..Len(s)
      BY <1>1, <2>1, <2>3, <3>1
    <3>3. f[j + 1] = f[j] + s[j + 1] /\ g[j] = g[i] + t[j]
      BY <1>3, <2>5, <3>1, <3>2
    <3>4. f[j] = s[1] + g[i] /\ g[i] \in Nat /\ t[j] \in Nat /\ s[1] \in Nat
      BY <2>2, <2>3, <2>5, <2>7, <3>1
    <3>5. PICK a \in Nat, b \in Nat, c \in Nat : a = s[1] /\ b = g[i] /\ c = t[j]
      BY <3>4
    <3>6. (a + b) + c = a + (b + c)
      OBVIOUS
    <3>7. f[j + 1] = s[1] + g[j]
      BY <3>2, <3>3, <3>4, <3>5, <3>6
    <3> QED BY <2>3, <3>1, <3>7
  <2>8. \A i \in 0..Len(t) : i \in T
    <3> HIDE DEF T
    <3> QED BY <2>3, <2>6, <2>7, UpTo
  <2>9. f[Len(s)] = s[1] + g[Len(t)]
    <3>1. Len(t) \in T /\ Len(t) + 1 = Len(s)
      BY <1>1, <2>1, <2>3, <2>8
    <3> QED BY <3>1
  <2>10. g[Len(t)] \in Nat
    BY <2>3, <2>5
  <2> QED BY <1>2, <2>1, <2>2, <2>4, <2>9, <2>10
<1> QED BY <1>4, <1>5, <1>6

-----------------------------------------------------------------------------
(* Commands on their way: the stream is what is left of one command, of k   *)
(* units, and then whole commands, whose headers are at the places of H.    *)

Headers(U, k, H) ==
  /\ H \subseteq k + 1 .. Len(U)
  /\ k + 1 \in H \/ k = Len(U)
  /\ \A h \in H : /\ U[h] \in Commands
                  /\ h + Payload(U[h]) + 1 \in H \/ h + Payload(U[h]) = Len(U)
  /\ \A h, g \in H : h < g => h + Payload(U[h]) < g

\* The same places after n units have gone.
Ahead(H, n, U) == {g \in 1 .. Len(U) : g + n \in H}

\* W is U without its first n units.
Moved(U, H, n, W) ==
  /\ W \in Seq(Nat) /\ Len(W) = Len(U) - n
  /\ \A g \in Ahead(H, n, W) : g \in Nat /\ g + n \in H /\ W[g] = U[g + n]

\* W is U and then a command c, from l on.
Grown(U, H, W, l, c) ==
  /\ W \in Seq(Nat) /\ W[l] = c /\ l \notin H /\ Len(W) = l + Payload(c)
  /\ \A h \in H : W[h] = U[h]

LEMMA DataTyped == ASSUME NEW c \in Commands PROVE Payload(c) \in Nat /\ c \in Nat
<1>1. PICK r \in Seq(Nat \ {0}) : r = Data[c]
  BY CommandsAssumption
<1> QED BY <1>1, TotalAdds, CommandsAssumption DEF Payload

LEMMA HeadersDrop ==
  ASSUME NEW U \in Seq(Nat), NEW k \in Nat, NEW H, Headers(U, k, H), NEW n \in 0..k,
         NEW W, W = SubSeq(U, n + 1, Len(U))
  PROVE  Headers(W, k - n, Ahead(H, n, W)) /\ Moved(U, H, n, W)
<1> DEFINE G == Ahead(H, n, W)
<1>1. PICK l \in Nat : l = Len(U)
  OBVIOUS
<1>2. k <= l /\ n \in 0..l /\ n \in Nat /\ \A h \in H : h \in Nat /\ k + 1 <= h /\ h <= l
  BY <1>1 DEF Headers
<1>3. W \in Seq(Nat) /\ Len(W) = l - n /\ \A g \in 1 .. l - n : W[g] = U[n + g]
  BY <1>1, <1>2, DropTyped
<1>4. \A g : g \in G <=> g \in 1 .. l - n /\ g + n \in H
  BY <1>3 DEF Ahead
<1>5. \A g \in G : g \in Nat /\ g + n \in H /\ W[g] = U[g + n] /\ W[g] \in Commands /\ Payload(W[g]) \in Nat
  <2>1. ASSUME NEW g \in G PROVE g \in Nat /\ g + n \in H /\ W[g] = U[g + n]
    <3>1. g \in 1 .. l - n /\ g + n \in H
      BY <1>4
    <3>2. g \in Nat /\ g + n = n + g
      BY <1>2, <3>1
    <3>3. W[g] = U[n + g]
      BY <1>3, <3>1
    <3> QED BY <3>1, <3>2, <3>3
  <2> QED BY <2>1, DataTyped DEF Headers
<1>6. \A h \in H : h - n \in Nat /\ h - n \in G /\ (h - n) + n = h
  BY <1>2, <1>4
<1>7. G \subseteq k - n + 1 .. Len(W)
  BY <1>2, <1>3, <1>4, SMTT(30)
<1>8. k - n + 1 \in G \/ k - n = Len(W)
  <2>1. CASE k + 1 \in H
    <3>1. k + 1 - n = k - n + 1
      BY <1>2
    <3> QED BY <1>6, <2>1, <3>1
  <2>2. CASE k = l
    BY <1>2, <1>3, <2>2
  <2> QED BY <1>1, <2>1, <2>2 DEF Headers
<1>9. ASSUME NEW g \in G
      PROVE  g + Payload(W[g]) + 1 \in G \/ g + Payload(W[g]) = Len(W)
  <2>1. PICK d \in Nat : d = Payload(W[g]) /\ d = Payload(U[g + n])
    BY <1>5
  <2>2. (g + n) + d + 1 \in H \/ (g + n) + d = l
    BY <1>1, <1>5, <2>1 DEF Headers
  <2>3. CASE (g + n) + d + 1 \in H
    <3>1. PICK h \in H : h = (g + n) + d + 1
      BY <2>3
    <3>2. h - n \in G
      BY <1>6
    <3>3. h - n = g + d + 1
      BY <1>2, <1>5, <3>1
    <3> QED BY <2>1, <3>2, <3>3
  <2>4. CASE (g + n) + d = l
    <3>1. g \in Nat
      BY <1>5
    <3>2. g + d = l - n
      BY <1>1, <1>2, <2>4, <3>1
    <3> QED BY <1>3, <2>1, <3>2
  <2> QED BY <2>2, <2>3, <2>4
<1>10. ASSUME NEW h \in G, NEW g \in G, h < g
       PROVE  h + Payload(W[h]) < g
  <2>1. PICK d \in Nat : d = Payload(W[h]) /\ d = Payload(U[h + n])
    BY <1>5
  <2>2. h + n < g + n /\ h \in Nat /\ g \in Nat
    BY <1>2, <1>5, <1>10
  <2>3. (h + n) + d < g + n
    BY <1>5, <2>1, <2>2 DEF Headers
  <2>4. h + d < g
    BY <1>2, <2>2, <2>3
  <2> QED BY <2>1, <2>4
<1>11. Headers(W, k - n, G)
  BY <1>5, <1>7, <1>8, <1>9, <1>10 DEF Headers
<1>12. Moved(U, H, n, W)
  BY <1>1, <1>3, <1>5 DEF Moved
<1> HIDE DEF G
<1> QED BY <1>11, <1>12 DEF G

LEMMA HeadersTake ==
  ASSUME NEW U \in Seq(Nat), NEW H, Headers(U, 0, H), Len(U) >= 1,
         NEW W, W = SubSeq(U, 2, Len(U))
  PROVE  /\ 1 \in H /\ U[1] \in Commands
         /\ Headers(W, Payload(U[1]), Ahead(H, 1, W)) /\ Moved(U, H, 1, W)
<1> DEFINE G == Ahead(H, 1, W)
<1>1. PICK l \in Nat : l = Len(U) /\ l >= 1
  OBVIOUS
<1>2. H \subseteq 1..l /\ 1 \in H
  BY <1>1 DEF Headers
<1>3. W \in Seq(Nat) /\ Len(W) = l - 1 /\ \A g \in 1 .. l - 1 : W[g] = U[1 + g]
  <2>1. PICK n \in 0..l : n = 1 /\ n + 1 = 2
    BY <1>1
  <2>2. /\ SubSeq(U, n + 1, l) \in Seq(Nat) /\ Len(SubSeq(U, n + 1, l)) = l - n
        /\ \A g \in 1 .. l - n : SubSeq(U, n + 1, l)[g] = U[n + g]
    BY <1>1, DropTyped
  <2> QED BY <1>1, <2>1, <2>2
<1>4. \A g : g \in G <=> g \in 1 .. l - 1 /\ g + 1 \in H
  BY <1>3 DEF Ahead
<1>5. \A g \in G : g \in Nat /\ g + 1 \in H /\ W[g] = U[g + 1] /\ W[g] \in Commands /\ Payload(W[g]) \in Nat
  <2>1. ASSUME NEW g \in G PROVE g \in Nat /\ g + 1 \in H /\ W[g] = U[g + 1]
    <3>1. g \in 1 .. l - 1 /\ g + 1 \in H /\ g + 1 = 1 + g
      BY <1>1, <1>4
    <3> QED BY <1>3, <3>1
  <2> QED BY <2>1, DataTyped DEF Headers
<1>6. \A h \in H : h # 1 => h - 1 \in Nat /\ h - 1 \in G /\ (h - 1) + 1 = h
  BY <1>1, <1>2, <1>4, SMTT(30)
<1>7. PICK c \in Commands, d \in Nat : c = U[1] /\ d = Payload(c)
  BY <1>2, DataTyped DEF Headers
<1>8. G \subseteq d + 1 .. Len(W)
  <2>1. ASSUME NEW g \in G PROVE d + 1 <= g
    <3>1. 1 + d < g + 1
      <4>1. 1 < g + 1
        BY <1>4
      <4> QED BY <1>2, <1>5, <1>7, <4>1 DEF Headers
    <3> QED BY <1>5, <3>1
  <2> QED BY <1>3, <1>4, <2>1
<1>9. d + 1 \in G \/ d = Len(W)
  <2>1. 1 + d + 1 \in H \/ 1 + d = l
    BY <1>1, <1>2, <1>7 DEF Headers
  <2>2. 1 + d + 1 # 1 /\ 1 + d + 1 - 1 = d + 1 /\ (1 + d = l => d = l - 1)
    BY <1>1
  <2>3. CASE 1 + d + 1 \in H
    <3>1. PICK h \in H : h = 1 + d + 1 /\ h # 1
      BY <2>2, <2>3
    <3>2. h - 1 \in G
      BY <1>6, <3>1
    <3> QED BY <2>2, <3>1, <3>2
  <2> QED BY <1>3, <2>1, <2>2, <2>3
<1>10. ASSUME NEW g \in G
       PROVE  g + Payload(W[g]) + 1 \in G \/ g + Payload(W[g]) = Len(W)
  <2>1. PICK e \in Nat : e = Payload(W[g]) /\ e = Payload(U[g + 1])
    BY <1>5
  <2>2. (g + 1) + e + 1 \in H \/ (g + 1) + e = l
    BY <1>1, <1>5, <2>1 DEF Headers
  <2>3. CASE (g + 1) + e + 1 \in H
    <3>1. PICK h \in H : h = (g + 1) + e + 1
      BY <2>3
    <3>2. h # 1 /\ h - 1 = g + e + 1
      BY <1>5, <3>1
    <3>3. h - 1 \in G
      BY <1>6, <3>2
    <3> QED BY <2>1, <3>2, <3>3
  <2>4. CASE (g + 1) + e = l
    <3>1. PICK i \in Nat : i = g
      BY <1>5
    <3>2. (i + 1) + e = l => i + e = l - 1
      BY <1>1
    <3>3. g + e = l - 1
      BY <2>4, <3>1, <3>2
    <3> QED BY <1>3, <2>1, <3>3
  <2> QED BY <2>2, <2>3, <2>4
<1>11. ASSUME NEW h \in G, NEW g \in G, h < g
       PROVE  h + Payload(W[h]) < g
  <2>1. PICK e \in Nat : e = Payload(W[h]) /\ e = Payload(U[h + 1])
    BY <1>5
  <2>2. h + 1 < g + 1
    BY <1>5, <1>11
  <2>3. (h + 1) + e < g + 1
    BY <1>5, <2>1, <2>2 DEF Headers
  <2>4. PICK i \in Nat, j \in Nat : i = h /\ j = g
    BY <1>5
  <2>5. (i + 1) + e < j + 1 => i + e < j
    OBVIOUS
  <2>6. h + e < g
    BY <2>3, <2>4, <2>5
  <2> QED BY <2>1, <2>6
<1>12. Headers(W, d, G)
  BY <1>5, <1>8, <1>9, <1>10, <1>11 DEF Headers
<1>13. Moved(U, H, 1, W)
  BY <1>1, <1>3, <1>5 DEF Moved
<1> HIDE DEF G
<1> QED BY <1>2, <1>7, <1>12, <1>13 DEF G

LEMMA HeadersAdd ==
  ASSUME NEW U \in Seq(Nat), NEW k \in Nat, NEW H, Headers(U, k, H), NEW c \in Commands,
         NEW W, W = U \o (<<c>> \o Zeros(Payload(c))), NEW n \in Nat, n = Len(U) + 1
  PROVE  Headers(W, k, H \cup {n}) /\ Grown(U, H, W, n, c)
<1>1. PICK l \in Nat : l = Len(U)
  OBVIOUS
<1>2. PICK d \in Nat : d = Payload(c) /\ c \in Nat
  BY DataTyped
<1>3. PICK m \in Seq(Nat) : m = <<c>> \o Zeros(d) /\ Len(m) = 1 + d /\ m[1] = c
  <2>1. Zeros(d) \in Seq(Nat) /\ Len(Zeros(d)) = d
    BY DEF Zeros
  <2>2. PICK z \in Seq(Nat) : z = Zeros(d) /\ Len(z) = d
    BY <2>1
  <2>3. <<c>> \in Seq(Nat) /\ Len(<<c>>) = 1 /\ <<c>>[1] = c
    BY <1>2
  <2>4. PICK h \in Seq(Nat) : h = <<c>> /\ Len(h) = 1 /\ h[1] = c
    BY <2>3
  <2>5. /\ h \o z \in Seq(Nat) /\ Len(h \o z) = Len(h) + Len(z)
        /\ \A i \in 1..Len(h) : (h \o z)[i] = h[i]
    BY ConcatIs
  <2>6. h \o z \in Seq(Nat) /\ Len(h \o z) = 1 + d /\ (h \o z)[1] = c
    BY <2>2, <2>4, <2>5
  <2> QED BY <2>2, <2>4, <2>6
<1>4. /\ W \in Seq(Nat) /\ Len(W) = l + (1 + d)
      /\ \A i \in 1..l : W[i] = U[i]
      /\ \A i \in 1 .. 1 + d : W[l + i] = m[i]
  <2>1. W = U \o m
    BY <1>2, <1>3
  <2>2. /\ U \o m \in Seq(Nat) /\ Len(U \o m) = Len(U) + Len(m)
        /\ \A i \in 1..Len(U) : (U \o m)[i] = U[i]
        /\ \A i \in 1..Len(m) : (U \o m)[Len(U) + i] = m[i]
    BY ConcatIs
  <2> QED BY <1>1, <1>3, <2>1, <2>2
<1>5. W[l + 1] = c
  <2>1. 1 \in 1 .. 1 + d
    BY <1>2
  <2> QED BY <1>3, <1>4, <2>1
<1>6. H \subseteq k + 1 .. l /\ k <= l /\ \A h \in H : h \in Nat /\ h \in 1..l /\ W[h] = U[h]
  <2>1. H \subseteq k + 1 .. l /\ k <= l
    BY <1>1 DEF Headers
  <2>2. ASSUME NEW h \in H PROVE h \in Nat /\ h \in 1..l
    BY <2>1
  <2> QED BY <1>4, <2>1, <2>2
<1> DEFINE G == H \cup {l + 1}
<1>7. G \subseteq k + 1 .. Len(W)
  <2>1. l + 1 \in k + 1 .. Len(W)
    BY <1>4, <1>6
  <2>2. ASSUME NEW h \in H PROVE h \in k + 1 .. Len(W)
    BY <1>4, <1>6
  <2> QED BY <2>1, <2>2
<1>8. k + 1 \in G
  BY <1>1, <1>6 DEF Headers
<1>9. ASSUME NEW h \in G
      PROVE  W[h] \in Commands /\ (h + Payload(W[h]) + 1 \in G \/ h + Payload(W[h]) = Len(W))
  <2>1. CASE h = l + 1
    <3>1. h + d = Len(W)
      BY <1>4, <2>1
    <3> QED BY <1>2, <1>5, <2>1, <3>1
  <2>2. CASE h \in H
    <3>1. U[h] \in Commands /\ W[h] = U[h] /\ (h + Payload(U[h]) + 1 \in H \/ h + Payload(U[h]) = l)
      BY <1>1, <1>6, <2>2 DEF Headers
    <3> QED BY <3>1
  <2> QED BY <2>1, <2>2
<1>10. ASSUME NEW h \in G, NEW g \in G, h < g
       PROVE  h + Payload(W[h]) < g
  <2>1. h \in H
    BY <1>6, <1>10
  <2>2. PICK a \in Nat, e \in Nat : a = h /\ e = Payload(U[a]) /\ e = Payload(W[a])
    BY <1>6, <2>1, DataTyped DEF Headers
  <2>3. CASE g = l + 1
    <3>1. a + e + 1 \in H \/ a + e = l
      BY <1>1, <2>1, <2>2 DEF Headers
    <3>2. a + e + 1 \in H => a + e + 1 <= l
      BY <1>6
    <3>3. a + e < l + 1
      BY ONLY <3>1, <3>2, a \in Nat, e \in Nat, l \in Nat
    <3> QED BY <2>2, <2>3, <3>3
  <2>4. CASE g \in H
    BY <1>10, <2>1, <2>2, <2>4 DEF Headers
  <2> QED BY <2>3, <2>4
<1>11. Headers(W, k, G)
  BY <1>7, <1>8, <1>9, <1>10 DEF Headers
<1>12. l + 1 \notin H
  BY <1>6
<1>13. Len(W) = l + 1 + d
  BY <1>4
<1>14. Grown(U, H, W, l + 1, c)
  BY <1>2, <1>4, <1>5, <1>6, <1>12, <1>13 DEF Grown
<1>15. n = l + 1
  BY <1>1
<1> QED BY <1>11, <1>14, <1>15

LEMMA HeadersNone == Headers(<<>>, 0, {})
BY DEF Headers

-----------------------------------------------------------------------------
(* Calls, as the session sees them.                                         *)

LEMMA SameWhileIdle ==
  ASSUME StreamInv, NEW p \in Sides, pc'[p] # "read_advance", pc[p] # "read_advance",
         want'[p] = want[p]
  PROVE  Left(p)' = Left(p)
BY DEF Left

LEMMA CallWrite ==
  ASSUME StreamInv, NEW p \in Sides, NEW m \in Seq(Nat), BeginWrite(p, m)
  PROVE  /\ StreamInv' /\ UNCHANGED dst /\ Stream(p)' = Stream(p) \o m
         /\ Stream(Peer(p))' = Stream(Peer(p))
         /\ \A s \in Sides : Left(s)' = Left(s)
<1> DEFINE q == Peer(p)
<1>1. /\ StreamInv' /\ Chan(p)' = Chan(p) /\ Chan(q)' = Chan(q)
      /\ src[p] = <<>> /\ src' = [src EXCEPT ![p] = m] /\ UNCHANGED dst
  BY BeginWriteStep, SidesPeers
<1>2. q \in Sides /\ q # p /\ Peer(q) = p /\ TypeOK
  BY SidesPeers DEF StreamInv
<1>3. src'[p] = m /\ src'[q] = src[q]
  BY <1>1, <1>2 DEF TypeOK
<1>4. Chan(p) \in Seq(Nat)
  BY StreamTyped
<1>5. Stream(p) = Chan(p)
  <2>1. PICK c \in Seq(Nat) : c = Chan(p)
    BY <1>4
  <2>2. c \o <<>> = c
    BY ConcatEmptySeq
  <2> QED BY <1>1, <2>1, <2>2 DEF Stream
<1>6. Stream(p)' = Stream(p) \o m /\ Stream(q)' = Stream(q)
  BY <1>1, <1>3, <1>5 DEF Stream
<1>7. /\ pc[p] = "idle" /\ pc'[p] = "write_load" /\ pc'[q] = pc[q] /\ UNCHANGED <<want, mark, rd>>
  BY <1>2 DEF BeginWrite, Goto, shared, TypeOK
<1>8. Left(p)' = Left(p)
  BY <1>7, SameWhileIdle
<1>9. Left(q)' = Left(q)
  BY <1>2, <1>7, LeftKept
<1> QED BY <1>1, <1>6, <1>8, <1>9, TwoSides

LEMMA CallRead ==
  ASSUME StreamInv, NEW p \in Sides, NEW n \in Nat \ {0}, BeginRead(p, n)
  PROVE  /\ StreamInv' /\ dst' = [dst EXCEPT ![p] = <<>>]
         /\ \A s \in Sides : Stream(s)' = Stream(s)
         /\ Left(p)' = n /\ Left(Peer(p))' = Left(Peer(p))
<1> DEFINE q == Peer(p)
<1>1. /\ StreamInv' /\ (\A s \in Sides : Chan(s)' = Chan(s))
      /\ dst' = [dst EXCEPT ![p] = <<>>] /\ UNCHANGED src
  BY BeginReadStep
<1>2. q \in Sides /\ q # p /\ Peer(q) = p /\ TypeOK
  BY SidesPeers DEF StreamInv
<1>3. \A s \in Sides : Stream(s)' = Stream(s)
  BY <1>1 DEF Stream
<1>4. /\ pc'[p] = "read_load" /\ pc'[q] = pc[q] /\ UNCHANGED <<mark, rd>>
      /\ want'[p] = n /\ want'[q] = want[q]
  BY <1>2 DEF BeginRead, Goto, shared, TypeOK
<1>5. Left(p)' = n
  BY <1>4 DEF Left
<1>6. Left(q)' = Left(q)
  BY <1>2, <1>4, LeftKept
<1> QED BY <1>1, <1>3, <1>5, <1>6

LEMMA StreamsKept ==
  ASSUME StreamInv, UNCHANGED vars
  PROVE  StreamInv' /\ Silent
<1>1. StreamInv'
  BY StreamStep
<1>2. \A s \in Sides : Chan(s)' = Chan(s) /\ Left(s)' = Left(s)
  BY DEF vars, shared, local, Chan, Slice, Copied, Chunk, Left
<1> QED BY <1>1, <1>2 DEF Silent, Stream, vars, local

\* The server's process or connection ends; shared memory stays as it is.
LEMMA DeathKeeps ==
  ASSUME StreamInv, alive' = [alive EXCEPT !["server"] = FALSE],
         UNCHANGED <<wr, rd, buf, waiting, fd, local>>
  PROVE  StreamInv' /\ Silent
<1>1. /\ UNCHANGED <<wr, rd, buf, fd, pc, mark, src, want, dst, waiting>>
      /\ alive' \in [Sides -> BOOLEAN] /\ TypeOK
  BY DEF local, StreamInv, TypeOK
<1>2. StreamInv'
  <2>1. TypeOK'
    BY <1>1 DEF TypeOK
  <2>2. UNCHANGED <<wr, rd, buf, pc, mark, src, want, dst>>
    BY <1>1
  <2> QED BY <2>1, <2>2 DEF StreamInv, ReaderOK, WriterOK, Piece, Gap
<1>3. \A s \in Sides : Chan(s)' = Chan(s) /\ Left(s)' = Left(s)
  BY <1>1 DEF Chan, Slice, Copied, Chunk, Left
<1> QED BY <1>1, <1>2, <1>3 DEF Silent, Stream

-----------------------------------------------------------------------------
(* The session's invariant.  U stands for the client's stream.              *)

\* The server holds a header that it has not acted upon.
InHand == stage["server"] = "data" /\ Left("server") = 0

\* What the server still has to read of the command it works on.
Rest == IF InHand THEN Payload(dst["server"][1])
        ELSE IF stage["server"] \in {"execute", "gone"} THEN Left("server") + Total(unread)
        ELSE 0

SessionTypes ==
  /\ cmd \in [Sides -> Commands \cup {0}]
  /\ stage \in [Sides -> {"ready", "reply", "answered", "header", "data", "execute", "gone"}]
  /\ unread \in Seq(Nat \ {0})
  /\ unsent \in Seq(Nat \ {0})
  /\ burst \in 0..Window

\* Outside the reads of a stage nothing is left to read, a header is one unit, and
\* only a command that is executed, or has failed, has data to read or a reply to write.
Stages ==
  /\ stage["server"] \notin {"execute", "gone"} => unread = <<>> /\ unsent = <<>>
  /\ stage["client"] \in {"ready", "reply", "answered"}
  /\ stage["server"] \in {"header", "data", "execute", "gone"}
  /\ stage["client"] # "answered" => Left("client") = 0
  /\ stage["server"] \in {"header", "gone"} => Left("server") = 0
  /\ stage["server"] = "data" =>
       \/ Left("server") = 1 /\ dst["server"] = <<>>
       \/ Left("server") = 0 /\ \E c \in Commands : dst["server"] = <<c>>

Nothing == Stream("server") = <<>> /\ unsent = <<>>

\* What the client has still to receive of the reply that it waits for.
Due == IF stage["client"] = "answered" THEN Left("client") ELSE Total(Reply[cmd["client"]])

\* The header in the server's hand, if it holds one, is one without a reply.
HandNeedsNone == InHand => Reply[dst["server"][1]] = <<>>

Unasked(U, H) == Nothing /\ HandNeedsNone /\ \A h \in H : Reply[U[h]] = <<>>

\* The command c, which the client waits for, is the last in the stream; it is in the
\* server's hand; or the server answers it.
OnItsWay(U, H, c) ==
  /\ Nothing /\ HandNeedsNone /\ Due = Total(Reply[c])
  /\ \E l \in H : U[l] = c /\ l + Payload(c) = Len(U) /\ \A h \in H : h # l => Reply[U[h]] = <<>>

Held(H, c) == Nothing /\ Due = Total(Reply[c]) /\ InHand /\ dst["server"] = <<c>> /\ H = {}

Answering(H, c) ==
  cmd["server"] = c /\ H = {} /\ ~InHand /\ Len(Stream("server")) + Total(unsent) = Due

Asked(U, H, c) ==
  c \in Commands /\ Reply[c] # <<>> /\ (OnItsWay(U, H, c) \/ Held(H, c) \/ Answering(H, c))

Replies(U, H) ==
  /\ stage["client"] = "ready" => Unasked(U, H)
  /\ stage["client"] # "ready" => Asked(U, H, cmd["client"])

SessionInv ==
  /\ StreamInv /\ SessionTypes /\ Stages
  /\ \E U \in Seq(Nat), k \in Nat, H \in SUBSET Nat :
       U = Stream("client") /\ k = Rest /\ Headers(U, k, H) /\ Replies(U, H)

LEMMA ReplyTyped ==
  ASSUME NEW c \in Commands
  PROVE  /\ Reply[c] \in Seq(Nat \ {0}) /\ Total(Reply[c]) \in Nat
         /\ Reply[c] = <<>> => Total(Reply[c]) = 0
         /\ Reply[c] # <<>> => Total(Reply[c]) > 0
<1>1. PICK r \in Seq(Nat \ {0}) : r = Reply[c]
  BY CommandsAssumption
<1> QED BY <1>1, TotalAdds

LEMMA SidesAre == "client" \in Sides /\ "server" \in Sides /\ Peer("client") = "server"
                  /\ Peer("server") = "client" /\ Sides = {"client", "server"}
BY DEF Sides, Peer

LEMMA SessionInit == SInit => SessionInv
<1> SUFFICES ASSUME SInit PROVE SessionInv
  OBVIOUS
<1>1. StreamInv /\ \A s \in Sides : pc[s] = "idle" /\ wr[s] = 0 /\ rd[s] = 0 /\ src[s] = <<>>
  BY StreamInit DEF SInit, Init
<1>2. \A s \in Sides : Left(s) = 0
  BY <1>1, IdleIsDone
<1>3. ASSUME NEW s \in Sides PROVE Stream(s) = <<>>
  <2>1. pc[Peer(s)] = "idle" /\ 0 \in Indices
    BY <1>1, SidesPeers, SizeNat DEF Indices
  <2>2. Len(Chan(s)) = 0 /\ Chan(s) \in Seq(Nat)
    BY <1>1, <2>1, ChanLength, GapRange DEF Copied
  <2>3. Chan(s) = <<>>
    BY <2>2
  <2> HIDE DEF Chan
  <2> QED BY <1>1, <2>3 DEF Stream
<1>4. SessionTypes /\ Stages
  BY <1>2, SidesAre, CommandsAssumption DEF SInit, SessionTypes, Stages
<1>5. <<>> \in Seq(Nat) /\ 0 \in Nat /\ {} \in SUBSET Nat
  OBVIOUS
<1>6. Rest = 0
  BY DEF Rest, InHand, SInit
<1>7. Replies(<<>>, {})
  BY <1>3, SidesAre DEF Replies, Unasked, Nothing, HandNeedsNone, InHand, SInit
<1> QED BY <1>1, <1>3, <1>4, <1>5, <1>6, <1>7, HeadersNone, SidesAre DEF SessionInv

-----------------------------------------------------------------------------
(* The steps of a session.                                                  *)

LEMMA SilentKeeps ==
  ASSUME SessionInv, StreamInv', Silent, UNCHANGED <<cmd, stage, unread, unsent, burst>>
  PROVE  SessionInv'
<1>1. /\ Left("client")' = Left("client") /\ Left("server")' = Left("server") /\ dst' = dst
      /\ Stream("client")' = Stream("client") /\ Stream("server")' = Stream("server")
  BY SidesAre DEF Silent
<1>2. InHand' <=> InHand
  BY <1>1 DEF InHand
<1>3. Rest' = Rest /\ Due' = Due
  BY <1>1, <1>2 DEF Rest, Due
<1>4. (Nothing' <=> Nothing) /\ (HandNeedsNone' <=> HandNeedsNone)
  BY <1>1, <1>2 DEF Nothing, HandNeedsNone
<1>5. SessionTypes' /\ Stages'
  BY <1>1 DEF SessionInv, SessionTypes, Stages
<1>6. PICK U \in Seq(Nat), k \in Nat, H \in SUBSET Nat :
        U = Stream("client") /\ k = Rest /\ Headers(U, k, H) /\ Replies(U, H)
  BY DEF SessionInv
<1>7. Replies(U, H)'
  BY <1>1, <1>2, <1>3, <1>4, <1>6 DEF Replies, Unasked, Asked, OnItsWay, Held, Answering
<1>8. U = Stream("client")' /\ k = Rest'
  BY <1>1, <1>3, <1>6
<1> QED BY <1>5, <1>6, <1>7, <1>8 DEF SessionInv

\* The client copies n units of its reply: the server is answering.
LEMMA ClientCopies ==
  ASSUME SessionInv, StreamInv', NEW n \in Nat, Copies("client", n),
         UNCHANGED <<cmd, stage, unread, unsent, burst>>
  PROVE  SessionInv'
<1>1. /\ n \in 1 .. Left("client") /\ n <= Len(Stream("server")) /\ Left("client")' = Left("client") - n
      /\ dst'["server"] = dst["server"] /\ Left("server")' = Left("server")
      /\ Stream("client")' = Stream("client") /\ Left("client") \in Nat
      /\ Stream("server")' = SubSeq(Stream("server"), n + 1, Len(Stream("server")))
      /\ Stream("server") \in Seq(Nat)
  BY SidesAre, IdleIsDone, StreamTyped DEF Copies, SessionInv, StreamInv, TypeOK
<1>2. PICK V \in Seq(Nat), l \in Nat, a \in Nat : V = Stream("server") /\ l = Len(V) /\ a = Left("client")
  BY <1>1
<1>3. Len(Stream("server")') = l - n /\ l >= 1 /\ a >= 1 /\ n \in Nat
  <2>1. n \in 0..Len(V)
    BY <1>1, <1>2
  <2> QED BY <1>1, <1>2, <2>1, DropTyped
<1>4. stage["client"] = "answered"
  BY <1>2, <1>3 DEF SessionInv, Stages
<1>5. (InHand' <=> InHand) /\ Rest' = Rest /\ Due = a /\ Due' = a - n
  BY <1>1, <1>2, <1>4 DEF InHand, Rest, Due
<1>6. ~Nothing
  BY <1>2, <1>3 DEF Nothing
<1>7. PICK U \in Seq(Nat), k \in Nat, H \in SUBSET Nat :
        U = Stream("client") /\ k = Rest /\ Headers(U, k, H) /\ Replies(U, H)
  BY DEF SessionInv
<1>8. PICK c : c = cmd["client"] /\ c \in Commands /\ Reply[c] # <<>> /\ Answering(H, c)
  BY <1>4, <1>6, <1>7 DEF Replies, Asked, OnItsWay, Held
<1>9. PICK t \in Nat : t = Total(unsent)
  BY TotalAdds DEF SessionInv, SessionTypes
<1>10. l + t = a
  BY <1>2, <1>5, <1>8, <1>9 DEF Answering
<1>11. (l - n) + t = a - n
  BY <1>3, <1>10
<1>12. Answering(H, c)'
  BY <1>3, <1>5, <1>8, <1>9, <1>11 DEF Answering
<1>13. Replies(U, H)'
  BY <1>4, <1>8, <1>12 DEF Replies, Asked
<1>14. SessionTypes' /\ Stages'
  BY <1>1, <1>4 DEF SessionInv, SessionTypes, Stages
<1>15. U = Stream("client")' /\ k = Rest'
  BY <1>1, <1>5, <1>7
<1> QED BY <1>7, <1>13, <1>14, <1>15 DEF SessionInv

\* The server copies n units of the data of the command it works on.
LEMMA ServerCopiesData ==
  ASSUME SessionInv, StreamInv', NEW n \in Nat, Copies("server", n),
         UNCHANGED <<cmd, stage, unread, unsent, burst>>, stage["server"] = "execute"
  PROVE  SessionInv'
<1>1. /\ n \in 1 .. Left("server") /\ n <= Len(Stream("client")) /\ Left("server")' = Left("server") - n
      /\ Left("client")' = Left("client") /\ Stream("server")' = Stream("server")
      /\ Stream("client")' = SubSeq(Stream("client"), n + 1, Len(Stream("client")))
  BY SidesAre DEF Copies
<1>2. PICK U \in Seq(Nat), k \in Nat, H \in SUBSET Nat :
        U = Stream("client") /\ k = Rest /\ Headers(U, k, H) /\ Replies(U, H)
  BY DEF SessionInv
<1>3. /\ ~InHand /\ ~InHand' /\ n \in 0..k /\ Rest' = k - n
      /\ Due' = Due /\ (Nothing' <=> Nothing)
  <2>1. ~InHand /\ ~InHand' /\ Due' = Due /\ (Nothing' <=> Nothing)
    BY <1>1 DEF InHand, Due, Nothing
  <2>2. PICK a \in Nat, t \in Nat : a = Left("server") /\ t = Total(unread)
    BY SidesAre, IdleIsDone, TotalAdds DEF SessionInv, SessionTypes
  <2>3. k = a + t /\ Rest' = (a - n) + t
    BY <1>1, <1>2, <2>1, <2>2 DEF Rest
  <2> QED BY <1>1, <2>1, <2>2, <2>3, SMTT(30)
<1>4. PICK W, G : /\ W = SubSeq(U, n + 1, Len(U)) /\ G = Ahead(H, n, W)
                  /\ Headers(W, k - n, G) /\ Moved(U, H, n, W)
  <2>1. n \in 0..k
    BY <1>3
  <2>2. PICK W : W = SubSeq(U, n + 1, Len(U))
    OBVIOUS
  <2>3. Headers(W, k - n, Ahead(H, n, W)) /\ Moved(U, H, n, W)
    BY <1>2, <2>1, <2>2, HeadersDrop
  <2>4. PICK G : G = Ahead(H, n, W)
    OBVIOUS
  <2> QED BY <2>2, <2>3, <2>4
<1>5. /\ W \in Seq(Nat) /\ Len(W) = Len(U) - n
      /\ \A g \in G : g \in Nat /\ g + n \in H /\ W[g] = U[g + n]
      /\ \A g : g \in G <=> g \in 1..Len(W) /\ g + n \in H
  BY <1>4 DEF Moved, Ahead
<1>6. Replies(W, G)'
  <2>1. CASE stage["client"] = "ready"
    <3>1. Unasked(U, H)
      BY <1>2, <2>1 DEF Replies
    <3>2. Unasked(W, G)'
      BY <1>3, <1>5, <3>1 DEF Unasked, HandNeedsNone
    <3> QED BY <2>1, <3>2 DEF Replies
  <2>2. CASE stage["client"] # "ready"
    <3>1. PICK c : c = cmd["client"] /\ c \in Commands /\ Reply[c] # <<>>
                   /\ (OnItsWay(U, H, c) \/ Answering(H, c))
      BY <1>2, <1>3, <2>2 DEF Replies, Asked, Held
    <3>2. CASE OnItsWay(U, H, c)
      <4>1. PICK l \in H : U[l] = c /\ l + Payload(c) = Len(U) /\ \A h \in H : h # l => Reply[U[h]] = <<>>
        BY <3>2 DEF OnItsWay
      <4>2. PICK d \in Nat, e \in Nat : d = Payload(c) /\ e = Len(U) /\ e = Len(W) + n
        <5>1. Len(U) \in Nat /\ Len(W) = Len(U) - n
          BY <1>5
        <5> QED BY <3>1, <5>1, DataTyped
      <4>3. l \in Nat /\ n + 1 <= l /\ l - n \in G /\ W[l - n] = U[l]
        <5>1. l \in Nat /\ k + 1 <= l /\ l <= e /\ n <= k /\ Len(W) \in Nat
          BY <1>1, <1>2, <1>3, <1>5, <4>2 DEF Headers
        <5>2. PICK g \in Nat : g = l - n
          BY <5>1
        <5>3. g + n = l /\ g \in 1..Len(W)
          BY <4>2, <5>1, <5>2
        <5>4. g \in G
          BY <1>5, <5>3
        <5>5. W[g] = U[l]
          BY <1>5, <5>3, <5>4
        <5>6. n + 1 <= l
          BY <5>1
        <5> QED BY <5>1, <5>2, <5>4, <5>5, <5>6
      <4>4. PICK g \in G : g = l - n /\ W[g] = c
        BY <4>1, <4>3
      <4>5. g + d = Len(W)
        <5>1. l + d = e /\ l \in Nat
          BY <4>1, <4>2, <4>3
        <5>a. Len(W) \in Nat /\ g \in Nat
          BY <1>5
        <5>2. PICK w \in Nat, a \in Nat, b \in Nat : w = Len(W) /\ a = l /\ b = g
          BY <5>1, <5>a
        <5>3. a + d = e /\ e = w + n /\ b = a - n
          BY <4>2, <4>4, <5>1, <5>2
        <5>4. b + d = w
          BY ONLY <5>3, a \in Nat, b \in Nat, w \in Nat, d \in Nat, e \in Nat, n \in Nat
        <5> QED BY <5>2, <5>4
      <4>6. ASSUME NEW h \in G, h # g PROVE Reply[W[h]] = <<>>
        <5>1. h + n \in H /\ W[h] = U[h + n] /\ h \in Nat
          BY <1>5
        <5>2. h + n # l
          BY <4>3, <4>4, <4>6, <5>1
        <5> QED BY <4>1, <5>1, <5>2
      <4>7. OnItsWay(W, G, c)'
        <5>1. Nothing' /\ HandNeedsNone' /\ Due' = Total(Reply[c])
          BY <1>3, <3>2 DEF OnItsWay, HandNeedsNone
        <5> QED BY <4>2, <4>4, <4>5, <4>6, <5>1 DEF OnItsWay
      <4> QED BY <2>2, <3>1, <4>7 DEF Replies, Asked
    <3>3. CASE Answering(H, c)
      <4>1. G = {}
        BY <1>5, <3>3 DEF Answering
      <4>2. Answering(G, c)'
        BY <1>1, <1>3, <3>3, <4>1 DEF Answering
      <4> QED BY <2>2, <3>1, <4>2 DEF Replies, Asked
    <3> QED BY <3>1, <3>2, <3>3
  <2> QED BY <2>1, <2>2
<1>7. SessionTypes' /\ Stages'
  BY <1>1 DEF SessionInv, SessionTypes, Stages
<1>8. k - n \in Nat /\ G \in SUBSET Nat
  BY <1>1, <1>3, <1>5
<1>9. W = Stream("client")' /\ k - n = Rest'
  BY <1>1, <1>2, <1>3, <1>4
<1>10. PICK j \in Nat : j = k - n
  BY <1>8
<1> QED BY <1>4, <1>5, <1>6, <1>7, <1>8, <1>9, <1>10 DEF SessionInv

\* The server copies a header: it is that of the stream's first command.
LEMMA ServerCopiesHeader ==
  ASSUME SessionInv, StreamInv', NEW n \in Nat, Copies("server", n),
         UNCHANGED <<cmd, stage, unread, unsent, burst>>, stage["server"] # "execute"
  PROVE  SessionInv'
<1>1. /\ n \in 1 .. Left("server") /\ n <= Len(Stream("client")) /\ Left("server")' = Left("server") - n
      /\ Left("client")' = Left("client") /\ Stream("server")' = Stream("server")
      /\ Stream("client")' = SubSeq(Stream("client"), n + 1, Len(Stream("client")))
      /\ dst'["server"] = dst["server"] \o SubSeq(Stream("client"), 1, n)
  BY SidesAre DEF Copies, SessionInv, StreamInv, TypeOK
<1>2. PICK U \in Seq(Nat), k \in Nat, H \in SUBSET Nat :
        U = Stream("client") /\ k = Rest /\ Headers(U, k, H) /\ Replies(U, H)
  BY DEF SessionInv
<1>3. stage["server"] = "data" /\ Left("server") = 1 /\ dst["server"] = <<>> /\ n = 1
  BY <1>1 DEF SessionInv, Stages
<1>4. ~InHand /\ k = 0 /\ Left("server")' = 0 /\ InHand' /\ Due' = Due /\ (Nothing' <=> Nothing)
  BY <1>1, <1>2, <1>3 DEF InHand, Rest, Due, Nothing
<1>5. PICK W, G : /\ W = SubSeq(U, 2, Len(U)) /\ G = Ahead(H, 1, W)
                  /\ 1 \in H /\ U[1] \in Commands
                  /\ Headers(W, Payload(U[1]), G) /\ Moved(U, H, 1, W)
  <2>1. PICK W : W = SubSeq(U, 2, Len(U))
    OBVIOUS
  <2>2. Headers(U, 0, H) /\ Len(U) >= 1
    BY <1>1, <1>2, <1>3, <1>4
  <2>3. 1 \in H /\ U[1] \in Commands /\ Headers(W, Payload(U[1]), Ahead(H, 1, W)) /\ Moved(U, H, 1, W)
    BY <2>1, <2>2, HeadersTake
  <2>4. PICK G : G = Ahead(H, 1, W)
    OBVIOUS
  <2> QED BY <2>1, <2>3, <2>4
<1>6. /\ W \in Seq(Nat) /\ Len(W) = Len(U) - 1 /\ H \in SUBSET Nat
      /\ \A g \in G : g \in Nat /\ g + 1 \in H /\ W[g] = U[g + 1]
      /\ \A g : g \in G <=> g \in 1..Len(W) /\ g + 1 \in H
  BY <1>2, <1>5 DEF Moved, Ahead
<1>7. PICK c \in Commands, d \in Nat : c = U[1] /\ d = Payload(c)
  BY <1>5, DataTyped
<1>8. dst'["server"] = <<c>>
  <2>1. PICK s \in Seq(Nat) : s = SubSeq(U, 1, n) /\ Len(s) = n /\ \A i \in 1..n : s[i] = U[i]
    <3>1. Len(U) \in Nat /\ n \in 0..Len(U)
      BY <1>1, <1>2, <1>3
    <3> QED BY <3>1, TakeTyped
  <2>2. s = <<c>>
    <3>1. PICK z \in Seq(Nat) : z = <<c>> /\ Len(z) = 1 /\ z[1] = c
      <4>1. <<c>> \in Seq(Nat) /\ Len(<<c>>) = 1 /\ <<c>>[1] = c
        BY <1>7, DataTyped
      <4> QED BY <4>1
    <3>2. \A i \in 1..n : s[i] = c /\ z[i] = c
      <4>1. ASSUME NEW i \in 1..n PROVE i = 1
        BY <1>3
      <4> QED BY <1>7, <2>1, <3>1, <4>1
    <3>3. Len(s) = Len(z) /\ \A i \in 1..Len(s) : s[i] = z[i]
      BY <1>3, <2>1, <3>1, <3>2
    <3>4. s = z
      BY <3>3, SeqEqual
    <3> QED BY <3>1, <3>4
  <2>3. <<>> \o s = s
    BY ConcatEmptySeq
  <2> QED BY <1>1, <1>2, <1>3, <2>1, <2>2, <2>3
<1>9. Rest' = d
  BY <1>4, <1>7, <1>8 DEF Rest
<1>10. dst'["server"][1] = c
  BY <1>8
<1>11. Replies(W, G)'
  <2>1. CASE stage["client"] = "ready"
    <3>1. Unasked(U, H)
      BY <1>2, <2>1 DEF Replies
    <3>2. Reply[c] = <<>>
      BY <1>5, <1>7, <3>1 DEF Unasked
    <3>3. Unasked(W, G)'
      BY <1>4, <1>6, <1>10, <3>1, <3>2 DEF Unasked, HandNeedsNone
    <3> QED BY <2>1, <3>3 DEF Replies
  <2>2. CASE stage["client"] # "ready"
    <3>1. PICK r : r = cmd["client"] /\ r \in Commands /\ Reply[r] # <<>>
                   /\ (OnItsWay(U, H, r) \/ Answering(H, r))
      BY <1>2, <1>4, <2>2 DEF Replies, Asked, Held
    <3>2. ~Answering(H, r)
      BY <1>5 DEF Answering
    <3>3. PICK l \in H : U[l] = r /\ l + Payload(r) = Len(U) /\ \A h \in H : h # l => Reply[U[h]] = <<>>
      BY <3>1, <3>2 DEF OnItsWay
    <3>4. Nothing /\ Due = Total(Reply[r])
      BY <3>1, <3>2 DEF OnItsWay
    <3>5. PICK e \in Nat, u \in Nat : e = Payload(r) /\ u = Len(U) /\ l \in Nat /\ l >= 1 /\ l + e = u /\ l <= u
      <4>1. Payload(r) \in Nat /\ Len(U) \in Nat
        BY <3>1, DataTyped
      <4>2. l \in Nat /\ l >= 1 /\ l <= Len(U)
        BY <1>2, <1>4, <1>6 DEF Headers
      <4> QED BY <3>3, <4>1, <4>2
    <3>6. CASE l = 1
      <4>1. G = {}
        <5>1. SUFFICES ASSUME NEW g \in G PROVE FALSE
          OBVIOUS
        <5>2. PICK h \in H : h = g + 1 /\ g \in 1..Len(W)
          BY <1>6
        <5>3. h \in Nat /\ h > 1 /\ h <= u
          BY <1>2, <1>6, <3>5, <5>2 DEF Headers
        <5>4. 1 + Payload(U[1]) < h
          BY <1>2, <1>5, <5>3 DEF Headers
        <5>5. 1 + e = u /\ 1 + e < h
          BY <3>3, <3>5, <3>6, <5>4
        <5> QED BY <5>3, <5>5
      <4>2. r = c
        BY <1>7, <3>3, <3>6
      <4>3. Held(G, r)'
        BY <1>4, <1>8, <3>4, <4>1, <4>2 DEF Held
      <4> QED BY <2>2, <3>1, <4>3 DEF Replies, Asked
    <3>7. CASE l # 1
      <4>1. Reply[c] = <<>>
        BY <1>5, <1>7, <3>3, <3>7
      <4>2. PICK g \in Nat : g = l - 1 /\ g + 1 = l /\ g >= 1
        BY <3>5, <3>7
      <4>3. Len(W) = u - 1 /\ g + e = u - 1
        <5>1. PICK a \in Nat : a = l /\ a + e = u /\ g = a - 1
          BY <3>5, <4>2
        <5>2. g + e = u - 1
          BY ONLY <5>1, a \in Nat, e \in Nat, u \in Nat, g \in Nat
        <5> QED BY <1>6, <3>5, <5>2
      <4>4. g \in G /\ W[g] = r
        <5>1. g \in 1..Len(W)
          BY <3>5, <4>2, <4>3
        <5>2. g \in G
          BY <1>6, <4>2, <5>1
        <5> QED BY <1>6, <3>3, <4>2, <5>2
      <4>5. ASSUME NEW h \in G, h # g PROVE Reply[W[h]] = <<>>
        <5>1. PICK i \in H : i = h + 1 /\ W[h] = U[i] /\ h \in Nat
          BY <1>6
        <5>2. i # l
          BY <4>2, <4>5, <5>1
        <5> QED BY <3>3, <5>1, <5>2
      <4>6. OnItsWay(W, G, r)'
        <5>1. Nothing' /\ HandNeedsNone' /\ Due' = Total(Reply[r])
          BY <1>4, <1>10, <3>4, <4>1 DEF HandNeedsNone
        <5> QED BY <3>5, <4>3, <4>4, <4>5, <5>1 DEF OnItsWay
      <4> QED BY <2>2, <3>1, <4>6 DEF Replies, Asked
    <3> QED BY <3>6, <3>7
  <2> QED BY <2>1, <2>2
<1>12. SessionTypes' /\ Stages'
  BY <1>1, <1>3, <1>4, <1>8 DEF SessionInv, SessionTypes, Stages
<1>13. G \in SUBSET Nat /\ Headers(W, d, G)
  BY <1>5, <1>6, <1>7
<1>14. W = Stream("client")' /\ d = Rest'
  BY <1>1, <1>2, <1>3, <1>5, <1>9
<1> QED BY <1>6, <1>11, <1>12, <1>13, <1>14 DEF SessionInv

LEMMA TransportKeeps ==
  ASSUME SessionInv, NEW p \in Sides, Transport(p)
  PROVE  SessionInv'
<1>1. StreamInv' /\ (Silent \/ \E n \in Nat : Copies(p, n)) /\ UNCHANGED <<cmd, stage, unread, unsent, burst>>
  BY SessionTransport DEF Transport, SessionInv
<1>2. p = "client" \/ p = "server"
  BY DEF Sides
<1> QED BY <1>1, <1>2, SilentKeeps, ClientCopies, ServerCopiesData, ServerCopiesHeader

LEMMA ZerosTyped ==
  ASSUME NEW n \in Nat
  PROVE  Zeros(n) \in Seq(Nat) /\ Len(Zeros(n)) = n
BY DEF Zeros

LEMMA SendCommandKeeps ==
  ASSUME SessionInv, NEW c \in Commands, SendCommand(c)
  PROVE  SessionInv'
<1>1. PICK m \in Seq(Nat) : m = <<c>> \o Zeros(Payload(c))
  <2>1. Zeros(Payload(c)) \in Seq(Nat) /\ <<c>> \in Seq(Nat)
    BY DataTyped, ZerosTyped
  <2>2. \A a, b \in Seq(Nat) : a \o b \in Seq(Nat)
    BY ConcatIs
  <2> QED BY <2>1, <2>2
<1>2. /\ pc["client"] = "idle" /\ stage["client"] = "ready"
      /\ BeginWrite("client", m) /\ unread' = unread /\ unsent' = unsent
      /\ stage' = [stage EXCEPT !["client"] = IF Reply[c] = <<>> THEN "ready" ELSE "reply"]
      /\ cmd' = [cmd EXCEPT !["client"] = c]
      /\ burst' = burst + 1 + Payload(c)
      /\ burst + 1 + Payload(c) + (IF Reply[c] = <<>> THEN 1 ELSE 0) <= Window
  BY <1>1 DEF SendCommand, At, Enter
<1>3. /\ StreamInv' /\ UNCHANGED dst /\ Stream("client")' = Stream("client") \o m
      /\ Stream("server")' = Stream("server")
      /\ Left("client")' = Left("client") /\ Left("server")' = Left("server")
      /\ Left("client") = 0
  BY <1>2, SidesAre, CallWrite, IdleIsDone DEF SessionInv
<1>4. /\ stage'["server"] = stage["server"] /\ cmd'["client"] = c /\ cmd'["server"] = cmd["server"]
      /\ stage'["client"] = IF Reply[c] = <<>> THEN "ready" ELSE "reply"
  BY <1>2, SidesAre DEF SessionInv, SessionTypes
<1>5. (InHand' <=> InHand) /\ Rest' = Rest
  BY <1>2, <1>3, <1>4 DEF InHand, Rest
<1>6. PICK U \in Seq(Nat), k \in Nat, H \in SUBSET Nat :
        U = Stream("client") /\ k = Rest /\ Headers(U, k, H) /\ Replies(U, H)
  BY DEF SessionInv
<1>7. PICK l \in Nat : l = Len(U) + 1
  OBVIOUS
<1>a. PICK W : W = U \o (<<c>> \o Zeros(Payload(c)))
  OBVIOUS
<1>8. PICK G : G = H \cup {l}
  OBVIOUS
<1>9. /\ Headers(W, k, G) /\ W \in Seq(Nat) /\ W[l] = c /\ l \notin H
      /\ (\A h \in H : W[h] = U[h])
      /\ Len(W) = l + Payload(c)
  <2>1. Headers(U, k, H)
    BY <1>6
  <2>2. Headers(W, k, H \cup {l}) /\ Grown(U, H, W, l, c)
    BY <1>7, <1>a, <2>1, HeadersAdd
  <2> QED BY <1>8, <2>2 DEF Grown
<1>10. Unasked(U, H)
  BY <1>2, <1>6 DEF Replies
<1>11. Nothing' /\ HandNeedsNone' /\ \A h \in H : Reply[W[h]] = <<>>
  BY <1>2, <1>3, <1>5, <1>9, <1>10 DEF Unasked, Nothing, HandNeedsNone
<1>12. Replies(W, G)'
  <2>1. CASE Reply[c] = <<>>
    <3>1. Unasked(W, G)'
      BY <1>8, <1>9, <1>11, <2>1 DEF Unasked
    <3> QED BY <1>4, <2>1, <3>1 DEF Replies
  <2>2. CASE Reply[c] # <<>>
    <3>1. Due' = Total(Reply[c])
      BY <1>4, <2>2 DEF Due
    <3>2. l \in G /\ \A h \in G : h # l => Reply[W[h]] = <<>>
      BY <1>8, <1>11
    <3>3. OnItsWay(W, G, c)'
      BY <1>9, <1>11, <3>1, <3>2 DEF OnItsWay
    <3> QED BY <1>4, <2>2, <3>3 DEF Replies, Asked
  <2> QED BY <2>1, <2>2
<1>13. SessionTypes'
  <2>1. PICK d \in Nat, b \in Nat : d = Payload(c) /\ b = burst
    BY DataTyped DEF SessionInv, SessionTypes
  <2>2. b + 1 + d <= Window /\ burst' = b + 1 + d
    BY <1>2, <2>1, CommandsAssumption
  <2>3. burst' \in 0..Window
    BY <2>1, <2>2, CommandsAssumption
  <2> QED BY <1>2, <2>3 DEF SessionInv, SessionTypes
<1>14. Stages'
  BY <1>2, <1>3, <1>4 DEF SessionInv, Stages
<1>15. G \in SUBSET Nat /\ W = Stream("client")' /\ k = Rest'
  BY <1>1, <1>3, <1>5, <1>6, <1>7, <1>8, <1>a
<1> QED BY <1>3, <1>9, <1>12, <1>13, <1>14, <1>15 DEF SessionInv

LEMMA AwaitReplyKeeps ==
  ASSUME SessionInv, AwaitReply
  PROVE  SessionInv'
<1>1. PICK U \in Seq(Nat), k \in Nat, H \in SUBSET Nat :
        U = Stream("client") /\ k = Rest /\ Headers(U, k, H) /\ Replies(U, H)
  BY DEF SessionInv
<1>2. stage["client"] = "reply" /\ BeginRead("client", Total(Reply[cmd["client"]]))
      /\ stage' = [stage EXCEPT !["client"] = "answered"] /\ UNCHANGED <<cmd, unread, unsent, burst>>
  BY DEF AwaitReply, At, Enter
<1>3. PICK c : c = cmd["client"] /\ c \in Commands /\ Reply[c] # <<>>
               /\ (OnItsWay(U, H, c) \/ Held(H, c) \/ Answering(H, c))
  BY <1>1, <1>2 DEF Replies, Asked
<1>4. PICK n \in Nat \ {0} : n = Total(Reply[c])
  BY <1>3, ReplyTyped
<1>5. /\ StreamInv' /\ dst' = [dst EXCEPT !["client"] = <<>>]
      /\ Stream("client")' = Stream("client") /\ Stream("server")' = Stream("server")
      /\ Left("client")' = n /\ Left("server")' = Left("server")
  BY <1>2, <1>3, <1>4, SidesAre, CallRead DEF SessionInv
<1>6. /\ stage'["server"] = stage["server"] /\ stage'["client"] = "answered"
      /\ dst'["server"] = dst["server"]
  BY <1>2, <1>5, SidesAre DEF SessionInv, SessionTypes, StreamInv, TypeOK
<1>7. (InHand' <=> InHand) /\ Rest' = Rest
  BY <1>2, <1>5, <1>6 DEF InHand, Rest
<1>8. (Nothing' <=> Nothing) /\ (HandNeedsNone' <=> HandNeedsNone) /\ Due' = Due
  BY <1>2, <1>3, <1>4, <1>5, <1>6, <1>7 DEF Nothing, HandNeedsNone, Due
<1>9. Replies(U, H)'
  BY <1>2, <1>3, <1>5, <1>6, <1>7, <1>8 DEF Replies, Asked, OnItsWay, Held, Answering
<1>10. SessionTypes' /\ Stages'
  BY <1>2, <1>5, <1>6 DEF SessionInv, SessionTypes, Stages
<1>11. U = Stream("client")' /\ k = Rest'
  BY <1>1, <1>5, <1>7
<1> QED BY <1>1, <1>5, <1>9, <1>10, <1>11 DEF SessionInv

\* When a ring_read for a reply has returned, all of it has been sent and copied.
LEMMA AnsweredMeans ==
  ASSUME SessionInv, At("client", "answered")
  PROVE  /\ Nothing /\ ~InHand /\ cmd["server"] = cmd["client"]
         /\ \E U \in Seq(Nat), k \in Nat :
              U = Stream("client") /\ k = Rest /\ Headers(U, k, {})
<1>1. PICK U \in Seq(Nat), k \in Nat, H \in SUBSET Nat :
        U = Stream("client") /\ k = Rest /\ Headers(U, k, H) /\ Replies(U, H)
  BY DEF SessionInv
<1>2. stage["client"] = "answered" /\ Left("client") = 0 /\ Due = 0
  <2>1. StreamInv /\ stage["client"] = "answered" /\ pc["client"] = "idle"
    BY DEF SessionInv, At
  <2>2. Left("client") = 0
    BY <2>1, SidesAre, IdleIsDone
  <2> QED BY <2>1, <2>2 DEF Due
<1>3. PICK c : c = cmd["client"] /\ c \in Commands /\ Reply[c] # <<>>
               /\ (OnItsWay(U, H, c) \/ Held(H, c) \/ Answering(H, c))
  BY <1>1, <1>2 DEF Replies, Asked
<1>4. Total(Reply[c]) > 0 /\ Total(Reply[c]) \in Nat
  BY <1>3, ReplyTyped
<1>5. Answering(H, c)
  BY <1>2, <1>3, <1>4 DEF OnItsWay, Held
<1>6. PICK V \in Seq(Nat), r \in Seq(Nat \ {0}) : V = Stream("server") /\ r = unsent
  BY SidesAre, StreamTyped DEF SessionInv, SessionTypes
<1>7. PICK a \in Nat, t \in Nat : a = Len(V) /\ t = Total(r) /\ (r # <<>> => t > 0)
  BY TotalAdds
<1>8. a + t = 0
  BY <1>2, <1>5, <1>6, <1>7 DEF Answering
<1>9. a = 0 /\ t = 0
  BY <1>8
<1>10. V = <<>> /\ r = <<>>
  <2>1. V = <<>>
    <3>1. Len(V) = 0
      BY <1>7, <1>9
    <3> QED BY <3>1, EmptySeq
  <2>2. r = <<>>
    BY <1>7, <1>9
  <2> QED BY <2>1, <2>2
<1> QED BY <1>1, <1>3, <1>5, <1>6, <1>10 DEF Answering, Nothing

LEMMA AnsweredKeeps ==
  ASSUME SessionInv, Answered
  PROVE  SessionInv'
<1>1. Nothing /\ ~InHand /\ At("client", "answered")
  BY AnsweredMeans DEF Answered
<1>2. PICK U \in Seq(Nat), k \in Nat : U = Stream("client") /\ k = Rest /\ Headers(U, k, {})
  BY <1>1, AnsweredMeans
<1>3. StreamInv' /\ Silent
  BY StreamsKept DEF Answered, SessionInv
<1>4. /\ Left("client")' = Left("client") /\ Left("server")' = Left("server") /\ dst' = dst
      /\ Stream("client")' = Stream("client") /\ Stream("server")' = Stream("server")
  BY <1>3, SidesAre DEF Silent
<1>5. stage'["client"] = "ready" /\ stage'["server"] = stage["server"] /\ Left("client") = 0
  BY <1>1, SidesAre, IdleIsDone DEF Answered, Enter, At, SessionInv, SessionTypes
<1>6. ~InHand' /\ Rest' = Rest /\ Nothing'
  BY <1>1, <1>4, <1>5 DEF InHand, Rest, Nothing, Answered
<1>7. Replies(U, {})'
  BY <1>5, <1>6 DEF Replies, Unasked, HandNeedsNone
<1>8. SessionTypes' /\ Stages'
  <2>1. burst' \in 0..Window /\ UNCHANGED <<cmd, unread, unsent>>
    BY CommandsAssumption DEF Answered
  <2>2. SessionTypes'
    BY <2>1 DEF SessionInv, SessionTypes, Answered, Enter
  <2>3. Stages'
    BY <2>1, <1>4, <1>5 DEF SessionInv, Stages
  <2> QED BY <2>2, <2>3
<1>9. U = Stream("client")' /\ k = Rest' /\ {} \in SUBSET Nat
  BY <1>2, <1>4, <1>6
<1> QED BY <1>2, <1>3, <1>7, <1>8, <1>9 DEF SessionInv

LEMMA ReadHeaderKeeps ==
  ASSUME SessionInv, ReadHeader
  PROVE  SessionInv'
<1>1. PICK U \in Seq(Nat), k \in Nat, H \in SUBSET Nat :
        U = Stream("client") /\ k = Rest /\ Headers(U, k, H) /\ Replies(U, H)
  BY DEF SessionInv
<1>2. stage["server"] = "header" /\ BeginRead("server", 1)
      /\ stage' = [stage EXCEPT !["server"] = "data"] /\ UNCHANGED <<cmd, unread, unsent, burst>>
  BY DEF ReadHeader, At, Enter
<1>3. /\ StreamInv' /\ dst' = [dst EXCEPT !["server"] = <<>>]
      /\ Stream("client")' = Stream("client") /\ Stream("server")' = Stream("server")
      /\ Left("server")' = 1 /\ Left("client")' = Left("client")
  <2>1. PICK n \in Nat \ {0} : n = 1
    OBVIOUS
  <2> QED BY <1>2, <2>1, SidesAre, CallRead DEF SessionInv
<1>4. stage'["server"] = "data" /\ stage'["client"] = stage["client"] /\ dst'["server"] = <<>>
  BY <1>2, <1>3, SidesAre DEF SessionInv, SessionTypes, StreamInv, TypeOK
<1>5. ~InHand /\ ~InHand' /\ Rest = 0 /\ Rest' = 0
  BY <1>2, <1>3, <1>4 DEF InHand, Rest
<1>6. (Nothing' <=> Nothing) /\ HandNeedsNone' /\ Due' = Due
  BY <1>2, <1>3, <1>4, <1>5 DEF Nothing, HandNeedsNone, Due
<1>7. Replies(U, H)'
  BY <1>1, <1>2, <1>3, <1>4, <1>5, <1>6 DEF Replies, Unasked, Asked, OnItsWay, Held, Answering
<1>8. SessionTypes' /\ Stages'
  BY <1>2, <1>3, <1>4 DEF SessionInv, SessionTypes, Stages
<1>9. U = Stream("client")' /\ k = Rest'
  BY <1>1, <1>3, <1>5
<1> QED BY <1>1, <1>3, <1>7, <1>8, <1>9 DEF SessionInv

\* Between its reads the server has a whole header in its hand.
LEMMA HeaderRead ==
  ASSUME SessionInv, At("server", "data")
  PROVE  /\ InHand /\ \E c \in Commands : dst["server"] = <<c>>
         /\ dst["server"][1] \in Commands
<1>1. Left("server") = 0 /\ stage["server"] = "data"
  BY SidesAre, IdleIsDone DEF SessionInv, At
<1>2. PICK c \in Commands : dst["server"] = <<c>>
  BY <1>1 DEF SessionInv, Stages
<1> QED BY <1>1, <1>2 DEF InHand

LEMMA DispatchKeeps ==
  ASSUME SessionInv, Dispatch
  PROVE  SessionInv'
<1>1. PICK U \in Seq(Nat), k \in Nat, H \in SUBSET Nat :
        U = Stream("client") /\ k = Rest /\ Headers(U, k, H) /\ Replies(U, H)
  BY DEF SessionInv
<1>2. PICK c \in Commands, d \in Nat : /\ dst["server"] = <<c>> /\ dst["server"][1] = c /\ d = Payload(c)
                                      /\ InHand /\ pc["server"] = "idle"
  <2>1. InHand /\ pc["server"] = "idle" /\ \E c \in Commands : dst["server"] = <<c>>
    BY HeaderRead DEF Dispatch, At
  <2> QED BY <2>1, DataTyped
<1>3. /\ stage["server"] = "data" /\ cmd' = [cmd EXCEPT !["server"] = c]
      /\ unread' = Data[c] /\ unsent' = Reply[c]
      /\ stage' = [stage EXCEPT !["server"] = "execute"] /\ UNCHANGED <<vars, burst>>
  BY <1>2 DEF Dispatch, At, Enter
<1>4. /\ StreamInv' /\ Stream("client")' = Stream("client") /\ Stream("server")' = Stream("server")
      /\ Left("client")' = Left("client") /\ Left("server")' = 0
  <2>1. StreamInv' /\ Silent
    BY <1>3, StreamsKept DEF SessionInv
  <2>2. Left("server") = 0
    BY <1>2 DEF InHand
  <2> QED BY <2>1, <2>2, SidesAre DEF Silent
<1>5. /\ stage'["server"] = "execute" /\ stage'["client"] = stage["client"]
      /\ cmd'["server"] = c /\ cmd'["client"] = cmd["client"]
  BY <1>3, SidesAre DEF SessionInv, SessionTypes
<1>6. ~InHand' /\ Rest = d /\ Rest' = d /\ Due' = Due /\ HandNeedsNone'
  <2>1. ~InHand' /\ Rest = d /\ Due' = Due /\ HandNeedsNone'
    BY <1>2, <1>4, <1>5 DEF InHand, Rest, Due, HandNeedsNone
  <2>2. Total(unread') = d
    BY <1>2, <1>3 DEF Payload
  <2> QED BY <1>2, <1>4, <1>5, <2>1, <2>2 DEF Rest
<1>7. Replies(U, H)'
  <2>1. CASE stage["client"] = "ready"
    <3>1. Unasked(U, H)
      BY <1>1, <2>1 DEF Replies
    <3>2. Reply[c] = <<>> /\ Nothing
      BY <1>2, <3>1 DEF Unasked, HandNeedsNone
    <3>3. Nothing'
      BY <1>3, <1>4, <3>2 DEF Nothing
    <3>4. Unasked(U, H)'
      BY <1>6, <3>1, <3>3 DEF Unasked
    <3> QED BY <1>5, <2>1, <3>4 DEF Replies
  <2>2. CASE stage["client"] # "ready"
    <3>1. PICK r : r = cmd["client"] /\ r \in Commands /\ Reply[r] # <<>>
                   /\ (OnItsWay(U, H, r) \/ Held(H, r))
      BY <1>1, <1>2, <2>2 DEF Replies, Asked, Answering
    <3>2. CASE OnItsWay(U, H, r)
      <4>1. Reply[c] = <<>> /\ Nothing
        BY <1>2, <3>2 DEF OnItsWay, HandNeedsNone
      <4>2. Nothing'
        BY <1>3, <1>4, <4>1 DEF Nothing
      <4>3. OnItsWay(U, H, r)'
        BY <1>6, <3>2, <4>2 DEF OnItsWay
      <4> QED BY <1>5, <2>2, <3>1, <4>3 DEF Replies, Asked
    <3>3. CASE Held(H, r)
      <4>1. r = c /\ H = {} /\ Stream("server") = <<>> /\ Due = Total(Reply[c])
        BY <1>2, <3>3 DEF Held, Nothing
      <4>2. PICK t \in Nat : t = Total(Reply[c])
        BY ReplyTyped
      <4>3. Len(Stream("server")') = 0 /\ Total(unsent') = t /\ Due' = t
        BY <1>3, <1>4, <1>6, <4>1, <4>2
      <4>4. Answering(H, r)'
        BY <1>5, <1>6, <4>1, <4>3 DEF Answering
      <4> QED BY <1>5, <2>2, <3>1, <4>4 DEF Replies, Asked
    <3> QED BY <3>1, <3>2, <3>3
  <2> QED BY <2>1, <2>2
<1>8. SessionTypes'
  BY <1>3, ReplyTyped, CommandsAssumption DEF SessionInv, SessionTypes
<1>9. Stages'
  BY <1>4, <1>5 DEF SessionInv, Stages
<1>10. U = Stream("client")' /\ k = Rest'
  BY <1>1, <1>4, <1>6
<1> QED BY <1>1, <1>4, <1>7, <1>8, <1>9, <1>10 DEF SessionInv

LEMMA ReadDataKeeps ==
  ASSUME SessionInv, ReadData
  PROVE  SessionInv'
<1>1. PICK U \in Seq(Nat), k \in Nat, H \in SUBSET Nat :
        U = Stream("client") /\ k = Rest /\ Headers(U, k, H) /\ Replies(U, H)
  BY DEF SessionInv
<1>2. /\ stage["server"] = "execute" /\ pc["server"] = "idle" /\ unread # <<>>
      /\ BeginRead("server", Head(unread))
      /\ unread' = Tail(unread) /\ UNCHANGED <<cmd, stage, unsent, burst>>
  BY DEF ReadData, At
<1>3. PICK r \in Seq(Nat \ {0}), n \in Nat \ {0}, t \in Nat :
        /\ r = unread /\ n = Head(r) /\ t = Total(Tail(r)) /\ Total(r) = n + t
        /\ Tail(r) \in Seq(Nat \ {0})
  <2>1. PICK r \in Seq(Nat \ {0}) : r = unread /\ r # <<>>
    BY <1>2 DEF SessionInv, SessionTypes
  <2>2. /\ Total(r) = Head(r) + Total(Tail(r)) /\ Head(r) \in Nat \ {0}
        /\ Tail(r) \in Seq(Nat \ {0}) /\ Total(Tail(r)) \in Nat
    BY <2>1, TotalAdds
  <2> QED BY <2>1, <2>2
<1>4. /\ StreamInv' /\ Stream("client")' = Stream("client") /\ Stream("server")' = Stream("server")
      /\ Left("client")' = Left("client") /\ Left("server")' = n /\ Left("server") = 0
  BY <1>2, <1>3, SidesAre, CallRead, IdleIsDone DEF SessionInv
<1>5. ~InHand /\ ~InHand' /\ Due' = Due /\ (Nothing' <=> Nothing) /\ HandNeedsNone'
  BY <1>2, <1>4 DEF InHand, Due, Nothing, HandNeedsNone
<1>6. Rest = 0 + (n + t) /\ Rest' = n + t
  <2>1. Total(unread') = t
    BY <1>2, <1>3
  <2> QED BY <1>2, <1>3, <1>4, <1>5, <2>1 DEF Rest
<1>7. Replies(U, H)'
  BY <1>1, <1>2, <1>4, <1>5 DEF Replies, Unasked, Asked, OnItsWay, Held, Answering
<1>8. SessionTypes' /\ Stages'
  BY <1>2, <1>3, <1>4 DEF SessionInv, SessionTypes, Stages
<1>9. U = Stream("client")' /\ k = Rest'
  BY <1>1, <1>3, <1>4, <1>6
<1> QED BY <1>1, <1>4, <1>7, <1>8, <1>9 DEF SessionInv

\* A write of the server belongs to the reply that the client waits for.
LEMMA WriteReplyKeeps ==
  ASSUME SessionInv, WriteReply
  PROVE  SessionInv'
<1>1. PICK U \in Seq(Nat), k \in Nat, H \in SUBSET Nat :
        U = Stream("client") /\ k = Rest /\ Headers(U, k, H) /\ Replies(U, H)
  BY DEF SessionInv
<1>2. /\ stage["server"] = "execute" /\ pc["server"] = "idle" /\ unread = <<>> /\ unsent # <<>>
      /\ BeginWrite("server", Zeros(Head(unsent)))
      /\ unsent' = Tail(unsent) /\ UNCHANGED <<cmd, stage, unread, burst>>
  BY DEF WriteReply, At
<1>3. PICK r \in Seq(Nat \ {0}), a \in Nat \ {0}, t \in Nat :
        /\ r = unsent /\ a = Head(r) /\ t = Total(Tail(r)) /\ Total(r) = a + t
        /\ Tail(r) \in Seq(Nat \ {0})
  <2>1. PICK r \in Seq(Nat \ {0}) : r = unsent /\ r # <<>>
    BY <1>2 DEF SessionInv, SessionTypes
  <2>2. /\ Total(r) = Head(r) + Total(Tail(r)) /\ Head(r) \in Nat \ {0}
        /\ Tail(r) \in Seq(Nat \ {0}) /\ Total(Tail(r)) \in Nat
    BY <2>1, TotalAdds
  <2> QED BY <2>1, <2>2
<1>4. PICK m \in Seq(Nat) : m = Zeros(a) /\ Len(m) = a
  BY ZerosTyped
<1>5. /\ StreamInv' /\ UNCHANGED dst /\ Stream("server")' = Stream("server") \o m
      /\ Stream("client")' = Stream("client")
      /\ Left("server")' = Left("server") /\ Left("client")' = Left("client")
  BY <1>2, <1>3, <1>4, SidesAre, CallWrite DEF SessionInv
<1>6. (InHand' <=> InHand) /\ Rest' = Rest /\ Due' = Due /\ ~Nothing
  BY <1>2, <1>5 DEF InHand, Rest, Due, Nothing
<1>7. PICK c : /\ c = cmd["client"] /\ c \in Commands /\ Reply[c] # <<>> /\ Answering(H, c)
               /\ stage["client"] # "ready"
  BY <1>1, <1>6 DEF Replies, Unasked, Asked, OnItsWay, Held
<1>8. PICK V \in Seq(Nat), l \in Nat : V = Stream("server") /\ l = Len(V)
  BY SidesAre, StreamTyped DEF SessionInv
<1>9. Len(Stream("server")') = l + a
  BY <1>4, <1>5, <1>8, ConcatIs
<1>10. Due' = l + (a + t)
  BY <1>3, <1>6, <1>7, <1>8 DEF Answering
<1>11. (l + a) + t = l + (a + t)
  OBVIOUS
<1>12. Answering(H, c)'
  <2>1. Len(Stream("server")') + Total(unsent') = Due'
    BY <1>2, <1>3, <1>9, <1>10, <1>11
  <2> QED BY <1>2, <1>6, <1>7, <2>1 DEF Answering
<1>13. Replies(U, H)'
  BY <1>2, <1>7, <1>12 DEF Replies, Asked
<1>14. SessionTypes' /\ Stages'
  BY <1>2, <1>3, <1>5 DEF SessionInv, SessionTypes, Stages
<1>15. U = Stream("client")' /\ k = Rest'
  BY <1>1, <1>5, <1>6
<1> QED BY <1>1, <1>5, <1>13, <1>14, <1>15 DEF SessionInv

LEMMA AgainKeeps ==
  ASSUME SessionInv, Again
  PROVE  SessionInv'
<1>1. PICK U \in Seq(Nat), k \in Nat, H \in SUBSET Nat :
        U = Stream("client") /\ k = Rest /\ Headers(U, k, H) /\ Replies(U, H)
  BY DEF SessionInv
<1>2. /\ stage["server"] = "execute" /\ pc["server"] = "idle" /\ unread = <<>> /\ unsent = <<>>
      /\ UNCHANGED <<vars, cmd, unread, unsent, burst>>
      /\ stage' = [stage EXCEPT !["server"] = "header"]
  BY DEF Again, At, Enter
<1>3. StreamInv' /\ Silent /\ Left("server") = 0
  BY <1>2, SidesAre, StreamsKept, IdleIsDone DEF SessionInv
<1>4. /\ Left("client")' = Left("client") /\ Left("server")' = 0 /\ dst' = dst
      /\ Stream("client")' = Stream("client") /\ Stream("server")' = Stream("server")
  BY <1>3, SidesAre DEF Silent
<1>5. stage'["server"] = "header" /\ stage'["client"] = stage["client"]
  BY <1>2, SidesAre DEF SessionInv, SessionTypes
<1>6. ~InHand /\ ~InHand' /\ Rest = 0 /\ Rest' = 0
  <2>1. Total(unread) = 0
    <3>1. PICK r \in Seq(Nat \ {0}) : r = unread /\ r = <<>>
      BY <1>2 DEF SessionInv, SessionTypes
    <3> QED BY <3>1, TotalAdds
  <2> QED BY <1>2, <1>3, <1>5, <2>1 DEF InHand, Rest
<1>7. (Nothing' <=> Nothing) /\ HandNeedsNone' /\ Due' = Due
  BY <1>2, <1>4, <1>5, <1>6 DEF Nothing, HandNeedsNone, Due
<1>8. Replies(U, H)'
  BY <1>1, <1>2, <1>4, <1>5, <1>6, <1>7 DEF Replies, Unasked, Asked, OnItsWay, Held, Answering
<1>9. SessionTypes' /\ Stages'
  BY <1>2, <1>4, <1>5 DEF SessionInv, SessionTypes, Stages
<1>10. U = Stream("client")' /\ k = Rest'
  BY <1>1, <1>4, <1>6
<1> QED BY <1>1, <1>3, <1>8, <1>9, <1>10 DEF SessionInv

\* A command that fails leaves the rings as they are.
LEMMA FailKeeps ==
  ASSUME SessionInv, Fail
  PROVE  SessionInv'
<1>1. PICK U \in Seq(Nat), k \in Nat, H \in SUBSET Nat :
        U = Stream("client") /\ k = Rest /\ Headers(U, k, H) /\ Replies(U, H)
  BY DEF SessionInv
<1>2. /\ stage["server"] = "execute" /\ pc["server"] = "idle"
      /\ alive' = [alive EXCEPT !["server"] = FALSE]
      /\ stage' = [stage EXCEPT !["server"] = "gone"]
      /\ UNCHANGED <<wr, rd, buf, waiting, fd, local, cmd, unread, unsent, burst>>
  BY DEF Fail, At, Enter
<1>3. StreamInv' /\ Silent
  BY <1>2, DeathKeeps DEF SessionInv
<1>4. /\ Left("client")' = Left("client") /\ Left("server")' = Left("server") /\ dst' = dst
      /\ Stream("client")' = Stream("client") /\ Stream("server")' = Stream("server")
      /\ Left("server") = 0
  BY <1>2, <1>3, SidesAre, IdleIsDone DEF Silent, SessionInv
<1>5. stage'["server"] = "gone" /\ stage'["client"] = stage["client"]
  BY <1>2, SidesAre DEF SessionInv, SessionTypes
<1>6. ~InHand /\ ~InHand' /\ Rest' = Rest
  BY <1>2, <1>4, <1>5 DEF InHand, Rest
<1>7. (Nothing' <=> Nothing) /\ HandNeedsNone' /\ Due' = Due
  BY <1>2, <1>4, <1>5, <1>6 DEF Nothing, HandNeedsNone, Due
<1>8. Replies(U, H)'
  BY <1>1, <1>2, <1>4, <1>5, <1>6, <1>7 DEF Replies, Unasked, Asked, OnItsWay, Held, Answering
<1>9. SessionTypes' /\ Stages'
  BY <1>2, <1>4, <1>5 DEF SessionInv, SessionTypes, Stages
<1>10. U = Stream("client")' /\ k = Rest'
  BY <1>1, <1>4, <1>6
<1> QED BY <1>1, <1>3, <1>8, <1>9, <1>10 DEF SessionInv

LEMMA SessionStep == SessionInv /\ [SNext]_sessionVars => SessionInv'
<1> SUFFICES ASSUME SessionInv, [SNext]_sessionVars PROVE SessionInv'
  OBVIOUS
<1>1. CASE UNCHANGED sessionVars
  <2>1. StreamInv' /\ Silent /\ UNCHANGED <<cmd, stage, unread, unsent, burst>>
    BY <1>1, StreamsKept DEF sessionVars, SessionInv
  <2> QED BY <2>1, SilentKeeps
<1>2. ASSUME NEW c \in Commands, SendCommand(c) PROVE SessionInv'
  BY <1>2, SendCommandKeeps
<1>3. CASE Client
  BY <1>3, SidesAre, TransportKeeps, AwaitReplyKeeps, AnsweredKeeps DEF Client
<1>4. CASE Server
  BY <1>4, SidesAre, TransportKeeps, ReadHeaderKeeps, DispatchKeeps, ReadDataKeeps,
     WriteReplyKeeps, AgainKeeps DEF Server
<1> QED BY <1>1, <1>2, <1>3, <1>4, FailKeeps DEF SNext

\* Nothing is on its way to the client that is ready for a command: its ring is empty.
LEMMA ReadyMeansEmpty ==
  ASSUME SessionInv, At("client", "ready")
  PROVE  wr["server"] = rd["server"]
<1>1. Stream("server") = <<>> /\ StreamInv /\ pc["client"] = "idle"
  BY DEF SessionInv, Replies, Unasked, Nothing, At
<1>2. Len(Stream("server")) = Len(Chan("server")) + Len(src["server"]) /\ Len(Stream("server")) = 0
      /\ Chan("server") \in Seq(Nat) /\ src["server"] \in Seq(Nat)
  BY <1>1, SidesAre, StreamTyped
<1>3. Len(Chan("server")) = 0
  <2> HIDE DEF Chan
  <2>1. PICK a \in Nat, b \in Nat : a = Len(Chan("server")) /\ b = Len(src["server"])
    BY <1>2
  <2> QED BY <1>2, <2>1
<1>4. Copied("server") = rd["server"]
  BY <1>1, SidesAre DEF Copied
<1>5. wr["server"] \in Indices /\ rd["server"] \in Indices
  BY <1>1, SidesAre DEF StreamInv, TypeOK
<1>6. Gap(wr["server"], rd["server"]) = 0
  BY <1>1, <1>3, <1>4, SidesAre, ChanLength
<1> QED BY <1>5, <1>6, GapRange

LEMMA StarvingMeans ==
  ASSUME SessionInv, NEW p \in Sides, Starves(p)
  PROVE  /\ Left(p) = want[p] /\ Left(p) > 0 /\ src[p] = <<>>
         /\ Chan(Peer(p)) = <<>>
<1> DEFINE q == Peer(p)
<1>1. /\ StreamInv /\ want[p] > 0 /\ pc[p] # "read_advance" /\ wr[q] = rd[q]
      /\ q \in Sides /\ Peer(q) = p
  BY SidesPeers DEF SessionInv, Starves
<1>2. pc[p] \in ReadPCs /\ src[p] = <<>>
  <2>1. ReaderOK(p, q) /\ WriterOK(p)
    BY <1>1 DEF StreamInv
  <2> QED BY <1>1, <2>1 DEF ReaderOK, WriterOK, ReadPCs
<1>3. Copied(q) = rd[q] /\ wr[q] \in Indices /\ rd[q] \in Indices
  BY <1>1 DEF Copied, StreamInv, TypeOK
<1>4. Len(Chan(q)) = 0 /\ Chan(q) \in Seq(Nat)
  BY <1>1, <1>3, ChanLength, GapRange
<1>5. Chan(q) = <<>>
  <2> HIDE DEF Chan, q
  <2> QED BY <1>4, EmptySeq
<1> QED BY <1>1, <1>2, <1>5 DEF Left

\* Both sides read, and nothing is on its way: then a reply would be missing.
LEMMA NotBothStarve ==
  ASSUME SessionInv
  PROVE  \E p \in Sides : ~Starves(p)
<1> SUFFICES ASSUME Starves("client"), Starves("server") PROVE FALSE
  BY SidesAre
<1>1. /\ Left("client") > 0 /\ Left("server") > 0
      /\ Chan("client") = <<>> /\ Chan("server") = <<>>
      /\ src["client"] = <<>> /\ src["server"] = <<>>
  BY SidesAre, StarvingMeans
<1>2. Stream("client") = <<>> /\ Stream("server") = <<>>
  <2> HIDE DEF Chan
  <2>1. <<>> \o <<>> = <<>>
    BY EmptySeq, ConcatEmptySeq
  <2> QED BY <1>1, <2>1 DEF Stream
<1>3. PICK k \in Nat, H \in SUBSET Nat : k = Rest /\ Headers(<<>>, k, H) /\ Replies(<<>>, H)
  BY <1>2 DEF SessionInv
<1>4. H = {} /\ k = 0
  BY <1>3 DEF Headers
<1>5. stage["client"] = "answered" /\ stage["server"] \in {"header", "data", "execute"} /\ ~InHand
  BY <1>1 DEF SessionInv, Stages, InHand
<1>6. PICK c \in Commands : Answering(H, c)
  BY <1>3, <1>4, <1>5 DEF Replies, Asked, OnItsWay, Held
<1>7. unsent # <<>>
  <2>1. Total(unsent) = Left("client") \/ Total(unsent) \notin Nat
    BY <1>2, <1>5, <1>6 DEF Answering, Due
  <2>2. PICK r \in Seq(Nat \ {0}) : r = unsent /\ Total(r) \in Nat /\ (r = <<>> => Total(r) = 0)
    BY TotalAdds DEF SessionInv, SessionTypes
  <2> QED BY <1>1, <2>1, <2>2
<1>8. stage["server"] = "execute"
  BY <1>5, <1>7 DEF SessionInv, Stages
<1>9. PICK a \in Nat, t \in Nat : a = Left("server") /\ t = Total(unread)
  BY SidesAre, IdleIsDone, TotalAdds DEF SessionInv, SessionTypes
<1>10. a + t = 0
  BY <1>3, <1>4, <1>8, <1>9 DEF Rest, InHand
<1> QED BY <1>1, <1>9, <1>10

\* What the server takes for a header is one, a reply is the one asked for, and the
\* two sides never wait for each other, for every set of commands, all sizes of data
\* and replies, and every ring size.
THEOREM FramingHolds == SSpec => []Framing
<1>1. SessionInv => Framing
  <2> SUFFICES ASSUME SessionInv PROVE Framing
    OBVIOUS
  <2>1. STypeOK
    <3>1. TypeOK /\ SessionTypes
      BY DEF SessionInv, StreamInv
    <3>2. unread \in Seq(Nat) /\ unsent \in Seq(Nat)
      <4>1. PICK d \in Seq(Nat \ {0}), r \in Seq(Nat \ {0}) : d = unread /\ r = unsent
        BY <3>1 DEF SessionTypes
      <4> QED BY <4>1
    <3> QED BY <3>1, <3>2 DEF STypeOK, SessionTypes
  <2>2. At("server", "data") => dst["server"][1] \in Commands
    BY HeaderRead
  <2>3. At("client", "ready") => wr["server"] = rd["server"]
    BY ReadyMeansEmpty
  <2>4. At("client", "answered") =>
          stage["server"] \in {"execute", "header", "data", "gone"} /\ cmd["server"] = cmd["client"]
    BY AnsweredMeans DEF SessionInv, Stages
  <2> QED BY <2>1, <2>2, <2>3, <2>4, NotBothStarve DEF Framing
<1> QED BY <1>1, SessionInit, SessionStep, PTL DEF SSpec

\* The session calls ring.c with its own messages and sizes, none of them empty.
LEMMA SessionWakes ==
  SessionInv /\ WakeInv /\ [SNext]_sessionVars => SessionInv' /\ WakeInv'
<1> SUFFICES ASSUME SessionInv, WakeInv, [SNext]_sessionVars PROVE SessionInv' /\ WakeInv'
  OBVIOUS
<1>1. SessionInv' /\ TypeOK'
  <2>1. SessionInv'
    BY SessionStep
  <2> QED BY <2>1 DEF SessionInv, StreamInv
<1> SUFFICES WakeInv'
  BY <1>1
<1>2. UNCHANGED vars => WakeInv'
  BY WakeStep
<1>3. ASSUME NEW p \in Sides, NEW m, BeginWrite(p, m) PROVE WakeInv'
  BY <1>1, <1>3, OtherSteps DEF BeginWrite, shared
<1>4. ASSUME NEW p \in Sides, NEW n, BeginRead(p, n) PROVE WakeInv'
  BY <1>1, <1>4, OtherSteps DEF BeginRead, shared
<1>5. ASSUME NEW p \in Sides, Transport(p) PROVE WakeInv'
  BY <1>1, <1>5, WakeRingStep DEF Transport
<1>6. CASE UNCHANGED sessionVars
  <2>1. UNCHANGED vars
    BY <1>6 DEF sessionVars
  <2> QED BY <1>2, <2>1
<1>7. ASSUME NEW c \in Commands, SendCommand(c) PROVE WakeInv'
  <2>1. BeginWrite("client", <<c>> \o Zeros(Payload(c)))
    BY <1>7 DEF SendCommand
  <2> QED BY <1>3, <2>1, SidesAre
<1>8. CASE Client
  <2>1. CASE AwaitReply
    <3>1. PICK n : n = Total(Reply[cmd["client"]])
      OBVIOUS
    <3>2. BeginRead("client", n)
      BY <2>1, <3>1 DEF AwaitReply
    <3> QED BY <1>4, <3>2, SidesAre
  <2>2. CASE Answered
    <3>1. UNCHANGED vars
      BY <2>2 DEF Answered
    <3> QED BY <1>2, <3>1
  <2> QED BY <1>5, <1>8, <2>1, <2>2, SidesAre DEF Client
<1>9. CASE Server
  <2>1. CASE ReadHeader
    <3>1. PICK n : n = 1
      OBVIOUS
    <3>2. BeginRead("server", n)
      BY <2>1, <3>1 DEF ReadHeader
    <3> QED BY <1>4, <3>2, SidesAre
  <2>2. CASE ReadData
    <3>1. PICK n : n = Head(unread)
      OBVIOUS
    <3>2. BeginRead("server", n)
      BY <2>2, <3>1 DEF ReadData
    <3> QED BY <1>4, <3>2, SidesAre
  <2>3. CASE WriteReply
    <3>1. PICK m : m = Zeros(Head(unsent))
      OBVIOUS
    <3>2. BeginWrite("server", m)
      BY <2>3, <3>1 DEF WriteReply
    <3> QED BY <1>3, <3>2, SidesAre
  <2>4. CASE Dispatch \/ Again
    <3>1. UNCHANGED vars
      BY <2>4 DEF Dispatch, Again
    <3> QED BY <1>2, <3>1
  <2> QED BY <1>5, <1>9, <2>1, <2>2, <2>3, <2>4, SidesAre DEF Server
<1>10. CASE Fail
  <2>1. ~Connected'
    BY <1>1, <1>10, SidesAre DEF Fail, Connected, SessionInv, StreamInv, TypeOK
  <2> QED BY <1>1, <2>1 DEF WakeInv, NoBothAsleep, OneWakeUp, FlagMeansAsleep
<1> QED BY <1>6, <1>7, <1>8, <1>9, <1>10 DEF SNext

\* In a session too the two sides never sleep on each other, the flag tells who sleeps,
\* a wake-up goes to a sleeper and once, and no piece of a ring_read is empty.
THEOREM SessionKeepsProtocol == SSpec => [](FlagProtocol /\ ReloadFindsData)
<1>1. SInit => SessionInv /\ WakeInv
  BY SessionInit, WakeInit DEF SInit
<1>2. SessionInv /\ WakeInv => FlagProtocol /\ ReloadFindsData
  BY ReloadsFind DEF SessionInv, WakeInv, FlagProtocol
<1> QED BY <1>1, <1>2, SessionWakes, PTL DEF SSpec
=============================================================================
