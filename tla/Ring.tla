------------------------------- MODULE Ring --------------------------------
(***************************************************************************)
(* The shared-memory transport of vtest/ring.c between a vtest client and  *)
(* the server thread that renders for it.  Each side owns one byte ring    *)
(* (buf_out, write_out) that the other side drains (buf_in, read_in).  A   *)
(* reader that finds its ring empty goes to sleep in read() on the socket  *)
(* after raising the one flag "waiting" that both directions share;        *)
(* ring_post lowers the flag and sends the byte that wakes the sleeper.    *)
(*                                                                         *)
(* Both sides run the same code; every load or store of shared memory that *)
(* another side can interleave with is a step of its own.  Index values    *)
(* are kept masked, as every load in ring.c masks them.                    *)
(***************************************************************************)
EXTENDS Integers, Sequences

CONSTANTS
  Size,       \* ring->size, a power of two
  Messages,   \* Messages[p]: the buffers side p may pass to ring_write
  ReadSizes   \* ReadSizes[p]: the sizes side p may pass to ring_read

Sides == {"client", "server"}

Peer(p) == IF p = "client" THEN "server" ELSE "client"

Indices == 0 .. Size - 1

ASSUME SizeAssumption ==
  /\ Size \in Nat \ {0, 1}
  /\ \E k \in 1..Size : Size = 2^k

ASSUME CallersAssumption ==
  /\ \A p \in Sides : \A m \in Messages[p] : m \in Seq(Nat) /\ m # <<>>
  /\ \A p \in Sides : ReadSizes[p] \subseteq Nat \ {0}

VARIABLES
  wr,       \* wr[p]: *write_out of side p, *write_in of its peer
  rd,       \* rd[p]: *read_out of side p, *read_in of its peer
  buf,      \* buf[p]: the bytes of buf_out of side p
  waiting,  \* *waiting, one flag for both directions
  fd,       \* fd[p]: bytes in the socket that side p has not read
  alive,    \* alive[p]: the process of side p has not died
  pc,       \* pc[p]: where side p stands in ring.c
  mark,     \* mark[p]: the peer's index as side p last loaded it
  src,      \* src[p]: what is left to write of the current ring_write
  want,     \* want[p]: how many bytes the current ring_read still needs
  dst       \* dst[p]: the bytes the current ring_read has copied out

shared == <<wr, rd, buf, waiting, fd, alive>>
local  == <<pc, mark, src, want, dst>>
vars   == <<shared, local>>

-----------------------------------------------------------------------------
\* Mutant of Mask: the sum of two indices is not masked.
MaskForgotten(i) == IF i < 0 THEN i + Size ELSE i

\* i & (size - 1), for the sums and differences of two indices that ring.c masks
Mask(i) == IF i < 0 THEN i + Size ELSE IF i >= Size THEN i - Size ELSE i

Smaller(a, b) == IF a < b THEN a ELSE b

\* Bit k of an index.
Bit(i, k) == (i \div 2^k) % 2

\* The condition of SYNC_WHILE in ring_read_partial as C parses it: "-" binds
\* tighter than "&", so it is (w & (mask - r) & mask) == 0, true whenever every
\* bit set in w is also set in r.
SeesNothing(w, r) == \A k \in {j \in 0..Size : 2^j < Size} : Bit(w, k) = 1 => Bit(r, k) = 1

\* Mutant of Piece: every byte of the ring is used, so that full looks like empty.
PieceFull(p) ==
  Smaller(Len(src[p]), IF wr[p] = mark[p] THEN Size ELSE Mask(mark[p] - wr[p]))

\* freespace and bufsize of ring_write_partial
Piece(p) == Smaller(Len(src[p]), Mask(mark[p] - wr[p] - 1))

\* readsize of ring_read_partial
Chunk(p) == Smaller(want[p], Mask(mark[p] - rd[Peer(p)]))

\* n bytes of the ring that q writes, from index i on; ring_map maps the ring
\* twice in a row, so that a copy runs over its end into its beginning.
Slice(q, i, n) == [k \in 1..n |-> buf[q][Mask(i + k - 1)]]

Goto(p, from, to) == pc[p] = from /\ pc' = [pc EXCEPT ![p] = to]

Connected == \A p \in Sides : alive[p]

Init ==
  /\ wr = [p \in Sides |-> 0] /\ rd = [p \in Sides |-> 0]
  /\ buf = [p \in Sides |-> [i \in Indices |-> 0]]
  /\ waiting = 0
  /\ fd = [p \in Sides |-> 0]
  /\ alive = [p \in Sides |-> TRUE]
  /\ pc = [p \in Sides |-> "idle"]
  /\ mark = [p \in Sides |-> 0]
  /\ src = [p \in Sides |-> <<>>]
  /\ want = [p \in Sides |-> 0]
  /\ dst = [p \in Sides |-> <<>>]

-----------------------------------------------------------------------------
(* ring_post: test and clear the flag, then send the byte.  It is called    *)
(* from ring_write_partial and from ring_wait.                              *)

PostFlag(p, from, send, skip) ==
  /\ IF waiting = 1 THEN Goto(p, from, send) ELSE Goto(p, from, skip)
  /\ waiting' = 0
  /\ UNCHANGED <<wr, rd, buf, fd, alive, mark, src, want, dst>>

\* The write to the socket of a dead peer fails, and the failure is ignored.
PostByte(p, from, to) ==
  /\ Goto(p, from, to)
  /\ fd' = IF alive[Peer(p)] THEN [fd EXCEPT ![Peer(p)] = @ + 1] ELSE fd
  /\ UNCHANGED <<wr, rd, buf, waiting, alive, mark, src, want, dst>>

-----------------------------------------------------------------------------
(* ring_write                                                               *)

BeginWrite(p, m) ==
  /\ Goto(p, "idle", "write_load")
  /\ src' = [src EXCEPT ![p] = m]
  /\ UNCHANGED <<shared, mark, want, dst>>

\* ring_write returns when nothing is left, else it yields and tries again.
AfterPiece(left) == IF left = 0 THEN "idle" ELSE "write_load"

\* writemark is this side's own index: only the load of readmark can race.
WriteLoad(p) ==
  /\ Goto(p, "write_load", "write_copy")
  /\ mark' = [mark EXCEPT ![p] = rd[p]]
  /\ UNCHANGED <<shared, src, want, dst>>

\* Mutant of WriteCopy: without the second mapping the end of a piece is lost.
WriteCopyNoWrap(p) ==
  /\ Goto(p, "write_copy", "write_publish")
  /\ buf' = [buf EXCEPT ![p] = [i \in Indices |->
       IF i >= wr[p] /\ i - wr[p] < Piece(p) THEN src[p][i - wr[p] + 1] ELSE @[i]]]
  /\ UNCHANGED <<wr, rd, waiting, fd, alive, mark, src, want, dst>>

WriteCopy(p) ==
  /\ Goto(p, "write_copy", "write_publish")
  /\ buf' = [buf EXCEPT ![p] = [i \in Indices |->
       IF Mask(i - wr[p]) < Piece(p) THEN src[p][Mask(i - wr[p]) + 1] ELSE @[i]]]
  /\ UNCHANGED <<wr, rd, waiting, fd, alive, mark, src, want, dst>>

\* The reader is woken only if the ring was empty when readmark was loaded.
WritePublish(p) ==
  LET left == Len(src[p]) - Piece(p) IN
  /\ Goto(p, "write_publish",
          IF wr[p] = mark[p] THEN "write_post" ELSE AfterPiece(left))
  /\ wr' = [wr EXCEPT ![p] = Mask(@ + Piece(p))]
  /\ src' = [src EXCEPT ![p] = SubSeq(@, Piece(p) + 1, Len(@))]
  /\ UNCHANGED <<rd, buf, waiting, fd, alive, mark, want, dst>>

Writing(p) ==
  \/ WriteLoad(p) \/ WriteCopy(p) \/ WritePublish(p)
  \/ PostFlag(p, "write_post", "write_byte", AfterPiece(Len(src[p])))
  \/ PostByte(p, "write_byte", AfterPiece(Len(src[p])))

-----------------------------------------------------------------------------
(* ring_read                                                                *)

BeginRead(p, n) ==
  /\ Goto(p, "idle", "read_load")
  /\ want' = [want EXCEPT ![p] = n]
  /\ dst' = [dst EXCEPT ![p] = <<>>]
  /\ UNCHANGED <<shared, mark, src>>

ReadLoad(p) ==
  LET q == Peer(p) IN
  /\ Goto(p, "read_load", IF wr[q] = rd[q] THEN "read_sync" ELSE "read_copy")
  /\ mark' = [mark EXCEPT ![p] = wr[q]]
  /\ UNCHANGED <<shared, src, want, dst>>

\* SYNC_WHILE spins for a while (stuttering here) and then calls ring_wait.
ReadSync(p) ==
  LET q == Peer(p) IN
  /\ Goto(p, "read_sync", IF SeesNothing(wr[q], rd[q]) THEN "wait_flag" ELSE "read_reload")
  /\ UNCHANGED <<shared, mark, src, want, dst>>

ReadReload(p) ==
  /\ Goto(p, "read_reload", "read_copy")
  /\ mark' = [mark EXCEPT ![p] = wr[Peer(p)]]
  /\ UNCHANGED <<shared, src, want, dst>>

ReadCopy(p) ==
  /\ Goto(p, "read_copy", "read_advance")
  /\ dst' = [dst EXCEPT ![p] = @ \o Slice(Peer(p), rd[Peer(p)], Chunk(p))]
  /\ UNCHANGED <<shared, mark, src, want>>

\* The two stores to read_in are one: the peer masks what it loads.
ReadAdvance(p) ==
  /\ Goto(p, "read_advance", IF want[p] = Chunk(p) THEN "idle" ELSE "read_load")
  /\ rd' = [rd EXCEPT ![Peer(p)] = Mask(@ + Chunk(p))]
  /\ want' = [want EXCEPT ![p] = @ - Chunk(p)]
  /\ UNCHANGED <<wr, buf, waiting, fd, alive, mark, src, dst>>

-----------------------------------------------------------------------------
(* ring_wait, entered from SYNC_WHILE and returning to it                   *)

\* Mutant of WaitFlag: sleep without looking at the old value of the flag.
WaitFlagBlind(p) ==
  /\ Goto(p, "wait_flag", "wait_block")
  /\ waiting' = 1
  /\ UNCHANGED <<wr, rd, buf, fd, alive, mark, src, want, dst>>

\* Mutant of WaitFlag: if the peer is waiting, return without waking it.
WaitFlagNoPost(p) ==
  /\ Goto(p, "wait_flag", IF waiting = 1 THEN "read_sync" ELSE "wait_block")
  /\ waiting' = 1
  /\ UNCHANGED <<wr, rd, buf, fd, alive, mark, src, want, dst>>

\* Test and set: if the peer is already waiting, wake it instead of sleeping.
WaitFlag(p) ==
  /\ Goto(p, "wait_flag", IF waiting = 1 THEN "wait_post" ELSE "wait_block")
  /\ waiting' = 1
  /\ UNCHANGED <<wr, rd, buf, fd, alive, mark, src, want, dst>>

\* read(fd, c, 32), repeated only after a full 32 bytes; a closed socket returns
\* 0 (or -1) at once, and the "if (res < 0) exit" is the body of that loop.
WaitBlock(p) ==
  /\ fd[p] > 0 \/ ~alive[Peer(p)]
  /\ Goto(p, "wait_block", IF fd[p] >= 32 THEN "wait_block" ELSE "read_sync")
  /\ fd' = [fd EXCEPT ![p] = IF @ >= 32 THEN @ - 32 ELSE 0]
  /\ UNCHANGED <<wr, rd, buf, waiting, alive, mark, src, want, dst>>

Reading(p) ==
  \/ ReadLoad(p) \/ ReadSync(p) \/ ReadReload(p) \/ ReadCopy(p) \/ ReadAdvance(p)
  \/ WaitFlag(p)
  \/ PostFlag(p, "wait_post", "wait_byte", "read_sync")
  \/ PostByte(p, "wait_byte", "read_sync")
  \/ WaitBlock(p)

-----------------------------------------------------------------------------
\* The process of side p dies at any point; shared memory stays as it is.  The
\* death of the second side ends the behaviour and is left out.
Disconnect(p) ==
  /\ Connected
  /\ alive' = [alive EXCEPT ![p] = FALSE]
  /\ UNCHANGED <<wr, rd, buf, waiting, fd, local>>

Call(p) ==
  \/ \E m \in Messages[p] : BeginWrite(p, m)
  \/ \E n \in ReadSizes[p] : BeginRead(p, n)

Next == \E p \in Sides :
  \/ alive[p] /\ (Call(p) \/ Writing(p) \/ Reading(p))
  \/ Disconnect(p)

Spec == Init /\ [][Next]_vars

-----------------------------------------------------------------------------
PCs == {"idle", "write_load", "write_copy", "write_publish", "write_post",
        "write_byte", "read_load", "read_sync", "read_reload", "read_copy",
        "read_advance", "wait_flag", "wait_post", "wait_byte", "wait_block"}

TypeOK ==
  /\ wr \in [Sides -> Indices] /\ rd \in [Sides -> Indices]
  /\ buf \in [Sides -> [Indices -> Nat]]
  /\ waiting \in {0, 1}
  /\ fd \in [Sides -> Nat]
  /\ alive \in [Sides -> BOOLEAN]
  /\ pc \in [Sides -> PCs]
  /\ mark \in [Sides -> Indices]
  /\ src \in [Sides -> Seq(Nat)]
  /\ want \in [Sides -> Nat]
  /\ dst \in [Sides -> Seq(Nat)]

\* p is between the compare-and-swap and the write of ring_post; the byte that
\* will end p's sleep is in the socket or about to be sent.
Waking(p) == pc[p] \in {"write_byte", "wait_byte"}

WakeSent(p) == fd[p] > 0 \/ Waking(Peer(p))

\* p sleeps in read() and nothing is on its way to wake it.
Asleep(p) == pc[p] = "wait_block" /\ ~WakeSent(p)

\* ring.c:44 warns of it: while both processes live, the two sides are never
\* both asleep for good, although they share one flag and the wake-up of one
\* can race the going to sleep of the other.
NoBothAsleep == Connected => ~(Asleep("client") /\ Asleep("server"))

\* The flag never lies: while both processes live it is raised exactly while a
\* side sleeps that nobody has begun to wake, so that the test-and-set of one
\* side and the compare-and-swap of the other cannot lose a sleeper between them.
FlagMeansAsleep == Connected => (waiting = 1 <=> \E p \in Sides : Asleep(p))

\* No stray wake-up: while both processes live, a byte is sent only to a side
\* that sleeps, at most one at a time, so that ring_wait's 32-byte buffer always
\* empties the socket and no old byte cuts a later sleep short.
OneWakeUp == Connected => \A p \in Sides :
  /\ fd[p] <= 1
  /\ WakeSent(p) => pc[p] = "wait_block"
  /\ ~(fd[p] > 0 /\ Waking(Peer(p)))

\* The protocol of ring_wait and ring_post over the shared flag and the socket.
FlagProtocol == NoBothAsleep /\ FlagMeansAsleep /\ OneWakeUp

\* A ring_read never finishes a piece without a byte: what SYNC_WHILE saw is
\* still there when the marks are loaded again, whatever the writer did since.
ReloadFindsData == \A p \in Sides :
  pc[p] \in {"read_reload", "read_copy"} => wr[Peer(p)] # rd[Peer(p)]

-----------------------------------------------------------------------------
\* How far the peer has copied out of the ring that p writes.
Copied(p) ==
  IF pc[Peer(p)] = "read_advance" THEN Mask(rd[p] + Chunk(Peer(p))) ELSE rd[p]

\* Ring implements the byte streams of ByteChannel: what is in flight in a
\* direction is the part of its ring between the copied and the written mark.
Channel == INSTANCE ByteChannel WITH
  Capacity <- Size - 1,
  toSend   <- src,
  chan     <- [p \in Sides |-> Slice(p, Copied(p), Mask(wr[p] - Copied(p)))],
  got      <- dst

\* No byte is lost, doubled, reordered or overwritten before it is read, for
\* all interleavings of the two sides' loads, copies and stores.
FIFO == Channel!Spec
=============================================================================
