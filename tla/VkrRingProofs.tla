--------------------------- MODULE VkrRingProofs ---------------------------
(***************************************************************************)
(* Proofs about the command ring of Venus for every size of the buffer, of *)
(* the counters and of the commands, and however the driver, the thread    *)
(* and the context interleave: the thread misses no command, and the ring  *)
(* implements CommandQueue.  Head, tail and cur are counts of units modulo *)
(* Wrap; what lies between cur and the tail is in the buffer, at the count *)
(* modulo the buffer's size.                                               *)
(***************************************************************************)
EXTENDS VkrRing, SequenceTheorems, TLAPS

\* From its announcement to its sleep the thread is idle for the driver to see.
AnnouncedIdle == thread \in {"test", "lock", "asleep"} => status = TRUE

\* Once the thread found no command, one that appears before it sleeps either makes the
\* driver notify, or the notification is already pending.
Noticed ==
  thread \in {"lock", "asleep"} /\ tail # cur =>
    driver = "stored" \/ notes > 0 \/ (thread = "lock" /\ pending = TRUE)

SleepsStarted == thread = "asleep" => started = TRUE

Flags == notes \in Nat /\ status \in BOOLEAN /\ pending \in BOOLEAN /\ started \in BOOLEAN

WakeInv == Flags /\ AnnouncedIdle /\ Noticed /\ SleepsStarted

-----------------------------------------------------------------------------
LEMMA WakeInit == Init => WakeInv
<1> SUFFICES ASSUME Init PROVE WakeInv
  OBVIOUS
<1>1. thread = "top" /\ notes = 0
  BY DEF Init
<1>2. status \in BOOLEAN /\ pending \in BOOLEAN /\ started \in BOOLEAN
  BY Zenon DEF Init
<1>3. QED
  BY <1>1, <1>2 DEF WakeInv, Flags, AnnouncedIdle, Noticed, SleepsStarted

\* The driver notifies what it sees idle.
LEMMA DriverStep == WakeInv /\ Driver => WakeInv'
<1> SUFFICES ASSUME WakeInv, Driver PROVE WakeInv'
  OBVIOUS
<1> USE DEF WakeInv, Flags, AnnouncedIdle, Noticed, SleepsStarted, local
<1>1. CASE \E n \in Sizes : DriverWrite(n)
  BY <1>1 DEF DriverWrite
<1>2. CASE DriverStoreTail
  BY <1>2 DEF DriverStoreTail
<1>3. CASE DriverLoadStatus
  BY <1>3 DEF DriverLoadStatus, mem
<1>4. QED
  BY <1>1, <1>2, <1>3 DEF Driver

\* On its way to sleep the thread finds no command before it takes the lock, and no
\* pending notification under it.
LEMMA ThreadStep == WakeInv /\ (Thread \/ SpuriousWakeUp) => WakeInv'
<1> SUFFICES ASSUME WakeInv, Thread \/ SpuriousWakeUp PROVE WakeInv'
  OBVIOUS
<1> USE DEF WakeInv, Flags, AnnouncedIdle, Noticed, SleepsStarted, mem, drv, ThreadGoes
<1>1. CASE Look
  BY <1>1 DEF Look
<1>2. CASE IdleClear
  BY <1>2 DEF IdleClear
<1>3. CASE IdleAnnounce
  BY <1>3 DEF IdleAnnounce
<1>4. CASE IdleTest
  BY <1>4 DEF IdleTest
<1>5. CASE Busy
  BY <1>5 DEF Busy
<1>6. CASE Sleep
  BY <1>6 DEF Sleep
<1>7. CASE Checked
  BY <1>7 DEF Checked
<1>8. CASE LoadTail
  BY <1>8 DEF LoadTail
<1>9. CASE ReadBuffer
  BY <1>9 DEF ReadBuffer
<1>10. CASE SubmitLock
  BY <1>10 DEF SubmitLock
<1>11. CASE SubmitRun
  BY <1>11 DEF SubmitRun
<1>12. CASE StoreHead
  BY <1>12 DEF StoreHead
<1>13. CASE SpuriousWakeUp
  BY <1>13 DEF SpuriousWakeUp
<1>14. QED
  BY <1>1, <1>2, <1>3, <1>4, <1>5, <1>6, <1>7, <1>8, <1>9, <1>10, <1>11, <1>12, <1>13
     DEF Thread

\* A notification or a stop wakes the thread, or finds it awake and is seen under the lock.
LEMMA ContextStep ==
  WakeInv /\ (Notify \/ Join \/ \E caller \in {"main", "none"} : Stop(caller)) => WakeInv'
<1> SUFFICES ASSUME WakeInv, Notify \/ Join \/ \E caller \in {"main", "none"} : Stop(caller)
             PROVE  WakeInv'
  OBVIOUS
<1> USE DEF WakeInv, Flags, AnnouncedIdle, Noticed, SleepsStarted, mem, drv, Signaled
<1>1. CASE Notify
  BY <1>1 DEF Notify
<1>2. CASE Join
  BY <1>2 DEF Join, local
<1>3. CASE \E caller \in {"main", "none"} : Stop(caller)
  BY <1>3 DEF Stop
<1>4. QED
  BY <1>1, <1>2, <1>3

-----------------------------------------------------------------------------
\* No wake-up is lost: the thread never sleeps beside commands that nobody is about to
\* notify it of, and never once vkr_ring_stop asked it to end.
THEOREM NoWakeUpIsLost == Spec => []NoLostWakeUp
<1>1. WakeInv /\ UNCHANGED vars => WakeInv'
  BY DEF WakeInv, Flags, AnnouncedIdle, Noticed, SleepsStarted, vars, mem, local, drv
<1>2. WakeInv /\ [Next]_vars => WakeInv'
  BY <1>1, DriverStep, ThreadStep, ContextStep DEF Next
<1>3. WakeInv => NoLostWakeUp
  BY DEF WakeInv, Noticed, SleepsStarted, NoLostWakeUp
<1>4. QED
  BY WakeInit, <1>2, <1>3, PTL DEF Spec

----------------------------------------------------------------------------
(* Arithmetic of counters that wrap around. *)

LEMMA ModRange ==
  ASSUME NEW a \in Int, NEW m \in Nat \ {0}
  PROVE  a % m \in 0 .. m - 1 /\ a % m \in Int
  OBVIOUS

LEMMA ModQuotient ==
  ASSUME NEW a \in Int, NEW m \in Nat \ {0}
  PROVE  \E q \in Int : a = q * m + (a % m)
<1>1. a \div m \in Int /\ a = (a \div m) * m + (a % m)
  OBVIOUS
<1> QED BY <1>1

\* Products, kept apart from remainders.
LEMMA Products ==
  ASSUME NEW p \in Int, NEW q \in Int, NEW m \in Int
  PROVE  /\ (p + q) * m = p * m + q * m /\ (p - q) * m = p * m - q * m
         /\ (-p) * m = -(p * m) /\ p * m \in Int /\ p + q \in Int /\ p - q \in Int
         /\ p * q \in Int /\ -p \in Int /\ (p * q) * m = p * (q * m)
  OBVIOUS

LEMMA MultipleGrows ==
  ASSUME NEW d \in Int, NEW m \in Nat \ {0}, d >= 1
  PROVE  d * m >= m
  OBVIOUS

LEMMA OneRemainder ==
  ASSUME NEW p \in Int, NEW q \in Int, NEW m \in Nat \ {0},
         NEW r \in 0 .. m - 1, NEW s \in 0 .. m - 1, p * m + r = q * m + s
  PROVE  r = s
<1>1. (p - q) * m = s - r /\ (q - p) * m = r - s
  OBVIOUS
<1>2. CASE p - q >= 1
  BY <1>1, <1>2, MultipleGrows
<1>3. CASE q - p >= 1
  BY <1>1, <1>3, MultipleGrows
<1>4. CASE p = q
  BY <1>4
<1> QED BY <1>2, <1>3, <1>4

LEMMA ModIs ==
  ASSUME NEW a \in Int, NEW m \in Nat \ {0}, NEW q \in Int, NEW r \in 0 .. m - 1,
         a = q * m + r
  PROVE  a % m = r
<1>1. PICK p \in Int : a = p * m + (a % m)
  BY ModQuotient
<1>2. a % m \in 0 .. m - 1
  BY ModRange
<1>3. \A s \in 0 .. m - 1 : p * m + s = q * m + r => s = r
  BY OneRemainder
<1>4. p * m + (a % m) = q * m + r
  BY ONLY <1>1, a = q * m + r
<1> QED BY ONLY <1>2, <1>3, <1>4

LEMMA ModSmall ==
  ASSUME NEW m \in Nat \ {0}, NEW r \in 0 .. m - 1
  PROVE  r % m = r
<1>1. r = 0 * m + r /\ r \in Int
  OBVIOUS
<1> QED BY <1>1, ModIs

LEMMA ModBelow ==
  ASSUME NEW m \in Nat \ {0}, NEW r \in Int, -m <= r, r < 0
  PROVE  r % m = r + m
<1>1. r + m \in 0 .. m - 1 /\ r = (-1) * m + (r + m)
  OBVIOUS
<1> QED BY <1>1, ModIs

LEMMA Congruent ==
  ASSUME NEW a \in Int, NEW b \in Int, NEW m \in Nat \ {0},
         \E k \in Int : a = b + k * m
  PROVE  a % m = b % m
<1>0. PICK k \in Int : a = b + k * m
  OBVIOUS
<1>1. PICK q \in Int : b = q * m + (b % m)
  BY ModQuotient
<1> DEFINE r == b % m
<1>2. r \in 0 .. m - 1 /\ b = q * m + r
  BY <1>1, ModRange
<1> HIDE DEF r
<1>3. a = (q + k) * m + r /\ q + k \in Int
  BY <1>0, <1>2, Products
<1>4. a % m = r
  BY <1>2, <1>3, ModIs
<1> QED BY <1>4 DEF r

LEMMA ModAdd ==
  ASSUME NEW x \in Int, NEW n \in Int, NEW m \in Nat \ {0}
  PROVE  ((x % m) + n) % m = (x + n) % m
<1>1. PICK q \in Int : x = q * m + (x % m)
  BY ModQuotient
<1> DEFINE r == x % m
<1>2. r \in Int /\ x = q * m + r
  BY <1>1, ModRange
<1> HIDE DEF r
<1>3. r + n = (x + n) + (-q) * m /\ -q \in Int
  BY <1>2, Products
<1> DEFINE a == r + n  b == x + n  k == -q
<1>4. a \in Int /\ b \in Int /\ k \in Int /\ a = b + k * m
  BY <1>2, <1>3
<1> HIDE DEF a, b, k
<1>5. a % m = b % m
  BY <1>4, Congruent
<1> QED BY <1>5 DEF r, a, b

\* The distance of two counters is that of the counts, if it is less than Wrap.
LEMMA ModDistance ==
  ASSUME NEW x \in Int, NEW y \in Int, NEW m \in Nat \ {0}, x - y \in 0 .. m - 1
  PROVE  ((x % m) - (y % m)) % m = x - y
<1>1. PICK q \in Int : x = q * m + (x % m)
  BY ModQuotient
<1>2. PICK p \in Int : y = p * m + (y % m)
  BY ModQuotient
<1> DEFINE r == x % m  s == y % m
<1>3. r \in Int /\ s \in Int /\ x = q * m + r /\ y = p * m + s
  BY <1>1, <1>2, ModRange
<1> HIDE DEF r, s
<1>4. r - s = (x - y) + (p - q) * m /\ p - q \in Int
  BY <1>3, Products
<1> DEFINE a == r - s  b == x - y  k == p - q
<1>5. a \in Int /\ b \in 0 .. m - 1 /\ b \in Int /\ k \in Int /\ a = b + k * m
  BY <1>3, <1>4
<1> HIDE DEF a, b, k
<1>6. a % m = b % m /\ b % m = b
  BY <1>5, Congruent, ModSmall
<1> QED BY <1>6 DEF r, s, a, b

\* An index into the buffer may be taken of the counter instead of the count.
LEMMA CounterMoves ==
  ASSUME NEW x \in Int, NEW m \in Nat \ {0}, NEW w \in Nat \ {0}, w % m = 0
  PROVE  \E j \in Int : x = (x % w) + j * m
<1>1. PICK q \in Int : x = q * w + (x % w)
  BY ModQuotient
<1>2. PICK k \in Int : w = k * m + (w % m)
  <2>1. w \in Int
    OBVIOUS
  <2> QED BY ONLY <2>1, m \in Nat \ {0}, ModQuotient
<1> DEFINE r == x % w
<1>3. r \in Int /\ x = q * w + r
  BY <1>1, ModRange
<1>4. k * m \in Int /\ w = k * m + 0
  BY ONLY <1>2, k \in Int, m \in Nat \ {0}, w % m = 0
<1>5. w = k * m
  BY ONLY <1>4
<1> HIDE DEF r
<1>6. (q * k) * m = q * w /\ q * k \in Int /\ q * w \in Int
  BY <1>5, Products
<1>7. x = r + (q * k) * m
  BY ONLY <1>3, <1>6, x \in Int
<1>8. \E j \in Int : x = r + j * m
  BY ONLY <1>6, <1>7
<1> QED BY <1>8 DEF r

LEMMA IndexAfter ==
  ASSUME NEW x \in Int, NEW i \in Int, NEW m \in Nat \ {0}, NEW w \in Nat \ {0},
         w % m = 0
  PROVE  ((x % w) + i) % m = (x + i) % m
<1>1. PICK j \in Int : x = (x % w) + j * m
  BY CounterMoves
<1> DEFINE r == x % w  a == x + i  b == r + i
<1>2. r \in Int /\ x = r + j * m
  BY <1>1, ModRange
<1> HIDE DEF r
<1>3. a \in Int /\ b \in Int /\ a = b + j * m
  BY ONLY <1>2, x \in Int, i \in Int
<1> HIDE DEF a, b
<1>4. \E h \in Int : a = b + h * m
  BY ONLY <1>3, j \in Int
<1>5. a \in Int /\ b \in Int
  BY ONLY <1>3
<1>6. a % m = b % m
  BY ONLY <1>4, <1>5, m \in Nat \ {0}, Congruent
<1> QED BY <1>6 DEF r, a, b

LEMMA IndexBefore ==
  ASSUME NEW x \in Int, NEW m \in Nat \ {0}, NEW w \in Nat \ {0}, w % m = 0
  PROVE  \A i \in Int : (i - (x % w)) % m = (i - x) % m
<1>1. PICK j \in Int : x = (x % w) + j * m
  BY CounterMoves
<1> DEFINE r == x % w
<1>2. r \in Int /\ x = r + j * m
  BY <1>1, ModRange
<1> HIDE DEF r
<1> SUFFICES ASSUME NEW i \in Int PROVE (i - r) % m = (i - x) % m
  BY DEF r
<1> DEFINE a == i - r  b == i - x
<1>3. a \in Int /\ b \in Int /\ a = b + j * m
  BY ONLY <1>2, x \in Int, i \in Int
<1> HIDE DEF a, b
<1>4. \E h \in Int : a = b + h * m
  BY ONLY <1>3, j \in Int
<1>5. a \in Int /\ b \in Int
  BY ONLY <1>3
<1>6. a % m = b % m
  BY ONLY <1>4, <1>5, m \in Nat \ {0}, Congruent
<1> QED BY <1>6 DEF a, b

----------------------------------------------------------------------------
(* The invariant. *)

\* Units that ran, that the thread has copied, that it has given back to the driver,
\* and that the driver has written.
Ran     == Len(executed)
Copied  == Ran + (IF thread \in {"submit", "execute"} THEN size ELSE 0)
Freed   == Ran - (IF thread = "store_head" THEN size ELSE 0)
Written == sent + (IF driver = "written" THEN batch ELSE 0)

Types ==
  /\ buffer \in [0 .. BufferSize - 1 -> Nat]
  /\ executed \in Seq(Nat) /\ Ran \in Nat
  /\ sent \in Nat /\ batch \in Nat /\ size \in Nat

\* The counters are these counts, as far as 32 bits go.
CountersMean ==
  tail = sent % Wrap /\ cur = Copied % Wrap /\ head = Freed % Wrap

\* The driver writes nothing over what the thread has not given back.
Room ==
  /\ 0 <= Freed /\ Copied <= sent /\ Written - Freed <= BufferSize
  /\ driver = "written" => batch >= 1

SizeFits ==
  /\ thread \in {"copy", "submit", "execute", "store_head"} => size >= 1
  /\ thread = "copy" => Ran + size <= sent

\* What is not copied yet is in the buffer ...
Stored == \A k \in Copied .. Written - 1 : buffer[k % BufferSize] = k + 1

\* ... and what is copied is what runs next.
CmdIsNext ==
  thread \in {"submit", "execute"} => cmd = [i \in 1 .. size |-> Ran + i]

Inv == Types /\ CountersMean /\ Room /\ SizeFits /\ Stored /\ CmdIsNext

LEMMA Sized ==
  /\ BufferSize \in Nat \ {0} /\ Wrap \in Nat \ {0} /\ BufferSize < Wrap
  /\ Wrap % BufferSize = 0 /\ Sizes \subseteq 1 .. BufferSize
  BY VkrRingAssumption

LEMMA Counts ==
  ASSUME Types
  PROVE  Ran \in Nat /\ Copied \in Nat /\ Freed \in Int /\ Written \in Nat /\ sent \in Nat
         /\ Freed <= Ran /\ Ran <= Copied /\ sent <= Written
  BY DEF Types, Copied, Freed, Written

LEMMA InvInit == Init => Inv
<1> SUFFICES ASSUME Init PROVE Inv
  OBVIOUS
<1>1. executed = <<>> /\ sent = 0 /\ size = 0 /\ batch = 0 /\ thread = "top" /\ driver = "ready"
      /\ tail = 0 /\ cur = 0 /\ head = 0
  BY DEF Init
<1>2. Ran = 0 /\ executed \in Seq(Nat)
  BY <1>1 DEF Ran
<1>3. Copied = 0 /\ Freed = 0 /\ Written = 0
  BY <1>1, <1>2 DEF Copied, Freed, Written
<1>4. Types
  BY <1>1, <1>2, Sized DEF Init, Types
<1>5. CountersMean
  <2>1. 0 \in 0 .. Wrap - 1
    BY Sized
  <2> QED BY <1>1, <1>3, <2>1, Sized, ModSmall DEF CountersMean
<1>6. Room /\ SizeFits /\ CmdIsNext
  BY <1>1, <1>2, <1>3, Sized DEF Room, SizeFits, CmdIsNext
<1>7. Stored
  BY <1>3 DEF Stored
<1> QED BY <1>4, <1>5, <1>6, <1>7 DEF Inv

\* A step that moves no data and stays on the same side of every count.
LEMMA QuietStep ==
  ASSUME Inv, UNCHANGED <<buffer, head, tail, cur, size, cmd, batch, sent, executed>>,
         driver' = "written" <=> driver = "written",
         thread' \in {"submit", "execute"} <=> thread \in {"submit", "execute"},
         thread' = "store_head" <=> thread = "store_head",
         thread' = "copy" => thread = "copy"
  PROVE  Inv'
<1>1. Ran' = Ran
  BY DEF Ran
<1>2. Copied' = Copied /\ Freed' = Freed /\ Written' = Written
  BY <1>1 DEF Copied, Freed, Written
<1>3. Types' /\ CountersMean' /\ Room' /\ Stored'
  BY <1>1, <1>2 DEF Inv, Types, CountersMean, Room, Stored
<1>4. SizeFits' /\ CmdIsNext'
  BY <1>1 DEF Inv, SizeFits, CmdIsNext
<1> QED BY <1>3, <1>4 DEF Inv

----------------------------------------------------------------------------
(* The steps that move data. *)

\* What the driver writes goes to places behind everything that is still to be copied.
LEMMA WriteStep == ASSUME Inv, NEW n \in Sizes, DriverWrite(n) PROVE Inv'
<1> USE Sized
<1>1. /\ n \in 1 .. BufferSize /\ Types /\ driver = "ready" /\ driver' = "written"
      /\ batch' = n /\ UNCHANGED <<head, tail, cur, size, cmd, thread, sent, executed>>
  BY DEF DriverWrite, local, Inv
<1>2. Ran' = Ran /\ Copied' = Copied /\ Freed' = Freed /\ Written = sent /\ Written' = sent + n
  BY <1>1 DEF Types, Ran, Copied, Freed, Written
<1>3. /\ Freed \in Nat /\ Copied \in Nat /\ sent \in Nat /\ Freed <= Copied /\ Copied <= sent
      /\ sent - Freed <= BufferSize
  BY <1>1, <1>2, Counts DEF Inv, Room
<1>4. Distance(tail, head) = sent - Freed
  <2>1. sent - Freed \in 0 .. Wrap - 1
    BY <1>3
  <2>2. ((sent % Wrap) - (Freed % Wrap)) % Wrap = sent - Freed
    <3>1. sent \in Int /\ Freed \in Int /\ Wrap \in Nat \ {0}
      BY <1>3
    <3> QED BY ONLY <2>1, <3>1, ModDistance
  <2> QED BY <2>2 DEF Distance, Inv, CountersMean
<1>5. sent + n - Freed <= BufferSize
  BY <1>1, <1>3, <1>4 DEF DriverWrite
<1>6. buffer' = [i \in 0 .. BufferSize - 1 |->
                   IF (i - tail) % BufferSize < n THEN sent + ((i - tail) % BufferSize) + 1
                   ELSE buffer[i]]
  BY DEF DriverWrite
<1>7. Stored'
  <2> SUFFICES ASSUME NEW k \in Copied' .. Written' - 1
               PROVE  buffer'[k % BufferSize] = k + 1
    BY DEF Stored
  <2>0. k \in Copied .. sent + n - 1
    BY <1>1, <1>2, <1>3
  <2>i. PICK i \in 0 .. BufferSize - 1 : i = k % BufferSize
    <3>1. k \in Int
      BY <1>1, <1>3, <2>0
    <3> QED BY <3>1, ModRange
  <2>1. i \in 0 .. BufferSize - 1 /\ i \in Int /\ k \in Int /\ -sent \in Int
    BY <1>1, <1>3, <2>0
  <2>2. (i - tail) % BufferSize = (k - sent) % BufferSize
    <3>1. (i - tail) % BufferSize = (i - sent) % BufferSize
      <4>1. /\ tail = sent % Wrap /\ tail \in Int
        BY <1>3, ModRange DEF Inv, CountersMean
      <4>2. /\ sent \in Int /\ Wrap \in Nat \ {0} /\ BufferSize \in Nat \ {0}
            /\ Wrap % BufferSize = 0
        BY <1>3
      <4>3. \A h \in Int : (h - (sent % Wrap)) % BufferSize = (h - sent) % BufferSize
        BY ONLY <4>2, IndexBefore
      <4> QED BY ONLY <2>1, <4>1, <4>3
    <3>2. (i + (-sent)) % BufferSize = (k + (-sent)) % BufferSize
      BY <2>i, <2>1, ModAdd
    <3>3. i + (-sent) = i - sent /\ k + (-sent) = k - sent
      BY <1>3, <2>1
    <3> QED BY <3>1, <3>2, <3>3
  <2>3. CASE k >= sent
    <3>1. k - sent \in 0 .. BufferSize - 1 /\ k - sent < n
      BY <1>1, <1>3, <2>0, <2>1, <2>3
    <3>2. (i - tail) % BufferSize = k - sent
      BY <2>2, <3>1, ModSmall
    <3>3. buffer'[i] = sent + (k - sent) + 1
      BY <1>6, <2>1, <3>1, <3>2
    <3> QED BY <1>3, <2>1, <2>i, <3>3
  <2>4. CASE k < sent
    <3>1. -BufferSize <= k - sent /\ k - sent < 0 /\ k - sent + BufferSize >= n /\ k - sent \in Int
      BY <1>1, <1>3, <1>5, <2>0, <2>1, <2>4
    <3>2. (i - tail) % BufferSize = k - sent + BufferSize
      BY <2>2, <3>1, ModBelow
    <3>3. ~((i - tail) % BufferSize < n)
      BY <1>1, <3>1, <3>2
    <3>4. buffer'[i] = buffer[i]
      BY <1>6, <2>1, <3>3
    <3>5. buffer[i] = k + 1
      <4>1. k \in Copied .. Written - 1
        BY <1>2, <1>3, <2>0, <2>1, <2>4
      <4> QED BY <2>i, <4>1 DEF Inv, Stored
    <3> QED BY <2>i, <3>4, <3>5
  <2> QED BY <1>3, <2>1, <2>3, <2>4
<1>8. Types'
  <2>1. \A i \in 0 .. BufferSize - 1 : (i - tail) % BufferSize \in Nat
    <3>1. tail \in Int
      BY <1>3, ModRange DEF Inv, CountersMean
    <3> QED BY <3>1, ModRange
  <2>2. \A i \in 0 .. BufferSize - 1 : sent + ((i - tail) % BufferSize) + 1 \in Nat
    BY <1>3, <2>1
  <2>3. buffer' \in [0 .. BufferSize - 1 -> Nat]
    BY <1>1, <1>6, <2>2 DEF Types
  <2> QED BY <1>1, <1>2, <2>3 DEF Types
<1>9. CountersMean' /\ Room'
  BY <1>1, <1>2, <1>3, <1>5 DEF Inv, CountersMean, Room
<1>10. SizeFits' /\ CmdIsNext'
  BY <1>1, <1>2 DEF Inv, SizeFits, CmdIsNext
<1> QED BY <1>7, <1>8, <1>9, <1>10 DEF Inv

LEMMA StoreTailStep == ASSUME Inv, DriverStoreTail PROVE Inv'
<1> USE Sized
<1>1. /\ Types /\ driver = "written" /\ driver' = "stored" /\ sent' = sent + batch
      /\ tail' = (tail + batch) % Wrap
      /\ UNCHANGED <<buffer, head, cur, size, cmd, thread, batch, executed>>
  BY DEF DriverStoreTail, local, Inv
<1>2. sent \in Nat /\ batch \in Nat /\ sent' \in Nat
  BY <1>1 DEF Types
<1>3. Ran' = Ran /\ Copied' = Copied /\ Freed' = Freed /\ Written' = Written
  BY <1>1, <1>2 DEF Ran, Copied, Freed, Written
<1>4. tail' = sent' % Wrap
  <2>1. ((sent % Wrap) + batch) % Wrap = (sent + batch) % Wrap
    <3>1. sent \in Int /\ batch \in Int /\ Wrap \in Nat \ {0}
      BY <1>2
    <3> QED BY ONLY <3>1, ModAdd
  <2> QED BY <1>1, <2>1 DEF Inv, CountersMean
<1>5. Types' /\ CountersMean' /\ Stored'
  BY <1>1, <1>2, <1>3, <1>4 DEF Inv, Types, CountersMean, Stored
<1>6. Room' /\ SizeFits' /\ CmdIsNext'
  <2>1. Copied \in Nat /\ Ran \in Nat /\ size \in Nat
    BY <1>1, Counts DEF Types
  <2> QED BY <1>1, <1>2, <1>3, <2>1 DEF Inv, Room, SizeFits, CmdIsNext
<1> QED BY <1>5, <1>6 DEF Inv

\* What LoadTail finds is never more than the buffer holds.
LEMMA LoadStep ==
  ASSUME Inv, LoadTail
  PROVE  Inv' /\ thread' # "exited" /\ size' \in 0 .. BufferSize
<1> USE Sized
<1>1. /\ Types /\ thread = "load" /\ size' = Distance(tail, cur)
      /\ thread' = IF size' = 0 THEN "top" ELSE IF size' > BufferSize THEN "exited" ELSE "copy"
      /\ UNCHANGED <<buffer, head, tail, cur, cmd, driver, batch, sent, executed>>
  BY DEF LoadTail, ThreadGoes, mem, drv, Inv
<1>2. Copied = Ran /\ Freed = Ran /\ Ran \in Nat /\ sent \in Nat /\ batch \in Nat
  BY <1>1 DEF Copied, Freed, Types
<1>3. sent - Ran \in 0 .. BufferSize
  <2>1. Written >= sent /\ Written \in Nat
    BY <1>1, Counts
  <2> QED BY <1>2, <2>1 DEF Inv, Room
<1>4. size' = sent - Ran
  <2>1. sent - Ran \in 0 .. Wrap - 1
    BY <1>2, <1>3
  <2>2. ((sent % Wrap) - (Ran % Wrap)) % Wrap = sent - Ran
    BY <1>2, <2>1, ModDistance
  <2> QED BY <1>1, <1>2, <2>2 DEF Distance, Inv, CountersMean
<1>5. thread' \in {"top", "copy"} /\ (thread' = "copy" => size' >= 1)
  BY <1>1, <1>2, <1>3, <1>4
<1>6. Ran' = Ran /\ Copied' = Copied /\ Freed' = Freed /\ Written' = Written
  BY <1>1, <1>2, <1>5 DEF Ran, Copied, Freed, Written
<1>7. Types' /\ CountersMean' /\ Room' /\ Stored'
  BY <1>1, <1>2, <1>3, <1>4, <1>6 DEF Inv, Types, CountersMean, Room, Stored
<1>8. SizeFits' /\ CmdIsNext'
  BY <1>1, <1>2, <1>3, <1>4, <1>5, <1>6 DEF SizeFits, CmdIsNext
<1>9. size' \in 0 .. BufferSize
  BY <1>3, <1>4
<1> QED BY <1>5, <1>7, <1>8, <1>9 DEF Inv

\* vkr_ring_read_buffer copies the units that come next.
LEMMA ReadStep == ASSUME Inv, ReadBuffer PROVE Inv'
<1> USE Sized
<1>1. /\ Types /\ thread = "copy" /\ thread' = "submit"
      /\ cmd' = [i \in 1 .. size |-> buffer[(cur + i - 1) % BufferSize]]
      /\ cur' = (cur + size) % Wrap
      /\ UNCHANGED <<buffer, head, tail, size, driver, batch, sent, executed>>
  BY DEF ReadBuffer, ThreadGoes, mem, drv, Inv
<1>2. /\ Copied = Ran /\ Freed = Ran /\ Ran \in Nat /\ sent \in Nat /\ size \in Nat
      /\ size >= 1 /\ Ran + size <= sent /\ cur = Ran % Wrap
  BY <1>1 DEF Copied, Freed, Types, Inv, SizeFits, CountersMean
<1>3. Written >= sent /\ Written \in Nat
  BY <1>1, Counts
<1>4. Ran' = Ran /\ Copied' = Ran + size /\ Freed' = Freed /\ Written' = Written
  BY <1>1, <1>2 DEF Ran, Copied, Freed, Written
<1>5. cur' = (Ran + size) % Wrap
  <2>1. Ran \in Int /\ size \in Int /\ Wrap \in Nat \ {0}
    BY <1>2
  <2>2. ((Ran % Wrap) + size) % Wrap = (Ran + size) % Wrap
    BY ONLY <2>1, ModAdd
  <2> QED BY <1>1, <1>2, <2>2
<1>6. ASSUME NEW i \in 1 .. size
      PROVE  buffer[(cur + i - 1) % BufferSize] = Ran + i
  <2> DEFINE j == i - 1  k == Ran + j
  <2>1. j \in Int /\ k \in Copied .. Written - 1 /\ k + 1 = Ran + i
    BY <1>2, <1>3
  <2>2. cur \in Int /\ cur + i - 1 = cur + j
    <3>1. cur \in Int
      BY <1>2, ModRange
    <3> QED BY <3>1
  <2>3. buffer[k % BufferSize] = k + 1
    BY <2>1 DEF Inv, Stored
  <2> HIDE DEF j
  <2>4. ((Ran % Wrap) + j) % BufferSize = (Ran + j) % BufferSize
    <3>1. /\ Ran \in Int /\ Wrap \in Nat \ {0} /\ BufferSize \in Nat \ {0}
          /\ Wrap % BufferSize = 0
      BY <1>2
    <3> QED BY ONLY <2>1, <3>1, IndexAfter, ZenonT(30)
  <2> QED BY <1>2, <2>1, <2>2, <2>3, <2>4
<1>7. cmd' = [i \in 1 .. size |-> Ran + i]
  BY <1>1, <1>6
<1>8. Types' /\ CountersMean'
  BY <1>1, <1>2, <1>4, <1>5 DEF Inv, Types, CountersMean
<1>9. Room' /\ Stored'
  <2>1. Room'
    BY <1>1, <1>2, <1>3, <1>4 DEF Inv, Room
  <2>2. \A k \in Copied' .. Written' - 1 : k \in Copied .. Written - 1
    BY <1>2, <1>3, <1>4
  <2>3. Stored'
    BY <1>1, <2>2 DEF Inv, Stored
  <2> QED BY <2>1, <2>3
<1>10. SizeFits' /\ CmdIsNext'
  BY <1>1, <1>2, <1>4, <1>7 DEF SizeFits, CmdIsNext
<1> QED BY <1>8, <1>9, <1>10 DEF Inv

\* The commands run, and they are the next ones.
LEMMA RunStep ==
  ASSUME Inv, SubmitRun
  PROVE  /\ Inv' /\ sent' = sent /\ size \in 1 .. (sent - Ran)
         /\ executed' = executed \o [i \in 1 .. size |-> Ran + i]
<1> USE Sized
<1>1. /\ Types /\ thread = "execute" /\ thread' = "store_head" /\ executed' = executed \o cmd
      /\ UNCHANGED <<buffer, head, tail, cur, size, cmd, driver, batch, sent>>
  BY DEF SubmitRun, ThreadGoes, mem, drv, Inv
<1>2. /\ Copied = Ran + size /\ Freed = Ran /\ Ran \in Nat /\ size \in Nat /\ size >= 1
      /\ cmd = [i \in 1 .. size |-> Ran + i] /\ Ran + size <= sent /\ sent \in Nat
  BY <1>1 DEF Copied, Freed, Types, Inv, SizeFits, CmdIsNext, Room
<1>3. cmd \in Seq(Nat) /\ Len(cmd) = size
  <2>1. \A i \in 1 .. size : Ran + i \in Nat
    BY <1>2
  <2> QED BY <1>2, <2>1, IsASeq
<1>4. executed' \in Seq(Nat) /\ Ran' = Ran + size
  BY <1>1, <1>3, ConcatProperties DEF Types, Ran
<1>5. Copied' = Copied /\ Freed' = Freed /\ Written' = Written
  BY <1>1, <1>2, <1>4 DEF Copied, Freed, Written
<1>6. Types' /\ CountersMean' /\ Room' /\ Stored'
  BY <1>1, <1>2, <1>4, <1>5 DEF Inv, Types, CountersMean, Room, Stored
<1>7. SizeFits' /\ CmdIsNext'
  BY <1>1, <1>2 DEF SizeFits, CmdIsNext
<1> QED BY <1>1, <1>2, <1>6, <1>7 DEF Inv

LEMMA StoreHeadStep == ASSUME Inv, StoreHead PROVE Inv'
<1>1. /\ Types /\ thread = "store_head" /\ thread' = "top" /\ head' = cur
      /\ UNCHANGED <<buffer, tail, cur, size, cmd, driver, batch, sent, executed>>
  BY DEF StoreHead, ThreadGoes, drv, Inv
<1>2. Ran' = Ran /\ Copied = Ran /\ Copied' = Ran /\ Freed' = Ran /\ Freed = Ran - size
      /\ Written' = Written
  BY <1>1 DEF Ran, Copied, Freed, Written, Types
<1>3. Types' /\ CountersMean' /\ Stored'
  BY <1>1, <1>2 DEF Inv, Types, CountersMean, Stored
<1>4. Room' /\ SizeFits' /\ CmdIsNext'
  <2>1. Ran \in Nat /\ size \in Nat /\ Written \in Nat
    BY <1>1, Counts DEF Types
  <2> QED BY <1>1, <1>2, <2>1, Sized DEF Inv, Room, SizeFits, CmdIsNext
<1> QED BY <1>3, <1>4 DEF Inv

\* Every other step is quiet.
LEMMA OtherSteps ==
  ASSUME Inv,
         \/ DriverLoadStatus \/ Look \/ IdleClear \/ IdleAnnounce \/ IdleTest \/ Busy \/ Sleep
         \/ Checked \/ SubmitLock \/ SpuriousWakeUp \/ Notify \/ Join \/ UNCHANGED vars
         \/ \E caller \in {"main", "none"} : Stop(caller)
  PROVE  Inv' /\ sent' = sent /\ executed' = executed
<1>1. /\ UNCHANGED <<buffer, head, tail, cur, size, cmd, batch, sent, executed>>
      /\ driver' = "written" <=> driver = "written"
      /\ thread' \in {"submit", "execute"} <=> thread \in {"submit", "execute"}
      /\ thread' = "store_head" <=> thread = "store_head"
      /\ thread' = "copy" => thread = "copy"
  <2> USE DEF mem, local, drv, ThreadGoes, Signaled
  <2>1. CASE DriverLoadStatus
    BY <2>1 DEF DriverLoadStatus
  <2>2. CASE Look
    BY <2>2 DEF Look
  <2>3. CASE IdleClear
    BY <2>3 DEF IdleClear
  <2>4. CASE IdleAnnounce
    BY <2>4 DEF IdleAnnounce
  <2>5. CASE IdleTest
    BY <2>5 DEF IdleTest
  <2>6. CASE Busy
    BY <2>6 DEF Busy
  <2>7. CASE Sleep
    BY <2>7 DEF Sleep
  <2>8. CASE Checked
    BY <2>8 DEF Checked
  <2>9. CASE SubmitLock
    BY <2>9 DEF SubmitLock
  <2>10. CASE SpuriousWakeUp
    BY <2>10 DEF SpuriousWakeUp
  <2>11. CASE Notify
    BY <2>11 DEF Notify
  <2>12. CASE Join
    BY <2>12 DEF Join
  <2>13. CASE UNCHANGED vars
    BY <2>13 DEF vars
  <2>14. CASE \E caller \in {"main", "none"} : Stop(caller)
    BY <2>14 DEF Stop
  <2> QED BY <2>1, <2>2, <2>3, <2>4, <2>5, <2>6, <2>7, <2>8, <2>9, <2>10, <2>11, <2>12,
             <2>13, <2>14
<1> QED BY <1>1, QuietStep

----------------------------------------------------------------------------
\* What a step does to the abstract queue.
LEMMA StepImplements ==
  Inv /\ [Next]_vars => Inv' /\ [Queue!Next]_<<sent, executed>>
<1> SUFFICES ASSUME Inv, [Next]_vars PROVE Inv' /\ [Queue!Next]_<<sent, executed>>
  OBVIOUS
<1>1. CASE \E n \in Sizes : DriverWrite(n)
  <2>1. sent' = sent /\ executed' = executed
    BY <1>1 DEF DriverWrite
  <2> QED BY <1>1, <2>1, WriteStep
<1>2. CASE DriverStoreTail
  <2>1. Inv'
    BY <1>2, StoreTailStep
  <2>2. batch \in Nat /\ batch >= 1 /\ sent \in Nat /\ sent' = sent + batch /\ executed' = executed
    BY <1>2 DEF DriverStoreTail, Inv, Types, Room
  <2>3. batch \in 1 .. (sent' - sent) /\ Queue!Submit(batch)
    BY <2>2 DEF Queue!Submit
  <2> QED BY <2>1, <2>3 DEF Queue!Next
<1>3. CASE SubmitRun
  <2>1. /\ Inv' /\ sent' = sent /\ size \in 1 .. (sent - Ran)
        /\ executed' = executed \o [i \in 1 .. size |-> Ran + i]
    BY <1>3, RunStep
  <2>2. Ran \in Nat /\ sent \in Nat
    BY DEF Inv, Types
  <2>3. size \in 1 .. (sent - Len(executed)) /\ Queue!Execute(size)
    BY <2>1, <2>2 DEF Queue!Execute, Ran
  <2> QED BY <2>1, <2>3 DEF Queue!Next
<1>4. CASE LoadTail
  BY <1>4, LoadStep DEF LoadTail, drv
<1>5. CASE ReadBuffer
  BY <1>5, ReadStep DEF ReadBuffer, drv
<1>6. CASE StoreHead
  BY <1>6, StoreHeadStep DEF StoreHead, drv
<1>7. CASE \/ DriverLoadStatus \/ Look \/ IdleClear \/ IdleAnnounce \/ IdleTest \/ Busy \/ Sleep
           \/ Checked \/ SubmitLock \/ SpuriousWakeUp \/ Notify \/ Join \/ UNCHANGED vars
           \/ \E caller \in {"main", "none"} : Stop(caller)
  BY <1>7, OtherSteps
<1> QED BY <1>1, <1>2, <1>3, <1>4, <1>5, <1>6, <1>7 DEF Next, Driver, Thread

\* The ring of Venus is a queue of commands: whatever the driver writes and however the
\* counters wrap around, units run in order, once, and as they were submitted
\* (vkr_ring_thread, vkr_ring_read_buffer).
THEOREM DeliveryHolds == Spec => Delivery
<1>1. Init => Queue!Init
  BY DEF Init, Queue!Init
<1> QED BY <1>1, InvInit, StepImplements, PTL DEF Spec, Delivery, Queue!Spec

----------------------------------------------------------------------------
(* Types. *)

\* The counters are numbers of 32 bits because they are what CountersMean says.
LEMMA CountersTyped == Inv => head \in Counters /\ tail \in Counters /\ cur \in Counters
<1> SUFFICES ASSUME Inv PROVE head \in Counters /\ tail \in Counters /\ cur \in Counters
  OBVIOUS
<1>1. sent \in Int /\ Copied \in Int /\ Freed \in Int /\ Wrap \in Nat \ {0}
  BY Counts, Sized DEF Inv
<1> QED BY <1>1, ModRange DEF Inv, CountersMean, Counters

LEMMA TypeInit == Init => TypeOK
<1> SUFFICES ASSUME Init PROVE TypeOK
  OBVIOUS
<1>1. status \in BOOLEAN /\ started \in BOOLEAN /\ pending \in BOOLEAN
  BY Zenon DEF Init
<1>2. head \in Counters /\ tail \in Counters /\ cur \in Counters
  BY InvInit, CountersTyped
<1>3. /\ buffer \in [0 .. BufferSize - 1 -> Nat] /\ size \in 0 .. BufferSize
      /\ cmd \in Seq(Nat) /\ executed \in Seq(Nat) /\ batch \in Nat /\ notes \in Nat /\ sent \in Nat
  BY Sized DEF Init
<1> QED BY <1>1, <1>2, <1>3 DEF Init, TypeOK

\* What the thread copies are numbers of units.
LEMMA ReadTyped == ASSUME Inv, ReadBuffer PROVE cmd' \in Seq(Nat)
<1>1. cmd' = [i \in 1 .. size |-> buffer[(cur + i - 1) % BufferSize]] /\ size \in Nat
      /\ buffer \in [0 .. BufferSize - 1 -> Nat]
  BY DEF ReadBuffer, Inv, Types
<1>2. cur \in Int
  BY CountersTyped, Sized DEF Counters
<1>3. ASSUME NEW i \in 1 .. size PROVE buffer[(cur + i - 1) % BufferSize] \in Nat
  <2>1. cur + i - 1 \in Int
    BY <1>2
  <2>2. (cur + i - 1) % BufferSize \in 0 .. BufferSize - 1
    BY <2>1, Sized, ModRange
  <2> QED BY <1>1, <2>2
<1> QED BY <1>1, <1>3, IsASeq

LEMMA TypeStep == Inv /\ TypeOK /\ [Next]_vars => TypeOK'
<1> SUFFICES ASSUME Inv, TypeOK, [Next]_vars PROVE TypeOK'
  OBVIOUS
<1>1. Inv' /\ head' \in Counters /\ tail' \in Counters /\ cur' \in Counters
  <2>1. Inv'
    BY StepImplements
  <2>2. (Inv => head \in Counters /\ tail \in Counters /\ cur \in Counters)'
    BY CountersTyped, PTL
  <2> QED BY <2>1, <2>2
<1>2. /\ buffer' \in [0 .. BufferSize - 1 -> Nat] /\ executed' \in Seq(Nat)
      /\ sent' \in Nat /\ batch' \in Nat
  BY <1>1 DEF Inv, Types
<1>3. size' \in 0 .. BufferSize
  <2>1. CASE LoadTail
    BY <2>1, LoadStep
  <2>2. CASE ~LoadTail
    <3>1. size' = size
      BY <2>2 DEF Next, Driver, Thread, DriverWrite, DriverStoreTail, DriverLoadStatus, Look,
         IdleClear, IdleAnnounce, IdleTest, Busy, Sleep, Checked, ReadBuffer, SubmitLock,
         SubmitRun, StoreHead, SpuriousWakeUp, Notify, Join, Stop, vars, local
    <3> QED BY <3>1 DEF TypeOK
  <2> QED BY <2>1, <2>2
<1>4. cmd' \in Seq(Nat)
  <2>1. CASE ReadBuffer
    BY <2>1, ReadTyped
  <2>2. CASE ~ReadBuffer
    <3>1. cmd' = cmd
      BY <2>2 DEF Next, Driver, Thread, DriverWrite, DriverStoreTail, DriverLoadStatus, Look,
         IdleClear, IdleAnnounce, IdleTest, Busy, Sleep, Checked, LoadTail, SubmitLock,
         SubmitRun, StoreHead, SpuriousWakeUp, Notify, Join, Stop, vars, local
    <3> QED BY <3>1 DEF TypeOK
  <2> QED BY <2>1, <2>2
<1>5. /\ status' \in BOOLEAN /\ started' \in BOOLEAN /\ pending' \in BOOLEAN
  BY DEF TypeOK, Next, Driver, Thread, DriverWrite, DriverStoreTail, DriverLoadStatus, Look,
     IdleClear, IdleAnnounce, IdleTest, Busy, Sleep, Checked, LoadTail, ReadBuffer, SubmitLock,
     SubmitRun, StoreHead, SpuriousWakeUp, Notify, Join, Stop, vars, mem
<1>6. /\ thread' \in {"top", "announce", "test", "busy", "lock", "asleep", "woken", "checked",
                      "load", "copy", "submit", "execute", "store_head", "exited"}
      /\ driver' \in {"ready", "written", "stored"} /\ notes' \in Nat
      /\ holder' \in {"none", "ring", "main"} /\ main' \in {"running", "joining", "ended"}
  BY DEF TypeOK, Next, Driver, Thread, DriverWrite, DriverStoreTail, DriverLoadStatus, Look,
     IdleClear, IdleAnnounce, IdleTest, Busy, Sleep, Checked, LoadTail, ReadBuffer, SubmitLock,
     SubmitRun, StoreHead, SpuriousWakeUp, Notify, Join, Stop, vars, local, drv, ThreadGoes,
     Signaled
<1> QED BY <1>1, <1>2, <1>3, <1>4, <1>5, <1>6 DEF TypeOK

\* Type correctness; the thread never finds more commands than the buffer holds
\* (the exit of vkr_ring_thread for an invalid tail).
THEOREM TypesAreKept == Spec => []TypeOK
<1>1. Inv /\ TypeOK /\ [Next]_vars => (Inv /\ TypeOK)'
  BY StepImplements, TypeStep
<1> QED BY <1>1, InvInit, TypeInit, PTL DEF Spec
=============================================================================
