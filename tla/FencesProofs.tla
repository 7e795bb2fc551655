---------------------------- MODULE FencesProofs ----------------------------
(***************************************************************************)
(* Proofs about Fences for all contexts and any number of fences: every    *)
(* safety property of the module, and that it implements FenceTimeline.    *)
(* The argument: fences move through the lists in the order in which they  *)
(* were created (InOrder), and one that is on no list was merged into a    *)
(* later one of its context that is about to be retired (NoneLost).        *)
(***************************************************************************)
EXTENDS Fences, FiniteSetTheorems, WellFoundedInduction, TLAPS

-----------------------------------------------------------------------------
(* What is kept of a list                                                   *)

\* A set of numbers that is not empty has a least one.
LEMMA Least ==
  ASSUME NEW T \in SUBSET Nat, T # {}
  PROVE  \E m \in T : \A n \in T : m <= n
<1>1. PICK m \in T : \A n \in T : ~ (<<n, m>> \in OpToRel(<, Nat))
  BY NatLessThanWellFounded, WFMin
<1>2. \A n \in T : ~(n < m)
  BY <1>1, Zenon DEF OpToRel
<1> QED BY <1>2

\* The fences of a list are in the order of their creation.
Increasing(s) == \A i, j \in DOMAIN s : i < j => s[i] < s[j]

\* Positions of S are numbered in their order, without gaps.
LEMMA Ranks ==
  ASSUME NEW n \in Nat, NEW S \in SUBSET (1 .. n)
  PROVE  /\ Cardinality(S) \in Nat
         /\ \A k \in 1 .. Cardinality(S) : \E i \in S : Cardinality({j \in S : j <= i}) = k
         /\ \A i \in S : Cardinality({j \in S : j <= i}) \in 1 .. Cardinality(S)
         /\ \A i, h \in S : Cardinality({j \in S : j <= i}) < Cardinality({j \in S : j <= h}) <=> i < h
<1> DEFINE Low(i) == {j \in S : j <= i}
           rank == [i \in S |-> Cardinality(Low(i))]
<1>1. IsFiniteSet(S) /\ Cardinality(S) \in Nat
  <2>1. IsFiniteSet(1 .. n)
    BY FS_Interval
  <2>2. IsFiniteSet(S)
    BY <2>1, FS_Subset
  <2> QED BY <2>2, FS_CardinalityType
<1>2. \A i \in S : IsFiniteSet(Low(i)) /\ Cardinality(Low(i)) \in Nat /\ Cardinality(Low(i)) <= Cardinality(S)
  BY <1>1, FS_Subset, FS_CardinalityType
<1>3. \A i \in S : Cardinality(Low(i)) # 0
  <2> SUFFICES ASSUME NEW i \in S PROVE Cardinality(Low(i)) # 0
    OBVIOUS
  <2>1. i \in Low(i)
    <3>1. i \in Nat
      OBVIOUS
    <3> QED BY <3>1
  <2> QED BY <1>2, <2>1, FS_EmptySet
<1>4. \A i, h \in S : i < h => Cardinality(Low(i)) < Cardinality(Low(h))
  <2> SUFFICES ASSUME NEW i \in S, NEW h \in S, i < h
               PROVE  Cardinality(Low(i)) < Cardinality(Low(h))
    OBVIOUS
  <2>1. Low(i) \in SUBSET Low(h) /\ h \in Low(h) /\ h \notin Low(i)
    <3>1. S \in SUBSET Nat
      OBVIOUS
    <3>2. \A j \in S : j <= i => j <= h
      BY <3>1
    <3>3. h <= h /\ ~(h <= i)
      BY <3>1
    <3> QED BY <3>2, <3>3
  <2>2. Cardinality(Low(i)) <= Cardinality(Low(h)) /\ Cardinality(Low(h)) # Cardinality(Low(i))
    <3> HIDE DEF Low
    <3> QED BY <1>2, <2>1, FS_Subset
  <2> QED BY <1>2, <2>2
<1>5. rank \in Injection(S, 1 .. Cardinality(S))
  <2>1. \A i \in S : Cardinality(Low(i)) \in 1 .. Cardinality(S)
    BY <1>1, <1>2, <1>3
  <2>2. \A i, h \in S : rank[i] = rank[h] => i = h
    <3> SUFFICES ASSUME NEW i \in S, NEW h \in S, rank[i] = rank[h] PROVE i = h
      OBVIOUS
    <3>1. ~(i < h) /\ ~(h < i)
      BY <1>2, <1>4
    <3> QED BY <3>1
  <2>3. rank \in [S -> 1 .. Cardinality(S)]
    BY <2>1
  <2> HIDE DEF rank, Low
  <2> QED BY <2>2, <2>3 DEF Injection, IsInjective
<1>6. rank \in Surjection(S, 1 .. Cardinality(S))
  <2>1. IsFiniteSet(1 .. Cardinality(S)) /\ Cardinality(1 .. Cardinality(S)) = Cardinality(S)
    BY <1>1, FS_Interval
  <2> HIDE DEF rank
  <2> QED BY <1>5, <2>1, FS_Injection
<1>7. \A k \in 1 .. Cardinality(S) : \E i \in S : Cardinality({j \in S : j <= i}) = k
  <2>1. \A k \in 1 .. Cardinality(S) : \E i \in S : rank[i] = k
    <3> HIDE DEF rank
    <3> QED BY <1>6 DEF Surjection
  <2> QED BY <2>1
<1>8. \A i, h \in S : Cardinality(Low(i)) < Cardinality(Low(h)) <=> i < h
  <2> SUFFICES ASSUME NEW i \in S, NEW h \in S
               PROVE  Cardinality(Low(i)) < Cardinality(Low(h)) <=> i < h
    OBVIOUS
  <2>1. CASE i < h
    BY <2>1, <1>4
  <2>2. CASE i = h
    BY <2>2, <1>2
  <2>3. CASE h < i
    <3>1. Cardinality(Low(h)) < Cardinality(Low(i))
      BY <2>3, <1>4
    <3> QED BY <2>3, <3>1, <1>2
  <2> QED BY <2>1, <2>2, <2>3
<1>9. \A i \in S : Cardinality(Low(i)) \in 1 .. Cardinality(S)
  BY <1>1, <1>2, <1>3
<1> QED BY <1>1, <1>7, <1>8, <1>9

\* What is kept of a list is what was at the positions, in the order of the list.
LEMMA KeptIs ==
  ASSUME NEW D, NEW list \in Seq(D), NEW S \in SUBSET DOMAIN list
  PROVE  /\ Kept(list, S) \in Seq(D)
         /\ Range(Kept(list, S)) = {list[i] : i \in S}
         /\ Increasing(list) => Increasing(Kept(list, S))
<1> DEFINE Rank(i) == Cardinality({j \in S : j <= i})
           At(k) == CHOOSE i \in S : Rank(i) = k
           n == Cardinality(S)
<1>1. S \in SUBSET (1 .. Len(list)) /\ Len(list) \in Nat
  OBVIOUS
<1>2. /\ n \in Nat /\ \A k \in 1 .. n : \E i \in S : Rank(i) = k
      /\ \A i \in S : Rank(i) \in 1 .. n
      /\ \A i, h \in S : Rank(i) < Rank(h) <=> i < h
  BY <1>1, Ranks
<1>3. Kept(list, S) = [k \in 1 .. n |-> list[At(k)]]
  BY DEF Kept
<1> HIDE DEF Rank, n
<1>4. \A k \in 1 .. n : At(k) \in S /\ Rank(At(k)) = k
  BY <1>2
<1>5. \A i \in S : At(Rank(i)) = i
  <2> SUFFICES ASSUME NEW i \in S PROVE At(Rank(i)) = i
    OBVIOUS
  <2>1. At(Rank(i)) \in S /\ Rank(At(Rank(i))) = Rank(i)
    BY <1>2, <1>4
  <2> DEFINE h == At(Rank(i))
  <2>2. ~(Rank(h) < Rank(i)) /\ ~(Rank(i) < Rank(h))
    BY <1>2, <2>1
  <2>3. ~(h < i) /\ ~(i < h)
    BY <2>1, <2>2, <1>2
  <2> QED BY <2>1, <2>3, <1>1
<1> HIDE DEF At
<1>6. \A k \in 1 .. n : list[At(k)] \in D
  BY <1>1, <1>4
<1>7. Kept(list, S) \in Seq(D)
  BY <1>2, <1>3, <1>6
<1>8. Range(Kept(list, S)) = {list[i] : i \in S}
  BY <1>2, <1>3, <1>4, <1>5 DEF Range
<1>9. ASSUME Increasing(list) PROVE Increasing(Kept(list, S))
  <2> SUFFICES ASSUME NEW k \in 1 .. n, NEW m \in 1 .. n, k < m
               PROVE  list[At(k)] < list[At(m)]
    BY <1>3 DEF Increasing
  <2>1. At(k) < At(m) /\ At(k) \in DOMAIN list /\ At(m) \in DOMAIN list
    BY <1>2, <1>4
  <2> QED BY <1>9, <2>1 DEF Increasing
<1> QED BY <1>7, <1>8, <1>9

\* A list to which something is appended, in order if it comes last.
LEMMA Appended ==
  ASSUME NEW D, NEW s \in Seq(D), NEW x
  PROVE  /\ Range(Append(s, x)) = Range(s) \union {x}
         /\ D \in SUBSET Nat /\ x \in Nat /\ Increasing(s) /\ (\A y \in Range(s) : y < x)
              => Increasing(Append(s, x))
<1> DEFINE t == Append(s, x)
<1>1. /\ DOMAIN t = 1 .. Len(s) + 1 /\ Len(s) \in Nat /\ t[Len(s) + 1] = x
      /\ DOMAIN s = 1 .. Len(s) /\ \A i \in DOMAIN s : t[i] = s[i]
  OBVIOUS
<1>2. \A i \in DOMAIN t : i \in DOMAIN s \/ i = Len(s) + 1
  BY <1>1
<1> HIDE DEF t
<1>3. Range(t) = Range(s) \union {x}
  BY <1>1, <1>2 DEF Range
<1>4. ASSUME Increasing(s), \A y \in Range(s) : y < x PROVE Increasing(t)
  <2> SUFFICES ASSUME NEW i \in DOMAIN t, NEW j \in DOMAIN t, i < j PROVE t[i] < t[j]
    BY DEF Increasing
  <2>1. i \in DOMAIN s
    BY <1>1
  <2>2. s[i] < x
    BY <2>1, <1>4 DEF Range
  <2> QED BY <1>1, <1>2, <1>4, <2>1, <2>2 DEF Increasing
<1> QED BY <1>3, <1>4 DEF t

\* The positions from a + 1 to b.
LEMMA Part ==
  ASSUME NEW D, NEW s \in Seq(D), NEW a \in Nat, NEW b \in Nat, b <= Len(s), a <= b
  PROVE  /\ SubSeq(s, a + 1, b) \in Seq(D) /\ Len(SubSeq(s, a + 1, b)) = b - a
         /\ \A i \in 1 .. b - a : SubSeq(s, a + 1, b)[i] = s[a + i]
         /\ Range(SubSeq(s, a + 1, b)) = {s[i] : i \in a + 1 .. b}
         /\ Increasing(s) => Increasing(SubSeq(s, a + 1, b))
<1> DEFINE t == SubSeq(s, a + 1, b)
<1>1. Len(s) \in Nat /\ DOMAIN s = 1 .. Len(s)
  OBVIOUS
<1>2. \A i \in a + 1 .. b : s[i] \in D
  BY <1>1
<1>3. t = [i \in 1 .. b - a |-> s[a + i]]
  BY <1>1
<1>4. \A i \in 1 .. b - a : a + i \in a + 1 .. b /\ a + i \in DOMAIN s
  BY <1>1
<1>5. t \in Seq(D)
  BY <1>2, <1>3, <1>4
<1>6. DOMAIN t = 1 .. b - a /\ Len(t) = b - a
  BY <1>3
<1> HIDE DEF t
<1>7. \A i \in a + 1 .. b : i - a \in 1 .. b - a /\ a + (i - a) = i
  OBVIOUS
<1>8. Range(t) = {s[i] : i \in a + 1 .. b}
  BY <1>3, <1>4, <1>6, <1>7 DEF Range
<1>9. ASSUME Increasing(s) PROVE Increasing(t)
  <2> SUFFICES ASSUME NEW i \in 1 .. b - a, NEW j \in 1 .. b - a, i < j PROVE s[a + i] < s[a + j]
    BY <1>3, <1>6 DEF Increasing
  <2> QED BY <1>4, <1>9 DEF Increasing
<1> QED BY <1>3, <1>5, <1>6, <1>8, <1>9 DEF t

\* A list without its first element.
LEMMA Tails ==
  ASSUME NEW D, NEW s \in Seq(D), s # <<>>
  PROVE  /\ Tail(s) \in Seq(D) /\ Head(s) \in D
         /\ Range(s) = {Head(s)} \union Range(Tail(s))
         /\ Increasing(s) => Increasing(Tail(s)) /\ \A x \in Range(Tail(s)) : Head(s) < x
<1>1. Len(s) \in Nat \ {0} /\ DOMAIN s = 1 .. Len(s) /\ Head(s) = s[1] /\ s[1] \in D
  OBVIOUS
<1>2. /\ Tail(s) \in Seq(D) /\ DOMAIN Tail(s) = 1 .. Len(s) - 1
      /\ \A i \in 1 .. Len(s) - 1 : Tail(s)[i] = s[i + 1]
  OBVIOUS
<1>3. \A i \in 1 .. Len(s) : i = 1 \/ (i - 1 \in 1 .. Len(s) - 1 /\ (i - 1) + 1 = i)
  BY <1>1
<1>4. \A i \in 1 .. Len(s) - 1 : i + 1 \in 1 .. Len(s) /\ 1 \in 1 .. Len(s) /\ 1 < i + 1
  BY <1>1
<1> DEFINE t == Tail(s)
<1> HIDE DEF t
<1>5. Range(s) = {s[1]} \union Range(t)
  <2>1. \A x \in Range(s) : x = s[1] \/ x \in Range(t)
    <3> SUFFICES ASSUME NEW i \in 1 .. Len(s), i # 1 PROVE s[i] \in Range(t)
      BY <1>1 DEF Range
    <3>1. i - 1 \in 1 .. Len(s) - 1 /\ t[i - 1] = s[i]
      BY <1>2, <1>3 DEF t
    <3> QED BY <1>2, <3>1 DEF Range, t
  <2>2. s[1] \in Range(s)
    BY <1>1 DEF Range
  <2>3. \A x \in Range(t) : x \in Range(s)
    BY <1>1, <1>2, <1>4 DEF Range, t
  <2> QED BY <2>1, <2>2, <2>3
<1>6. ASSUME Increasing(s) PROVE Increasing(t) /\ \A x \in Range(t) : s[1] < x
  <2>1. Increasing(t)
    <3> SUFFICES ASSUME NEW i \in 1 .. Len(s) - 1, NEW j \in 1 .. Len(s) - 1, i < j
                 PROVE  s[i + 1] < s[j + 1]
      BY <1>2 DEF Increasing, t
    <3>1. i + 1 < j + 1
      OBVIOUS
    <3> QED BY <1>1, <1>4, <1>6, <3>1 DEF Increasing
  <2>2. \A i \in 1 .. Len(s) - 1 : s[1] < s[i + 1]
    BY <1>1, <1>4, <1>6 DEF Increasing
  <2> QED BY <1>2, <2>1, <2>2 DEF Range, t
<1> QED BY <1>1, <1>2, <1>5, <1>6 DEF t

-----------------------------------------------------------------------------
(* The invariant                                                            *)

\* The fence the sync thread waits on, and all fences that nobody has taken for retirement.
Waited == {waiting} \ {0}
Listed == Range(waitList) \union Range(fenceList) \union Waited

\* TypeOK, with ctx as a sequence.
Types ==
  /\ fence \in Seq([ctx : Contexts, mergeable : BOOLEAN]) /\ Len(fence) <= MaxFences
  /\ ctx \in Seq(Contexts \union {NoContext}) /\ Len(ctx) = Len(fence)
  /\ passed \subseteq Created /\ gone \subseteq Created
  /\ waitList \in Seq(Created) /\ fenceList \in Seq(Created) /\ retired \in Seq(Created)
  /\ calls \in Seq(Created)
  /\ waiting \in Created \union {0} /\ stor \in Created \union {0}
  /\ readable \in BOOLEAN /\ stop \in BOOLEAN /\ syncThread \in BOOLEAN
  /\ thread \in {"top", "cond", "waiting", "notify", "next", "done", "crashed"}
  /\ main \in {"idle", "flushed", "retiring", "joining"}
  /\ live \subseteq Contexts

Below(A, B) == \A f \in A, g \in B : f < g

\* Fences move through the lists in the order of their creation.
InOrder ==
  /\ Increasing(waitList) /\ Increasing(fenceList) /\ Increasing(retired)
  /\ Below(Range(calls), Range(retired) \union Listed)
  /\ Below(Range(retired), Listed)
  /\ Below(Range(fenceList), Waited \union Range(waitList))
  /\ Below(Waited, Range(waitList))
  /\ stor \in Range(waitList) => \A f \in Range(waitList) : stor <= f

\* What the lists hold at each place of the two threads.
Modes ==
  /\ ~syncThread => thread = "done" /\ waitList = <<>>
  /\ waiting # 0 => thread = "waiting"
  /\ main # "retiring" => retired = <<>>
  /\ main = "flushed" => syncThread

\* A fence has its context unless it is gone, and what is gone but listed has none.
Contexted ==
  /\ \A f \in Created \ gone : ctx[f] = fence[f].ctx
  /\ \A f \in Listed : f \in gone => ctx[f] = NoContext
  /\ \A f \in Range(retired) : f \notin gone
  /\ \A f \in Listed \union Range(retired) : ctx[f] \in live \union {NoContext}

\* What is retired, or reported by the sync thread, the GPU has passed.
AllPassed ==
  /\ Range(retired) \subseteq passed
  /\ syncThread => Range(fenceList) \subseteq passed

\* An owed fence is listed or about to be retired, or a later one of its context is,
\* which it was merged into.
Merged(f) ==
  f \in passed /\ fence[f].mergeable
    /\ \E g \in Range(retired) : g > f /\ fence[g].ctx = fence[f].ctx

NoneLost == \A f \in Owed : f \in Listed \union Range(retired) \/ Merged(f)

IInv == Types /\ InOrder /\ Modes /\ Contexted /\ AllPassed /\ NoneLost

\* The invariant holds at first.
LEMMA Initially == Init => IInv
<1> SUFFICES ASSUME Init PROVE IInv
  OBVIOUS
<1>1. Types
  <2>1. Len(fence) = 0 /\ Len(ctx) = 0 /\ 0 <= MaxFences
    BY FencesAssumption DEF Init
  <2>2. /\ fence \in Seq([ctx : Contexts, mergeable : BOOLEAN]) /\ ctx \in Seq(Contexts \union {NoContext})
        /\ waitList \in Seq(Created) /\ fenceList \in Seq(Created) /\ retired \in Seq(Created)
        /\ calls \in Seq(Created)
    BY DEF Init
  <2>3. thread \in {"top", "cond", "waiting", "notify", "next", "done", "crashed"}
    BY DEF Init
  <2> QED BY <2>1, <2>2, <2>3 DEF Init, Types
<1>2. Created = {} /\ Range(waitList) = {} /\ Range(fenceList) = {} /\ Range(retired) = {}
      /\ Range(calls) = {} /\ Waited = {}
  BY DEF Init, Created, Range, Waited
<1>3. Increasing(<<>>)
  BY DEF Increasing
<1>4. InOrder
  BY <1>2, <1>3 DEF Init, InOrder, Below
<1>5. Modes /\ Contexted /\ AllPassed /\ NoneLost
  BY <1>2 DEF Init, Modes, Contexted, AllPassed, NoneLost, Listed, Owed
<1> QED BY <1>1, <1>4, <1>5 DEF IInv

\* Only the creation of a fence makes one.
LEMMA SameFences ==
  ASSUME Types, UNCHANGED fence PROVE Created' = Created /\ Created \in SUBSET Nat /\ 0 \notin Created
  BY DEF Types, Created

\* Taking a fence off the wait list leaves lists of fences.
LEMMA TakeTypes ==
  ASSUME Types, NEW i \in DOMAIN waitList, TakeFence(i)
  PROVE  waitList' \in Seq(Created) /\ waiting' \in Created /\ stor' \in Created \union {0}
<1> USE DEF Types, TakeFence
<1>1. DOMAIN waitList = 1 .. Len(waitList) /\ Len(waitList) \in Nat \ {0} /\ Len(waitList) - 1 \in Nat
  OBVIOUS
<1>2. \A k \in DOMAIN waitList : waitList[k] \in Created
  OBVIOUS
<1>3. i < Len(waitList) => i + 1 \in DOMAIN waitList
  BY <1>1
<1>4. \A k \in 1 .. Len(waitList) - 1 : (IF k < i THEN k ELSE k + 1) \in DOMAIN waitList
  BY <1>1
<1>5. \A k \in 1 .. Len(waitList) - 1 : waitList[IF k < i THEN k ELSE k + 1] \in Created
  BY <1>2, <1>4
<1>6. waitList' \in Seq(Created)
  BY <1>1, <1>5
<1> QED BY <1>2, <1>3, <1>6

\* What is kept of a list is a list of fences.
LEMMA KeptTypes ==
  ASSUME Types, NEW list \in Seq(Created), NEW S \in SUBSET DOMAIN list
  PROVE  Kept(list, S) \in Seq(Created)
  BY KeptIs

\* A new fence has the next number and changes nothing of the others.
LEMMA CreateTypes ==
  ASSUME Types, NEW c \in Contexts, NEW mergeable \in BOOLEAN, CreateFence(c, mergeable)
  PROVE  /\ Types' /\ Len(fence') = Len(fence) + 1 /\ Created' = Created \union {Len(fence) + 1}
         /\ fence'[Len(fence) + 1] = [ctx |-> c, mergeable |-> mergeable]
         /\ ctx'[Len(fence) + 1] = c
         /\ \A f \in Created : fence'[f] = fence[f] /\ ctx'[f] = ctx[f]
         /\ \A f \in Created : f < Len(fence) + 1
<1> DEFINE n == Len(fence) + 1
<1>1. /\ fence' = Append(fence, [ctx |-> c, mergeable |-> mergeable]) /\ ctx' = Append(ctx, c)
      /\ Len(fence) \in Nat /\ Len(ctx) = Len(fence) /\ Len(fence) < MaxFences
  BY DEF CreateFence, Types
<1>2. /\ fence' \in Seq([ctx : Contexts, mergeable : BOOLEAN]) /\ Len(fence') = n
      /\ fence'[n] = [ctx |-> c, mergeable |-> mergeable]
      /\ \A f \in 1 .. Len(fence) : fence'[f] = fence[f]
  BY <1>1 DEF Types
<1>3. /\ ctx' \in Seq(Contexts \union {NoContext}) /\ Len(ctx') = n
      /\ ctx'[n] = c /\ \A f \in 1 .. Len(fence) : ctx'[f] = ctx[f]
  BY <1>1 DEF Types
<1>4. Created' = Created \union {n} /\ n \in Created' /\ \A f \in Created : f < n
  BY <1>1, <1>2 DEF Created
<1>5. \A s \in Seq(Created) : s \in Seq(Created') /\ Append(s, n) \in Seq(Created')
  <2> SUFFICES ASSUME NEW s \in Seq(Created) PROVE s \in Seq(Created') /\ Append(s, n) \in Seq(Created')
    OBVIOUS
  <2>1. s \in Seq(Created \union {n})
    OBVIOUS
  <2>2. Append(s, n) \in Seq(Created \union {n})
    BY <2>1
  <2> QED BY <1>4, <2>1, <2>2
<1>6. n <= MaxFences
  BY <1>1, FencesAssumption
<1>7. Types'
  BY <1>2, <1>3, <1>4, <1>5, <1>6 DEF CreateFence, Types, Signaled
<1> QED BY <1>2, <1>3, <1>4, <1>7 DEF Created

\* Every other step keeps the types and the fences.
LEMMA OtherTypes ==
  ASSUME Types, [Next]_vars,
         ~ \E c \in Contexts, mergeable \in BOOLEAN : CreateFence(c, mergeable)
  PROVE  Types' /\ Created' = Created /\ UNCHANGED fence
<1>1. ASSUME NEW f \in Created, GpuPasses(f) PROVE Types' /\ UNCHANGED fence
  BY <1>1, SameFences DEF GpuPasses, Types, lists, sync
<1>2. CASE CheckFlush
  BY <1>2, SameFences DEF CheckFlush, Types, lists, sync
<1>3. CASE CheckDrain
  <2>1. retired' \in Seq(Created)
    BY <1>3, KeptTypes DEF CheckDrain, ToRetire, Types
  <2>2. <<>> \in Seq(Created)
    OBVIOUS
  <2> QED BY <1>3, <2>1, <2>2, SameFences DEF CheckDrain, Types, sync
<1>4. CASE CheckPoll
  <2>1. Done \in 0 .. Len(fenceList)
    <3> DEFINE busy == {i \in DOMAIN fenceList : fenceList[i] \notin passed}
    <3>1. CASE busy = {}
      BY <3>1 DEF Done, Types
    <3>2. CASE busy # {}
      <4>1. busy \in SUBSET Nat
        BY DEF Types
      <4>2. \E m \in busy : \A n \in busy : m <= n
        BY <3>2, <4>1, Least
      <4>3. Min(busy) \in busy
        BY <4>2 DEF Min
      <4> QED BY <3>2, <4>3 DEF Done, Types
    <3> QED BY <3>1, <3>2
  <2> DEFINE pre == SubSeq(fenceList, 1, Done)  post == SubSeq(fenceList, Done + 1, Len(fenceList))
  <2>2. pre \in Seq(Created) /\ post \in Seq(Created)
    <3>1. 0 + 1 = 1 /\ Len(fenceList) \in Nat
      BY DEF Types
    <3> QED BY <2>1, <3>1, Part DEF Types
  <2>3. ToRetire(pre) \in Seq(Created)
    <3> HIDE DEF pre
    <3> QED BY <2>2, KeptTypes DEF ToRetire
  <2> QED BY <1>4, <2>2, <2>3, SameFences DEF CheckPoll, Types, sync
<1>5. CASE Retire
  <2>1. retired # <<>> => Tail(retired) \in Seq(Created) /\ Append(calls, Head(retired)) \in Seq(Created)
    BY DEF Types
  <2> QED BY <1>5, <2>1, SameFences DEF Retire, Types, lists, sync
<1>6. ASSUME NEW c \in Contexts, DestroyContext(c) PROVE Types' /\ UNCHANGED fence
  <2>1. \A list \in Seq(Created) : WithoutContext(list, c) \in Seq(Created)
    BY KeptTypes DEF WithoutContext
  <2>2. Invalidated \in Seq(Contexts \union {NoContext}) /\ Len(Invalidated) = Len(ctx)
    <3>1. DOMAIN ctx = 1 .. Len(ctx) /\ Len(ctx) \in Nat
          /\ \A f \in DOMAIN ctx : ctx[f] \in Contexts \union {NoContext}
      BY DEF Types
    <3>2. Invalidated = [f \in 1 .. Len(ctx) |-> IF f = waiting THEN NoContext ELSE ctx[f]]
      BY <3>1 DEF Invalidated
    <3>3. \A f \in 1 .. Len(ctx) : (IF f = waiting THEN NoContext ELSE ctx[f]) \in Contexts \union {NoContext}
      BY <3>1
    <3> QED BY <3>1, <3>2, <3>3
  <2>3. OfContext(c) \subseteq Created /\ ({waiting} \ {0}) \subseteq Created
    BY DEF OfContext, Types
  <2> QED BY <1>6, <2>1, <2>2, <2>3, SameFences DEF DestroyContext, Types, sync
<1>7. CASE PrepareReset
  BY <1>7, SameFences DEF PrepareReset, Types, lists, Signaled
<1>8. CASE FinishReset
  <2>1. <<>> \in Seq(Created) /\ {Ctx0} \subseteq Contexts
    BY FencesAssumption
  <2> QED BY <1>8, <2>1, SameFences DEF FinishReset, Types
<1>9. CASE ThreadScan
  <2>1. waitList # <<>> => 1 \in DOMAIN waitList
    BY DEF Types
  <2>2. CASE UNCHANGED <<lists, stor>> /\ thread' \in {"done", "cond"}
    BY <1>9, <2>2, SameFences DEF ThreadScan, Types, lists
  <2>3. CASE waitList # <<>> /\ TakeFence(1) /\ UNCHANGED fenceList
    <3>1. thread' = "waiting"
      BY <2>3 DEF TakeFence
    <3> QED BY <1>9, <2>1, <2>3, <3>1, TakeTypes, SameFences DEF ThreadScan, Types
  <2> QED BY <1>9, <2>2, <2>3 DEF ThreadScan
<1>10. CASE SpuriousWakeUp \/ ThreadNotify
  BY <1>10, SameFences DEF SpuriousWakeUp, ThreadNotify, Types, lists
<1>11. CASE ThreadReport
  <2>1. waiting \in Created /\ Append(fenceList, waiting) \in Seq(Created)
    BY <1>11 DEF ThreadReport, Types
  <2> QED BY <1>11, <2>1, SameFences DEF ThreadReport, Types
<1>12. CASE ThreadResume
  <2>1. CASE UNCHANGED <<lists, stor>> /\ thread' \in {"top", "crashed"}
    BY <1>12, <2>1, SameFences DEF ThreadResume, Types, lists
  <2>2. CASE \E i \in DOMAIN waitList : TakeFence(i) /\ UNCHANGED fenceList
    <3>1. PICK i \in DOMAIN waitList : TakeFence(i) /\ UNCHANGED fenceList
      BY <2>2
    <3>2. thread' = "waiting"
      BY <3>1 DEF TakeFence
    <3> QED BY <1>12, <3>1, <3>2, TakeTypes, SameFences DEF ThreadResume, Types
  <2>3. \/ UNCHANGED <<lists, stor>> /\ thread' \in {"top", "crashed"}
        \/ \E i \in DOMAIN waitList : TakeFence(i) /\ UNCHANGED fenceList
    BY <1>12 DEF ThreadResume
  <2> QED BY <2>1, <2>2, <2>3
<1>13. CASE UNCHANGED vars
  BY <1>13, SameFences DEF vars, Types, lists, sync
<1> QED
  BY <1>1, <1>2, <1>3, <1>4, <1>5, <1>6, <1>7, <1>8, <1>9, <1>10, <1>11, <1>12, <1>13, SameFences
  DEF Next, Check, SyncThread, Crashed

-----------------------------------------------------------------------------
\* What moves no fence.
LEMMA Unmoved ==
  ASSUME IInv, Types', Modes', UNCHANGED <<fence, ctx, passed, lists, stor, syncThread, live, gone>>,
         UNCHANGED <<retired, calls>>
  PROVE  IInv'
<1>1. InOrder' /\ Contexted' /\ AllPassed'
  BY DEF IInv, InOrder, Contexted, AllPassed, Listed, Waited, Created, lists
<1>2. NoneLost'
  BY DEF IInv, NoneLost, Merged, Owed, Listed, Waited, Created, lists
<1> QED BY <1>1, <1>2 DEF IInv

\* The GPU passes a fence.
LEMMA PassesKeeps == ASSUME IInv, Types', NEW f \in Created, GpuPasses(f) PROVE IInv'
<1>1. /\ passed \subseteq passed'
      /\ UNCHANGED <<fence, ctx, lists, sync, main, retired, live, calls, gone>>
  BY DEF GpuPasses
<1>2. InOrder' /\ Contexted' /\ AllPassed' /\ Modes'
  BY <1>1 DEF IInv, InOrder, Contexted, AllPassed, Modes, Listed, Waited, Created, lists, sync
<1>3. NoneLost'
  BY <1>1 DEF IInv, NoneLost, Merged, Owed, Listed, Waited, Created, lists
<1> QED BY <1>2, <1>3 DEF IInv

\* On the lists are fences that were created.
LEMMA ElementsCreated ==
  ASSUME Types
  PROVE  /\ Range(waitList) \subseteq Created /\ Range(fenceList) \subseteq Created
         /\ Range(retired) \subseteq Created /\ Range(calls) \subseteq Created
         /\ Waited \subseteq Created /\ Listed \subseteq Created
         /\ Created \in SUBSET Nat /\ 0 \notin Created
  BY SMTT(30) DEF Types, Range, Waited, Listed, Created

\* A new fence is the last of its list, so the lists stay in order.
LEMMA CreateKeeps ==
  ASSUME IInv, NEW c \in Contexts, NEW mergeable \in BOOLEAN, CreateFence(c, mergeable)
  PROVE  IInv'
<1> DEFINE n == Len(fence) + 1
<1>1. /\ Types' /\ Created' = Created \union {n}
      /\ fence'[n] = [ctx |-> c, mergeable |-> mergeable] /\ ctx'[n] = c
      /\ \A f \in Created : fence'[f] = fence[f] /\ ctx'[f] = ctx[f]
      /\ \A f \in Created : f < n
  BY CreateTypes DEF IInv
<1>2. n \in Nat /\ n \notin Created
  BY <1>1 DEF IInv, Types
<1>3. UNCHANGED <<passed, waiting, readable, stop, syncThread, stor, main, retired, live, calls, gone>>
      /\ c \in live
  BY DEF CreateFence
<1>4. \/ syncThread /\ waitList' = Append(waitList, n) /\ UNCHANGED fenceList /\ thread' = Signaled
      \/ ~syncThread /\ fenceList' = Append(fenceList, n) /\ UNCHANGED <<waitList, thread>>
  BY DEF CreateFence
<1>5. /\ Range(waitList) \subseteq Created /\ Range(fenceList) \subseteq Created
      /\ Range(retired) \subseteq Created /\ Range(calls) \subseteq Created
      /\ Waited \subseteq Created /\ Listed \subseteq Created
      /\ Created \in SUBSET Nat /\ 0 \notin Created /\ gone \subseteq Created
  BY ElementsCreated DEF IInv, Types
<1> HIDE DEF n
<1>6. /\ Range(Append(waitList, n)) = Range(waitList) \union {n} /\ Increasing(Append(waitList, n))
      /\ Range(Append(fenceList, n)) = Range(fenceList) \union {n} /\ Increasing(Append(fenceList, n))
  <2>1. ASSUME NEW s \in Seq(Created), Increasing(s), Range(s) \subseteq Created
        PROVE  Range(Append(s, n)) = Range(s) \union {n} /\ Increasing(Append(s, n))
    <3>1. \A y \in Range(s) : y < n
      BY <1>1, <2>1
    <3> QED BY <1>2, <1>5, <2>1, <3>1, Appended
  <2>2. /\ waitList \in Seq(Created) /\ fenceList \in Seq(Created)
        /\ Increasing(waitList) /\ Increasing(fenceList)
    BY DEF IInv, Types, InOrder
  <2> QED BY <1>5, <2>1, <2>2
<1>7. Listed' = Listed \union {n} /\ Waited' = Waited
  BY <1>3, <1>4, <1>6 DEF Listed, Waited
<1>8. ~syncThread => Waited = {} /\ Range(waitList) = {}
  BY DEF IInv, Modes, Waited, Range
<1>9. InOrder'
  <2>1. InOrder
    BY DEF IInv
  <2>2. Increasing(waitList') /\ Increasing(fenceList') /\ Increasing(retired')
    BY <2>1, <1>3, <1>4, <1>6 DEF InOrder
  <2>3. Below(Range(calls'), Range(retired') \union Listed') /\ Below(Range(retired'), Listed')
    BY <2>1, <1>1, <1>3, <1>5, <1>7 DEF InOrder, Below
  <2>4. Below(Range(fenceList'), Waited' \union Range(waitList'))
    BY <2>1, <1>1, <1>3, <1>4, <1>5, <1>6, <1>7, <1>8 DEF InOrder, Below
  <2>5. Below(Waited', Range(waitList'))
    BY <2>1, <1>1, <1>4, <1>5, <1>6, <1>7 DEF InOrder, Below
  <2>6. stor' \in Range(waitList') => \A f \in Range(waitList') : stor' <= f
    <3>1. CASE stor \in Range(waitList)
      <4>1. stor \in Created /\ stor < n
        BY <1>1, <1>5, <3>1
      <4>2. \A f \in Range(waitList) : stor <= f
        BY <2>1, <3>1 DEF InOrder
      <4>3. stor <= n
        BY <1>2, <1>5, <4>1
      <4>4. \A f \in Range(waitList') : f \in Range(waitList) \/ f = n
        BY <1>4, <1>6
      <4> QED BY <1>3, <4>2, <4>3, <4>4
    <3>2. CASE stor \notin Range(waitList)
      <4>1. stor # n
        BY <1>2 DEF IInv, Types, n
      <4> QED BY <1>3, <1>4, <1>6, <3>2, <4>1
    <3> QED BY <3>1, <3>2
  <2> QED BY <2>2, <2>3, <2>4, <2>5, <2>6 DEF InOrder
<1>10. Modes'
  BY <1>3, <1>4 DEF IInv, Modes, Signaled
<1>11. Contexted'
  BY <1>1, <1>2, <1>3, <1>5, <1>7 DEF IInv, Contexted
<1>12. AllPassed'
  BY <1>3, <1>4 DEF IInv, AllPassed
<1>13. NoneLost'
  <2> SUFFICES ASSUME NEW f \in Owed', f # n PROVE f \in Listed' \union Range(retired') \/ Merged(f)'
    BY <1>7 DEF NoneLost
  <2>1. f \in Owed
    <3>1. f \in Created \ gone
      BY <1>1, <1>3 DEF Owed
    <3>2. \A k \in DOMAIN calls : calls[k] \in Created
      BY <1>5 DEF Range
    <3> QED BY <1>1, <1>3, <3>1, <3>2 DEF Owed
  <2>2. f \in Created /\ (f \in Listed \union Range(retired) \/ Merged(f))
    BY <2>1 DEF IInv, NoneLost, Owed
  <2>3. Merged(f) => Merged(f)'
    BY <1>1, <1>3, <1>5, <2>2 DEF Merged
  <2> QED BY <1>3, <1>7, <2>2, <2>3
<1> QED BY <1>1, <1>9, <1>10, <1>11, <1>12, <1>13 DEF IInv

\* The call for the first retired fence answers for what was merged into it, and no more.
LEMMA RetireKeeps == ASSUME IInv, Types', Retire PROVE IInv'
<1>1. CASE retired = <<>>
  <2>1. UNCHANGED <<fence, ctx, passed, lists, sync, live, gone, retired, calls>> /\ main' = "idle"
    BY <1>1 DEF Retire
  <2>2. Modes'
    BY <2>1, <1>1 DEF IInv, Modes, sync, lists
  <2> QED BY <2>1, <2>2, Unmoved DEF sync
<1>2. CASE retired # <<>>
  <2> DEFINE h == Head(retired)
  <2>1. /\ calls' = Append(calls, h) /\ retired' = Tail(retired)
        /\ UNCHANGED <<fence, ctx, passed, lists, sync, main, live, gone>>
        /\ main = "retiring"
    BY <1>2 DEF Retire
  <2>2. /\ h \in Created /\ Range(retired) = {h} \union Range(retired') /\ Increasing(retired')
        /\ \A x \in Range(retired') : h < x
    BY <1>2, <2>1, Tails DEF IInv, Types, InOrder
  <2>3. Range(calls') = Range(calls) \union {h}
    BY <2>1, Appended DEF IInv, Types
  <2> HIDE DEF h
  <2>4. Listed' = Listed /\ Waited' = Waited /\ Created' = Created
    BY <2>1 DEF Listed, Waited, Created, lists
  <2>5. InOrder'
    BY <2>1, <2>2, <2>3, <2>4 DEF IInv, InOrder, Below, lists, sync
  <2>6. Modes' /\ Contexted' /\ AllPassed'
    BY <2>1, <2>2, <2>4 DEF IInv, Modes, Contexted, AllPassed, lists, sync
  <2>7. NoneLost'
    <3> SUFFICES ASSUME NEW f \in Owed' PROVE f \in Listed \union Range(retired') \/ Merged(f)'
      BY <2>4 DEF NoneLost
    <3>1. /\ f \in Created \ gone
          /\ \A x \in Range(calls') : fence[x].ctx = fence[f].ctx => x < f
      BY <2>1, <2>4 DEF Owed, Range
    <3>2. f \in Owed /\ (fence[h].ctx = fence[f].ctx => h < f)
      <4>1. \A x \in Range(calls) : fence[x].ctx = fence[f].ctx => x < f
        BY <2>3, <3>1
      <4> QED BY <2>3, <3>1, <4>1 DEF Owed, Range
    <3>3. f # h
      <4>1. h \in Nat /\ ~(h < h)
        BY <2>2, ElementsCreated DEF IInv
      <4> QED BY <3>2, <4>1
    <3>4. CASE Merged(f)
      <4>1. PICK g \in Range(retired) : g > f /\ fence[g].ctx = fence[f].ctx
        BY <3>4 DEF Merged
      <4>2. g # h
        BY <4>1, <3>2, <3>1, <2>2, ElementsCreated DEF IInv
      <4> QED BY <2>1, <2>2, <3>4, <4>1, <4>2 DEF Merged
    <3> QED BY <2>2, <3>2, <3>3, <3>4 DEF IInv, NoneLost
  <2> QED BY <2>5, <2>6, <2>7 DEF IInv
<1> QED BY <1>1, <1>2

-----------------------------------------------------------------------------
(* Polling. *)

\* In a list of which every fence has passed, each fence is called for or a later one of
\* its context is; then it is mergeable.
LEMMA Answering ==
  ASSUME Types, NEW list \in Seq(Created), Increasing(list), NEW i \in DOMAIN list
  PROVE  \E j \in DOMAIN list :
           /\ i <= j /\ NeedRetire(list, j) /\ ctx[list[j]] = ctx[list[i]]
           /\ j # i => list[i] < list[j] /\ fence[list[i]].mergeable
<1> DEFINE T == {j \in DOMAIN list : i <= j /\ NeedRetire(list, j)}
<1>1. DOMAIN list = 1 .. Len(list) /\ Len(list) \in Nat /\ i \in 1 .. Len(list)
  OBVIOUS
<1>2. Len(list) \in T
  BY <1>1 DEF NeedRetire
<1>3. PICK m \in T : \A k \in T : m <= k
  <2>1. T \in SUBSET Nat
    BY <1>1
  <2> HIDE DEF T
  <2> QED BY <1>2, <2>1, Least
<1>4. m \in DOMAIN list /\ i <= m /\ NeedRetire(list, m)
  OBVIOUS
<1>5. \A k \in DOMAIN list : i <= k /\ k < m =>
        /\ ~NeedRetire(list, k) /\ ctx[list[k + 1]] = ctx[list[k]] /\ fence[list[k]].mergeable
  <2> SUFFICES ASSUME NEW k \in DOMAIN list, i <= k, k < m
               PROVE  /\ ~NeedRetire(list, k) /\ ctx[list[k + 1]] = ctx[list[k]]
                      /\ fence[list[k]].mergeable
    OBVIOUS
  <2>1. ~(m <= k)
    BY <1>1
  <2>2. ~NeedRetire(list, k)
    BY <1>3, <2>1
  <2> QED BY <2>2 DEF NeedRetire
<1> HIDE DEF T
<1> DEFINE Other == {k \in DOMAIN list : i <= k /\ k <= m /\ ctx[list[k]] # ctx[list[i]]}
<1>6. Other = {}
  <2>1. SUFFICES ASSUME Other # {} PROVE FALSE
    OBVIOUS
  <2>2. PICK k \in Other : \A l \in Other : k <= l
    <3>1. Other \in SUBSET Nat
      BY <1>1
    <3> HIDE DEF Other
    <3> QED BY <2>1, <3>1, Least
  <2>3. k \in 1 .. Len(list) /\ i < k /\ k <= m /\ ctx[list[k]] # ctx[list[i]]
    BY <1>1
  <2>4. k - 1 \in DOMAIN list /\ i <= k - 1 /\ k - 1 < m /\ (k - 1) + 1 = k /\ ~(k <= k - 1)
    BY <1>1, <1>4, <2>3
  <2>5. k - 1 \notin Other
    <3> HIDE DEF Other
    <3> QED BY <2>2, <2>4
  <2>6. ctx[list[k - 1]] = ctx[list[i]]
    BY <2>4, <2>5, <1>4, <1>1
  <2>7. ctx[list[k]] = ctx[list[k - 1]]
    BY <2>4, <1>5
  <2> QED BY <2>3, <2>6, <2>7
<1>7. m \in Nat /\ m <= m
  BY <1>1, <1>4
<1>8. ctx[list[m]] = ctx[list[i]]
  BY <1>4, <1>6, <1>7
<1>9. m # i => list[i] < list[m] /\ fence[list[i]].mergeable
  <2> SUFFICES ASSUME m # i PROVE list[i] < list[m] /\ fence[list[i]].mergeable
    OBVIOUS
  <2>1. i < m /\ i <= i
    BY <1>1, <1>4
  <2> QED BY <1>4, <1>5, <2>1 DEF Increasing
<1> QED BY <1>4, <1>8, <1>9

\* The main thread takes the passed fences pre off fence_list, which keeps post.
LEMMA DrainKeeps ==
  ASSUME IInv, Types', main # "retiring", NEW pre \in Seq(Created), NEW post \in Seq(Created),
         Range(fenceList) = Range(pre) \union Range(post),
         Increasing(pre), Increasing(post), Below(Range(pre), Range(post)),
         Range(pre) \subseteq passed, retired' = ToRetire(pre), fenceList' = post,
         main' = "retiring",
         UNCHANGED <<fence, ctx, passed, waitList, waiting, sync, live, calls, gone>>
  PROVE  IInv'
<1> DEFINE S == {i \in DOMAIN pre : ctx[pre[i]] # NoContext /\ NeedRetire(pre, i)}
<1>1. retired' = Kept(pre, S) /\ S \in SUBSET DOMAIN pre
  BY DEF ToRetire
<1>2. Range(retired') = {pre[i] : i \in S} /\ Increasing(retired')
  <2> HIDE DEF S
  <2> QED BY <1>1, KeptIs
<1>3. \A f \in Range(retired') : f \in Range(pre) /\ ctx[f] # NoContext
  BY <1>2 DEF Range
<1>4. Created' = Created /\ Waited' = Waited /\ Listed' \subseteq Listed
      /\ \A f \in Range(pre) : f \in Listed
  BY DEF Created, Waited, Listed
<1>5. InOrder'
  <2>1. InOrder /\ Range(retired') \union Listed' \subseteq Range(retired) \union Listed
    BY <1>3, <1>4 DEF IInv
  <2>2. Increasing(waitList') /\ Increasing(fenceList') /\ Increasing(retired')
    BY <1>2, <2>1 DEF InOrder
  <2>3. Below(Range(calls'), Range(retired') \union Listed')
    BY <2>1 DEF InOrder, Below
  <2>4. Below(Range(retired'), Listed')
    BY <1>3, <1>4, <2>1 DEF InOrder, Below, Listed
  <2>5. Below(Range(fenceList'), Waited' \union Range(waitList')) /\ Below(Waited', Range(waitList'))
    BY <1>4, <2>1 DEF InOrder, Below
  <2> QED BY <2>1, <2>2, <2>3, <2>4, <2>5 DEF InOrder, sync
<1>6. Modes' /\ AllPassed'
  BY <1>3 DEF IInv, Modes, AllPassed, sync
<1>7. Contexted'
  <2>1. Contexted
    BY DEF IInv
  <2>2. \A f \in Range(retired') : f \in Listed /\ f \notin gone
    BY <1>3, <1>4, <2>1 DEF Contexted
  <2> QED BY <1>4, <2>1, <2>2 DEF Contexted
<1>8. NoneLost'
  <2> SUFFICES ASSUME NEW f \in Owed PROVE f \in Listed' \union Range(retired') \/ Merged(f)'
    BY <1>4 DEF NoneLost, Owed
  <2>1. f \in Created \ gone /\ f \in Listed
    <3>1. Range(retired) = {}
      BY DEF IInv, Modes, Range
    <3> QED BY <3>1 DEF IInv, NoneLost, Merged, Owed
  <2>2. CASE f \notin Range(pre)
    BY <2>1, <2>2, <1>4 DEF Listed
  <2>3. CASE f \in Range(pre)
    <3>1. PICK i \in DOMAIN pre : pre[i] = f
      BY <2>3 DEF Range
    <3>2. PICK j \in DOMAIN pre :
           /\ i <= j /\ NeedRetire(pre, j) /\ ctx[pre[j]] = ctx[pre[i]]
           /\ j # i => pre[i] < pre[j] /\ fence[pre[i]].mergeable
      BY Answering DEF IInv
    <3>3. ctx[f] = fence[f].ctx /\ ctx[f] # NoContext
      <4>1. fence[f] \in [ctx : Contexts, mergeable : BOOLEAN]
        <5>1. f \in 1 .. Len(fence)
          BY <2>1 DEF Created
        <5> DEFINE R == [ctx : Contexts, mergeable : BOOLEAN]
        <5>2. fence \in Seq(R)
          BY DEF IInv, Types
        <5> HIDE DEF R
        <5>3. fence[f] \in R
          BY <5>1, <5>2
        <5> QED BY <5>3 DEF R
      <4>2. ctx[f] = fence[f].ctx
        BY <2>1 DEF IInv, Contexted
      <4>3. NoContext \notin Contexts
        BY FencesAssumption
      <4> QED BY <4>1, <4>2, <4>3
    <3>4. pre[j] \in Range(retired')
      BY <1>2, <3>1, <3>2, <3>3
    <3>5. CASE j = i
      BY <3>1, <3>4, <3>5
    <3>6. CASE j # i
      <4>1. pre[j] \in Created \ gone
        BY <1>3, <1>4, <3>4, ElementsCreated DEF IInv, Contexted
      <4>2. fence[pre[j]].ctx = fence[f].ctx
        BY <3>1, <3>2, <3>3, <4>1 DEF IInv, Contexted
      <4>3. pre[j] > f /\ fence[f].mergeable
        BY <3>1, <3>2, <3>6
      <4> QED BY <2>3, <3>4, <4>2, <4>3 DEF Merged
    <3> QED BY <3>5, <3>6
  <2> QED BY <2>2, <2>3
<1> QED BY <1>5, <1>6, <1>7, <1>8 DEF IInv

\* vrend_renderer_check_fences, with the thread and without.
LEMMA CheckKeeps == ASSUME IInv, Types', Check PROVE IInv'
<1>1. CASE CheckFlush
  <2>1. Modes'
    BY <1>1 DEF CheckFlush, IInv, Modes, lists, sync
  <2> QED BY <1>1, <2>1, Unmoved DEF CheckFlush, sync
<1>2. CASE CheckDrain
  <2>1. /\ fenceList \in Seq(Created) /\ <<>> \in Seq(Created) /\ Increasing(fenceList)
        /\ Range(<<>>) = {} /\ Increasing(<<>>)
    BY DEF IInv, Types, InOrder, Range, Increasing
  <2>2. syncThread
    BY <1>2 DEF CheckDrain, IInv, Modes
  <2> QED BY <1>2, <2>1, <2>2, DrainKeeps DEF CheckDrain, IInv, AllPassed, Below
<1>3. CASE CheckPoll
  <2> DEFINE pre == SubSeq(fenceList, 1, Done)  post == SubSeq(fenceList, Done + 1, Len(fenceList))
             busy == {i \in DOMAIN fenceList : fenceList[i] \notin passed}
  <2>1. /\ fenceList \in Seq(Created) /\ Increasing(fenceList) /\ Len(fenceList) \in Nat
        /\ DOMAIN fenceList = 1 .. Len(fenceList)
    BY DEF IInv, Types, InOrder
  <2>2. Done \in 0 .. Len(fenceList) /\ \A i \in 1 .. Done : fenceList[i] \in passed
    <3>1. CASE busy = {}
      BY <2>1, <3>1 DEF Done
    <3>2. CASE busy # {}
      <4>1. PICK m \in busy : \A n \in busy : m <= n
        <5>1. busy \in SUBSET Nat
          BY <2>1
        <5> HIDE DEF busy
        <5> QED BY <3>2, <5>1, Least
      <4>2. Min(busy) \in busy /\ \A n \in busy : Min(busy) <= n
        BY <4>1 DEF Min
      <4>3. Done = Min(busy) - 1
        BY <3>2 DEF Done
      <4>4. Min(busy) \in 1 .. Len(fenceList)
        BY <2>1, <4>2
      <4>5. \A i \in 1 .. Done : i \in DOMAIN fenceList /\ i \notin busy
        <5> SUFFICES ASSUME NEW i \in 1 .. Done PROVE i \in DOMAIN fenceList /\ i \notin busy
          OBVIOUS
        <5>1. i \in 1 .. Len(fenceList) /\ ~(Min(busy) <= i)
          BY <4>3, <4>4, <2>1
        <5> QED BY <2>1, <4>2, <5>1
      <4> QED BY <2>1, <4>3, <4>4, <4>5
    <3> QED BY <3>1, <3>2
  <2>3. /\ pre \in Seq(Created) /\ Range(pre) = {fenceList[i] : i \in 1 .. Done} /\ Increasing(pre)
    <3>1. 0 \in Nat /\ Done \in Nat /\ Done <= Len(fenceList) /\ 0 <= Done
      BY <2>1, <2>2
    <3>2. \A a \in Nat : a <= Done =>
            /\ SubSeq(fenceList, a + 1, Done) \in Seq(Created)
            /\ Range(SubSeq(fenceList, a + 1, Done)) = {fenceList[i] : i \in a + 1 .. Done}
            /\ Increasing(SubSeq(fenceList, a + 1, Done))
      BY <2>1, <3>1, Part
    <3>3. PICK a \in Nat : a = 0 /\ a <= Done /\ a + 1 = 1
      BY <3>1
    <3> QED BY <3>2, <3>3
  <2>4. /\ post \in Seq(Created) /\ Increasing(post)
        /\ Range(post) = {fenceList[i] : i \in Done + 1 .. Len(fenceList)}
    BY <2>1, <2>2, Part
  <2>5. retired' = ToRetire(pre) /\ fenceList' = post /\ main # "retiring"
    BY <1>3 DEF CheckPoll
  <2> HIDE DEF pre, post, busy
  <2>6. Range(fenceList) = Range(pre) \union Range(post)
    <3>1. \A i \in DOMAIN fenceList : i \in 1 .. Done \/ i \in Done + 1 .. Len(fenceList)
      BY <2>1, <2>2
    <3>2. \A i : i \in 1 .. Done \/ i \in Done + 1 .. Len(fenceList) => i \in DOMAIN fenceList
      BY <2>1, <2>2
    <3> QED BY <2>3, <2>4, <3>1, <3>2 DEF Range
  <2>7. Below(Range(pre), Range(post))
    <3>1. \A i \in 1 .. Done, j \in Done + 1 .. Len(fenceList) :
            i \in DOMAIN fenceList /\ j \in DOMAIN fenceList /\ i < j
      BY <2>1, <2>2
    <3> QED BY <2>1, <2>3, <2>4, <3>1 DEF Below, Increasing
  <2>8. Range(pre) \subseteq passed
    BY <2>2, <2>3
  <2> QED BY <1>3, <2>3, <2>4, <2>5, <2>6, <2>7, <2>8, DrainKeeps DEF CheckPoll
<1> QED BY <1>1, <1>2, <1>3, RetireKeeps DEF Check

-----------------------------------------------------------------------------
(* Contexts that end. *)

\* The fences of a destroyed context are gone, and the one that is waited on is invalid.
LEMMA DestroyKeeps == ASSUME IInv, Types', NEW c \in Contexts, DestroyContext(c) PROVE IInv'
<1>1. /\ main = "idle" /\ live' = live \ {c} /\ c \in Contexts
      /\ UNCHANGED <<fence, passed, waiting, sync, main, retired, calls>>
      /\ fenceList' = WithoutContext(fenceList, c)
  BY DEF DestroyContext
<1>2. \A list \in Seq(Created) :
        /\ Range(WithoutContext(list, c)) = {f \in Range(list) : ctx[f] # c}
        /\ Increasing(list) => Increasing(WithoutContext(list, c))
  <2> SUFFICES ASSUME NEW list \in Seq(Created)
               PROVE  /\ Range(WithoutContext(list, c)) = {f \in Range(list) : ctx[f] # c}
                      /\ Increasing(list) => Increasing(WithoutContext(list, c))
    OBVIOUS
  <2> DEFINE S == {i \in DOMAIN list : ctx[list[i]] # c}
  <2>1. WithoutContext(list, c) = Kept(list, S) /\ S \in SUBSET DOMAIN list
    BY DEF WithoutContext
  <2>2. {list[i] : i \in S} = {f \in Range(list) : ctx[f] # c}
    BY DEF Range
  <2> HIDE DEF S
  <2> QED BY <2>1, <2>2, KeptIs
<1>3. /\ waitList \in Seq(Created) /\ fenceList \in Seq(Created)
      /\ Increasing(waitList) /\ Increasing(fenceList) /\ Range(retired) = {}
  BY <1>1 DEF IInv, Types, InOrder, Modes, Range
<1>4. Range(fenceList') = {f \in Range(fenceList) : ctx[f] # c} /\ Increasing(fenceList')
  BY <1>1, <1>2, <1>3
<1>5. Range(waitList') = {f \in Range(waitList) : ctx[f] # c} /\ Increasing(waitList')
  <2>1. CASE syncThread
    BY <2>1, <1>2, <1>3 DEF DestroyContext
  <2>2. CASE ~syncThread
    <3>1. waitList' = waitList /\ Range(waitList) = {}
      BY <2>2 DEF DestroyContext, IInv, Modes, Range
    <3> QED BY <1>3, <3>1
  <2> QED BY <2>1, <2>2
<1>6. /\ gone' = gone \union OfContext(c) \union Waited
      /\ \A f \in Created : f \notin Waited => ctx'[f] = ctx[f]
      /\ \A f \in Waited : ctx'[f] = NoContext
  <2>1. CASE syncThread
    <3>1. DOMAIN ctx = Created /\ Waited \subseteq Created
      BY ElementsCreated DEF IInv, Types, Created
    <3>2. ctx' = [f \in Created |-> IF f = waiting THEN NoContext ELSE ctx[f]]
      BY <2>1, <3>1 DEF DestroyContext, Invalidated
    <3>3. \A f \in Created : f = waiting <=> f \in Waited
      BY ElementsCreated DEF IInv, Waited
    <3> QED BY <2>1, <3>1, <3>2, <3>3 DEF DestroyContext, Waited
  <2>2. CASE ~syncThread
    <3>1. Waited = {}
      BY <2>2 DEF IInv, Modes, Waited
    <3> QED BY <2>2, <3>1 DEF DestroyContext
  <2> QED BY <2>1, <2>2
<1>7. /\ Created' = Created /\ Waited' = Waited /\ Listed' \subseteq Listed
      /\ \A f \in Listed' : f \notin Waited => ctx[f] # c
      /\ \A f \in Listed : f \notin Waited /\ ctx[f] # c => f \in Listed'
  BY <1>1, <1>4, <1>5 DEF Created, Waited, Listed
<1>8. InOrder'
  <2>1. InOrder /\ Range(waitList') \subseteq Range(waitList) /\ Range(fenceList') \subseteq Range(fenceList)
    BY <1>4, <1>5 DEF IInv
  <2>2. Below(Range(calls'), Range(retired') \union Listed') /\ Below(Range(retired'), Listed')
    BY <1>1, <1>7, <2>1 DEF InOrder, Below
  <2>3. Below(Range(fenceList'), Waited' \union Range(waitList')) /\ Below(Waited', Range(waitList'))
    BY <1>7, <2>1 DEF InOrder, Below
  <2>4. stor' \in Range(waitList') => \A f \in Range(waitList') : stor' <= f
    BY <1>1, <2>1 DEF InOrder, sync
  <2>5. Increasing(retired')
    BY <1>1, <2>1 DEF InOrder
  <2> QED BY <1>4, <1>5, <2>2, <2>3, <2>4, <2>5 DEF InOrder
<1>9. Modes'
  <2>1. ~syncThread => waitList' = <<>>
    BY DEF DestroyContext, IInv, Modes
  <2> QED BY <1>1, <2>1 DEF IInv, Modes, sync
<1>10. Contexted'
  <2>1. Contexted /\ Listed \subseteq Created
    BY ElementsCreated DEF IInv
  <2>2. \A f \in Created \ gone' : ctx'[f] = fence'[f].ctx
    BY <1>1, <1>6, <2>1 DEF Contexted
  <2>3. \A f \in Listed' : f \in gone' => ctx'[f] = NoContext
    BY <1>6, <1>7, <2>1 DEF Contexted, OfContext
  <2>4. \A f \in Listed' \union Range(retired') : ctx'[f] \in live' \union {NoContext}
    BY <1>1, <1>3, <1>6, <1>7, <2>1 DEF Contexted
  <2> QED BY <1>1, <1>3, <1>7, <2>2, <2>3, <2>4 DEF Contexted
<1>11. AllPassed'
  BY <1>1, <1>3, <1>4 DEF IInv, AllPassed, sync
<1>12. NoneLost'
  <2> SUFFICES ASSUME NEW f \in Owed' PROVE f \in Listed'
    BY DEF NoneLost
  <2>1. f \in Owed /\ f \in Created /\ f \notin Waited /\ ctx[f] # c
    BY <1>1, <1>6, <1>7 DEF Owed, OfContext
  <2>2. f \in Listed
    BY <1>3, <2>1 DEF IInv, NoneLost, Merged
  <2> QED BY <1>7, <2>1, <2>2
<1> QED BY <1>8, <1>9, <1>10, <1>11, <1>12 DEF IInv

\* A reset leaves no fence.
LEMMA ResetKeeps == ASSUME IInv, Types', PrepareReset \/ FinishReset PROVE IInv'
<1>1. CASE PrepareReset
  <2>1. Modes'
    BY <1>1 DEF PrepareReset, Signaled, IInv, Modes, lists
  <2> QED BY <1>1, <2>1, Unmoved DEF PrepareReset
<1>2. CASE FinishReset
  <2>1. /\ waitList' = <<>> /\ fenceList' = <<>> /\ gone' = gone \union Created
        /\ waiting' = 0 /\ retired' = <<>> /\ syncThread' = FALSE /\ thread' = "done"
        /\ main' = "idle" /\ UNCHANGED <<fence, ctx, passed, calls>>
    BY <1>2 DEF FinishReset, IInv, Modes
  <2>2. Listed' = {} /\ Waited' = {} /\ Range(waitList') = {} /\ Range(fenceList') = {}
        /\ Range(retired') = {} /\ Created' = Created
    BY <2>1 DEF Listed, Waited, Range, Created
  <2>3. Increasing(<<>>)
    BY DEF Increasing
  <2>4. InOrder'
    BY <2>1, <2>2, <2>3 DEF InOrder, Below
  <2>5. Modes' /\ AllPassed' /\ Contexted' /\ NoneLost'
    BY <2>1, <2>2 DEF Modes, AllPassed, Contexted, NoneLost, Owed
  <2> QED BY <2>4, <2>5 DEF IInv
<1> QED BY <1>1, <1>2

-----------------------------------------------------------------------------
(* The sync thread. *)

\* Tail and Head, position by position.
LEMMA TailIs ==
  ASSUME NEW D, NEW s \in Seq(D), Len(s) \in Nat \ {0}
  PROVE  /\ Tail(s) = [k \in 1 .. Len(s) - 1 |-> s[k + 1]]
         /\ Head(s) = s[1] /\ \A f \in DOMAIN s : s[f] \in D
<1>1. DOMAIN Tail(s) = 1 .. Len(s) - 1 /\ \A k \in 1 .. Len(s) - 1 : Tail(s)[k] = s[k + 1]
  OBVIOUS
<1>2. Tail(s) \in [1 .. Len(s) - 1 -> D]
  <2>1. Tail(s) \in Seq(D) /\ Len(Tail(s)) = Len(s) - 1
    OBVIOUS
  <2> DEFINE t == Tail(s)
  <2>2. t \in Seq(D) /\ Len(t) = Len(s) - 1
    BY <2>1
  <2> HIDE DEF t
  <2>3. t \in [1 .. Len(t) -> D]
    BY <2>2
  <2> QED BY <2>2, <2>3 DEF t
<1>3. Tail(s) = [k \in 1 .. Len(s) - 1 |-> s[k + 1]]
  <2> DEFINE t == Tail(s)  n == Len(s) - 1
  <2>1. t \in [1 .. n -> D] /\ \A k \in 1 .. n : t[k] = s[k + 1]
    BY <1>1, <1>2
  <2> HIDE DEF t, n
  <2>2. t = [k \in 1 .. n |-> t[k]]
    BY <2>1, Zenon
  <2>3. t = [k \in 1 .. n |-> s[k + 1]]
    BY <2>1, <2>2, Zenon
  <2> QED BY <2>3 DEF t, n
<1>4. Head(s) = s[1] /\ \A f \in DOMAIN s : s[f] \in D
  OBVIOUS
<1> QED BY <1>3, <1>4

\* The thread takes the first fence of the wait list, the oldest on it.
LEMMA TakeKeeps ==
  ASSUME IInv, Types', waitList # <<>>, TakeFence(1), thread \notin {"waiting", "done"},
         UNCHANGED <<fence, ctx, passed, fenceList, syncThread, main, retired, live, calls, gone>>
  PROVE  IInv'
<1>1. /\ waitList \in Seq(Created) /\ Increasing(waitList) /\ Len(waitList) \in Nat \ {0}
      /\ Created \in SUBSET Nat /\ 0 \notin Created
  BY ElementsCreated DEF IInv, Types, InOrder
<1>2. waiting' = Head(waitList) /\ waitList' = Tail(waitList) /\ thread' = "waiting"
  <2>1. \A k \in 1 .. Len(waitList) - 1 : ~(k < 1)
    BY <1>1
  <2>2. waitList' = [k \in 1 .. Len(waitList) - 1 |-> waitList[k + 1]]
    BY <2>1 DEF TakeFence
  <2>3. Tail(waitList) = [k \in 1 .. Len(waitList) - 1 |-> waitList[k + 1]] /\ Head(waitList) = waitList[1]
    BY <1>1, TailIs
  <2> QED BY <2>2, <2>3 DEF TakeFence
<1>3. /\ Range(waitList) = {waiting'} \union Range(waitList') /\ Increasing(waitList')
      /\ \A f \in Range(waitList') : waiting' < f
      /\ waitList' \in Seq(Created) /\ waiting' \in Created
  BY <1>1, <1>2, Tails
<1>4. stor' = 0 \/ (waitList' # <<>> /\ stor' = Head(waitList'))
  BY <1>1, <1>2 DEF TakeFence
<1>5. stor' \in Range(waitList') => \A f \in Range(waitList') : stor' <= f
  <2>1. CASE stor' = 0
    <3>1. Range(waitList') \subseteq Created
      <4>1. Range(waitList) \subseteq Created
        BY ElementsCreated DEF IInv
      <4> QED BY <1>3, <4>1
    <3> QED BY <1>1, <2>1, <3>1
  <2>2. CASE waitList' # <<>> /\ stor' = Head(waitList')
    <3>1. \A f \in Range(waitList') : f = stor' \/ stor' < f
      BY <1>3, <2>2, Tails
    <3>2. \A f \in Range(waitList') : f \in Nat
      <4>1. Range(waitList) \subseteq Created
        BY ElementsCreated DEF IInv
      <4> QED BY <1>1, <1>3, <4>1
    <3> QED BY <3>1, <3>2
  <2> QED BY <1>4, <2>1, <2>2
<1>6. Waited = {} /\ Waited' = {waiting'} /\ waiting = 0 /\ syncThread
  BY <1>1, <1>3 DEF IInv, Modes, Waited
<1>7. Listed' = Listed /\ Created' = Created
  BY <1>3, <1>6 DEF Listed, Created
<1>8. InOrder'
  <2>1. InOrder
    BY DEF IInv
  <2>2. Below(Range(calls'), Range(retired') \union Listed') /\ Below(Range(retired'), Listed')
    BY <1>7, <2>1 DEF InOrder
  <2>3. Below(Range(fenceList'), Waited' \union Range(waitList')) /\ Below(Waited', Range(waitList'))
    BY <1>3, <1>6, <2>1 DEF InOrder, Below
  <2> QED BY <1>3, <1>5, <2>1, <2>2, <2>3 DEF InOrder
<1>9. Modes'
  BY <1>2, <1>6 DEF IInv, Modes
<1>10. Contexted' /\ AllPassed'
  BY <1>7 DEF IInv, Contexted, AllPassed
<1>11. NoneLost'
  BY <1>7 DEF IInv, NoneLost, Merged, Owed
<1> QED BY <1>8, <1>9, <1>10, <1>11 DEF IInv

\* The fence it reports is younger than all on fence_list.
LEMMA ReportKeeps == ASSUME IInv, Types', ThreadReport PROVE IInv'
<1>1. /\ waiting \in passed /\ thread = "waiting" /\ thread' = "notify" /\ waiting' = 0
      /\ fenceList' = Append(fenceList, waiting)
      /\ UNCHANGED <<fence, ctx, passed, waitList, syncThread, stor, main, retired, live, calls, gone>>
  BY DEF ThreadReport
<1>2. /\ fenceList \in Seq(Created) /\ Increasing(fenceList) /\ waiting \in Created
      /\ Created \in SUBSET Nat /\ 0 \notin Created
  BY <1>1, ElementsCreated DEF IInv, Types, InOrder
<1>3. Waited = {waiting} /\ Waited' = {} /\ Created' = Created
  BY <1>1, <1>2 DEF Waited, Created
<1>4. \A f \in Range(fenceList) : f < waiting
  BY <1>3 DEF IInv, InOrder, Below
<1>5. Range(fenceList') = Range(fenceList) \union {waiting} /\ Increasing(fenceList')
  BY <1>1, <1>2, <1>4, Appended
<1>6. Listed' = Listed
  BY <1>1, <1>3, <1>5 DEF Listed
<1>7. InOrder'
  <2>1. InOrder
    BY DEF IInv
  <2>2. Below(Range(calls'), Range(retired') \union Listed') /\ Below(Range(retired'), Listed')
    BY <1>1, <1>6, <2>1 DEF InOrder
  <2>3. Below(Range(fenceList'), Waited' \union Range(waitList')) /\ Below(Waited', Range(waitList'))
    BY <1>1, <1>3, <1>5, <2>1 DEF InOrder, Below
  <2> QED BY <1>1, <1>5, <2>1, <2>2, <2>3 DEF InOrder
<1>8. Modes' /\ AllPassed'
  BY <1>1, <1>5 DEF IInv, Modes, AllPassed
<1>9. Contexted'
  BY <1>1, <1>3, <1>6 DEF IInv, Contexted
<1>10. NoneLost'
  BY <1>1, <1>3, <1>6 DEF IInv, NoneLost, Merged, Owed
<1> QED BY <1>7, <1>8, <1>9, <1>10 DEF IInv

\* Each step of the thread: where it goes on with a remembered fence, that one is the
\* oldest of the wait list too.
LEMMA ThreadKeeps == ASSUME IInv, Types', SyncThread \/ SpuriousWakeUp PROVE IInv'
<1> USE DEF SyncThread
<1>1. CASE ThreadScan
  <2>1. CASE UNCHANGED <<lists, stor>> /\ thread' \in {"done", "cond"}
    <3>1. Modes'
      BY <1>1, <2>1 DEF ThreadScan, IInv, Modes, lists
    <3> QED BY <1>1, <2>1, <3>1, Unmoved DEF ThreadScan
  <2>2. CASE waitList # <<>> /\ TakeFence(1) /\ UNCHANGED fenceList
    BY <1>1, <2>2, TakeKeeps DEF ThreadScan
  <2> QED BY <1>1, <2>1, <2>2 DEF ThreadScan
<1>2. CASE SpuriousWakeUp \/ ThreadNotify
  <2>1. Modes'
    BY <1>2 DEF SpuriousWakeUp, ThreadNotify, IInv, Modes, lists
  <2> QED BY <1>2, <2>1, Unmoved DEF SpuriousWakeUp, ThreadNotify
<1>3. CASE ThreadResume
  <2>1. CASE UNCHANGED <<lists, stor>> /\ thread' \in {"top", "crashed"}
    <3>1. Modes'
      BY <1>3, <2>1 DEF ThreadResume, IInv, Modes, lists
    <3> QED BY <1>3, <2>1, <3>1, Unmoved DEF ThreadResume
  <2>2. CASE \E i \in DOMAIN waitList : waitList[i] = stor /\ TakeFence(i) /\ UNCHANGED fenceList
    <3>1. PICK i \in DOMAIN waitList : waitList[i] = stor /\ TakeFence(i) /\ UNCHANGED fenceList
      BY <2>2
    <3>2. waitList \in Seq(Created) /\ Increasing(waitList) /\ Created \in SUBSET Nat
      BY ElementsCreated DEF IInv, Types, InOrder
    <3>3. 1 \in DOMAIN waitList /\ i \in Nat /\ 1 <= i /\ waitList # <<>>
      BY <3>2
    <3>4. stor <= waitList[1]
      <4>1. stor \in Range(waitList) /\ waitList[1] \in Range(waitList)
        BY <3>1, <3>3 DEF Range
      <4> QED BY <4>1 DEF IInv, InOrder
    <3>5. i = 1
      <4>1. SUFFICES ASSUME 1 < i PROVE FALSE
        BY <3>3
      <4>2. waitList[1] < waitList[i]
        BY <3>2, <3>3, <4>1 DEF Increasing
      <4>3. waitList[1] \in Nat /\ waitList[i] \in Nat
        <5>1. waitList[1] \in Range(waitList) /\ waitList[i] \in Range(waitList)
          BY <3>1, <3>3 DEF Range
        <5> QED BY <5>1, ElementsCreated DEF IInv
      <4> QED BY <3>1, <3>4, <4>2, <4>3
    <3> QED BY <1>3, <3>1, <3>3, <3>5, TakeKeeps DEF ThreadResume
  <2> QED BY <1>3, <2>1, <2>2 DEF ThreadResume
<1> QED BY <1>1, <1>2, <1>3, ReportKeeps

-----------------------------------------------------------------------------
(* Theorems                                                                 *)

\* The invariant holds of every behaviour.
LEMMA InvariantHolds == Spec => []IInv
<1>1. IInv /\ [Next]_vars => IInv'
  <2> SUFFICES ASSUME IInv, [Next]_vars PROVE IInv'
    OBVIOUS
  <2>1. CASE \E c \in Contexts, mergeable \in BOOLEAN : CreateFence(c, mergeable)
    BY <2>1, CreateKeeps
  <2>2. CASE ~ \E c \in Contexts, mergeable \in BOOLEAN : CreateFence(c, mergeable)
    <3>1. Types'
      BY <2>2, OtherTypes DEF IInv
    <3>2. CASE UNCHANGED vars
      <4>1. Modes'
        BY <3>2 DEF vars, IInv, Modes, lists, sync
      <4> QED BY <3>1, <3>2, <4>1, Unmoved DEF vars, sync
    <3>3. CASE \E f \in Created : GpuPasses(f)
      BY <3>1, <3>3, PassesKeeps
    <3>4. CASE \E c \in Contexts : DestroyContext(c)
      BY <3>1, <3>4, DestroyKeeps
    <3>5. CASE Check \/ PrepareReset \/ FinishReset \/ SyncThread \/ SpuriousWakeUp
      BY <3>1, <3>5, CheckKeeps, ResetKeeps, ThreadKeeps
    <3> QED BY <2>2, <3>2, <3>3, <3>4, <3>5 DEF Next, Crashed
  <2> QED BY <2>1, <2>2
<1> QED BY Initially, <1>1, PTL DEF Spec

\* The types of the state: the lists of vrend_state only ever hold fences that
\* vrend_renderer_create_fence made.
THEOREM TypesHold == Spec => []TypeOK
<1>1. Types => TypeOK
  <2> SUFFICES ASSUME Types PROVE TypeOK
    OBVIOUS
  <2>1. ctx \in [Created -> Contexts \union {NoContext}]
    <3> DEFINE D == Contexts \union {NoContext}
    <3>1. ctx \in Seq(D) /\ Len(ctx) = Len(fence)
      BY DEF Types
    <3> HIDE DEF D
    <3>2. ctx \in [1 .. Len(ctx) -> D]
      BY <3>1
    <3> QED BY <3>1, <3>2 DEF Created, D
  <2> QED BY <2>1 DEF Types, TypeOK
<1> QED BY <1>1, InvariantHolds, PTL DEF IInv

\* A fence on a list has the context it was made for, or none, and that context exists:
\* vrend_destroy_context leaves no fence of its own behind.
THEOREM OwnersAreLive == Spec => []OwnersLive
<1>1. IInv /\ TypeOK => OwnersLive
  BY DEF IInv, Contexted, Listed, Waited, OwnersLive
<1> QED BY <1>1, InvariantHolds, TypesHold, PTL

\* No owed fence is lost between the lists, the sync thread and the merging of
\* need_fence_retire_signal_locked.
THEOREM FencesAccounted == Spec => []Accounted
<1>1. IInv => Accounted
  BY DEF IInv, NoneLost, Merged, Accounted, Listed, Waited
<1> QED BY <1>1, InvariantHolds, PTL

\* No wake-up of the poller is lost, although flush_eventfd and the write of the eventfd
\* are outside fence_mutex.
THEOREM SignalsReach == Spec => []SignalReachesFd
<1>1. Init => SignalReachesFd
  BY DEF Init, SignalReachesFd
<1>2. IInv /\ IInv' /\ SignalReachesFd /\ [Next]_vars => SignalReachesFd'
  <2> SUFFICES ASSUME IInv, IInv', SignalReachesFd, [Next]_vars PROVE SignalReachesFd'
    OBVIOUS
  <2> USE DEF SignalReachesFd
  <2>1. ASSUME NEW c \in Contexts, NEW mergeable \in BOOLEAN, CreateFence(c, mergeable)
        PROVE  SignalReachesFd'
    BY <2>1 DEF CreateFence, Signaled, IInv, Modes
  <2>2. CASE Check
    BY <2>2 DEF Check, CheckFlush, CheckDrain, CheckPoll, Retire, lists, sync
  <2>3. ASSUME NEW c \in Contexts, DestroyContext(c) PROVE SignalReachesFd'
    <3> DEFINE S == {i \in DOMAIN fenceList : ctx[fenceList[i]] # c}
    <3>1. fenceList' = Kept(fenceList, S)
      BY <2>3 DEF DestroyContext, WithoutContext
    <3>2. /\ Range(Kept(fenceList, S)) = {fenceList[i] : i \in S}
          /\ Kept(fenceList, S) \in Seq(Created)
      <4>1. fenceList \in Seq(Created) /\ S \in SUBSET DOMAIN fenceList
        BY DEF IInv, Types
      <4> HIDE DEF S
      <4> QED BY <4>1, KeptIs
    <3>3. fenceList = <<>> => S = {}
      OBVIOUS
    <3> HIDE DEF S
    <3>4. fenceList = <<>> => DOMAIN fenceList' = {}
      BY <3>1, <3>2, <3>3 DEF Range
    <3>5. fenceList = <<>> => fenceList' = <<>>
      BY <3>1, <3>2, <3>4
    <3> QED BY <2>3, <3>5 DEF DestroyContext, sync
  <2>4. CASE PrepareReset \/ FinishReset
    BY <2>4 DEF PrepareReset, FinishReset, Signaled, lists, sync
  <2>5. CASE SyncThread
    BY <2>5 DEF SyncThread, ThreadScan, ThreadReport, ThreadNotify, ThreadResume, TakeFence, lists
  <2>6. CASE SpuriousWakeUp \/ UNCHANGED vars
    BY <2>6 DEF SpuriousWakeUp, vars, lists, sync
  <2>7. ASSUME NEW f \in Created, GpuPasses(f) PROVE SignalReachesFd'
    BY <2>7 DEF GpuPasses, lists, sync
  <2> QED BY <2>1, <2>2, <2>3, <2>4, <2>5, <2>6, <2>7 DEF Next, Crashed
<1> QED BY <1>1, <1>2, InvariantHolds, PTL DEF Spec

-----------------------------------------------------------------------------
(* The refinement                                                           *)

\* What is owed depends on creation, calls and destruction only.
LEMMA SameOwed == ASSUME UNCHANGED <<fence, calls, gone>> PROVE UNCHANGED Owed
  BY DEF Owed, Created

\* Creating a fence submits one.
LEMMA CreateSubmits ==
  ASSUME IInv, NEW c \in Contexts, NEW mergeable \in BOOLEAN, CreateFence(c, mergeable)
  PROVE  Timeline!Submit(c, mergeable)
<1> DEFINE n == Len(fence) + 1
<1>1. /\ Created' = Created \union {n} /\ fence'[n] = [ctx |-> c, mergeable |-> mergeable]
      /\ \A f \in Created : fence'[f] = fence[f] /\ f < n
  BY CreateTypes DEF IInv
<1>2. /\ UNCHANGED <<passed, calls, gone>>
      /\ fence' = Append(fence, [ctx |-> c, mergeable |-> mergeable])
  BY DEF CreateFence
<1>3. n \notin Created /\ gone \subseteq Created /\ \A k \in DOMAIN calls : calls[k] \in Created
  BY DEF IInv, Types, Created
<1> HIDE DEF n
<1>4. n \in Owed'
  BY <1>1, <1>2, <1>3 DEF Owed
<1>5. \A f \in Created : f \in Owed' <=> f \in Owed
  BY <1>1, <1>2, <1>3 DEF Owed
<1>6. Owed' \subseteq Created' /\ Owed \subseteq Created
  BY DEF Owed
<1>7. Owed' = Owed \union {n}
  BY <1>1, <1>4, <1>5, <1>6
<1> QED BY <1>2, <1>7 DEF Timeline!Submit, n

\* A call of fence_retire answers for its fence and for those merged into it: what is
\* owed and earlier, of the same context, is on no list, hence passed and mergeable.
LEMMA RetireAnswers ==
  ASSUME IInv, Retire, retired # <<>>
  PROVE  Head(retired) \in Owed /\ Timeline!Retire(Head(retired))
<1> DEFINE h == Head(retired)
           Answered == {g \in Owed : fence[g].ctx = fence[h].ctx /\ g <= h}
<1>1. /\ calls' = Append(calls, h) /\ retired' = Tail(retired)
      /\ UNCHANGED <<fence, ctx, passed, lists, gone>>
  BY DEF Retire
<1>2. /\ h \in Range(retired) /\ \A x \in Range(retired) : x = h \/ h < x
  BY Tails DEF IInv, Types, InOrder
<1>3. Range(calls') = Range(calls) \union {h}
  BY <1>1, Appended DEF IInv, Types
<1>4. /\ Created \in SUBSET Nat /\ h \in Created /\ Range(calls) \subseteq Created
      /\ Listed \subseteq Created /\ Range(retired) \subseteq Created
  BY <1>2, ElementsCreated DEF IInv
<1> HIDE DEF h
<1>5. h \in Owed
  <2>1. h \notin gone
    BY <1>2 DEF IInv, Contexted
  <2>2. \A x \in Range(calls) : x < h
    BY <1>2 DEF IInv, InOrder, Below
  <2> QED BY <1>4, <2>1, <2>2 DEF Owed, Range
<1>6. \A g \in Answered : g \in passed /\ (g # h => fence[g].mergeable)
  <2> SUFFICES ASSUME NEW g \in Answered PROVE g \in passed /\ (g # h => fence[g].mergeable)
    OBVIOUS
  <2>1. g \in Owed /\ g \in Nat /\ h \in Nat /\ ~(h < g)
    BY <1>4 DEF Owed
  <2>2. CASE Merged(g)
    BY <2>2 DEF Merged
  <2>3. CASE g \in Listed
    BY <1>2, <2>1, <2>3 DEF IInv, InOrder, Below
  <2>4. CASE g \in Range(retired)
    BY <1>2, <2>1, <2>4 DEF IInv, AllPassed
  <2> QED BY <2>1, <2>2, <2>3, <2>4 DEF IInv, NoneLost
<1>7. Owed' = Owed \ Answered
  <2>1. Created' = Created
    BY <1>1 DEF Created
  <2>2. \A f \in Created : f \in Owed <=>
          f \notin gone /\ \A x \in Range(calls) : fence[x].ctx = fence[f].ctx => x < f
    BY DEF Owed, Range
  <2>3. \A f \in Created : f \in Owed' <=>
          f \notin gone /\ \A x \in Range(calls') : fence[x].ctx = fence[f].ctx => x < f
    BY <1>1, <2>1 DEF Owed, Range
  <2>4. \A f \in Created : f \in Owed' <=> f \in Owed /\ (fence[h].ctx = fence[f].ctx => h < f)
    BY <1>3, <2>2, <2>3
  <2>5. \A f \in Created : h < f <=> ~(f <= h)
    BY <1>4
  <2> QED BY <2>1, <2>4, <2>5 DEF Owed
<1>8. Timeline!AnsweredWith(h) = Answered
  BY DEF Timeline!AnsweredWith, Timeline!Owner
<1> HIDE DEF Answered
<1>9. Timeline!Retire(h)
  BY <1>1, <1>6, <1>7, <1>8 DEF Timeline!Retire
<1> QED BY <1>5, <1>9 DEF h

\* A destroyed context takes its fences along, and at most one other.
LEMMA DestroyDestroys ==
  ASSUME IInv, NEW c \in Contexts, DestroyContext(c)
  PROVE  c # Ctx0 /\ Timeline!Destroy(c)
<1>1. c # Ctx0 /\ UNCHANGED <<fence, passed, calls>>
  BY DEF DestroyContext
<1>2. gone' = gone \union OfContext(c) \union Waited
  <2>1. ~syncThread => Waited = {}
    BY DEF IInv, Modes, Waited
  <2> QED BY <2>1 DEF DestroyContext, Waited
<1>3. \A f \in Owed : fence[f].ctx = c <=> f \in OfContext(c)
  BY DEF Owed, OfContext, IInv, Contexted
<1> DEFINE lost == Owed \intersect Waited
<1>4. Owed' = {f \in Owed : fence[f].ctx # c} \ lost
  <2>1. Created' = Created
    BY <1>1 DEF Created
  <2>2. Owed' = {f \in Owed : f \notin gone'}
    BY <1>1, <1>2, <2>1 DEF Owed
  <2>3. \A f \in Owed : f \notin gone
    BY DEF Owed
  <2> QED BY <1>2, <1>3, <2>2, <2>3
<1>5. lost \in SUBSET Owed /\ \A f, g \in lost : f = g
  BY DEF Waited
<1> HIDE DEF lost
<1> QED BY <1>1, <1>4, <1>5 DEF Timeline!Destroy, Timeline!Owner

\* Fences retire in order, after the GPU passed them and the earlier ones of their
\* context, and only mergeable ones are skipped: what virgl_context.h promises of
\* fence_retire, which vrend_renderer_check_fences calls.
THEOREM FencesImplementTimeline == Spec => Retirement
<1>1. Init => Timeline!Init
  BY DEF Init, Timeline!Init, Owed, Created
<1>2. IInv /\ [Next]_vars => [Timeline!Next]_(Timeline!timelineVars)
  <2> SUFFICES ASSUME IInv, [Next]_vars PROVE [Timeline!Next]_(Timeline!timelineVars)
    OBVIOUS
  <2>1. ASSUME UNCHANGED <<fence, passed, calls, gone>> PROVE UNCHANGED Timeline!timelineVars
    BY <2>1, SameOwed DEF Timeline!timelineVars
  <2>2. ASSUME NEW c \in Contexts, NEW mergeable \in BOOLEAN, CreateFence(c, mergeable)
        PROVE  Timeline!Next
    BY <2>2, CreateSubmits DEF Timeline!Next
  <2>3. CASE CheckFlush \/ CheckDrain \/ CheckPoll
    BY <2>1, <2>3 DEF CheckFlush, CheckDrain, CheckPoll
  <2>4. CASE Retire
    <3>1. CASE retired = <<>>
      BY <2>1, <2>4, <3>1 DEF Retire
    <3>2. CASE retired # <<>>
      BY <2>4, <3>2, RetireAnswers DEF Timeline!Next
    <3> QED BY <3>1, <3>2
  <2>5. ASSUME NEW c \in Contexts, DestroyContext(c) PROVE Timeline!Next
    BY <2>5, DestroyDestroys DEF Timeline!Next
  <2>6. CASE PrepareReset
    BY <2>1, <2>6 DEF PrepareReset
  <2>7. CASE FinishReset
    <3>1. Owed' = {} /\ UNCHANGED <<fence, passed, calls>>
      BY <2>7 DEF FinishReset, Owed, Created
    <3> QED BY <3>1 DEF Timeline!Next, Timeline!Reset
  <2>8. CASE SyncThread \/ SpuriousWakeUp
    BY <2>1, <2>8 DEF SyncThread, SpuriousWakeUp, ThreadScan, ThreadReport, ThreadNotify, ThreadResume
  <2>9. CASE UNCHANGED vars
    BY <2>1, <2>9 DEF vars
  <2>10. ASSUME NEW f \in Created, GpuPasses(f) PROVE Timeline!Next
    <3>1. Timeline!Signal(f)
      BY <2>10, SameOwed DEF GpuPasses, Timeline!Signal
    <3> QED BY <3>1 DEF Timeline!Next, Created
  <2> QED BY <2>2, <2>3, <2>4, <2>5, <2>6, <2>7, <2>8, <2>9, <2>10 DEF Next, Check, Crashed
<1> QED BY <1>1, <1>2, InvariantHolds, PTL DEF Spec, Retirement, Timeline!Spec
=============================================================================
