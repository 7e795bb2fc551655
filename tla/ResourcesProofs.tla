-------------------------- MODULE ResourcesProofs --------------------------
(***************************************************************************)
(* What a context of vrend finds under a handle is the living resource of  *)
(* the table, what it remembers of untyped resources lives, and a          *)
(* reference count is the number of those who hold the resource, for any   *)
(* number of handles, contexts and resources.                              *)
(***************************************************************************)
EXTENDS Resources, FiniteSetTheorems, TLAPS

\* The part of TypeOK that the argument needs; the counts are left out.
Types ==
  /\ obj \in Seq([id : Handles \union {NoHandle}, kind : {"typed", "guest", "dmabuf"}])
  /\ table \in [Handles -> Objects \union {0}]
  /\ live \subseteq Contexts
  /\ resHash \in [Contexts -> [Handles -> Objects \union {0}]]
  /\ cache \in [Contexts -> Objects \union {0}]
  /\ parked \in [Contexts -> SUBSET Objects]
  /\ unclaimed \in [Contexts -> SUBSET Objects]

\* A resource knows the handle it has in the table, so it has no other.
IdsAgree == \A h \in Handles : table[h] # 0 => obj[table[h]].id = h

\* What waits for its blob has no handle yet, is typed, and waits on one list.
UnclaimedNameless ==
  \A c \in Contexts : \A n \in unclaimed[c] :
    /\ obj[n].id = NoHandle /\ obj[n].kind = "typed"
    /\ \A b \in Contexts : n \in unclaimed[b] => b = c

\* A context that does not exist finds nothing.
DeadFindNothing == \A c \in Contexts \ live, h \in Handles : resHash[c][h] = 0

LookupInv == Types /\ IdsAgree /\ UnclaimedNameless /\ DeadFindNothing /\ LookupsCurrent

-----------------------------------------------------------------------------
\* Nothing is known initially.
LEMMA LookupInit == Init => LookupInv
  BY ResourcesAssumption DEF Init, LookupInv, Types, IdsAgree, UnclaimedNameless,
     DeadFindNothing, LookupsCurrent, Objects

\* A new resource is appended and given to the table under a free handle.
LEMMA NewInTable ==
  ASSUME LookupInv, NEW h \in Handles, table[h] = 0,
         NEW kind \in {"typed", "guest", "dmabuf"},
         obj' = Append(obj, [id |-> h, kind |-> kind]),
         table' = [table EXCEPT ![h] = Len(obj) + 1],
         UNCHANGED <<live, tables, unclaimed>>
  PROVE  LookupInv'
<1> USE DEF LookupInv, Types, Objects, tables
<1>1. /\ obj' \in Seq([id : Handles \union {NoHandle}, kind : {"typed", "guest", "dmabuf"}])
      /\ Len(obj') = Len(obj) + 1
      /\ \A n \in 1..Len(obj) : obj'[n] = obj[n]
      /\ obj'[Len(obj) + 1] = [id |-> h, kind |-> kind]
  OBVIOUS
<1>2. Types'
  BY <1>1
<1>3. IdsAgree'
  BY <1>1 DEF IdsAgree
<1>4. UnclaimedNameless'
  BY <1>1 DEF UnclaimedNameless
<1>5. DeadFindNothing'
  BY DEF DeadFindNothing
<1>6. LookupsCurrent'
  <2> SUFFICES ASSUME NEW c \in Contexts, NEW g \in Handles, resHash[c][g] # 0
               PROVE  resHash[c][g] = table'[g] /\ Typed(table[g])'
    BY DEF LookupsCurrent
  <2>1. resHash[c][g] = table[g] /\ Typed(table[g]) /\ table[g] \in 1..Len(obj)
    BY DEF LookupsCurrent, Typed
  <2>2. g # h
    BY <2>1 DEF Typed
  <2> QED
    BY <1>1, <2>1, <2>2 DEF Typed
<1> QED
  BY <1>2, <1>3, <1>4, <1>5, <1>6

\* Detaching a resource removes it from res_hash, where only a typed one can be.
LEMMA DetachEmpties ==
  ASSUME LookupInv, NEW C \in SUBSET live, NEW h \in Handles, table[h] # 0, DetachFrom(C, h)
  PROVE  /\ resHash' \in [Contexts -> [Handles -> Objects \union {0}]]
         /\ cache' \in [Contexts -> Objects \union {0}]
         /\ parked' \in [Contexts -> SUBSET Objects]
         /\ \A c \in C : resHash'[c][h] = 0
         /\ \A c \in Contexts, g \in Handles : resHash'[c][g] \in {0, resHash[c][g]}
<1> USE DEF LookupInv, Types
<1>1. CASE Typed(table[h])
  BY <1>1 DEF DetachFrom
<1>2. CASE ~Typed(table[h])
  <2>1. \A c \in Contexts : resHash[c][h] = 0
    BY <1>2 DEF LookupsCurrent
  <2> QED
    BY <1>2, <2>1 DEF DetachFrom
<1> QED
  BY <1>1, <1>2

\* What the destruction of contexts leaves is a part of what there was.
LEMMA DestroyedEmpties ==
  ASSUME LookupInv, NEW C \in SUBSET live, Destroyed(C), UNCHANGED obj
  PROVE  /\ live' \subseteq Contexts
         /\ resHash' \in [Contexts -> [Handles -> Objects \union {0}]]
         /\ cache' \in [Contexts -> Objects \union {0}]
         /\ parked' \in [Contexts -> SUBSET Objects]
         /\ unclaimed' \in [Contexts -> SUBSET Objects]
         /\ UnclaimedNameless'
         /\ DeadFindNothing'
         /\ \A c \in Contexts, g \in Handles : resHash'[c][g] \in {0, resHash[c][g]}
         /\ C = live => \A c \in Contexts, g \in Handles : resHash'[c][g] = 0
<1> USE DEF LookupInv, Types, Destroyed
<1>1. /\ live' \subseteq Contexts
      /\ resHash' \in [Contexts -> [Handles -> Objects \union {0}]]
      /\ cache' \in [Contexts -> Objects \union {0}]
      /\ parked' \in [Contexts -> SUBSET Objects]
      /\ unclaimed' \in [Contexts -> SUBSET Objects]
  OBVIOUS
<1>2. UnclaimedNameless'
  BY DEF UnclaimedNameless
<1>3. DeadFindNothing'
  BY DEF DeadFindNothing
<1>4. \A c \in Contexts, g \in Handles : resHash'[c][g] \in {0, resHash[c][g]}
  OBVIOUS
<1>5. C = live => \A c \in Contexts, g \in Handles : resHash'[c][g] = 0
  BY DEF DeadFindNothing
<1> QED
  BY <1>1, <1>2, <1>3, <1>4, <1>5

\* A resource that waits for its blob is given a handle.
LEMMA BlobInTable ==
  ASSUME LookupInv, NEW h \in Handles, NEW c \in Contexts, CreateBlobTyped(h, c)
  PROVE  LookupInv'
<1> USE DEF LookupInv, Types, Objects, CreateBlobTyped, tables
<1>1. PICK n \in unclaimed[c] :
        /\ table' = [table EXCEPT ![h] = n]
        /\ obj' = [obj EXCEPT ![n] = [id |-> h, kind |-> "typed"]]
        /\ unclaimed' = [unclaimed EXCEPT ![c] = @ \ {n}]
  OBVIOUS
<1>2. /\ n \in 1..Len(obj) /\ obj[n].id = NoHandle /\ obj[n].kind = "typed"
      /\ table[h] = 0
      /\ \A g \in Handles : table[g] # n
  BY ResourcesAssumption DEF UnclaimedNameless, IdsAgree, Free
<1>3. /\ obj' \in Seq([id : Handles \union {NoHandle}, kind : {"typed", "guest", "dmabuf"}])
      /\ Len(obj') = Len(obj)
      /\ \A k \in 1..Len(obj) : k # n => obj'[k] = obj[k]
      /\ obj'[n].id = h /\ obj'[n].kind = "typed"
  BY <1>1, <1>2
<1>4. Types'
  BY <1>1, <1>2, <1>3
<1>5. IdsAgree'
  BY <1>1, <1>2, <1>3 DEF IdsAgree
<1>6. UnclaimedNameless'
  <2> SUFFICES ASSUME NEW b \in Contexts, NEW k \in unclaimed'[b]
               PROVE  /\ obj'[k].id = NoHandle /\ obj'[k].kind = "typed"
                      /\ \A d \in Contexts : k \in unclaimed'[d] => d = b
    BY DEF UnclaimedNameless
  <2>1. k \in unclaimed[b] /\ k \in 1..Len(obj) /\ k # n
    BY <1>1 DEF UnclaimedNameless
  <2> QED
    BY <1>3, <2>1 DEF UnclaimedNameless
<1>7. DeadFindNothing'
  BY DEF DeadFindNothing
<1>8. LookupsCurrent'
  BY <1>1, <1>2, <1>3 DEF LookupsCurrent, Typed
<1> QED
  BY <1>4, <1>5, <1>6, <1>7, <1>8

\* A resource of the list without a handle is created for a context.
LEMMA PipeOnList ==
  ASSUME LookupInv, NEW c \in Contexts, PipeResourceCreate(c)
  PROVE  LookupInv'
<1> USE DEF LookupInv, Types, Objects, PipeResourceCreate, New, tables
<1>1. /\ obj' \in Seq([id : Handles \union {NoHandle}, kind : {"typed", "guest", "dmabuf"}])
      /\ Len(obj') = Len(obj) + 1
      /\ \A n \in 1..Len(obj) : obj'[n] = obj[n]
      /\ obj'[Len(obj) + 1] = [id |-> NoHandle, kind |-> "typed"]
  OBVIOUS
<1>2. Types'
  BY <1>1
<1>3. IdsAgree'
  BY <1>1 DEF IdsAgree
<1>4. UnclaimedNameless'
  <2> SUFFICES ASSUME NEW b \in Contexts, NEW k \in unclaimed'[b]
               PROVE  /\ obj'[k].id = NoHandle /\ obj'[k].kind = "typed"
                      /\ \A d \in Contexts : k \in unclaimed'[d] => d = b
    BY DEF UnclaimedNameless
  <2>1. CASE k = Len(obj) + 1
    BY <1>1, <2>1
  <2>2. CASE k # Len(obj) + 1
    BY <1>1, <2>2 DEF UnclaimedNameless
  <2> QED
    BY <2>1, <2>2
<1>5. DeadFindNothing'
  BY DEF DeadFindNothing
<1>6. LookupsCurrent'
  BY <1>1 DEF LookupsCurrent, Typed
<1> QED
  BY <1>2, <1>3, <1>4, <1>5, <1>6

\* SET_TYPE binds the resource under the handle that the table has for it.
LEMMA TypeInHash ==
  ASSUME LookupInv, NEW c \in Contexts, NEW n \in Objects, SetType(c, n)
  PROVE  LookupInv'
<1> USE DEF LookupInv, Types, Objects, SetType, tables
<1>1. PICK h \in Handles : table[h] = n /\ obj[n].id = h
  BY DEF Readable, Attached, IdsAgree
<1>2. /\ cache' \in [Contexts -> Objects \union {0}]
      /\ parked' \in [Contexts -> SUBSET Objects]
  OBVIOUS
<1>3. CASE obj' = obj /\ resHash' = resHash
  BY <1>2, <1>3 DEF IdsAgree, UnclaimedNameless, DeadFindNothing, LookupsCurrent, Typed
<1>4. CASE /\ Typed(n)' /\ Len(obj') = Len(obj) /\ obj'[n].id = h
           /\ \A k \in 1..Len(obj) : k # n => obj'[k] = obj[k]
           /\ obj' \in Seq([id : Handles \union {NoHandle},
                             kind : {"typed", "guest", "dmabuf"}])
           /\ resHash' = [resHash EXCEPT ![c][h] = n]
  <2>1. Types'
    BY <1>2, <1>4
  <2>2. IdsAgree'
    BY <1>1, <1>4 DEF IdsAgree
  <2>3. UnclaimedNameless'
    <3>1. \A b \in Contexts : n \notin unclaimed[b]
      BY <1>1, ResourcesAssumption DEF UnclaimedNameless
    <3> QED
      BY <1>4, <3>1 DEF UnclaimedNameless
  <2>4. DeadFindNothing'
    BY <1>4 DEF DeadFindNothing
  <2>5. LookupsCurrent'
    BY <1>1, <1>4 DEF LookupsCurrent, Typed
  <2> QED
    BY <2>1, <2>2, <2>3, <2>4, <2>5
<1>5. CASE Typed(n) /\ obj' = obj /\ resHash' = [resHash EXCEPT ![c][obj[n].id] = n]
  BY <1>1, <1>4, <1>5 DEF Typed
<1>6. CASE /\ obj' = [obj EXCEPT ![n] = [id |-> obj[n].id, kind |-> "typed"]]
           /\ resHash' = [resHash EXCEPT ![c][obj[n].id] = n]
  BY <1>1, <1>4, <1>6 DEF Typed
<1> QED
  BY <1>3, <1>5, <1>6

-----------------------------------------------------------------------------
\* Every step keeps the invariant.
LEMMA LookupStep == LookupInv /\ [Next]_vars => LookupInv'
<1> SUFFICES ASSUME LookupInv, [Next]_vars PROVE LookupInv'
  OBVIOUS
<1>1. ASSUME NEW h \in Handles, ResourceCreate(h) PROVE LookupInv'
  BY <1>1, NewInTable DEF ResourceCreate, New, Free
<1>2. ASSUME NEW h \in Handles, CreateBlobUntyped(h) PROVE LookupInv'
  <2>1. PICK kind \in {"typed", "guest", "dmabuf"} : New(h, kind, 0)
    BY <1>2 DEF CreateBlobUntyped
  <2> QED
    BY <1>2, <2>1, NewInTable DEF CreateBlobUntyped, New, Free
<1>3. ASSUME NEW h \in Handles, ResourceUnref(h) PROVE LookupInv'
  <2> USE DEF LookupInv, Types, Objects
  <2>1. /\ table[h] # 0 /\ DetachFrom(live, h)
        /\ table' = [table EXCEPT ![h] = 0]
        /\ UNCHANGED <<obj, live, unclaimed>>
    BY <1>3 DEF ResourceUnref
  <2>2. /\ resHash' \in [Contexts -> [Handles -> Objects \union {0}]]
        /\ cache' \in [Contexts -> Objects \union {0}]
        /\ parked' \in [Contexts -> SUBSET Objects]
        /\ \A c \in live : resHash'[c][h] = 0
        /\ \A c \in Contexts, g \in Handles : resHash'[c][g] \in {0, resHash[c][g]}
    BY <2>1, DetachEmpties
  <2>3. Types' /\ IdsAgree' /\ UnclaimedNameless'
    BY <2>1, <2>2 DEF IdsAgree, UnclaimedNameless
  <2>4. DeadFindNothing'
    BY <2>1, <2>2 DEF DeadFindNothing
  <2>5. \A c \in Contexts : resHash'[c][h] = 0
    BY <2>1, <2>2, <2>4 DEF DeadFindNothing
  <2>6. LookupsCurrent'
    BY <2>1, <2>2, <2>5 DEF LookupsCurrent, Typed
  <2> QED
    BY <2>3, <2>4, <2>6
<1>4. ASSUME NEW c \in Contexts, ContextCreate(c) PROVE LookupInv'
  BY <1>4 DEF ContextCreate, tables, LookupInv, Types, Objects, IdsAgree, UnclaimedNameless,
     DeadFindNothing, LookupsCurrent, Typed
<1>5. ASSUME NEW c \in Contexts, ContextDestroy(c) PROVE LookupInv'
  <2>1. {c} \in SUBSET live /\ Destroyed({c}) /\ UNCHANGED <<obj, table>>
    BY <1>5 DEF ContextDestroy
  <2>2. /\ Types' /\ UnclaimedNameless' /\ DeadFindNothing'
        /\ \A b \in Contexts, g \in Handles : resHash'[b][g] \in {0, resHash[b][g]}
    BY <2>1, DestroyedEmpties DEF LookupInv, Types, Objects
  <2>3. IdsAgree' /\ LookupsCurrent'
    BY <2>1, <2>2 DEF LookupInv, IdsAgree, LookupsCurrent, Typed
  <2> QED
    BY <2>2, <2>3 DEF LookupInv
<1>6. CASE Reset
  <2>1. /\ live \in SUBSET live /\ Destroyed(live) /\ UNCHANGED obj
        /\ table' = [h \in Handles |-> 0]
    BY <1>6 DEF Reset
  <2>2. /\ Types' /\ UnclaimedNameless' /\ DeadFindNothing'
        /\ \A b \in Contexts, g \in Handles : resHash'[b][g] = 0
    BY <2>1, DestroyedEmpties DEF LookupInv, Types, Objects
  <2>3. IdsAgree' /\ LookupsCurrent'
    BY <2>1, <2>2 DEF LookupInv, IdsAgree, LookupsCurrent
  <2> QED
    BY <2>2, <2>3 DEF LookupInv
<1>7. ASSUME NEW c \in Contexts, NEW h \in Handles, AttachResource(c, h) PROVE LookupInv'
  <2> USE DEF LookupInv, Types
  <2>1. /\ c \in live /\ table[h] \in Objects
        /\ UNCHANGED <<obj, table, live, unclaimed, Objects>>
    BY <1>7 DEF AttachResource, Objects
  <2>2. IdsAgree' /\ UnclaimedNameless'
    BY <2>1 DEF IdsAgree, UnclaimedNameless
  <2>3. CASE Typed(table[h])
    <3>1. resHash' = [resHash EXCEPT ![c][h] = table[h]] /\ UNCHANGED <<cache, parked>>
      BY <1>7, <2>3 DEF AttachResource
    <3>2. Types' /\ DeadFindNothing'
      BY <2>1, <3>1 DEF DeadFindNothing
    <3>3. LookupsCurrent'
      BY <2>1, <2>3, <3>1 DEF LookupsCurrent, Typed
    <3> QED
      BY <2>2, <3>2, <3>3
  <2>4. CASE ~Typed(table[h])
    <3>1. /\ UNCHANGED resHash
          /\ cache' = [cache EXCEPT ![c] = table[h]]
          /\ parked' = [parked EXCEPT ![c] = parked[c] \union ({cache[c]} \ {0})]
      BY <1>7, <2>4 DEF AttachResource
    <3>2. parked[c] \union ({cache[c]} \ {0}) \in SUBSET Objects
      OBVIOUS
    <3>3. Types' /\ DeadFindNothing' /\ LookupsCurrent'
      BY <2>1, <3>1, <3>2 DEF DeadFindNothing, LookupsCurrent, Typed
    <3> QED
      BY <2>2, <3>3
  <2> QED
    BY <2>3, <2>4
<1>8. ASSUME NEW c \in Contexts, NEW h \in Handles, DetachResource(c, h) PROVE LookupInv'
  <2>1. /\ {c} \in SUBSET live /\ table[h] # 0 /\ DetachFrom({c}, h)
        /\ UNCHANGED <<obj, table, live, unclaimed>>
    BY <1>8 DEF DetachResource
  <2>2. Types' /\ \A b \in Contexts, g \in Handles : resHash'[b][g] \in {0, resHash[b][g]}
    BY <2>1, DetachEmpties DEF LookupInv, Types, Objects
  <2>3. IdsAgree' /\ UnclaimedNameless' /\ DeadFindNothing'
    BY <2>1, <2>2 DEF LookupInv, IdsAgree, UnclaimedNameless, DeadFindNothing
  <2>4. LookupsCurrent'
    BY <2>1, <2>2 DEF LookupInv, LookupsCurrent, Typed
  <2> QED
    BY <2>2, <2>3, <2>4 DEF LookupInv
<1>9. ASSUME UNCHANGED <<obj, table, live, tables, unclaimed>> PROVE LookupInv'
  BY <1>9 DEF tables, LookupInv, Types, Objects, IdsAgree, UnclaimedNameless,
     DeadFindNothing, LookupsCurrent, Typed
<1>10. ASSUME NEW c \in Contexts, NEW h \in Handles, CreateView(c, h) \/ SetIndexBuffer(c, h)
       PROVE  LookupInv'
  BY <1>9, <1>10 DEF CreateView, SetIndexBuffer
<1>11. ASSUME NEW c \in Contexts, UnsetIndexBuffer(c) \/ \E n \in Objects : DestroyView(c, n)
       PROVE  LookupInv'
  BY <1>9, <1>11 DEF UnsetIndexBuffer, DestroyView
<1>12. CASE UNCHANGED vars
  BY <1>9, <1>12 DEF vars
<1> QED
  BY <1>1, <1>2, <1>3, <1>4, <1>5, <1>6, <1>7, <1>8, <1>10, <1>11, <1>12,
     PipeOnList, BlobInTable, TypeInHash DEF Next

\* What a context finds under a handle is the resource that the table has there, and it
\* is typed: vrend_renderer_ctx_res_lookup never returns a freed resource, although
\* res_hash owns no reference.
THEOREM LookupsAreCurrent == Spec => []LookupsCurrent
<1>1. LookupInv => LookupsCurrent
  BY DEF LookupInv
<1> QED
  BY <1>1, LookupInit, LookupStep, PTL DEF Spec

-----------------------------------------------------------------------------
\* What a context remembers of untyped resources: its cache and its list.
Remembers(c) == parked[c] \union ({cache[c]} \ {0})

\* A context that does not exist remembers nothing, and none has a resource both in
\* its cache and on its list: detaching looks at one of them only.
RememberedOnce ==
  /\ \A c \in Contexts \ live : Remembers(c) = {}
  /\ \A c \in Contexts : cache[c] \notin parked[c]

ParkedInv == RememberedOnce /\ UntypedParkedExist

\* Nothing is remembered initially.
LEMMA ParkedInit == Init => ParkedInv
  BY DEF Init, ParkedInv, RememberedOnce, Remembers, UntypedParkedExist

\* Steps after which contexts remember no more, what was typed is typed, and every
\* resource of the table that is not typed stays there.
LEMMA ParkedKept ==
  ASSUME LookupInv, ParkedInv,
         \A c \in Contexts : /\ cache'[c] \in {0, cache[c]} /\ parked'[c] \subseteq parked[c]
                             /\ c \notin live' => Remembers(c)' = {},
         LookupInv',
         \A n \in Objects : Typed(n) => Typed(n)',
         \A h \in Handles : table[h] # 0 /\ ~Typed(table[h]) => table'[h] = table[h]
  PROVE  ParkedInv'
<1>1. \A c \in Contexts : Remembers(c)' \subseteq Remembers(c) /\ Remembers(c) \subseteq Objects
  BY DEF Remembers, LookupInv, Types
<1>2. \A c \in Contexts : cache'[c] \notin parked'[c]
  <2> SUFFICES ASSUME NEW c \in Contexts, cache'[c] \in parked'[c] PROVE FALSE
    OBVIOUS
  <2>1. 0 \notin parked[c]
    BY DEF LookupInv, Types, Objects
  <2> QED
    BY <2>1 DEF ParkedInv, RememberedOnce
<1>3. RememberedOnce'
  BY <1>2 DEF RememberedOnce
<1>4. UntypedParkedExist'
  <2> SUFFICES ASSUME NEW c \in Contexts, NEW n \in Remembers(c)', ~Typed(n)'
               PROVE  \E h \in Handles : table'[h] = n
    BY DEF UntypedParkedExist, Remembers
  <2>1. n \in Remembers(c) /\ n \in Objects /\ n # 0 /\ ~Typed(n)
    BY <1>1 DEF Objects, LookupInv, Types
  <2>2. PICK h \in Handles : table[h] = n
    BY <2>1 DEF ParkedInv, UntypedParkedExist, Remembers
  <2> QED
    BY <2>1, <2>2
<1> QED
  BY <1>3, <1>4 DEF ParkedInv

\* Detaching a resource that is not typed makes the contexts C forget it.
LEMMA DetachForgets ==
  ASSUME LookupInv, ParkedInv, NEW C \in SUBSET live, NEW h \in Handles, table[h] # 0,
         DetachFrom(C, h)
  PROVE  \A c \in Contexts :
           /\ cache'[c] \in {0, cache[c]} /\ parked'[c] \subseteq parked[c]
           /\ c \in C /\ ~Typed(table[h]) => table[h] \notin Remembers(c)'
<1> USE DEF LookupInv, Types
<1>1. CASE Typed(table[h])
  BY <1>1 DEF DetachFrom
<1>2. CASE ~Typed(table[h])
  <2> SUFFICES ASSUME NEW c \in Contexts
               PROVE  /\ cache'[c] \in {0, cache[c]} /\ parked'[c] \subseteq parked[c]
                      /\ c \in C => table[h] \notin Remembers(c)'
    OBVIOUS
  <2>1. /\ cache'[c] = IF c \in C /\ cache[c] = table[h] THEN 0 ELSE cache[c]
        /\ parked'[c] = IF c \in C /\ cache[c] # table[h]
                        THEN parked[c] \ {table[h]} ELSE parked[c]
    BY <1>2 DEF DetachFrom
  <2>2. cache[c] \notin parked[c]
    BY DEF ParkedInv, RememberedOnce
  <2> QED
    BY <2>1, <2>2 DEF Remembers
<1> QED
  BY <1>1, <1>2

\* A resource that loses its handle is forgotten by every context first.
LEMMA UnrefForgets ==
  ASSUME LookupInv, ParkedInv, LookupInv', NEW h \in Handles, ResourceUnref(h)
  PROVE  ParkedInv'
<1>1. /\ table[h] # 0 /\ DetachFrom(live, h)
      /\ table' = [table EXCEPT ![h] = 0]
      /\ UNCHANGED <<obj, live>>
  BY DEF ResourceUnref
<1>2. \A c \in Contexts :
        /\ cache'[c] \in {0, cache[c]} /\ parked'[c] \subseteq parked[c]
        /\ c \in live /\ ~Typed(table[h]) => table[h] \notin Remembers(c)'
  BY <1>1, DetachForgets
<1>3. \A c \in Contexts : Remembers(c)' \subseteq Remembers(c)
  BY <1>2 DEF Remembers
<1>4. RememberedOnce'
  <2>1. \A c \in Contexts : 0 \notin parked[c]
    BY DEF LookupInv, Types, Objects
  <2>2. \A c \in Contexts : cache'[c] \notin parked'[c]
    BY <1>2, <2>1 DEF ParkedInv, RememberedOnce
  <2> QED
    BY <1>1, <1>3, <2>2 DEF ParkedInv, RememberedOnce
<1>5. UntypedParkedExist'
  <2> SUFFICES ASSUME NEW c \in Contexts, NEW n \in Remembers(c)', ~Typed(n)'
               PROVE  \E g \in Handles : table'[g] = n
    BY DEF UntypedParkedExist, Remembers
  <2>1. n \in Remembers(c) /\ ~Typed(n)
    BY <1>1, <1>3 DEF Typed
  <2>2. c \in live
    BY <2>1 DEF ParkedInv, RememberedOnce
  <2>3. n # table[h]
    BY <1>2, <2>1, <2>2
  <2>4. PICK g \in Handles : table[g] = n
    BY <2>1 DEF ParkedInv, UntypedParkedExist, Remembers
  <2> QED
    BY <1>1, <2>3, <2>4 DEF LookupInv, Types
<1> QED
  BY <1>4, <1>5 DEF ParkedInv

\* What a caller attaches has a handle, and no context remembers it twice.
LEMMA AttachParks ==
  ASSUME LookupInv, ParkedInv, LookupInv', NEW c \in Contexts, NEW h \in Handles,
         AttachResource(c, h)
  PROVE  ParkedInv'
<1> USE DEF LookupInv, Types
<1>1. c \in live /\ table[h] # 0 /\ UNCHANGED <<obj, table, live>>
  BY DEF AttachResource
<1>2. CASE Typed(table[h])
  <2>1. UNCHANGED <<cache, parked>>
    BY <1>2 DEF AttachResource
  <2> QED
    BY <1>1, <2>1 DEF ParkedInv, RememberedOnce, Remembers, UntypedParkedExist, Typed
<1>3. CASE ~Typed(table[h])
  <2>1. /\ ~Attached(c, table[h])
        /\ parked' = [parked EXCEPT ![c] = parked[c] \union ({cache[c]} \ {0})]
        /\ cache' = [cache EXCEPT ![c] = table[h]]
    BY <1>3 DEF AttachResource
  <2>2. /\ Remembers(c)' = Remembers(c) \union {table[h]}
        /\ \A b \in Contexts \ {c} : Remembers(b)' = Remembers(b)
    BY <1>1, <2>1 DEF Remembers
  <2>3. \A b \in Contexts : cache'[b] \notin parked'[b]
    BY <1>1, <2>1 DEF ParkedInv, RememberedOnce, Attached
  <2>4. RememberedOnce'
    BY <1>1, <2>2, <2>3 DEF ParkedInv, RememberedOnce
  <2>5. UntypedParkedExist'
    <3> SUFFICES ASSUME NEW b \in Contexts, NEW n \in Remembers(b)', ~Typed(n)'
                 PROVE  \E g \in Handles : table'[g] = n
      BY DEF UntypedParkedExist, Remembers
    <3>1. ~Typed(n) /\ (n = table[h] \/ n \in Remembers(b))
      BY <1>1, <2>2 DEF Typed
    <3> QED
      BY <1>1, <3>1 DEF ParkedInv, UntypedParkedExist, Remembers
  <2> QED
    BY <2>4, <2>5 DEF ParkedInv
<1> QED
  BY <1>2, <1>3

\* SET_TYPE takes what it types from its own context.
LEMMA TypeUnparks ==
  ASSUME LookupInv, ParkedInv, LookupInv', NEW c \in Contexts, NEW n \in Objects,
         SetType(c, n)
  PROVE  ParkedInv'
<1> USE DEF LookupInv, Types
<1>1. c \in live /\ UNCHANGED <<table, live>>
  BY DEF SetType
<1>2. \A b \in Contexts : cache'[b] \in {0, cache[b]} /\ parked'[b] \subseteq parked[b]
  <2>1. CASE cache' = [cache EXCEPT ![c] = 0] /\ UNCHANGED parked
    BY <2>1
  <2>2. CASE parked' = [parked EXCEPT ![c] = parked[c] \ {n}] /\ UNCHANGED cache
    BY <2>2
  <2> QED
    BY <2>1, <2>2 DEF SetType
<1>3. \A b \in Contexts : b \notin live' => Remembers(b)' = {}
  BY <1>1, <1>2 DEF ParkedInv, RememberedOnce, Remembers
<1>4. \A k \in Objects : Typed(k) => Typed(k)'
  BY DEF SetType, Typed, Objects
<1> QED
  BY <1>1, <1>2, <1>3, <1>4, ParkedKept

-----------------------------------------------------------------------------
\* Every step keeps what is remembered in the table.
LEMMA ParkedStep == LookupInv /\ ParkedInv /\ [Next]_vars => ParkedInv'
<1> SUFFICES ASSUME LookupInv, ParkedInv, [Next]_vars PROVE ParkedInv'
  OBVIOUS
<1>1. LookupInv'
  BY LookupStep
<1>2. ASSUME UNCHANGED <<live, cache, parked>>,
             \A n \in Objects : Typed(n) => Typed(n)',
             \A h \in Handles : table[h] # 0 => table'[h] = table[h]
      PROVE  ParkedInv'
  <2>1. \A c \in Contexts : c \notin live => Remembers(c)' = {}
    BY <1>2 DEF ParkedInv, RememberedOnce, Remembers
  <2> QED
    BY <1>1, <1>2, <2>1, ParkedKept
<1>3. ASSUME NEW h \in Handles, ResourceCreate(h) \/ CreateBlobUntyped(h) PROVE ParkedInv'
  <2>1. /\ UNCHANGED <<live, cache, parked>> /\ table[h] = 0
        /\ table' = [table EXCEPT ![h] = Len(obj) + 1]
        /\ \E kind \in {"typed", "guest", "dmabuf"} :
             obj' = Append(obj, [id |-> h, kind |-> kind])
    BY <1>3 DEF ResourceCreate, CreateBlobUntyped, New, Free, tables
  <2>2. \A n \in Objects : Typed(n) => Typed(n)'
    BY <2>1 DEF LookupInv, Types, Objects, Typed
  <2> QED
    BY <1>2, <2>1, <2>2 DEF LookupInv, Types
<1>4. ASSUME NEW c \in Contexts, PipeResourceCreate(c) PROVE ParkedInv'
  <2>1. /\ UNCHANGED <<live, cache, parked, table>>
        /\ obj' = Append(obj, [id |-> NoHandle, kind |-> "typed"])
    BY <1>4 DEF PipeResourceCreate, New, tables
  <2>2. \A n \in Objects : Typed(n) => Typed(n)'
    BY <2>1 DEF LookupInv, Types, Objects, Typed
  <2> QED
    BY <1>2, <2>1, <2>2
<1>5. ASSUME NEW h \in Handles, NEW c \in Contexts, CreateBlobTyped(h, c) PROVE ParkedInv'
  <2>1. PICK n \in unclaimed[c] :
          /\ UNCHANGED <<live, cache, parked>> /\ table[h] = 0
          /\ table' = [table EXCEPT ![h] = n]
          /\ obj' = [obj EXCEPT ![n] = [id |-> h, kind |-> "typed"]]
    BY <1>5 DEF CreateBlobTyped, Free, tables
  <2>2. \A k \in Objects : Typed(k) => Typed(k)'
    BY <2>1 DEF LookupInv, Types, Objects, Typed
  <2> QED
    BY <1>2, <2>1, <2>2 DEF LookupInv, Types
<1>6. ASSUME NEW c \in Contexts, ContextCreate(c) PROVE ParkedInv'
  BY <1>6 DEF ContextCreate, tables, ParkedInv, RememberedOnce, Remembers,
     UntypedParkedExist, Typed
<1>7. ASSUME NEW C \in SUBSET live, Destroyed(C), UNCHANGED <<obj, table>> PROVE ParkedInv'
  <2>1. \A c \in Contexts : /\ cache'[c] \in {0, cache[c]} /\ parked'[c] \subseteq parked[c]
                            /\ c \in C => cache'[c] = 0 /\ parked'[c] = {}
                            /\ c \notin C => cache'[c] = cache[c] /\ parked'[c] = parked[c]
    BY <1>7 DEF Destroyed
  <2>2. \A c \in Contexts : c \notin live' => Remembers(c)' = {}
    BY <1>7, <2>1 DEF Destroyed, ParkedInv, RememberedOnce, Remembers
  <2> QED
    BY <1>1, <1>7, <2>1, <2>2, ParkedKept DEF Typed
<1>8. ASSUME NEW c \in Contexts, ContextDestroy(c) PROVE ParkedInv'
  BY <1>7, <1>8 DEF ContextDestroy
<1>9. CASE Reset
  <2>1. Destroyed(live)
    BY <1>9 DEF Reset
  <2>2. \A c \in Contexts : cache'[c] = 0 /\ parked'[c] = {}
    BY <2>1 DEF Destroyed, ParkedInv, RememberedOnce, Remembers
  <2> QED
    BY <2>2 DEF ParkedInv, RememberedOnce, Remembers, UntypedParkedExist
<1>10. ASSUME NEW c \in Contexts, NEW h \in Handles, DetachResource(c, h) PROVE ParkedInv'
  <2>1. /\ {c} \in SUBSET live /\ table[h] # 0 /\ DetachFrom({c}, h)
        /\ UNCHANGED <<obj, table, live>>
    BY <1>10 DEF DetachResource
  <2>2. \A b \in Contexts : cache'[b] \in {0, cache[b]} /\ parked'[b] \subseteq parked[b]
    BY <2>1, DetachForgets
  <2>3. \A b \in Contexts : b \notin live' => Remembers(b)' = {}
    BY <2>1, <2>2 DEF ParkedInv, RememberedOnce, Remembers
  <2> QED
    BY <1>1, <2>1, <2>2, <2>3, ParkedKept DEF Typed
<1>11. ASSUME UNCHANGED <<obj, table, live, tables>> PROVE ParkedInv'
  BY <1>11 DEF tables, ParkedInv, RememberedOnce, Remembers, UntypedParkedExist, Typed
<1>12. ASSUME NEW c \in Contexts, NEW h \in Handles, CreateView(c, h) \/ SetIndexBuffer(c, h)
       PROVE  ParkedInv'
  BY <1>11, <1>12 DEF CreateView, SetIndexBuffer
<1>13. ASSUME NEW c \in Contexts, UnsetIndexBuffer(c) \/ \E n \in Objects : DestroyView(c, n)
       PROVE  ParkedInv'
  BY <1>11, <1>13 DEF UnsetIndexBuffer, DestroyView
<1>14. CASE UNCHANGED vars
  BY <1>11, <1>14 DEF vars
<1> QED
  BY <1>1, <1>3, <1>4, <1>5, <1>6, <1>8, <1>9, <1>10, <1>12, <1>13, <1>14,
     UnrefForgets, AttachParks, TypeUnparks DEF Next

\* An untyped resource that a context remembers has its handle in the table, so that
\* vrend_renderer_detach_res_ctx finds it before it is freed: untyped_resources and the
\* cache own no reference either.
THEOREM UntypedParkedAlive == Spec => []UntypedParkedExist
<1>1. ParkedInv => UntypedParkedExist
  BY DEF ParkedInv
<1> QED
  BY <1>1, LookupInit, LookupStep, ParkedInit, ParkedStep, PTL DEF Spec
-----------------------------------------------------------------------------
(* Who holds a reference.                                                   *)

Viewers(n)  == {c \in Contexts : n \in views[c]}
Indexers(n) == {c \in Contexts : slot[c].buf = n}
InTable(n)  == \E h \in Handles : table[h] = n

HoldTypes ==
  /\ refs \in [Objects -> Nat]
  /\ views \in [Contexts -> SUBSET Objects]
  /\ slot \in [Contexts -> [id : Handles \union {NoHandle}, buf : Objects \union {0}]]

\* Only typed resources that have had a handle are bound, and only by living contexts.
HeldTyped ==
  \A n \in Objects : Viewers(n) # {} \/ Indexers(n) # {} => Typed(n) /\ obj[n].id # NoHandle

DeadHold == \A c \in Contexts \ live : views[c] = {} /\ slot[c] = NoSlot

Count(n) ==
  One(InTable(n) /\ Typed(n)) + Cardinality(Viewers(n)) + Cardinality(Indexers(n))

\* The count is the number of holders; a resource that has not had a handle has one
\* reference, of the list or of nobody.
Counted == \A n \in Objects : refs[n] = IF obj[n].id = NoHandle THEN 1 ELSE Count(n)

CountInv == HoldTypes /\ HeldTyped /\ DeadHold /\ Counted

LEMMA Cards ==
  /\ \A S \in SUBSET Contexts : IsFiniteSet(S) /\ Cardinality(S) \in Nat
  /\ Cardinality({}) = 0
  /\ \A S \in SUBSET Contexts : \A c \in Contexts \ S : Cardinality(S \union {c}) = Cardinality(S) + 1
  /\ \A S \in SUBSET Contexts : \A c \in S : Cardinality(S \ {c}) = Cardinality(S) - 1
  /\ \A S, C \in SUBSET Contexts : Cardinality(S \ C) = Cardinality(S) - Cardinality(S \cap C)
<1>1. \A S \in SUBSET Contexts : IsFiniteSet(S) /\ Cardinality(S) \in Nat
  BY FS_Subset, FS_CardinalityType, ResourcesAssumption
<1>2. Cardinality({}) = 0
  BY FS_EmptySet
<1>3. \A S \in SUBSET Contexts : \A c \in Contexts \ S : Cardinality(S \union {c}) = Cardinality(S) + 1
  BY <1>1, FS_AddElement
<1>4. \A S \in SUBSET Contexts : \A c \in S : Cardinality(S \ {c}) = Cardinality(S) - 1
  BY <1>1, FS_RemoveElement
<1>5. \A S, C \in SUBSET Contexts : Cardinality(S \ C) = Cardinality(S) - Cardinality(S \cap C)
  BY <1>1, FS_Difference
<1> QED BY <1>1, <1>2, <1>3, <1>4, <1>5

LEMMA HoldersOf ==
  \A n : /\ Viewers(n) \in SUBSET Contexts /\ Indexers(n) \in SUBSET Contexts
         /\ Cardinality(Viewers(n)) \in Nat /\ Cardinality(Indexers(n)) \in Nat
         /\ Count(n) \in Nat
<1>1. \A n : Viewers(n) \in SUBSET Contexts /\ Indexers(n) \in SUBSET Contexts
  BY DEF Viewers, Indexers
<1>2. \A n : Cardinality(Viewers(n)) \in Nat /\ Cardinality(Indexers(n)) \in Nat
  BY <1>1, Cards
<1>3. \A n : One(InTable(n) /\ Typed(n)) \in Nat
  BY DEF One
<1> QED BY <1>1, <1>2, <1>3 DEF Count

LEMMA CountNat == \A n : Count(n) \in Nat
BY HoldersOf

LEMMA CountInit == Init => CountInv
<1> SUFFICES ASSUME Init PROVE CountInv
  OBVIOUS
<1>1. Objects = {} /\ refs = <<>> /\ views = [c \in Contexts |-> {}]
      /\ slot = [c \in Contexts |-> NoSlot]
  BY DEF Init, Objects
<1>2. refs \in [Objects -> Nat]
  BY <1>1
<1> QED BY <1>1, <1>2 DEF CountInv, HoldTypes, HeldTyped, DeadHold, Counted, NoSlot

\* The counts after a step are again the numbers of holders, so they are no less than 0.
LEMMA Recounted ==
  ASSUME refs' = [n \in Objects' |-> refs'[n]],
         views' \in [Contexts -> SUBSET Objects'],
         slot' \in [Contexts -> [id : Handles \union {NoHandle}, buf : Objects' \union {0}]],
         HeldTyped', DeadHold', Counted'
  PROVE  CountInv'
<1>1. \A n \in Objects' : Count(n)' \in Nat
  <2>1. (\A n : Count(n) \in Nat)'
    BY CountNat, PTL
  <2> QED BY <2>1
<1>2. \A n \in Objects' : refs'[n] \in Nat
  BY <1>1 DEF Counted
<1> QED BY <1>2 DEF CountInv, HoldTypes

\* A step that moves no reference.
LEMMA NothingMoved ==
  ASSUME LookupInv, CountInv, UNCHANGED <<obj, refs, table, views, slot>>, live \subseteq live'
  PROVE  CountInv'
<1>1. \A n : UNCHANGED <<Typed(n), Viewers(n), Indexers(n), InTable(n), Count(n), Objects>>
  BY DEF Typed, Viewers, Indexers, InTable, Count, Objects
<1> QED BY <1>1 DEF CountInv, HoldTypes, HeldTyped, DeadHold, Counted, Objects

\* A new resource has one reference if it is typed, and nobody uses it.
LEMMA NewCounted ==
  ASSUME LookupInv, CountInv, LookupInv',
         NEW id \in Handles \union {NoHandle}, NEW kind \in {"typed", "guest", "dmabuf"},
         New(id, kind, One(kind = "typed")), UNCHANGED <<live, views, slot>>,
         IF id = NoHandle THEN kind = "typed" /\ table' = table
         ELSE table[id] = 0 /\ table' = [table EXCEPT ![id] = Len(obj) + 1]
  PROVE  CountInv'
<1>0. PICK k \in Int : k = Len(obj) + 1
  BY DEF LookupInv, Types
<1>1. /\ k = Len(obj) + 1 /\ Objects = 1 .. Len(obj) /\ Objects' = 1 .. k /\ Len(obj) \in Nat
      /\ \A n \in Objects : obj'[n] = obj[n] /\ obj'[k] = [id |-> id, kind |-> kind]
      /\ obj'[k] = [id |-> id, kind |-> kind]
  BY <1>0 DEF LookupInv, Types, Objects, New
<1>2. /\ refs \in Seq(Nat) /\ Len(refs) = Len(obj)
  BY <1>1 DEF CountInv, HoldTypes
<1>3. /\ refs' = [n \in Objects' |-> refs'[n]]
      /\ \A n \in Objects : refs'[n] = refs[n]
      /\ refs'[k] = One(kind = "typed")
  BY <1>1, <1>2 DEF New, One
<1>4. \A n \in Objects :
        /\ Typed(n)' = Typed(n) /\ Viewers(n)' = Viewers(n) /\ Indexers(n)' = Indexers(n)
        /\ InTable(n)' = InTable(n) /\ Count(n)' = Count(n)
  <2> SUFFICES ASSUME NEW n \in Objects
               PROVE  /\ Typed(n)' = Typed(n) /\ Viewers(n)' = Viewers(n) /\ Indexers(n)' = Indexers(n)
                      /\ InTable(n)' = InTable(n) /\ Count(n)' = Count(n)
    OBVIOUS
  <2>1. n # k /\ n # 0
    BY <1>1
  <2>2. Typed(n)' = Typed(n) /\ Viewers(n)' = Viewers(n) /\ Indexers(n)' = Indexers(n)
    BY <1>1 DEF Typed, Viewers, Indexers
  <2>3. InTable(n)' = InTable(n)
    <3>1. CASE table' = table
      BY <3>1 DEF InTable
    <3>2. CASE id \in Handles /\ table[id] = 0 /\ table' = [table EXCEPT ![id] = k]
      <4>1. \A h \in Handles : table'[h] = IF h = id THEN k ELSE table[h]
        BY <3>2 DEF LookupInv, Types
      <4> QED BY <2>1, <3>2, <4>1 DEF InTable
    <3> QED BY <1>1, <3>1, <3>2
  <2> QED BY <2>2, <2>3 DEF Count
<1>5. Viewers(k)' = {} /\ Indexers(k)' = {}
  <2>1. k \notin Objects /\ k # 0 /\ views' = views /\ slot' = slot
    BY <1>1
  <2>2. \A c \in Contexts : k \notin views'[c] /\ slot'[c].buf # k
    BY <2>1 DEF CountInv, HoldTypes
  <2> QED BY <2>2 DEF Viewers, Indexers
<1>6. id # NoHandle => Count(k)' = One(kind = "typed")
  <2> SUFFICES ASSUME id # NoHandle PROVE Count(k)' = One(kind = "typed")
    OBVIOUS
  <2>1. InTable(k)' /\ (Typed(k)' <=> kind = "typed")
    <3>1. table'[id] = k /\ id \in Handles /\ k # 0
      BY <1>1 DEF LookupInv, Types
    <3>2. obj'[k].kind = kind
      BY <1>1
    <3> QED BY <3>1, <3>2 DEF InTable, Typed
  <2>2. One(kind = "typed") \in Nat
    BY DEF One
  <2> QED BY <1>5, <2>1, <2>2, Cards DEF Count
<1>7. Counted'
  BY <1>1, <1>3, <1>4, <1>6 DEF CountInv, Counted, One
<1>8. HeldTyped'
  BY <1>1, <1>4, <1>5 DEF CountInv, HeldTyped
<1>9. DeadHold' /\ views' \in [Contexts -> SUBSET Objects']
      /\ slot' \in [Contexts -> [id : Handles \union {NoHandle}, buf : Objects' \union {0}]]
  BY <1>1 DEF CountInv, HoldTypes, DeadHold
<1> QED BY <1>3, <1>7, <1>8, <1>9, Recounted
\* A resource that has waited on the list brings its one reference along.
LEMMA BlobCounted ==
  ASSUME LookupInv, CountInv, LookupInv', NEW h \in Handles, NEW c \in Contexts,
         CreateBlobTyped(h, c)
  PROVE  CountInv'
<1>1. PICK n \in unclaimed[c] :
        /\ table' = [table EXCEPT ![h] = n]
        /\ obj' = [obj EXCEPT ![n] = [id |-> h, kind |-> "typed"]]
  BY DEF CreateBlobTyped
<1>2. /\ n \in Objects /\ n # 0 /\ obj[n].id = NoHandle /\ table[h] = 0
      /\ UNCHANGED <<refs, live, views, slot, Objects>>
      /\ \A m \in Objects : obj'[m] = IF m = n THEN [id |-> h, kind |-> "typed"] ELSE obj[m]
      /\ \A g \in Handles : table'[g] = IF g = h THEN n ELSE table[g]
  BY <1>1 DEF CreateBlobTyped, Free, LookupInv, Types, UnclaimedNameless, Objects
<1>3. \A m \in Objects : /\ Viewers(m)' = Viewers(m) /\ Indexers(m)' = Indexers(m)
                         /\ m # n => Typed(m)' = Typed(m) /\ InTable(m)' = InTable(m)
  <2>1. \A m \in Objects : Viewers(m)' = Viewers(m) /\ Indexers(m)' = Indexers(m)
    BY <1>2 DEF Viewers, Indexers
  <2>2. \A m \in Objects : m # n => Typed(m)' = Typed(m) /\ InTable(m)' = InTable(m)
    BY <1>2 DEF Typed, InTable, Objects
  <2> QED BY <2>1, <2>2
<1>4. /\ Viewers(n) = {} /\ Indexers(n) = {} /\ InTable(n)' /\ Typed(n)'
  BY <1>2 DEF CountInv, HeldTyped, InTable, Typed
<1>5. Counted'
  <2>1. Count(n)' = 1
    <3>1. One(InTable(n) /\ Typed(n))' = 1
      BY <1>4 DEF One
    <3>2. Cardinality(Viewers(n))' = 0 /\ Cardinality(Indexers(n))' = 0
      BY <1>2, <1>3, <1>4, Cards
    <3> QED BY <3>1, <3>2 DEF Count
  <2>2. \A m \in Objects : m # n => Count(m)' = Count(m)
    BY <1>3 DEF Count
  <2>3. h # NoHandle
    BY ResourcesAssumption
  <2> QED BY <1>2, <2>1, <2>2, <2>3 DEF CountInv, Counted
<1>6. HeldTyped'
  BY <1>2, <1>3, <1>4 DEF CountInv, HeldTyped
<1>7. DeadHold'
  BY <1>2 DEF CountInv, DeadHold
<1> QED BY <1>2, <1>5, <1>6, <1>7, Recounted DEF CountInv, HoldTypes

\* The table gives its reference back with the only handle of a resource.
LEMMA UnrefCounted ==
  ASSUME LookupInv, CountInv, LookupInv', NEW h \in Handles, ResourceUnref(h)
  PROVE  CountInv'
<1>0. PICK k \in Objects : k = table[h]
  BY DEF ResourceUnref, LookupInv, Types
<1>1. /\ UNCHANGED <<obj, live, views, slot, Objects>> /\ k # 0 /\ obj[k].id = h
      /\ \A g \in Handles : table'[g] = IF g = h THEN 0 ELSE table[g]
      /\ table[h] = k /\ 0 \notin Objects
  BY <1>0 DEF ResourceUnref, LookupInv, Types, IdsAgree, Objects
<1>2. /\ refs' = [n \in Objects |-> refs[n] - One(n = k /\ Typed(n))]
  <2>1. \A n : Cardinality({c \in {} : n \in views[c]}) = 0 /\ Cardinality({c \in {} : slot[c].buf = n}) = 0
    <3>1. \A n : {c \in {} : n \in views[c]} = {} /\ {c \in {} : slot[c].buf = n} = {}
      OBVIOUS
    <3> QED BY <3>1, Cards
  <2>2. DOMAIN refs = Objects /\ \A n \in Objects : refs[n] \in Nat
    BY DEF CountInv, HoldTypes
  <2>3. refs' = [n \in DOMAIN refs |-> refs[n]
                   - Cardinality({c \in {} : n \in views[c]})
                   - Cardinality({c \in {} : slot[c].buf = n})
                   - One(n \in {k} /\ Typed(n))]
    BY <1>1 DEF ResourceUnref, Released
  <2>4. \A n : One(n \in {k} /\ Typed(n)) = One(n = k /\ Typed(n))
    BY DEF One
  <2> QED BY <2>1, <2>2, <2>3, <2>4
<1>3. \A n \in Objects : /\ Viewers(n)' = Viewers(n) /\ Indexers(n)' = Indexers(n)
                         /\ Typed(n)' = Typed(n)
  BY <1>1 DEF Viewers, Indexers, Typed
<1>4. ~InTable(k)' /\ InTable(k) /\ \A n \in Objects : n # k => (InTable(n)' = InTable(n))
  <2>1. InTable(k) /\ \A n \in Objects : n # k => (InTable(n)' = InTable(n))
    BY <1>1 DEF InTable
  <2>2. \A g \in Handles : table[g] = k => g = h
    BY <1>1 DEF LookupInv, IdsAgree
  <2>3. ~InTable(k)'
    BY <1>1, <2>2 DEF InTable
  <2> QED BY <2>1, <2>3
<1>5. Counted'
  <2>1. \A n \in Objects : n # k => Count(n)' = Count(n) /\ refs'[n] = refs[n]
    BY <1>2, <1>3, <1>4 DEF Count, One, CountInv, HoldTypes
  <2>2. refs[k] = Count(k) /\ refs[k] \in Nat
    BY <1>1, ResourcesAssumption DEF CountInv, Counted, HoldTypes
  <2>3. Count(k)' = Count(k) - One(Typed(k))
    <3>1. Count(k) = One(Typed(k)) + Cardinality(Viewers(k)) + Cardinality(Indexers(k))
      BY <1>4 DEF Count, One
    <3>2. Count(k)' = 0 + Cardinality(Viewers(k)) + Cardinality(Indexers(k))
      BY <1>3, <1>4 DEF Count, One
    <3>3. One(Typed(k)) \in Nat
      BY DEF One
    <3> QED BY <3>1, <3>2, <3>3, HoldersOf
  <2>4. refs'[k] = refs[k] - One(Typed(k))
    BY <1>2 DEF One
  <2>5. obj'[k].id # NoHandle /\ refs'[k] = Count(k)'
    BY <1>1, <2>2, <2>3, <2>4, ResourcesAssumption
  <2> QED BY <1>1, <2>1, <2>5 DEF CountInv, Counted
<1>6. HeldTyped' /\ DeadHold'
  BY <1>1, <1>3 DEF CountInv, HeldTyped, DeadHold
<1>7. refs' = [n \in Objects' |-> refs'[n]]
  BY <1>1, <1>2
<1> QED BY <1>1, <1>5, <1>6, <1>7, Recounted DEF CountInv, HoldTypes
\* The contexts C are destroyed and give back what their objects and index buffers
\* hold, and with the table T the table gives back what it holds.
LEMMA DestroyCounted ==
  ASSUME LookupInv, CountInv, LookupInv', NEW C \in SUBSET live, NEW T,
         Destroyed(C), refs' = Released(C, T), UNCHANGED obj,
         \/ T = {} /\ UNCHANGED table
         \/ T = {table[h] : h \in Handles} /\ table' = [h \in Handles |-> 0]
  PROVE  CountInv'
<1>1. /\ UNCHANGED Objects /\ live' = live \ C /\ C \in SUBSET Contexts /\ 0 \notin Objects
      /\ views' = [c \in Contexts |-> IF c \in C THEN {} ELSE views[c]]
      /\ slot' = [c \in Contexts |-> IF c \in C THEN NoSlot ELSE slot[c]]
  BY DEF Destroyed, Objects, LookupInv, Types
<1>2. \A n \in Objects : /\ Viewers(n)' = Viewers(n) \ C /\ Indexers(n)' = Indexers(n) \ C
                         /\ Typed(n)' = Typed(n)
  <2> SUFFICES ASSUME NEW n \in Objects
               PROVE  /\ Viewers(n)' = Viewers(n) \ C /\ Indexers(n)' = Indexers(n) \ C
                      /\ Typed(n)' = Typed(n)
    OBVIOUS
  <2>1. n # NoSlot.buf
    BY <1>1 DEF NoSlot
  <2> QED BY <1>1, <2>1 DEF Viewers, Indexers, Typed
<1>3. /\ refs' = [n \in Objects |-> refs'[n]]
      /\ \A n \in Objects : refs'[n] = refs[n] - Cardinality(Viewers(n) \cap C)
                                       - Cardinality(Indexers(n) \cap C) - One(n \in T /\ Typed(n))
  <2>1. \A n : /\ {c \in C : n \in views[c]} = Viewers(n) \cap C
               /\ {c \in C : slot[c].buf = n} = Indexers(n) \cap C
    BY <1>1 DEF Viewers, Indexers
  <2>2. DOMAIN refs = Objects
    BY DEF CountInv, HoldTypes
  <2> QED BY <2>1, <2>2 DEF Released
<1>4. ASSUME NEW n \in Objects
      PROVE  /\ n \in T => InTable(n)
             /\ InTable(n)' => InTable(n)
             /\ One(InTable(n) /\ Typed(n))' = One(InTable(n) /\ Typed(n)) - One(n \in T /\ Typed(n))
  <2>1. CASE T = {} /\ UNCHANGED table
    <3>1. InTable(n)' = InTable(n) /\ n \notin T
      BY <2>1 DEF InTable
    <3> QED BY <1>2, <3>1 DEF One
  <2>2. CASE T = {table[h] : h \in Handles} /\ table' = [h \in Handles |-> 0]
    <3>1. (n \in T <=> InTable(n)) /\ ~InTable(n)'
      BY <1>1, <2>2 DEF InTable
    <3> QED BY <1>2, <3>1 DEF One
  <2> QED BY <2>1, <2>2
<1>5. Counted'
  <2> SUFFICES ASSUME NEW n \in Objects
               PROVE  refs'[n] = IF obj[n].id = NoHandle THEN 1 ELSE Count(n)'
    BY <1>1 DEF Counted
  <2>1. CASE obj[n].id = NoHandle
    <3>1. Viewers(n) \cap C = {} /\ Indexers(n) \cap C = {} /\ ~InTable(n)
      <4>1. Viewers(n) = {} /\ Indexers(n) = {}
        BY <2>1 DEF CountInv, HeldTyped
      <4>2. \A h \in Handles : table[h] = n => obj[n].id = h
        BY <1>1 DEF LookupInv, IdsAgree
      <4>3. ~InTable(n)
        BY <2>1, <4>2, ResourcesAssumption DEF InTable
      <4> QED BY <4>1, <4>3
    <3>2. One(n \in T /\ Typed(n)) = 0 /\ refs[n] = 1
      BY <1>4, <2>1, <3>1 DEF One, CountInv, Counted
    <3>3. refs'[n] = refs[n] - 0 - 0 - 0
      BY <1>3, <3>1, <3>2, Cards
    <3> QED BY <2>1, <3>2, <3>3
  <2>2. CASE obj[n].id # NoHandle
    <3>1. /\ Cardinality(Viewers(n) \ C) = Cardinality(Viewers(n)) - Cardinality(Viewers(n) \cap C)
          /\ Cardinality(Indexers(n) \ C) = Cardinality(Indexers(n)) - Cardinality(Indexers(n) \cap C)
          /\ Cardinality(Viewers(n) \cap C) \in Nat /\ Cardinality(Indexers(n) \cap C) \in Nat
          /\ Cardinality(Viewers(n)) \in Nat /\ Cardinality(Indexers(n)) \in Nat
      BY <1>1, Cards, HoldersOf
    <3>2. Count(n)' = One(InTable(n) /\ Typed(n))' + Cardinality(Viewers(n) \ C)
                      + Cardinality(Indexers(n) \ C)
      BY <1>2 DEF Count
    <3>3. refs[n] = One(InTable(n) /\ Typed(n)) + Cardinality(Viewers(n)) + Cardinality(Indexers(n))
      BY <2>2 DEF CountInv, Counted, Count
    <3>4. One(InTable(n) /\ Typed(n)) \in Nat /\ One(n \in T /\ Typed(n)) \in Nat
      BY DEF One
    <3>5. One(InTable(n) /\ Typed(n))' = One(InTable(n) /\ Typed(n)) - One(n \in T /\ Typed(n))
      BY <1>4
    <3>6. refs'[n] = refs[n] - Cardinality(Viewers(n) \cap C)
                     - Cardinality(Indexers(n) \cap C) - One(n \in T /\ Typed(n))
      BY <1>3
    <3>7. refs'[n] = Count(n)'
      BY ONLY <3>1, <3>2, <3>3, <3>4, <3>5, <3>6
    <3> QED BY <2>2, <3>7
  <2> QED BY <2>1, <2>2
<1>6. HeldTyped'
  BY <1>1, <1>2 DEF CountInv, HeldTyped
<1>7. DeadHold'
  BY <1>1 DEF CountInv, DeadHold
<1>8. views' \in [Contexts -> SUBSET Objects']
      /\ slot' \in [Contexts -> [id : Handles \union {NoHandle}, buf : Objects' \union {0}]]
  BY <1>1 DEF CountInv, HoldTypes, NoSlot
<1> QED BY <1>1, <1>3, <1>5, <1>6, <1>7, <1>8, Recounted

\* A dmabuf gets its vrend_resource, with the one reference of the table.
LEMMA TypeCounted ==
  ASSUME LookupInv, CountInv, LookupInv', NEW c \in Contexts, NEW n \in Objects, SetType(c, n)
  PROVE  CountInv'
<1>1. CASE UNCHANGED <<obj, refs>>
  BY <1>1, NothingMoved DEF SetType
<1>2. CASE /\ obj[n].kind = "dmabuf"
           /\ obj' = [obj EXCEPT ![n] = [id |-> obj[n].id, kind |-> "typed"]]
           /\ refs' = [refs EXCEPT ![n] = 1]
  <2>1. /\ UNCHANGED <<table, live, views, slot, Objects>> /\ n # 0 /\ InTable(n) /\ obj[n].id # NoHandle
    <3>1. UNCHANGED <<table, live, views, slot>>
      BY DEF SetType
    <3>2. n # 0 /\ UNCHANGED Objects
      BY <1>2 DEF LookupInv, Types, Objects
    <3>3. PICK h \in Handles : table[h] = n
      BY DEF SetType, Readable, Attached
    <3>4. obj[n].id = h
      BY <3>2, <3>3 DEF LookupInv, IdsAgree
    <3> QED BY <3>1, <3>2, <3>3, <3>4, ResourcesAssumption DEF InTable
  <2>2. \A m \in Objects : obj'[m] = IF m = n THEN [id |-> obj[n].id, kind |-> "typed"] ELSE obj[m]
    BY <1>2 DEF LookupInv, Types, Objects
  <2>3. /\ refs' = [m \in Objects' |-> refs'[m]]
        /\ \A m \in Objects : refs'[m] = IF m = n THEN 1 ELSE refs[m]
    BY <1>2, <2>1 DEF CountInv, HoldTypes
  <2>4. \A m \in Objects : /\ Viewers(m)' = Viewers(m) /\ Indexers(m)' = Indexers(m)
                           /\ InTable(m)' = InTable(m)
    BY <2>1 DEF Viewers, Indexers, InTable
  <2>5. \A m \in Objects : m # n => Typed(m)' = Typed(m) /\ Count(m)' = Count(m)
    <3>1. \A m \in Objects : m # n => Typed(m)' = Typed(m)
      BY <2>2 DEF Typed
    <3> QED BY <2>4, <3>1 DEF Count
  <2>6. Viewers(n) = {} /\ Indexers(n) = {} /\ Typed(n)'
    BY <1>2, <2>1, <2>2 DEF CountInv, HeldTyped, Typed
  <2>7. Count(n)' = 1
    <3>1. One(InTable(n) /\ Typed(n))' = 1
      BY <2>1, <2>4, <2>6 DEF One
    <3>2. Cardinality(Viewers(n))' = 0 /\ Cardinality(Indexers(n))' = 0
      BY <2>4, <2>6, Cards
    <3> QED BY <3>1, <3>2 DEF Count
  <2>8. Counted'
    BY <2>1, <2>2, <2>3, <2>5, <2>7 DEF CountInv, Counted
  <2>9. HeldTyped' /\ DeadHold'
    BY <2>1, <2>2, <2>4, <2>5, <2>6 DEF CountInv, HeldTyped, DeadHold
  <2> QED BY <2>1, <2>3, <2>8, <2>9, Recounted DEF CountInv, HoldTypes
<1> QED BY <1>1, <1>2 DEF SetType
\* What a context looks up is typed and in the table.
LEMMA LookedUp ==
  ASSUME LookupInv, NEW c \in Contexts, NEW h \in Handles, resHash[c][h] # 0
  PROVE  /\ resHash[c][h] \in Objects /\ resHash[c][h] # 0
         /\ Typed(resHash[c][h]) /\ obj[resHash[c][h]].id = h /\ h # NoHandle
BY ResourcesAssumption DEF LookupInv, Types, LookupsCurrent, IdsAgree, Objects

\* One holder of new comes and one of old goes.
Moved(old, new) ==
  \A n \in Objects :
    /\ Cardinality(Viewers(n))' + Cardinality(Indexers(n))' =
         Cardinality(Viewers(n)) + Cardinality(Indexers(n)) + One(n = new) - One(n = old)
    /\ Viewers(n)' # {} \/ Indexers(n)' # {} =>
         n = new \/ Viewers(n) # {} \/ Indexers(n) # {}

\* Steps that bind a resource or let it go.
LEMMA BoundCounted ==
  ASSUME LookupInv, CountInv, LookupInv', UNCHANGED <<obj, table, live>>,
         NEW old \in Objects \union {0}, NEW new \in Objects \union {0},
         refs' = Referenced(old, new),
         new # 0 => Typed(new) /\ obj[new].id # NoHandle,
         views' \in [Contexts -> SUBSET Objects],
         slot' \in [Contexts -> [id : Handles \union {NoHandle}, buf : Objects \union {0}]],
         DeadHold',
         old # 0 => Viewers(old) # {} \/ Indexers(old) # {},
         Moved(old, new)
  PROVE  CountInv'
<1>1. UNCHANGED Objects /\ \A n : Typed(n)' = Typed(n) /\ InTable(n)' = InTable(n)
  BY DEF Objects, Typed, InTable
<1>2. /\ refs' = [n \in Objects |-> refs'[n]]
      /\ \A n \in Objects : refs'[n] = refs[n] + One(n = new) - One(n = old)
  BY DEF Referenced, CountInv, HoldTypes
<1>3. HeldTyped'
  <2>1. 0 \notin Objects
    BY DEF Objects
  <2> QED BY <1>1, <2>1 DEF CountInv, HeldTyped, Moved
<1>4. Counted'
  <2> SUFFICES ASSUME NEW n \in Objects
               PROVE  refs'[n] = IF obj[n].id = NoHandle THEN 1 ELSE Count(n)'
    BY <1>1 DEF Counted
  <2>1. CASE obj[n].id = NoHandle
    <3>1. n # new
      BY <2>1 DEF Objects
    <3>2. n # old
      BY <2>1 DEF CountInv, HeldTyped, Objects
    <3>3. One(n = new) = 0 /\ One(n = old) = 0 /\ refs[n] = 1
      BY <2>1, <3>1, <3>2 DEF One, CountInv, Counted
    <3> QED BY <1>2, <2>1, <3>3
  <2>2. CASE obj[n].id # NoHandle
    <3>1. refs[n] = One(InTable(n) /\ Typed(n)) + Cardinality(Viewers(n)) + Cardinality(Indexers(n))
      BY <2>2 DEF CountInv, Counted, Count
    <3>2. Count(n)' = One(InTable(n) /\ Typed(n)) + Cardinality(Viewers(n))' + Cardinality(Indexers(n))'
      BY <1>1 DEF Count, One
    <3>3. One(InTable(n) /\ Typed(n)) \in Nat /\ One(n = new) \in Nat /\ One(n = old) \in Nat
      BY DEF One
    <3>4. Cardinality(Viewers(n)) \in Nat /\ Cardinality(Indexers(n)) \in Nat
      BY HoldersOf
    <3>5. Cardinality(Viewers(n))' \in Nat /\ Cardinality(Indexers(n))' \in Nat
      <4>1. Viewers(n)' \in SUBSET Contexts /\ Indexers(n)' \in SUBSET Contexts
        BY DEF Viewers, Indexers
      <4> QED BY <4>1, Cards
    <3>6. /\ refs'[n] = refs[n] + One(n = new) - One(n = old)
          /\ Cardinality(Viewers(n))' + Cardinality(Indexers(n))' =
               Cardinality(Viewers(n)) + Cardinality(Indexers(n)) + One(n = new) - One(n = old)
      BY <1>2 DEF Moved
    <3>7. refs'[n] = Count(n)'
      BY ONLY <3>1, <3>2, <3>3, <3>4, <3>5, <3>6
    <3> QED BY <2>2, <3>7
  <2> QED BY <2>1, <2>2
<1> QED BY <1>1, <1>2, <1>3, <1>4, Recounted
\* A view of c comes or goes.
LEMMA ViewCounted ==
  ASSUME LookupInv, CountInv, LookupInv', NEW c \in Contexts,
         \/ \E h \in Handles : CreateView(c, h)
         \/ \E n \in Objects : DestroyView(c, n)
  PROVE  CountInv'
<1>0. 0 \notin Objects
  BY DEF Objects
<1>1. ASSUME NEW h \in Handles, CreateView(c, h) PROVE CountInv'
  <2>1. PICK k \in Objects : k = resHash[c][h] /\ Typed(k) /\ obj[k].id # NoHandle
    BY <1>1, LookedUp DEF CreateView
  <2>2. /\ UNCHANGED <<obj, table, live, slot>> /\ c \in live /\ k \notin views[c]
        /\ views' = [views EXCEPT ![c] = @ \union {k}] /\ refs' = Referenced(0, k)
    BY <1>1, <2>1 DEF CreateView
  <2>3. \A n : Indexers(n)' = Indexers(n) /\ (n # k => Viewers(n)' = Viewers(n))
    BY <2>2 DEF Indexers, Viewers, CountInv, HoldTypes
  <2>4. c \notin Viewers(k) /\ Viewers(k)' = Viewers(k) \union {c}
    BY <2>2 DEF Viewers, CountInv, HoldTypes
  <2>5. Cardinality(Viewers(k))' = Cardinality(Viewers(k)) + 1
    BY <2>4, Cards, HoldersOf
  <2>6. ASSUME NEW n \in Objects
        PROVE  /\ Cardinality(Viewers(n))' + Cardinality(Indexers(n))' =
                    Cardinality(Viewers(n)) + Cardinality(Indexers(n)) + One(n = k) - One(n = 0)
               /\ Viewers(n)' # {} \/ Indexers(n)' # {} =>
                    n = k \/ Viewers(n) # {} \/ Indexers(n) # {}
    <3>1. One(n = 0) = 0
      BY <1>0 DEF One
    <3>2. CASE n = k
      BY <2>3, <2>5, <3>1, <3>2, HoldersOf DEF One
    <3>3. CASE n # k
      BY <2>3, <3>1, <3>3, HoldersOf DEF One
    <3> QED BY <3>2, <3>3
  <2>7. views' \in [Contexts -> SUBSET Objects] /\ DeadHold'
    BY <2>2 DEF CountInv, HoldTypes, DeadHold
  <2>8. Moved(0, k)
    BY <2>6 DEF Moved
  <2>9. slot' \in [Contexts -> [id : Handles \union {NoHandle}, buf : Objects \union {0}]]
    BY <2>2 DEF CountInv, HoldTypes
  <2> QED BY <2>1, <2>2, <2>7, <2>8, <2>9, BoundCounted
<1>2. ASSUME NEW k \in Objects, DestroyView(c, k) PROVE CountInv'
  <2>1. /\ UNCHANGED <<obj, table, live, slot>> /\ k \in views[c]
        /\ views' = [views EXCEPT ![c] = @ \ {k}] /\ refs' = Referenced(k, 0)
    BY <1>2 DEF DestroyView
  <2>2. \A n : Indexers(n)' = Indexers(n) /\ (n # k => Viewers(n)' = Viewers(n))
    BY <2>1 DEF Indexers, Viewers, CountInv, HoldTypes
  <2>3. c \in Viewers(k) /\ Viewers(k)' = Viewers(k) \ {c}
    BY <2>1 DEF Viewers, CountInv, HoldTypes
  <2>4. Cardinality(Viewers(k))' = Cardinality(Viewers(k)) - 1
    BY <2>3, Cards, HoldersOf
  <2>5. ASSUME NEW n \in Objects
        PROVE  /\ Cardinality(Viewers(n))' + Cardinality(Indexers(n))' =
                    Cardinality(Viewers(n)) + Cardinality(Indexers(n)) + One(n = 0) - One(n = k)
               /\ Viewers(n)' # {} \/ Indexers(n)' # {} =>
                    n = 0 \/ Viewers(n) # {} \/ Indexers(n) # {}
    <3>1. One(n = 0) = 0
      BY <1>0 DEF One
    <3>2. CASE n = k
      <4>1. One(n = k) = 1 /\ Indexers(n)' = Indexers(n) /\ Viewers(n) # {}
        BY <2>2, <2>3, <3>2 DEF One
      <4>2. Cardinality(Viewers(n))' = Cardinality(Viewers(n)) - 1
        BY <2>4, <3>2
      <4> QED BY <3>1, <4>1, <4>2, HoldersOf
    <3>3. CASE n # k
      BY <2>2, <3>1, <3>3, HoldersOf DEF One
    <3> QED BY <3>2, <3>3
  <2>6. views' \in [Contexts -> SUBSET Objects] /\ DeadHold'
    BY <2>1 DEF CountInv, HoldTypes, DeadHold
  <2>7. Moved(k, 0)
    BY <2>5 DEF Moved
  <2>8. slot' \in [Contexts -> [id : Handles \union {NoHandle}, buf : Objects \union {0}]]
    BY <2>1 DEF CountInv, HoldTypes
  <2>9. Viewers(k) # {}
    BY <2>3
  <2> QED BY <2>1, <2>6, <2>7, <2>8, <2>9, BoundCounted
<1> QED BY <1>1, <1>2

\* The index buffer of c changes.
LEMMA SlotCounted ==
  ASSUME LookupInv, CountInv, LookupInv', NEW c \in live,
         UNCHANGED <<obj, table, live, views>>,
         NEW s \in [id : Handles \union {NoHandle}, buf : Objects \union {0}],
         slot' = [slot EXCEPT ![c] = s], refs' = Referenced(slot[c].buf, s.buf),
         s.buf # 0 => Typed(s.buf) /\ obj[s.buf].id # NoHandle
  PROVE  CountInv'
<1>1. PICK old \in Objects \union {0}, new \in Objects \union {0} : old = slot[c].buf /\ new = s.buf
  BY DEF CountInv, HoldTypes, LookupInv, Types
<1>2. /\ c \in Contexts /\ slot'[c] = s /\ \A b \in Contexts : b # c => slot'[b] = slot[b]
      /\ slot' \in [Contexts -> [id : Handles \union {NoHandle}, buf : Objects \union {0}]]
  BY DEF CountInv, HoldTypes, LookupInv, Types
<1>3. \A n : /\ Viewers(n)' = Viewers(n)
             /\ Indexers(n)' = IF n = new THEN Indexers(n) \union {c} ELSE Indexers(n) \ {c}
             /\ (c \in Indexers(n) <=> n = old)
  BY <1>1, <1>2 DEF Viewers, Indexers
<1>4. ASSUME NEW n \in Objects
      PROVE  /\ Cardinality(Viewers(n))' + Cardinality(Indexers(n))' =
                  Cardinality(Viewers(n)) + Cardinality(Indexers(n)) + One(n = new) - One(n = old)
             /\ Viewers(n)' # {} \/ Indexers(n)' # {} =>
                  n = new \/ Viewers(n) # {} \/ Indexers(n) # {}
  <2>1. Cardinality(Indexers(n))' = Cardinality(Indexers(n)) + One(n = new) - One(n = old)
    <3>1. CASE n = new /\ n = old
      <4>1. Indexers(n)' = Indexers(n)
        BY <1>3, <3>1
      <4> QED BY <3>1, <4>1, HoldersOf DEF One
    <3>2. CASE n = new /\ n # old
      <4>1. Cardinality(Indexers(n) \union {c}) = Cardinality(Indexers(n)) + 1
        BY <1>2, <1>3, <3>2, Cards, HoldersOf
      <4>2. Indexers(n)' = Indexers(n) \union {c} /\ One(n = new) = 1 /\ One(n = old) = 0
        BY <1>3, <3>2 DEF One
      <4> QED BY <4>1, <4>2, HoldersOf
    <3>3. CASE n # new /\ n = old
      <4>1. Cardinality(Indexers(n) \ {c}) = Cardinality(Indexers(n)) - 1
        BY <1>3, <3>3, Cards, HoldersOf
      <4>2. Indexers(n)' = Indexers(n) \ {c} /\ One(n = new) = 0 /\ One(n = old) = 1
        BY <1>3, <3>3 DEF One
      <4> QED BY <4>1, <4>2, HoldersOf
    <3>4. CASE n # new /\ n # old
      <4>1. Indexers(n)' = Indexers(n)
        BY <1>3, <3>4
      <4> QED BY <3>4, <4>1, HoldersOf DEF One
    <3> QED BY <3>1, <3>2, <3>3, <3>4
  <2>2. One(n = new) \in Nat /\ One(n = old) \in Nat
    BY DEF One
  <2>3. Viewers(n)' = Viewers(n) /\ (Indexers(n)' # {} => n = new \/ Indexers(n) # {})
    BY <1>3
  <2> QED BY <2>1, <2>2, <2>3, HoldersOf
<1>5. old # 0 => Viewers(old) # {} \/ Indexers(old) # {}
  BY <1>3
<1>6. DeadHold'
  BY <1>2 DEF CountInv, DeadHold
<1>7. Moved(old, new)
  BY <1>4 DEF Moved
<1>8. views' \in [Contexts -> SUBSET Objects]
  BY DEF CountInv, HoldTypes
<1> QED BY <1>1, <1>2, <1>5, <1>6, <1>7, <1>8, BoundCounted

LEMMA IndexCounted ==
  ASSUME LookupInv, CountInv, LookupInv', NEW c \in Contexts,
         UnsetIndexBuffer(c) \/ \E h \in Handles : SetIndexBuffer(c, h)
  PROVE  CountInv'
<1>1. CASE UnsetIndexBuffer(c)
  BY <1>1, SlotCounted DEF UnsetIndexBuffer, NoSlot
<1>2. ASSUME NEW h \in Handles, SetIndexBuffer(c, h) PROVE CountInv'
  <2>1. CASE resHash[c][h] = 0
    <3>1. /\ slot' = [slot EXCEPT ![c] = NoSlot] /\ refs' = Referenced(slot[c].buf, 0)
          /\ c \in live /\ UNCHANGED <<obj, table, live, views>>
      BY <1>2, <2>1 DEF SetIndexBuffer
    <3> QED BY <3>1, SlotCounted DEF NoSlot
  <2>2. CASE resHash[c][h] # 0
    <3>1. /\ resHash[c][h] \in Objects /\ Typed(resHash[c][h])
          /\ obj[resHash[c][h]].id # NoHandle
      BY <2>2, LookedUp
    <3> QED BY <1>2, <2>2, <3>1, SlotCounted DEF SetIndexBuffer
  <2> QED BY <2>1, <2>2
<1> QED BY <1>1, <1>2
-----------------------------------------------------------------------------
\* Every step keeps the counts.
LEMMA CountStep == LookupInv /\ CountInv /\ [Next]_vars /\ LookupInv' => CountInv'
<1> SUFFICES ASSUME LookupInv, CountInv, [Next]_vars, LookupInv' PROVE CountInv'
  OBVIOUS
<1>1. ASSUME NEW h \in Handles, ResourceCreate(h) \/ CreateBlobUntyped(h) PROVE CountInv'
  <2>1. h # NoHandle /\ One("typed" = "typed") = 1 /\ One("guest" = "typed") = 0
        /\ One("dmabuf" = "typed") = 0
    BY ResourcesAssumption DEF One
  <2>2. PICK kind \in {"typed", "guest", "dmabuf"} : New(h, kind, One(kind = "typed"))
    BY <1>1, <2>1 DEF ResourceCreate, CreateBlobUntyped
  <2>3. /\ UNCHANGED <<live, views, slot>> /\ table[h] = 0
        /\ table' = [table EXCEPT ![h] = Len(obj) + 1]
    BY <1>1 DEF ResourceCreate, CreateBlobUntyped, Free
  <2> QED BY <2>1, <2>2, <2>3, NewCounted
<1>2. ASSUME NEW c \in Contexts, PipeResourceCreate(c) PROVE CountInv'
  <2>1. New(NoHandle, "typed", One("typed" = "typed")) /\ UNCHANGED <<table, live, views, slot>>
    BY <1>2 DEF PipeResourceCreate, One
  <2> QED BY <2>1, NewCounted
<1>3. ASSUME NEW c \in Contexts, ContextDestroy(c) PROVE CountInv'
  <2>1. {c} \in SUBSET live /\ Destroyed({c}) /\ refs' = Released({c}, {})
        /\ UNCHANGED <<obj, table>>
    BY <1>3 DEF ContextDestroy
  <2> QED BY <2>1, DestroyCounted
<1>4. CASE Reset
  <2>1. /\ live \in SUBSET live /\ Destroyed(live)
        /\ refs' = Released(live, {table[h] : h \in Handles})
        /\ table' = [h \in Handles |-> 0] /\ UNCHANGED obj
    BY <1>4 DEF Reset
  <2> QED BY <2>1, DestroyCounted
<1>5. CASE UNCHANGED <<obj, refs, table, views, slot>> /\ live \subseteq live'
  BY <1>5, NothingMoved
<1>6. ASSUME NEW c \in Contexts, NEW h \in Handles,
             AttachResource(c, h) \/ DetachResource(c, h)
      PROVE  CountInv'
  BY <1>5, <1>6 DEF AttachResource, DetachResource
<1>7. ASSUME NEW c \in Contexts, ContextCreate(c) PROVE CountInv'
  BY <1>5, <1>7 DEF ContextCreate
<1>8. CASE UNCHANGED vars
  BY <1>5, <1>8 DEF vars
<1> QED
  BY <1>1, <1>2, <1>3, <1>4, <1>6, <1>7, <1>8, UnrefCounted, BlobCounted, TypeCounted,
     ViewCounted, IndexCounted DEF Next

LEMMA CountAlways == Spec => [](LookupInv /\ CountInv)
<1>1. LookupInv /\ CountInv /\ [Next]_vars => LookupInv' /\ CountInv'
  BY LookupStep, CountStep
<1> QED BY <1>1, LookupInit, CountInit, PTL DEF Spec

\* A resource that has a handle keeps it.
LEMMA HandlesStay ==
  ASSUME LookupInv, [Next]_vars, NEW n \in Objects, obj[n].id # NoHandle
  PROVE  n \in Objects' /\ obj'[n].id = obj[n].id
<1> USE DEF LookupInv, Types, Objects
<1>1. ASSUME NEW id, NEW kind, NEW count, New(id, kind, count)
      PROVE  n \in Objects' /\ obj'[n].id = obj[n].id
  BY <1>1 DEF New
<1>2. CASE obj' = obj
  BY <1>2
<1>3. ASSUME NEW h \in Handles, NEW c \in Contexts, CreateBlobTyped(h, c)
      PROVE  n \in Objects' /\ obj'[n].id = obj[n].id
  BY <1>3 DEF CreateBlobTyped, UnclaimedNameless
<1>4. ASSUME NEW c \in Contexts, NEW m \in Objects, SetType(c, m)
      PROVE  n \in Objects' /\ obj'[n].id = obj[n].id
  <2>1. CASE obj' = [obj EXCEPT ![m] = [id |-> obj[m].id, kind |-> "typed"]]
    <3>1. Len(obj') = Len(obj)
      BY <2>1
    <3>2. obj'[n] = IF n = m THEN [id |-> obj[m].id, kind |-> "typed"] ELSE obj[n]
      BY <2>1
    <3> QED BY <3>1, <3>2
  <2> QED BY <1>2, <1>4, <2>1 DEF SetType
<1> QED
  BY <1>1, <1>2, <1>3, <1>4 DEF Next, ResourceCreate, CreateBlobUntyped, ResourceUnref,
     ContextCreate, ContextDestroy, PipeResourceCreate, UnsetIndexBuffer, AttachResource,
     DetachResource, CreateView, SetIndexBuffer, DestroyView, Reset, vars

\* Only two commands and the end of a context change an index buffer.
LEMMA SlotChanges ==
  ASSUME CountInv, [Next]_vars, NEW c \in Contexts, slot'[c] # slot[c], slot'[c] # NoSlot
  PROVE  \E h \in Handles : SetIndexBuffer(c, h) /\ resHash[c][h] # 0
<1>1. slot # slot' /\ slot \in [Contexts -> [id : Handles \union {NoHandle}, buf : Objects \union {0}]]
  BY DEF CountInv, HoldTypes
<1>2. ASSUME NEW C, Destroyed(C) PROVE FALSE
  BY <1>2 DEF Destroyed
<1>3. ASSUME NEW d \in Contexts, UnsetIndexBuffer(d) PROVE FALSE
  BY <1>1, <1>3 DEF UnsetIndexBuffer
<1>4. ASSUME NEW d \in Contexts, NEW h \in Handles, SetIndexBuffer(d, h)
      PROVE  d = c /\ resHash[c][h] # 0
  BY <1>1, <1>4 DEF SetIndexBuffer
<1>5. ASSUME NEW h \in Handles, ResourceCreate(h) \/ CreateBlobUntyped(h) \/ ResourceUnref(h)
      PROVE  FALSE
  BY <1>1, <1>5 DEF ResourceCreate, CreateBlobUntyped, ResourceUnref
<1>6. ASSUME NEW d \in Contexts, ContextCreate(d) \/ PipeResourceCreate(d) PROVE FALSE
  BY <1>1, <1>6 DEF ContextCreate, PipeResourceCreate
<1>7. ASSUME NEW d \in Contexts, NEW h \in Handles,
             \/ CreateBlobTyped(h, d) \/ AttachResource(d, h) \/ DetachResource(d, h)
             \/ CreateView(d, h)
      PROVE  FALSE
  BY <1>1, <1>7 DEF CreateBlobTyped, AttachResource, DetachResource, CreateView
<1>8. ASSUME NEW d \in Contexts, NEW n \in Objects, SetType(d, n) \/ DestroyView(d, n) PROVE FALSE
  BY <1>1, <1>8 DEF SetType, DestroyView
<1>9. ASSUME NEW d \in Contexts, ContextDestroy(d) PROVE FALSE
  BY <1>2, <1>9 DEF ContextDestroy
<1>10. CASE Reset
  BY <1>2, <1>10 DEF Reset
<1>11. CASE UNCHANGED vars
  BY <1>1, <1>11 DEF vars
<1> QED
  BY <1>3, <1>4, <1>5, <1>6, <1>7, <1>8, <1>9, <1>10, <1>11 DEF Next

\* What nobody owns is on no list of holders.
OwnersHold ==
  \A n : Owners(n) = {} => /\ Viewers(n) = {} /\ Indexers(n) = {}
                           /\ ~(InTable(n) /\ Typed(n))

LEMMA NoOwners == OwnersHold
<1> SUFFICES ASSUME NEW n, Owners(n) = {}
             PROVE  Viewers(n) = {} /\ Indexers(n) = {} /\ ~(InTable(n) /\ Typed(n))
  BY DEF OwnersHold
<1>1. \A c \in Contexts : n \in views[c] => <<"view", c>> \in Owners(n)
  BY DEF Owners
<1>2. \A c \in Contexts : slot[c].buf = n => <<"slot", c>> \in Owners(n)
  BY DEF Owners
<1>3. \A h \in Handles : table[h] = n /\ Typed(n) => <<"table", h>> \in Owners(n)
  BY DEF Owners
<1> QED BY <1>1, <1>2, <1>3 DEF Viewers, Indexers, InTable

\* Those that own a reference are among the holders, or the one list.
LEMMA OwnersAreHolders ==
  ASSUME LookupInv, CountInv, NEW n \in Objects
  PROVE  refs[n] >= Cardinality(Owners(n))
<1> DEFINE T == {<<"table", h>> : h \in {h \in Handles : table[h] = n /\ Typed(n)}}
           L == {<<"list", c>> : c \in {c \in Contexts : n \in unclaimed[c]}}
           V == {<<"view", c>> : c \in Viewers(n)}
           S == {<<"slot", c>> : c \in Indexers(n)}
<1>0. n # 0
  BY DEF Objects
<1>1. Owners(n) = T \union L \union V \union S
  BY DEF Owners, Viewers, Indexers
<1>2. \A h \in Handles : table[h] = n => h = obj[n].id /\ h # NoHandle
  BY <1>0, ResourcesAssumption DEF LookupInv, IdsAgree
<1>3. CASE obj[n].id = NoHandle
  <2>1. Viewers(n) = {} /\ Indexers(n) = {} /\ T = {} /\ refs[n] = 1
    BY <1>2, <1>3 DEF CountInv, HeldTyped, Counted
  <2>2. \A c, d \in Contexts : n \in unclaimed[c] /\ n \in unclaimed[d] => c = d
    BY DEF LookupInv, UnclaimedNameless
  <2>3. L = {} \/ \E c \in Contexts : L = {<<"list", c>>}
    <3>1. ASSUME NEW c \in Contexts, n \in unclaimed[c] PROVE L = {<<"list", c>>}
      BY <2>2, <3>1
    <3> QED BY <3>1
  <2>4. Owners(n) = L
    BY <1>1, <2>1
  <2>5. Cardinality(L) \in {0, 1}
    <3> HIDE DEF L
    <3> QED BY <2>3, FS_EmptySet, FS_Singleton
  <2> QED BY <2>1, <2>4, <2>5
<1>4. CASE obj[n].id # NoHandle
  <2>1. L = {}
    BY <1>4 DEF LookupInv, UnclaimedNameless
  <2>2. IsFiniteSet(T) /\ Cardinality(T) = One(InTable(n) /\ Typed(n))
    <3>1. CASE InTable(n) /\ Typed(n)
      <4>1. T = {<<"table", obj[n].id>>}
        BY <1>2, <3>1 DEF InTable
      <4> QED BY <3>1, <4>1, FS_Singleton DEF One
    <3>2. CASE ~(InTable(n) /\ Typed(n))
      <4>1. T = {}
        BY <3>2 DEF InTable
      <4> QED BY <3>2, <4>1, FS_EmptySet DEF One
    <3> QED BY <3>1, <3>2
  <2>3. IsFiniteSet(V) /\ Cardinality(V) <= Cardinality(Viewers(n))
    <3> DEFINE f == [c \in Viewers(n) |-> <<"view", c>>]
    <3>1. f \in Surjection(Viewers(n), V)
      BY DEF Surjection
    <3> HIDE DEF f, V
    <3> QED BY <3>1, HoldersOf, Cards, FS_Surjection
  <2>4. IsFiniteSet(S) /\ Cardinality(S) <= Cardinality(Indexers(n))
    <3> DEFINE f == [c \in Indexers(n) |-> <<"slot", c>>]
    <3>1. f \in Surjection(Indexers(n), S)
      BY DEF Surjection
    <3> HIDE DEF f, S
    <3> QED BY <3>1, HoldersOf, Cards, FS_Surjection
  <2>5. Owners(n) = (T \union V) \union S
    BY <1>1, <2>1
  <2>6. refs[n] = Cardinality(T) + Cardinality(Viewers(n)) + Cardinality(Indexers(n))
    BY <1>4, <2>2 DEF CountInv, Counted, Count
  <2> HIDE DEF T, V, S
  <2>7. /\ IsFiniteSet(T \union V)
        /\ Cardinality(T \union V) = Cardinality(T) + Cardinality(V) - Cardinality(T \cap V)
        /\ Cardinality(T \cap V) \in Nat
    BY <2>2, <2>3, FS_Union, FS_Subset, FS_CardinalityType
  <2>8. /\ Cardinality((T \union V) \union S) =
             Cardinality(T \union V) + Cardinality(S) - Cardinality((T \union V) \cap S)
        /\ Cardinality((T \union V) \cap S) \in Nat
    BY <2>4, <2>7, FS_Union, FS_Subset, FS_CardinalityType
  <2>9. Cardinality(T) \in Nat /\ Cardinality(V) \in Nat /\ Cardinality(S) \in Nat
        /\ Cardinality(T \union V) \in Nat
    BY <2>2, <2>3, <2>4, <2>7, FS_CardinalityType
  <2>10. Cardinality(Viewers(n)) \in Nat /\ Cardinality(Indexers(n)) \in Nat
    BY HoldersOf
  <2>11. Cardinality((T \union V) \union S) <= refs[n]
    BY ONLY <2>3, <2>4, <2>6, <2>7, <2>8, <2>9, <2>10
  <2>12. refs[n] \in Nat /\ Cardinality(Owners(n)) = Cardinality((T \union V) \union S)
    BY <2>5 DEF CountInv, HoldTypes
  <2> QED BY <2>7, <2>8, <2>9, <2>11, <2>12
<1> QED BY <1>3, <1>4

\* A vrend_resource is not freed while the table, a list, an object or an index buffer
\* refers to it (vrend_resource_reference), whatever is destroyed in whatever order.
THEOREM NothingFreedInUse == Spec => []NeverFreedInUse
<1>1. LookupInv /\ CountInv => NeverFreedInUse
  BY OwnersAreHolders DEF NeverFreedInUse
<1> QED BY <1>1, CountAlways, PTL

\* Type correctness: no count falls below 0, for any handles, contexts and resources.
THEOREM TypesAreKept == Spec => []TypeOK
<1>1. LookupInv /\ CountInv => TypeOK
  BY DEF LookupInv, Types, CountInv, HoldTypes, TypeOK
<1> QED BY <1>1, CountAlways, PTL

\* The last owner frees the vrend_resource, unless the resource lay on the list of a
\* context: then nobody gives its one reference back (vrend_destroy_context).
THEOREM LastOwnerFrees == Spec => FreedAtLast
<1>1. ASSUME LookupInv, CountInv, [Next]_vars, LookupInv', CountInv'
      PROVE  \A n \in DOMAIN refs :
               refs[n] > 0 /\ Owners(n) # {} /\ Owners(n)' = {}
                 /\ (\A c \in Contexts : n \notin unclaimed[c]) => refs'[n] = 0
  <2> SUFFICES ASSUME NEW n \in Objects, Owners(n) # {}, Owners(n)' = {},
                      \A c \in Contexts : n \notin unclaimed[c]
               PROVE  refs'[n] = 0
    BY <1>1 DEF CountInv, HoldTypes
  <2>1. obj[n].id # NoHandle
    <3>1. SUFFICES ASSUME obj[n].id = NoHandle PROVE FALSE
      OBVIOUS
    <3>2. Viewers(n) = {} /\ Indexers(n) = {}
      BY <1>1, <3>1 DEF CountInv, HeldTyped
    <3>3. \A h \in Handles : table[h] # n
      BY <1>1, <3>1, ResourcesAssumption DEF LookupInv, IdsAgree, Objects
    <3> QED BY <3>2, <3>3 DEF Owners, Viewers, Indexers
  <2>2. n \in Objects' /\ obj'[n].id = obj[n].id
    BY <1>1, <2>1, HandlesStay
  <2>3. Viewers(n)' = {} /\ Indexers(n)' = {} /\ ~(InTable(n)' /\ Typed(n)')
    <3>1. OwnersHold'
      BY NoOwners, PTL
    <3> QED BY <3>1 DEF OwnersHold
  <2>4. Count(n)' = 0
    <3>1. One(InTable(n) /\ Typed(n))' = 0
      BY <2>3 DEF One
    <3>2. Cardinality(Viewers(n))' = 0 /\ Cardinality(Indexers(n))' = 0
      BY <2>3, Cards
    <3> QED BY <3>1, <3>2 DEF Count
  <2> QED BY <1>1, <2>1, <2>2, <2>4 DEF CountInv, Counted
<1>2. LookupInv /\ CountInv /\ [Next]_vars /\ LookupInv' /\ CountInv' =>
        [\A n \in DOMAIN refs :
           refs[n] > 0 /\ Owners(n) # {} /\ Owners(n)' = {}
             /\ (\A c \in Contexts : n \notin unclaimed[c]) => refs'[n] = 0]_vars
  BY <1>1
<1> QED BY <1>2, CountAlways, PTL DEF Spec, FreedAtLast

\* The index buffer has the handle that the command named: a resource keeps its handle.
THEOREM IndexBuffersNamed == Spec => []IndexBufferNamed
<1>1. Init => IndexBufferNamed
  BY DEF Init, IndexBufferNamed, NoSlot
<1>2. LookupInv /\ CountInv /\ IndexBufferNamed /\ [Next]_vars => IndexBufferNamed'
  <2> SUFFICES ASSUME LookupInv, CountInv, IndexBufferNamed, [Next]_vars,
                      NEW c \in Contexts, slot'[c].id # NoHandle
               PROVE  slot'[c].buf # 0 /\ obj'[slot'[c].buf].id = slot'[c].id
    BY DEF IndexBufferNamed
  <2> USE DEF LookupInv, Types, Objects, CountInv, HoldTypes
  <2>1. CASE slot'[c] = slot[c]
    <3>1. PICK n \in Objects : n = slot[c].buf /\ n # 0 /\ obj[n].id = slot[c].id
      BY <2>1 DEF IndexBufferNamed
    <3>2. obj'[n].id = obj[n].id
      BY <2>1, <3>1, HandlesStay
    <3> QED BY <2>1, <3>1, <3>2
  <2>2. CASE slot'[c] # slot[c]
    <3>1. PICK h \in Handles : SetIndexBuffer(c, h) /\ resHash[c][h] # 0
      BY <2>2, SlotChanges DEF NoSlot
    <3>2. slot'[c] = [id |-> h, buf |-> resHash[c][h]] /\ obj' = obj
      BY <3>1 DEF SetIndexBuffer
    <3> QED BY <3>1, <3>2, LookedUp
  <2> QED BY <2>1, <2>2
<1> QED BY <1>1, <1>2, CountAlways, PTL DEF Spec
=============================================================================
