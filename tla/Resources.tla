----------------------------- MODULE Resources -----------------------------
(***************************************************************************)
(* The resources of virglrenderer: the table of virgl_resources, what each *)
(* context of vrend knows of them, and the references that keep their      *)
(* vrend_resources (the textures and buffers) alive.                       *)
(*                                                                         *)
(* A virgl_resource and the vrend_resource it wraps have one number, in    *)
(* the order of creation; 0 is NULL.  A virgl_resource without             *)
(* vrend_resource is untyped: guest memory, or a dmabuf that a context of  *)
(* Venus exported.  Calls come one at a time, from one thread.             *)
(***************************************************************************)
EXTENDS Integers, Sequences, FiniteSets

CONSTANTS
  Handles,       \* the resource ids that callers use
  NoHandle,      \* the id 0
  Contexts,      \* the ids of user contexts
  MaxObjects,    \* bound: how many resources are created
  MaxBound       \* bound: how many references views and index buffers hold at a time

ASSUME ResourcesAssumption ==
  /\ NoHandle \notin Handles
  /\ IsFiniteSet(Contexts)
  /\ MaxObjects \in Nat /\ MaxBound \in Nat

VARIABLES
  obj,         \* obj[n]: the id that n was given and its kind
  refs,        \* refs[n]: the reference count of the vrend_resource
  table,       \* virgl_resource_table
  live,        \* the contexts that exist
  resHash,     \* res_hash of each context: it owns no reference
  cache,       \* untyped_resource_cache of each context
  parked,      \* untyped_resources of each context
  unclaimed,   \* vrend_resources of each context: no virgl_resource wraps them yet
  views,       \* the resources that the objects of a context refer to
  slot         \* the index buffer of each context: index_buffer_res_id and ib.buffer

tables == <<resHash, cache, parked>>
vars   == <<obj, refs, table, live, tables, unclaimed, views, slot>>

Objects == 1..Len(obj)
Typed(n) == n # 0 /\ obj[n].kind = "typed"
NoSlot == [id |-> NoHandle, buf |-> 0]

Init ==
  /\ obj = <<>> /\ refs = <<>>
  /\ table = [h \in Handles |-> 0]
  /\ live = {}
  /\ resHash = [c \in Contexts |-> [h \in Handles |-> 0]]
  /\ cache = [c \in Contexts |-> 0]
  /\ parked = [c \in Contexts |-> {}]
  /\ unclaimed = [c \in Contexts |-> {}]
  /\ views = [c \in Contexts |-> {}]
  /\ slot = [c \in Contexts |-> NoSlot]

-----------------------------------------------------------------------------
(* References                                                               *)

One(b) == IF b THEN 1 ELSE 0

\* Mutant of Released: the index buffer's reference is dropped although ib.buffer
\* is none of the destroyed contexts'.
ReleasedTwice(C, T) ==
  [n \in DOMAIN refs |-> refs[n]
     - Cardinality({c \in C : n \in views[c]})
     - Cardinality({c \in live : slot[c].buf = n})
     - One(n \in T /\ Typed(n))]

\* Mutant of Released: the objects of a destroyed context keep their references.
ReleasedViewsKept(C, T) ==
  [n \in DOMAIN refs |-> refs[n]
     - Cardinality({c \in C : slot[c].buf = n})
     - One(n \in T /\ Typed(n))]

\* The counts after the contexts C and the virgl_resources T were destroyed.
Released(C, T) ==
  [n \in DOMAIN refs |-> refs[n]
     - Cardinality({c \in C : n \in views[c]})
     - Cardinality({c \in C : slot[c].buf = n})
     - One(n \in T /\ Typed(n))]

\* vrend_resource_reference: drop the reference to old and take one to new.
Referenced(old, new) ==
  [n \in DOMAIN refs |-> refs[n] + One(n = new) - One(n = old)]

-----------------------------------------------------------------------------
(* Resources are created and destroyed                                      *)

\* A caller gives an id that names no resource.
Free(h) == table[h] = 0

New(h, kind, count) ==
  /\ Len(obj) < MaxObjects
  /\ obj' = Append(obj, [id |-> h, kind |-> kind])
  /\ refs' = Append(refs, count)

\* virgl_renderer_resource_create
ResourceCreate(h) ==
  /\ Free(h)
  /\ New(h, "typed", 1)
  /\ table' = [table EXCEPT ![h] = Len(obj) + 1]
  /\ UNCHANGED <<live, tables, unclaimed, views, slot>>

\* virgl_renderer_resource_create_blob with guest memory, or with the dmabuf that
\* get_blob of a Venus context exports (in builds that have Venus)
CreateBlobUntyped(h) ==
  /\ Free(h)
  /\ \E kind \in {"guest", "dmabuf"} : New(h, kind, 0)
  /\ table' = [table EXCEPT ![h] = Len(obj) + 1]
  /\ UNCHANGED <<live, tables, unclaimed, views, slot>>

\* VIRGL_CCMD_PIPE_RESOURCE_CREATE: a vrend_resource waits for its blob.
PipeResourceCreate(c) ==
  /\ c \in live
  /\ New(NoHandle, "typed", 1)
  /\ unclaimed' = [unclaimed EXCEPT ![c] = @ \union {Len(obj) + 1}]
  /\ UNCHANGED <<table, live, tables, views, slot>>

\* Mutant of CreateBlobTyped: get_blob leaves the resource on the list.
CreateBlobTypedListed(h, c) ==
  /\ c \in live /\ Free(h)
  /\ \E n \in unclaimed[c] :
       /\ table' = [table EXCEPT ![h] = n]
       /\ obj' = [obj EXCEPT ![n] = [id |-> h, kind |-> "typed"]]
       /\ UNCHANGED unclaimed
  /\ UNCHANGED <<refs, live, tables, views, slot>>

\* virgl_renderer_resource_create_blob with a blob id of a vrend context: the
\* resource is taken from the list with its reference.
CreateBlobTyped(h, c) ==
  /\ c \in live /\ Free(h)
  /\ \E n \in unclaimed[c] :
       /\ table' = [table EXCEPT ![h] = n]
       /\ obj' = [obj EXCEPT ![n] = [id |-> h, kind |-> "typed"]]
       /\ unclaimed' = [unclaimed EXCEPT ![c] = @ \ {n}]
  /\ UNCHANGED <<refs, live, tables, views, slot>>

\* Mutant of DetachFrom: the type of the resource is not asked.
DetachFromHash(C, h) ==
  /\ resHash' = [c \in Contexts |-> IF c \in C THEN [resHash[c] EXCEPT ![h] = 0]
                                   ELSE resHash[c]]
  /\ UNCHANGED <<cache, parked>>

\* Mutant of DetachFrom: nothing is removed from res_hash.
DetachFromParked(C, h) ==
  LET n == table[h] IN
  /\ cache' = [c \in Contexts |-> IF c \in C /\ cache[c] = n THEN 0 ELSE cache[c]]
  /\ parked' = [c \in Contexts |-> IF c \in C /\ cache[c] # n THEN parked[c] \ {n}
                                   ELSE parked[c]]
  /\ UNCHANGED resHash

\* vrend_renderer_detach_res_ctx for the contexts C
DetachFrom(C, h) ==
  LET n == table[h] IN
  IF Typed(n)
  THEN /\ resHash' = [c \in Contexts |-> IF c \in C THEN [resHash[c] EXCEPT ![h] = 0]
                                         ELSE resHash[c]]
       /\ UNCHANGED <<cache, parked>>
  ELSE /\ cache' = [c \in Contexts |-> IF c \in C /\ cache[c] = n THEN 0 ELSE cache[c]]
       /\ parked' = [c \in Contexts |-> IF c \in C /\ cache[c] # n
                                        THEN parked[c] \ {n} ELSE parked[c]]
       /\ UNCHANGED resHash

\* virgl_renderer_resource_unref: the resource is detached from every context.
\* vtest_resource_unref attaches a typed one once more before, to no effect.
ResourceUnref(h) ==
  /\ table[h] # 0
  /\ DetachFrom(live, h)
  /\ table' = [table EXCEPT ![h] = 0]
  /\ refs' = Released({}, {table[h]})
  /\ UNCHANGED <<obj, live, unclaimed, views, slot>>

-----------------------------------------------------------------------------
(* Contexts and what they know of resources                                 *)

ContextCreate(c) ==
  /\ c \notin live
  /\ live' = live \union {c}
  /\ UNCHANGED <<obj, refs, table, tables, unclaimed, views, slot>>

\* What is left of the contexts C: nothing.  The vrend_resources that wait for a
\* blob are forgotten with the list, not released.
Destroyed(C) ==
  /\ live' = live \ C
  /\ resHash' = [c \in Contexts |-> IF c \in C THEN [h \in Handles |-> 0] ELSE resHash[c]]
  /\ cache' = [c \in Contexts |-> IF c \in C THEN 0 ELSE cache[c]]
  /\ parked' = [c \in Contexts |-> IF c \in C THEN {} ELSE parked[c]]
  /\ unclaimed' = [c \in Contexts |-> IF c \in C THEN {} ELSE unclaimed[c]]
  /\ views' = [c \in Contexts |-> IF c \in C THEN {} ELSE views[c]]
  /\ slot' = [c \in Contexts |-> IF c \in C THEN NoSlot ELSE slot[c]]

ContextDestroy(c) ==
  /\ c \in live
  /\ Destroyed({c})
  /\ refs' = Released({c}, {})
  /\ UNCHANGED <<obj, table>>

\* virgl_renderer_reset empties the table of contexts, then that of resources.
Reset ==
  /\ Destroyed(live)
  /\ refs' = Released(live, {table[h] : h \in Handles})
  /\ table' = [h \in Handles |-> 0]
  /\ UNCHANGED obj

Attached(c, n) == n = cache[c] \/ n \in parked[c]

\* virgl_renderer_ctx_attach_resource.  A caller attaches an untyped resource once.
AttachResource(c, h) ==
  LET n == table[h] IN
  /\ c \in live /\ n # 0
  /\ IF Typed(n)
     THEN resHash' = [resHash EXCEPT ![c][h] = n] /\ UNCHANGED <<cache, parked>>
     ELSE /\ ~Attached(c, n)
          /\ parked' = [parked EXCEPT ![c] = @ \union ({cache[c]} \ {0})]
          /\ cache' = [cache EXCEPT ![c] = n]
          /\ UNCHANGED resHash
  /\ UNCHANGED <<obj, refs, table, live, unclaimed, views, slot>>

DetachResource(c, h) ==
  /\ c \in live /\ table[h] # 0
  /\ DetachFrom({c}, h)
  /\ UNCHANGED <<obj, refs, table, live, unclaimed, views, slot>>

\* Whether every untyped resource that c remembers exists.  The search of
\* PIPE_RESOURCE_SET_TYPE reads their ids, which is undefined otherwise.
Readable(c) ==
  \A n \in parked[c] \union ({cache[c]} \ {0}) : \E h \in Handles : table[h] = n

\* VIRGL_CCMD_PIPE_RESOURCE_SET_TYPE for an untyped resource that c remembers: it
\* is no more parked, whether or not it can be given a type.
SetType(c, n) ==
  /\ c \in live /\ Readable(c)
  /\ Attached(c, n) /\ n # 0
  /\ IF n = cache[c] THEN cache' = [cache EXCEPT ![c] = 0] /\ UNCHANGED parked
     ELSE parked' = [parked EXCEPT ![c] = @ \ {n}] /\ UNCHANGED cache
  /\ \/ /\ Typed(n)
        /\ resHash' = [resHash EXCEPT ![c][obj[n].id] = n]
        /\ UNCHANGED <<obj, refs>>
     \/ /\ obj[n].kind = "dmabuf"
        /\ obj' = [obj EXCEPT ![n] = [id |-> obj[n].id, kind |-> "typed"]]
        /\ refs' = [refs EXCEPT ![n] = 1]
        /\ resHash' = [resHash EXCEPT ![c][obj[n].id] = n]
     \/ /\ ~Typed(n)
        /\ UNCHANGED <<obj, refs, resHash>>
  /\ UNCHANGED <<table, live, unclaimed, views, slot>>

-----------------------------------------------------------------------------
(* Commands that use a resource                                             *)

\* What views and index buffers of all contexts refer to, and the bound on it.
RoomToBind ==
  Cardinality(UNION {{<<c, "view", n>> : n \in views[c]}
                       \union {<<c, "slot", n>> : n \in {slot[c].buf} \ {0}} : c \in Contexts})
    < MaxBound

\* An object that refers to a resource is created: a surface, a sampler view, a
\* streamout target or a query.
CreateView(c, h) ==
  LET n == resHash[c][h] IN
  /\ c \in live /\ n # 0 /\ n \notin views[c]
  /\ RoomToBind
  /\ views' = [views EXCEPT ![c] = @ \union {n}]
  /\ refs' = Referenced(0, n)
  /\ UNCHANGED <<obj, table, live, tables, unclaimed, slot>>

DestroyView(c, n) ==
  /\ n \in views[c]
  /\ views' = [views EXCEPT ![c] = @ \ {n}]
  /\ refs' = Referenced(n, 0)
  /\ UNCHANGED <<obj, table, live, tables, unclaimed, slot>>

\* Mutant of SetIndexBuffer: the old buffer is kept when the lookup fails.
SetIndexBufferKept(c, h) ==
  LET n == resHash[c][h] IN
  /\ c \in live /\ slot[c].id # h
  /\ n = 0 \/ slot[c].buf # 0 \/ RoomToBind
  /\ slot' = [slot EXCEPT ![c] = IF n = 0 THEN [id |-> h, buf |-> slot[c].buf]
                                 ELSE [id |-> h, buf |-> n]]
  /\ refs' = Referenced(IF n = 0 THEN 0 ELSE slot[c].buf, n)
  /\ UNCHANGED <<obj, table, live, tables, unclaimed, views>>

\* vrend_set_index_buffer looks the handle up only when it is another one than the
\* handle of the last call.
SetIndexBuffer(c, h) ==
  LET n == resHash[c][h] IN
  /\ c \in live /\ slot[c].id # h
  /\ n = 0 \/ slot[c].buf # 0 \/ RoomToBind
  /\ slot' = [slot EXCEPT ![c] = IF n = 0 THEN NoSlot ELSE [id |-> h, buf |-> n]]
  /\ refs' = Referenced(slot[c].buf, n)
  /\ UNCHANGED <<obj, table, live, tables, unclaimed, views>>

UnsetIndexBuffer(c) ==
  /\ c \in live /\ slot[c] # NoSlot
  /\ slot' = [slot EXCEPT ![c] = NoSlot]
  /\ refs' = Referenced(slot[c].buf, 0)
  /\ UNCHANGED <<obj, table, live, tables, unclaimed, views>>

Next ==
  \/ \E h \in Handles : ResourceCreate(h) \/ CreateBlobUntyped(h) \/ ResourceUnref(h)
  \/ \E c \in Contexts :
       \/ ContextCreate(c) \/ ContextDestroy(c) \/ PipeResourceCreate(c)
       \/ UnsetIndexBuffer(c)
  \/ \E c \in Contexts, h \in Handles :
       \/ CreateBlobTyped(h, c) \/ AttachResource(c, h) \/ DetachResource(c, h)
       \/ CreateView(c, h) \/ SetIndexBuffer(c, h)
  \/ \E c \in Contexts, n \in Objects : SetType(c, n) \/ DestroyView(c, n)
  \/ Reset

Spec == Init /\ [][Next]_vars
-----------------------------------------------------------------------------
(* Properties                                                               *)

\* The types of the state; a context that does not exist remembers nothing.
TypeOK ==
  /\ obj \in Seq([id : Handles \union {NoHandle}, kind : {"typed", "guest", "dmabuf"}])
  /\ refs \in [Objects -> Nat]
  /\ table \in [Handles -> Objects \union {0}]
  /\ live \subseteq Contexts
  /\ resHash \in [Contexts -> [Handles -> Objects \union {0}]]
  /\ cache \in [Contexts -> Objects \union {0}]
  /\ parked \in [Contexts -> SUBSET Objects]
  /\ unclaimed \in [Contexts -> SUBSET Objects]
  /\ views \in [Contexts -> SUBSET Objects]
  /\ slot \in [Contexts -> [id : Handles \union {NoHandle}, buf : Objects \union {0}]]

\* A context finds under a handle the resource that the table has there, and nothing
\* when that resource is dead or not typed: res_hash, which owns no reference, never
\* leads to a freed vrend_resource or to an older one of the same handle.
LookupsCurrent ==
  \A c \in Contexts, h \in Handles :
    resHash[c][h] # 0 => resHash[c][h] = table[h] /\ Typed(table[h])

\* Those that own a reference to the vrend_resource of n: its virgl_resource or the
\* list it waits on, and every object and index buffer that was bound to it.
Owners(n) ==
  {<<"table", h>> : h \in {h \in Handles : table[h] = n /\ Typed(n)}}
    \union {<<"list", c>> : c \in {c \in Contexts : n \in unclaimed[c]}}
    \union {<<"view", c>> : c \in {c \in Contexts : n \in views[c]}}
    \union {<<"slot", c>> : c \in {c \in Contexts : slot[c].buf = n}}

\* A vrend_resource is never freed while something still refers to it ("we should
\* have a reference to this texture taken at create time", vrend_set_single_sampler_view).
NeverFreedInUse == \A n \in Objects : refs[n] >= Cardinality(Owners(n))

\* What was created typed, or typed later, is freed with its last owner, but for the
\* resources that lay unclaimed on the list of a destroyed context.
FreedAtLast ==
  [][\A n \in DOMAIN refs :
       refs[n] > 0 /\ Owners(n) # {} /\ Owners(n)' = {}
         /\ (\A c \in Contexts : n \notin unclaimed[c]) => refs'[n] = 0]_vars

\* The index buffer is a resource of the handle that the command named, though the
\* handle is looked up only when it changes and the resource may be dead by now.
IndexBufferNamed ==
  \A c \in Contexts :
    slot[c].id # NoHandle => slot[c].buf # 0 /\ obj[slot[c].buf].id = slot[c].id

\* An untyped resource that a context remembers exists: whatever its end, it is taken
\* from every context first.
UntypedParkedExist ==
  \A c \in Contexts : \A n \in parked[c] \union ({cache[c]} \ {0}) :
    ~Typed(n) => \E h \in Handles : table[h] = n

-----------------------------------------------------------------------------
(* What comments of the sources say, and the code does not do               *)

\* "To work with untyped virgl_resources, we park them in untyped_resources first when
\* they are attached.  We move them into res_hash only after we get the type": what is
\* parked exists, also when it is another context that gets the type.
ParkedExist ==
  \A c \in Contexts : \A n \in parked[c] \union ({cache[c]} \ {0}) :
    \E h \in Handles : table[h] = n
=============================================================================
