--------------------------- MODULE DescriptorHeap ---------------------------
(***************************************************************************)
(* A descriptor heap that is backed by Vulkan descriptor sets              *)
(* (libs/vkd3d/resource.c).  Any thread may write or copy a descriptor at  *)
(* any time, without a lock.  A written descriptor is pushed on a          *)
(* lock-free list; the device worker, and a queue that executes a command  *)
(* list, take the whole list and write the views to Vulkan.  Views are     *)
(* reference counted, and recycled instead of freed, so that a thread may  *)
(* try to take a reference on a view it has just read from a descriptor.   *)
(*                                                                         *)
(* An action is one atomic access to shared memory; the accesses are       *)
(* sequentially consistent, as the compiler builtins of vkd3d_common.h     *)
(* are.                                                                    *)
(***************************************************************************)
EXTENDS Integers, Sequences, FiniteSets, SequencesExt

CONSTANTS
    Threads,
    DeviceWorker,   \* one of Threads
    NumDescs,       \* the descriptors are 0 .. NumDescs - 1
    QuarterRange,   \* 2^30: a quarter of the range of a 32-bit integer
    Objects,        \* the memory of the views
    NULL,
    WriteBufferSize,\* VKD3D_DESCRIPTOR_WRITE_BUFFER_SIZE: 24
    MaxWrites       \* bound: descriptors created and copied

ASSUME HeapAssumption ==
    /\ IsFiniteSet(Threads) /\ DeviceWorker \in Threads
    /\ NumDescs \in Nat /\ QuarterRange \in Nat \ {0} /\ NumDescs <= QuarterRange
    /\ NULL \notin Objects /\ NULL \notin Threads
    /\ WriteBufferSize \in Nat \ {0, 1} /\ MaxWrites \in Nat

Descs == 0 .. NumDescs - 1
UINT_MAX == 4 * QuarterRange - 1

VARIABLES
    object,         \* the view of each descriptor
    next,           \* 0, or the encoded index of the next dirty descriptor
    dirty_list_head,
    refcount,       \* of each view
    view_desc_cache,\* the memory of views that is free
    vk_sets_mutex,  \* the thread that holds it, or NULL
    thread,         \* where each thread is, and its local variables
    version,        \* what each view shows: the number of the call that made it
    vk_set,         \* what the Vulkan descriptor sets show
    writes,         \* how many calls were made
    had,            \* history: what each descriptor has shown
    writers         \* history: who has written each descriptor

heapVars == <<object, next, dirty_list_head>>
viewVars == <<refcount, view_desc_cache, version>>
historyVars == <<writes, had, writers>>
vars == <<heapVars, viewVars, historyVars, vk_sets_mutex, thread, vk_set>>

\* Mutant: the sign of (int)next is dropped before the shift.
DecodeUnsigned(n) == n \div 2

\* (head << 1) | 1, and (int)next >> 1 as an unsigned integer.
Encode(i) == (2 * i + 1) % (4 * QuarterRange)
Decode(n) == IF n < 2 * QuarterRange THEN n \div 2 ELSE n \div 2 + 2 * QuarterRange

Index == Descs \cup {UINT_MAX}

Local == [pc : {"idle", "read", "incref", "check", "undo", "replace", "decref",
                "test", "head", "mark", "push", "relink",
                "lock", "take", "walk", "update", "free", "unlock"},
          dst : Descs \cup {0}, src : Descs \cup {0},
          view : Objects \cup {NULL}, old : Objects \cup {NULL},
          head : Index, i : Index,
          held : Seq([desc : Descs, view : Objects])]

Start == [pc |-> "idle", dst |-> 0, src |-> 0, view |-> NULL, old |-> NULL,
          head |-> UINT_MAX, i |-> UINT_MAX, held |-> <<>>]

Init ==
    /\ object = [d \in Descs |-> NULL]
    /\ next = [d \in Descs |-> 0]
    /\ dirty_list_head = UINT_MAX
    /\ refcount = [o \in Objects |-> 0]
    /\ view_desc_cache = Objects
    /\ vk_sets_mutex = NULL
    /\ thread = [t \in Threads |-> Start]
    /\ version = [o \in Objects |-> 0]
    /\ vk_set = [d \in Descs |-> 0]
    /\ writes = 0
    /\ had = [d \in Descs |-> {0}]
    /\ writers = [d \in Descs |-> {}]

At(t, pc) == thread[t].pc = pc
Go(t, local) == thread' = [thread EXCEPT ![t] = local]
Goto(t, pc) == Go(t, [thread[t] EXCEPT !.pc = pc])
Return(t) == Go(t, Start)
Flushing(t) == vk_sets_mutex = t

\* vkd3d_view_decref(): the last one puts the view back into the cache.
DecRef(o) ==
    /\ refcount' = [refcount EXCEPT ![o] = @ - 1]
    /\ view_desc_cache' = view_desc_cache \cup (IF refcount[o] = 1 THEN {o} ELSE {})

-----------------------------------------------------------------------------
(* Calls: CreateShaderResourceView() and the like, and CopyDescriptors().   *)

\* The view is made, or left NULL when that fails, before it is written.
CreateView(t, d) ==
    /\ At(t, "idle") /\ t # DeviceWorker
    /\ writes < MaxWrites
    /\ writes' = writes + 1
    /\ \/ \E o \in view_desc_cache :
              /\ view_desc_cache' = view_desc_cache \ {o}
              /\ refcount' = [refcount EXCEPT ![o] = 1]
              /\ version' = [version EXCEPT ![o] = writes + 1]
              /\ Go(t, [Start EXCEPT !.pc = "replace", !.dst = d, !.view = o])
       \/ /\ Go(t, [Start EXCEPT !.pc = "replace", !.dst = d])
          /\ UNCHANGED viewVars
    /\ UNCHANGED <<heapVars, vk_sets_mutex, vk_set, had, writers>>

\* d3d12_desc_copy(); descriptors that have the same view are skipped.
CopyDescriptor(t, d, s) ==
    /\ At(t, "idle") /\ t # DeviceWorker
    /\ d # s /\ object[d] # object[s]
    /\ writes < MaxWrites
    /\ writes' = writes + 1
    /\ Go(t, [Start EXCEPT !.pc = "read", !.dst = d, !.src = s])
    /\ UNCHANGED <<heapVars, viewVars, vk_sets_mutex, vk_set, had, writers>>

-----------------------------------------------------------------------------
(* d3d12_desc_get_object_ref(), called by a copy and by the flush.          *)

\* What the caller does with the result.
GotRef(t, view) ==
    LET full == Len(thread[t].held) + 1 >= WriteBufferSize - 1
        write == [desc |-> thread[t].src, view |-> view]
    IN  IF ~Flushing(t) THEN Go(t, [thread[t] EXCEPT !.pc = "replace", !.view = view])
        ELSE IF view = NULL THEN Goto(t, "walk")
        ELSE Go(t, [thread[t] EXCEPT !.pc = IF full THEN "update" ELSE "walk",
                                     !.view = NULL, !.held = Append(@, write)])

ReadObject(t) ==
    /\ At(t, "read")
    /\ LET view == object[thread[t].src]
       IN  IF view = NULL THEN GotRef(t, NULL)
           ELSE Go(t, [thread[t] EXCEPT !.pc = "incref", !.view = view])
    /\ UNCHANGED <<heapVars, viewVars, historyVars, vk_sets_mutex, vk_set>>

\* Mutant: a view that was freed is referenced.
IncRefRevives(t) ==
    /\ At(t, "incref")
    /\ refcount' = [refcount EXCEPT ![thread[t].view] = @ + 1]
    /\ Goto(t, "check")
    /\ UNCHANGED <<heapVars, view_desc_cache, version, historyVars, vk_sets_mutex, vk_set>>

\* vkd3d_view_incref() does not revive a view that was freed.
IncRef(t) ==
    /\ At(t, "incref")
    /\ LET o == thread[t].view
       IN  IF refcount[o] = 0
           THEN Go(t, [thread[t] EXCEPT !.pc = "read", !.view = NULL])
                /\ UNCHANGED refcount
           ELSE Goto(t, "check") /\ refcount' = [refcount EXCEPT ![o] = @ + 1]
    /\ UNCHANGED <<heapVars, view_desc_cache, version, historyVars, vk_sets_mutex, vk_set>>

\* Mutant: the descriptor is not looked at again.
TrustObject(t) ==
    /\ At(t, "check")
    /\ GotRef(t, thread[t].view)
    /\ UNCHANGED <<heapVars, viewVars, historyVars, vk_sets_mutex, vk_set>>

\* The view may have been freed and reused before it was referenced.
CheckObject(t) ==
    /\ At(t, "check")
    /\ IF thread[t].view = object[thread[t].src]
       THEN GotRef(t, thread[t].view)
       ELSE Goto(t, "undo")
    /\ UNCHANGED <<heapVars, viewVars, historyVars, vk_sets_mutex, vk_set>>

UndoRef(t) ==
    /\ At(t, "undo")
    /\ DecRef(thread[t].view)
    /\ Go(t, [thread[t] EXCEPT !.pc = "read", !.view = NULL])
    /\ UNCHANGED <<heapVars, version, historyVars, vk_sets_mutex, vk_set>>

-----------------------------------------------------------------------------
(* descriptor_heap_write_atomic() and d3d12_desc_mark_as_modified().        *)

\* The reference of the descriptor passes to the thread and back.
ReplaceObject(t) ==
    /\ At(t, "replace")
    /\ LET d == thread[t].dst
           view == thread[t].view
       IN  /\ object' = [object EXCEPT ![d] = view]
           /\ Go(t, [thread[t] EXCEPT !.pc = IF object[d] = NULL THEN "test" ELSE "decref",
                                      !.old = object[d]])
           /\ had' = [had EXCEPT ![d] = IF view = NULL THEN @ ELSE @ \cup {version[view]}]
           /\ writers' = [writers EXCEPT ![d] = @ \cup {t}]
    /\ UNCHANGED <<next, dirty_list_head, viewVars, writes, vk_sets_mutex, vk_set>>

DecRefOld(t) ==
    /\ At(t, "decref")
    /\ DecRef(thread[t].old)
    /\ Go(t, [thread[t] EXCEPT !.pc = "test", !.old = NULL])
    /\ UNCHANGED <<heapVars, version, historyVars, vk_sets_mutex, vk_set>>

\* A NULL view is not written to Vulkan; a dirty descriptor is on its way.
TestNext(t) ==
    /\ At(t, "test")
    /\ IF thread[t].view # NULL /\ next[thread[t].dst] = 0
       THEN Go(t, [thread[t] EXCEPT !.pc = "head", !.view = NULL])
       ELSE Return(t)
    /\ UNCHANGED <<heapVars, viewVars, historyVars, vk_sets_mutex, vk_set>>

ReadHead(t) ==
    /\ At(t, "head")
    /\ Go(t, [thread[t] EXCEPT !.pc = "mark", !.head = dirty_list_head])
    /\ UNCHANGED <<heapVars, viewVars, historyVars, vk_sets_mutex, vk_set>>

\* Only one thread can swap the value away from zero.
MarkDesc(t) ==
    /\ At(t, "mark")
    /\ LET d == thread[t].dst
       IN  IF next[d] = 0
           THEN /\ next' = [next EXCEPT ![d] = Encode(thread[t].head)]
                /\ Goto(t, "push")
           ELSE Return(t) /\ UNCHANGED next
    /\ UNCHANGED <<object, dirty_list_head, viewVars, historyVars, vk_sets_mutex, vk_set>>

\* Mutant: 'next' still has the head that was read first.
PushDescStale(t) ==
    /\ At(t, "push")
    /\ IF dirty_list_head = thread[t].head
       THEN dirty_list_head' = thread[t].dst /\ Return(t)
       ELSE /\ Go(t, [thread[t] EXCEPT !.head = dirty_list_head])
            /\ UNCHANGED dirty_list_head
    /\ UNCHANGED <<object, next, viewVars, historyVars, vk_sets_mutex, vk_set>>

PushDesc(t) ==
    /\ At(t, "push")
    /\ IF dirty_list_head = thread[t].head
       THEN dirty_list_head' = thread[t].dst /\ Return(t)
       ELSE /\ Go(t, [thread[t] EXCEPT !.pc = "relink", !.head = dirty_list_head])
            /\ UNCHANGED dirty_list_head
    /\ UNCHANGED <<object, next, viewVars, historyVars, vk_sets_mutex, vk_set>>

RelinkDesc(t) ==
    /\ At(t, "relink")
    /\ next' = [next EXCEPT ![thread[t].dst] = Encode(thread[t].head)]
    /\ Goto(t, "push")
    /\ UNCHANGED <<object, dirty_list_head, viewVars, historyVars, vk_sets_mutex, vk_set>>

-----------------------------------------------------------------------------
(* d3d12_desc_flush_vk_heap_updates_locked().                               *)

\* Mutant: a queue does not wait for the mutex when the list is empty.
FlushHeapIfDirty(t) ==
    /\ At(t, "idle")
    /\ t = DeviceWorker => dirty_list_head # UINT_MAX
    /\ Goto(t, IF dirty_list_head = UINT_MAX THEN "unlock" ELSE "lock")
    /\ UNCHANGED <<heapVars, viewVars, historyVars, vk_sets_mutex, vk_set>>

\* The device worker looks at the list first; a queue always flushes.
FlushHeap(t) ==
    /\ At(t, "idle")
    /\ t = DeviceWorker => dirty_list_head # UINT_MAX
    /\ Goto(t, "lock")
    /\ UNCHANGED <<heapVars, viewVars, historyVars, vk_sets_mutex, vk_set>>

LockSets(t) ==
    /\ At(t, "lock")
    /\ vk_sets_mutex = NULL
    /\ vk_sets_mutex' = t
    /\ Goto(t, "take")
    /\ UNCHANGED <<heapVars, viewVars, historyVars, vk_set>>

TakeList(t) ==
    /\ At(t, "take")
    /\ dirty_list_head' = UINT_MAX
    /\ Go(t, [thread[t] EXCEPT !.pc = "walk", !.i = dirty_list_head])
    /\ UNCHANGED <<object, next, viewVars, historyVars, vk_sets_mutex, vk_set>>

\* The descriptor is clean before its view is read.
WalkList(t) ==
    /\ At(t, "walk") /\ thread[t].i # UINT_MAX
    /\ LET d == thread[t].i
       IN  /\ next' = [next EXCEPT ![d] = 0]
           /\ Go(t, [thread[t] EXCEPT !.pc = "read", !.src = d, !.i = Decode(next[d])])
    /\ UNCHANGED <<object, dirty_list_head, viewVars, historyVars, vk_sets_mutex, vk_set>>

\* Mutant: the views that did not fill the buffer are not written.
EndOfListUnwritten(t) ==
    /\ At(t, "walk") /\ thread[t].i = UINT_MAX
    /\ Goto(t, IF thread[t].held = <<>> THEN "unlock" ELSE "free")
    /\ UNCHANGED <<heapVars, viewVars, historyVars, vk_sets_mutex, vk_set>>

EndOfList(t) ==
    /\ At(t, "walk") /\ thread[t].i = UINT_MAX
    /\ Goto(t, IF thread[t].held = <<>> THEN "unlock" ELSE "update")
    /\ UNCHANGED <<heapVars, viewVars, historyVars, vk_sets_mutex, vk_set>>

\* vkUpdateDescriptorSets() with the views as they are now.
UpdateSets(t) ==
    /\ At(t, "update")
    /\ LET held == thread[t].held
       IN  vk_set' = [d \in Descs |->
               IF \E w \in ToSet(held) : w.desc = d
               THEN version[held[Max({n \in DOMAIN held : held[n].desc = d})].view]
               ELSE vk_set[d]]
    /\ Goto(t, "free")
    /\ UNCHANGED <<heapVars, viewVars, historyVars, vk_sets_mutex>>

\* descriptor_writes_free_object_refs().
FreeRef(t) ==
    /\ At(t, "free")
    /\ DecRef(Head(thread[t].held).view)
    /\ LET left == Tail(thread[t].held)
       IN  Go(t, [thread[t] EXCEPT !.pc = IF left = <<>> THEN "walk" ELSE "free",
                                   !.held = left])
    /\ UNCHANGED <<heapVars, version, historyVars, vk_sets_mutex, vk_set>>

UnlockSets(t) ==
    /\ At(t, "unlock")
    /\ vk_sets_mutex' = NULL
    /\ Return(t)
    /\ UNCHANGED <<heapVars, viewVars, historyVars, vk_set>>

Call(t) == \/ \E d \in Descs : CreateView(t, d) \/ \E s \in Descs : CopyDescriptor(t, d, s)
           \/ FlushHeap(t)

Step(t) ==
    \/ ReadObject(t) \/ IncRef(t) \/ CheckObject(t) \/ UndoRef(t)
    \/ ReplaceObject(t) \/ DecRefOld(t) \/ TestNext(t)
    \/ ReadHead(t) \/ MarkDesc(t) \/ PushDesc(t) \/ RelinkDesc(t)
    \/ LockSets(t) \/ TakeList(t) \/ WalkList(t) \/ EndOfList(t)
    \/ UpdateSets(t) \/ FreeRef(t) \/ UnlockSets(t)

Next == \E t \in Threads : Call(t) \/ Step(t)

Spec == Init /\ [][Next]_vars

-----------------------------------------------------------------------------
(* Properties.                                                              *)

\* The descriptors from i to the end of the list.
ListFrom(i) ==
    LET nth[n \in 0 .. NumDescs] ==
            IF n = 0 THEN i
            ELSE IF nth[n - 1] = UINT_MAX THEN UINT_MAX ELSE Decode(next[nth[n - 1]])
    IN  {nth[n] : n \in 0 .. NumDescs}

\* Every variable has the type of its declaration.
TypeOK ==
    /\ object \in [Descs -> Objects \cup {NULL}]
    /\ next \in [Descs -> 0 .. UINT_MAX]
    /\ dirty_list_head \in Index
    /\ refcount \in [Objects -> Nat] /\ view_desc_cache \subseteq Objects
    /\ vk_sets_mutex \in Threads \cup {NULL}
    /\ thread \in [Threads -> Local]
    /\ version \in [Objects -> 0 .. MaxWrites]
    /\ vk_set \in [Descs -> 0 .. MaxWrites]
    /\ writes \in 0 .. MaxWrites
    /\ had \in [Descs -> SUBSET (0 .. MaxWrites)]
    /\ writers \in [Descs -> SUBSET Threads]

\* The reference count of a view is the number of descriptors that have it, of
\* threads that took it and have not put it down, and of buffered writes: no
\* view is freed, and recycled, under a thread or a descriptor.
RefcountsExact ==
    \A o \in Objects :
        /\ o \in view_desc_cache <=> refcount[o] = 0
        /\ refcount[o] = Cardinality({d \in Descs : object[d] = o})
                    + Cardinality({t \in Threads :
                          /\ thread[t].view = o
                          /\ thread[t].pc \in {"check", "undo", "replace"}})
                    + Cardinality({t \in Threads : At(t, "decref") /\ thread[t].old = o})
                    + Cardinality({x \in Threads \X (1 .. WriteBufferSize) :
                          /\ x[2] \in DOMAIN thread[x[1]].held
                          /\ thread[x[1]].held[x[2]].view = o})

\* d3d12_desc_mark_as_modified() against the flush: the list is never circular,
\* and each descriptor with a nonzero 'next' is in exactly one place: on the
\* list, in the rest of what a flush took, or with the thread that pushes it.
DirtyListSound ==
    /\ UINT_MAX \in ListFrom(dirty_list_head)
    /\ \A t \in Threads : UINT_MAX \in ListFrom(thread[t].i)
    /\ \A d \in Descs :
           LET lists == {x \in {dirty_list_head} : d \in ListFrom(x)}
               taken == {t \in Threads : d \in ListFrom(thread[t].i)}
               pushed == {t \in Threads : thread[t].dst = d /\ thread[t].pc \in {"push", "relink"}}
           IN  Cardinality(lists) + Cardinality(taken) + Cardinality(pushed)
                   = IF next[d] = 0 THEN 0 ELSE 1

\* A descriptor whose view Vulkan does not show is dirty, or a writer has still
\* to mark it, or a flush that made it clean has still to read the view, or to
\* write the view it read.  No interleaving of a write with a flush loses it.
UpdateNotLost ==
    \A d \in Descs :
        object[d] # NULL /\ vk_set[d] # version[object[d]] =>
            \/ next[d] # 0
            \/ \E t \in Threads :
                   LET l == thread[t]
                   IN  \/ l.dst = d /\ l.pc \in {"decref", "test"} /\ l.view = object[d]
                       \/ l.dst = d /\ l.pc \in {"head", "mark"}
                       \/ l.src = d /\ l.pc \in {"read", "incref", "check", "undo"} /\ Flushing(t)
                       \/ l.pc # "free" /\ [desc |-> d, view |-> object[d]] \in ToSet(l.held)

\* Vulkan shows, at a descriptor, only views that were in that descriptor, even
\* if a view was freed and reused elsewhere while a flush was taking it.
WrittenWasThere == \A d \in Descs : vk_set[d] \in had[d]

\* When a queue has flushed a heap, before it executes a command list, Vulkan
\* shows what that thread wrote earlier, at the descriptors nobody else wrote.
FlushShowsOwnWrites ==
    \A t \in Threads : At(t, "unlock") =>
        \A d \in Descs :
            writers[d] = {t} /\ object[d] # NULL => vk_set[d] = version[object[d]]
=============================================================================
