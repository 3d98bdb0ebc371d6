-------------------------- MODULE DescObjectCache --------------------------
(***************************************************************************)
(* vkd3d_desc_object_cache (libs/vkd3d/resource.c): where the memory of    *)
(* views and constant buffer descriptors is kept for reuse.  It is a ring  *)
(* of singly linked lists, each under a spinlock, and an atomic count of   *)
(* the free objects that decides when a search gives up.  The count is     *)
(* lowered before an object is unlinked, and raised after one is linked.   *)
(*                                                                         *)
(* An action is one atomic access; what a thread does under a spinlock is  *)
(* seen by the others when it unlocks.                                     *)
(***************************************************************************)
EXTENDS Integers, FiniteSets

CONSTANTS
    CacheThreads,
    HeadCount,      \* ARRAY_SIZE(cache->heads): 16
    CountRange,     \* 2^32: free_count is unsigned
    MaxHeld,        \* bound: the objects that a thread uses at a time
    MemoryLimit,    \* bound: the objects that malloc() provides
    NoObject        \* NULL

Heads == 0 .. HeadCount - 1
CacheObjects == 1 .. MemoryLimit

\* HeadCount divides the range of next_index: it is a power of two.
ASSUME CacheAssumption ==
    /\ HeadCount \in Nat \ {0} /\ MaxHeld \in Nat /\ MemoryLimit \in Nat
    /\ CountRange \in Nat /\ CountRange % HeadCount = 0
    /\ IsFiniteSet(CacheThreads) /\ CacheThreads \cap Heads = {}
    /\ CountRange > MemoryLimit + HeadCount + Cardinality(CacheThreads)
    /\ NoObject \notin CacheObjects

VARIABLES
    cache_head,     \* heads[i].head
    spinlock,       \* heads[i].spinlock
    header_next,    \* of each object: the next one in its list
    next_index,     \* modulo HeadCount
    free_count,
    cache_step,     \* where each thread is: [at, i, object]
    in_use,         \* the objects that each thread uses
    allocated       \* how many objects malloc() has provided

cacheVars == <<cache_head, spinlock, header_next, next_index, free_count,
               cache_step, in_use, allocated>>

OutsideCache == [at |-> "outside", i |-> 0, object |-> NoObject]

CacheInit ==
    /\ cache_head = [i \in Heads |-> NoObject] /\ spinlock = [i \in Heads |-> 0]
    /\ header_next = [o \in CacheObjects |-> NoObject]
    /\ next_index = 0 /\ free_count = 0
    /\ cache_step = [t \in CacheThreads |-> OutsideCache]
    /\ in_use = [t \in CacheThreads |-> {}]
    /\ allocated = 0

StepOf(t, at) == cache_step' = [cache_step EXCEPT ![t].at = at]

\* vkd3d_atomic_increment_u32() returns the new value.
TakeIndex(t, at, o) ==
    /\ next_index' = (next_index + 1) % HeadCount
    /\ cache_step' = [cache_step EXCEPT ![t] = [at |-> at, i |-> next_index', object |-> o]]

GetStart(t) ==
    /\ cache_step[t].at = "outside" /\ Cardinality(in_use[t]) < MaxHeld
    /\ TakeIndex(t, "get", NoObject)
    /\ UNCHANGED <<cache_head, spinlock, header_next, free_count, in_use, allocated>>

\* Mutant: the spinlock is not looked at.
GetUnlocked(t) ==
    LET s == cache_step[t] IN
    /\ s.at = "get" /\ cache_head[s.i] # NoObject
    /\ spinlock' = [spinlock EXCEPT ![s.i] = 1]
    /\ cache_step' = [cache_step EXCEPT ![t].at = "count", ![t].object = cache_head[s.i]]
    /\ UNCHANGED <<cache_head, header_next, next_index, free_count, in_use, allocated>>

\* The spinlock is free, and the list is not empty.
GetLock(t) ==
    LET s == cache_step[t] IN
    /\ s.at = "get" /\ spinlock[s.i] = 0 /\ cache_head[s.i] # NoObject
    /\ spinlock' = [spinlock EXCEPT ![s.i] = 1]
    /\ cache_step' = [cache_step EXCEPT ![t].at = "count", ![t].object = cache_head[s.i]]
    /\ UNCHANGED <<cache_head, header_next, next_index, free_count, in_use, allocated>>

GetCount(t) ==
    /\ cache_step[t].at = "count" /\ StepOf(t, "unlink")
    /\ free_count' = (free_count - 1) % CountRange
    /\ UNCHANGED <<cache_head, spinlock, header_next, next_index, in_use, allocated>>

\* What the link of an object in use holds is not looked at before it is set
\* again: the model forgets it.
GetUnlink(t) ==
    LET s == cache_step[t] IN
    /\ s.at = "unlink"
    /\ cache_head' = [cache_head EXCEPT ![s.i] = header_next[s.object]]
    /\ header_next' = [header_next EXCEPT ![s.object] = NoObject]
    /\ spinlock' = [spinlock EXCEPT ![s.i] = 0]
    /\ in_use' = [in_use EXCEPT ![t] = @ \cup {s.object}]
    /\ cache_step' = [cache_step EXCEPT ![t] = OutsideCache]
    /\ UNCHANGED <<next_index, free_count, allocated>>

\* The spinlock is taken, or the list is empty: then it is locked for a moment.
GetMiss(t) ==
    LET s == cache_step[t] IN
    /\ s.at = "get" /\ (spinlock[s.i] = 0 => cache_head[s.i] = NoObject)
    /\ spinlock' = IF spinlock[s.i] = 0 THEN [spinlock EXCEPT ![s.i] = 1] ELSE spinlock
    /\ StepOf(t, IF spinlock[s.i] = 0 THEN "empty" ELSE "check")
    /\ UNCHANGED <<cache_head, header_next, next_index, free_count, in_use, allocated>>

GetUnlock(t) ==
    LET s == cache_step[t] IN
    /\ s.at = "empty" /\ StepOf(t, "check")
    /\ spinlock' = [spinlock EXCEPT ![s.i] = 0]
    /\ UNCHANGED <<cache_head, header_next, next_index, free_count, in_use, allocated>>

GetCheck(t) ==
    /\ cache_step[t].at = "check"
    /\ IF free_count < HeadCount
       THEN StepOf(t, "malloc")
       ELSE cache_step' = [cache_step EXCEPT ![t].at = "get", ![t].i = (@ + 1) % HeadCount]
    /\ UNCHANGED <<cache_head, spinlock, header_next, next_index, free_count, in_use, allocated>>

GetMalloc(t) ==
    /\ cache_step[t].at = "malloc" /\ allocated < MemoryLimit
    /\ allocated' = allocated + 1
    /\ in_use' = [in_use EXCEPT ![t] = @ \cup {allocated'}]
    /\ cache_step' = [cache_step EXCEPT ![t] = OutsideCache]
    /\ UNCHANGED <<cache_head, spinlock, header_next, next_index, free_count>>

PushStart(t) ==
    \E o \in in_use[t] :
    /\ cache_step[t].at = "outside"
    /\ TakeIndex(t, "push", o)
    /\ in_use' = [in_use EXCEPT ![t] = @ \ {o}]
    /\ UNCHANGED <<cache_head, spinlock, header_next, free_count, allocated>>

PushSpin(t) ==
    /\ cache_step[t].at = "push" /\ spinlock[cache_step[t].i] = 1
    /\ cache_step' = [cache_step EXCEPT ![t].i = (@ + 1) % HeadCount]
    /\ UNCHANGED <<cache_head, spinlock, header_next, next_index, free_count, in_use, allocated>>

PushLock(t) ==
    LET s == cache_step[t] IN
    /\ s.at = "push" /\ spinlock[s.i] = 0 /\ StepOf(t, "link")
    /\ spinlock' = [spinlock EXCEPT ![s.i] = 1]
    /\ UNCHANGED <<cache_head, header_next, next_index, free_count, in_use, allocated>>

PushLink(t) ==
    LET s == cache_step[t] IN
    /\ s.at = "link" /\ StepOf(t, "linked")
    /\ header_next' = [header_next EXCEPT ![s.object] = cache_head[s.i]]
    /\ cache_head' = [cache_head EXCEPT ![s.i] = s.object]
    /\ spinlock' = [spinlock EXCEPT ![s.i] = 0]
    /\ UNCHANGED <<next_index, free_count, in_use, allocated>>

PushCount(t) ==
    /\ cache_step[t].at = "linked"
    /\ free_count' = (free_count + 1) % CountRange
    /\ cache_step' = [cache_step EXCEPT ![t] = OutsideCache]
    /\ UNCHANGED <<cache_head, spinlock, header_next, next_index, in_use, allocated>>

CacheNext ==
    \E t \in CacheThreads :
        \/ GetStart(t) \/ GetLock(t) \/ GetCount(t) \/ GetUnlink(t) \/ GetMiss(t)
        \/ GetUnlock(t) \/ GetCheck(t) \/ GetMalloc(t)
        \/ PushStart(t) \/ PushSpin(t) \/ PushLock(t) \/ PushLink(t) \/ PushCount(t)

CacheSpec == CacheInit /\ [][CacheNext]_cacheVars

----------------------------------------------------------------------------
ThreadsAt(steps) == {t \in CacheThreads : cache_step[t].at \in steps}

\* The n-th object of a list; NoObject after its end.
NthOf(i) ==
    LET nth[n \in 0 .. MemoryLimit] ==
            IF n = 0 THEN cache_head[i]
            ELSE IF nth[n - 1] = NoObject THEN NoObject ELSE header_next[nth[n - 1]]
    IN  nth

Listed(i) == {NthOf(i)[n] : n \in 0 .. MemoryLimit} \ {NoObject}

\* The objects that a thread alone may touch.
Owned(t) == in_use[t] \cup {cache_step[u].object : u \in {t} \cap ThreadsAt({"push", "link"})}

\* The lists end, and each object is in one list or with one thread: none
\* is lost, and none is handed out twice.
EachObjectOnce ==
    LET places == [p \in Heads \cup CacheThreads |->
                      IF p \in CacheThreads THEN Owned(p) ELSE Listed(p)] IN
    /\ \A i \in Heads : NthOf(i)[MemoryLimit] = NoObject
    /\ \A o \in CacheObjects :
           Cardinality({p \in DOMAIN places : o \in places[p]}) = IF o <= allocated THEN 1 ELSE 0

\* free_count is off by what is between its two steps.
FreeCountOff ==
    free_count = (Cardinality(UNION {Listed(i) : i \in Heads})
                  - Cardinality(ThreadsAt({"linked"})) - Cardinality(ThreadsAt({"unlink"}))) % CountRange

\* "Keeping a free count avoids [...] excess allocations gradually
\* increasing without limit": what was ever allocated is bounded by what
\* the threads use at a time and one object less than there are lists.
AllocationsBounded ==
    allocated + Cardinality(ThreadsAt({"malloc"}))
        <= MaxHeld * Cardinality(CacheThreads) + HeadCount - 1

(***************************************************************************)
(* However vkd3d_desc_object_cache_get() and _push() of several threads    *)
(* interleave, also while free_count has wrapped below zero: no object is  *)
(* lost or handed out twice, and the memory does not grow without limit.   *)
(***************************************************************************)
DescObjectCacheSound == EachObjectOnce /\ FreeCountOff /\ AllocationsBounded
=============================================================================
