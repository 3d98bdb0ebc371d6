---------------------------- MODULE BinaryFence ----------------------------
(***************************************************************************)
(* A fence on a device without timeline semaphores (libs/vkd3d/command.c): *)
(* each signal that was submitted has an entry, with a binary Vulkan       *)
(* semaphore, in the fence's array.  A queue that waits acquires an entry  *)
(* under the fence's lock, submits the wait without that lock, and takes   *)
(* the entry out again under the lock; in between it holds a pointer into  *)
(* the array.  The array has room for all entries here, so its memory      *)
(* stays where it is.                                                      *)
(***************************************************************************)
EXTENDS Naturals, FiniteSets

CONSTANTS
    Waiters,        \* the command queues that wait for the fence
    FenceValues,
    Capacity,       \* bound: of the array; 4 is the first one of vkd3d_array_reserve()
    MaxSyncObjects, \* VKD3D_MAX_VK_SYNC_OBJECTS
    VkFences, VkSemaphores, \* bound: how many handles there are
    NULL

VARIABLES
    value, max_pending_value,
    semaphores,     \* the memory of the array; the entries are the first ones
    semaphore_count,
    submitted,      \* signals that were submitted and are not in the array yet
    pending,        \* signals in the array that the GPU has still to report: [value, vk_fence]
    wait,           \* where each waiter is: [at, value, i], i is its pointer
    waited          \* the semaphores that waits were submitted for

vars == <<value, max_pending_value, semaphores, semaphore_count, submitted, pending, wait, waited>>

Entries == 0 .. semaphore_count - 1
NotWaiting == [at |-> "outside", value |-> 0, i |-> 0]
Empty == [value |-> 0, vk_semaphore |-> NULL, vk_fence |-> NULL, is_acquired |-> FALSE]

Init == /\ value = 0 /\ max_pending_value = 0
        /\ semaphores = [i \in 0 .. Capacity - 1 |-> Empty] /\ semaphore_count = 0
        /\ submitted = {} /\ pending = {} /\ waited = {}
        /\ wait = [w \in Waiters |-> NotWaiting]

Greatest(S) == CHOOSE m \in S : \A n \in S : n <= m

\* d3d12_fence_update_pending_value_locked()
UpdatePendingValue ==
    max_pending_value' =
        Greatest({value'} \cup {semaphores'[i].value : i \in 0 .. semaphore_count' - 1})

FencesInUse == {s.vk_fence : s \in submitted \cup pending}
SemaphoresInUse == {s.vk_semaphore : s \in submitted} \cup waited
                   \cup {semaphores[i].vk_semaphore : i \in Entries}

\* A queue signals: a Vulkan fence and a semaphore, old or new ones, are submitted.
SubmitSignal(v) ==
    /\ \E f \in VkFences \ FencesInUse, s \in VkSemaphores \ SemaphoresInUse :
           submitted' = submitted \cup {[value |-> v, vk_fence |-> f, vk_semaphore |-> s]}
    /\ UNCHANGED <<value, max_pending_value, semaphores, semaphore_count, pending, wait, waited>>

RECURSIVE Collect(_, _, _)

\* d3d12_fence_garbage_collect_vk_semaphores_locked(), from entry i on: while
\* there are too many, the entries that the GPU has reported and that nobody
\* has acquired go, and the last one takes the place of each.
Collect(memory, count, i) ==
    IF i >= count \/ count < MaxSyncObjects THEN [memory |-> memory, count |-> count]
    ELSE IF memory[i].vk_fence # NULL \/ memory[i].is_acquired THEN Collect(memory, count, i + 1)
    ELSE Collect([memory EXCEPT ![i] = memory[count - 1]], count - 1, i)

\* d3d12_fence_add_vk_semaphore()
AddVkSemaphore(s) ==
    LET collected == Collect(semaphores, semaphore_count, 0) IN
    /\ s \in submitted /\ collected.count < Capacity
    /\ semaphores' = [collected.memory EXCEPT ![collected.count] =
           [value |-> s.value, vk_semaphore |-> s.vk_semaphore, vk_fence |-> s.vk_fence,
            is_acquired |-> FALSE]]
    /\ semaphore_count' = collected.count + 1
    /\ submitted' = submitted \ {s}
    /\ pending' = pending \cup {[value |-> s.value, vk_fence |-> s.vk_fence]}
    /\ UNCHANGED <<value, wait, waited>> /\ UpdatePendingValue

\* d3d12_fence_signal(), by the signalling thread when the GPU is done by
\* then, and by the fence worker when not.
Report(p) ==
    /\ p \in pending /\ pending' = pending \ {p}
    /\ value' = p.value
    /\ semaphores' = [i \in DOMAIN semaphores |->
           IF i \in Entries /\ semaphores[i].vk_fence = p.vk_fence
           THEN [semaphores[i] EXCEPT !.vk_fence = NULL] ELSE semaphores[i]]
    /\ UNCHANGED <<semaphore_count, submitted, wait, waited>> /\ UpdatePendingValue

\* The application signals the fence on the CPU.
SignalOnCpu(v) ==
    /\ value' = v
    /\ UNCHANGED <<semaphores, semaphore_count, submitted, pending, wait, waited>>
    /\ UpdatePendingValue

\* d3d12_fence_acquire_vk_semaphore_locked(): the free entry of the smallest
\* sufficient value, the last one of them unless the value is the one that
\* was asked for.
Free(v) == {i \in Entries : ~semaphores[i].is_acquired /\ semaphores[i].value >= v}
Preferred(v) ==
    CHOOSE i \in Free(v) : \A j \in Free(v) :
        \/ semaphores[i].value < semaphores[j].value
        \/ /\ semaphores[i].value = semaphores[j].value
           /\ IF semaphores[i].value = v THEN i <= j ELSE i >= j

\* A wait for a value that is not pending is not started.  One that finds no
\* entry is over: the value is reached, or another wait has taken the entry.
StartWait(w, v) ==
    /\ wait[w].at = "outside" /\ v <= max_pending_value /\ Free(v) # {}
    /\ semaphores' = [semaphores EXCEPT ![Preferred(v)].is_acquired = TRUE]
    /\ wait' = [wait EXCEPT ![w] = [at |-> "acquired", value |-> v, i |-> Preferred(v)]]
    /\ UNCHANGED <<value, max_pending_value, semaphore_count, submitted, pending, waited>>

\* The semaphore is read through the pointer, without the fence's lock.
SubmitWait(w) ==
    /\ wait[w].at = "acquired"
    /\ \/ /\ wait' = [wait EXCEPT ![w].at = "remove"]
          /\ waited' = waited \cup {semaphores[wait[w].i].vk_semaphore}
       \/ /\ wait' = [wait EXCEPT ![w].at = "release"]
          /\ UNCHANGED waited
    /\ UNCHANGED <<value, max_pending_value, semaphores, semaphore_count, submitted, pending>>

\* d3d12_fence_remove_vk_semaphore()
Remove(w) ==
    /\ wait[w].at = "remove" /\ wait' = [wait EXCEPT ![w] = NotWaiting]
    /\ semaphores' = [semaphores EXCEPT ![wait[w].i] = semaphores[semaphore_count - 1]]
    /\ semaphore_count' = semaphore_count - 1
    /\ UNCHANGED <<value, max_pending_value, submitted, pending, waited>>

\* d3d12_fence_release_vk_semaphore()
ReleaseEntry(w) ==
    /\ wait[w].at = "release" /\ wait' = [wait EXCEPT ![w] = NotWaiting]
    /\ semaphores' = [semaphores EXCEPT ![wait[w].i].is_acquired = FALSE]
    /\ UNCHANGED <<value, max_pending_value, semaphore_count, submitted, pending, waited>>

Next == \/ \E v \in FenceValues : SubmitSignal(v) \/ SignalOnCpu(v)
        \/ \E s \in submitted : AddVkSemaphore(s)
        \/ \E p \in pending : Report(p)
        \/ \E w \in Waiters : \/ \E v \in FenceValues : StartWait(w, v)
                              \/ SubmitWait(w) \/ Remove(w) \/ ReleaseEntry(w)

Spec == Init /\ [][Next]_vars

----------------------------------------------------------------------------
(***************************************************************************)
(* VKD3D_ASSERT(semaphore->u.binary.is_acquired), in                       *)
(* d3d12_fence_remove_vk_semaphore() and d3d12_fence_release_vk_semaphore():*)
(* the entry that a queue has acquired is where its pointer points when it *)
(* comes back for it.                                                      *)
(***************************************************************************)
AcquiredEntryIsThere ==
    \A w \in Waiters : wait[w].at \in {"remove", "release"} => semaphores[wait[w].i].is_acquired
=============================================================================
