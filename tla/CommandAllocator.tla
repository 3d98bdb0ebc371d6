-------------------------- MODULE CommandAllocator --------------------------
(***************************************************************************)
(* Command allocators and command lists (libs/vkd3d/command.c): which list *)
(* records into which allocator, the Vulkan command buffers of an          *)
(* allocator, and its descriptor pools.  An application uses an allocator  *)
(* and its list from one thread at a time: an action is a whole call.      *)
(* The memory of a freed object may be that of the next one, so the names  *)
(* of allocators and lists are used again.  vkd3d's own allocations        *)
(* succeed; those of Vulkan may fail.  One type of descriptors is shown:   *)
(* the others have arrays of their own.                                    *)
(***************************************************************************)
EXTENDS Integers, Sequences, FiniteSets, SequencesExt

CONSTANTS
    Allocators, Lists,
    CommandBuffers, DescriptorPools, \* Vulkan handles; bound: how many there are
    PoolLimit,      \* device->vk_pool_limits[type]
    InitialPoolSize,\* VKD3D_INITIAL_DESCRIPTORS_POOL_SIZE: 1024
    Requests,       \* the descriptors that a draw may need
    NoneSuch        \* NULL, VK_NULL_HANDLE

\* A pool in an array of an allocator.  asked is history: what was asked of it.
PoolEntries == [descriptor_count : Nat, vk_pool : DescriptorPools, asked : Nat]

AllocatorStates ==
    [current_command_list : Lists \cup {NoneSuch}, command_buffers : SUBSET CommandBuffers,
     vk_descriptor_pool : DescriptorPools \cup {NoneSuch},
     descriptor_pools : Seq(PoolEntries), free_descriptor_pools : Seq(PoolEntries),
     vk_pool_size : Nat]

ListStates == [allocator : Allocators \cup {NoneSuch}, is_recording : BOOLEAN,
               vk_command_buffer : CommandBuffers \cup {NoneSuch}]

ASSUME CommandAllocatorAssumption ==
    /\ PoolLimit \in Nat \ {0} /\ InitialPoolSize \in Nat \ {0} /\ Requests \subseteq Nat \ {0}
    /\ NoneSuch \notin Allocators \cup Lists \cup CommandBuffers \cup DescriptorPools
    /\ NoneSuch \notin AllocatorStates \cup ListStates

VARIABLES
    allocator,  \* of each allocator, NoneSuch where there is none
    list,       \* of each list, NoneSuch where there is none
    vk_buffers, \* the command buffers that exist in the driver
    vk_pools    \* the descriptor pools that exist in the driver

allocatorVars == <<allocator, list, vk_buffers, vk_pools>>

CommandAllocatorInit ==
    /\ allocator = [a \in Allocators |-> NoneSuch]
    /\ list = [l \in Lists |-> NoneSuch]
    /\ vk_buffers = {} /\ vk_pools = {}

AliveAllocators == {a \in Allocators : allocator[a] # NoneSuch}
AliveLists == {l \in Lists : list[l] # NoneSuch}
Least(m, n) == IF m < n THEN m ELSE n
PoolsOf(seq) == {seq[i].vk_pool : i \in DOMAIN seq}

CreateAllocator(a) ==
    /\ a \notin AliveAllocators
    /\ allocator' = [allocator EXCEPT ![a] =
           [current_command_list |-> NoneSuch, command_buffers |-> {},
            vk_descriptor_pool |-> NoneSuch, descriptor_pools |-> <<>>,
            free_descriptor_pools |-> <<>>, vk_pool_size |-> Least(InitialPoolSize, PoolLimit)]]
    /\ UNCHANGED <<list, vk_buffers, vk_pools>>

\* The pools of this size, in their order.
PoolsOfSize(seq, size) ==
    LET kept[i \in 0 .. Len(seq)] ==
            IF i = 0 THEN <<>>
            ELSE IF seq[i].descriptor_count >= size THEN Append(kept[i - 1], seq[i]) ELSE kept[i - 1]
    IN kept[Len(seq)]

\* Mutant: vk_descriptor_pools is not cleared.
KeepPoolPointer(A) ==
    [A EXCEPT !.descriptor_pools = <<>>,
              !.free_descriptor_pools = @ \o PoolsOfSize(A.descriptor_pools, A.vk_pool_size)]

\* d3d12_command_allocator_free_resources(), keeping the pools that are large enough.
ReusableOnly(A) ==
    [A EXCEPT !.vk_descriptor_pool = NoneSuch,
              !.descriptor_pools = <<>>,
              !.free_descriptor_pools = @ \o PoolsOfSize(A.descriptor_pools, A.vk_pool_size)]

\* A list that still records into it has no allocator and no buffer from now on.
ReleaseAllocator(a) ==
    LET A == allocator[a] IN
    /\ a \in AliveAllocators
    /\ list' = IF A.current_command_list = NoneSuch THEN list
               ELSE [list EXCEPT ![A.current_command_list].allocator = NoneSuch,
                                 ![A.current_command_list].vk_command_buffer = NoneSuch]
    /\ vk_buffers' = vk_buffers \ A.command_buffers
    /\ vk_pools' = vk_pools \ (PoolsOf(A.descriptor_pools) \cup PoolsOf(A.free_descriptor_pools))
    /\ allocator' = [allocator EXCEPT ![a] = NoneSuch]

\* Refused while a list records.
ResetAllocator(a) ==
    LET A == allocator[a] IN
    /\ a \in AliveAllocators
    /\ A.current_command_list # NoneSuch => ~list[A.current_command_list].is_recording
    /\ allocator' = [allocator EXCEPT ![a] = [ReusableOnly(A) EXCEPT !.command_buffers = {}]]
    /\ vk_buffers' = vk_buffers \ A.command_buffers
    /\ vk_pools' = vk_pools \ (PoolsOf(A.descriptor_pools) \ PoolsOf(ReusableOnly(A).free_descriptor_pools))
    /\ UNCHANGED list

\* d3d12_command_allocator_allocate_command_buffer() where it succeeds.
Recording(a, l, b) ==
    /\ a \in AliveAllocators /\ allocator[a].current_command_list = NoneSuch
    /\ b \in CommandBuffers \ vk_buffers
    /\ vk_buffers' = vk_buffers \cup {b}
    /\ allocator' = [allocator EXCEPT ![a].command_buffers = @ \cup {b},
                                      ![a].current_command_list = l]
    /\ list' = [list EXCEPT ![l] = [allocator |-> a, is_recording |-> TRUE, vk_command_buffer |-> b]]
    /\ UNCHANGED vk_pools

CreateList(a, l, b) == l \notin AliveLists /\ Recording(a, l, b)

Resettable(a, l) == l \in AliveLists /\ ~list[l].is_recording /\ a \in AliveAllocators

ResetList(a, l, b) == Resettable(a, l) /\ Recording(a, l, b)

\* The buffer cannot be allocated, or it cannot be begun and is freed: its
\* handle stays behind in the list.
ResetListFails(a, l, b) ==
    /\ Resettable(a, l) /\ allocator[a].current_command_list = NoneSuch
    /\ b \in {NoneSuch} \cup (CommandBuffers \ vk_buffers)
    /\ list' = [list EXCEPT ![l].vk_command_buffer = b]
    /\ UNCHANGED <<allocator, vk_buffers, vk_pools>>

\* d3d12_command_allocator_remove_command_list()
Removed(l) ==
    LET a == list[l].allocator IN
    IF a # NoneSuch /\ allocator[a].current_command_list = l
    THEN [allocator EXCEPT ![a].current_command_list = NoneSuch] ELSE allocator

\* vkEndCommandBuffer() may fail, and then nothing changes.
CloseList(l) ==
    /\ l \in AliveLists /\ list[l].is_recording
    /\ list[l].vk_command_buffer # NoneSuch
    /\ allocator' = Removed(l)
    /\ list' = [list EXCEPT ![l].allocator = NoneSuch, ![l].is_recording = FALSE]
    /\ UNCHANGED <<vk_buffers, vk_pools>>

ReleaseList(l) ==
    /\ l \in AliveLists
    /\ allocator' = Removed(l)
    /\ list' = [list EXCEPT ![l] = NoneSuch]
    /\ UNCHANGED <<vk_buffers, vk_pools>>

----------------------------------------------------------------------------
\* The descriptor pools of an allocator.  An outcome is what the allocator
\* and the driver's set of pools become; no pool is a failure.
Outcome(A, pools) == [A |-> A, pools |-> pools]

\* The pool goes to the used ones.
Use(A, p, n) ==
    [A EXCEPT !.vk_descriptor_pool = p.vk_pool,
              !.descriptor_pools = Append(@, [descriptor_count |-> p.descriptor_count,
                                              vk_pool |-> p.vk_pool, asked |-> n])]

\* The last element takes the place of the one that is removed.
RemoveBySwap(seq, i) == SubSeq([seq EXCEPT ![i] = Last(seq)], 1, Len(seq) - 1)

\* 1u << (vkd3d_log2i(n - 1) + 1)
PowerOfTwo(n) ==
    LET power[k \in 0 .. n] == IF k = 0 THEN 1 ELSE 2 * power[k - 1]
    IN CHOOSE p \in {power[k] : k \in 0 .. n} : p >= n /\ p < 2 * n

\* The size of a new pool for n descriptors.
NewPoolSize(A, n) == IF n > A.vk_pool_size THEN Least(PoolLimit, PowerOfTwo(n)) ELSE A.vk_pool_size

\* d3d12_command_allocator_allocate_descriptor_pool()
AllocatePool(A, pools, n, unbounded) ==
    LET free == A.free_descriptor_pools
        i == SelectInSeq(free, LAMBDA p : p.descriptor_count >= n)
        count == NewPoolSize(A, Least(n, PoolLimit)) IN
    IF i # 0
    THEN {Outcome(Use([A EXCEPT !.free_descriptor_pools = RemoveBySwap(free, i)], free[i], n), pools)}
    ELSE {Outcome([A EXCEPT !.vk_descriptor_pool = NoneSuch], pools)}
         \cup {Outcome(Use([A EXCEPT !.vk_pool_size = IF ~unbounded \/ count < PoolLimit
                                                      THEN Least(PoolLimit, count * 2) ELSE @],
                           [descriptor_count |-> count, vk_pool |-> p], Least(n, PoolLimit)),
                       pools \cup {p})
                : p \in IF n > PoolLimit /\ ~unbounded THEN {} ELSE DescriptorPools \ pools}

\* d3d12_command_allocator_allocate_descriptor_set(): another pool is tried
\* when the driver finds the current one full or fragmented; the pointer is
\* cleared when the driver fails otherwise.
AllocateSet(l, n, unbounded) ==
    LET a == list[l].allocator
        A == allocator[a]
        first == IF A.vk_descriptor_pool # NoneSuch THEN {Outcome(A, vk_pools)}
                 ELSE AllocatePool(A, vk_pools, n, unbounded)
        outcomes == UNION {IF f.A.vk_descriptor_pool = NoneSuch THEN {f}
                           ELSE {f, Outcome([f.A EXCEPT !.vk_descriptor_pool = NoneSuch], f.pools)}
                                \cup AllocatePool(f.A, f.pools, n, unbounded) : f \in first} IN
    \E o \in outcomes :
        allocator' = [allocator EXCEPT ![a] = o.A] /\ vk_pools' = o.pools

Draw(l) ==
    /\ l \in AliveLists /\ list[l].allocator # NoneSuch
    /\ \E n \in Requests, unbounded \in BOOLEAN : AllocateSet(l, n, unbounded)
    /\ UNCHANGED <<list, vk_buffers>>

CommandAllocatorNext ==
    \/ \E a \in Allocators :
           \/ CreateAllocator(a) \/ ReleaseAllocator(a) \/ ResetAllocator(a)
           \/ \E l \in Lists :
                  \/ \E b \in CommandBuffers : CreateList(a, l, b) \/ ResetList(a, l, b)
                  \/ \E b \in CommandBuffers \cup {NoneSuch} : ResetListFails(a, l, b)
    \/ \E l \in Lists : CloseList(l) \/ ReleaseList(l) \/ Draw(l)

CommandAllocatorSpec == CommandAllocatorInit /\ [][CommandAllocatorNext]_allocatorVars

----------------------------------------------------------------------------
\* The list that an allocator names and the allocator that a list names are
\* each other's, and they exist; only a list that records has an allocator.
CurrentAgrees ==
    /\ \A a \in AliveAllocators : allocator[a].current_command_list # NoneSuch =>
           /\ allocator[a].current_command_list \in AliveLists
           /\ list[allocator[a].current_command_list].allocator = a
    /\ \A l \in AliveLists : list[l].allocator # NoneSuch =>
           /\ list[l].is_recording /\ list[l].allocator \in AliveAllocators
           /\ allocator[list[l].allocator].current_command_list = l

\* A list records into a buffer of its allocator that exists, or into none.
RecordsIntoOwnBuffer ==
    \A l \in AliveLists : list[l].is_recording =>
        IF list[l].allocator = NoneSuch THEN list[l].vk_command_buffer = NoneSuch
        ELSE list[l].vk_command_buffer \in vk_buffers \cap allocator[list[l].allocator].command_buffers

\* Each pool of the driver is in one place of one array of one allocator, and
\* the current pool of an allocator is one that it uses, not one that it has
\* put back.
PoolArray(a, used) == IF used THEN allocator[a].descriptor_pools
                      ELSE allocator[a].free_descriptor_pools

PoolsInOnePlace ==
    /\ vk_pools = UNION {PoolsOf(PoolArray(a, used)) : a \in AliveAllocators, used \in BOOLEAN}
    /\ \A a, b \in AliveAllocators, u, v \in BOOLEAN :
           \A i \in DOMAIN PoolArray(a, u), j \in DOMAIN PoolArray(b, v) :
               PoolArray(a, u)[i].vk_pool = PoolArray(b, v)[j].vk_pool => a = b /\ u = v /\ i = j
    /\ \A a \in AliveAllocators :
           allocator[a].vk_descriptor_pool
               \in {NoneSuch} \cup PoolsOf(allocator[a].descriptor_pools)

\* No pool exceeds the limit of the device, and a pool that was handed out
\* for n descriptors holds them.
PoolsLargeEnough ==
    \A a \in AliveAllocators :
        /\ allocator[a].vk_pool_size \in 1 .. PoolLimit
        /\ \A p \in ToSet(allocator[a].descriptor_pools) :
               p.descriptor_count \in p.asked .. PoolLimit
        /\ \A p \in ToSet(allocator[a].free_descriptor_pools) : p.descriptor_count <= PoolLimit

(***************************************************************************)
(* After any sequence of Create, Reset, Close and Release of allocators    *)
(* and lists, and of draws that need descriptors, with failures of Vulkan  *)
(* in between: no pointer to a freed list or allocator is kept, nothing is *)
(* recorded into a freed buffer, a descriptor pool is neither lost nor     *)
(* used while it waits to be reused, and it is as large as was asked.      *)
(***************************************************************************)
CommandAllocatorSound ==
    CurrentAgrees /\ RecordsIntoOwnBuffer /\ PoolsInOnePlace /\ PoolsLargeEnough
=============================================================================
