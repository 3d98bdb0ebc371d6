# A TLA+ model of vkd3d's Direct3D 12 runtime and shader compiler

vkd3d implements Direct3D 12 on Vulkan, with a compiler of its own for shaders.
This directory holds TLA+ modules that model the synchronisation core and the
shared objects of the runtime, and the passes of vkd3d-shader that rearrange
control flow and data flow; the TLC configurations that check them on small
instances; and TLAPS proofs of what holds for every instance. Line numbers
refer to `src/libs/vkd3d/command.c` unless another file is named.

## 1. Inventory

| Component | State | Operations | Interacts with |
|---|---|---|---|
| `d3d12_fence`, timeline semaphores | virtual value, pending value, queued signals, waiting events, physical timeline values | Signal (CPU), queued signal, report of a worker, SetEventOnCompletion, value for a wait | queues, workers, application threads, all under `fence->mutex` |
| `d3d12_fence`, binary semaphores | array of `VkSemaphore`/`VkFence` pairs, acquired flags, a cache of fences | acquire, remove, release, garbage collection | queues, workers |
| `d3d12_command_queue` | two operation arrays, `is_flushing` | ExecuteCommandLists, Signal, Wait, tile mappings, signal on CPU; flush | fences, blocked list, VkQueue, its worker |
| device's blocked queues | an array of 16 queues | record, take all and flush | fences that gain a pending value call it; it calls queues |
| `vkd3d_queue` | a `VkQueue`, sequence numbers, recycled semaphores | acquire/release, sequence number update | shared by all command queues of a type |
| fence worker | two arrays, a condition, a thread | enqueue, wait for the GPU, report, stop | its queue, fences |
| command allocators and lists | recording state, pools, objects to destroy later, barriers | Reset, Close, Release, every command | allocator <-> list pointers |
| descriptors | lock-free dirty list, object cache, reference counts of views | write, copy, flush to Vulkan sets | any thread, the device worker, queue submission |
| heaps, resources | public and internal reference counts, map counts | AddRef/Release, Map/Unmap | resources hold heaps |
| GPU address allocator | free list of slabs, sorted fallback array | allocate, dereference, free | buffers |
| device | worker thread, multi-fence events, removal, cache sessions | | everything |
| pipelines, root signatures, render passes | lists of compiled variants | find, compile, put | command lists, several threads |
| shader cache | a tree under a lock | put, get | cache sessions |
| private data, utilities | a list under a mutex | set, get | every object |
| vkd3d-common, vkd3d-utils | blobs, UTF-8, events | | |
| vkd3d-shader, control flow (`ir.c`) | a function as blocks, then as nested constructs | switch lowering, dominators, loops, order, intervals, structured program, emission, flattening | sequential; each pass relies on what the one before left |
| vkd3d-shader, HLSL compiler | a tree of blocks of nodes, variables | loops, returns, unrolling, folding, copy propagation, dead code, vectorization, register allocation | sequential; passes are repeated until none makes progress |
| vkd3d-shader, the rest | tokens, declarations, instructions | parsing, lowering of single instructions, emission of SPIR-V, DXBC, MSL, GLSL | sequential |
| programs, demos, tests | | | the tests state intended behaviour |

What is hard in this code is not any one operation but the meeting of threads:
application threads call any object at any time; a queue's operations are run
by whichever thread unblocks them, nested in its own call; one worker thread
per queue reports GPU progress; the GPU runs queues of different command queues
that may share a `VkQueue`; and values are translated back and forth between a
virtual fence that can be rewound and a physical semaphore that cannot.
`PROJECT.json` lists the hazards line by line. In short, correctness is:

* *fence*: the value and the events follow the order in which signals were
  queued, however the workers are scheduled; a pending value is always backed;
* *queue*: operations take effect once and in order; one flusher at a time; a
  queue that can go on does; a wait is never passed early;
* *worker*: everything handed over is reported in order; stopping does not
  hang; no fence is freed while it is held and none is leaked;
* *descriptors*: no update is lost, no freed view is used;
* *lifetimes* of lists, allocators, heaps: no pointer outlives its object;
* *allocators and caches*: live ranges are disjoint, a key has one value;
* *compiler*: whatever the order and number of passes, a program means what its
  source means, and a function is refused exactly when it cannot be structured.

## 2. Plan

1. (done) The core: the fence and its contract; VkQueue and command queues on
   top of it; fence workers and reference counts; descriptor heaps with their
   lock-free dirty list; the proofs about fences.
2. (done) The objects around it, each a module that depends on no other:
   `MultiFenceEvent`, `DescObjectCache`, `HeapLifetime`, `GpuVaAllocator`,
   `CommandAllocator`, `PipelineCache`, `BinaryFence`.
3. (done) The shader compiler, where it is more than instruction by instruction:
   `ControlFlow` and `CfgStructurizer` for functions given as blocks, and the
   chain of HLSL modules from the parser's loops to registers.
4. (done) Proofs: the flush of command queues and its use of fences, the references
   of `FenceWorker`, and the modules of step 2 that give the invariants
   `MultiFenceEventSound`, `GpuVaSound` and `PipelinesShared`.
5. (done) Proofs: the reference counts, the updates and the list of dirty
   descriptors of `DescriptorHeap`.
6. (done) Proofs: what relates the fences of `CommandQueue` to the GPU's
   semaphores (`CompletedValueIsReal` and the action properties).
7. (done) Proofs: that `FenceWorker` implements `ReportQueue`; `DescObjectCache`.
8. (done) Proofs: `HeapLifetime`, `CommandAllocator`.

The abstract specifications are `FenceContract` (what a fence promises), `ReportQueue` (what a worker promises its
queue) and `ControlFlow` (what a function means, whatever the passes make of
it). `CommandQueue` composes `Fence` and `VulkanQueue` by
EXTENDS; it sees a worker as the FIFO that `FenceWorker` is shown to implement.

## 3. Modules

**`Fence`** models `struct d3d12_fence` with a timeline semaphore. Each action is
one critical section of `fence->mutex`. The field names are the source's;
`semaphores` and `events` are sets, since no code depends on the order of the
arrays (the removal by swap with the last entry is thereby a set difference).
`SignalTimelineSemaphore` is the whole catch-up loop (897-935): `Due` are the
entries it meets, `FinalValues` the value it ends with, `SignalExternalEvents`
the events that some value on the way reached. `requested`, `registered` and
`signalled` are history variables. `FenceNext` lets anything happen that the
mutex allows: any signal from any queue, any worker reporting any timeline
value, twice or out of order. An early return that changes nothing (a value
already reached, a registration repeated) is a stutter.

**`FenceContract`** is a fence without a timeline: a value, the GPU signals still
outstanding, the events waiting. Signals complete in the order queued.

**`VulkanQueue`** (external: the driver) gives each `VkQueue` a FIFO of batches, and
each fence a semaphore counter. A signal with a value not above the counter is
against Vulkan's rules; both outcomes are left open.

**`CommandQueue`** models application threads as stacks of frames, because the C
functions nest: `flush_ops` (7515) -> `signal` (6988) -> `flush_blocked_queues`
(742) -> `flush_ops` of another queue. A frame's `pc` marks the places where
no lock is held, so that other threads interleave exactly there:

| frame, pc | code |
|---|---|
| flush_ops, `op` | between two operations of `aux_op_queue` |
| `fixup` | a wait failed, `fence->mutex` released, `op_mutex` not yet taken (7540-7545) |
| `submit_wait` | the timeline value is known, the batch not submitted (7235-7294) |
| `read_value`, `submit_signal`, `update`, `signal_flush`, `enqueue` | the stages of `d3d12_command_queue_signal()` |
| `cpu_flush` | inside `d3d12_fence_Signal()` for a signal-on-CPU operation |
| flush_blocked, `take`, `flush` | `d3d12_device_flush_blocked_queues_once()` and its loop |

`Resume` says what a caller does with the callee's result, the early return of
`d3d12_command_queue_signal()` on failure included. UpdateTileMappings stands
for CopyTileMappings as well; both are dropped in their turn by the flush.
Taking a queue's lock, appending, testing for the first operation and swapping
the arrays is one critical section and one action. `fixup_after_flush_locked()`
calls `record_as_blocked()` with `op_mutex` held; the action `FixupAfterFlush`
is the whole function, whose two mutexes are nested.

**`FenceWorker`** models the worker thread (361-471), its condition variable with
spurious wakeups, the swap of the two arrays, `stop`, and the references to
fences: the application's count, which owns one internal reference, those of
queued operations, and those of the arrays. The caller's side is reduced to the
signals of a queue. **`ReportQueue`** is the FIFO it implements.

**`DescriptorHeap`** models one heap with Vulkan descriptor sets
(`resource.c` 2392-2757, `vkd3d_private.h` 679-717). An action is one atomic
access: `ReplaceObject` is the exchange in `d3d12_desc_replace()`, `TestNext` the
look at `next` after it, `ReadHead`, `MarkDesc`, `PushDesc` and `RelinkDesc` the
accesses of `d3d12_desc_mark_as_modified()`; `ReadObject`, `IncRef`, `CheckObject`
and `UndoRef` those of `d3d12_desc_get_object_ref()`, which both a copy and the
flush run. `TakeList` to `UnlockSets` are the flush under `vk_sets_mutex`, entered by
the device worker when it sees a list and by a queue always. `Encode` and `Decode`
are the arithmetic on `next`, signed shift included, in integers of width
`4 * QuarterRange`. A view is memory (`Objects`) that is freed into
`view_desc_cache` and reused; `version` tells the views made in the same memory
apart. `had` and `writers` are history variables. A write of a NULL view is not
forwarded to Vulkan, as in the code. Accesses are sequentially consistent.

**`MultiFenceEvent`** models SetEventOnMultipleFenceCompletion (`device.c` 4911-5029).
`share[i]` is where fence i's share of the counter is: not registered, waiting
in the fence, on its way through `waiting_event_semaphore_signal_first()` (one
atomic access per action), or spent. `any` is the D3D12 flag, `blocking` the NULL
event on which the call itself waits. That a fence signals a registered event
once is what `Fence` shows; `FenceReaches` relies on it.

**`DescObjectCache`** (`resource.c` 2337-2388) is the ring of spin-locked lists and
the atomic count beside it. `next_index` and `free_count` are 32-bit counters in
the code and have the width `CountRange` here.

**`HeapLifetime`** (`resource.c` 308-2329) gives each
thread the list of atomic steps that its call still has to do (`todo`), so that
two calls interleave at each of them. A private heap is one that a committed
resource made for itself. The references of the device are part of the state.

**`GpuVaAllocator`** (`device.c` 2398-2640): slabs from a stack, the sorted fallback
array with its binary search, and the lookup that runs without a lock.
Addresses wrap at `AddressRange`, sizes reach its end.

**`CommandAllocator`** (1404-1947, lists at 2516-2750) has whole calls as
actions, since an application uses an allocator and its list from one thread.
The names of freed allocators and lists are used again, so a stale pointer would
be seen to point to the wrong object. Descriptor pools have their size, what was
allocated from them, and their three places: in use, used, free.

**`PipelineCache`** (`state.c`): look under the lock, compile outside it, put under
the lock, drop what lost. A list's recording state keeps the pipeline it bound.

**`BinaryFence`** (509-790, 7150-7295) is the array of binary semaphores with its
garbage collection, and queues that keep a pointer into it while they submit.

`MCFences` puts `Fence` and `FenceWorker` side by side and `MCDeviceObjects` the six
modules from `MultiFenceEvent` to `PipelineCache`. The variable `part` says which
of them acts in a behaviour; the others rest in their initial state. That is a
way to check parts that share no state in one run, and claims nothing about how
they meet. In `MCDeviceObjects` the parts are given the same model values for
their threads and objects, so that one small group of permutations covers the
symmetry of all of them.

**`ControlFlow`** is the meaning of a function: which blocks a walk visits, where
each block may leave any value for its terminator. **`CfgStructurizer`** models the
way of a function through `ir.c` (3524-6651), an action per pass: switches become
ladders of branches; dominators; loops; the topological order that keeps loops
contiguous; the intervals that are stretched until they nest; the structured
program; its optimisation; the emission, where a jump out of several loops
becomes a break and a trampoline behind each loop; and the flattening into
labelled blocks for targets without constructs. `pass` is "abort" where an
assertion of the code would fail, "refused" where it reports an irreducible
function. `Execute` then runs what was made, and `CF!Spec` must allow every run.

**The HLSL compiler** is a chain of modules, each of which extends the one before:

| module | code |
|---|---|
| `HlslIr` | nodes, blocks, cloning, indices (`hlsl.h`, `hlsl.c`), and how a program is executed |
| `HlslFolding` | rules on single nodes (`hlsl_constant_ops.c`), dead code, `hlsl_transform_ir()` |
| `CopyPropagation` | scopes and traces of values with their times, loads replaced by values or by loads from elsewhere |
| `HlslControlFlow` | loops of the parser (`hlsl.y`), returns, unrolling, continues, unreachable code, cases of switches |
| `HlslVectorize` | expressions and stores of one block that become one |
| `HlslRegisters` | liveness put to use: variables that share components of registers |
| `HlslCompiler` | the order and repetition of the passes in `process_entry_function()` |

In `HlslCompiler` an action is a pass, or a round of passes that is repeated while
one makes progress. A pass is an operator from programs to programs and keeps
the control of the code: which node is visited when, what is seen of the nodes
replaced before, which scopes are pushed, when a walk stops. `Pass` and `Repeat`
take the pass as an operator. `MeaningKept` executes the source and the compiled
program, which lies in shared registers, from every input, and compares what
they write to the output. What depends on an undefined value is not compared.
The modules use RECURSIVE operators, so they are for TLC only.

Definitions marked `Mutant` in the modules are plausible bugs of the code next to
the definition they change; no specification uses them. Each shows that a run's
property would notice such a bug. The other `MC` modules give constants values.

## 4. Runs

| Run | Instance | Shows |
|---|---|---|
| `fences` | one fence with values 0-2, 2 events registered up to 2 times and 3 queued signals; 2 workers that share a fence, 2 signals, waits may fail, liveness | type, backing of the pending value, events exactly once, refinement of `FenceContract`; references, reports in order, no hang in stop |
| `queue_threads` | 2 threads, 2 queues on 2 VkQueues, 1 fence, 2 operations per queue, 1 CPU signal | one holder per queue, no queue orphaned, waits honoured, completed values real, the semaphore rises |
| `queue_turns` | 1 thread, 2 queues on one VkQueue, 2 fences, liveness | nested flushes reach every queue that can go, reports arrive, no wait ahead of its signal |
| `queue_overflow` | 2 threads, blocked list of 1, submissions may fail | operations in order and arrays consistent even when a queue is forgotten |
| `descriptor_heap` | 2 application threads and the device worker, 2 descriptors, 3 writes or copies, any number of flushes | reference counts exact, dirty list whole, no update lost, no foreign view written, a queue's flush shows its thread's writes |
| `cfg_structurizer` | every function of up to 3 blocks that end in RET or BRANCH, two families of 6 blocks, switches with up to 2 cases in and before loops | no assertion fails, a function is refused exactly when it is irreducible, has an unreachable block or has two back edges to one header, every walk of the result is one of the source |
| `device_objects` | 3 fences of one event; 3 threads on an object cache of 2 lists; 2 threads, a heap and 2 resources; 3 buffers in 64 addresses; 2 allocators, 2 lists, 2 pools; 2 recorders, 2 states, 2 keys | one soundness invariant for each part |
| `hlsl_compiler` | about 670 entry functions in 11 families, 4 inputs each | the compiled program, in registers, computes what the source does; uniforms are never written |
| `queue_lost_wakeup` | violation | see findings |
| `queue_two_signallers` | violation | see findings |
| `queue_signaled_fence` | violation | see findings |
| `binary_fence` | violation: 2 waiters, 3 signals, values 1 and 2, an array of 4 | see findings |

Bounds. `MaxTimelineValue` = 3 gives two out-of-order workers plus one more signal;
values 0-2 give a rewind below, to, and above a waiting value. Two
operations per queue are enough for a wait, the rest behind it, and an append
during the flush; the blocked list of one makes the second queue overflow it,
as the seventeenth does in the code. Fences are independent in `Fence`, so one
suffices there. The operations each queue may be given are fixed sets in
`MCCommandQueue`; their order, number up to the bound and thread are free.
Two descriptors make a list with a successor; three writes are enough for a view
to be replaced, freed, and reused in the other descriptor while a flush holds
its address; a write buffer of 3 is emptied once when full and once at the end;
`QuarterRange` = 2 leaves an index that only a wrong decoding reaches.

`device_objects`: three fences let one signal, one fail and one be registered at
the same time. Three threads with at most one object each are enough for the
object cache's count to go below zero while two search. Heaps: one thread
revives what the other drops, a resource's heap is private or shared, and the
second resource holds a heap that the first one leaves. The sizes of the buffers
are below, at and above a slab, and the whole range; two slabs for three buffers
exhaust them. Requests of 3 and 6 descriptors with a limit of 5 make a pool grow, fit
exactly, and fall short. Two recorders are a winner and a loser.

`cfg_structurizer`: three blocks give every shape of one or two loops, nested,
crossing or irreducible, and unreachable blocks; six are needed for intervals that
start in one loop and end behind another, and for jumps over two loops.

`hlsl_compiler`: the families are in `MCHlslCompiler`. Loops of two iterations whose body has two
of a conditional break, return or continue, tried for unrolling or kept, `for` and
`do`; nested loops where either is kept; iteration counts known, unknown and
limited; switches with the default case, empty cases and returns anywhere, alone
and in loops; two copies between variables, parts and array elements in
branches, behind branches and in loops; copies that are stale by the time they
are used; arrays that copy arrays, read at an unknown index; expressions of three
operators in every order of constants; stores and sums of the parts of vectors;
variables that live across a loop. The inputs take each branch both ways and
reach every label. `ImplicitUnrollLimit` stands for the 254 iterations (1024 with an
attribute) after which the code gives up, and is above all known counts; `Fuel`
is above it.

Deadlock checking is off except for `descriptor_heap`, where a flush is always
possible: elsewhere the application may stop calling, a compilation ends, and
every bound is a guard.

`queue_threads` and `queue_turns` split what no single run may assume. With two
threads `NoStrandedQueue`, `ReadyQueueMoves` and `SignaledFenceLetsGo` are false
(the violation runs), so the liveness of nested flushes is claimed for one
application thread with concurrent workers and GPU. `SemaphoreRises` is claimed
for a fence that one queue signals, and is false for two.

`FlushShowsOwnWrites` speaks of descriptors that one thread writes. When two threads
write one descriptor without synchronisation, the second may find it marked by
the first, which has not pushed it yet, and its flush then misses the
descriptor; `UpdateNotLost` says that the first thread's push brings it back.

Fairness (`FairSpec`): a thread inside a call runs on (mutexes are held for
finite sections only), workers run, and the GPU executes what is executable.
Nothing forces the application to call, to release, or a condition variable to
wake up spuriously.

## 5. Findings

1. *Lost wakeup* (`NoStrandedQueue`): the check of a wait and the entry in the
   blocked list are separate critical sections.
2. *Timeline values that do not rise* (`SemaphoreRises`): two queues that signal
   one fence submit in another order than they took their values, or with the
   same value, read again after the unlock.
3. *A wait for a reached value stops a shared VkQueue* (`SignaledFenceLetsGo`): the
   wait is tied to a signal another queue has added but not submitted.
4. *An acquired binary semaphore is moved* (`AcquiredEntryIsThere`): without timeline
   semaphores a queue keeps a pointer to an entry of the fence's array that the
   removal or the garbage collection of other entries moves.

The first three need two application threads, the last one two queues; each is
quoted with its lines in `PROJECT.json`.

Met while modelling, and not shown by a run; a run would need state that the
models leave out, or would restate one line:

* `add_pending_timeline_signal()` returns with the mutex held when its array cannot
  grow (867); a list's Reset that fails in `array_reserve()` leaves `is_recording` set
  with its command buffer freed (1443-1450); a wait whose queue cannot be acquired
  after no entry was found releases a NULL semaphore (7166-7171, 7230).
* A wait for a value whose binary semaphore another waiter has taken is dropped
  with a warning (7181).
* `d3d12_heap_init()` destroys the heap when mapping fails and then returns the
  HRESULT from before, S_OK (`resource.c` 562-571).
* `resource_init()` that gets no GPU address destroys the resource with `heap` and
  tile fields not yet set (`resource.c` 2031-2062).
* SetEventOnMultipleFenceCompletion with a NULL event whose registration failed
  waits for an event that nobody signals.
* A resource that lives by internal references alone holds no reference of its device.
* `ir.c`: a function whose last block in order closes an infinite loop leaves the last
  flattened block without a terminator; `vsir_cfg_init()` then reads it (the comment at
  1819-1821 excludes this for old shader models only). The moves that replace phi
  nodes are made one after the other, so that phis that read each other would see
  new values.
* HLSL, and avoided by the families of `MCHlslCompiler` (lines of `hlsl_codegen.c`):
  a load is redirected to another variable without looking whether that was
  written since (2230-2423); stores are moved past a jump that stands between
  them (3165-3167); expressions become one without comparing their result types
  (2851-2866); a store in the iter block of a nested loop is not seen by the
  invalidation (2630-2637); an operand that an earlier group has replaced gives
  a later group different sources (2965-3050); unrolling simplifies the whole
  program, and may free the node whose walk it is called from; a `continue` in a
  `switch` in an unrolled loop is left without a loop (13330-13410, 13685); and a
  `continue` in a `switch` in a do-while loop skips the condition (`hlsl.y` 492-523).
  `hlsl_transform_ir()` and `lower_return()` do not walk a loop's `iter` block
  (881-920, 1120-1145), so that a function call in the third part of a `for` is not
  inlined (13989) when `resolve_loops()` moves it into the body.

## 6. Proofs

Every theorem holds for all values of the constants that meet the assumptions
below: any number of queues, threads, fences, values, buffers. The runs show the
same properties on small instances.

| module | proves | of |
|---|---|---|
| `Fence_proofs` | `TypeCorrect`, `SignalsKept`, `PendingIsBacked`, `BarrierIsReached`, `NoEventLeftBehind`, `EventsSignalledOnce`, `FenceImplementsContract` | the six invariants of `Fence`, and that it implements `FenceContract` |
| `CommandQueue_proofs` | `QueueTypeCorrect`, `QueueHeldOnce`, `QueueNotOrphaned`, `QueueOpsInOrder`, `FencesImplemented`, `QueueFencesSound` | the flush of queues, its use of fences |
| `QueueGpu_proofs` | `CompletedValuesReal`, `SemaphoresRise`, `WaitsAreHonoured`, `NoQueueStranded`, `WaitsComeAfterSignals` | what the GPU makes of signals and waits; what one thread can rely on |
| `FenceWorker_proofs` | `WorkerTypeCorrect`, `ReferencesAreAccounted`, `NoFreedFence`, `WorkerImplementsReportQueue` | the references to fences, and that the worker implements `ReportQueue` |
| `DeviceObjects_proofs` | `MultiFenceEventCorrect`, `HeapsOutliveTheirResources` | `MultiFenceEventSound`, `HeapsOutliveResources` |
| `Memory_proofs` | `GpuVaCorrect`, `DescObjectCacheCorrect` | `GpuVaSound`, `DescObjectCacheSound` |
| `Recording_proofs` | `PipelinesAreShared`, `AllocatorsAreSound` | `PipelinesShared`, `CommandAllocatorSound` |
| `DescriptorHeap_proofs` | `HeapTypeCorrect`, `NoViewFreedUnderUse`, `VulkanShowsWhatWasThere`, `NoUpdateLost`, `ListsAreSound`, `QueueSeesItsWrites` | the six invariants of `DescriptorHeap` |

### Assumptions

`FenceAssumption`: values and bounds are naturals. Nothing about fences is assumed
finite but what the code makes finite: where a count is needed (`EventsConserved`)
the finiteness of the event list is part of the invariant. `QueueAssumption`
and `WorkerAssumption` say that queues and workers are finitely many, and
`HeapAssumption` that threads are, since these modules count them. `HeapAssumption`
also has that a descriptor's index is at most a quarter of the 32-bit range (it is
shifted left by one, and back as a signed number) and that the write buffer has room
for at least two. `d3d12_descriptor_heap_create()` does not check that bound, and a
larger index would be decoded wrongly; Direct3D allows about 10^6 descriptors in a
heap, and 2^30 of them would take tens of gigabytes. `GpuVaAssumption` has the layout that
`vkd3d_gpu_va_allocator_init()` sets up (the slabs lie below the fallback range
and alignments divide the size of a slab), and that "no buffer" is neither a
buffer nor a slab: NULL is both the pointer of a free slab and the end of their
list. `CacheAssumption`: the threads are finitely many, and the counters of the
cache wrap beyond anything they count, at a multiple of the number of heads (2^32
and 16 in the code). `HeapLifetimeAssumption`: threads, heaps and resources are finitely
many, since each count is compared with the number of those who refer to an object;
a heap is not a resource. `CommandAllocatorAssumption`: sizes and limits are
positive, and NULL is no handle and no object.

### Fences

*Inductive invariant.* `Inv` is the type invariant with, for each fence, three
parts. `Kept`: the queued signals are the entries of `requested` after
`timeline_value`, which makes timeline values unique keys. `Backed`: the pending
value is at least the fence's value and at most one of the pending values.
`NoneReady`: no event's value is reached. `QueuedSignalsKept` needs `Kept` alone;
`MaxPendingBacked` is preserved by the catch-up only because it recomputes the
maximum over what `Kept` says is left; `ZeroWaitIsReached` follows from `Backed`,
since a value let through is at most a value the fence has or a queued signal
gives, and a queued one would have a timeline value. The catch-up loop is
handled by `DueSignals` (what it meets is the requests up to the reported value)
and `KeptAfterTimeline`.

*Refinement.* A queued signal, a registration and a CPU signal map to the
contract's actions of those names; `UpdatePendingValue` stutters; a report of
timeline value t maps to `Complete(f, n)` with n the number of entries due, or to
a stutter when another worker was first. `FinalValueIsLast` and `RemainingEvents`
show that value and events agree; the lemmas on suffixes of `requested` carry the
third variable.

### Command queues

A queue is a token. `Owned` says where it can be: with nobody, waiting for its
turn in exactly one place (an entry of the blocked list, or one of the array
that a call of `d3d12_device_flush_blocked_queues_once()` took), or flushed by
exactly one call on one stack; `is_flushing` tells which, and a queue that is not
being flushed has an empty auxiliary array. That is `Exclusive`. It is inductive
only with the shape of the stacks: `Nested` says that the two functions alternate
and that a frame below the top is at a call, `IndicesFit` that the loop index of
a flush stays within the auxiliary array and that the operation there has the type
the program counter stands for. Together they are `FlushInv`. Each action
moves at most one token, and three lemmas carry the rest: `FlushPushed` (a call
starts: the token goes from a turn to the new frame), `FlushPopped` and
`BlockedPopped` (a call returns, and `ResumeFlush` or `ResumeBlocked` says what the
caller makes of its result, early returns included). `AtMostOneHolder` and
`NeverOrphaned` follow from `Exclusive`; what `NeverOrphaned` says is that a queue
with nobody has no operations, which needs that the list has room (`HasRoom`):
`RoomForAbsent` shows, by counting, that a queue which is not on the list then
finds a free entry.

`TypeOK` needs in addition `IndicesFit`'s second part, `SignalFits`: the timeline value
that a call carries across unlocked sections is one the fence has handed out.
`WorkersFit` says the same of the jobs that wait for a worker. With both, every
step of the program is a step of `Fence` or leaves the fences alone
(`QueueFenceStep`), hence `FencesImplemented`, and the theorems about fences hold of
the fences that queues use (`QueueFencesSound`).

`OpsInOrder` needs `OrderInv` besides: for a queue being flushed, what was put on it is
what has taken effect, then the auxiliary array from the first operation that has not,
then `op_queue`. `First` knows the stages at which the current operation has
taken effect but the loop index has not moved. The steps that regroup the arrays
(the swap of a flush that starts, `fixup_after_flush_locked()`, the flush that
finds more operations) are instances of `Regrouped`.

### Signals, waits and the GPU

Two hypotheses appear in the first three theorems of `QueueGpu_proofs`, both about constants.
`SingleSignaller`: no two queues signal the same fence; the instances
`CommandQueueThreads` and `CommandQueueTurns` satisfy it. It cannot be dropped: the
run `queue_two_signallers` shows two queues that submit the timeline values of one fence
in the wrong order. `WaitsAreHonoured` asks besides that submissions do not fail
(`~SubmitMayFail`): when the submission of a signal of 2 fails, its entry stays queued, and
after a later signal of 1 a wait for 2 is given a timeline value that the
semaphore passes although the fence was never 2. The first two theorems hold with failing
submissions too.

`GpuInv` follows a signal. `FramesFit`: while its call is between requesting a
timeline value and submitting it, that value is the last one requested, it is above
the semaphore, and nothing submitted is as high. This is where `SingleSignaller` comes
in: `OneSubmitter` shows that two calls between these points would flush the same
queue, which `Exclusive` rules out. `BatchesFit`: in a VkQueue the timeline values of
a fence ascend and are above the semaphore. `Underway(f, n)`: the n-th signal is in a
VkQueue, or its virtual value is real; what the calls carry further, and what the workers
have (`JobsFit`), is underway. So a value that a worker finds the semaphore at has been
executed (`ReachedIsReal`), and what the catch-up leaves is an executed value.

`WaitInv` adds that nothing requested is lost (`NothingLost`: a requested
signal is underway, or the last one and on its way to the VkQueue) and that each wait, in
a call (`CallsWait`) or in a VkQueue (`BatchesWait`), is for a value the fence had or for
a timeline value whose signal reaches it (`Backs`). `StackMoves` and `Quiet` say
once what each of the sixteen steps of a thread does to the frames of all threads,
so that the invariants of frames need only look at the five steps that are not quiet.

### One application thread

`NoQueueStranded` and `WaitsComeAfterSignals` have the hypothesis `OneThread`: at most one
thread calls, while any number of workers and VkQueues run beside it. The runs
`queue_lost_wakeup` and `queue_signaled_fence` show that with two threads neither holds.
`CommandQueueTurns` meets all hypotheses of both. That a single thread's top frame tells
how far the call is makes the invariants short: `StepCases` divides the steps by where
they leave the thread, between two operations (`PlainStep`), about to take the blocked list
(`ListStep`), or further in a signal or a wait (`MidStep`).

`NoQueueStranded` asks besides that the blocked list has room for all queues (else
`record_as_blocked()` drops one) and that no submission fails: a failed signal leaves an
entry behind that a later report makes pending without a flush. Its invariant is
`WakeInv`. `MaxFits`: `max_pending_value` is up to date unless the thread is publishing a
signal. `StopFits`: a flush that has stopped at a wait was right to stop, up to the
entry in the list. `ListFits`: the first operation of a queue on the list is a wait for a
value that is not pending, or a signal of that fence is being published, or the list
is about to be taken. The step to watch is a worker's report, which recomputes
`max_pending_value` in a thread of its own: it takes values away, so outside of a publication
it can only lower the maximum (`ReportRecomputes`). When all calls have returned,
`NoneOrphaned` says that a queue with operations left is on the list, and `ListFits`
that it cannot go.

The invariant of `WaitsComeAfterSignals` is `TurnInv`. `CallsAhead`: a wait that is to be
submitted waits for a signal that was queued, and a signal to be submitted is the last
one queued. `WaitsAhead`: a submitted wait is never for the signal that is still
to be submitted. So a signal that comes behind a wait for its fence has a larger
timeline value (`InTurn`). Submissions may fail. `SignaledFenceLetsGo`, which two
threads break, follows for one.

### Fence workers

The count of references is compared with the number of places that hold
one: `References(f)` is the set of those places over all workers. `OneWorkerChanges`
and `TotalChanges` reduce a change of that set to the change at one worker,
`FencesOfAppend`, `FencesOfTail` and their counterparts for jobs to one element.
Inductive with `ControlFits`: an operation being destroyed and a job being reported are
there, the array that a worker takes replaces an empty one (or its references
would be forgotten), and an exited worker's queue is not being flushed.
`NoFreedFenceHeld` follows: a place that holds a fence makes the set nonempty.
`TypeOK` is where the count could pass below zero.

`WorkerImplementsReportQueue` is a refinement: the jobs pending in `ReportQueue` are
those of the worker's array followed by those of the array that `QueueSignal` appends
to (`ReportsPending`), so taking the array is a stutter and reporting a job takes the
first one. That a report stays in the range of values needs `SubmissionsCovered`:
what was submitted, and the signals still in a queue's operations, are no more than
the signals that the fence has queued.

### Descriptor heaps

Four inductive invariants, each relative to the ones before.

`BaseInv` is the type invariant, what each program location knows of its locals
(`ControlFits`: who has `vk_sets_mutex`, when the write buffer is empty and how full it
can be), that a link is 0 or an encoded index (`LinksFit`), and the exact counts. A
count is a sum of four cardinalities; `Weight` is what one thread adds to it, and
`ObjectCounted` reduces a step to the change at one thread and one descriptor. So
an increment that finds a nonzero count, a look at the descriptor that finds another
view and a decrement that undoes the increment are three small cases.

`ShownInv`: each descriptor's view, each buffered write and what Vulkan shows is in the
history of the descriptor. A copy or flush that has passed its second look at the
descriptor has the view's current version, because the count it holds keeps the memory
from being reused.

`AllSettled`: a descriptor that is not NULL is dirty, or some thread is to mark it, or
the flush is to read it, or the *last* buffered write to it is its view; otherwise no
write to it is buffered and Vulkan shows its view. `UpdateNotLost` alone is not
inductive, since an older buffered write may overwrite what Vulkan shows.

`ListInv`: there are two sequences of descriptors, the dirty list and the rest of
what the flush took, linked by `next` (`Chain`), such that each descriptor with a link is
on one of them or is being pushed by one thread (`ListsFit`, `PushersFit`,
`Covered`). A pushed descriptor's link is the head that its thread has read, so if the
compare-and-swap finds that head again the list is what it was or, if it was taken and
pushed again meanwhile, has the same first element: the proof needs only that the
link fits the head as it is *now*, which is why the ABA pattern is harmless here.
`OwnFits` says that while a thread flushes, descriptors that only it has
written do not come back on the list; with `AllSettled` it gives `FlushShowsOwnWrites`.

`DirtyListSound` speaks of `ListFrom`, a function defined by recursion. `Walked` computes
it on a `Chain` by taking a least index at which it would differ (`Least`, from the
well-foundedness of the naturals), and `ChainShort` bounds a chain's length by
the pigeonhole principle.

### Objects

*`MultiFenceEvent`.* The counter is the number of shares that are not spent (by
cardinality, so for any number of fences), and `MultiFenceInv` says for each program
state of the caller which shares can still be registered, what `hr` says of them,
and which share takes the event.

*`GpuVaAllocator`.* `GpuVaInv`: each free slab is linked to at most once, the first one
to none (`FreeList`), a slab in use names a buffer that is at its address
(`SlabsOwned`), a fallback entry likewise (`FallbackOwned`), the fallback array is
sorted and disjoint (`Ascending`), and each buffer is in one of the two places, with
room up to the next (`Placed`). `bsearch()` is then shown to find what is there.

*`DescObjectCache`.* `CacheBase` says where each thread is and which spinlock it has.
`CacheLists`: there is a sequence of objects for each head, linked by `header_next`, no
object is on two of them, and what is on none belongs to one thread (`Places`); a list
changes only at its front, under its spinlock. `CountFits` compares `free_count`
with the objects on lists, less those linked but not yet counted and those counted
down but not yet unlinked: this difference may be below zero, and then the count
has wrapped, once. The memory is bounded because a thread that
calls `malloc()` has seen a small count and uses one object less than it may; `UnionBound`
counts what all threads hold by numbering each one's objects. The walk through a list
is computed as for `DirtyListSound`. The proof needs that the threads are finite
and `CountRange` larger than anything that is counted.

*`HeapLifetime`.* The steps a call has still to make are part of the counts.
`RefsExact`: the public count of an object is the number of threads that hold it or are
about to be given it. `InternalExact`: its internal count is one while it is public,
and one for each user (the resources placed in a heap, the threads that keep a
resource) and each decrement that is due. Revival is what makes this delicate:
an AddRef from zero has the public reference before the internal one, so an object
is `Public` only when nobody is `Reviving` it, and `IncrementsOK` says that the thread
which does has something that keeps the count up meanwhile: the resource for a heap,
its internal reference for a resource. It also says that only one thread revives an
object at a time. `Rising` orders the steps of a call (a heap is let go of before the
resource is freed, and that before the call returns), from which `LifeOK`, `PrivateOK`
and `FreesOK` follow through every interleaving; `DeviceExact` counts in the same way what
holds the device. That nothing leaks is read off the counts once no call is under way.

*`CommandAllocator`.* `PoolsOwned` says of each allocator that its arrays hold no pool
twice and that its current pool is one of the used ones (`PoolsSound`), and that each
pool of the driver belongs to exactly one allocator; `BuffersOwned` likewise. `Grown` is
what an allocation from the pools may do: keep the pools there were and add ones that
the driver has just made. It composes (`GrownOn`), which covers an allocation that
tries a second pool after the first. `EntryRemoved` and `SizeKept` are about the
removal by swapping and the filter of reusable pools; `PowerLargeEnough` about the
rounding to a power of two, so a new pool is never smaller than the request. The
filter and the powers are recursive functions, which are computed from
their definition on a growing prefix (`KeptDefined`, `PowersDefined`).

*`PipelineCache`.* `PipelineInv` adds to the property which pipelines exist
(`Accounted`: those listed and those in the hands of one call), that no two of these
owners share one (`OneOwner`), and what each stage of a call knows (`CallSound`): a
call that lost knows that its key is listed, because lists of a state that is in
use only grow.

### What stays with TLC

* *For good:* the liveness properties (`ReportsFinish`, `StopFinishes`,
  `ReadyQueueMoves`, `SignalsComplete` and those of the contract), which are out of the
  prover's reach; `BinaryFence`, `CfgStructurizer` and the HLSL modules, whose
  recursive operators it cannot take.
* *For two threads:* what `NoQueueStranded` and `WaitsComeAfterSignals` state is false there:
  a wakeup can be lost (`queue_lost_wakeup`), and a thread that has requested a signal may
  be overtaken before it submits it (`queue_signaled_fence`).

## 7. Not modelled

* Most of the repository is straight-line translation: D3D12 calls into Vulkan
  calls, tables of formats and opcodes, readers and writers of shader binaries,
  grammars, headers and generated data. A model of that would restate it line by
  line and its properties would be those of single assignments, so the map covers a small
  share of all lines, and most of those where state outlives a call.
* Memory exhaustion. One consequence is listed as a hazard: the return of
  `add_pending_timeline_signal()` with the mutex held.
* Devices without timeline semaphores: beyond the array of semaphores in
  `BinaryFence`, the sequence numbers of a `VkQueue` and its recycled semaphores,
  `last_waited_fence`, and the reallocation of the array (`Capacity` has room for
  all signals).
* A NULL event in SetEventOnCompletion, which waits on a private event
  instead of signalling the application's: the list entry is the same.
* AddRef of fences by the application after creation; 64-bit wrap of timeline values.
* The release of a queue that another thread may flush; in `FenceWorker` a queue
  is released between flushes.
* Closing a list whose allocator was destroyed, which hands a NULL command buffer to
  Vulkan: `CommandAllocator` follows it as far as the pointers go.
* `memory_order` weaker than sequential consistency.
* In `CfgStructurizer` the instructions inside blocks, and values beyond the one a
  terminator looks at. In the HLSL modules: other types than unsigned vectors and
  arrays of them, structs, matrices, objects, function calls, the offsets of
  derefs, lowering of single operations, and what is behind register allocation. A value
  never comes near 2^32, so the arithmetic does not wrap.
* Components marked `not_modelled` in `PROJECT.json`, with the reason there.
