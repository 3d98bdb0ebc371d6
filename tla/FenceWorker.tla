----------------------------- MODULE FenceWorker -----------------------------
(***************************************************************************)
(* struct vkd3d_fence_worker (libs/vkd3d/command.c) and the lifetime of    *)
(* the fences it refers to.  Each command queue has a worker thread that   *)
(* takes the whole array of waiting fences at once, by swapping it with an *)
(* empty one, and waits for the GPU without a lock.  WorkerFences are shared by  *)
(* the application, the operations queued on command queues and the        *)
(* workers, and freed when the last of them drops its reference.           *)
(***************************************************************************)
EXTENDS Integers, Sequences, FiniteSets

CONSTANTS
    WorkerFences,   \* the fences that signals name
    Workers,        \* one for each command queue
    MaxSignals,     \* bound: signals queued on one fence
    WaitMayFail     \* whether vkWaitSemaphoresKHR() may fail

ASSUME WorkerAssumption ==
    IsFiniteSet(Workers) /\ MaxSignals \in Nat /\ WaitMayFail \in BOOLEAN

VARIABLES
    refcount,           \* the application's references to each fence
    internal_refcount,
    ops,                \* the fences of the signals queued on each command queue
    flush,              \* where the thread that flushes the queue is
    fences,             \* worker->fences
    cur_fences,         \* the array the worker thread is going through
    should_exit,
    pc,                 \* where the worker thread is
    alive,              \* whether the command queue exists
    queued,             \* signals queued for each fence so far
    submitted,          \* signals submitted to Vulkan for each fence so far
    semaphore,          \* how far the GPU is with them
    failed,             \* history: references that failed waits left behind
    reported            \* history: what each worker reported

refVars == <<refcount, internal_refcount, failed>>
queueVars == <<ops, flush, alive, queued, submitted>>
workerVars == <<fences, cur_fences, should_exit, pc, reported>>
vars == <<refVars, queueVars, workerVars, semaphore>>

Job == [fence : WorkerFences, value : Nat]

Init ==
    /\ refcount = [f \in WorkerFences |-> 1]
    /\ internal_refcount = [f \in WorkerFences |-> 1]
    /\ ops = [w \in Workers |-> <<>>]
    /\ flush = [w \in Workers |-> "idle"]
    /\ fences = [w \in Workers |-> <<>>]
    /\ cur_fences = [w \in Workers |-> <<>>]
    /\ should_exit = [w \in Workers |-> FALSE]
    /\ pc = [w \in Workers |-> "lock"]
    /\ alive = [w \in Workers |-> TRUE]
    /\ queued = [f \in WorkerFences |-> 0]
    /\ submitted = [f \in WorkerFences |-> 0]
    /\ semaphore = [f \in WorkerFences |-> 0]
    /\ failed = [f \in WorkerFences |-> 0]
    /\ reported = [w \in Workers |-> <<>>]

OpsAt(w, f) == {i \in DOMAIN ops[w] : ops[w][i] = f}
JobsAt(s, f) == {i \in DOMAIN s : s[i].fence = f}
OpsOf(w, f) == Cardinality(OpsAt(w, f))
JobsOf(s, f) == Cardinality(JobsAt(s, f))

IncRef(f) == internal_refcount' = [internal_refcount EXCEPT ![f] = @ + 1]
DecRef(f) == internal_refcount' = [internal_refcount EXCEPT ![f] = @ - 1]

-----------------------------------------------------------------------------
(* The application and the thread that flushes its queue.                  *)

\* ID3D12Fence::Release(): the last one drops one internal reference.
FenceRelease(f) ==
    /\ refcount[f] > 0
    /\ refcount' = [refcount EXCEPT ![f] = @ - 1]
    /\ IF refcount[f] = 1 THEN DecRef(f) ELSE UNCHANGED internal_refcount
    /\ UNCHANGED <<failed, queueVars, workerVars, semaphore>>

\* Mutant: the operation takes no reference.
QueueSignalUnreferenced(w, f) ==
    /\ alive[w] /\ ~should_exit[w] /\ refcount[f] > 0
    /\ queued[f] < MaxSignals
    /\ queued' = [queued EXCEPT ![f] = @ + 1]
    /\ ops' = [ops EXCEPT ![w] = Append(@, f)]
    /\ UNCHANGED <<refVars, flush, alive, submitted, workerVars, semaphore>>

\* d3d12_command_queue_Signal(): the operation holds a reference.
QueueSignal(w, f) ==
    /\ alive[w] /\ ~should_exit[w] /\ refcount[f] > 0
    /\ queued[f] < MaxSignals
    /\ queued' = [queued EXCEPT ![f] = @ + 1]
    /\ ops' = [ops EXCEPT ![w] = Append(@, f)]
    /\ IncRef(f)
    /\ UNCHANGED <<refcount, failed, flush, alive, submitted, workerVars, semaphore>>

\* Mutant: nobody is woken.
WakeNobody(w) == UNCHANGED pc

\* pthread_cond_signal() wakes the worker if it is waiting.
Wake(w) == pc' = [pc EXCEPT ![w] = IF @ = "wait" THEN "woken" ELSE @]

\* Mutant: the worker takes no reference.
EnqueueUnreferenced(w) ==
    /\ ops[w] # <<>> /\ flush[w] = "idle" /\ alive[w] /\ ~should_exit[w]
    /\ LET f == Head(ops[w])
       IN  /\ submitted' = [submitted EXCEPT ![f] = @ + 1]
           /\ fences' = [fences EXCEPT ![w] =
                  Append(@, [fence |-> f, value |-> submitted[f] + 1])]
    /\ Wake(w)
    /\ flush' = [flush EXCEPT ![w] = "destroy_op"]
    /\ UNCHANGED <<refVars, ops, alive, queued, cur_fences, should_exit,
                   reported, semaphore>>

\* d3d12_command_queue_signal(): the fence's next value is submitted, and
\* vkd3d_enqueue_timeline_semaphore() hands it to the worker.
EnqueueTimelineSemaphore(w) ==
    /\ ops[w] # <<>> /\ flush[w] = "idle" /\ alive[w] /\ ~should_exit[w]
    /\ LET f == Head(ops[w])
       IN  /\ submitted' = [submitted EXCEPT ![f] = @ + 1]
           /\ fences' = [fences EXCEPT ![w] =
                  Append(@, [fence |-> f, value |-> submitted[f] + 1])]
           /\ IncRef(f)
    /\ Wake(w)
    /\ flush' = [flush EXCEPT ![w] = "destroy_op"]
    /\ UNCHANGED <<refcount, failed, ops, alive, queued, cur_fences, should_exit,
                   reported, semaphore>>

\* d3d12_command_queue_destroy_op().
DestroyOp(w) ==
    /\ flush[w] = "destroy_op"
    /\ DecRef(Head(ops[w]))
    /\ ops' = [ops EXCEPT ![w] = Tail(@)]
    /\ flush' = [flush EXCEPT ![w] = "idle"]
    /\ UNCHANGED <<refcount, failed, alive, queued, submitted, workerVars, semaphore>>

\* Mutant: the sleeping worker is not woken up to exit.
StopSilently(w) ==
    /\ alive[w] /\ ~should_exit[w] /\ flush[w] = "idle"
    /\ should_exit' = [should_exit EXCEPT ![w] = TRUE]
    /\ UNCHANGED <<refVars, queueVars, fences, cur_fences, pc, reported, semaphore>>

\* d3d12_command_queue_Release() calls vkd3d_fence_worker_stop(), which asks
\* the thread to exit and joins it.  Operations that wait for another queue
\* may be left.
StopWorker(w) ==
    /\ alive[w] /\ ~should_exit[w] /\ flush[w] = "idle"
    /\ should_exit' = [should_exit EXCEPT ![w] = TRUE]
    /\ Wake(w)
    /\ UNCHANGED <<refVars, queueVars, fences, cur_fences, reported, semaphore>>

\* Mutant: the operations that are left keep their references.
DestroyQueueLeaks(w) ==
    /\ alive[w] /\ pc[w] = "exited"
    /\ internal_refcount' = [f \in WorkerFences |-> internal_refcount[f] - JobsOf(fences[w], f)]
    /\ fences' = [fences EXCEPT ![w] = <<>>]
    /\ ops' = [ops EXCEPT ![w] = <<>>]
    /\ alive' = [alive EXCEPT ![w] = FALSE]
    /\ UNCHANGED <<refcount, failed, flush, queued, submitted, cur_fences, should_exit, pc,
                   reported, semaphore>>

\* After the join: the references of the array and of the operations go.
DestroyQueue(w) ==
    /\ alive[w] /\ pc[w] = "exited"
    /\ internal_refcount' = [f \in WorkerFences |->
           internal_refcount[f] - JobsOf(fences[w], f) - OpsOf(w, f)]
    /\ fences' = [fences EXCEPT ![w] = <<>>]
    /\ ops' = [ops EXCEPT ![w] = <<>>]
    /\ alive' = [alive EXCEPT ![w] = FALSE]
    /\ UNCHANGED <<refcount, failed, flush, queued, submitted, cur_fences, should_exit, pc,
                   reported, semaphore>>

-----------------------------------------------------------------------------
(* vkd3d_fence_worker_main().                                              *)

\* Mutant: the array is copied instead of swapped.
TakeCopy(w) ==
    /\ ~should_exit[w]
    /\ pc' = [pc EXCEPT ![w] = "run"]
    /\ cur_fences' = [cur_fences EXCEPT ![w] = fences[w]]
    /\ UNCHANGED <<fences, refVars, queueVars, should_exit, reported, semaphore>>

\* With the mutex: exit, or take the array.  A worker that wakes up does not
\* look at the count again.
TakeOrExit(w) ==
    /\ IF should_exit[w]
       THEN /\ pc' = [pc EXCEPT ![w] = "exited"]
            /\ UNCHANGED <<fences, cur_fences>>
       ELSE /\ pc' = [pc EXCEPT ![w] = "run"]
            /\ cur_fences' = [cur_fences EXCEPT ![w] = fences[w]]
            /\ fences' = [fences EXCEPT ![w] = <<>>]
    /\ UNCHANGED <<refVars, queueVars, should_exit, reported, semaphore>>

WorkerCheck(w) ==
    /\ pc[w] = "lock"
    /\ fences[w] # <<>> \/ should_exit[w]
    /\ TakeOrExit(w)

WorkerSleep(w) ==
    /\ pc[w] = "lock"
    /\ fences[w] = <<>> /\ ~should_exit[w]
    /\ pc' = [pc EXCEPT ![w] = "wait"]
    /\ UNCHANGED <<refVars, queueVars, fences, cur_fences, should_exit, reported,
                   semaphore>>

WorkerWoken(w) == pc[w] = "woken" /\ TakeOrExit(w)

\* pthread_cond_wait() may return without a signal.
SpuriousWakeup(w) ==
    /\ pc[w] = "wait"
    /\ Wake(w)
    /\ UNCHANGED <<refVars, queueVars, fences, cur_fences, should_exit, reported,
                   semaphore>>

PopJob(w) == cur_fences' = [cur_fences EXCEPT ![w] = Tail(@)]

\* The wait ends and the fence is signalled; then the reference goes.
WorkerSignal(w) ==
    /\ pc[w] = "run" /\ cur_fences[w] # <<>>
    /\ LET job == Head(cur_fences[w])
       IN  /\ semaphore[job.fence] >= job.value
           /\ reported' = [reported EXCEPT ![w] = Append(@, job)]
    /\ pc' = [pc EXCEPT ![w] = "decref"]
    /\ UNCHANGED <<refVars, queueVars, fences, cur_fences, should_exit, semaphore>>

WorkerDecRef(w) ==
    /\ pc[w] = "decref"
    /\ DecRef(Head(cur_fences[w]).fence)
    /\ PopJob(w)
    /\ pc' = [pc EXCEPT ![w] = "run"]
    /\ UNCHANGED <<refcount, failed, queueVars, fences, should_exit, reported,
                   semaphore>>

\* An error: neither a signal nor a dropped reference.
WorkerWaitFails(w) ==
    /\ WaitMayFail
    /\ pc[w] = "run" /\ cur_fences[w] # <<>>
    /\ failed' = [failed EXCEPT ![Head(cur_fences[w]).fence] = @ + 1]
    /\ PopJob(w)
    /\ UNCHANGED <<refcount, internal_refcount, queueVars, fences, should_exit, pc,
                   reported, semaphore>>

WorkerLoop(w) ==
    /\ pc[w] = "run" /\ cur_fences[w] = <<>>
    /\ pc' = [pc EXCEPT ![w] = "lock"]
    /\ UNCHANGED <<refVars, queueVars, fences, cur_fences, should_exit, reported,
                   semaphore>>

\* External: the GPU executes the signals of a fence in order.
Gpu(f) ==
    /\ semaphore[f] < submitted[f]
    /\ semaphore' = [semaphore EXCEPT ![f] = @ + 1]
    /\ UNCHANGED <<refVars, queueVars, workerVars>>

Caller(w) == EnqueueTimelineSemaphore(w) \/ DestroyOp(w) \/ DestroyQueue(w)

WorkerThread(w) ==
    \/ WorkerCheck(w) \/ WorkerSleep(w) \/ WorkerWoken(w)
    \/ WorkerSignal(w) \/ WorkerDecRef(w) \/ WorkerWaitFails(w) \/ WorkerLoop(w)

Next ==
    \/ \E f \in WorkerFences : \/ FenceRelease(f) \/ Gpu(f)
                         \/ \E w \in Workers : QueueSignal(w, f)
    \/ \E w \in Workers : \/ Caller(w) \/ StopWorker(w)
                          \/ WorkerThread(w) \/ SpuriousWakeup(w)

Spec == Init /\ [][Next]_vars

\* Threads that can run do, and the GPU makes progress.  Nothing forces a
\* spurious wakeup, a release or another call of the application.
FairSpec == /\ Spec
            /\ \A w \in Workers : WF_vars(WorkerThread(w)) /\ WF_vars(Caller(w))
            /\ \A f \in WorkerFences : WF_vars(Gpu(f))

-----------------------------------------------------------------------------
(* Properties.                                                             *)

\* The state has its types; a counter never passes below zero.
TypeOK ==
    /\ refcount \in [WorkerFences -> Nat]
    /\ internal_refcount \in [WorkerFences -> Nat]
    /\ ops \in [Workers -> Seq(WorkerFences)]
    /\ flush \in [Workers -> {"idle", "destroy_op"}]
    /\ fences \in [Workers -> Seq(Job)]
    /\ cur_fences \in [Workers -> Seq(Job)]
    /\ should_exit \in [Workers -> BOOLEAN]
    /\ pc \in [Workers -> {"lock", "wait", "woken", "run", "decref", "exited"}]
    /\ alive \in [Workers -> BOOLEAN]
    /\ queued \in [WorkerFences -> Nat]
    /\ submitted \in [WorkerFences -> Nat]
    /\ semaphore \in [WorkerFences -> Nat]
    /\ failed \in [WorkerFences -> Nat]
    /\ reported \in [Workers -> Seq(Job)]

\* Nobody holds a fence that was freed: the operations, the array handed to
\* the worker and the array it is going through.
NoFreedFenceHeld ==
    \A w \in Workers :
        /\ \A i \in DOMAIN ops[w] : internal_refcount[ops[w][i]] > 0
        /\ \A s \in {fences[w], cur_fences[w]} :
               \A i \in DOMAIN s : internal_refcount[s[i].fence] > 0

\* Who refers to a fence: operations, jobs that wait, and jobs that a worker has.
References(f) ==
    UNION {({<<"op", w>>} \X OpsAt(w, f)) \cup ({<<"waiting", w>>} \X JobsAt(fences[w], f))
           \cup ({<<"current", w>>} \X JobsAt(cur_fences[w], f)) : w \in Workers}

\* A fence is freed exactly when the application, the operations and the
\* workers are done with it; only a failed wait leaks a reference.
ReferencesAccounted ==
    \A f \in WorkerFences :
        internal_refcount[f] = (IF refcount[f] > 0 THEN 1 ELSE 0) + failed[f]
                               + Cardinality(References(f))

\* No signal is lost between the two arrays and no wakeup is missed: what a
\* queue hands to its worker is reported, unless the queue goes away first.
ReportsFinish ==
    \A w \in Workers :
        fences[w] \o cur_fences[w] # <<>> ~> fences[w] \o cur_fences[w] = <<>>

\* Releasing a queue does not hang in the join, whatever the worker is doing.
StopFinishes == \A w \in Workers : should_exit[w] ~> ~alive[w]

\* What the worker has still to report of a command queue, and in which order.
ToReport(w) ==
    (IF pc[w] = "decref" THEN Tail(cur_fences[w]) ELSE cur_fences[w]) \o fences[w]

AsReports(s) == [i \in DOMAIN s |-> <<s[i].fence, s[i].value>>]

ReportsPending == [w \in Workers |-> AsReports(ToReport(w))]
ReportsMade == [w \in Workers |-> AsReports(reported[w])]

\* To its queue the worker is a queue of reports, first in first out.
Reports == INSTANCE ReportQueue WITH
    Jobs <- WorkerFences \X (1 .. MaxSignals),
    pending <- ReportsPending, reported <- ReportsMade

ReportsInOrder == Reports!Spec
=============================================================================
