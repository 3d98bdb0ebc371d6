----------------------------- MODULE CommandQueue -----------------------------
(***************************************************************************)
(* struct d3d12_command_queue and the list of blocked queues of the device *)
(* (libs/vkd3d/command.c), on a device with timeline semaphores.           *)
(*                                                                         *)
(* The application queues operations from any thread.  An operation that   *)
(* finds its queue empty is flushed by the calling thread, which unlocks   *)
(* op_mutex meanwhile and works on the other one of two swapped arrays.  A *)
(* wait for a value nobody has submitted yet stops the flush and puts the  *)
(* queue on the device's blocked list; whoever raises a fence's pending    *)
(* value takes the list and flushes those queues, which may raise others.  *)
(* The C calls nest (flush_ops -> signal -> flush_blocked_queues ->        *)
(* flush_ops of another queue), so a thread is a stack of frames.          *)
(***************************************************************************)
EXTENDS VulkanQueue, SequencesExt

CONSTANTS
    Queues,         \* the ID3D12CommandQueue objects
    VkQueueOf,      \* the VkQueue of each; several may share one
    Threads,        \* the application's threads
    AppOps,         \* the operations the application puts on each queue
    AppSignals,     \* the <<fence, value>> pairs it signals from the CPU
    MaxOps,         \* bound: operations put on one queue
    MaxCpuSignals,  \* bound: CPU signals
    MaxBlocked,     \* VKD3D_MAX_DEVICE_BLOCKED_QUEUES
    SubmitMayFail   \* whether vkQueueSubmit() may fail

FenceOp == [type : {"wait", "signal", "signal_on_cpu"},
            fence : Fences, value : Values]
PlainOp == [type : {"execute", "mappings"}]
Op == FenceOp \cup PlainOp

ASSUME QueueAssumption ==
    /\ IsFiniteSet(Queues)
    /\ VkQueueOf \in [Queues -> VkQueues]
    /\ AppOps \in [Queues -> SUBSET Op]
    /\ AppSignals \subseteq Fences \X Values
    /\ MaxOps \in Nat /\ MaxCpuSignals \in Nat /\ MaxBlocked \in Nat
    /\ SubmitMayFail \in BOOLEAN

VARIABLES
    op_queue,       \* the operations queued, but not being flushed
    aux_op_queue,   \* the operations being flushed
    is_flushing,
    blocked_queues, \* device->blocked_queues
    stack,          \* the frames of the calls each thread is in, newest last
    worker,         \* what each queue's fence worker has still to wait for
    cpu_signals,    \* how many CPU signals were made
    enqueued,       \* history: the operations put on each queue
    performed       \* history: the operations of each queue that took effect

queueVars == <<op_queue, aux_op_queue, is_flushing, blocked_queues, worker,
               cpu_signals, enqueued, performed>>
vars == <<fenceVars, vulkanVars, queueVars, stack>>

-----------------------------------------------------------------------------
(***************************************************************************)
(* Frames.  "i" is the loop index of the C function; the index of          *)
(* flush_blocked_queues_once() moves on when it calls flush_ops().         *)
(***************************************************************************)
FlushFrame == [fn : {"flush_ops"}, queue : Queues,
               pc : {"op", "fixup", "submit_wait", "read_value", "submit_signal",
                     "update", "signal_flush", "enqueue", "cpu_flush"},
               i : Nat, timeline_value : Nat, flushed_any : BOOLEAN]
BlockedFrame == [fn : {"flush_blocked"}, pc : {"take", "flush"},
                 queues : Seq(Queues), i : Nat,
                 flushed_any : BOOLEAN, ok : BOOLEAN]
Frame == FlushFrame \cup BlockedFrame

FlushOps(q) == [fn |-> "flush_ops", queue |-> q, pc |-> "op", i |-> 1,
                timeline_value |-> 0, flushed_any |-> FALSE]
FlushBlockedQueues == [fn |-> "flush_blocked", pc |-> "take", queues |-> <<>>,
                       i |-> 1, flushed_any |-> FALSE, ok |-> TRUE]

Idle(t) == stack[t] = <<>>
Top(t) == stack[t][Len(stack[t])]
InFlush(t, pc) == ~Idle(t) /\ Top(t).fn = "flush_ops" /\ Top(t).pc = pc
InBlocked(t, pc) == ~Idle(t) /\ Top(t).fn = "flush_blocked" /\ Top(t).pc = pc

ReplaceTop(s, frame) == Append(Front(s), frame)
SetTop(t, frame) == stack' = [stack EXCEPT ![t] = ReplaceTop(@, frame)]
Call(t, frame, callee) ==
    stack' = [stack EXCEPT ![t] = Append(ReplaceTop(@, frame), callee)]

\* One operation is done: destroy_op() and on to the next.
OpDone(frame) == [frame EXCEPT !.pc = "op", !.i = @ + 1, !.flushed_any = TRUE]

\* The frame the callee returns to.  A failing flush_blocked_queues() makes
\* d3d12_command_queue_signal() return before it reaches the fence worker.
Resume(frame, flushed, ok) ==
    IF frame.fn = "flush_blocked"
    THEN [frame EXCEPT !.flushed_any = @ \/ flushed, !.ok = @ /\ ok]
    ELSE IF frame.pc = "signal_flush" /\ ok
         THEN [frame EXCEPT !.pc = "enqueue"]
         ELSE OpDone(frame)

Return(t, flushed, ok) ==
    LET s == Front(stack[t])
    IN  stack' = [stack EXCEPT ![t] =
            IF s = <<>> THEN s
            ELSE ReplaceTop(s, Resume(Last(s), flushed, ok))]

CurrentQueue(t) == Top(t).queue
CurrentOp(t) == aux_op_queue[CurrentQueue(t)][Top(t).i]
AtOp(t, type) == /\ InFlush(t, "op")
                 /\ Top(t).i <= Len(aux_op_queue[CurrentQueue(t)])
                 /\ CurrentOp(t).type = type

Perform(q, op) ==
    /\ performed' = [performed EXCEPT ![q] = Append(@, op)]
    /\ UNCHANGED <<op_queue, aux_op_queue, is_flushing, blocked_queues, worker,
                   cpu_signals, enqueued>>

-----------------------------------------------------------------------------
(***************************************************************************)
(* Calls of the application.                                               *)
(***************************************************************************)

\* Mutant: is_flushing is not set.
StartFlushUnmarked(q, ops) ==
    /\ op_queue' = [op_queue EXCEPT ![q] = aux_op_queue[q]]
    /\ aux_op_queue' = [aux_op_queue EXCEPT ![q] = ops]
    /\ UNCHANGED is_flushing

\* flush_ops_locked() up to the unlock: the arrays are swapped.  "ops" is the
\* content of op_queue.
StartFlush(q, ops) ==
    /\ is_flushing' = [is_flushing EXCEPT ![q] = TRUE]
    /\ op_queue' = [op_queue EXCEPT ![q] = aux_op_queue[q]]
    /\ aux_op_queue' = [aux_op_queue EXCEPT ![q] = ops]

\* Append and d3d12_command_queue_submit_locked(), under op_mutex.
Enqueue(t, q, op) ==
    LET ops == Append(op_queue[q], op)
    IN  /\ Idle(t)
        /\ op \in AppOps[q]
        /\ Len(enqueued[q]) < MaxOps
        /\ enqueued' = [enqueued EXCEPT ![q] = Append(@, op)]
        /\ IF Len(ops) = 1 /\ ~is_flushing[q]
           THEN /\ StartFlush(q, ops)
                /\ stack' = [stack EXCEPT ![t] = <<FlushOps(q)>>]
           ELSE /\ op_queue' = [op_queue EXCEPT ![q] = ops]
                /\ UNCHANGED <<aux_op_queue, is_flushing, stack>>
        /\ UNCHANGED <<blocked_queues, worker, cpu_signals, performed,
                       fenceVars, vulkanVars>>

ExecuteCommandLists(t, q) == Enqueue(t, q, [type |-> "execute"])
UpdateTileMappings(t, q) == Enqueue(t, q, [type |-> "mappings"])
QueueSignal(t, q, f, v) ==
    Enqueue(t, q, [type |-> "signal", fence |-> f, value |-> v])
QueueWait(t, q, f, v) ==
    Enqueue(t, q, [type |-> "wait", fence |-> f, value |-> v])
SignalOnCpu(t, q, f, v) ==
    Enqueue(t, q, [type |-> "signal_on_cpu", fence |-> f, value |-> v])

\* ID3D12Fence::Signal() called by the application.
FenceSignal(t, f, v) ==
    /\ Idle(t)
    /\ <<f, v>> \in AppSignals
    /\ cpu_signals < MaxCpuSignals
    /\ cpu_signals' = cpu_signals + 1
    /\ SignalCpuTimelineSemaphore(f, v)
    /\ RecordCpuValue(f, v)
    /\ stack' = [stack EXCEPT ![t] = <<FlushBlockedQueues>>]
    /\ UNCHANGED <<op_queue, aux_op_queue, is_flushing, blocked_queues, worker,
                   enqueued, performed>>

-----------------------------------------------------------------------------
(***************************************************************************)
(* d3d12_command_queue_flush_ops_locked(): one operation after the other.  *)
(***************************************************************************)

\* The value is pending: the timeline value is looked up and the fence
\* unlocked before the batch is submitted.
FlushWait(t) ==
    /\ AtOp(t, "wait")
    /\ LET op == CurrentOp(t)
       IN  /\ op.value <= fence[op.fence].max_pending_value
           /\ \E w \in WaitValues(fence[op.fence], op.value) :
                  SetTop(t, [Top(t) EXCEPT !.pc = "submit_wait",
                                           !.timeline_value = w])
    /\ UNCHANGED <<fenceVars, vulkanVars, queueVars>>

SubmitWait(t) ==
    /\ InFlush(t, "submit_wait")
    /\ LET q == CurrentQueue(t)
           op == CurrentOp(t)
       IN  /\ \/ VkQueueSubmit(VkQueueOf[q],
                     [type |-> "wait", fence |-> op.fence,
                      timeline_value |-> Top(t).timeline_value,
                      value |-> op.value])
              \/ SubmitMayFail /\ UNCHANGED vulkanVars
           /\ Perform(q, op)
    /\ SetTop(t, OpDone(Top(t)))
    /\ UNCHANGED fenceVars

\* The value is not pending.  The fence is unlocked, and only later is the
\* queue put on the blocked list.
FlushStop(t) ==
    /\ AtOp(t, "wait")
    /\ LET op == CurrentOp(t) IN op.value > fence[op.fence].max_pending_value
    /\ SetTop(t, [Top(t) EXCEPT !.pc = "fixup"])
    /\ UNCHANGED <<fenceVars, vulkanVars, queueVars>>

\* Mutants: record_as_blocked() is forgotten; the operations that were not
\* performed go behind the new ones; they stay in the auxiliary array.
Fixup(t, new, aux, blocked) ==
    LET q == CurrentQueue(t)
    IN  /\ op_queue' = [op_queue EXCEPT ![q] = new]
        /\ aux_op_queue' = [aux_op_queue EXCEPT ![q] = aux]
        /\ is_flushing' = [is_flushing EXCEPT ![q] = FALSE]
        /\ blocked_queues' = blocked
        /\ Return(t, Top(t).flushed_any, TRUE)
        /\ UNCHANGED <<fenceVars, vulkanVars, worker, cpu_signals, enqueued, performed>>

LeftOps(t) == LET aux == aux_op_queue[CurrentQueue(t)]
              IN  SubSeq(aux, Top(t).i, Len(aux))

FixupUnrecorded(t) ==
    /\ InFlush(t, "fixup")
    /\ Fixup(t, LeftOps(t) \o op_queue[CurrentQueue(t)], <<>>, blocked_queues)

FixupBehind(t) ==
    /\ InFlush(t, "fixup")
    /\ Fixup(t, op_queue[CurrentQueue(t)] \o LeftOps(t), <<>>,
             Append(blocked_queues, CurrentQueue(t)))

\* delete_aux_ops(), fixup_after_flush_locked() and record_as_blocked(): what
\* was not performed goes back in front of what was queued meanwhile.
FixupAfterFlush(t) ==
    /\ InFlush(t, "fixup")
    /\ LET q == CurrentQueue(t)
           ok == Len(blocked_queues) < MaxBlocked
           left == SubSeq(aux_op_queue[q], Top(t).i, Len(aux_op_queue[q]))
       IN  /\ op_queue' = [op_queue EXCEPT ![q] = left \o @]
           /\ aux_op_queue' = [aux_op_queue EXCEPT ![q] = <<>>]
           /\ is_flushing' = [is_flushing EXCEPT ![q] = FALSE]
           /\ blocked_queues' = IF ok THEN Append(blocked_queues, q)
                                ELSE blocked_queues
           /\ Return(t, Top(t).flushed_any, ok)
    /\ UNCHANGED <<fenceVars, vulkanVars, worker, cpu_signals, enqueued, performed>>

FlushExecute(t) ==
    /\ AtOp(t, "execute")
    /\ \/ VkQueueSubmit(VkQueueOf[CurrentQueue(t)], ExecuteBatch)
       \/ SubmitMayFail /\ UNCHANGED vulkanVars
    /\ Perform(CurrentQueue(t), CurrentOp(t))
    /\ SetTop(t, OpDone(Top(t)))
    /\ UNCHANGED fenceVars

\* Tiled resources are not supported: the operation is dropped in its turn.
FlushMappings(t) ==
    /\ AtOp(t, "mappings")
    /\ Perform(CurrentQueue(t), CurrentOp(t))
    /\ SetTop(t, OpDone(Top(t)))
    /\ UNCHANGED <<fenceVars, vulkanVars>>

\* d3d12_command_queue_signal().  add_pending_timeline_signal() returns the
\* counter as it reads it after it has unlocked the fence.
FlushSignal(t) ==
    /\ AtOp(t, "signal")
    /\ AddPendingTimelineSignal(CurrentOp(t).fence, CurrentOp(t).value)
    /\ SetTop(t, [Top(t) EXCEPT !.pc = "read_value"])
    /\ UNCHANGED <<vulkanVars, queueVars>>

\* Mutant: the value after the last one that was reported.
ReadReportedValue(t) ==
    /\ InFlush(t, "read_value")
    /\ SetTop(t, [Top(t) EXCEPT !.pc = "submit_signal",
           !.timeline_value = fence[CurrentOp(t).fence].timeline_value + 1])
    /\ UNCHANGED <<fenceVars, vulkanVars, queueVars>>

ReadTimelineValue(t) ==
    /\ InFlush(t, "read_value")
    /\ SetTop(t, [Top(t) EXCEPT !.pc = "submit_signal",
           !.timeline_value = fence[CurrentOp(t).fence].pending_timeline_value])
    /\ UNCHANGED <<fenceVars, vulkanVars, queueVars>>

\* When the submission fails, the pending signal is left behind.
SubmitSignal(t) ==
    /\ InFlush(t, "submit_signal")
    /\ LET q == CurrentQueue(t)
           op == CurrentOp(t)
       IN  /\ \/ /\ VkQueueSubmit(VkQueueOf[q],
                        [type |-> "signal", fence |-> op.fence,
                         timeline_value |-> Top(t).timeline_value,
                         value |-> op.value])
                 /\ SetTop(t, [Top(t) EXCEPT !.pc = "update"])
              \/ /\ SubmitMayFail
                 /\ SetTop(t, OpDone(Top(t)))
                 /\ UNCHANGED vulkanVars
           /\ Perform(q, op)
    /\ UNCHANGED fenceVars

\* Mutant: d3d12_device_flush_blocked_queues() is not called.
PublishWithoutFlush(t) ==
    /\ InFlush(t, "update")
    /\ UpdatePendingValue(CurrentOp(t).fence)
    /\ SetTop(t, [Top(t) EXCEPT !.pc = "enqueue"])
    /\ UNCHANGED <<vulkanVars, queueVars>>

PublishSignal(t) ==
    /\ InFlush(t, "update")
    /\ UpdatePendingValue(CurrentOp(t).fence)
    /\ Call(t, [Top(t) EXCEPT !.pc = "signal_flush"], FlushBlockedQueues)
    /\ UNCHANGED <<vulkanVars, queueVars>>

\* Mutant: the worker is not told.
EnqueueNothing(t) ==
    /\ InFlush(t, "enqueue")
    /\ SetTop(t, OpDone(Top(t)))
    /\ UNCHANGED <<fenceVars, vulkanVars, queueVars>>

EnqueueTimelineSemaphore(t) ==
    /\ InFlush(t, "enqueue")
    /\ worker' = [worker EXCEPT ![CurrentQueue(t)] =
           Append(@, [fence |-> CurrentOp(t).fence,
                      timeline_value |-> Top(t).timeline_value])]
    /\ SetTop(t, OpDone(Top(t)))
    /\ UNCHANGED <<fenceVars, vulkanVars, op_queue, aux_op_queue, is_flushing,
                   blocked_queues, cpu_signals, enqueued, performed>>

\* vkd3d_queue_signal_on_cpu() reaches its turn: ID3D12Fence::Signal().
FlushSignalOnCpu(t) ==
    /\ AtOp(t, "signal_on_cpu")
    /\ LET op == CurrentOp(t)
       IN  /\ SignalCpuTimelineSemaphore(op.fence, op.value)
           /\ RecordCpuValue(op.fence, op.value)
           /\ Perform(CurrentQueue(t), op)
    /\ Call(t, [Top(t) EXCEPT !.pc = "cpu_flush"], FlushBlockedQueues)

\* The array is done.  What was queued meanwhile is flushed next.
EndOfOps(t) ==
    /\ InFlush(t, "op")
    /\ LET q == CurrentQueue(t)
       IN  /\ Top(t).i > Len(aux_op_queue[q])
           /\ aux_op_queue' = [aux_op_queue EXCEPT ![q] = op_queue[q]]
           /\ op_queue' = [op_queue EXCEPT ![q] = <<>>]
           /\ is_flushing' = [is_flushing EXCEPT ![q] = op_queue[q] # <<>>]
           /\ IF op_queue[q] = <<>>
              THEN Return(t, Top(t).flushed_any, TRUE)
              ELSE SetTop(t, [Top(t) EXCEPT !.i = 1])
    /\ UNCHANGED <<fenceVars, vulkanVars, blocked_queues, worker, cpu_signals,
                   enqueued, performed>>

-----------------------------------------------------------------------------
(***************************************************************************)
(* d3d12_device_flush_blocked_queues().                                    *)
(***************************************************************************)

\* The list moves to a local array.
TakeBlockedQueues(t) ==
    /\ InBlocked(t, "take")
    /\ SetTop(t, [Top(t) EXCEPT !.pc = "flush", !.queues = blocked_queues,
                                !.i = 1, !.flushed_any = FALSE])
    /\ blocked_queues' = <<>>
    /\ UNCHANGED <<fenceVars, vulkanVars, op_queue, aux_op_queue, is_flushing,
                   worker, cpu_signals, enqueued, performed>>

\* flush_ops() of the next queue in the array; it returns at once when the
\* queue is being flushed or has nothing queued.
FlushNextQueue(t) ==
    /\ InBlocked(t, "flush")
    /\ Top(t).i <= Len(Top(t).queues)
    /\ LET q == Top(t).queues[Top(t).i]
           next == [Top(t) EXCEPT !.i = @ + 1]
       IN  IF is_flushing[q] \/ op_queue[q] = <<>>
           THEN /\ SetTop(t, next)
                /\ UNCHANGED <<op_queue, aux_op_queue, is_flushing>>
           ELSE /\ StartFlush(q, op_queue[q])
                /\ Call(t, next, FlushOps(q))
    /\ UNCHANGED <<fenceVars, vulkanVars, blocked_queues, worker, cpu_signals,
                   enqueued, performed>>

\* Another round when a queue made progress; a failure ends it.
EndOfRound(t) ==
    /\ InBlocked(t, "flush")
    /\ Top(t).i > Len(Top(t).queues)
    /\ IF Top(t).ok /\ Top(t).flushed_any
       THEN SetTop(t, [Top(t) EXCEPT !.pc = "take", !.queues = <<>>])
       ELSE Return(t, FALSE, Top(t).ok)
    /\ UNCHANGED <<fenceVars, vulkanVars, queueVars>>

-----------------------------------------------------------------------------
(***************************************************************************)
(* A fence worker waits for what its queue submitted, in that order, and   *)
(* reports it.                                                             *)
(***************************************************************************)
\* Mutant: the worker does not wait for the GPU.
WorkerSignalsEarly(q) ==
    /\ worker[q] # <<>>
    /\ SignalTimelineSemaphore(Head(worker[q]).fence, Head(worker[q]).timeline_value)
    /\ worker' = [worker EXCEPT ![q] = Tail(@)]
    /\ UNCHANGED <<vulkanVars, op_queue, aux_op_queue, is_flushing,
                   blocked_queues, cpu_signals, enqueued, performed, stack>>

WorkerSignal(q) ==
    /\ worker[q] # <<>>
    /\ LET w == Head(worker[q])
       IN  /\ semaphore[w.fence] >= w.timeline_value
           /\ SignalTimelineSemaphore(w.fence, w.timeline_value)
    /\ worker' = [worker EXCEPT ![q] = Tail(@)]
    /\ UNCHANGED <<vulkanVars, op_queue, aux_op_queue, is_flushing,
                   blocked_queues, cpu_signals, enqueued, performed, stack>>

Init ==
    /\ FenceInit
    /\ VulkanInit
    /\ op_queue = [q \in Queues |-> <<>>]
    /\ aux_op_queue = [q \in Queues |-> <<>>]
    /\ is_flushing = [q \in Queues |-> FALSE]
    /\ blocked_queues = <<>>
    /\ stack = [t \in Threads |-> <<>>]
    /\ worker = [q \in Queues |-> <<>>]
    /\ cpu_signals = 0
    /\ enqueued = [q \in Queues |-> <<>>]
    /\ performed = [q \in Queues |-> <<>>]

AppCall(t) ==
    \/ \E q \in Queues :
           \/ ExecuteCommandLists(t, q)
           \/ UpdateTileMappings(t, q)
           \/ \E f \in Fences, v \in Values : \/ QueueSignal(t, q, f, v)
                                              \/ QueueWait(t, q, f, v)
                                              \/ SignalOnCpu(t, q, f, v)
    \/ \E f \in Fences, v \in Values : FenceSignal(t, f, v)

ThreadStep(t) ==
    \/ FlushWait(t) \/ SubmitWait(t) \/ FlushStop(t) \/ FixupAfterFlush(t)
    \/ FlushExecute(t) \/ FlushMappings(t)
    \/ FlushSignal(t) \/ ReadTimelineValue(t) \/ SubmitSignal(t)
    \/ PublishSignal(t) \/ EnqueueTimelineSemaphore(t) \/ FlushSignalOnCpu(t)
    \/ EndOfOps(t)
    \/ TakeBlockedQueues(t) \/ FlushNextQueue(t) \/ EndOfRound(t)

Gpu(vq) == GpuNext(vq) /\ UNCHANGED <<queueVars, stack>>

Next == \/ \E t \in Threads : AppCall(t) \/ ThreadStep(t)
        \/ \E q \in Queues : WorkerSignal(q)
        \/ \E vq \in VkQueues : Gpu(vq)

Spec == Init /\ [][Next]_vars

\* A thread inside a call is scheduled, and so are the workers; the GPU
\* executes what it can.  Nothing makes the application call.
Fairness == /\ \A t \in Threads : WF_vars(ThreadStep(t))
            /\ \A q \in Queues : WF_vars(WorkerSignal(q))
            /\ \A vq \in VkQueues : WF_vars(Gpu(vq))

FairSpec == Spec /\ Fairness

-----------------------------------------------------------------------------
(***************************************************************************)
(* Properties.                                                             *)
(***************************************************************************)

\* Who is responsible for flushing q: an entry of the blocked list, an entry
\* a thread took off the list and has not come to, or a running flush.
ListHolders(q) ==
    {<<"list", j>> : j \in {j \in DOMAIN blocked_queues : blocked_queues[j] = q}}

LocalEntries(t, k) ==
    IF stack[t][k].fn = "flush_blocked"
    THEN stack[t][k].i .. Len(stack[t][k].queues) ELSE {}

LocalHolders(q) ==
    UNION {UNION {{<<"local", t, k, j>> :
        j \in {j \in LocalEntries(t, k) : stack[t][k].queues[j] = q}}
            : k \in DOMAIN stack[t]} : t \in Threads}

IsFlushOf(q, t, k) == /\ stack[t][k].fn = "flush_ops"
                      /\ stack[t][k].queue = q

FlushHolders(q) ==
    UNION {{<<"flush", t, k>> : k \in {k \in DOMAIN stack[t] : IsFlushOf(q, t, k)}}
               : t \in Threads}

Holders(q) == ListHolders(q) \cup LocalHolders(q) \cup FlushHolders(q)

\* The state has its types.
TypeOK ==
    /\ FenceTypeOK
    /\ VulkanTypeOK
    /\ op_queue \in [Queues -> Seq(Op)]
    /\ aux_op_queue \in [Queues -> Seq(Op)]
    /\ is_flushing \in [Queues -> BOOLEAN]
    /\ blocked_queues \in Seq(Queues)
    /\ stack \in [Threads -> Seq(Frame)]
    /\ worker \in [Queues -> Seq([fence : Fences, timeline_value : Nat])]
    /\ cpu_signals \in Nat
    /\ enqueued \in [Queues -> Seq(Op)]
    /\ performed \in [Queues -> Seq(Op)]

\* At most one holder, through all the lists, arrays and nested calls of all
\* threads, and is_flushing tells whether it is a flush: the operations of a
\* queue are never flushed by two calls, no queue is on the list twice, and a
\* queue taken off the list is never found flushing.  "The first call is
\* responsible for re-adding the queue to the flush list."
AtMostOneHolder ==
    \A q \in Queues : /\ \A h1, h2 \in Holders(q) : h1 = h2
                      /\ is_flushing[q] <=> FlushHolders(q) # {}

\* The operations of q that have not taken effect, in order.
Performing(frame) ==
    frame.pc \in {"update", "signal_flush", "enqueue", "cpu_flush"}

Unperformed(q) ==
    LET frames == {stack[h[2]][h[3]] : h \in FlushHolders(q)}
        first(frame) == frame.i + (IF Performing(frame) THEN 1 ELSE 0)
    IN  (IF frames = {} THEN aux_op_queue[q]
         ELSE LET frame == CHOOSE frame \in frames : TRUE
              IN  SubSeq(aux_op_queue[q], first(frame), Len(aux_op_queue[q])))
        \o op_queue[q]

\* Every operation takes effect once, in the order of the calls, whichever
\* threads flush the queue and however often it blocks: none is lost,
\* repeated or overtaken when the arrays are swapped and put together again.
\* So a signal_on_cpu comes "when all preceding work [...] has been submitted".
OpsInOrder ==
    \A q \in Queues : enqueued[q] = performed[q] \o Unperformed(q)

\* While the blocked list has room for all queues, a queue with operations
\* left is on it, in a thread's array or being flushed.
NeverOrphaned ==
    MaxBlocked >= Cardinality(Queues) =>
        \A q \in Queues : op_queue[q] # <<>> => Holders(q) # {}

\* No call is left that would flush q, though its first operation could go.
Stranded(q) ==
    /\ \A t \in Threads : Idle(t)
    /\ op_queue[q] # <<>>
    /\ LET op == Head(op_queue[q])
       IN  op.type = "wait" => op.value <= fence[op.fence].max_pending_value

\* "Flush any ops unblocked by a new pending value": when all calls have
\* returned, each queue with operations left begins with a wait for a value
\* that no queued or CPU signal has given.
NoStrandedQueue == \A q \in Queues : ~Stranded(q)

\* The GPU goes past a wait only after the fence was really given a value
\* that reaches it.
WaitsHonoured ==
    [][\A vq \in VkQueues :
          (/\ vk_queue[vq] # <<>> /\ Head(vk_queue[vq]).type = "wait"
           /\ vk_queue'[vq] = Tail(vk_queue[vq]))
          => \E v \in real_values[Head(vk_queue[vq]).fence] :
                 v >= Head(vk_queue[vq]).value]_vars

\* GetCompletedValue() never shows a value before the GPU has executed the
\* signal of it, or the CPU has made it.
CompletedValueIsReal ==
    \A f \in Fences : fence[f].value \in real_values[f]

\* "The physical value itself is monotonic": each signal the GPU executes
\* raises the timeline semaphore, as Vulkan requires.
SemaphoreRises ==
    [][\A vq \in VkQueues :
          (/\ vk_queue[vq] # <<>> /\ Head(vk_queue[vq]).type = "signal"
           /\ vk_queue'[vq] = Tail(vk_queue[vq]))
          => semaphore[Head(vk_queue[vq]).fence] < Head(vk_queue[vq]).timeline_value]_vars

\* The signal a batch waits for stands behind it in the same VkQueue.
WaitsForSuccessor(vq) ==
    /\ vk_queue[vq] # <<>>
    /\ LET b == Head(vk_queue[vq])
       IN  /\ b.type = "wait" /\ semaphore[b.fence] < b.timeline_value
           /\ \E n \in DOMAIN vk_queue[vq] :
                  LET s == vk_queue[vq][n]
                  IN  s.type = "signal" /\ s.fence = b.fence
                          /\ s.timeline_value = b.timeline_value

\* A wait is submitted after the signal it relies on: command queues that
\* share a VkQueue never stop it for good.
NoWaitBeforeItsSignal == \A vq \in VkQueues : ~WaitsForSuccessor(vq)

\* "Wait() with signaled fence" lets the queue go on: a wait for a value the
\* fence already has does not stop the VkQueue for good.
SignaledFenceLetsGo ==
    \A vq \in VkQueues :
        ~(/\ WaitsForSuccessor(vq)
          /\ Head(vk_queue[vq]).value <= fence[Head(vk_queue[vq]).fence].value)

\* A queued GPU signal is reported: the fence passes its timeline value,
\* although other queues wait in between and the worker is a thread apart.
SignalsComplete ==
    \A f \in Fences : \A n \in 1 .. MaxTimelineValue :
        (fence[f].pending_timeline_value = n) ~> (fence[f].timeline_value >= n)

\* A queue whose next operation can go does not stay where it is.
CanGo(q, n) ==
    /\ Len(performed[q]) = n
    /\ n < Len(enqueued[q])
    /\ LET op == enqueued[q][n + 1]
       IN  op.type = "wait" => op.value <= fence[op.fence].max_pending_value

ReadyQueueMoves ==
    \A q \in Queues : \A n \in 0 .. MaxOps - 1 : CanGo(q, n) ~> ~CanGo(q, n)
=============================================================================
