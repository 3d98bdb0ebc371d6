--------------------------- MODULE QueueGpu_proofs ---------------------------
(***************************************************************************)
(* Proofs about what the GPU does with the work of the command queues, for *)
(* any number of queues, VkQueues, threads, fences and operations: the     *)
(* timeline semaphores rise, the virtual values of the fences are real and *)
(* waits are honoured.  And what holds when one thread makes the calls:    *)
(* no queue is stranded, and no wait precedes its signal in a VkQueue.     *)
(*                                                                         *)
(* The argument follows a signal from d3d12_command_queue_signal(), which  *)
(* requests a timeline value and reads it back in two critical sections,   *)
(* through the VkQueue and the fence worker to the virtual value.          *)
(***************************************************************************)
EXTENDS CommandQueue_proofs

\* A fence is signalled by one queue.  Without this the code does not keep what
\* is proved here (CommandQueueTwoSignallers): two queues may submit the timeline
\* values of a fence to the GPU in the wrong order.
Signals(q, f) == \E op \in AppOps[q] : op.type = "signal" /\ op.fence = f

SingleSignaller ==
    \A f \in Fences : \A q, r \in Queues : Signals(q, f) /\ Signals(r, f) => q = r

\* The operations of a queue are those the application puts on it.
OpsFit ==
    \A q \in Queues : /\ op_queue[q] \in Seq(AppOps[q])
                      /\ aux_op_queue[q] \in Seq(AppOps[q])

\* The j-th batch of vq signals timeline value n of f.
Signalling(f, n, vq, j) ==
    /\ j \in 1 .. Len(vk_queue[vq])
    /\ vk_queue[vq][j].type = "signal"
    /\ vk_queue[vq][j].fence = f
    /\ vk_queue[vq][j].timeline_value = n

Submitted(f, n) == \E vq \in VkQueues : \E j \in Nat : Signalling(f, n, vq, j)

\* The signals of a fence are in the VkQueue of its queue in ascending order,
\* each with its virtual value, and above the counter of the semaphore.
BatchFits(f, n, vq, j) ==
    /\ \E q \in Queues : Signals(q, f) /\ vq = VkQueueOf[q]
    /\ n \in semaphore[f] + 1 .. Len(requested[f])
    /\ vk_queue[vq][j].value = requested[f][n]
    /\ \A i, m \in Nat : i < j /\ Signalling(f, m, vq, i) => m < n

BatchesFit ==
    \A f \in Fences, vq \in VkQueues : \A n, j \in Nat :
        Signalling(f, n, vq, j) => BatchFits(f, n, vq, j)

SemaphoreFits == \A f \in Fences : semaphore[f] <= Len(requested[f])

\* The last signal requested of f is on its way to the VkQueue.
Unsubmitted(f, v) ==
    /\ Len(requested[f]) > semaphore[f]
    /\ requested[f][Len(requested[f])] = v
    /\ \A n \in Nat : Submitted(f, n) => n < Len(requested[f])

\* Timeline value n of f is reached by the GPU only when its virtual value is real.
Underway(f, n) ==
    /\ n \in 1 .. Len(requested[f])
    /\ requested[f][n] \in real_values[f] \/ Submitted(f, n)

\* A wait for virtual value v of f that waits for timeline value w.
Backs(f, w, v) ==
    IF w = 0 THEN \E r \in real_values[f] : v <= r
    ELSE w \in 1 .. Len(requested[f]) /\ v <= requested[f][w]

\* A flush in the middle of an operation.
FrameFits(pc, w, op) ==
    /\ pc \in {"read_value", "submit_signal"} => Unsubmitted(op.fence, op.value)
    /\ pc = "submit_signal" => w = Len(requested[op.fence])
    /\ pc \in {"update", "signal_flush", "enqueue"} => Underway(op.fence, w)

OpOf(frame) == aux_op_queue[frame.queue][frame.i]

FramesFit ==
    \A t \in Threads : \A k \in 1 .. Len(stack[t]) :
        LET frame == stack[t][k]
        IN  frame.fn = "flush_ops" => FrameFits(frame.pc, frame.timeline_value, OpOf(frame))

JobsFit ==
    \A q \in Queues : \A k \in 1 .. Len(worker[q]) :
        Underway(worker[q][k].fence, worker[q][k].timeline_value)

\* Without failing submissions nothing that was requested is lost.
SubmittingAt(f, t, k) ==
    /\ k \in 1 .. Len(stack[t]) /\ stack[t][k].fn = "flush_ops"
    /\ stack[t][k].pc \in {"read_value", "submit_signal"}
    /\ OpOf(stack[t][k]).fence = f

Submitting(f) == \E t \in Threads : \E k \in Nat : SubmittingAt(f, t, k)

NothingLost ==
    \A f \in Fences : \A n \in 1 .. Len(requested[f]) :
        Underway(f, n) \/ (n = Len(requested[f]) /\ Submitting(f))

\* Each wait is for a value the fence really had, or for a timeline value whose
\* signal reaches it.
CallWaits(t, k) ==
    LET frame == stack[t][k]
    IN  frame.fn = "flush_ops" /\ frame.pc = "submit_wait" =>
            Backs(OpOf(frame).fence, frame.timeline_value, OpOf(frame).value)

CallsWait == \A t \in Threads : \A k \in 1 .. Len(stack[t]) : CallWaits(t, k)

BatchWaits(b) == b.type = "wait" => Backs(b.fence, b.timeline_value, b.value)

BatchesWait == \A vq \in VkQueues : \A j \in 1 .. Len(vk_queue[vq]) : BatchWaits(vk_queue[vq][j])

WaitInv == NothingLost /\ CallsWait /\ BatchesWait

-----------------------------------------------------------------------------
(***************************************************************************)
(* The operations in the arrays of a queue.                                *)
(***************************************************************************)
LEMMA AppendTo ==
    ASSUME NEW S, NEW s \in Seq(S), NEW x \in S
    PROVE  /\ Append(s, x) \in Seq(S) /\ Len(Append(s, x)) = Len(s) + 1
           /\ Append(s, x)[Len(s) + 1] = x
           /\ \A k \in 1 .. Len(s) : Append(s, x)[k] = s[k]
BY AppendProperties

LEMMA OpsStarted ==
    ASSUME OpsFit, SharedTypeOK, NEW c \in Queues, NEW ops \in Seq(AppOps[c]),
           StartFlush(c, ops)
    PROVE  OpsFit'
<1>1. /\ op_queue' = [op_queue EXCEPT ![c] = aux_op_queue[c]]
      /\ aux_op_queue' = [aux_op_queue EXCEPT ![c] = ops]
  BY DEF StartFlush
<1>2. \A q \in Queues : /\ op_queue'[q] = IF q = c THEN aux_op_queue[c] ELSE op_queue[q]
                        /\ aux_op_queue'[q] = IF q = c THEN ops ELSE aux_op_queue[q]
  BY <1>1 DEF SharedTypeOK
<1> QED BY <1>2 DEF OpsFit

LEMMA OpsStep ==
    ASSUME FlushInv, OpsFit, [Next]_vars
    PROVE  OpsFit'
<1>1. SharedTypeOK
  BY DEF FlushInv
<1>2. CASE UNCHANGED <<op_queue, aux_op_queue>>
  BY <1>2 DEF OpsFit
<1>3. ASSUME NEW t \in Threads, NEW c \in Queues, NEW op, Enqueue(t, c, op) PROVE OpsFit'
  <2> DEFINE ops == Append(op_queue[c], op)
  <2>1. op_queue[c] \in Seq(AppOps[c]) /\ op \in AppOps[c]
    BY <1>3 DEF OpsFit, Enqueue
  <2>2. ops \in Seq(AppOps[c])
    BY <2>1, AppendTo
  <2>3. \/ StartFlush(c, ops)
        \/ op_queue' = [op_queue EXCEPT ![c] = ops] /\ UNCHANGED aux_op_queue
    BY <1>3 DEF Enqueue
  <2> HIDE DEF ops
  <2>4. CASE StartFlush(c, ops)
    BY <1>1, <2>2, <2>4, OpsStarted
  <2>5. CASE op_queue' = [op_queue EXCEPT ![c] = ops] /\ UNCHANGED aux_op_queue
    <3>1. \A q \in Queues : op_queue'[q] = IF q = c THEN ops ELSE op_queue[q]
      BY <1>1, <2>5 DEF SharedTypeOK
    <3> QED BY <2>2, <2>5, <3>1 DEF OpsFit
  <2> QED BY <2>3, <2>4, <2>5
<1>4. ASSUME NEW t \in Threads, FixupAfterFlush(t) PROVE OpsFit'
  <2>1. InFlush(t, "fixup")
    BY <1>4 DEF FixupAfterFlush
  <2>2. /\ ~Idle(t) /\ Top(t).fn = "flush_ops"
        /\ Top(t).i <= Len(aux_op_queue[CurrentQueue(t)])
    BY <2>1, MidOpProperties
  <2>3. PICK c \in Queues : CurrentQueue(t) = c
    BY <2>2, FlushTop
  <2>4. PICK i \in Nat : i = Top(t).i /\ i >= 1
    BY <2>2, FlushTop
  <2>5. PICK left : left = SubSeq(aux_op_queue[c], i, Len(aux_op_queue[c]))
    OBVIOUS
  <2>6. op_queue[c] \in Seq(AppOps[c]) /\ aux_op_queue[c] \in Seq(AppOps[c])
    BY DEF OpsFit
  <2>7. left \in Seq(AppOps[c])
    <3>1. Len(aux_op_queue[c]) \in Nat /\ i <= Len(aux_op_queue[c])
      BY <2>2, <2>3, <2>4, <2>6
    <3>2. i <= Len(aux_op_queue[c]) + 1
      BY <2>4, <3>1
    <3> QED BY <2>4, <2>5, <2>6, <3>2, SuffixFrom
  <2>8. left \o op_queue[c] \in Seq(AppOps[c]) /\ <<>> \in Seq(AppOps[c])
    BY <2>6, <2>7, ConcatProperties, EmptySeq
  <2>9. /\ op_queue' = [op_queue EXCEPT ![c] = left \o op_queue[c]]
        /\ aux_op_queue' = [aux_op_queue EXCEPT ![c] = <<>>]
    BY <1>4, <2>3, <2>4, <2>5 DEF FixupAfterFlush
  <2>10. \A q \in Queues : /\ op_queue'[q] = IF q = c THEN left \o op_queue[c] ELSE op_queue[q]
                           /\ aux_op_queue'[q] = IF q = c THEN <<>> ELSE aux_op_queue[q]
    BY <1>1, <2>9 DEF SharedTypeOK
  <2> QED BY <2>8, <2>10 DEF OpsFit
<1>5. ASSUME NEW t \in Threads, EndOfOps(t) PROVE OpsFit'
  <2>1. ~Idle(t) /\ Top(t).fn = "flush_ops"
    BY <1>5 DEF EndOfOps, InFlush
  <2>2. PICK c \in Queues : CurrentQueue(t) = c
    BY <2>1, FlushTop
  <2>3. /\ aux_op_queue' = [aux_op_queue EXCEPT ![c] = op_queue[c]]
        /\ op_queue' = [op_queue EXCEPT ![c] = <<>>]
    BY <1>5, <2>2 DEF EndOfOps
  <2>4. \A q \in Queues : /\ op_queue'[q] = IF q = c THEN <<>> ELSE op_queue[q]
                          /\ aux_op_queue'[q] = IF q = c THEN op_queue[c] ELSE aux_op_queue[q]
    BY <1>1, <2>3 DEF SharedTypeOK
  <2> QED BY <2>4, EmptySeq DEF OpsFit
<1>6. ASSUME NEW t \in Threads, FlushNextQueue(t) PROVE OpsFit'
  <2>1. /\ ~Idle(t) /\ Top(t).fn = "flush_blocked" /\ Top(t).i <= Len(Top(t).queues)
    BY <1>6 DEF FlushNextQueue, InBlocked
  <2>2. Top(t).i \in Nat /\ Top(t).i >= 1 /\ Top(t).queues \in Seq(Queues)
    BY <2>1, BlockedTop
  <2>3. PICK c \in Queues : c = Top(t).queues[Top(t).i]
    BY <2>1, <2>2, ElementOfSeq
  <2>4. StartFlush(c, op_queue[c]) \/ UNCHANGED <<op_queue, aux_op_queue>>
    BY <1>6, <2>3 DEF FlushNextQueue
  <2>5. op_queue[c] \in Seq(AppOps[c])
    BY DEF OpsFit
  <2> QED BY <1>1, <1>2, <2>4, <2>5, OpsStarted
<1>7. ASSUME NEW t \in Threads, AppCall(t) PROVE OpsFit'
  <2>1. ASSUME NEW f, NEW v, FenceSignal(t, f, v) PROVE OpsFit'
    BY <1>2, <2>1 DEF FenceSignal
  <2> QED BY <1>3, <1>7, <2>1, AppCallCases
<1>8. ASSUME NEW t \in Threads, ThreadStep(t), ~FixupAfterFlush(t), ~EndOfOps(t),
             ~FlushNextQueue(t)
      PROVE  UNCHANGED <<op_queue, aux_op_queue>>
  BY <1>8 DEF ThreadStep, FlushWait, SubmitWait, FlushStop, FlushExecute,
     FlushMappings, FlushSignal, ReadTimelineValue, SubmitSignal, PublishSignal,
     EnqueueTimelineSemaphore, FlushSignalOnCpu, TakeBlockedQueues, EndOfRound,
     Perform, queueVars
<1>9. ASSUME NEW q \in Queues, WorkerSignal(q) PROVE OpsFit'
  BY <1>2, <1>9 DEF WorkerSignal
<1>10. ASSUME NEW vq \in VkQueues, Gpu(vq) PROVE OpsFit'
  BY <1>2, <1>10 DEF Gpu, queueVars
<1>11. CASE UNCHANGED vars
  BY <1>2, <1>11 DEF vars, queueVars
<1> QED BY <1>2, <1>4, <1>5, <1>6, <1>7, <1>8, <1>9, <1>10, <1>11 DEF Next

-----------------------------------------------------------------------------
(***************************************************************************)
(* What a step of thread t does to the frames in the middle of a signal or *)
(* a wait.  Only the top frame of t may change its place in the operation, *)
(* and a call that returns lets the frame below it go on.                  *)
(***************************************************************************)
MidPcs == SignalPcs \cup {"submit_wait"}
Mid(frame) == frame.fn = "flush_ops" /\ frame.pc \in MidPcs

Resumed(g, h) ==
    /\ g.fn = "flush_ops"
    /\ h.queue = g.queue /\ h.i = g.i /\ h.timeline_value = g.timeline_value
    /\ h.pc = g.pc \/ (g.pc = "signal_flush" /\ h.pc = "enqueue")

OthersStill(t) == \A u \in Threads \ {t} : stack'[u] = stack[u]

BelowRemains(t) ==
    \A k \in 1 .. Len(stack'[t]) :
        k # Len(stack[t]) /\ Mid(stack'[t][k]) =>
            k < Len(stack[t]) /\ Resumed(stack[t][k], stack'[t][k])

TopQuiet(t) ==
    Len(stack[t]) \in 1 .. Len(stack'[t]) => ~Mid(stack'[t][Len(stack[t])])

AuxKept(t) ==
    \A u \in Threads : \A k \in 1 .. Len(stack[u]) :
        (u # t \/ k # Len(stack[t])) /\ stack[u][k].fn = "flush_ops" =>
            aux_op_queue'[stack[u][k].queue] = aux_op_queue[stack[u][k].queue]

StackMoves(t) == OthersStill(t) /\ BelowRemains(t) /\ AuxKept(t)

LEMMA FlushFrameOf ==
    ASSUME SharedTypeOK, NEW u \in Threads, NEW k \in 1 .. Len(stack[u]),
           stack[u][k].fn = "flush_ops"
    PROVE  /\ stack[u][k] \in FlushFrame /\ stack[u][k].queue \in Queues
           /\ Flushed(stack[u][k].queue, u, k)
<1>1. stack[u][k] \in Frame
  BY ElementOfSeq DEF SharedTypeOK
<1>2. stack[u][k] \in FlushFrame
  BY <1>1, FrameCases
<1> QED BY <1>2 DEF FlushFrame, Flushed, Flushes

\* The auxiliary arrays of the queues that others flush stay as they are.
LEMMA AuxKeptBy ==
    ASSUME FlushInv, NEW t \in Threads, NEW c \in Queues,
           \A q \in Queues \ {c} : aux_op_queue'[q] = aux_op_queue[q],
           ~is_flushing[c] \/ Flushed(c, t, Len(stack[t]))
    PROVE  AuxKept(t)
<1> SUFFICES ASSUME NEW u \in Threads, NEW k \in 1 .. Len(stack[u]),
                    u # t \/ k # Len(stack[t]), stack[u][k].fn = "flush_ops"
             PROVE  aux_op_queue'[stack[u][k].queue] = aux_op_queue[stack[u][k].queue]
  BY DEF AuxKept
<1>1. SharedTypeOK /\ Exclusive
  BY DEF FlushInv
<1>2. PICK q \in Queues : q = stack[u][k].queue /\ Flushed(q, u, k)
  BY <1>1, FlushFrameOf
<1>3. k \in Nat /\ Len(stack[t]) \in Nat
  BY <1>1 DEF SharedTypeOK
<1>4. CASE ~is_flushing[c]
  <2>1. is_flushing[q]
    BY <1>1, <1>2, <1>3, FlushedIsFlushing
  <2> QED BY <1>2, <1>4, <2>1
<1>5. CASE Flushed(c, t, Len(stack[t]))
  <2>1. q = c => u = t /\ k = Len(stack[t])
    BY <1>1, <1>2, <1>3, <1>5, FlushedIsFlushing
  <2> QED BY <1>2, <2>1
<1> QED BY <1>4, <1>5

LEMMA AuxUnchanged ==
    ASSUME NEW t, UNCHANGED aux_op_queue
    PROVE  AuxKept(t)
BY DEF AuxKept

\* The four things a step may do to a stack.
LEMMA SetTopMoves ==
    ASSUME SharedTypeOK, NEW t \in Threads, ~Idle(t), NEW frame \in Frame, SetTop(t, frame)
    PROVE  /\ OthersStill(t) /\ BelowRemains(t)
           /\ Len(stack'[t]) = Len(stack[t]) /\ Len(stack[t]) \in 1 .. Len(stack[t])
           /\ stack'[t][Len(stack[t])] = frame
<1>1. PICK n \in Nat : n = Len(stack[t])
  BY DEF SharedTypeOK
<1>2. /\ \A u \in Threads \ {t} : stack'[u] = stack[u]
      /\ Len(stack'[t]) = n /\ stack'[t][n] = frame
      /\ \A k \in 1 .. n - 1 : stack'[t][k] = stack[t][k]
  BY <1>1, SetTopEffect
<1>3. n # 0
  BY <1>1, EmptySeq DEF SharedTypeOK, Idle
<1>4. ASSUME NEW k \in 1 .. n, k # n, Mid(stack'[t][k])
      PROVE  k < n /\ Resumed(stack[t][k], stack'[t][k])
  <2>1. k < n /\ stack'[t][k] = stack[t][k]
    BY <1>2, <1>4
  <2> QED BY <1>4, <2>1 DEF Resumed, Mid
<1> QED BY <1>1, <1>2, <1>3, <1>4 DEF OthersStill, BelowRemains

LEMMA CallMoves ==
    ASSUME SharedTypeOK, NEW t \in Threads, ~Idle(t), NEW frame \in Frame,
           NEW callee \in Frame, ~Mid(callee), Call(t, frame, callee)
    PROVE  /\ OthersStill(t) /\ BelowRemains(t)
           /\ Len(stack'[t]) = Len(stack[t]) + 1 /\ Len(stack[t]) \in 1 .. Len(stack[t])
           /\ stack'[t][Len(stack[t])] = frame
<1>1. PICK n \in Nat : n = Len(stack[t])
  BY DEF SharedTypeOK
<1>2. /\ \A u \in Threads \ {t} : stack'[u] = stack[u]
      /\ Len(stack'[t]) = n + 1 /\ stack'[t][n] = frame
      /\ \A k \in 1 .. n - 1 : stack'[t][k] = stack[t][k]
      /\ stack'[t][n + 1] = callee
  BY <1>1, CallEffect
<1>3. n # 0
  BY <1>1, EmptySeq DEF SharedTypeOK, Idle
<1>4. ASSUME NEW k \in 1 .. n + 1, k # n, Mid(stack'[t][k])
      PROVE  k < n /\ Resumed(stack[t][k], stack'[t][k])
  <2>1. k # n + 1
    BY <1>2, <1>4
  <2>2. k < n /\ stack'[t][k] = stack[t][k]
    BY <1>2, <1>4, <2>1
  <2> QED BY <1>4, <2>2 DEF Resumed, Mid
<1> QED BY <1>1, <1>2, <1>3, <1>4 DEF OthersStill, BelowRemains

LEMMA StartMoves ==
    ASSUME SharedTypeOK, NEW t \in Threads, Idle(t), NEW frame \in Frame, ~Mid(frame),
           stack' = [stack EXCEPT ![t] = <<frame>>]
    PROVE  OthersStill(t) /\ BelowRemains(t) /\ TopQuiet(t)
<1>1. /\ \A u \in Threads \ {t} : stack'[u] = stack[u]
      /\ Len(stack'[t]) = 1 /\ stack'[t][1] = frame
  BY StartEffect
<1>2. Len(stack[t]) = 0
  BY DEF Idle
<1> QED BY <1>1, <1>2 DEF OthersStill, BelowRemains, TopQuiet

\* The frame a callee returns to goes on after its call, or is done.
LEMMA ReturnMoves ==
    ASSUME FlushInv, NEW t \in Threads, ~Idle(t), NEW flushed \in BOOLEAN,
           NEW ok \in BOOLEAN, Return(t, flushed, ok)
    PROVE  OthersStill(t) /\ BelowRemains(t) /\ TopQuiet(t)
<1>1. SharedTypeOK /\ Nested /\ IndicesFit
  BY DEF FlushInv
<1>2. PICK n \in Nat : n = Len(stack[t])
  BY <1>1 DEF SharedTypeOK
<1> DEFINE g == stack[t][n - 1]
           h == Resume(g, flushed, ok)
<1>3. ASSUME n > 1
      PROVE  h \in Frame /\ (Mid(h) => Resumed(g, h))
  <2>1. /\ g \in Frame /\ g.i >= 1
        /\ IF g.fn = "flush_ops" THEN g.pc \in {"signal_flush", "cpu_flush"}
           ELSE g.pc = "flush"
    BY <1>1, <1>2, <1>3, CallerOfTop
  <2>2. CASE g.fn = "flush_ops"
    <3>1. n - 1 \in 1 .. Len(stack[t])
      BY <1>2, <1>3
    <3>2. g \in FlushFrame /\ g.queue \in Queues
      BY <1>1, <2>2, <3>1, FlushFrameOf
    <3>3. IndexFits(g, aux_op_queue[g.queue], fence) /\ aux_op_queue[g.queue] \in Seq(Op)
      BY <1>1, <2>2, <3>1, <3>2 DEF IndicesFit, SharedTypeOK
    <3>4. /\ h \in FlushFrame /\ h.queue = g.queue
      BY <2>1, <2>2, <3>2, <3>3, ResumeFlush
    <3>5. CASE g.pc = "signal_flush" /\ ok
      <4>1. h = [g EXCEPT !.pc = "enqueue"]
        BY <2>2, <3>5 DEF Resume
      <4>2. h.i = g.i /\ h.timeline_value = g.timeline_value /\ h.pc = "enqueue"
        BY <3>2, <4>1 DEF FlushFrame
      <4> QED BY <2>2, <3>4, <3>5, <4>2 DEF Resumed, Frame
    <3>6. CASE ~(g.pc = "signal_flush" /\ ok)
      <4>1. h = OpDone(g)
        BY <2>2, <3>6 DEF Resume
      <4>2. h.pc = "op"
        BY <3>2, <4>1 DEF FlushFrame, OpDone
      <4> QED BY <3>4, <4>2 DEF Mid, MidPcs, SignalPcs, Frame
    <3> QED BY <3>5, <3>6
  <2>3. CASE g.fn # "flush_ops"
    <3>1. g \in BlockedFrame
      BY <2>1, <2>3, FrameCases
    <3>2. h \in Frame /\ h.fn = "flush_blocked"
      BY <3>1, ResumeBlocked
    <3> QED BY <3>2 DEF Mid
  <2> QED BY <2>2, <2>3
<1> HIDE DEF h
<1>4. /\ \A u \in Threads \ {t} : stack'[u] = stack[u]
      /\ n > 0 /\ Len(stack'[t]) = n - 1
      /\ \A k \in 1 .. n - 2 : stack'[t][k] = stack[t][k]
      /\ n > 1 => stack'[t][n - 1] = h
  <2>1. n > 1 => Resume(stack[t][n - 1], flushed, ok) \in Frame
    BY <1>3 DEF h
  <2> QED BY <1>1, <1>2, <2>1, ReturnEffect DEF h
<1>5. ASSUME NEW k \in 1 .. n - 1, Mid(stack'[t][k])
      PROVE  k < n /\ Resumed(stack[t][k], stack'[t][k])
  <2>1. CASE k = n - 1
    BY <1>2, <1>3, <1>4, <1>5, <2>1
  <2>2. CASE k # n - 1
    <3>1. k < n /\ stack'[t][k] = stack[t][k]
      BY <1>2, <1>4, <1>5, <2>2
    <3> QED BY <1>5, <3>1 DEF Resumed, Mid
  <2> QED BY <2>1, <2>2
<1>6. n \notin 1 .. n - 1
  BY <1>2
<1> QED BY <1>2, <1>4, <1>5, <1>6 DEF OthersStill, BelowRemains, TopQuiet

-----------------------------------------------------------------------------
(***************************************************************************)
(* The steps that leave the top frame outside of a signal or a wait.       *)
(***************************************************************************)
Quiet(t) == StackMoves(t) /\ TopQuiet(t)

LEMMA QuietTop ==
    ASSUME FlushInv, NEW t \in Threads, ~Idle(t), NEW frame \in Frame, ~Mid(frame),
           SetTop(t, frame), AuxKept(t)
    PROVE  Quiet(t)
<1>1. SharedTypeOK
  BY DEF FlushInv
<1>2. /\ OthersStill(t) /\ BelowRemains(t)
      /\ stack'[t][Len(stack[t])] = frame
  BY <1>1, SetTopMoves
<1> QED BY <1>2 DEF Quiet, StackMoves, TopQuiet

LEMMA QuietDone ==
    ASSUME FlushInv, NEW t \in Threads, ~Idle(t), Top(t).fn = "flush_ops",
           SetTop(t, OpDone(Top(t))), UNCHANGED aux_op_queue
    PROVE  Quiet(t)
<1>1. Top(t) \in FlushFrame
  BY FlushTop
<1>2. PICK f : f = OpDone(Top(t))
  OBVIOUS
<1>3. f \in FlushFrame /\ f.pc = "op"
  <2>1. Top(t).i \in Nat /\ Top(t).i + 1 \in Nat
    BY <1>1 DEF FlushFrame
  <2>2. PICK g \in FlushFrame : g = Top(t)
    BY <1>1
  <2>3. OpDone(g) \in FlushFrame
    BY <2>1, <2>2 DEF OpDone, FlushFrame
  <2>4. OpDone(g).pc = "op"
    BY DEF OpDone, FlushFrame
  <2> QED BY <1>2, <2>2, <2>3, <2>4
<1>4. f \in Frame /\ ~Mid(f)
  BY <1>3 DEF Frame, Mid, MidPcs, SignalPcs
<1> QED BY <1>2, <1>4, QuietTop, AuxUnchanged

LEMMA QuietBlockedTop ==
    ASSUME FlushInv, NEW t \in Threads, ~Idle(t), NEW frame \in BlockedFrame,
           SetTop(t, frame), UNCHANGED aux_op_queue
    PROVE  Quiet(t)
<1>1. frame \in Frame /\ ~Mid(frame)
  BY DEF Frame, BlockedFrame, Mid
<1> QED BY <1>1, QuietTop, AuxUnchanged

\* The flush of a queue that is not flushing starts.
LEMMA QuietFlushes ==
    ASSUME NEW q \in Queues
    PROVE  FlushOps(q) \in Frame /\ ~Mid(FlushOps(q))
<1>1. FlushOps(q) \in FlushFrame /\ FlushOps(q).pc = "op"
  BY DEF FlushOps, FlushFrame
<1> QED BY <1>1 DEF Frame, Mid, MidPcs, SignalPcs

LEMMA QuietBlocked == FlushBlockedQueues \in Frame /\ ~Mid(FlushBlockedQueues)
BY EmptySeq DEF FlushBlockedQueues, Frame, BlockedFrame, Mid

LEMMA StartedAux ==
    ASSUME FlushInv, NEW t \in Threads, NEW c \in Queues, NEW ops, ~is_flushing[c],
           StartFlush(c, ops)
    PROVE  AuxKept(t)
<1>1. \A q \in Queues \ {c} : aux_op_queue'[q] = aux_op_queue[q]
  BY DEF StartFlush, FlushInv, SharedTypeOK
<1> QED BY <1>1, AuxKeptBy

LEMMA QuietAppCall ==
    ASSUME FlushInv, NEW t \in Threads, AppCall(t)
    PROVE  Quiet(t)
<1>1. SharedTypeOK
  BY DEF FlushInv
<1>2. ASSUME NEW c \in Queues, NEW op, Enqueue(t, c, op) PROVE Quiet(t)
  <2>1. Idle(t)
    BY <1>2 DEF Enqueue
  <2>2. CASE UNCHANGED <<aux_op_queue, stack>>
    <3>1. Len(stack[t]) = 0
      BY <2>1 DEF Idle
    <3>2. OthersStill(t) /\ BelowRemains(t) /\ TopQuiet(t)
      BY <2>2, <3>1 DEF OthersStill, BelowRemains, TopQuiet
    <3> QED BY <2>2, <3>2, AuxUnchanged DEF Quiet, StackMoves
  <2>3. CASE ~is_flushing[c] /\ (\E ops : StartFlush(c, ops))
                 /\ stack' = [stack EXCEPT ![t] = <<FlushOps(c)>>]
    <3>1. OthersStill(t) /\ BelowRemains(t) /\ TopQuiet(t)
      BY <1>1, <2>1, <2>3, QuietFlushes, StartMoves
    <3>2. AuxKept(t)
      BY <2>3, StartedAux
    <3> QED BY <3>1, <3>2 DEF Quiet, StackMoves
  <2> QED BY <1>2, <2>2, <2>3 DEF Enqueue
<1>3. ASSUME NEW f, NEW v, FenceSignal(t, f, v) PROVE Quiet(t)
  <2>1. /\ Idle(t) /\ stack' = [stack EXCEPT ![t] = <<FlushBlockedQueues>>]
        /\ UNCHANGED aux_op_queue
    BY <1>3 DEF FenceSignal
  <2>2. OthersStill(t) /\ BelowRemains(t) /\ TopQuiet(t)
    BY <1>1, <2>1, QuietBlocked, StartMoves
  <2> QED BY <2>1, <2>2, AuxUnchanged DEF Quiet, StackMoves
<1> QED BY <1>2, <1>3, AppCallCases

LEMMA QuietFlushStep ==
    ASSUME FlushInv, NEW t \in Threads,
           \/ SubmitWait(t) \/ FlushStop(t) \/ FixupAfterFlush(t)
           \/ FlushExecute(t) \/ FlushMappings(t)
           \/ SubmitSignal(t) /\ SetTop(t, OpDone(Top(t)))
           \/ EnqueueTimelineSemaphore(t) \/ FlushSignalOnCpu(t) \/ EndOfOps(t)
    PROVE  Quiet(t)
<1>1. SharedTypeOK
  BY DEF FlushInv
<1>2. CASE \/ SubmitWait(t) \/ FlushExecute(t) \/ FlushMappings(t)
           \/ SubmitSignal(t) /\ SetTop(t, OpDone(Top(t)))
           \/ EnqueueTimelineSemaphore(t)
  <2>1. SetTop(t, OpDone(Top(t))) /\ UNCHANGED aux_op_queue
    BY <1>2 DEF SubmitWait, FlushExecute, FlushMappings, SubmitSignal,
       EnqueueTimelineSemaphore, Perform
  <2>2. ~Idle(t) /\ Top(t).fn = "flush_ops"
    BY <1>2 DEF SubmitWait, FlushExecute, FlushMappings, SubmitSignal,
       EnqueueTimelineSemaphore, AtOp, InFlush
  <2> QED BY <2>1, <2>2, QuietDone
<1>3. CASE FlushStop(t)
  <2>1. ~Idle(t) /\ Top(t).fn = "flush_ops"
    BY <1>3 DEF FlushStop, AtOp, InFlush
  <2>2. Top(t) \in FlushFrame
    BY <2>1, FlushTop
  <2>3. PICK f : f = [Top(t) EXCEPT !.pc = "fixup"]
    OBVIOUS
  <2>4. f \in FlushFrame /\ f.pc = "fixup"
    BY <2>2, <2>3 DEF FlushFrame
  <2>5. f \in Frame /\ ~Mid(f)
    BY <2>4 DEF Frame, Mid, MidPcs, SignalPcs
  <2>6. SetTop(t, f) /\ UNCHANGED aux_op_queue
    BY <1>3, <2>3 DEF FlushStop, queueVars
  <2> QED BY <2>1, <2>5, <2>6, QuietTop, AuxUnchanged
<1>4. CASE FlushSignalOnCpu(t)
  <2>1. ~Idle(t) /\ Top(t).fn = "flush_ops"
    BY <1>4 DEF FlushSignalOnCpu, AtOp, InFlush
  <2>2. Top(t) \in FlushFrame
    BY <2>1, FlushTop
  <2>3. PICK f : f = [Top(t) EXCEPT !.pc = "cpu_flush"]
    OBVIOUS
  <2>4. f \in FlushFrame /\ f.pc = "cpu_flush"
    BY <2>2, <2>3 DEF FlushFrame
  <2>5. f \in Frame /\ ~Mid(f)
    BY <2>4 DEF Frame, Mid, MidPcs, SignalPcs
  <2>6. Call(t, f, FlushBlockedQueues) /\ UNCHANGED aux_op_queue
    BY <1>4, <2>3 DEF FlushSignalOnCpu, Perform
  <2>7. OthersStill(t) /\ BelowRemains(t) /\ stack'[t][Len(stack[t])] = f
    BY <1>1, <2>1, <2>5, <2>6, QuietBlocked, CallMoves
  <2> QED BY <2>5, <2>6, <2>7, AuxUnchanged DEF Quiet, StackMoves, TopQuiet
<1>5. CASE FixupAfterFlush(t) \/ EndOfOps(t)
  <2>1. ~Idle(t) /\ Top(t).fn = "flush_ops"
    BY <1>5 DEF FixupAfterFlush, EndOfOps, InFlush
  <2>2. PICK c \in Queues : c = CurrentQueue(t)
    BY <2>1, FlushTop
  <2>3. Top(t) \in FlushFrame
    BY <2>1, FlushTop
  <2>4. Flushed(c, t, Len(stack[t]))
    BY <1>1, <2>1, <2>2, TopIsFlushed
  <2>5. \E ops : aux_op_queue' = [aux_op_queue EXCEPT ![c] = ops]
    BY <1>5, <2>2 DEF FixupAfterFlush, EndOfOps
  <2>6. AuxKept(t)
    <3>1. \A q \in Queues \ {c} : aux_op_queue'[q] = aux_op_queue[q]
      BY <1>1, <2>5 DEF SharedTypeOK
    <3> QED BY <2>4, <3>1, AuxKeptBy
  <2>7. Top(t).flushed_any \in BOOLEAN
    BY <2>3 DEF FlushFrame
  <2>8. ASSUME NEW ok \in BOOLEAN, Return(t, Top(t).flushed_any, ok) PROVE Quiet(t)
    <3>1. OthersStill(t) /\ BelowRemains(t) /\ TopQuiet(t)
      BY <2>1, <2>7, <2>8, ReturnMoves
    <3> QED BY <2>6, <3>1 DEF Quiet, StackMoves
  <2>9. CASE SetTop(t, [Top(t) EXCEPT !.i = 1]) /\ EndOfOps(t)
    <3>1. PICK f : f = [Top(t) EXCEPT !.i = 1]
      OBVIOUS
    <3>2. Top(t).pc = "op"
      BY <2>9 DEF EndOfOps, InFlush
    <3>3. f \in FlushFrame /\ f.pc = "op"
      BY <2>3, <3>1, <3>2 DEF FlushFrame
    <3>4. f \in Frame /\ ~Mid(f)
      BY <3>3 DEF Frame, Mid, MidPcs, SignalPcs
    <3> QED BY <2>1, <2>6, <2>9, <3>1, <3>4, QuietTop
  <2>10. \/ \E ok \in BOOLEAN : Return(t, Top(t).flushed_any, ok)
         \/ SetTop(t, [Top(t) EXCEPT !.i = 1]) /\ EndOfOps(t)
    <3>1. CASE FixupAfterFlush(t)
      <4>1. Return(t, Top(t).flushed_any, Len(blocked_queues) < MaxBlocked)
        BY <3>1 DEF FixupAfterFlush
      <4>2. (Len(blocked_queues) < MaxBlocked) \in BOOLEAN
        OBVIOUS
      <4> QED BY <4>1, <4>2
    <3>2. CASE EndOfOps(t)
      BY <3>2 DEF EndOfOps
    <3> QED BY <1>5, <3>1, <3>2
  <2> QED BY <2>8, <2>9, <2>10
<1> QED BY <1>2, <1>3, <1>4, <1>5

LEMMA QuietBlockedStep ==
    ASSUME FlushInv, NEW t \in Threads,
           TakeBlockedQueues(t) \/ FlushNextQueue(t) \/ EndOfRound(t)
    PROVE  Quiet(t)
<1>1. SharedTypeOK
  BY DEF FlushInv
<1>2. ~Idle(t) /\ Top(t).fn = "flush_blocked"
  BY DEF TakeBlockedQueues, FlushNextQueue, EndOfRound, InBlocked
<1>3. /\ Top(t) \in BlockedFrame /\ Top(t).i \in Nat /\ Top(t).i >= 1
      /\ Top(t).queues \in Seq(Queues)
  BY <1>2, BlockedTop
<1>4. CASE TakeBlockedQueues(t)
  <2>1. PICK f : f = [Top(t) EXCEPT !.pc = "flush", !.queues = blocked_queues,
                                    !.i = 1, !.flushed_any = FALSE]
    OBVIOUS
  <2>2. f \in BlockedFrame
    BY <1>1, <1>3, <2>1 DEF BlockedFrame, SharedTypeOK
  <2>3. SetTop(t, f) /\ UNCHANGED aux_op_queue
    BY <1>4, <2>1 DEF TakeBlockedQueues
  <2> QED BY <1>2, <2>2, <2>3, QuietBlockedTop
<1>5. CASE FlushNextQueue(t)
  <2>1. PICK f : f = [Top(t) EXCEPT !.i = @ + 1]
    OBVIOUS
  <2>2. f \in BlockedFrame
    BY <1>3, <2>1 DEF BlockedFrame
  <2>3. PICK c \in Queues : c = Top(t).queues[Top(t).i]
    BY <1>3, <1>5, ElementOfSeq DEF FlushNextQueue
  <2>4. CASE SetTop(t, f) /\ UNCHANGED aux_op_queue
    BY <1>2, <2>2, <2>4, QuietBlockedTop
  <2>5. CASE /\ ~is_flushing[c] /\ StartFlush(c, op_queue[c])
             /\ Call(t, f, FlushOps(c))
    <3>1. f \in Frame /\ ~Mid(f)
      BY <2>2 DEF Frame, BlockedFrame, Mid
    <3>2. OthersStill(t) /\ BelowRemains(t) /\ stack'[t][Len(stack[t])] = f
      BY <1>1, <1>2, <2>5, <3>1, QuietFlushes, CallMoves
    <3>3. AuxKept(t)
      BY <2>5, StartedAux
    <3> QED BY <3>1, <3>2, <3>3 DEF Quiet, StackMoves, TopQuiet
  <2> QED BY <1>5, <2>1, <2>3, <2>4, <2>5 DEF FlushNextQueue
<1>6. CASE EndOfRound(t)
  <2>1. UNCHANGED aux_op_queue
    BY <1>6 DEF EndOfRound, queueVars
  <2>2. PICK f : f = [Top(t) EXCEPT !.pc = "take", !.queues = <<>>]
    OBVIOUS
  <2>3. f \in BlockedFrame
    BY <1>3, <2>2, EmptySeq DEF BlockedFrame
  <2>4. CASE SetTop(t, f)
    BY <1>2, <2>1, <2>3, <2>4, QuietBlockedTop
  <2>5. CASE Return(t, FALSE, Top(t).ok)
    <3>1. Top(t).ok \in BOOLEAN
      BY <1>3 DEF BlockedFrame
    <3>2. OthersStill(t) /\ BelowRemains(t) /\ TopQuiet(t)
      BY <1>2, <2>5, <3>1, ReturnMoves
    <3> QED BY <2>1, <3>2, AuxUnchanged DEF Quiet, StackMoves
  <2> QED BY <1>6, <2>2, <2>4, <2>5 DEF EndOfRound
<1> QED BY <1>4, <1>5, <1>6

-----------------------------------------------------------------------------
(***************************************************************************)
(* What the steps do to the signals that were requested and submitted.     *)
(***************************************************************************)
UnderwayKept == \A f \in Fences : \A n \in Nat : Underway(f, n) => Underway(f, n)'

UnsubmittedKept(f) ==
    \A v : Unsubmitted(f, v) =>
        Unsubmitted(f, v)' /\ Len(requested'[f]) = Len(requested[f])

RequestedOK == requested \in [Fences -> Seq(Values)]

\* The signals in the VkQueues stay where they are.
SameSignals ==
    \A f \in Fences, vq \in VkQueues : \A n, j \in Nat :
        /\ Signalling(f, n, vq, j)' <=> Signalling(f, n, vq, j)
        /\ Signalling(f, n, vq, j) => vk_queue'[vq][j].value = vk_queue[vq][j].value

RealGrows == \A f \in Fences : real_values[f] \subseteq real_values'[f]

LEMMA DataKept ==
    ASSUME BatchesFit, SemaphoreFits, SameSignals, RealGrows, UNCHANGED <<requested, semaphore>>
    PROVE  /\ BatchesFit' /\ SemaphoreFits'
           /\ UnderwayKept /\ \A f \in Fences : UnsubmittedKept(f)
<1>1. \A f \in Fences : \A n \in Nat : Submitted(f, n)' <=> Submitted(f, n)
  BY DEF SameSignals, Submitted
<1>2. SemaphoreFits'
  BY DEF SemaphoreFits
<1>3. BatchesFit'
  <2> SUFFICES ASSUME NEW f \in Fences, NEW vq \in VkQueues, NEW n \in Nat, NEW j \in Nat,
                      Signalling(f, n, vq, j)'
               PROVE  BatchFits(f, n, vq, j)'
    BY DEF BatchesFit
  <2>1. /\ Signalling(f, n, vq, j) /\ vk_queue'[vq][j].value = vk_queue[vq][j].value
    BY DEF SameSignals
  <2>2. BatchFits(f, n, vq, j)
    BY <2>1 DEF BatchesFit
  <2>3. \A i, m \in Nat : Signalling(f, m, vq, i)' => Signalling(f, m, vq, i)
    BY DEF SameSignals
  <2> QED BY <2>1, <2>2, <2>3 DEF BatchFits
<1>4. UnderwayKept
  BY <1>1 DEF UnderwayKept, Underway, RealGrows
<1>5. \A f \in Fences : UnsubmittedKept(f)
  BY <1>1 DEF UnsubmittedKept, Unsubmitted
<1> QED BY <1>2, <1>3, <1>4, <1>5

\* A CPU signal, or nothing.
LEMMA DataOfCpu ==
    ASSUME BatchesFit, SemaphoreFits, RealGrows, UNCHANGED <<requested, semaphore, vk_queue>>
    PROVE  /\ BatchesFit' /\ SemaphoreFits'
           /\ UnderwayKept /\ \A f \in Fences : UnsubmittedKept(f)
<1>1. SameSignals
  BY DEF SameSignals, Signalling
<1> QED BY <1>1, DataKept

\* A batch is submitted.
LEMMA Appended ==
    ASSUME VulkanTypeOK, NEW c \in VkQueues, NEW b \in Batch, VkQueueSubmit(c, b)
    PROVE  /\ \A f, n : \A vq \in VkQueues : \A j \in Nat :
                  Signalling(f, n, vq, j)' <=>
                      \/ Signalling(f, n, vq, j)
                      \/ /\ vq = c /\ j = Len(vk_queue[c]) + 1
                         /\ b.type = "signal" /\ b.fence = f /\ b.timeline_value = n
           /\ \A vq \in VkQueues : \A j \in 1 .. Len(vk_queue[vq]) :
                  vk_queue'[vq][j] = vk_queue[vq][j]
           /\ Len(vk_queue[c]) \in Nat
           /\ vk_queue'[c][Len(vk_queue[c]) + 1] = b
<1>1. vk_queue[c] \in Seq(Batch)
  BY DEF VulkanTypeOK
<1>2. PICK s \in Seq(Batch) : s = Append(vk_queue[c], b)
  BY <1>1, AppendTo
<1>3. PICK l \in Nat : l = Len(vk_queue[c])
  BY <1>1
<1>4. Len(s) = l + 1 /\ s[l + 1] = b /\ \A k \in 1 .. l : s[k] = vk_queue[c][k]
  BY <1>1, <1>2, <1>3, AppendTo
<1>5. \A vq \in VkQueues : vk_queue'[vq] = IF vq = c THEN s ELSE vk_queue[vq]
  BY <1>2 DEF VkQueueSubmit, VulkanTypeOK
<1>6. \A vq \in VkQueues : \A j \in 1 .. Len(vk_queue[vq]) :
          vk_queue'[vq][j] = vk_queue[vq][j]
  BY <1>3, <1>4, <1>5
<1>7. ASSUME NEW f, NEW n, NEW vq \in VkQueues, NEW j \in Nat
      PROVE  Signalling(f, n, vq, j)' <=>
                 \/ Signalling(f, n, vq, j)
                 \/ /\ vq = c /\ j = l + 1
                    /\ b.type = "signal" /\ b.fence = f /\ b.timeline_value = n
  <2>1. CASE vq # c
    BY <1>5, <2>1 DEF Signalling
  <2>2. CASE vq = c /\ j = l + 1
    <3>1. vk_queue'[c] = s /\ j \in 1 .. l + 1 /\ j \notin 1 .. l
      BY <1>5, <2>2
    <3> QED BY <1>3, <1>4, <2>2, <3>1 DEF Signalling
  <2>3. CASE vq = c /\ j # l + 1
    <3>1. vk_queue'[c] = s /\ (j \in 1 .. l + 1 <=> j \in 1 .. l)
      BY <1>5, <2>3
    <3> QED BY <1>3, <1>4, <2>3, <3>1 DEF Signalling
  <2> QED BY <2>1, <2>2, <2>3
<1>8. vk_queue'[c][l + 1] = b
  BY <1>4, <1>5
<1> QED BY <1>3, <1>6, <1>7, <1>8

\* A wait or command buffers.
LEMMA DataOfPlainBatch ==
    ASSUME BatchesFit, SemaphoreFits, VulkanTypeOK, NEW c \in VkQueues, NEW b \in Batch,
           b.type # "signal", VkQueueSubmit(c, b), UNCHANGED requested
    PROVE  /\ BatchesFit' /\ SemaphoreFits'
           /\ UnderwayKept /\ \A f \in Fences : UnsubmittedKept(f)
<1>1. UNCHANGED <<semaphore, real_values>>
  BY DEF VkQueueSubmit
<1>2. \A f, n : \A vq \in VkQueues : \A j \in Nat :
          Signalling(f, n, vq, j)' <=> Signalling(f, n, vq, j)
  BY Appended
<1>3. \A vq \in VkQueues : \A j \in 1 .. Len(vk_queue[vq]) :
          vk_queue'[vq][j] = vk_queue[vq][j]
  BY Appended
<1>4. SameSignals
  BY <1>2, <1>3 DEF SameSignals, Signalling
<1> QED BY <1>1, <1>4, DataKept DEF RealGrows

\* A signal is requested.
LEMMA DataOfRequest ==
    ASSUME BatchesFit, SemaphoreFits, VulkanTypeOK, RequestedOK,
           NEW f \in Fences, NEW v \in Values,
           requested' = [requested EXCEPT ![f] = Append(@, v)], UNCHANGED vulkanVars
    PROVE  /\ BatchesFit' /\ SemaphoreFits'
           /\ UnderwayKept /\ \A g \in Fences \ {f} : UnsubmittedKept(g)
           /\ Unsubmitted(f, v)'
<1>1. UNCHANGED <<vk_queue, semaphore, real_values>>
  BY DEF vulkanVars
<1>2. \A g, n : Submitted(g, n)' <=> Submitted(g, n)
  BY <1>1 DEF Submitted, Signalling
<1>3. PICK l \in Nat : l = Len(requested[f])
  BY DEF RequestedOK
<1>4. /\ Len(requested'[f]) = l + 1 /\ requested'[f][l + 1] = v
      /\ \A n \in 1 .. l : requested'[f][n] = requested[f][n]
  BY <1>3, AppendTo DEF RequestedOK
<1>5. \A g \in Fences \ {f} : requested'[g] = requested[g]
  BY DEF RequestedOK
<1>6. \A g \in Fences : semaphore[g] \in Nat /\ semaphore[g] <= Len(requested[g])
  BY DEF SemaphoreFits, VulkanTypeOK
<1>7. SemaphoreFits'
  BY <1>1, <1>3, <1>4, <1>5, <1>6 DEF SemaphoreFits
<1>8. BatchesFit'
  <2> SUFFICES ASSUME NEW g \in Fences, NEW vq \in VkQueues, NEW n \in Nat, NEW j \in Nat,
                      Signalling(g, n, vq, j)'
               PROVE  BatchFits(g, n, vq, j)'
    BY DEF BatchesFit
  <2>1. Signalling(g, n, vq, j)
    BY <1>1 DEF Signalling
  <2>2. BatchFits(g, n, vq, j)
    BY <2>1 DEF BatchesFit
  <2>3. \A i, m : Signalling(g, m, vq, i)' <=> Signalling(g, m, vq, i)
    BY <1>1 DEF Signalling
  <2>4. /\ n \in semaphore[g] + 1 .. Len(requested'[g])
        /\ requested'[g][n] = requested[g][n]
    <3>1. n \in semaphore[g] + 1 .. Len(requested[g]) /\ semaphore[g] \in Nat
      BY <1>6, <2>2 DEF BatchFits
    <3>2. CASE g = f
      <4>1. n \in 1 .. l /\ n \in semaphore[f] + 1 .. l + 1
        BY <1>3, <3>1, <3>2
      <4> QED BY <1>4, <3>2, <4>1
    <3>3. CASE g # f
      BY <1>5, <3>1, <3>3
    <3> QED BY <3>2, <3>3
  <2> QED BY <1>1, <2>2, <2>3, <2>4 DEF BatchFits
<1>9. UnderwayKept
  <2> SUFFICES ASSUME NEW g \in Fences, NEW n \in Nat, Underway(g, n)
               PROVE  Underway(g, n)'
    BY DEF UnderwayKept
  <2>1. n \in 1 .. Len(requested'[g]) /\ requested'[g][n] = requested[g][n]
    BY <1>3, <1>4, <1>5 DEF Underway
  <2> QED BY <1>1, <1>2, <2>1 DEF Underway
<1>10. \A g \in Fences \ {f} : UnsubmittedKept(g)
  BY <1>1, <1>2, <1>5 DEF UnsubmittedKept, Unsubmitted
<1>11. Unsubmitted(f, v)'
  <2>1. \A n \in Nat : Submitted(f, n)' => n < l + 1
    <3> SUFFICES ASSUME NEW n \in Nat, Submitted(f, n) PROVE n < l + 1
      BY <1>2
    <3>1. PICK vq \in VkQueues, j \in Nat : Signalling(f, n, vq, j)
      BY DEF Submitted
    <3>2. BatchFits(f, n, vq, j)
      BY <3>1 DEF BatchesFit
    <3>3. n \in semaphore[f] + 1 .. l
      BY <1>3, <3>2 DEF BatchFits
    <3> QED BY <1>6, <3>3
  <2>2. semaphore[f] < l + 1
    BY <1>3, <1>6
  <2> QED BY <1>1, <1>4, <2>1, <2>2 DEF Unsubmitted
<1> QED BY <1>7, <1>8, <1>9, <1>10, <1>11

\* The signal that was requested last is submitted.
LEMMA DataOfSignal ==
    ASSUME BatchesFit, SemaphoreFits, VulkanTypeOK, RequestedOK,
           NEW q \in Queues, NEW f \in Fences, NEW v \in Values, Signals(q, f),
           Unsubmitted(f, v), NEW n \in Nat, n = Len(requested[f]),
           VkQueueSubmit(VkQueueOf[q], [type |-> "signal", fence |-> f,
                                        timeline_value |-> n, value |-> v]),
           UNCHANGED requested
    PROVE  /\ BatchesFit' /\ SemaphoreFits'
           /\ UnderwayKept /\ \A g \in Fences \ {f} : UnsubmittedKept(g)
           /\ Underway(f, n)'
<1> DEFINE b == [type |-> "signal", fence |-> f, timeline_value |-> n, value |-> v]
<1>1. PICK c \in VkQueues : c = VkQueueOf[q]
  BY QueueAssumption
<1>2. b \in Batch /\ b.type = "signal" /\ b.fence = f /\ b.timeline_value = n /\ b.value = v
  BY DEF Batch, SemaphoreBatch
<1>3. VkQueueSubmit(c, b)
  BY <1>1
<1> HIDE DEF b
<1>4. UNCHANGED <<semaphore, real_values>>
  BY <1>3 DEF VkQueueSubmit
<1>5. PICK l \in Nat : l = Len(vk_queue[c])
  BY <1>2, <1>3, Appended
<1>6. \A g, m : \A vq \in VkQueues : \A j \in Nat :
          Signalling(g, m, vq, j)' <=>
              Signalling(g, m, vq, j) \/ (vq = c /\ j = l + 1 /\ g = f /\ m = n)
  <2>1. \A g, m : \A vq \in VkQueues : \A j \in Nat :
            Signalling(g, m, vq, j)' <=>
                \/ Signalling(g, m, vq, j)
                \/ /\ vq = c /\ j = Len(vk_queue[c]) + 1
                   /\ b.type = "signal" /\ b.fence = g /\ b.timeline_value = m
    BY <1>2, <1>3, Appended
  <2> QED BY <1>2, <1>5, <2>1
<1>7. \A vq \in VkQueues : \A j \in 1 .. Len(vk_queue[vq]) :
          vk_queue'[vq][j] = vk_queue[vq][j]
  BY <1>2, <1>3, Appended
<1>8. vk_queue'[c][l + 1] = b
  BY <1>2, <1>3, <1>5, Appended
<1>9. \A m \in Nat : Submitted(f, m) => m < n
  BY DEF Unsubmitted
<1>10. n > semaphore[f] /\ semaphore[f] \in Nat /\ requested[f][n] = v
  BY DEF Unsubmitted, VulkanTypeOK
<1>11. SemaphoreFits'
  BY <1>4 DEF SemaphoreFits
<1>12. BatchesFit'
  <2> SUFFICES ASSUME NEW g \in Fences, NEW vq \in VkQueues, NEW m \in Nat, NEW j \in Nat,
                      Signalling(g, m, vq, j)'
               PROVE  BatchFits(g, m, vq, j)'
    BY DEF BatchesFit
  <2>1. CASE Signalling(g, m, vq, j)
    <3>1. BatchFits(g, m, vq, j)
      BY <2>1 DEF BatchesFit
    <3>2. j \in 1 .. Len(vk_queue[vq])
      BY <2>1 DEF Signalling
    <3>3. vk_queue'[vq][j].value = vk_queue[vq][j].value
      BY <1>7, <3>2
    <3>4. \A i, k \in Nat : i < j /\ Signalling(g, k, vq, i)' => Signalling(g, k, vq, i)
      BY <1>5, <1>6, <3>2
    <3> QED BY <1>4, <3>1, <3>3, <3>4 DEF BatchFits
  <2>2. CASE vq = c /\ j = l + 1 /\ g = f /\ m = n
    <3>1. \A i, k \in Nat : i < j /\ Signalling(g, k, vq, i)' => k < n
      <4> SUFFICES ASSUME NEW i \in Nat, NEW k \in Nat, i < j, Signalling(g, k, vq, i)'
                   PROVE  k < n
        OBVIOUS
      <4>1. Signalling(f, k, vq, i)
        BY <1>6, <2>2
      <4> QED BY <1>9, <4>1 DEF Submitted
    <3>2. n \in semaphore[f] + 1 .. Len(requested[f])
      BY <1>10
    <3> QED BY <1>1, <1>2, <1>4, <1>8, <1>10, <2>2, <3>1, <3>2 DEF BatchFits
  <2> QED BY <1>6, <2>1, <2>2
<1>13. \A g : \A m \in Nat : Submitted(g, m)' <=> Submitted(g, m) \/ (g = f /\ m = n)
  <2>1. ASSUME NEW g, NEW m \in Nat
        PROVE  Submitted(g, m)' <=> Submitted(g, m) \/ (g = f /\ m = n)
    <3>1. l + 1 \in Nat
      OBVIOUS
    <3> QED BY <1>6, <3>1 DEF Submitted
  <2> QED BY <2>1
<1>14. UnderwayKept
  BY <1>4, <1>13 DEF UnderwayKept, Underway
<1>15. \A g \in Fences \ {f} : UnsubmittedKept(g)
  BY <1>4, <1>13 DEF UnsubmittedKept, Unsubmitted
<1>16. Underway(f, n)'
  <2>1. n \in 1 .. Len(requested[f])
    BY <1>10
  <2> QED BY <1>13, <2>1 DEF Underway
<1> QED BY <1>11, <1>12, <1>14, <1>15, <1>16

\* The GPU is done with the first batch of vq.
LEMMA Popped ==
    ASSUME VulkanTypeOK, NEW vq \in VkQueues, vk_queue[vq] # <<>>, PopBatch(vq)
    PROVE  /\ Head(vk_queue[vq]) \in Batch /\ Head(vk_queue[vq]) = vk_queue[vq][1]
           /\ Len(vk_queue[vq]) \in Nat \ {0}
           /\ Len(vk_queue'[vq]) = Len(vk_queue[vq]) - 1
           /\ \A j \in 1 .. Len(vk_queue[vq]) - 1 : vk_queue'[vq][j] = vk_queue[vq][j + 1]
           /\ \A c \in VkQueues \ {vq} : vk_queue'[c] = vk_queue[c]
<1>1. vk_queue[vq] \in Seq(Batch)
  BY DEF VulkanTypeOK
<1>2. PICK s : s = Tail(vk_queue[vq])
  OBVIOUS
<1>3. /\ Head(vk_queue[vq]) \in Batch /\ Head(vk_queue[vq]) = vk_queue[vq][1]
      /\ Len(vk_queue[vq]) \in Nat \ {0} /\ Len(s) = Len(vk_queue[vq]) - 1
      /\ \A j \in 1 .. Len(vk_queue[vq]) - 1 : s[j] = vk_queue[vq][j + 1]
  BY <1>1, <1>2, HeadTailProperties, EmptySeq
<1>4. vk_queue' = [vk_queue EXCEPT ![vq] = s]
  BY <1>2 DEF PopBatch
<1>5. vk_queue'[vq] = s /\ \A c \in VkQueues \ {vq} : vk_queue'[c] = vk_queue[c]
  BY <1>4 DEF VulkanTypeOK
<1> QED BY <1>3, <1>5

Place(vq, c, j) == IF c = vq THEN j + 1 ELSE j

LEMMA PoppedSignals ==
    ASSUME VulkanTypeOK, NEW vq \in VkQueues, vk_queue[vq] # <<>>, PopBatch(vq)
    PROVE  /\ \A f, n : \A c \in VkQueues : \A j \in Nat :
                  Signalling(f, n, c, j)' <=>
                      j >= 1 /\ Signalling(f, n, c, Place(vq, c, j))
           /\ \A c \in VkQueues : \A j \in 1 .. Len(vk_queue'[c]) :
                  /\ Place(vq, c, j) \in 1 .. Len(vk_queue[c])
                  /\ vk_queue'[c][j] = vk_queue[c][Place(vq, c, j)]
<1>1. PICK l \in Nat \ {0} : l = Len(vk_queue[vq])
  BY Popped
<1>2. /\ Len(vk_queue'[vq]) = l - 1
      /\ \A j \in 1 .. l - 1 : vk_queue'[vq][j] = vk_queue[vq][j + 1]
      /\ \A c \in VkQueues \ {vq} : vk_queue'[c] = vk_queue[c]
  BY <1>1, Popped
<1>3. \A c \in VkQueues : \A j \in 1 .. Len(vk_queue'[c]) :
          /\ Place(vq, c, j) \in 1 .. Len(vk_queue[c])
          /\ vk_queue'[c][j] = vk_queue[c][Place(vq, c, j)]
  <2> SUFFICES ASSUME NEW c \in VkQueues, NEW j \in 1 .. Len(vk_queue'[c])
               PROVE  /\ Place(vq, c, j) \in 1 .. Len(vk_queue[c])
                      /\ vk_queue'[c][j] = vk_queue[c][Place(vq, c, j)]
    OBVIOUS
  <2>1. CASE c = vq
    BY <1>1, <1>2, <2>1 DEF Place
  <2>2. CASE c # vq
    BY <1>2, <2>2 DEF Place
  <2> QED BY <2>1, <2>2
<1>4. ASSUME NEW f, NEW n, NEW c \in VkQueues, NEW j \in Nat
      PROVE  Signalling(f, n, c, j)' <=> j >= 1 /\ Signalling(f, n, c, Place(vq, c, j))
  <2>1. j \in 1 .. Len(vk_queue'[c]) <=> j >= 1 /\ Place(vq, c, j) \in 1 .. Len(vk_queue[c])
    <3>1. CASE c = vq
      BY <1>1, <1>2, <3>1 DEF Place
    <3>2. CASE c # vq
      <4>1. Len(vk_queue[c]) \in Nat
        BY DEF VulkanTypeOK
      <4> QED BY <1>2, <3>2, <4>1 DEF Place
    <3> QED BY <3>1, <3>2
  <2> QED BY <1>3, <2>1 DEF Signalling
<1> QED BY <1>3, <1>4

LEMMA DataOfGpu ==
    ASSUME SingleSignaller, BatchesFit, SemaphoreFits, VulkanTypeOK, RequestedOK,
           NEW vq \in VkQueues, GpuNext(vq), UNCHANGED requested
    PROVE  /\ BatchesFit' /\ SemaphoreFits' /\ RealGrows
           /\ UnderwayKept /\ \A f \in Fences : UnsubmittedKept(f)
<1>1. vk_queue[vq] # <<>> /\ PopBatch(vq)
  BY DEF GpuNext, GpuExecute, GpuWait, GpuSignal
<1>2. PICK h \in Batch : h = Head(vk_queue[vq]) /\ h = vk_queue[vq][1]
  BY <1>1, Popped
<1>3. 1 \in 1 .. Len(vk_queue[vq])
  BY <1>1, Popped
<1>4. \A f, n : \A c \in VkQueues : \A j \in Nat :
          Signalling(f, n, c, j)' <=> j >= 1 /\ Signalling(f, n, c, Place(vq, c, j))
  BY <1>1, PoppedSignals
<1>5. \A c \in VkQueues : \A j \in 1 .. Len(vk_queue'[c]) :
          vk_queue'[c][j] = vk_queue[c][Place(vq, c, j)]
  BY <1>1, PoppedSignals
<1>6. \A f \in Fences : semaphore[f] \in Nat
  BY DEF VulkanTypeOK
<1>7. ASSUME \A f \in Fences : \A c \in VkQueues : \A n, j \in Nat :
                 Signalling(f, n, c, j) /\ j # 1 /\ c = vq => n > semaphore'[f],
             \A f \in Fences : \A c \in VkQueues : \A n, j \in Nat :
                 Signalling(f, n, c, j) /\ c # vq => n > semaphore'[f],
             semaphore' \in [Fences -> Nat]
      PROVE  BatchesFit'
  <2> SUFFICES ASSUME NEW g \in Fences, NEW c \in VkQueues, NEW m \in Nat, NEW j \in Nat,
                      Signalling(g, m, c, j)'
               PROVE  BatchFits(g, m, c, j)'
    BY DEF BatchesFit
  <2>1. PICK p \in Nat : p = Place(vq, c, j)
    BY DEF Place
  <2>2. j >= 1 /\ Signalling(g, m, c, p)
    BY <1>4, <2>1
  <2>3. BatchFits(g, m, c, p)
    BY <2>2 DEF BatchesFit
  <2>4. m > semaphore'[g]
    <3>1. c = vq => p # 1
      BY <2>1, <2>2 DEF Place
    <3> QED BY <1>7, <2>2, <3>1
  <2>5. vk_queue'[c][j] = vk_queue[c][p]
    BY <1>5, <2>1 DEF Signalling
  <2>6. m \in semaphore'[g] + 1 .. Len(requested[g])
    <3>1. semaphore'[g] \in Nat /\ Len(requested[g]) \in Nat
      BY <1>7 DEF RequestedOK
    <3>2. m <= Len(requested[g])
      BY <1>6, <2>3 DEF BatchFits
    <3> QED BY <2>4, <3>1, <3>2
  <2>7. \A i, k \in Nat : i < j /\ Signalling(g, k, c, i)' => k < m
    <3> SUFFICES ASSUME NEW i \in Nat, NEW k \in Nat, i < j, Signalling(g, k, c, i)'
                 PROVE  k < m
      OBVIOUS
    <3>1. PICK r \in Nat : r = Place(vq, c, i) /\ r < p
      BY <2>1 DEF Place
    <3>2. Signalling(g, k, c, r)
      BY <1>4, <3>1
    <3> QED BY <2>3, <3>1, <3>2 DEF BatchFits
  <2> QED BY <2>3, <2>5, <2>6, <2>7 DEF BatchFits
<1>8. CASE GpuExecute(vq) \/ GpuWait(vq)
  <2>1. h.type # "signal" /\ UNCHANGED <<semaphore, real_values>>
    BY <1>2, <1>8 DEF GpuExecute, GpuWait
  <2>2. ASSUME NEW f \in Fences, NEW n \in Nat
        PROVE  Submitted(f, n)' <=> Submitted(f, n)
    <3>1. ASSUME NEW c \in VkQueues, NEW j \in Nat, Signalling(f, n, c, j)
          PROVE  Submitted(f, n)'
      <4>1. c = vq => j # 1
        BY <1>2, <2>1, <3>1 DEF Signalling
      <4>2. PICK i \in Nat : i >= 1 /\ j = Place(vq, c, i)
        <5>1. j >= 1
          BY <3>1 DEF Signalling
        <5>2. CASE c = vq
          <6>1. j - 1 \in Nat /\ j - 1 >= 1 /\ j = Place(vq, c, j - 1)
            BY <4>1, <5>1, <5>2 DEF Place
          <6> QED BY <6>1
        <5>3. CASE c # vq
          BY <5>1, <5>3 DEF Place
        <5> QED BY <5>2, <5>3
      <4>3. Signalling(f, n, c, i)'
        BY <1>4, <3>1, <4>2
      <4> QED BY <4>3 DEF Submitted
    <3>2. ASSUME NEW c \in VkQueues, NEW j \in Nat, Signalling(f, n, c, j)'
          PROVE  Submitted(f, n)
      <4>1. Signalling(f, n, c, Place(vq, c, j)) /\ Place(vq, c, j) \in Nat
        BY <1>4, <3>2 DEF Place
      <4> QED BY <4>1 DEF Submitted
    <3> QED BY <3>1, <3>2 DEF Submitted
  <2>3. BatchesFit'
    <3>1. \A f \in Fences : \A c \in VkQueues : \A n, j \in Nat :
              Signalling(f, n, c, j) => n > semaphore[f]
      BY <1>6 DEF BatchesFit, BatchFits
    <3> QED BY <1>7, <2>1, <3>1 DEF VulkanTypeOK
  <2>4. UnderwayKept
    BY <2>1, <2>2 DEF UnderwayKept, Underway
  <2>5. \A f \in Fences : UnsubmittedKept(f)
    BY <2>1, <2>2 DEF UnsubmittedKept, Unsubmitted
  <2> QED BY <2>1, <2>3, <2>4, <2>5 DEF SemaphoreFits, RealGrows
<1>9. CASE GpuSignal(vq)
  <2>1. h.type = "signal"
    BY <1>2, <1>9 DEF GpuSignal
  <2>2. PICK f \in Fences, n \in Nat, v \in Values :
            h.fence = f /\ h.timeline_value = n /\ h.value = v
    <3>1. h \in SemaphoreBatch
      BY <2>1 DEF Batch, ExecuteBatch
    <3> QED BY <3>1 DEF SemaphoreBatch
  <2>3. Signalling(f, n, vq, 1)
    BY <1>2, <1>3, <2>1, <2>2 DEF Signalling
  <2>4. BatchFits(f, n, vq, 1)
    BY <2>3 DEF BatchesFit
  <2>5. n \in semaphore[f] + 1 .. Len(requested[f]) /\ v = requested[f][n]
    BY <1>2, <2>2, <2>4 DEF BatchFits
  <2>6. n > semaphore[f] /\ n \in 1 .. Len(requested[f])
    BY <1>6, <2>5
  <2>7. semaphore' = [semaphore EXCEPT ![f] = n]
    BY <1>2, <1>9, <2>2, <2>6 DEF GpuSignal
  <2>8. real_values' = [real_values EXCEPT ![f] = @ \cup {v}]
    BY <1>2, <1>9, <2>2 DEF GpuSignal
  <2>9. /\ semaphore' \in [Fences -> Nat] /\ semaphore'[f] = n
        /\ \A g \in Fences \ {f} : semaphore'[g] = semaphore[g]
    BY <2>7 DEF VulkanTypeOK
  <2>10. RealGrows /\ v \in real_values'[f]
    BY <2>8 DEF VulkanTypeOK, RealGrows
  <2>11. SemaphoreFits'
    BY <2>6, <2>9 DEF SemaphoreFits
  <2>12. ASSUME NEW g \in Fences, NEW c \in VkQueues, NEW m \in Nat, NEW j \in Nat,
                Signalling(g, m, c, j), c # vq \/ j # 1
         PROVE  m > semaphore'[g]
    <3>1. BatchFits(g, m, c, j)
      BY <2>12 DEF BatchesFit
    <3>2. CASE g # f
      BY <1>6, <2>9, <3>1, <3>2 DEF BatchFits
    <3>3. CASE g = f
      <4>1. PICK q \in Queues : Signals(q, f) /\ vq = VkQueueOf[q]
        BY <2>4 DEF BatchFits
      <4>2. PICK r \in Queues : Signals(r, f) /\ c = VkQueueOf[r]
        BY <3>1, <3>3 DEF BatchFits
      <4>3. c = vq
        BY <4>1, <4>2 DEF SingleSignaller
      <4>4. 1 < j
        BY <2>12, <4>3 DEF Signalling
      <4>5. n < m
        BY <2>3, <3>1, <3>3, <4>3, <4>4 DEF BatchFits
      <4> QED BY <2>9, <3>3, <4>5
    <3> QED BY <3>2, <3>3
  <2>13. BatchesFit'
    BY <1>7, <2>9, <2>12
  <2>14. ASSUME NEW g \in Fences, NEW m \in Nat, Submitted(g, m), g # f \/ m # n
         PROVE  Submitted(g, m)'
    <3>1. PICK c \in VkQueues, j \in Nat : Signalling(g, m, c, j)
      BY <2>14 DEF Submitted
    <3>2. c = vq => j # 1
      BY <1>2, <2>2, <2>14, <3>1 DEF Signalling
    <3>3. PICK i \in Nat : i >= 1 /\ j = Place(vq, c, i)
      <4>1. j >= 1
        BY <3>1 DEF Signalling
      <4>2. CASE c = vq
        <5>1. j - 1 \in Nat /\ j - 1 >= 1 /\ j = Place(vq, c, j - 1)
          BY <3>2, <4>1, <4>2 DEF Place
        <5> QED BY <5>1
      <4>3. CASE c # vq
        BY <4>1, <4>3 DEF Place
      <4> QED BY <4>2, <4>3
    <3>4. Signalling(g, m, c, i)'
      BY <1>4, <3>1, <3>3
    <3> QED BY <3>4 DEF Submitted
  <2>15. ASSUME NEW g \in Fences, NEW m \in Nat, Submitted(g, m)'
         PROVE  Submitted(g, m)
    <3>1. PICK c \in VkQueues, j \in Nat : Signalling(g, m, c, j)'
      BY <2>15 DEF Submitted
    <3>2. Signalling(g, m, c, Place(vq, c, j)) /\ Place(vq, c, j) \in Nat
      BY <1>4, <3>1 DEF Place
    <3> QED BY <3>2 DEF Submitted
  <2>16. UnderwayKept
    BY <2>5, <2>10, <2>14 DEF UnderwayKept, Underway, RealGrows
  <2>17. ASSUME NEW g \in Fences PROVE UnsubmittedKept(g)
    <3> SUFFICES ASSUME NEW u, Unsubmitted(g, u) PROVE Unsubmitted(g, u)'
      BY DEF UnsubmittedKept
    <3>1. g = f => n < Len(requested[f])
      BY <2>3 DEF Unsubmitted, Submitted
    <3>2. Len(requested[g]) > semaphore'[g]
      BY <2>9, <3>1 DEF Unsubmitted
    <3> QED BY <2>15, <3>2 DEF Unsubmitted
  <2> QED BY <2>10, <2>11, <2>13, <2>16, <2>17
<1> QED BY <1>8, <1>9 DEF GpuNext

-----------------------------------------------------------------------------
(***************************************************************************)
(* The steps that bring the top frame further in a signal or a wait.       *)
(***************************************************************************)
\* The new top frame of t is "frame".
TopIs(t, frame) == Len(stack[t]) \in 1 .. Len(stack'[t]) /\ stack'[t][Len(stack[t])] = frame

LEMMA TopMoves ==
    ASSUME FlushInv, NEW t \in Threads, ~Idle(t), Top(t).fn = "flush_ops",
           NEW pc \in {"submit_wait", "read_value", "submit_signal", "update"},
           NEW w \in Nat,
           SetTop(t, [Top(t) EXCEPT !.pc = pc, !.timeline_value = w]),
           UNCHANGED aux_op_queue
    PROVE  StackMoves(t) /\ TopIs(t, [Top(t) EXCEPT !.pc = pc, !.timeline_value = w])
<1>1. SharedTypeOK
  BY DEF FlushInv
<1>2. PICK f : f = [Top(t) EXCEPT !.pc = pc, !.timeline_value = w]
  OBVIOUS
<1>3. f \in FlushFrame
  <2>1. Top(t) \in FlushFrame
    BY FlushTop
  <2> QED BY <1>2, <2>1 DEF FlushFrame
<1>4. f \in Frame
  BY <1>3 DEF Frame
<1>5. SetTop(t, f)
  BY <1>2
<1>6. /\ OthersStill(t) /\ BelowRemains(t)
      /\ Len(stack'[t]) = Len(stack[t]) /\ Len(stack[t]) \in 1 .. Len(stack[t])
      /\ stack'[t][Len(stack[t])] = f
  BY <1>1, <1>4, <1>5, SetTopMoves
<1>7. AuxKept(t)
  BY AuxUnchanged
<1> QED BY <1>2, <1>6, <1>7 DEF StackMoves, TopIs

LEMMA TopCalls ==
    ASSUME FlushInv, NEW t \in Threads, ~Idle(t), Top(t).fn = "flush_ops",
           Call(t, [Top(t) EXCEPT !.pc = "signal_flush"], FlushBlockedQueues),
           UNCHANGED aux_op_queue
    PROVE  StackMoves(t) /\ TopIs(t, [Top(t) EXCEPT !.pc = "signal_flush"])
<1>1. SharedTypeOK
  BY DEF FlushInv
<1>2. PICK f : f = [Top(t) EXCEPT !.pc = "signal_flush"]
  OBVIOUS
<1>3. f \in FlushFrame
  <2>1. Top(t) \in FlushFrame
    BY FlushTop
  <2> QED BY <1>2, <2>1 DEF FlushFrame
<1>4. f \in Frame
  BY <1>3 DEF Frame
<1>5. Call(t, f, FlushBlockedQueues)
  BY <1>2
<1>6. /\ OthersStill(t) /\ BelowRemains(t)
      /\ Len(stack'[t]) = Len(stack[t]) + 1 /\ Len(stack[t]) \in 1 .. Len(stack[t])
      /\ stack'[t][Len(stack[t])] = f
  BY <1>1, <1>4, <1>5, QuietBlocked, CallMoves
<1>7. AuxKept(t)
  BY AuxUnchanged
<1>8. Len(stack[t]) \in 1 .. Len(stack'[t])
  BY <1>6
<1> QED BY <1>2, <1>6, <1>7, <1>8 DEF StackMoves, TopIs

\* Only one call is in the middle of, or about to begin, a signal of a fence.
LEMMA OneSubmitter ==
    ASSUME SingleSignaller, FlushInv, OpsFit, NEW t \in Threads, ~Idle(t),
           Top(t).fn = "flush_ops", Top(t).i <= Len(aux_op_queue[CurrentQueue(t)]),
           NEW f \in Fences, CurrentOp(t).type = "signal", CurrentOp(t).fence = f,
           NEW u \in Threads, NEW k \in Nat, SubmittingAt(f, u, k)
    PROVE  u = t /\ k = Len(stack[t])
<1>1. SharedTypeOK /\ Exclusive /\ IndicesFit /\ Nested
  BY DEF FlushInv
<1>2. PICK c \in Queues : CurrentQueue(t) = c /\ Flushed(c, t, Len(stack[t]))
  BY <1>1, TopIsFlushed
<1>3. Len(stack[t]) \in Nat
  BY <1>1 DEF SharedTypeOK
<1>4. Signals(c, f)
  <2>1. Top(t).i \in Nat /\ Top(t).i >= 1 /\ aux_op_queue[c] \in Seq(AppOps[c])
    BY FlushTop DEF OpsFit
  <2>2. CurrentOp(t) \in AppOps[c]
    BY <1>2, <2>1, ElementOfSeq DEF CurrentOp
  <2> QED BY <2>2 DEF Signals
<1>5. /\ k \in 1 .. Len(stack[u]) /\ stack[u][k].fn = "flush_ops"
      /\ stack[u][k].pc \in {"read_value", "submit_signal"}
      /\ OpOf(stack[u][k]).fence = f
  BY DEF SubmittingAt
<1>6. PICK d \in Queues : d = stack[u][k].queue /\ Flushed(d, u, k)
  BY <1>1, <1>5, FlushFrameOf
<1>7. Signals(d, f)
  <2>1. PICK i \in Nat : i = stack[u][k].i /\ i >= 1
    <3>1. stack[u][k] \in FlushFrame
      BY <1>1, <1>5, FlushFrameOf
    <3>2. stack[u][k].i \in Nat
      BY <3>1 DEF FlushFrame
    <3> QED BY <1>1, <1>5, <3>2 DEF Nested
  <2>2. IndexFits(stack[u][k], aux_op_queue[d], fence)
    BY <1>1, <1>5, <1>6 DEF IndicesFit
  <2>3. i <= Len(aux_op_queue[d]) /\ aux_op_queue[d][i].type = "signal"
    BY <1>5, <2>1, <2>2 DEF IndexFits, TypeAt
  <2>4. aux_op_queue[d][i] \in AppOps[d]
    BY <2>1, <2>3, ElementOfSeq DEF OpsFit
  <2> QED BY <1>5, <1>6, <2>1, <2>3, <2>4 DEF Signals, OpOf
<1>8. c = d
  BY <1>4, <1>7 DEF SingleSignaller
<1> QED BY <1>1, <1>2, <1>3, <1>6, <1>8, FlushedIsFlushing

-----------------------------------------------------------------------------
(***************************************************************************)
(* The frames fit after a step of thread t that keeps the signals of the   *)
(* others, if the top frame of t does.                                     *)
(***************************************************************************)
OthersKept(t) ==
    \A f \in Fences : \A u \in Threads : \A k \in 1 .. Len(stack[u]) :
        (u # t \/ k # Len(stack[t])) /\ SubmittingAt(f, u, k) => UnsubmittedKept(f)

LEMMA FrameKept ==
    ASSUME UnderwayKept, NEW pc, NEW w \in Nat, NEW op,
           pc \in SignalPcs => op.fence \in Fences,
           pc \in {"read_value", "submit_signal"} => UnsubmittedKept(op.fence),
           FrameFits(pc, w, op)
    PROVE  /\ FrameFits(pc, w, op)'
           /\ pc = "signal_flush" => FrameFits("enqueue", w, op)'
<1>1. CASE pc \in {"read_value", "submit_signal"}
  <2>1. /\ Unsubmitted(op.fence, op.value)
        /\ pc = "submit_signal" => w = Len(requested[op.fence])
    BY <1>1 DEF FrameFits
  <2>2. Unsubmitted(op.fence, op.value)' /\ Len(requested'[op.fence]) = Len(requested[op.fence])
    BY <1>1, <2>1 DEF UnsubmittedKept
  <2> QED BY <1>1, <2>1, <2>2 DEF FrameFits
<1>2. CASE pc \in {"update", "signal_flush", "enqueue"}
  <2>1. Underway(op.fence, w) /\ op.fence \in Fences
    BY <1>2 DEF FrameFits, SignalPcs
  <2>2. Underway(op.fence, w)'
    BY <2>1 DEF UnderwayKept
  <2> QED BY <1>2, <2>2 DEF FrameFits
<1>3. CASE pc \notin SignalPcs
  BY <1>3 DEF FrameFits, SignalPcs
<1> QED BY <1>1, <1>2, <1>3 DEF SignalPcs

\* What FramesFit says of the k-th frame of t.
FitsAt(t, k) ==
    stack[t][k].fn = "flush_ops" =>
        FrameFits(stack[t][k].pc, stack[t][k].timeline_value, OpOf(stack[t][k]))

LEMMA FramesFitAtNext ==
    FramesFit' <=> \A t \in Threads : \A k \in 1 .. Len(stack'[t]) : FitsAt(t, k)'
BY DEF FramesFit, FitsAt

LEMMA FitsNext ==
    ASSUME NEW t, NEW k, NEW pc, NEW w, NEW op,
           stack'[t][k].pc = pc, stack'[t][k].timeline_value = w,
           aux_op_queue'[stack'[t][k].queue][stack'[t][k].i] = op, FrameFits(pc, w, op)'
    PROVE  FitsAt(t, k)'
BY DEF FitsAt, OpOf, FrameFits

LEMMA QuietFits ==
    ASSUME NEW t, NEW k, ~Mid(stack'[t][k])
    PROVE  FitsAt(t, k)'
BY DEF FitsAt, FrameFits, Mid, MidPcs, SignalPcs

\* A frame that stays, or goes on after its call.
LEMMA ResumedFits ==
    ASSUME FlushInv, FramesFit, UnderwayKept,
           NEW u \in Threads, NEW k \in 1 .. Len(stack[u]),
           Resumed(stack[u][k], stack'[u][k]),
           aux_op_queue'[stack[u][k].queue] = aux_op_queue[stack[u][k].queue],
           \A f \in Fences : SubmittingAt(f, u, k) => UnsubmittedKept(f)
    PROVE  FitsAt(u, k)'
<1>1. SharedTypeOK /\ IndicesFit
  BY DEF FlushInv
<1> DEFINE g == stack[u][k]
           h == stack'[u][k]
<1>2. /\ g.fn = "flush_ops" /\ h.queue = g.queue /\ h.i = g.i
      /\ h.timeline_value = g.timeline_value
      /\ h.pc = g.pc \/ (g.pc = "signal_flush" /\ h.pc = "enqueue")
  BY DEF Resumed
<1>3. PICK op : op = OpOf(g)
  OBVIOUS
<1>4. PICK w \in Nat : w = g.timeline_value
  <2>1. g \in FlushFrame
    BY <1>1, <1>2, FlushFrameOf
  <2> QED BY <2>1 DEF FlushFrame
<1>5. aux_op_queue'[h.queue][h.i] = op
  BY <1>2, <1>3 DEF OpOf
<1>6. PICK pc : pc = g.pc
  OBVIOUS
<1>7. FrameFits(pc, w, op)
  BY <1>2, <1>3, <1>4, <1>6 DEF FramesFit
<1>8. pc \in SignalPcs => op.fence \in Fences
  <2>1. IndexFits(g, aux_op_queue[g.queue], fence)
    BY <1>1, <1>2 DEF IndicesFit
  <2> QED BY <1>3, <1>6, <2>1 DEF IndexFits, SignalFits, OpOf
<1>9. pc \in {"read_value", "submit_signal"} => UnsubmittedKept(op.fence)
  BY <1>2, <1>3, <1>6, <1>8 DEF SubmittingAt, SignalPcs
<1>10. /\ FrameFits(pc, w, op)'
       /\ pc = "signal_flush" => FrameFits("enqueue", w, op)'
  BY <1>7, <1>8, <1>9, FrameKept
<1>11. CASE h.pc = pc
  BY <1>2, <1>4, <1>5, <1>10, <1>11, FitsNext
<1>12. CASE pc = "signal_flush" /\ h.pc = "enqueue"
  BY <1>2, <1>4, <1>5, <1>10, <1>12, FitsNext
<1> QED BY <1>2, <1>6, <1>11, <1>12

LEMMA FramesKept ==
    ASSUME FlushInv, FramesFit, NEW t \in Threads, StackMoves(t), UnderwayKept, OthersKept(t),
           \A k \in 1 .. Len(stack'[t]) : k = Len(stack[t]) => FitsAt(t, k)'
    PROVE  FramesFit'
<1>1. SharedTypeOK /\ IndicesFit
  BY DEF FlushInv
<1> SUFFICES ASSUME NEW u \in Threads, NEW k \in 1 .. Len(stack'[u]) PROVE FitsAt(u, k)'
  BY FramesFitAtNext
<1>2. CASE ~Mid(stack'[u][k])
  BY <1>2, QuietFits
<1>3. ASSUME Mid(stack'[u][k]), k \in 1 .. Len(stack[u]), u # t \/ k # Len(stack[t]),
             Resumed(stack[u][k], stack'[u][k])
      PROVE  FitsAt(u, k)'
  <2>1. stack[u][k].fn = "flush_ops"
    BY <1>3 DEF Resumed
  <2>2. aux_op_queue'[stack[u][k].queue] = aux_op_queue[stack[u][k].queue]
    BY <1>3, <2>1 DEF StackMoves, AuxKept
  <2> QED BY <1>3, <2>2, ResumedFits DEF OthersKept
<1>4. CASE Mid(stack'[u][k]) /\ u # t
  <2>1. stack'[u] = stack[u]
    BY <1>4 DEF StackMoves, OthersStill
  <2> QED BY <1>3, <1>4, <2>1 DEF Resumed, Mid
<1>5. CASE Mid(stack'[u][k]) /\ u = t /\ k # Len(stack[t])
  <2>1. k < Len(stack[t]) /\ Resumed(stack[t][k], stack'[t][k])
    BY <1>5 DEF StackMoves, BelowRemains
  <2>2. Len(stack[t]) \in Nat
    BY <1>1 DEF SharedTypeOK
  <2> QED BY <1>3, <1>5, <2>1, <2>2
<1>6. CASE u = t /\ k = Len(stack[t])
  BY <1>6
<1> QED BY <1>2, <1>4, <1>5, <1>6

\* A quiet step.
LEMMA FramesKeptQuiet ==
    ASSUME FlushInv, FramesFit, NEW t \in Threads, Quiet(t), UnderwayKept,
           \A f \in Fences : UnsubmittedKept(f)
    PROVE  FramesFit'
<1>1. OthersKept(t)
  BY DEF OthersKept
<1>2. \A k \in 1 .. Len(stack'[t]) : k = Len(stack[t]) => FitsAt(t, k)'
  BY QuietFits DEF Quiet, TopQuiet
<1> QED BY <1>1, <1>2, FramesKept DEF Quiet

\* The same after a step of the GPU or a worker.
LEMMA FramesStill ==
    ASSUME FlushInv, FramesFit, UNCHANGED <<stack, aux_op_queue>>, UnderwayKept,
           \A f \in Fences : UnsubmittedKept(f)
    PROVE  FramesFit'
<1> SUFFICES ASSUME NEW u \in Threads, NEW k \in 1 .. Len(stack'[u]) PROVE FitsAt(u, k)'
  BY FramesFitAtNext
<1>1. CASE ~Mid(stack'[u][k])
  BY <1>1, QuietFits
<1>2. CASE Mid(stack'[u][k])
  <2>1. stack'[u] = stack[u] /\ k \in 1 .. Len(stack[u])
    OBVIOUS
  <2>2. Resumed(stack[u][k], stack'[u][k])
    BY <1>2, <2>1 DEF Resumed, Mid
  <2> QED BY <2>1, <2>2, ResumedFits
<1> QED BY <1>1, <1>2

-----------------------------------------------------------------------------
(***************************************************************************)
(* The invariant of the signals and the frames, step by step.              *)
(***************************************************************************)
SignalInv == SemaphoreFits /\ BatchesFit /\ FramesFit

DataFits == /\ BatchesFit' /\ SemaphoreFits'
            /\ UnderwayKept /\ \A f \in Fences : UnsubmittedKept(f)

LEMMA SignalOfQuiet ==
    ASSUME FlushInv, SignalInv, NEW t \in Threads, Quiet(t), DataFits
    PROVE  SignalInv' /\ UnderwayKept
<1>1. FramesFit'
  BY FramesKeptQuiet DEF SignalInv, DataFits
<1> QED BY <1>1 DEF SignalInv, DataFits

LEMMA RealGrowsBy ==
    ASSUME VulkanTypeOK, NEW f \in Fences, NEW v \in Values, RecordCpuValue(f, v)
    PROVE  RealGrows /\ v \in real_values'[f] /\ UNCHANGED <<vk_queue, semaphore>>
BY DEF RecordCpuValue, VulkanTypeOK, RealGrows

LEMMA DataUnchanged ==
    ASSUME SemaphoreFits, BatchesFit, UNCHANGED <<requested, vulkanVars>>
    PROVE  DataFits
<1>1. RealGrows /\ UNCHANGED <<semaphore, vk_queue>>
  BY DEF RealGrows, vulkanVars
<1> QED BY <1>1, DataOfCpu DEF DataFits

LEMMA SignalOfAppCall ==
    ASSUME QueueInv, SignalInv, NEW t \in Threads, AppCall(t)
    PROVE  SignalInv' /\ UnderwayKept
<1>1. FlushInv /\ VulkanTypeOK
  BY DEF QueueInv, DataTypeOK
<1>2. Quiet(t)
  BY <1>1, QuietAppCall
<1>3. DataFits
  <2>1. ASSUME NEW q \in Queues, NEW op, Enqueue(t, q, op) PROVE DataFits
    BY <2>1, DataUnchanged DEF Enqueue, fenceVars, SignalInv
  <2>2. ASSUME NEW f \in Fences, NEW v \in Values, FenceSignal(t, f, v) PROVE DataFits
    <3>1. RecordCpuValue(f, v) /\ UNCHANGED requested
      BY <2>2 DEF FenceSignal, SignalCpuTimelineSemaphore
    <3> QED BY <1>1, <3>1, RealGrowsBy, DataOfCpu DEF DataFits, SignalInv
  <2> QED BY <2>1, <2>2, AppCallCases
<1> QED BY <1>1, <1>2, <1>3, SignalOfQuiet

LEMMA SignalOfQuietFlush ==
    ASSUME QueueInv, SignalInv, NEW t \in Threads,
           \/ SubmitWait(t) \/ FlushStop(t) \/ FixupAfterFlush(t)
           \/ FlushExecute(t) \/ FlushMappings(t)
           \/ SubmitSignal(t) /\ SetTop(t, OpDone(Top(t))) /\ UNCHANGED vulkanVars
           \/ EnqueueTimelineSemaphore(t) \/ FlushSignalOnCpu(t) \/ EndOfOps(t)
    PROVE  SignalInv' /\ UnderwayKept
<1>1. FlushInv /\ VulkanTypeOK /\ SemaphoreFits /\ BatchesFit
  BY DEF QueueInv, DataTypeOK, SignalInv
<1>2. Quiet(t)
  BY <1>1, QuietFlushStep
<1>3. CASE UNCHANGED <<requested, vulkanVars>>
  BY <1>1, <1>2, <1>3, DataUnchanged, SignalOfQuiet
<1>4. CASE SubmitWait(t)
  <2>1. InFlush(t, "submit_wait")
    BY <1>4 DEF SubmitWait
  <2>2. /\ ~Idle(t) /\ Top(t).fn = "flush_ops"
        /\ CurrentOp(t) \in Op /\ CurrentOp(t).type = "wait"
    BY <1>1, <2>1, MidOpProperties DEF TypeAt
  <2>3. PICK b : b = [type |-> "wait", fence |-> CurrentOp(t).fence,
                      timeline_value |-> Top(t).timeline_value, value |-> CurrentOp(t).value]
    OBVIOUS
  <2>4. b \in Batch /\ b.type # "signal"
    BY <1>1, <2>2, <2>3, BatchType
  <2>5. PICK c \in VkQueues : c = VkQueueOf[CurrentQueue(t)]
    BY <1>1, <2>2, FlushTop, QueueAssumption
  <2>6. VkQueueSubmit(c, b) \/ UNCHANGED vulkanVars
    BY <1>4, <2>3, <2>5 DEF SubmitWait
  <2>7. UNCHANGED requested
    BY <1>4 DEF SubmitWait, fenceVars
  <2>8. DataFits
    BY <1>1, <2>4, <2>6, <2>7, DataOfPlainBatch, DataUnchanged DEF DataFits
  <2> QED BY <1>1, <1>2, <2>8, SignalOfQuiet
<1>5. CASE FlushExecute(t)
  <2>1. ~Idle(t) /\ Top(t).fn = "flush_ops"
    BY <1>5 DEF FlushExecute, AtOp, InFlush
  <2>2. PICK c \in VkQueues : c = VkQueueOf[CurrentQueue(t)]
    BY <1>1, <2>1, FlushTop, QueueAssumption
  <2>3. VkQueueSubmit(c, ExecuteBatch) \/ UNCHANGED vulkanVars
    BY <1>5, <2>2 DEF FlushExecute
  <2>4. UNCHANGED requested
    BY <1>5 DEF FlushExecute, fenceVars
  <2>5. ExecuteBatch \in Batch /\ ExecuteBatch.type # "signal"
    BY DEF Batch, ExecuteBatch
  <2>6. DataFits
    BY <1>1, <2>3, <2>4, <2>5, DataOfPlainBatch, DataUnchanged DEF DataFits
  <2> QED BY <1>1, <1>2, <2>6, SignalOfQuiet
<1>6. CASE FlushSignalOnCpu(t)
  <2>1. AtOp(t, "signal_on_cpu")
    BY <1>6 DEF FlushSignalOnCpu
  <2>2. CurrentOp(t) \in Op /\ CurrentOp(t).type = "signal_on_cpu"
    BY <1>1, <2>1, AtOpProperties
  <2>3. PICK f \in Fences, v \in Values : f = CurrentOp(t).fence /\ v = CurrentOp(t).value
    BY <1>1, <2>2, SignalOpType
  <2>4. RecordCpuValue(f, v) /\ UNCHANGED requested
    BY <1>6, <2>3 DEF FlushSignalOnCpu, SignalCpuTimelineSemaphore
  <2>5. DataFits
    BY <1>1, <2>4, RealGrowsBy, DataOfCpu DEF DataFits
  <2> QED BY <1>1, <1>2, <2>5, SignalOfQuiet
<1>7. CASE \/ FlushStop(t) \/ FixupAfterFlush(t) \/ FlushMappings(t)
           \/ SubmitSignal(t) /\ UNCHANGED vulkanVars
           \/ EnqueueTimelineSemaphore(t) \/ EndOfOps(t)
  BY <1>3, <1>7 DEF FlushStop, FixupAfterFlush, FlushMappings, SubmitSignal,
     EnqueueTimelineSemaphore, EndOfOps, fenceVars
<1> QED BY <1>4, <1>5, <1>6, <1>7

LEMMA SignalOfBlocked ==
    ASSUME QueueInv, SignalInv, NEW t \in Threads,
           TakeBlockedQueues(t) \/ FlushNextQueue(t) \/ EndOfRound(t)
    PROVE  SignalInv' /\ UnderwayKept
<1>1. FlushInv /\ SemaphoreFits /\ BatchesFit
  BY DEF QueueInv, SignalInv
<1>2. Quiet(t)
  BY <1>1, QuietBlockedStep
<1>3. UNCHANGED <<requested, vulkanVars>>
  BY DEF TakeBlockedQueues, FlushNextQueue, EndOfRound, fenceVars
<1> QED BY <1>1, <1>2, <1>3, DataUnchanged, SignalOfQuiet

\* The steps that move the top frame on, when the operation it is at still fits.
LEMMA SignalOfTop ==
    ASSUME FlushInv, SignalInv, NEW t \in Threads, ~Idle(t), Top(t).fn = "flush_ops",
           NEW frame, StackMoves(t), TopIs(t, frame), UNCHANGED aux_op_queue,
           frame.queue = CurrentQueue(t), frame.i = Top(t).i,
           NEW op, op = CurrentOp(t), NEW pc, pc = frame.pc, NEW w, w = frame.timeline_value,
           FrameFits(pc, w, op)', BatchesFit', SemaphoreFits', UnderwayKept, OthersKept(t)
    PROVE  SignalInv' /\ UnderwayKept
<1>1. ASSUME NEW k \in 1 .. Len(stack'[t]), k = Len(stack[t]) PROVE FitsAt(t, k)'
  <2>1. stack'[t][k] = frame
    BY <1>1 DEF TopIs
  <2>2. aux_op_queue'[stack'[t][k].queue][stack'[t][k].i] = op
    BY <2>1 DEF CurrentOp
  <2> QED BY <2>1, <2>2, FitsNext
<1>2. FramesFit'
  BY <1>1, FramesKept DEF SignalInv
<1> QED BY <1>2 DEF SignalInv

\* A wait is looked up.
LEMMA SignalOfFlushWait ==
    ASSUME QueueInv, SignalInv, NEW t \in Threads, FlushWait(t)
    PROVE  SignalInv' /\ UnderwayKept
<1>1. FlushInv /\ FenceTypeOK /\ SemaphoreFits /\ BatchesFit
  BY DEF QueueInv, TypeInv, SignalInv
<1>2. AtOp(t, "wait")
  BY DEF FlushWait
<1>3. /\ ~Idle(t) /\ Top(t).fn = "flush_ops"
      /\ CurrentOp(t) \in Op /\ CurrentOp(t).type = "wait"
  BY <1>1, <1>2, AtOpProperties
<1>4. CurrentOp(t).fence \in Fences
  BY <1>1, <1>3, SignalOpType
<1>5. PICK w \in WaitValues(fence[CurrentOp(t).fence], CurrentOp(t).value) :
          SetTop(t, [Top(t) EXCEPT !.pc = "submit_wait", !.timeline_value = w])
  BY DEF FlushWait
<1>6. w \in Nat
  BY <1>1, <1>4, <1>5, WaitValueType DEF FenceTypeOK
<1>7. PICK frame : frame = [Top(t) EXCEPT !.pc = "submit_wait", !.timeline_value = w]
  OBVIOUS
<1>8. UNCHANGED <<aux_op_queue, requested, vulkanVars>>
  BY DEF FlushWait, queueVars, fenceVars
<1>9. StackMoves(t) /\ TopIs(t, frame)
  BY <1>1, <1>3, <1>5, <1>6, <1>7, <1>8, TopMoves
<1>10. /\ frame.pc = "submit_wait" /\ frame.timeline_value = w
       /\ frame.queue = CurrentQueue(t) /\ frame.i = Top(t).i
  <2>1. Top(t) \in FlushFrame /\ Top(t).queue = CurrentQueue(t)
    BY <1>1, <1>3, FlushTop
  <2> QED BY <1>7, <2>1 DEF FlushFrame
<1>11. DataFits
  BY <1>1, <1>8, DataUnchanged
<1>12. OthersKept(t)
  BY <1>11 DEF DataFits, OthersKept
<1>13. PICK op : op = CurrentOp(t)
  OBVIOUS
<1>14. FrameFits("submit_wait", w, op)'
  BY DEF FrameFits
<1> QED BY <1>1, <1>3, <1>8, <1>9, <1>10, <1>11, <1>12, <1>13, <1>14, SignalOfTop DEF DataFits

\* A signal is requested.
LEMMA SignalOfRequest ==
    ASSUME SingleSignaller, QueueInv, OpsFit, SignalInv, NEW t \in Threads, FlushSignal(t)
    PROVE  SignalInv' /\ UnderwayKept
<1>1. /\ FlushInv /\ FenceTypeOK /\ VulkanTypeOK /\ RequestedOK
      /\ SemaphoreFits /\ BatchesFit
  BY DEF QueueInv, TypeInv, SignalInv, DataTypeOK, FenceTypeOK, RequestedOK
<1>2. AtOp(t, "signal")
  BY DEF FlushSignal
<1>3. /\ ~Idle(t) /\ Top(t).fn = "flush_ops"
      /\ Top(t).i <= Len(aux_op_queue[CurrentQueue(t)])
      /\ CurrentOp(t) \in Op /\ CurrentOp(t).type = "signal"
  BY <1>1, <1>2, AtOpProperties
<1>4. PICK op : op = CurrentOp(t)
  OBVIOUS
<1>5. PICK f \in Fences, v \in Values : op.fence = f /\ op.value = v
  BY <1>1, <1>3, <1>4, SignalOpType
<1>6. /\ requested' = [requested EXCEPT ![f] = Append(@, v)]
      /\ UNCHANGED <<aux_op_queue, vulkanVars>>
      /\ SetTop(t, [Top(t) EXCEPT !.pc = "read_value"])
  BY <1>4, <1>5 DEF FlushSignal, AddPendingTimelineSignal, queueVars
<1>7. /\ BatchesFit' /\ SemaphoreFits' /\ UnderwayKept
      /\ \A g \in Fences \ {f} : UnsubmittedKept(g)
      /\ Unsubmitted(f, v)'
  BY <1>1, <1>6, DataOfRequest
<1>8. PICK w \in Nat : w = Top(t).timeline_value
  BY <1>1, <1>3, FlushTop DEF FlushFrame
<1>9. [Top(t) EXCEPT !.pc = "read_value"]
          = [Top(t) EXCEPT !.pc = "read_value", !.timeline_value = w]
  <2>1. Top(t) \in FlushFrame
    BY <1>1, <1>3, FlushTop
  <2> QED BY <1>8, <2>1 DEF FlushFrame
<1>10. PICK frame : frame = [Top(t) EXCEPT !.pc = "read_value", !.timeline_value = w]
  OBVIOUS
<1>11. StackMoves(t) /\ TopIs(t, frame)
  BY <1>1, <1>3, <1>6, <1>8, <1>9, <1>10, TopMoves
<1>12. /\ frame.pc = "read_value" /\ frame.timeline_value = w
       /\ frame.queue = CurrentQueue(t) /\ frame.i = Top(t).i
  <2>1. Top(t) \in FlushFrame /\ Top(t).queue = CurrentQueue(t)
    BY <1>1, <1>3, FlushTop
  <2> QED BY <1>10, <2>1 DEF FlushFrame
<1>13. OthersKept(t)
  <2> SUFFICES ASSUME NEW g \in Fences, NEW u \in Threads, NEW k \in 1 .. Len(stack[u]),
                      u # t \/ k # Len(stack[t]), SubmittingAt(g, u, k)
               PROVE  UnsubmittedKept(g)
    BY DEF OthersKept
  <2>1. g # f
    BY <1>1, <1>3, <1>4, <1>5, OneSubmitter
  <2> QED BY <1>7, <2>1
<1>14. FrameFits("read_value", w, op)'
  BY <1>5, <1>7 DEF FrameFits
<1> QED BY <1>1, <1>3, <1>4, <1>6, <1>7, <1>11, <1>12, <1>13, <1>14, SignalOfTop

\* What a call that submits a signal knows of it.
LEMMA TopFits ==
    ASSUME FlushInv, FramesFit, NEW t \in Threads, NEW pc, InFlush(t, pc)
    PROVE  FrameFits(pc, Top(t).timeline_value, CurrentOp(t))
<1>1. ~Idle(t) /\ Top(t).fn = "flush_ops" /\ Top(t).pc = pc
  BY DEF InFlush
<1>2. Len(stack[t]) \in 1 .. Len(stack[t])
  BY <1>1, TopIsFlushed DEF FlushInv
<1> QED BY <1>1, <1>2 DEF FramesFit, Top, OpOf, CurrentOp, CurrentQueue

\* The timeline value of the signal is read back.
LEMMA SignalOfRead ==
    ASSUME QueueInv, Inv, SignalInv, NEW t \in Threads, ReadTimelineValue(t)
    PROVE  SignalInv' /\ UnderwayKept
<1>1. FlushInv /\ SemaphoreFits /\ BatchesFit /\ FramesFit
  BY DEF QueueInv, SignalInv
<1>2. InFlush(t, "read_value")
  BY DEF ReadTimelineValue
<1>3. ~Idle(t) /\ Top(t).fn = "flush_ops"
  BY <1>2 DEF InFlush
<1>4. PICK op : op = CurrentOp(t)
  OBVIOUS
<1>5. PICK f \in Fences : op.fence = f
  BY <1>1, <1>2, <1>4, MidOpSignal DEF SignalFits, SignalPcs
<1>6. PICK w \in Nat : w = fence[f].pending_timeline_value /\ w = Len(requested[f])
  <2>1. fence[f] \in FenceRecord /\ Kept(fence[f], requested[f])
    BY DEF Inv, TypeInv, FenceTypeOK, GoodFence
  <2> QED BY <2>1 DEF Kept, FenceRecord
<1>7. Unsubmitted(f, op.value)
  BY <1>1, <1>2, <1>4, <1>5, TopFits DEF FrameFits
<1>8. /\ SetTop(t, [Top(t) EXCEPT !.pc = "submit_signal", !.timeline_value = w])
      /\ UNCHANGED <<aux_op_queue, requested, vulkanVars>>
  BY <1>4, <1>5, <1>6 DEF ReadTimelineValue, queueVars, fenceVars
<1>9. PICK frame : frame = [Top(t) EXCEPT !.pc = "submit_signal", !.timeline_value = w]
  OBVIOUS
<1>10. StackMoves(t) /\ TopIs(t, frame)
  BY <1>1, <1>3, <1>8, <1>9, TopMoves
<1>11. /\ frame.pc = "submit_signal" /\ frame.timeline_value = w
       /\ frame.queue = CurrentQueue(t) /\ frame.i = Top(t).i
  <2>1. Top(t) \in FlushFrame /\ Top(t).queue = CurrentQueue(t)
    BY <1>1, <1>3, FlushTop
  <2> QED BY <1>9, <2>1 DEF FlushFrame
<1>12. DataFits
  BY <1>1, <1>8, DataUnchanged
<1>13. OthersKept(t)
  BY <1>12 DEF DataFits, OthersKept
<1>14. FrameFits("submit_signal", w, op)'
  <2>1. Unsubmitted(f, op.value)'
    BY <1>7, <1>12 DEF DataFits, UnsubmittedKept
  <2> QED BY <1>5, <1>6, <1>8, <2>1 DEF FrameFits
<1> QED BY <1>1, <1>3, <1>4, <1>8, <1>10, <1>11, <1>12, <1>13, <1>14, SignalOfTop DEF DataFits

\* The signal is submitted.
LEMMA SignalOfSubmit ==
    ASSUME SingleSignaller, QueueInv, OpsFit, SignalInv, NEW t \in Threads, SubmitSignal(t)
    PROVE  SignalInv' /\ UnderwayKept
<1>1. /\ FlushInv /\ FenceTypeOK /\ VulkanTypeOK /\ RequestedOK
      /\ SemaphoreFits /\ BatchesFit /\ FramesFit
  BY DEF QueueInv, TypeInv, SignalInv, DataTypeOK, FenceTypeOK, RequestedOK
<1>2. InFlush(t, "submit_signal")
  BY DEF SubmitSignal
<1>3. /\ ~Idle(t) /\ Top(t).fn = "flush_ops"
      /\ Top(t).i <= Len(aux_op_queue[CurrentQueue(t)])
      /\ CurrentOp(t) \in Op /\ CurrentOp(t).type = "signal"
  BY <1>1, <1>2, MidOpProperties DEF TypeAt
<1>4. PICK op : op = CurrentOp(t)
  OBVIOUS
<1>5. PICK f \in Fences, v \in Values : op.fence = f /\ op.value = v
  BY <1>1, <1>3, <1>4, SignalOpType
<1>6. PICK w \in Nat : w = Top(t).timeline_value
  BY <1>1, <1>3, FlushTop DEF FlushFrame
<1>7. Unsubmitted(f, v) /\ w = Len(requested[f])
  BY <1>1, <1>2, <1>4, <1>5, <1>6, TopFits DEF FrameFits
<1>8. UNCHANGED <<aux_op_queue, requested>>
  BY DEF SubmitSignal, Perform, fenceVars
<1>9. CASE SetTop(t, OpDone(Top(t))) /\ UNCHANGED vulkanVars
  BY <1>9, SignalOfQuietFlush
<1>10. CASE /\ VkQueueSubmit(VkQueueOf[CurrentQueue(t)],
                   [type |-> "signal", fence |-> op.fence,
                    timeline_value |-> w, value |-> op.value])
            /\ SetTop(t, [Top(t) EXCEPT !.pc = "update"])
  <2>1. PICK c \in Queues : CurrentQueue(t) = c
    BY <1>1, <1>3, FlushTop
  <2>2. Signals(c, f)
    <3>1. Top(t).i \in Nat /\ Top(t).i >= 1 /\ aux_op_queue[c] \in Seq(AppOps[c])
      BY <1>1, <1>3, FlushTop DEF OpsFit
    <3>2. CurrentOp(t) \in AppOps[c]
      BY <1>3, <2>1, <3>1, ElementOfSeq DEF CurrentOp
    <3> QED BY <1>3, <1>4, <1>5, <3>2 DEF Signals
  <2>3. VkQueueSubmit(VkQueueOf[c], [type |-> "signal", fence |-> f,
                                     timeline_value |-> w, value |-> v])
    BY <1>5, <1>10, <2>1
  <2>4. /\ BatchesFit' /\ SemaphoreFits'
        /\ UnderwayKept /\ \A g \in Fences \ {f} : UnsubmittedKept(g)
        /\ Underway(f, w)'
    BY <1>1, <1>7, <1>8, <2>2, <2>3, DataOfSignal
  <2>5. [Top(t) EXCEPT !.pc = "update"]
            = [Top(t) EXCEPT !.pc = "update", !.timeline_value = w]
    <3>1. Top(t) \in FlushFrame
      BY <1>1, <1>3, FlushTop
    <3> QED BY <1>6, <3>1 DEF FlushFrame
  <2>6. PICK frame : frame = [Top(t) EXCEPT !.pc = "update", !.timeline_value = w]
    OBVIOUS
  <2>7. StackMoves(t) /\ TopIs(t, frame)
    BY <1>1, <1>3, <1>6, <1>8, <1>10, <2>5, <2>6, TopMoves
  <2>8. /\ frame.pc = "update" /\ frame.timeline_value = w
        /\ frame.queue = CurrentQueue(t) /\ frame.i = Top(t).i
    <3>1. Top(t) \in FlushFrame /\ Top(t).queue = CurrentQueue(t)
      BY <1>1, <1>3, FlushTop
    <3> QED BY <2>6, <3>1 DEF FlushFrame
  <2>9. OthersKept(t)
    <3> SUFFICES ASSUME NEW g \in Fences, NEW u \in Threads, NEW k \in 1 .. Len(stack[u]),
                        u # t \/ k # Len(stack[t]), SubmittingAt(g, u, k)
                 PROVE  UnsubmittedKept(g)
      BY DEF OthersKept
    <3>1. g # f
      BY <1>1, <1>3, <1>4, <1>5, OneSubmitter
    <3> QED BY <2>4, <3>1
  <2>10. FrameFits("update", w, op)'
    BY <1>5, <2>4 DEF FrameFits
  <2> QED BY <1>1, <1>3, <1>4, <1>8, <2>4, <2>7, <2>8, <2>9, <2>10, SignalOfTop
<1> QED BY <1>4, <1>6, <1>9, <1>10 DEF SubmitSignal

\* The signal is published.
LEMMA SignalOfPublish ==
    ASSUME QueueInv, SignalInv, NEW t \in Threads, PublishSignal(t)
    PROVE  SignalInv' /\ UnderwayKept
<1>1. FlushInv /\ SemaphoreFits /\ BatchesFit /\ FramesFit
  BY DEF QueueInv, SignalInv
<1>2. InFlush(t, "update")
  BY DEF PublishSignal
<1>3. ~Idle(t) /\ Top(t).fn = "flush_ops"
  BY <1>2 DEF InFlush
<1>4. PICK op : op = CurrentOp(t)
  OBVIOUS
<1>5. PICK f \in Fences : op.fence = f
  BY <1>1, <1>2, <1>4, MidOpSignal DEF SignalFits, SignalPcs
<1>6. PICK w \in Nat : w = Top(t).timeline_value
  BY <1>1, <1>3, FlushTop DEF FlushFrame
<1>7. Underway(f, w)
  BY <1>1, <1>2, <1>4, <1>5, <1>6, TopFits DEF FrameFits
<1>8. /\ Call(t, [Top(t) EXCEPT !.pc = "signal_flush"], FlushBlockedQueues)
      /\ UNCHANGED <<aux_op_queue, requested, vulkanVars>>
  BY DEF PublishSignal, UpdatePendingValue, queueVars
<1>9. PICK frame : frame = [Top(t) EXCEPT !.pc = "signal_flush"]
  OBVIOUS
<1>10. StackMoves(t) /\ TopIs(t, frame)
  BY <1>1, <1>3, <1>8, <1>9, TopCalls
<1>11. /\ frame.pc = "signal_flush" /\ frame.timeline_value = w
       /\ frame.queue = CurrentQueue(t) /\ frame.i = Top(t).i
  <2>1. Top(t) \in FlushFrame /\ Top(t).queue = CurrentQueue(t)
    BY <1>1, <1>3, FlushTop
  <2> QED BY <1>6, <1>9, <2>1 DEF FlushFrame
<1>12. DataFits
  BY <1>1, <1>8, DataUnchanged
<1>13. OthersKept(t)
  BY <1>12 DEF DataFits, OthersKept
<1>14. FrameFits("signal_flush", w, op)'
  <2>1. Underway(f, w)'
    BY <1>7, <1>12 DEF DataFits, UnderwayKept
  <2> QED BY <1>5, <2>1 DEF FrameFits
<1> QED BY <1>1, <1>3, <1>4, <1>8, <1>10, <1>11, <1>12, <1>13, <1>14, SignalOfTop DEF DataFits

\* The GPU and the workers.
LEMMA SignalOfGpu ==
    ASSUME SingleSignaller, QueueInv, SignalInv, NEW vq \in VkQueues, Gpu(vq)
    PROVE  SignalInv' /\ UnderwayKept
<1>1. /\ FlushInv /\ VulkanTypeOK /\ RequestedOK /\ SemaphoreFits /\ BatchesFit /\ FramesFit
  BY DEF QueueInv, TypeInv, SignalInv, DataTypeOK, FenceTypeOK, RequestedOK
<1>2. GpuNext(vq) /\ UNCHANGED <<requested, stack, aux_op_queue>>
  BY DEF Gpu, GpuNext, fenceVars, queueVars
<1>3. DataFits
  BY <1>1, <1>2, DataOfGpu DEF DataFits
<1>4. FramesFit'
  BY <1>1, <1>2, <1>3, FramesStill DEF DataFits
<1> QED BY <1>3, <1>4 DEF DataFits, SignalInv

LEMMA SignalOfWorker ==
    ASSUME QueueInv, SignalInv,
           UNCHANGED <<requested, vulkanVars, stack, aux_op_queue>>
    PROVE  SignalInv' /\ UnderwayKept
<1>1. FlushInv /\ SemaphoreFits /\ BatchesFit /\ FramesFit
  BY DEF QueueInv, SignalInv
<1>2. DataFits
  BY <1>1, DataUnchanged
<1>3. FramesFit'
  BY <1>1, <1>2, FramesStill DEF DataFits
<1> QED BY <1>2, <1>3 DEF DataFits, SignalInv

LEMMA SignalStep ==
    ASSUME SingleSignaller, QueueInv, Inv, OpsFit, SignalInv, [Next]_vars
    PROVE  SignalInv' /\ UnderwayKept
<1>1. ASSUME NEW t \in Threads, ThreadStep(t) PROVE SignalInv' /\ UnderwayKept
  BY <1>1, SignalOfQuietFlush, SignalOfBlocked, SignalOfFlushWait, SignalOfRequest,
     SignalOfRead, SignalOfSubmit, SignalOfPublish DEF ThreadStep
<1>2. ASSUME NEW q \in Queues, WorkerSignal(q) PROVE SignalInv' /\ UnderwayKept
  BY <1>2, SignalOfWorker DEF WorkerSignal, SignalTimelineSemaphore
<1>3. CASE UNCHANGED vars
  BY <1>3, SignalOfWorker DEF vars, fenceVars, queueVars
<1> QED BY <1>1, <1>2, <1>3, SignalOfAppCall, SignalOfGpu DEF Next

-----------------------------------------------------------------------------
(***************************************************************************)
(* The fence workers and the virtual values.                               *)
(***************************************************************************)
LEMMA JobType ==
    ASSUME WorkersFit, NEW q \in Queues, NEW k \in 1 .. Len(worker[q])
    PROVE  worker[q][k].fence \in Fences /\ worker[q][k].timeline_value \in Nat
<1>1. worker[q] \in Seq([fence : Fences, timeline_value : Nat])
  BY DEF WorkersFit
<1>2. worker[q][k] \in [fence : Fences, timeline_value : Nat]
  BY <1>1, ElementOfSeq
<1> QED BY <1>2

LEMMA JobsStep ==
    ASSUME QueueInv, FramesFit, JobsFit, UnderwayKept, [Next]_vars
    PROVE  JobsFit'
<1>1. FlushInv /\ WorkersFit
  BY DEF QueueInv
<1> DEFINE Entry == [fence : Fences, timeline_value : Nat]
<1>2. worker \in [Queues -> Seq(Entry)]
  BY <1>1 DEF WorkersFit
<1>3. ASSUME \A q \in Queues : \A k \in 1 .. Len(worker'[q]) :
                 \/ \E f \in Fences, n \in Nat :
                        Underway(f, n) /\ worker'[q][k].fence = f
                            /\ worker'[q][k].timeline_value = n
                 \/ \E j \in 1 .. Len(worker[q]) : worker'[q][k] = worker[q][j]
      PROVE  JobsFit'
  <2> SUFFICES ASSUME NEW q \in Queues, NEW k \in 1 .. Len(worker'[q])
               PROVE  Underway(worker[q][k].fence, worker[q][k].timeline_value)'
    BY DEF JobsFit
  <2>1. \E f \in Fences, n \in Nat :
            Underway(f, n) /\ worker'[q][k].fence = f /\ worker'[q][k].timeline_value = n
    BY <1>1, <1>3, JobType DEF JobsFit
  <2>2. PICK f \in Fences, n \in Nat :
            Underway(f, n) /\ worker'[q][k].fence = f /\ worker'[q][k].timeline_value = n
    BY <2>1
  <2>3. Underway(f, n)'
    BY <2>2 DEF UnderwayKept
  <2> QED BY <2>2, <2>3 DEF Underway
<1>4. ASSUME NEW t \in Threads, EnqueueTimelineSemaphore(t) PROVE JobsFit'
  <2>1. InFlush(t, "enqueue")
    BY <1>4 DEF EnqueueTimelineSemaphore
  <2>2. ~Idle(t) /\ Top(t).fn = "flush_ops"
    BY <2>1 DEF InFlush
  <2>3. PICK f \in Fences : f = CurrentOp(t).fence
    BY <1>1, <2>1, MidOpSignal DEF SignalFits, SignalPcs
  <2>4. PICK w \in Nat : w = Top(t).timeline_value
    BY <1>1, <2>2, FlushTop DEF FlushFrame
  <2>5. Underway(f, w)
    BY <1>1, <2>1, <2>3, <2>4, TopFits DEF FrameFits
  <2>6. PICK c \in Queues : c = CurrentQueue(t)
    BY <1>1, <2>2, FlushTop
  <2> DEFINE e == [fence |-> f, timeline_value |-> w]
  <2>7. worker' = [worker EXCEPT ![c] = Append(worker[c], e)]
    BY <1>4, <2>3, <2>4, <2>6 DEF EnqueueTimelineSemaphore
  <2>8. e \in Entry /\ e.fence = f /\ e.timeline_value = w
    OBVIOUS
  <2> HIDE DEF e, Entry
  <2>9. PICK n \in Nat : n = Len(worker[c])
    BY <1>2
  <2>10. PICK s \in Seq(Entry) : s = Append(worker[c], e)
    BY <1>2, <2>8, AppendTo
  <2>11. Len(s) = n + 1 /\ s[n + 1] = e /\ \A k \in 1 .. n : s[k] = worker[c][k]
    BY <1>2, <2>8, <2>9, <2>10, AppendTo
  <2>12. \A q \in Queues : worker'[q] = IF q = c THEN s ELSE worker[q]
    BY <1>2, <2>7, <2>10
  <2>13. ASSUME NEW q \in Queues, NEW k \in 1 .. Len(worker'[q])
         PROVE  \/ q = c /\ worker'[q][k] = e
                \/ \E j \in 1 .. Len(worker[q]) : worker'[q][k] = worker[q][j]
    <3>1. CASE q # c
      BY <2>12, <3>1
    <3>2. CASE q = c /\ k = n + 1
      BY <2>11, <2>12, <3>2
    <3>3. CASE q = c /\ k # n + 1
      <4>1. k \in 1 .. n
        BY <2>11, <2>12, <3>3
      <4> QED BY <2>9, <2>11, <2>12, <3>3, <4>1
    <3> QED BY <3>1, <3>2, <3>3
  <2> QED BY <1>3, <2>5, <2>8, <2>13
<1>5. ASSUME NEW c \in Queues, WorkerSignal(c) PROVE JobsFit'
  <2>1. worker[c] \in Seq(Entry) /\ worker[c] # <<>>
    BY <1>2, <1>5 DEF WorkerSignal
  <2>2. worker' = [worker EXCEPT ![c] = Tail(worker[c])]
    BY <1>5 DEF WorkerSignal
  <2> HIDE DEF Entry
  <2>3. PICK n \in Nat : n = Len(worker[c])
    BY <2>1
  <2>4. PICK s : s = Tail(worker[c])
    OBVIOUS
  <2>5. Len(s) = n - 1 /\ \A k \in 1 .. n - 1 : s[k] = worker[c][k + 1]
    BY <2>1, <2>3, <2>4, HeadTailProperties
  <2>6. \A q \in Queues : worker'[q] = IF q = c THEN s ELSE worker[q]
    BY <1>2, <2>2, <2>4
  <2>7. ASSUME NEW q \in Queues, NEW k \in 1 .. Len(worker'[q])
        PROVE  \E j \in 1 .. Len(worker[q]) : worker'[q][k] = worker[q][j]
    <3>1. CASE q # c
      BY <2>6, <3>1
    <3>2. CASE q = c
      <4>1. k \in 1 .. n - 1 /\ k + 1 \in 1 .. n
        BY <2>3, <2>5, <2>6, <3>2
      <4> QED BY <2>3, <2>5, <2>6, <3>2, <4>1
    <3> QED BY <3>1, <3>2
  <2> QED BY <1>3, <2>7
<1>6. CASE UNCHANGED worker
  BY <1>3, <1>6
<1>7. ASSUME NEW t \in Threads, AppCall(t) PROVE UNCHANGED worker
  BY <1>7, AppCallCases DEF Enqueue, FenceSignal
<1>8. ASSUME NEW t \in Threads, ThreadStep(t), ~EnqueueTimelineSemaphore(t)
      PROVE  UNCHANGED worker
  BY <1>8 DEF ThreadStep, FlushWait, SubmitWait, FlushStop, FixupAfterFlush, FlushExecute,
     FlushMappings, FlushSignal, ReadTimelineValue, SubmitSignal, PublishSignal,
     FlushSignalOnCpu, EndOfOps, TakeBlockedQueues, FlushNextQueue, EndOfRound,
     Perform, queueVars
<1>9. ASSUME NEW vq \in VkQueues, Gpu(vq) PROVE UNCHANGED worker
  BY <1>9 DEF Gpu, queueVars
<1>10. UNCHANGED vars => UNCHANGED worker
  BY DEF vars, queueVars
<1> QED BY <1>4, <1>5, <1>6, <1>7, <1>8, <1>9, <1>10 DEF Next

\* The virtual values after the steps of the fences.
SameValues == \A f \in Fences : fence'[f].value = fence[f].value

LEMMA CompletedKept ==
    ASSUME CompletedValueIsReal, RealGrows, SameValues
    PROVE  CompletedValueIsReal'
BY DEF CompletedValueIsReal, RealGrows, SameValues

LEMMA CompletedOfCpu ==
    ASSUME CompletedValueIsReal, FenceTypeOK, VulkanTypeOK, NEW f \in Fences, NEW v \in Values,
           SignalCpuTimelineSemaphore(f, v), RecordCpuValue(f, v)
    PROVE  CompletedValueIsReal' /\ RealGrows
<1>1. RealGrows /\ v \in real_values'[f]
  BY RealGrowsBy
<1>2. PICK h : h = [fence[f] EXCEPT !.value = v, !.events = @ \ Ready(fence[f], {v})]
  OBVIOUS
<1>3. PICK m : fence' = [fence EXCEPT ![f] = [h EXCEPT !.max_pending_value = m]]
  BY <1>2 DEF SignalCpuTimelineSemaphore
<1>4. [h EXCEPT !.max_pending_value = m].value = v
  BY <1>2 DEF FenceTypeOK, FenceRecord
<1>5. \A g \in Fences : fence'[g].value = IF g = f THEN v ELSE fence[g].value
  BY <1>3, <1>4 DEF FenceTypeOK
<1> QED BY <1>1, <1>5 DEF CompletedValueIsReal, RealGrows

\* A worker reports a timeline value the semaphore has reached.
LEMMA CompletedOfWorker ==
    ASSUME CompletedValueIsReal, Inv, RequestedOK, NEW f \in Fences,
           NEW t \in 1 .. Len(requested[f]), requested[f][t] \in real_values[f],
           SignalTimelineSemaphore(f, t), UNCHANGED real_values
    PROVE  CompletedValueIsReal'
<1>1. fence \in [Fences -> FenceRecord] /\ Kept(fence[f], requested[f])
  BY DEF Inv, TypeInv, FenceTypeOK, GoodFence
<1> DEFINE g == fence[f]
           vals == {s.value : s \in Due(g, t)}
<1>2. PICK v \in FinalValues(g, t) :
          LET h == [g EXCEPT !.value = v,
                             !.timeline_value = IF @ < t THEN t ELSE @,
                             !.semaphores = @ \ Due(g, t),
                             !.events = @ \ Ready(g, vals)]
          IN  \E m \in MaxPendingValues(h) :
                  fence' = [fence EXCEPT ![f] = [h EXCEPT !.max_pending_value = m]]
  BY DEF SignalTimelineSemaphore
<1>3. PICK h : /\ h = [g EXCEPT !.value = v,
                                !.timeline_value = IF @ < t THEN t ELSE @,
                                !.semaphores = @ \ Due(g, t),
                                !.events = @ \ Ready(g, vals)]
               /\ \E m : fence' = [fence EXCEPT ![f] = [h EXCEPT !.max_pending_value = m]]
  BY <1>2
<1>4. PICK m : fence' = [fence EXCEPT ![f] = [h EXCEPT !.max_pending_value = m]]
  BY <1>3
<1>5. [h EXCEPT !.max_pending_value = m].value = v
  <2>1. g \in FenceRecord
    BY <1>1
  <2> QED BY <1>3, <2>1 DEF FenceRecord
<1>6. v \in real_values[f]
  <2>1. FinalValues(g, t) = {IF g.timeline_value < t THEN requested[f][t] ELSE g.value}
    BY <1>1, FinalValueIsLast DEF RequestedOK
  <2>2. v = requested[f][t] \/ v = g.value
    BY <1>2, <2>1
  <2> QED BY <2>2 DEF CompletedValueIsReal
<1> HIDE DEF g
<1>7. \A d \in Fences : fence'[d].value = IF d = f THEN v ELSE fence[d].value
  BY <1>1, <1>4, <1>5
<1> QED BY <1>6, <1>7 DEF CompletedValueIsReal

\* A timeline value the semaphore has reached is not in a VkQueue any more.
LEMMA ReachedIsReal ==
    ASSUME SemaphoreFits, BatchesFit, VulkanTypeOK, NEW f \in Fences, NEW n \in Nat,
           Underway(f, n), n <= semaphore[f]
    PROVE  requested[f][n] \in real_values[f]
<1>1. ~Submitted(f, n)
  <2> SUFFICES ASSUME NEW vq \in VkQueues, NEW j \in Nat, Signalling(f, n, vq, j) PROVE FALSE
    BY DEF Submitted
  <2>1. n \in semaphore[f] + 1 .. Len(requested[f])
    BY DEF BatchesFit, BatchFits
  <2>2. semaphore[f] \in Nat
    BY DEF VulkanTypeOK
  <2> QED BY <2>1, <2>2
<1> QED BY <1>1 DEF Underway

LEMMA CompletedStep ==
    ASSUME SingleSignaller, QueueInv, Inv, SignalInv, JobsFit, CompletedValueIsReal, [Next]_vars
    PROVE  CompletedValueIsReal' /\ RealGrows
<1>1. /\ FlushInv /\ WorkersFit /\ FenceTypeOK /\ VulkanTypeOK /\ RequestedOK
      /\ SemaphoreFits /\ BatchesFit
  BY DEF QueueInv, TypeInv, SignalInv, DataTypeOK, FenceTypeOK, RequestedOK
<1>2. CASE UNCHANGED <<fence, real_values>>
  BY <1>2 DEF CompletedValueIsReal, RealGrows
<1>3. ASSUME NEW t \in Threads, AppCall(t) PROVE CompletedValueIsReal' /\ RealGrows
  <2>1. ASSUME NEW q \in Queues, NEW op, Enqueue(t, q, op)
        PROVE  CompletedValueIsReal' /\ RealGrows
    BY <1>2, <2>1 DEF Enqueue, fenceVars, vulkanVars
  <2>2. ASSUME NEW f \in Fences, NEW v \in Values, FenceSignal(t, f, v)
        PROVE  CompletedValueIsReal' /\ RealGrows
    BY <1>1, <2>2, CompletedOfCpu DEF FenceSignal
  <2> QED BY <1>3, <2>1, <2>2, AppCallCases
<1>4. ASSUME NEW t \in Threads, FlushSignalOnCpu(t) PROVE CompletedValueIsReal' /\ RealGrows
  <2>1. AtOp(t, "signal_on_cpu")
    BY <1>4 DEF FlushSignalOnCpu
  <2>2. CurrentOp(t) \in Op /\ CurrentOp(t).type = "signal_on_cpu"
    BY <1>1, <2>1, AtOpProperties
  <2>3. PICK f \in Fences, v \in Values : f = CurrentOp(t).fence /\ v = CurrentOp(t).value
    BY <1>1, <2>2, SignalOpType
  <2>4. RecordCpuValue(f, v) /\ SignalCpuTimelineSemaphore(f, v)
    BY <1>4, <2>3 DEF FlushSignalOnCpu
  <2> QED BY <1>1, <2>4, CompletedOfCpu
<1>5. ASSUME NEW t \in Threads, FlushSignal(t) PROVE CompletedValueIsReal' /\ RealGrows
  <2>1. PICK f : AddPendingTimelineSignal(f, CurrentOp(t).value)
    BY <1>5 DEF FlushSignal
  <2>2. SameValues
    BY <1>1, <2>1 DEF AddPendingTimelineSignal, FenceTypeOK, FenceRecord, SameValues
  <2>3. RealGrows
    BY <1>5 DEF FlushSignal, vulkanVars, RealGrows
  <2> QED BY <2>2, <2>3, CompletedKept
<1>6. ASSUME NEW t \in Threads, PublishSignal(t) PROVE CompletedValueIsReal' /\ RealGrows
  <2>1. PICK f : UpdatePendingValue(f)
    BY <1>6 DEF PublishSignal
  <2>2. SameValues
    BY <1>1, <2>1 DEF UpdatePendingValue, FenceTypeOK, FenceRecord, SameValues
  <2>3. RealGrows
    BY <1>6 DEF PublishSignal, vulkanVars, RealGrows
  <2> QED BY <2>2, <2>3, CompletedKept
<1>7. ASSUME NEW t \in Threads, ThreadStep(t), ~FlushSignalOnCpu(t), ~FlushSignal(t),
             ~PublishSignal(t)
      PROVE  UNCHANGED <<fence, real_values>>
  BY <1>7 DEF ThreadStep, FlushWait, SubmitWait, FlushStop, FixupAfterFlush, FlushExecute,
     FlushMappings, ReadTimelineValue, SubmitSignal, EnqueueTimelineSemaphore, EndOfOps,
     TakeBlockedQueues, FlushNextQueue, EndOfRound, VkQueueSubmit, fenceVars, vulkanVars
<1>8. ASSUME NEW q \in Queues, WorkerSignal(q) PROVE CompletedValueIsReal' /\ RealGrows
  <2>1. worker[q] # <<>>
    BY <1>8 DEF WorkerSignal
  <2>2. PICK f \in Fences : f = Head(worker[q]).fence
    BY <1>1, <2>1, WorkerHead
  <2>3. PICK t \in 1 .. fence[f].pending_timeline_value : t = Head(worker[q]).timeline_value
    BY <1>1, <2>1, <2>2, WorkerHead
  <2>4. /\ t <= semaphore[f] /\ SignalTimelineSemaphore(f, t) /\ UNCHANGED real_values
    <3>1. semaphore[f] >= t /\ SignalTimelineSemaphore(f, t) /\ UNCHANGED real_values
      BY <1>8, <2>2, <2>3 DEF WorkerSignal, vulkanVars
    <3>2. semaphore[f] \in Nat /\ t \in Int
      BY <1>1, <2>3 DEF VulkanTypeOK
    <3> QED BY <3>1, <3>2
  <2>5. t \in 1 .. Len(requested[f]) /\ t \in Nat
    <3>1. Kept(fence[f], requested[f])
      BY DEF Inv, GoodFence
    <3> QED BY <3>1 DEF Kept
  <2>6. Underway(f, t)
    <3>1. Head(worker[q]) = worker[q][1] /\ 1 \in 1 .. Len(worker[q])
      <4>1. worker[q] \in Seq([fence : Fences, timeline_value : Nat])
        BY <1>1 DEF WorkersFit
      <4> QED BY <2>1, <4>1, EmptySeq
    <3> QED BY <2>2, <2>3, <3>1 DEF JobsFit
  <2>7. requested[f][t] \in real_values[f]
    BY <1>1, <2>4, <2>5, <2>6, ReachedIsReal
  <2>8. RealGrows
    BY <2>4 DEF RealGrows
  <2> QED BY <1>1, <2>4, <2>5, <2>7, <2>8, CompletedOfWorker
<1>9. ASSUME NEW vq \in VkQueues, Gpu(vq) PROVE CompletedValueIsReal' /\ RealGrows
  <2>1. GpuNext(vq) /\ UNCHANGED <<fence, requested>>
    BY <1>9 DEF Gpu, GpuNext, fenceVars
  <2>2. RealGrows
    BY <1>1, <2>1, DataOfGpu
  <2> QED BY <2>1, <2>2, CompletedKept DEF SameValues
<1>10. CASE UNCHANGED vars
  BY <1>2, <1>10 DEF vars, fenceVars, vulkanVars
<1> QED BY <1>2, <1>3, <1>4, <1>5, <1>6, <1>7, <1>8, <1>9, <1>10 DEF Next

-----------------------------------------------------------------------------
(***************************************************************************)
(* The invariant.  A signal is followed from its request to the VkQueue    *)
(* (FramesFit), through the VkQueue (BatchesFit, SemaphoreFits), to the    *)
(* fence worker (JobsFit) and into the fence.                              *)
(***************************************************************************)
GpuInv == OpsFit /\ SignalInv /\ JobsFit /\ CompletedValueIsReal

LEMMA GpuInvInit == Init => GpuInv
<1> SUFFICES ASSUME Init PROVE GpuInv
  OBVIOUS
<1>1. /\ \A q \in Queues : /\ op_queue[q] = <<>> /\ aux_op_queue[q] = <<>>
                           /\ Len(worker[q]) = 0
      /\ \A t \in Threads : Len(stack[t]) = 0
      /\ \A vq \in VkQueues : Len(vk_queue[vq]) = 0
      /\ \A f \in Fences : Len(requested[f]) = 0 /\ semaphore[f] = 0
      /\ \A f \in Fences : real_values[f] = {fence[f].value}
  BY EmptySeq DEF Init, FenceInit, VulkanInit
<1>2. OpsFit
  BY <1>1, EmptySeq DEF OpsFit
<1>3. SignalInv
  BY <1>1 DEF SignalInv, SemaphoreFits, BatchesFit, Signalling, FramesFit
<1>4. JobsFit /\ CompletedValueIsReal
  BY <1>1 DEF JobsFit, CompletedValueIsReal
<1> QED BY <1>2, <1>3, <1>4 DEF GpuInv

LEMMA GpuInvStep ==
    ASSUME SingleSignaller, QueueInv, Inv, GpuInv, [Next]_vars
    PROVE  GpuInv' /\ UnderwayKept /\ RealGrows
<1>1. OpsFit'
  BY OpsStep DEF QueueInv, GpuInv
<1>2. SignalInv' /\ UnderwayKept
  BY SignalStep DEF GpuInv
<1>3. JobsFit'
  BY <1>2, JobsStep DEF GpuInv, SignalInv
<1>4. CompletedValueIsReal' /\ RealGrows
  BY CompletedStep DEF GpuInv
<1> QED BY <1>1, <1>2, <1>3, <1>4 DEF GpuInv

LEMMA FencesAlways == Spec => []Inv
BY FencesImplemented, InvAlways, PTL

LEMMA GpuInvAlways == SingleSignaller => (Spec => [](QueueInv /\ Inv /\ GpuInv))
<1> SUFFICES ASSUME SingleSignaller PROVE Spec => [](QueueInv /\ Inv /\ GpuInv)
  OBVIOUS
<1>1. Init => GpuInv
  BY GpuInvInit
<1>2. QueueInv /\ Inv /\ GpuInv /\ [Next]_vars => GpuInv'
  BY GpuInvStep
<1> QED BY <1>1, <1>2, QueueInvAlways, FencesAlways, PTL DEF Spec

\* ID3D12Fence::GetCompletedValue() is honest: when no fence is signalled by
\* two queues, the value of a fence is one that the GPU has reached or the CPU
\* has set, even when submissions fail.
THEOREM CompletedValuesReal == SingleSignaller => (Spec => []CompletedValueIsReal)
<1> SUFFICES ASSUME SingleSignaller PROVE Spec => []CompletedValueIsReal
  OBVIOUS
<1>1. GpuInv => CompletedValueIsReal
  BY DEF GpuInv
<1> QED BY <1>1, GpuInvAlways, PTL

\* Vulkan's rule for timeline semaphores is kept: when no fence is signalled
\* by two queues, each signal the GPU executes raises the semaphore.
THEOREM SemaphoresRise == SingleSignaller => (Spec => SemaphoreRises)
<1> SUFFICES ASSUME SingleSignaller PROVE Spec => SemaphoreRises
  OBVIOUS
<1> DEFINE Rises(vq) ==
        (/\ vk_queue[vq] # <<>> /\ Head(vk_queue[vq]).type = "signal"
         /\ vk_queue'[vq] = Tail(vk_queue[vq]))
        => semaphore[Head(vk_queue[vq]).fence] < Head(vk_queue[vq]).timeline_value
<1>1. ASSUME QueueInv, GpuInv, NEW vq \in VkQueues PROVE Rises(vq)
  <2> SUFFICES ASSUME vk_queue[vq] # <<>>, Head(vk_queue[vq]).type = "signal"
               PROVE  semaphore[Head(vk_queue[vq]).fence] < Head(vk_queue[vq]).timeline_value
    OBVIOUS
  <2>1. VulkanTypeOK /\ BatchesFit
    BY <1>1 DEF QueueInv, DataTypeOK, GpuInv, SignalInv
  <2>2. PICK h \in Batch : h = Head(vk_queue[vq]) /\ h = vk_queue[vq][1] /\ h.type = "signal"
    <3>1. vk_queue[vq] \in Seq(Batch)
      BY <2>1 DEF VulkanTypeOK
    <3> QED BY <3>1, HeadTailProperties
  <2>3. 1 \in 1 .. Len(vk_queue[vq])
    <3>1. vk_queue[vq] \in Seq(Batch)
      BY <2>1 DEF VulkanTypeOK
    <3> QED BY <3>1, EmptySeq
  <2>4. PICK f \in Fences, n \in Nat : h.fence = f /\ h.timeline_value = n
    <3>1. h \in SemaphoreBatch
      BY <2>2 DEF Batch, ExecuteBatch
    <3> QED BY <3>1 DEF SemaphoreBatch
  <2>5. Signalling(f, n, vq, 1)
    BY <2>2, <2>3, <2>4 DEF Signalling
  <2>6. n \in semaphore[f] + 1 .. Len(requested[f])
    BY <2>1, <2>5 DEF BatchesFit, BatchFits
  <2>7. semaphore[f] \in Nat
    BY <2>1 DEF VulkanTypeOK
  <2> QED BY <2>2, <2>4, <2>6, <2>7
<1>2. QueueInv /\ GpuInv => \A vq \in VkQueues : Rises(vq)
  BY <1>1
<1>3. QueueInv /\ Inv /\ GpuInv /\ [Next]_vars => [\A vq \in VkQueues : Rises(vq)]_vars
  BY <1>2
<1>4. Spec => [][\A vq \in VkQueues : Rises(vq)]_vars
  BY <1>3, GpuInvAlways, PTL DEF Spec
<1> QED BY <1>4 DEF SemaphoreRises

-----------------------------------------------------------------------------
(***************************************************************************)
(* Without failing submissions no signal that was requested is lost.       *)
(***************************************************************************)
\* A call that has requested a signal is not waiting for another one.
LEMMA SubmittingIsTop ==
    ASSUME FlushInv, NEW f, NEW u \in Threads, NEW k \in Nat, SubmittingAt(f, u, k)
    PROVE  /\ k = Len(stack[u]) /\ CurrentOp(u).fence = f
           /\ InFlush(u, "read_value") \/ InFlush(u, "submit_signal")
<1>1. /\ k \in 1 .. Len(stack[u]) /\ stack[u][k].fn = "flush_ops"
      /\ stack[u][k].pc \in {"read_value", "submit_signal"}
      /\ OpOf(stack[u][k]).fence = f
  BY DEF SubmittingAt
<1>2. Nested /\ SharedTypeOK
  BY DEF FlushInv
<1>3. Len(stack[u]) \in Nat
  BY <1>2 DEF SharedTypeOK
<1>4. ~(k < Len(stack[u]))
  BY <1>1, <1>2 DEF Nested
<1>5. k = Len(stack[u])
  BY <1>1, <1>3, <1>4
<1>6. ~Idle(u)
  BY <1>1, <1>5 DEF Idle
<1>7. InFlush(u, "read_value") \/ InFlush(u, "submit_signal")
  BY <1>1, <1>5, <1>6 DEF InFlush, Top
<1>8. CurrentOp(u).fence = f
  BY <1>1, <1>5 DEF OpOf, CurrentOp, CurrentQueue, Top
<1> QED BY <1>5, <1>7, <1>8

\* The calls of the other threads go on submitting.
LEMMA OthersSubmit ==
    ASSUME NEW t \in Threads, StackMoves(t), NEW f, NEW u \in Threads, u # t, NEW k,
           SubmittingAt(f, u, k)
    PROVE  SubmittingAt(f, u, k)'
<1>1. stack'[u] = stack[u]
  BY DEF StackMoves, OthersStill
<1>2. aux_op_queue'[stack[u][k].queue] = aux_op_queue[stack[u][k].queue]
  BY DEF StackMoves, AuxKept, SubmittingAt
<1> QED BY <1>1, <1>2 DEF SubmittingAt, OpOf

\* The number of a signal that was requested does not change.
RequestsKept == \A f \in Fences : \A n \in 1 .. Len(requested[f]) :
    n \in 1 .. Len(requested'[f]) /\ requested'[f][n] = requested[f][n]

LEMMA LostBy ==
    ASSUME NothingLost, RequestedOK, UnderwayKept, UNCHANGED requested,
           \A f \in Fences : Submitting(f) =>
               Submitting(f)' \/ \A n \in Nat : n = Len(requested[f]) => Underway(f, n)'
    PROVE  NothingLost'
<1> SUFFICES ASSUME NEW f \in Fences, NEW n \in 1 .. Len(requested'[f])
             PROVE  Underway(f, n)' \/ (n = Len(requested'[f]) /\ Submitting(f)')
  BY DEF NothingLost
<1>1. n \in 1 .. Len(requested[f]) /\ n \in Nat
  BY DEF RequestedOK
<1>2. CASE Underway(f, n)
  BY <1>1, <1>2 DEF UnderwayKept
<1>3. CASE n = Len(requested[f]) /\ Submitting(f)
  BY <1>1, <1>3
<1> QED BY <1>1, <1>2, <1>3 DEF NothingLost

\* A step that neither requests a signal nor moves a call that submits one.
LEMMA LostOfOther ==
    ASSUME FlushInv, NothingLost, RequestedOK, UnderwayKept, UNCHANGED requested,
           NEW t \in Threads, StackMoves(t),
           ~InFlush(t, "read_value"), ~InFlush(t, "submit_signal")
    PROVE  NothingLost'
<1>1. ASSUME NEW f \in Fences, Submitting(f) PROVE Submitting(f)'
  <2>1. PICK u \in Threads, k \in Nat : SubmittingAt(f, u, k)
    BY <1>1 DEF Submitting
  <2>2. u # t
    BY <2>1, SubmittingIsTop
  <2> QED BY <2>1, <2>2, OthersSubmit DEF Submitting
<1> QED BY <1>1, LostBy

LEMMA LostStill ==
    ASSUME NothingLost, RequestedOK, UnderwayKept,
           UNCHANGED <<requested, stack, aux_op_queue>>
    PROVE  NothingLost'
<1>1. \A f : Submitting(f) => Submitting(f)'
  BY DEF Submitting, SubmittingAt, OpOf
<1> QED BY <1>1, LostBy

\* The step by which the top frame of t comes to submit a signal of f.
LEMMA TopSubmits ==
    ASSUME NEW t \in Threads, NEW frame, TopIs(t, frame), SharedTypeOK,
           UNCHANGED aux_op_queue, frame.fn = "flush_ops",
           frame.pc \in {"read_value", "submit_signal"},
           frame.queue = CurrentQueue(t), frame.i = Top(t).i
    PROVE  \A f : CurrentOp(t).fence = f => Submitting(f)'
<1> SUFFICES ASSUME NEW f, CurrentOp(t).fence = f PROVE Submitting(f)'
  OBVIOUS
<1>1. PICK k \in Nat : k = Len(stack[t])
  BY DEF SharedTypeOK
<1>2. k \in 1 .. Len(stack'[t]) /\ stack'[t][k] = frame
  BY <1>1 DEF TopIs
<1>3. OpOf(stack[t][k])'.fence = f
  BY <1>2 DEF OpOf, CurrentOp
<1>4. SubmittingAt(f, t, k)'
  BY <1>2, <1>3 DEF SubmittingAt
<1> QED BY <1>4 DEF Submitting

\* Where the top frame is after the steps that are not quiet.
TopAt(t, pc) == \E frame : /\ TopIs(t, frame) /\ frame.fn = "flush_ops" /\ frame.pc = pc
                           /\ frame.queue = CurrentQueue(t) /\ frame.i = Top(t).i

LEMMA SetTopAt ==
    ASSUME FlushInv, NEW t \in Threads, ~Idle(t), Top(t).fn = "flush_ops",
           NEW pc \in {"submit_wait", "read_value", "submit_signal", "update"},
           \/ SetTop(t, [Top(t) EXCEPT !.pc = pc])
           \/ \E w \in Nat : SetTop(t, [Top(t) EXCEPT !.pc = pc, !.timeline_value = w]),
           UNCHANGED aux_op_queue
    PROVE  StackMoves(t) /\ TopAt(t, pc)
<1>1. Top(t) \in FlushFrame /\ Top(t).queue = CurrentQueue(t)
  BY FlushTop
<1>2. PICK v \in Nat : v = Top(t).timeline_value
  BY <1>1 DEF FlushFrame
<1>3. [Top(t) EXCEPT !.pc = pc] = [Top(t) EXCEPT !.pc = pc, !.timeline_value = v]
  BY <1>1, <1>2 DEF FlushFrame
<1>4. PICK w \in Nat : SetTop(t, [Top(t) EXCEPT !.pc = pc, !.timeline_value = w])
  BY <1>3
<1>5. PICK frame : frame = [Top(t) EXCEPT !.pc = pc, !.timeline_value = w]
  OBVIOUS
<1>6. StackMoves(t) /\ TopIs(t, frame)
  BY <1>4, <1>5, TopMoves
<1>7. /\ frame.fn = "flush_ops" /\ frame.pc = pc
      /\ frame.queue = CurrentQueue(t) /\ frame.i = Top(t).i
  BY <1>1, <1>5 DEF FlushFrame
<1> QED BY <1>6, <1>7 DEF TopAt

LEMMA LoudSteps ==
    ASSUME QueueInv, NEW t \in Threads, NEW pc,
           \/ FlushWait(t) /\ pc = "submit_wait"
           \/ FlushSignal(t) /\ pc = "read_value"
           \/ ReadTimelineValue(t) /\ pc = "submit_signal"
           \/ SubmitSignal(t) /\ SetTop(t, [Top(t) EXCEPT !.pc = "update"]) /\ pc = "update"
           \/ PublishSignal(t) /\ pc = "signal_flush"
    PROVE  StackMoves(t) /\ TopAt(t, pc)
<1>1. FlushInv /\ FenceTypeOK
  BY DEF QueueInv, TypeInv
<1>2. ~Idle(t) /\ Top(t).fn = "flush_ops" /\ UNCHANGED aux_op_queue
  BY DEF FlushWait, FlushSignal, ReadTimelineValue, SubmitSignal, PublishSignal, AtOp, InFlush,
     Perform, queueVars
<1>3. CASE FlushWait(t) /\ pc = "submit_wait"
  <2>1. CurrentOp(t) \in Op /\ CurrentOp(t).type = "wait"
    BY <1>1, <1>3, AtOpProperties DEF FlushWait
  <2>2. PICK w \in WaitValues(fence[CurrentOp(t).fence], CurrentOp(t).value) :
            SetTop(t, [Top(t) EXCEPT !.pc = "submit_wait", !.timeline_value = w])
    BY <1>3 DEF FlushWait
  <2>3. w \in Nat
    BY <1>1, <2>1, <2>2, SignalOpType, WaitValueType DEF FenceTypeOK
  <2>4. pc \in {"submit_wait", "read_value", "submit_signal", "update"}
    BY <1>3
  <2>5. \E n \in Nat : SetTop(t, [Top(t) EXCEPT !.pc = pc, !.timeline_value = n])
    BY <1>3, <2>2, <2>3
  <2> QED BY <1>1, <1>2, <2>4, <2>5, SetTopAt
<1>4. CASE ReadTimelineValue(t) /\ pc = "submit_signal"
  <2>1. PICK f \in Fences : CurrentOp(t).fence = f
    BY <1>1, <1>4, MidOpSignal DEF ReadTimelineValue, SignalFits, SignalPcs
  <2>2. PICK w \in Nat : w = fence[f].pending_timeline_value
    BY <1>1 DEF FenceTypeOK, FenceRecord
  <2>3. pc \in {"submit_wait", "read_value", "submit_signal", "update"}
    BY <1>4
  <2>4. \E n \in Nat : SetTop(t, [Top(t) EXCEPT !.pc = pc, !.timeline_value = n])
    BY <1>4, <2>1, <2>2 DEF ReadTimelineValue
  <2> QED BY <1>1, <1>2, <2>3, <2>4, SetTopAt
<1>5. CASE \/ FlushSignal(t) /\ pc = "read_value"
           \/ SetTop(t, [Top(t) EXCEPT !.pc = "update"]) /\ pc = "update"
  <2>1. SetTop(t, [Top(t) EXCEPT !.pc = pc])
    BY <1>5 DEF FlushSignal
  <2>2. pc \in {"submit_wait", "read_value", "submit_signal", "update"}
    BY <1>5
  <2> QED BY <1>1, <1>2, <2>1, <2>2, SetTopAt
<1>6. CASE PublishSignal(t) /\ pc = "signal_flush"
  <2>1. PICK frame : frame = [Top(t) EXCEPT !.pc = "signal_flush"]
    OBVIOUS
  <2>2. StackMoves(t) /\ TopIs(t, frame)
    BY <1>1, <1>2, <1>6, <2>1, TopCalls DEF PublishSignal
  <2>3. Top(t) \in FlushFrame /\ Top(t).queue = CurrentQueue(t)
    BY <1>1, <1>2, FlushTop
  <2>4. /\ frame.fn = "flush_ops" /\ frame.pc = pc
        /\ frame.queue = CurrentQueue(t) /\ frame.i = Top(t).i
    BY <1>6, <2>1, <2>3 DEF FlushFrame
  <2> QED BY <2>2, <2>4 DEF TopAt
<1> QED BY <1>3, <1>4, <1>5, <1>6

LEMMA QuietThreads ==
    ASSUME FlushInv, ~SubmitMayFail, NEW t \in Threads, AppCall(t) \/ ThreadStep(t),
           ~FlushWait(t), ~FlushSignal(t), ~ReadTimelineValue(t), ~SubmitSignal(t),
           ~PublishSignal(t)
    PROVE  Quiet(t)
BY QuietAppCall, QuietFlushStep, QuietBlockedStep DEF ThreadStep

LEMMA NotSubmitting ==
    ASSUME NEW t \in Threads, AppCall(t) \/ ThreadStep(t), ~ReadTimelineValue(t), ~SubmitSignal(t)
    PROVE  ~InFlush(t, "read_value") /\ ~InFlush(t, "submit_signal")
<1>1. CASE AppCall(t)
  <2>1. Idle(t)
    BY <1>1, AppCallCases DEF Enqueue, FenceSignal
  <2> QED BY <2>1 DEF InFlush
<1>2. CASE TakeBlockedQueues(t) \/ FlushNextQueue(t) \/ EndOfRound(t)
  BY <1>2 DEF TakeBlockedQueues, FlushNextQueue, EndOfRound, InBlocked, InFlush
<1>3. CASE \/ FlushWait(t) \/ SubmitWait(t) \/ FlushStop(t) \/ FixupAfterFlush(t)
           \/ FlushExecute(t) \/ FlushMappings(t) \/ FlushSignal(t)
           \/ PublishSignal(t) \/ EnqueueTimelineSemaphore(t) \/ FlushSignalOnCpu(t)
           \/ EndOfOps(t)
  BY <1>3 DEF FlushWait, SubmitWait, FlushStop, FixupAfterFlush, FlushExecute, FlushMappings,
     FlushSignal, PublishSignal, EnqueueTimelineSemaphore, FlushSignalOnCpu, EndOfOps, AtOp,
     InFlush
<1> QED BY <1>1, <1>2, <1>3 DEF ThreadStep

LEMMA LostOfRequest ==
    ASSUME SingleSignaller, QueueInv, OpsFit, NothingLost, UnderwayKept, NEW t \in Threads,
           FlushSignal(t)
    PROVE  NothingLost' /\ RequestsKept
<1>1. FlushInv /\ SharedTypeOK /\ RequestedOK
  BY DEF QueueInv, FlushInv, TypeInv, FenceTypeOK, RequestedOK
<1>2. AtOp(t, "signal")
  BY DEF FlushSignal
<1>3. /\ ~Idle(t) /\ Top(t).fn = "flush_ops" /\ Top(t).pc = "op"
      /\ Top(t).i <= Len(aux_op_queue[CurrentQueue(t)])
      /\ CurrentOp(t) \in Op /\ CurrentOp(t).type = "signal"
  BY <1>1, <1>2, AtOpProperties
<1>4. PICK f \in Fences, v \in Values : CurrentOp(t).fence = f /\ CurrentOp(t).value = v
  BY <1>1, <1>3, SignalOpType
<1>5. requested' = [requested EXCEPT ![f] = Append(@, v)] /\ UNCHANGED aux_op_queue
  BY <1>4 DEF FlushSignal, AddPendingTimelineSignal, queueVars
<1>6. PICK l \in Nat : l = Len(requested[f])
  BY <1>1 DEF RequestedOK
<1>7. /\ Len(requested'[f]) = l + 1
      /\ \A n \in 1 .. l : requested'[f][n] = requested[f][n]
  BY <1>1, <1>5, <1>6, AppendTo DEF RequestedOK
<1>8. \A g \in Fences \ {f} : requested'[g] = requested[g]
  BY <1>1, <1>5 DEF RequestedOK
<1>9. ~Submitting(f)
  <2> SUFFICES ASSUME NEW u \in Threads, NEW k \in Nat, SubmittingAt(f, u, k) PROVE FALSE
    BY DEF Submitting
  <2>1. u = t /\ k = Len(stack[t])
    BY <1>1, <1>3, <1>4, OneSubmitter
  <2> QED BY <1>3, <2>1 DEF SubmittingAt, Top
<1>10. StackMoves(t) /\ TopAt(t, "read_value")
  BY LoudSteps
<1>11. Submitting(f)'
  BY <1>1, <1>4, <1>5, <1>10, TopSubmits DEF TopAt
<1>12. ASSUME NEW g \in Fences, Submitting(g) PROVE Submitting(g)'
  <2>1. PICK u \in Threads, k \in Nat : SubmittingAt(g, u, k)
    BY <1>12 DEF Submitting
  <2>2. u # t
    BY <1>1, <1>3, <2>1, SubmittingIsTop DEF InFlush
  <2> QED BY <1>10, <2>1, <2>2, OthersSubmit DEF Submitting
<1>13. NothingLost'
  <2> SUFFICES ASSUME NEW g \in Fences, NEW n \in 1 .. Len(requested'[g])
               PROVE  Underway(g, n)' \/ (n = Len(requested'[g]) /\ Submitting(g)')
    BY DEF NothingLost
  <2>1. CASE g # f
    <3>1. n \in 1 .. Len(requested[g]) /\ n \in Nat
      BY <1>1, <1>8, <2>1 DEF RequestedOK
    <3> QED BY <1>8, <1>12, <2>1, <3>1 DEF NothingLost, UnderwayKept
  <2>2. CASE g = f /\ n # l + 1
    <3>1. n \in 1 .. Len(requested[f]) /\ n \in Nat
      BY <1>6, <1>7, <2>2
    <3> QED BY <1>9, <2>2, <3>1 DEF NothingLost, UnderwayKept
  <2>3. CASE g = f /\ n = l + 1
    BY <1>7, <1>11, <2>3
  <2> QED BY <2>1, <2>2, <2>3
<1>14. RequestsKept
  <2> SUFFICES ASSUME NEW g \in Fences, NEW n \in 1 .. Len(requested[g])
               PROVE  n \in 1 .. Len(requested'[g]) /\ requested'[g][n] = requested[g][n]
    BY DEF RequestsKept
  <2> QED BY <1>6, <1>7, <1>8
<1> QED BY <1>13, <1>14

LEMMA LostOfRead ==
    ASSUME QueueInv, NothingLost, UnderwayKept, NEW t \in Threads, ReadTimelineValue(t)
    PROVE  NothingLost'
<1>1. FlushInv /\ SharedTypeOK /\ RequestedOK
  BY DEF QueueInv, FlushInv, TypeInv, FenceTypeOK, RequestedOK
<1>2. UNCHANGED <<requested, aux_op_queue>>
  BY DEF ReadTimelineValue, fenceVars, queueVars
<1>3. StackMoves(t) /\ TopAt(t, "submit_signal")
  BY LoudSteps
<1>4. ASSUME NEW f \in Fences, Submitting(f) PROVE Submitting(f)'
  <2>1. PICK u \in Threads, k \in Nat : SubmittingAt(f, u, k)
    BY <1>4 DEF Submitting
  <2>2. CASE u # t
    BY <1>3, <2>1, <2>2, OthersSubmit DEF Submitting
  <2>3. CASE u = t
    <3>1. CurrentOp(t).fence = f
      BY <1>1, <2>1, <2>3, SubmittingIsTop
    <3> QED BY <1>1, <1>2, <1>3, <3>1, TopSubmits DEF TopAt
  <2> QED BY <2>2, <2>3
<1> QED BY <1>1, <1>2, <1>4, LostBy

LEMMA LostOfSubmit ==
    ASSUME ~SubmitMayFail, QueueInv, SignalInv, SignalInv', NothingLost, UnderwayKept,
           NEW t \in Threads, SubmitSignal(t)
    PROVE  NothingLost'
<1>1. FlushInv /\ SharedTypeOK /\ RequestedOK /\ FramesFit
  BY DEF QueueInv, FlushInv, TypeInv, FenceTypeOK, RequestedOK, SignalInv
<1>2. UNCHANGED <<requested, aux_op_queue>>
  BY DEF SubmitSignal, Perform, fenceVars
<1>3. InFlush(t, "submit_signal")
  BY DEF SubmitSignal
<1>4. ~Idle(t) /\ Top(t).fn = "flush_ops"
  BY <1>3 DEF InFlush
<1>5. PICK f \in Fences : CurrentOp(t).fence = f
  BY <1>1, <1>3, MidOpSignal DEF SignalFits, SignalPcs
<1>6. PICK w \in Nat : w = Top(t).timeline_value /\ w = Len(requested[f])
  <2>1. Top(t).timeline_value \in Nat
    BY <1>1, <1>4, FlushTop DEF FlushFrame
  <2> QED BY <1>1, <1>3, <1>5, <2>1, TopFits DEF FrameFits
<1>7. SetTop(t, [Top(t) EXCEPT !.pc = "update"])
  BY DEF SubmitSignal
<1>8. PICK frame : frame = [Top(t) EXCEPT !.pc = "update"]
  OBVIOUS
<1>9. /\ frame.fn = "flush_ops" /\ frame.pc = "update" /\ frame.timeline_value = w
      /\ frame.queue = CurrentQueue(t) /\ frame.i = Top(t).i /\ frame \in Frame
  <2>1. Top(t) \in FlushFrame /\ Top(t).queue = CurrentQueue(t)
    BY <1>1, <1>4, FlushTop
  <2> QED BY <1>6, <1>8, <2>1 DEF FlushFrame, Frame
<1>10. PICK k \in Nat : k = Len(stack[t]) /\ k \in 1 .. Len(stack'[t]) /\ stack'[t][k] = frame
  <2>1. SetTop(t, frame)
    BY <1>7, <1>8
  <2> QED BY <1>1, <1>4, <1>9, <2>1, SetTopMoves
<1>11. Underway(f, w)'
  <2>1. FitsAt(t, k)'
    BY <1>10, FramesFitAtNext DEF SignalInv
  <2>2. OpOf(stack[t][k])'.fence = f
    BY <1>2, <1>5, <1>9, <1>10 DEF OpOf, CurrentOp
  <2> QED BY <1>9, <1>10, <2>1, <2>2 DEF FitsAt, FrameFits
<1>12. StackMoves(t)
  BY <1>7, LoudSteps
<1>13. ASSUME NEW g \in Fences, Submitting(g)
       PROVE  Submitting(g)' \/ \A n \in Nat : n = Len(requested[g]) => Underway(g, n)'
  <2>1. PICK u \in Threads, j \in Nat : SubmittingAt(g, u, j)
    BY <1>13 DEF Submitting
  <2>2. CASE u # t
    BY <1>12, <2>1, <2>2, OthersSubmit DEF Submitting
  <2>3. CASE u = t
    <3>1. g = f
      BY <1>1, <1>5, <2>1, <2>3, SubmittingIsTop
    <3> QED BY <1>6, <1>11, <3>1
  <2> QED BY <2>2, <2>3
<1> QED BY <1>1, <1>2, <1>13, LostBy

\* AddPendingTimelineSignal() is the only step that requests anything.
LEMMA RequestsUnchanged ==
    ASSUME [Next]_vars, \A t \in Threads : ~FlushSignal(t)
    PROVE  UNCHANGED requested
<1>1. ASSUME NEW t \in Threads, AppCall(t) PROVE UNCHANGED requested
  BY <1>1, AppCallCases DEF Enqueue, FenceSignal, SignalCpuTimelineSemaphore, fenceVars
<1>2. ASSUME NEW t \in Threads, ThreadStep(t), ~FlushSignal(t) PROVE UNCHANGED requested
  BY <1>2 DEF ThreadStep, FlushWait, SubmitWait, FlushStop, FixupAfterFlush, FlushExecute,
     FlushMappings, ReadTimelineValue, SubmitSignal, PublishSignal, EnqueueTimelineSemaphore,
     FlushSignalOnCpu, EndOfOps, TakeBlockedQueues, FlushNextQueue, EndOfRound,
     UpdatePendingValue, SignalCpuTimelineSemaphore, fenceVars
<1>3. ASSUME NEW q \in Queues, WorkerSignal(q) PROVE UNCHANGED requested
  BY <1>3 DEF WorkerSignal, SignalTimelineSemaphore
<1>4. ASSUME NEW vq \in VkQueues, Gpu(vq) PROVE UNCHANGED requested
  BY <1>4 DEF Gpu, GpuNext, fenceVars
<1>5. UNCHANGED vars => UNCHANGED requested
  BY DEF vars, fenceVars
<1> QED BY <1>1, <1>2, <1>3, <1>4, <1>5 DEF Next

LEMMA LostStep ==
    ASSUME SingleSignaller, ~SubmitMayFail, QueueInv, GpuInv, SignalInv', UnderwayKept,
           NothingLost, [Next]_vars
    PROVE  NothingLost' /\ RequestsKept
<1>1. FlushInv /\ RequestedOK /\ OpsFit /\ SignalInv
  BY DEF QueueInv, TypeInv, FenceTypeOK, RequestedOK, GpuInv
<1>2. CASE \E t \in Threads : FlushSignal(t)
  BY <1>1, <1>2, LostOfRequest
<1>3. CASE \A t \in Threads : ~FlushSignal(t)
  <2>1. UNCHANGED requested
    BY <1>3, RequestsUnchanged
  <2>2. RequestsKept
    BY <2>1 DEF RequestsKept
  <2>3. ASSUME NEW t \in Threads, AppCall(t) \/ ThreadStep(t), ~ReadTimelineValue(t),
               ~SubmitSignal(t)
        PROVE  NothingLost'
    <3>1. StackMoves(t)
      BY <1>1, <1>3, <2>3, QuietThreads, LoudSteps DEF Quiet
    <3> QED BY <1>1, <2>1, <2>3, <3>1, NotSubmitting, LostOfOther
  <2>4. ASSUME UNCHANGED <<stack, aux_op_queue>> PROVE NothingLost'
    BY <1>1, <2>1, <2>4, LostStill
  <2>5. ASSUME NEW q \in Queues, WorkerSignal(q) PROVE NothingLost'
    BY <2>4, <2>5 DEF WorkerSignal
  <2>6. ASSUME NEW vq \in VkQueues, Gpu(vq) PROVE NothingLost'
    BY <2>4, <2>6 DEF Gpu, queueVars
  <2>7. ASSUME UNCHANGED vars PROVE NothingLost'
    <3>1. UNCHANGED <<stack, aux_op_queue>>
      BY <2>7 DEF vars, queueVars
    <3> QED BY <2>4, <3>1
  <2>8. NothingLost'
    BY <1>1, <2>3, <2>5, <2>6, <2>7, LostOfRead, LostOfSubmit DEF Next
  <2> QED BY <2>2, <2>8
<1> QED BY <1>2, <1>3

-----------------------------------------------------------------------------
(***************************************************************************)
(* The waits, from the call that looks the timeline value up to the        *)
(* VkQueue.                                                                *)
(***************************************************************************)
BacksKept == \A f \in Fences : \A w \in Nat : \A v : Backs(f, w, v) => Backs(f, w, v)'

LEMMA BacksKeptBy ==
    ASSUME RealGrows, RequestsKept
    PROVE  BacksKept
<1> SUFFICES ASSUME NEW f \in Fences, NEW w \in Nat, NEW v, Backs(f, w, v)
             PROVE  Backs(f, w, v)'
  BY DEF BacksKept
<1>1. CASE w = 0
  BY <1>1 DEF Backs, RealGrows
<1>2. CASE w # 0
  BY <1>2 DEF Backs, RequestsKept
<1> QED BY <1>1, <1>2

\* What get_timeline_wait_value_locked() finds for a value that is pending.
LEMMA WaitIsBacked ==
    ASSUME Inv, RequestedOK, CompletedValueIsReal, NEW f \in Fences, NEW v \in Values,
           v <= fence[f].max_pending_value, NEW w \in WaitValues(fence[f], v)
    PROVE  w \in Nat /\ Backs(f, w, v)
<1>1. PICK g \in FenceRecord : g = fence[f] /\ Kept(g, requested[f]) /\ Backed(g)
  BY DEF Inv, TypeInv, FenceTypeOK, GoodFence
<1>2. w \in Nat
  BY <1>1, WaitValueType
<1>3. CASE Reaching(g, v) = {}
  <2>1. w = 0
    BY <1>1, <1>3 DEF WaitValues
  <2>2. PICK p \in PendingValues(g) : g.max_pending_value <= p
    BY <1>1 DEF Backed
  <2>3. v \in Nat /\ p \in Nat /\ g.max_pending_value \in Nat
    BY <1>1, <2>2, FenceAssumption DEF PendingValues, FenceRecord, Signal
  <2>4. v <= p
    BY <1>1, <2>2, <2>3
  <2>5. p = g.value
    BY <1>3, <2>2, <2>4 DEF PendingValues, Reaching
  <2> QED BY <1>1, <1>2, <2>1, <2>4, <2>5 DEF Backs, CompletedValueIsReal
<1>4. CASE Reaching(g, v) # {}
  <2>1. PICK s \in g.semaphores : v <= s.value /\ w = s.timeline_value
    BY <1>1, <1>4 DEF WaitValues, Reaching
  <2>2. PICK n \in g.timeline_value + 1 .. Len(requested[f]) :
            s = [value |-> requested[f][n], timeline_value |-> n]
    BY <1>1, <2>1 DEF Kept
  <2>3. g.timeline_value \in Nat /\ Len(requested[f]) \in Nat
    BY <1>1 DEF FenceRecord, RequestedOK
  <2>4. w = n /\ v <= requested[f][w]
    BY <2>1, <2>2
  <2>5. w # 0 /\ w \in 1 .. Len(requested[f])
    BY <2>2, <2>3, <2>4
  <2> QED BY <1>2, <2>4, <2>5 DEF Backs
<1> QED BY <1>3, <1>4

LEMMA CallsWaitNext ==
    CallsWait' <=> \A t \in Threads : \A k \in 1 .. Len(stack'[t]) : CallWaits(t, k)'
BY DEF CallsWait, CallWaits

LEMMA NoCallWaits ==
    ASSUME NEW t, NEW k, stack'[t][k].fn = "flush_ops" => stack'[t][k].pc # "submit_wait"
    PROVE  CallWaits(t, k)'
BY DEF CallWaits

LEMMA CallWaitsNext ==
    ASSUME NEW t, NEW k, NEW w, NEW op, stack'[t][k].timeline_value = w,
           aux_op_queue'[stack'[t][k].queue][stack'[t][k].i] = op,
           Backs(op.fence, w, op.value)'
    PROVE  CallWaits(t, k)'
BY DEF CallWaits, OpOf, Backs

\* A wait that stays where it is.
LEMMA ResumedWaits ==
    ASSUME FlushInv, CallsWait, BacksKept, NEW u \in Threads, NEW k \in 1 .. Len(stack[u]),
           Resumed(stack[u][k], stack'[u][k]),
           aux_op_queue'[stack[u][k].queue] = aux_op_queue[stack[u][k].queue]
    PROVE  CallWaits(u, k)'
<1>1. SharedTypeOK /\ IndicesFit
  BY DEF FlushInv
<1> DEFINE g == stack[u][k]
           h == stack'[u][k]
<1>2. /\ g.fn = "flush_ops" /\ h.queue = g.queue /\ h.i = g.i
      /\ h.timeline_value = g.timeline_value
      /\ h.pc = "submit_wait" => g.pc = "submit_wait"
  BY DEF Resumed
<1>3. CASE h.pc # "submit_wait"
  BY <1>3, NoCallWaits
<1>4. CASE h.pc = "submit_wait"
  <2>1. g \in FlushFrame /\ g.queue \in Queues
    BY <1>1, <1>2, FlushFrameOf
  <2>2. PICK w \in Nat : w = g.timeline_value
    BY <2>1 DEF FlushFrame
  <2>3. PICK op : op = OpOf(g)
    OBVIOUS
  <2>4. Backs(op.fence, w, op.value)
    BY <1>2, <1>4, <2>2, <2>3 DEF CallsWait, CallWaits
  <2>5. op.fence \in Fences
    <3>1. IndexFits(g, aux_op_queue[g.queue], fence)
      BY <1>1, <1>2 DEF IndicesFit
    <3>2. g.i <= Len(aux_op_queue[g.queue]) /\ op.type = "wait"
      BY <1>2, <1>4, <2>3, <3>1 DEF IndexFits, TypeAt, OpOf
    <3>3. g.i \in Nat /\ g.i >= 1
      BY <1>2, <2>1 DEF FlushFrame, FlushInv, Nested
    <3>4. aux_op_queue[g.queue] \in Seq(Op)
      BY <1>1, <2>1 DEF SharedTypeOK
    <3>5. op \in Op
      BY <2>3, <3>2, <3>3, <3>4, ElementOfSeq DEF OpOf
    <3> QED BY <3>2, <3>5 DEF Op, FenceOp, PlainOp
  <2>6. Backs(op.fence, w, op.value)'
    BY <2>2, <2>4, <2>5 DEF BacksKept
  <2>7. aux_op_queue'[h.queue][h.i] = op
    BY <1>2, <2>3 DEF OpOf
  <2> QED BY <1>2, <2>2, <2>6, <2>7, CallWaitsNext
<1> QED BY <1>3, <1>4

LEMMA CallsWaitMoves ==
    ASSUME FlushInv, CallsWait, BacksKept, NEW t \in Threads, StackMoves(t),
           \A k \in 1 .. Len(stack'[t]) : k = Len(stack[t]) => CallWaits(t, k)'
    PROVE  CallsWait'
<1>1. SharedTypeOK
  BY DEF FlushInv
<1> SUFFICES ASSUME NEW u \in Threads, NEW k \in 1 .. Len(stack'[u]) PROVE CallWaits(u, k)'
  BY CallsWaitNext
<1>2. CASE ~Mid(stack'[u][k])
  BY <1>2, NoCallWaits DEF Mid, MidPcs
<1>3. ASSUME k \in 1 .. Len(stack[u]), u # t \/ k # Len(stack[t]),
             Resumed(stack[u][k], stack'[u][k])
      PROVE  CallWaits(u, k)'
  <2>1. stack[u][k].fn = "flush_ops"
    BY <1>3 DEF Resumed
  <2>2. aux_op_queue'[stack[u][k].queue] = aux_op_queue[stack[u][k].queue]
    BY <1>3, <2>1 DEF StackMoves, AuxKept
  <2> QED BY <1>3, <2>2, ResumedWaits
<1>4. CASE Mid(stack'[u][k]) /\ u # t
  <2>1. stack'[u] = stack[u]
    BY <1>4 DEF StackMoves, OthersStill
  <2> QED BY <1>3, <1>4, <2>1 DEF Resumed, Mid
<1>5. CASE Mid(stack'[u][k]) /\ u = t /\ k # Len(stack[t])
  <2>1. k < Len(stack[t]) /\ Resumed(stack[t][k], stack'[t][k])
    BY <1>5 DEF StackMoves, BelowRemains
  <2>2. Len(stack[t]) \in Nat
    BY <1>1 DEF SharedTypeOK
  <2> QED BY <1>3, <1>5, <2>1, <2>2
<1>6. CASE u = t /\ k = Len(stack[t])
  BY <1>6
<1> QED BY <1>2, <1>4, <1>5, <1>6

LEMMA CallsWaitStill ==
    ASSUME FlushInv, CallsWait, BacksKept, UNCHANGED <<stack, aux_op_queue>>
    PROVE  CallsWait'
<1> SUFFICES ASSUME NEW u \in Threads, NEW k \in 1 .. Len(stack'[u]) PROVE CallWaits(u, k)'
  BY CallsWaitNext
<1>1. CASE ~Mid(stack'[u][k])
  BY <1>1, NoCallWaits DEF Mid, MidPcs
<1>2. CASE Mid(stack'[u][k])
  <2>1. stack'[u] = stack[u] /\ k \in 1 .. Len(stack[u])
    OBVIOUS
  <2>2. Resumed(stack[u][k], stack'[u][k])
    BY <1>2, <2>1 DEF Resumed, Mid
  <2> QED BY <2>1, <2>2, ResumedWaits
<1> QED BY <1>1, <1>2

\* A wait is looked up.
LEMMA CallsWaitLookup ==
    ASSUME QueueInv, Inv, CompletedValueIsReal, CallsWait, BacksKept,
           NEW t \in Threads, FlushWait(t)
    PROVE  CallsWait'
<1>1. FlushInv /\ SharedTypeOK /\ FenceTypeOK /\ RequestedOK
  BY DEF QueueInv, TypeInv, FlushInv, FenceTypeOK, RequestedOK
<1>2. ~Idle(t) /\ Top(t).fn = "flush_ops" /\ CurrentOp(t) \in Op /\ CurrentOp(t).type = "wait"
  BY <1>1, AtOpProperties DEF FlushWait
<1>3. PICK op : op = CurrentOp(t)
  OBVIOUS
<1>4. op.fence \in Fences /\ op.value \in Values
  BY <1>1, <1>2, <1>3, SignalOpType
<1>5. PICK w \in WaitValues(fence[op.fence], op.value) :
          SetTop(t, [Top(t) EXCEPT !.pc = "submit_wait", !.timeline_value = w])
  BY <1>3 DEF FlushWait
<1>6. op.value <= fence[op.fence].max_pending_value /\ UNCHANGED aux_op_queue
  BY <1>3 DEF FlushWait, queueVars
<1>7. w \in Nat /\ Backs(op.fence, w, op.value)
  BY <1>1, <1>4, <1>5, <1>6, WaitIsBacked
<1>8. PICK frame : frame = [Top(t) EXCEPT !.pc = "submit_wait", !.timeline_value = w]
  OBVIOUS
<1>9. StackMoves(t) /\ TopIs(t, frame)
  BY <1>1, <1>2, <1>5, <1>6, <1>7, <1>8, TopMoves
<1>10. frame.timeline_value = w /\ frame.queue = CurrentQueue(t) /\ frame.i = Top(t).i
  <2>1. Top(t) \in FlushFrame /\ Top(t).queue = CurrentQueue(t)
    BY <1>1, <1>2, FlushTop
  <2> QED BY <1>8, <2>1 DEF FlushFrame
<1>11. Backs(op.fence, w, op.value)'
  BY <1>4, <1>7 DEF BacksKept
<1>12. ASSUME NEW k \in 1 .. Len(stack'[t]), k = Len(stack[t]) PROVE CallWaits(t, k)'
  <2>1. stack'[t][k] = frame
    BY <1>9, <1>12 DEF TopIs
  <2>2. aux_op_queue'[stack'[t][k].queue][stack'[t][k].i] = op
    BY <1>3, <1>6, <1>10, <2>1 DEF CurrentOp
  <2> QED BY <1>10, <1>11, <2>1, <2>2, CallWaitsNext
<1> QED BY <1>1, <1>9, <1>12, CallsWaitMoves

LEMMA CallsWaitStep ==
    ASSUME ~SubmitMayFail, QueueInv, Inv, CompletedValueIsReal, CallsWait, BacksKept,
           [Next]_vars
    PROVE  CallsWait'
<1>1. FlushInv
  BY DEF QueueInv
<1>2. ASSUME NEW t \in Threads, AppCall(t) \/ ThreadStep(t), ~FlushWait(t) PROVE CallsWait'
  <2>1. CASE Quiet(t)
    <3>1. \A k \in 1 .. Len(stack'[t]) : k = Len(stack[t]) => CallWaits(t, k)'
      BY <2>1, NoCallWaits DEF Quiet, TopQuiet, Mid, MidPcs
    <3> QED BY <1>1, <2>1, <3>1, CallsWaitMoves DEF Quiet
  <2>2. ASSUME NEW pc, pc # "submit_wait", StackMoves(t), TopAt(t, pc) PROVE CallsWait'
    <3>1. \A k \in 1 .. Len(stack'[t]) : k = Len(stack[t]) => CallWaits(t, k)'
      BY <2>2, NoCallWaits DEF TopAt, TopIs
    <3> QED BY <1>1, <2>2, <3>1, CallsWaitMoves
  <2>3. CASE FlushSignal(t) \/ ReadTimelineValue(t) \/ SubmitSignal(t) \/ PublishSignal(t)
    <3>1. SubmitSignal(t) => SetTop(t, [Top(t) EXCEPT !.pc = "update"])
      BY DEF SubmitSignal
    <3>2. \E pc : pc # "submit_wait" /\ StackMoves(t) /\ TopAt(t, pc)
      BY <2>3, <3>1, LoudSteps
    <3> QED BY <2>2, <3>2
  <2> QED BY <1>1, <1>2, <2>1, <2>3, QuietThreads
<1>3. ASSUME UNCHANGED <<stack, aux_op_queue>> PROVE CallsWait'
  BY <1>1, <1>3, CallsWaitStill
<1>4. ASSUME NEW q \in Queues, WorkerSignal(q) PROVE CallsWait'
  BY <1>3, <1>4 DEF WorkerSignal
<1>5. ASSUME NEW vq \in VkQueues, Gpu(vq) PROVE CallsWait'
  BY <1>3, <1>5 DEF Gpu, queueVars
<1>6. ASSUME UNCHANGED vars PROVE CallsWait'
  <2>1. UNCHANGED <<stack, aux_op_queue>>
    BY <1>6 DEF vars, queueVars
  <2> QED BY <1>3, <2>1
<1> QED BY <1>2, <1>4, <1>5, <1>6, CallsWaitLookup DEF Next

LEMMA BatchesWaitBy ==
    ASSUME BacksKept,
           \A vq \in VkQueues : \A j \in 1 .. Len(vk_queue'[vq]) :
               \E b \in Batch : BatchWaits(b) /\ vk_queue'[vq][j] = b
    PROVE  BatchesWait'
<1> SUFFICES ASSUME NEW vq \in VkQueues, NEW j \in 1 .. Len(vk_queue'[vq]),
                    vk_queue'[vq][j].type = "wait"
             PROVE  Backs(vk_queue[vq][j].fence, vk_queue[vq][j].timeline_value,
                          vk_queue[vq][j].value)'
  BY DEF BatchesWait, BatchWaits
<1>1. PICK b \in Batch : BatchWaits(b) /\ vk_queue'[vq][j] = b
  OBVIOUS
<1>2. b \in SemaphoreBatch
  BY <1>1 DEF Batch, ExecuteBatch
<1>3. PICK f \in Fences, w \in Nat, v \in Values :
          b.fence = f /\ b.timeline_value = w /\ b.value = v
  BY <1>2 DEF SemaphoreBatch
<1>4. Backs(f, w, v)'
  BY <1>1, <1>3 DEF BatchWaits, BacksKept
<1> QED BY <1>1, <1>3, <1>4 DEF Backs

LEMMA BatchInQueue ==
    ASSUME VulkanTypeOK, BatchesWait, NEW vq \in VkQueues, NEW j \in 1 .. Len(vk_queue[vq])
    PROVE  vk_queue[vq][j] \in Batch /\ BatchWaits(vk_queue[vq][j])
<1>1. vk_queue[vq] \in Seq(Batch)
  BY DEF VulkanTypeOK
<1> QED BY <1>1, ElementOfSeq DEF BatchesWait

LEMMA BatchesWaitSame ==
    ASSUME VulkanTypeOK, BatchesWait, BacksKept, UNCHANGED vk_queue
    PROVE  BatchesWait'
BY BatchInQueue, BatchesWaitBy

LEMMA BatchesWaitAppended ==
    ASSUME VulkanTypeOK, BatchesWait, BacksKept, NEW c \in VkQueues, NEW b \in Batch,
           BatchWaits(b), VkQueueSubmit(c, b)
    PROVE  BatchesWait'
<1>1. vk_queue[c] \in Seq(Batch)
  BY DEF VulkanTypeOK
<1>2. PICK s : s = Append(vk_queue[c], b)
  OBVIOUS
<1>3. PICK l \in Nat : l = Len(vk_queue[c])
  BY <1>1
<1>4. Len(s) = l + 1 /\ s[l + 1] = b /\ \A k \in 1 .. l : s[k] = vk_queue[c][k]
  BY <1>1, <1>2, <1>3, AppendTo
<1>5. \A vq \in VkQueues : vk_queue'[vq] = IF vq = c THEN s ELSE vk_queue[vq]
  BY <1>2 DEF VkQueueSubmit, VulkanTypeOK
<1>6. ASSUME NEW vq \in VkQueues, NEW j \in 1 .. Len(vk_queue'[vq])
      PROVE  \E d \in Batch : BatchWaits(d) /\ vk_queue'[vq][j] = d
  <2>1. CASE vq # c
    BY <1>5, <2>1, BatchInQueue
  <2>2. CASE vq = c /\ j = l + 1
    BY <1>4, <1>5, <2>2
  <2>3. CASE vq = c /\ j # l + 1
    <3>1. j \in 1 .. l
      BY <1>4, <1>5, <2>3
    <3> QED BY <1>3, <1>4, <1>5, <2>3, <3>1, BatchInQueue
  <2> QED BY <2>1, <2>2, <2>3
<1> QED BY <1>6, BatchesWaitBy

LEMMA BatchesWaitStep ==
    ASSUME QueueInv, CallsWait, BatchesWait, BacksKept, [Next]_vars
    PROVE  BatchesWait'
<1>1. FlushInv /\ VulkanTypeOK
  BY DEF QueueInv, DataTypeOK
<1>2. CASE UNCHANGED vk_queue
  BY <1>1, <1>2, BatchesWaitSame
<1>3. ASSUME NEW c \in VkQueues, NEW b \in Batch, b.type # "wait", VkQueueSubmit(c, b)
      PROVE  BatchesWait'
  BY <1>1, <1>3, BatchesWaitAppended DEF BatchWaits
<1>4. ASSUME NEW t \in Threads, SubmitWait(t) PROVE BatchesWait'
  <2>1. InFlush(t, "submit_wait")
    BY <1>4 DEF SubmitWait
  <2>2. /\ ~Idle(t) /\ Top(t).fn = "flush_ops" /\ Top(t).pc = "submit_wait"
        /\ CurrentOp(t) \in Op /\ CurrentOp(t).type = "wait"
    BY <1>1, <2>1, MidOpProperties DEF TypeAt
  <2>3. PICK b : b = [type |-> "wait", fence |-> CurrentOp(t).fence,
                      timeline_value |-> Top(t).timeline_value, value |-> CurrentOp(t).value]
    OBVIOUS
  <2>4. b \in Batch
    BY <1>1, <2>2, <2>3, BatchType
  <2>5. PICK c \in VkQueues : c = VkQueueOf[CurrentQueue(t)]
    BY <1>1, <2>2, FlushTop, QueueAssumption
  <2>6. VkQueueSubmit(c, b) \/ UNCHANGED vk_queue
    BY <1>4, <2>3, <2>5 DEF SubmitWait, vulkanVars
  <2>7. CallWaits(t, Len(stack[t]))
    <3>1. Len(stack[t]) \in 1 .. Len(stack[t])
      BY <1>1, <2>2, TopIsFlushed DEF FlushInv
    <3> QED BY <3>1 DEF CallsWait
  <2>8. Backs(CurrentOp(t).fence, Top(t).timeline_value, CurrentOp(t).value)
    BY <2>2, <2>7 DEF CallWaits, Top, OpOf, CurrentOp, CurrentQueue
  <2>9. BatchWaits(b)
    BY <2>3, <2>8 DEF BatchWaits
  <2> QED BY <1>1, <1>2, <2>4, <2>6, <2>9, BatchesWaitAppended
<1>5. ASSUME NEW t \in Threads, FlushExecute(t) PROVE BatchesWait'
  <2>1. ~Idle(t) /\ Top(t).fn = "flush_ops"
    BY <1>5 DEF FlushExecute, AtOp, InFlush
  <2>2. PICK c \in VkQueues : c = VkQueueOf[CurrentQueue(t)]
    BY <1>1, <2>1, FlushTop, QueueAssumption
  <2>3. VkQueueSubmit(c, ExecuteBatch) \/ UNCHANGED vk_queue
    BY <1>5, <2>2 DEF FlushExecute, vulkanVars
  <2>4. ExecuteBatch \in Batch /\ ExecuteBatch.type # "wait"
    BY DEF Batch, ExecuteBatch
  <2> QED BY <1>2, <1>3, <2>3, <2>4
<1>6. ASSUME NEW t \in Threads, SubmitSignal(t) PROVE BatchesWait'
  <2>1. InFlush(t, "submit_signal")
    BY <1>6 DEF SubmitSignal
  <2>2. /\ ~Idle(t) /\ Top(t).fn = "flush_ops"
        /\ CurrentOp(t) \in Op /\ CurrentOp(t).type = "signal"
    BY <1>1, <2>1, MidOpProperties DEF TypeAt
  <2>3. PICK f \in Fences, v \in Values : f = CurrentOp(t).fence /\ v = CurrentOp(t).value
    BY <1>1, <2>2, SignalOpType
  <2>4. PICK w \in Nat : w = Top(t).timeline_value
    BY <1>1, <2>2, FlushTop DEF FlushFrame
  <2>5. PICK b : b = [type |-> "signal", fence |-> f, timeline_value |-> w, value |-> v]
    OBVIOUS
  <2>6. b \in Batch /\ b.type # "wait"
    BY <2>5 DEF Batch, SemaphoreBatch
  <2>7. PICK c \in VkQueues : c = VkQueueOf[CurrentQueue(t)]
    BY <1>1, <2>2, FlushTop, QueueAssumption
  <2>8. VkQueueSubmit(c, b) \/ UNCHANGED vk_queue
    BY <1>6, <2>3, <2>4, <2>5, <2>7 DEF SubmitSignal, vulkanVars
  <2> QED BY <1>2, <1>3, <2>6, <2>8
<1>7. ASSUME NEW vq \in VkQueues, Gpu(vq) PROVE BatchesWait'
  <2>1. vk_queue[vq] # <<>> /\ PopBatch(vq)
    BY <1>7 DEF Gpu, GpuNext, GpuExecute, GpuWait, GpuSignal
  <2>2. \A c \in VkQueues : \A j \in 1 .. Len(vk_queue'[c]) :
            \E i \in 1 .. Len(vk_queue[c]) : vk_queue'[c][j] = vk_queue[c][i]
    BY <1>1, <2>1, PoppedSignals
  <2> QED BY <1>1, <2>2, BatchInQueue, BatchesWaitBy
<1>8. ASSUME NEW t \in Threads, ThreadStep(t), ~SubmitWait(t), ~FlushExecute(t), ~SubmitSignal(t)
      PROVE  UNCHANGED vk_queue
  BY <1>8 DEF ThreadStep, FlushWait, FlushStop, FixupAfterFlush, FlushMappings, FlushSignal,
     ReadTimelineValue, PublishSignal, EnqueueTimelineSemaphore, FlushSignalOnCpu, EndOfOps,
     TakeBlockedQueues, FlushNextQueue, EndOfRound, RecordCpuValue, vulkanVars
<1>9. ASSUME NEW t \in Threads, AppCall(t) PROVE UNCHANGED vk_queue
  BY <1>9, AppCallCases DEF Enqueue, FenceSignal, RecordCpuValue, vulkanVars
<1>10. ASSUME NEW q \in Queues, WorkerSignal(q) PROVE UNCHANGED vk_queue
  BY <1>10 DEF WorkerSignal, vulkanVars
<1>11. UNCHANGED vars => UNCHANGED vk_queue
  BY DEF vars, vulkanVars
<1> QED BY <1>2, <1>4, <1>5, <1>6, <1>7, <1>8, <1>9, <1>10, <1>11 DEF Next

-----------------------------------------------------------------------------
(***************************************************************************)
(* The invariant of the waits, and what the GPU makes of it.               *)
(***************************************************************************)
LEMMA WaitInvInit == Init => WaitInv
<1> SUFFICES ASSUME Init PROVE WaitInv
  OBVIOUS
<1>1. /\ \A t \in Threads : Len(stack[t]) = 0
      /\ \A vq \in VkQueues : Len(vk_queue[vq]) = 0
      /\ \A f \in Fences : Len(requested[f]) = 0
  BY EmptySeq DEF Init, FenceInit, VulkanInit
<1> QED BY <1>1 DEF WaitInv, NothingLost, CallsWait, BatchesWait

LEMMA WaitInvStep ==
    ASSUME SingleSignaller, ~SubmitMayFail, QueueInv, Inv, GpuInv, WaitInv, [Next]_vars
    PROVE  WaitInv'
<1>1. UnderwayKept /\ RealGrows /\ SignalInv' /\ CompletedValueIsReal
  BY GpuInvStep DEF GpuInv
<1>2. NothingLost' /\ RequestsKept
  BY <1>1, LostStep DEF WaitInv
<1>3. BacksKept
  BY <1>1, <1>2, BacksKeptBy
<1>4. CallsWait'
  BY <1>1, <1>3, CallsWaitStep DEF WaitInv
<1>5. BatchesWait'
  BY <1>3, BatchesWaitStep DEF WaitInv
<1> QED BY <1>2, <1>4, <1>5 DEF WaitInv

LEMMA WaitInvAlways ==
    SingleSignaller /\ ~SubmitMayFail => (Spec => [](QueueInv /\ Inv /\ GpuInv /\ WaitInv))
<1> SUFFICES ASSUME SingleSignaller, ~SubmitMayFail
             PROVE  Spec => [](QueueInv /\ Inv /\ GpuInv /\ WaitInv)
  OBVIOUS
<1>1. Init => WaitInv
  BY WaitInvInit
<1>2. QueueInv /\ Inv /\ GpuInv /\ WaitInv /\ [Next]_vars => WaitInv'
  BY WaitInvStep
<1> QED BY <1>1, <1>2, GpuInvAlways, PTL DEF Spec

\* The GPU goes past a wait when the semaphore is at the value it waits for.
LEMMA PassedWait ==
    ASSUME VulkanTypeOK, NEW vq \in VkQueues, vk_queue[vq] # <<>>,
           Head(vk_queue[vq]).type = "wait", vk_queue'[vq] = Tail(vk_queue[vq]), Next
    PROVE  semaphore[Head(vk_queue[vq]).fence] >= Head(vk_queue[vq]).timeline_value
<1>1. vk_queue[vq] \in Seq(Batch)
  BY DEF VulkanTypeOK
<1>2. PICK l \in Nat : l = Len(vk_queue[vq]) /\ Len(vk_queue'[vq]) = l - 1
  <2>1. Len(Tail(vk_queue[vq])) = Len(vk_queue[vq]) - 1 /\ Len(vk_queue[vq]) \in Nat
    BY <1>1, HeadTailProperties, EmptySeq
  <2> QED BY <2>1
<1>3. ASSUME NEW c, NEW b, VkQueueSubmit(c, b) PROVE FALSE
  <2>1. vk_queue' = [vk_queue EXCEPT ![c] = Append(vk_queue[c], b)]
    BY <1>3 DEF VkQueueSubmit
  <2>2. vk_queue'[vq] = Append(vk_queue[vq], b) \/ vk_queue'[vq] = vk_queue[vq]
    BY <2>1 DEF VulkanTypeOK
  <2>3. Len(Append(vk_queue[vq], b)) = Len(vk_queue[vq]) + 1
    BY <1>1
  <2>4. vk_queue'[vq] # vk_queue[vq]
    <3>1. l - 1 # l
      BY <1>2
    <3> QED BY <1>2, <3>1
  <2>5. l - 1 # l + 1
    BY <1>2
  <2> QED BY <1>2, <2>2, <2>3, <2>4, <2>5
<1>4. vk_queue'[vq] # vk_queue[vq] /\ ~UNCHANGED vk_queue
  <2>1. l - 1 # l
    BY <1>2
  <2> QED BY <1>2, <2>1
<1>5. ASSUME NEW t \in Threads, AppCall(t) PROVE FALSE
  BY <1>4, <1>5, AppCallCases DEF Enqueue, FenceSignal, RecordCpuValue, vulkanVars
<1>6. ASSUME NEW t \in Threads, ThreadStep(t) PROVE FALSE
  <2>1. CASE SubmitWait(t) \/ FlushExecute(t) \/ SubmitSignal(t)
    BY <1>3, <1>4, <2>1 DEF SubmitWait, FlushExecute, SubmitSignal, vulkanVars
  <2>2. CASE ~SubmitWait(t) /\ ~FlushExecute(t) /\ ~SubmitSignal(t)
    BY <1>4, <1>6, <2>2 DEF ThreadStep, FlushWait, FlushStop, FixupAfterFlush, FlushMappings,
       FlushSignal, ReadTimelineValue, PublishSignal, EnqueueTimelineSemaphore,
       FlushSignalOnCpu, EndOfOps, TakeBlockedQueues, FlushNextQueue, EndOfRound,
       RecordCpuValue, vulkanVars
  <2> QED BY <2>1, <2>2
<1>7. ASSUME NEW q \in Queues, WorkerSignal(q) PROVE FALSE
  BY <1>4, <1>7 DEF WorkerSignal, vulkanVars
<1>8. PICK c \in VkQueues : Gpu(c)
  BY <1>5, <1>6, <1>7 DEF Next
<1>9. c = vq
  <2>1. PopBatch(c)
    BY <1>8 DEF Gpu, GpuNext, GpuExecute, GpuWait, GpuSignal
  <2>2. c # vq => vk_queue'[vq] = vk_queue[vq]
    BY <2>1 DEF PopBatch, VulkanTypeOK
  <2> QED BY <1>4, <2>2
<1> QED BY <1>8, <1>9 DEF Gpu, GpuNext, GpuExecute, GpuWait, GpuSignal

\* The value a timeline value stands for is real once the semaphore has it.
LEMMA PassedIsReal ==
    ASSUME QueueInv, GpuInv, WaitInv, NEW f \in Fences, NEW w \in Nat, NEW v \in Values,
           Backs(f, w, v), w <= semaphore[f]
    PROVE  \E r \in real_values[f] : r >= v
<1>1. /\ VulkanTypeOK /\ RequestedOK /\ BatchesFit /\ SemaphoreFits /\ FramesFit
      /\ NothingLost
  BY DEF QueueInv, DataTypeOK, TypeInv, FenceTypeOK, RequestedOK, GpuInv, SignalInv, WaitInv
<1>2. \A r \in real_values[f] : r \in Nat
  BY <1>1, FenceAssumption DEF VulkanTypeOK
<1>3. v \in Nat
  BY FenceAssumption
<1>4. CASE w = 0
  <2>1. PICK r \in real_values[f] : v <= r
    BY <1>4 DEF Backs
  <2>2. r >= v
    BY <1>2, <1>3, <2>1
  <2> QED BY <2>2
<1>5. CASE w # 0
  <2>1. w \in 1 .. Len(requested[f]) /\ v <= requested[f][w]
    BY <1>5 DEF Backs
  <2>2. CASE Underway(f, w)
    <3>1. requested[f][w] \in real_values[f]
      BY <1>1, <2>2, ReachedIsReal
    <3>2. requested[f][w] >= v
      BY <1>2, <1>3, <2>1, <3>1
    <3> QED BY <3>1, <3>2
  <2>3. CASE w = Len(requested[f]) /\ Submitting(f)
    <3>1. PICK t \in Threads, k \in Nat : SubmittingAt(f, t, k)
      BY <2>3 DEF Submitting
    <3>2. /\ k \in 1 .. Len(stack[t]) /\ stack[t][k].fn = "flush_ops"
          /\ stack[t][k].pc \in {"read_value", "submit_signal"}
          /\ OpOf(stack[t][k]).fence = f
      BY <3>1 DEF SubmittingAt
    <3>3. Len(requested[f]) > semaphore[f]
      BY <1>1, <3>2 DEF FramesFit, FrameFits, Unsubmitted
    <3>4. semaphore[f] \in Nat
      BY <1>1 DEF VulkanTypeOK
    <3> QED BY <2>3, <3>3, <3>4
  <2> QED BY <1>1, <2>1, <2>2, <2>3 DEF NothingLost
<1> QED BY <1>4, <1>5

\* ID3D12CommandQueue::Wait() is honest: when no fence is signalled by two
\* queues and no submission fails, the GPU goes past a wait only after the
\* fence was given a value that reaches it, by the GPU or by the CPU.
THEOREM WaitsAreHonoured == SingleSignaller /\ ~SubmitMayFail => (Spec => WaitsHonoured)
<1> SUFFICES ASSUME SingleSignaller, ~SubmitMayFail PROVE Spec => WaitsHonoured
  OBVIOUS
<1> DEFINE Honoured(vq) ==
        (/\ vk_queue[vq] # <<>> /\ Head(vk_queue[vq]).type = "wait"
         /\ vk_queue'[vq] = Tail(vk_queue[vq]))
        => \E v \in real_values[Head(vk_queue[vq]).fence] : v >= Head(vk_queue[vq]).value
<1>1. ASSUME QueueInv, GpuInv, WaitInv, Next, NEW vq \in VkQueues PROVE Honoured(vq)
  <2> SUFFICES ASSUME vk_queue[vq] # <<>>, Head(vk_queue[vq]).type = "wait",
                      vk_queue'[vq] = Tail(vk_queue[vq])
               PROVE  \E v \in real_values[Head(vk_queue[vq]).fence] :
                          v >= Head(vk_queue[vq]).value
    OBVIOUS
  <2>1. VulkanTypeOK /\ BatchesWait
    BY <1>1 DEF QueueInv, DataTypeOK, WaitInv
  <2>2. PICK h \in Batch : h = Head(vk_queue[vq]) /\ BatchWaits(h)
    <3>1. vk_queue[vq] \in Seq(Batch)
      BY <2>1 DEF VulkanTypeOK
    <3>2. Head(vk_queue[vq]) = vk_queue[vq][1] /\ 1 \in 1 .. Len(vk_queue[vq])
      BY <3>1, EmptySeq
    <3> QED BY <2>1, <3>2, BatchInQueue
  <2>3. PICK f \in Fences, w \in Nat, v \in Values :
            h.fence = f /\ h.timeline_value = w /\ h.value = v
    <3>1. h \in SemaphoreBatch
      BY <2>2 DEF Batch, ExecuteBatch
    <3> QED BY <3>1 DEF SemaphoreBatch
  <2>4. Backs(f, w, v)
    BY <2>2, <2>3 DEF BatchWaits
  <2>5. w <= semaphore[f]
    <3>1. semaphore[f] >= w
      BY <1>1, <2>1, <2>2, <2>3, PassedWait
    <3>2. semaphore[f] \in Nat
      BY <2>1 DEF VulkanTypeOK
    <3> QED BY <3>1, <3>2
  <2>6. \E r \in real_values[f] : r >= v
    BY <1>1, <2>4, <2>5, PassedIsReal
  <2> QED BY <2>2, <2>3, <2>6
<1>2. QueueInv /\ GpuInv /\ WaitInv /\ Next => \A vq \in VkQueues : Honoured(vq)
  BY <1>1
<1>3. QueueInv /\ Inv /\ GpuInv /\ WaitInv /\ [Next]_vars
          => [\A vq \in VkQueues : Honoured(vq)]_vars
  BY <1>2
<1>4. Spec => [][\A vq \in VkQueues : Honoured(vq)]_vars
  BY <1>3, WaitInvAlways, PTL DEF Spec
<1> QED BY <1>4 DEF WaitsHonoured

-----------------------------------------------------------------------------
(***************************************************************************)
(* What an application with one thread can rely on.  With two threads the  *)
(* code does not keep it (CommandQueueLostWakeup and                       *)
(* CommandQueueSignaledFence): between two critical sections of a call the *)
(* other thread raises a pending value, or submits a wait.  The call of a  *)
(* single thread stands still while the GPU and the workers run, so its    *)
(* top frame tells how far it is.                                          *)
(***************************************************************************)
OneThread == \A t, u \in Threads : t = u

\* A signal of f has been added, but is not in max_pending_value yet.
PublishPcs == {"read_value", "submit_signal", "update"}
Publishing(f) == \E t \in Threads : \E pc \in PublishPcs :
    InFlush(t, pc) /\ CurrentOp(t).fence = f

\* A call is about to take the blocked list.
Taking == \E t \in Threads : InBlocked(t, "take")

\* max_pending_value is up to date unless a signal is being published.
Settled(f) == \A p \in PendingValues(fence[f]) : p <= fence[f].max_pending_value
MaxFits == \A f \in Fences : Settled(f) \/ Publishing(f)

\* A flush that stops at a wait, and a queue on the list, are right to wait, or
\* somebody is about to come for the queues on the list.
Pending(op) == op.value <= fence[op.fence].max_pending_value

StopFits == \A t \in Threads : InFlush(t, "fixup") => ~Pending(CurrentOp(t))

Stuck(op) == op.type = "wait" /\ (~Pending(op) \/ Publishing(op.fence) \/ Taking)

ListFits == \A q \in Queues : \A j \in Nat : OnList(q, j) => Stuck(Head(op_queue[q]))

WakeInv == MaxFits /\ StopFits /\ ListFits

-----------------------------------------------------------------------------
(***************************************************************************)
(* The top frame after a step.                                             *)
(***************************************************************************)
LEMMA TopSet ==
    ASSUME SharedTypeOK, NEW t \in Threads, ~Idle(t), NEW frame \in Frame, SetTop(t, frame)
    PROVE  ~Idle(t)' /\ Top(t)' = frame
<1>1. PICK n \in Nat : n = Len(stack[t])
  BY DEF SharedTypeOK
<1>2. n # 0
  BY <1>1, EmptySeq DEF SharedTypeOK, Idle
<1>3. Len(stack'[t]) = n /\ stack'[t][n] = frame
  BY <1>1, SetTopEffect
<1> QED BY <1>2, <1>3 DEF Idle, Top

LEMMA TopCalled ==
    ASSUME SharedTypeOK, NEW t \in Threads, ~Idle(t), NEW frame \in Frame,
           NEW callee \in Frame, Call(t, frame, callee)
    PROVE  ~Idle(t)' /\ Top(t)' = callee
<1>1. PICK n \in Nat : n = Len(stack[t])
  BY DEF SharedTypeOK
<1>2. Len(stack'[t]) = n + 1 /\ stack'[t][n + 1] = callee
  BY <1>1, CallEffect
<1> QED BY <1>2 DEF Idle, Top

LEMMA TopStarted ==
    ASSUME SharedTypeOK, NEW t \in Threads, NEW frame \in Frame,
           stack' = [stack EXCEPT ![t] = <<frame>>]
    PROVE  ~Idle(t)' /\ Top(t)' = frame
<1>1. Len(stack'[t]) = 1 /\ stack'[t][1] = frame
  BY StartEffect
<1> QED BY <1>1 DEF Idle, Top

\* A thread between operations, entries or calls.
Plain(t) == Idle(t) \/ Top(t).pc \in {"op", "enqueue", "flush"}

LEMMA TopReturned ==
    ASSUME FlushInv, NEW t \in Threads, ~Idle(t), NEW flushed \in BOOLEAN,
           NEW ok \in BOOLEAN, Return(t, flushed, ok)
    PROVE  Plain(t)'
<1>1. SharedTypeOK /\ Nested /\ IndicesFit
  BY DEF FlushInv
<1>2. PICK n \in Nat : n = Len(stack[t])
  BY <1>1 DEF SharedTypeOK
<1> DEFINE g == stack[t][n - 1]
           h == Resume(g, flushed, ok)
<1>3. ASSUME n > 1
      PROVE  h \in Frame /\ h.pc \in {"op", "enqueue", "flush"}
  <2>1. /\ g \in Frame /\ g.i >= 1
        /\ IF g.fn = "flush_ops" THEN g.pc \in {"signal_flush", "cpu_flush"}
           ELSE g.pc = "flush"
    BY <1>1, <1>2, <1>3, CallerOfTop
  <2>2. CASE g.fn = "flush_ops"
    <3>1. n - 1 \in 1 .. Len(stack[t])
      BY <1>2, <1>3
    <3>2. g \in FlushFrame /\ g.queue \in Queues
      BY <1>1, <2>2, <3>1, FlushFrameOf
    <3>3. IndexFits(g, aux_op_queue[g.queue], fence) /\ aux_op_queue[g.queue] \in Seq(Op)
      BY <1>1, <2>2, <3>1, <3>2 DEF IndicesFit, SharedTypeOK
    <3>4. h \in FlushFrame /\ h.pc \in {"enqueue", "op"}
      BY <2>1, <2>2, <3>2, <3>3, ResumeFlush
    <3> QED BY <3>4 DEF Frame
  <2>3. CASE g.fn # "flush_ops"
    <3>1. g \in BlockedFrame
      BY <2>1, <2>3, FrameCases
    <3>2. h \in Frame /\ h.pc = g.pc
      BY <3>1, ResumeBlocked
    <3> QED BY <2>1, <2>3, <3>2
  <2> QED BY <2>2, <2>3
<1> HIDE DEF h
<1>4. n > 0 /\ Len(stack'[t]) = n - 1 /\ (n > 1 => stack'[t][n - 1] = h)
  <2>1. n > 1 => Resume(stack[t][n - 1], flushed, ok) \in Frame
    BY <1>3 DEF h
  <2> QED BY <1>1, <1>2, <2>1, ReturnEffect DEF h
<1>5. CASE n = 1
  <2>1. stack'[t] = <<>>
    <3>1. stack'[t] \in Seq(Frame)
      <4>1. n > 1 => Resume(stack[t][n - 1], flushed, ok) \in Frame
        BY <1>5
      <4>2. stack' \in [Threads -> Seq(Frame)]
        BY <1>1, <1>2, <4>1, ReturnEffect
      <4> QED BY <4>2
    <3>2. Len(stack'[t]) = 0
      BY <1>4, <1>5
    <3> QED BY <3>1, <3>2, EmptySeq
  <2> QED BY <2>1 DEF Plain, Idle
<1>6. CASE n > 1
  BY <1>3, <1>4, <1>6 DEF Plain, Top
<1> QED BY <1>4, <1>5, <1>6

\* The flush moves to another step of the same operation.
LEMMA FlushGoesTo ==
    ASSUME FlushInv, NEW t \in Threads, ~Idle(t), Top(t).fn = "flush_ops",
           NEW pc \in {"fixup", "submit_wait", "read_value", "submit_signal", "update"},
           NEW w \in Nat,
           SetTop(t, [Top(t) EXCEPT !.pc = pc, !.timeline_value = w]),
           UNCHANGED aux_op_queue
    PROVE  /\ InFlush(t, pc)' /\ Top(t)'.pc = pc /\ Top(t)'.timeline_value = w
           /\ CurrentOp(t)' = CurrentOp(t)
<1>1. SharedTypeOK
  BY DEF FlushInv
<1>2. Top(t) \in FlushFrame /\ Top(t).queue = CurrentQueue(t)
  BY FlushTop
<1>3. PICK frame : frame = [Top(t) EXCEPT !.pc = pc, !.timeline_value = w]
  OBVIOUS
<1>4. /\ frame \in FlushFrame /\ frame.fn = "flush_ops" /\ frame.pc = pc
      /\ frame.queue = Top(t).queue /\ frame.i = Top(t).i /\ frame.timeline_value = w
  BY <1>2, <1>3 DEF FlushFrame
<1>5. frame \in Frame
  BY <1>4 DEF Frame
<1>6. ~Idle(t)' /\ Top(t)' = frame
  BY <1>1, <1>3, <1>5, TopSet
<1>7. CurrentOp(t)' = CurrentOp(t)
  BY <1>2, <1>4, <1>6 DEF CurrentOp, CurrentQueue
<1> QED BY <1>4, <1>6, <1>7 DEF InFlush

LEMMA FlushGoesOnTo ==
    ASSUME FlushInv, NEW t \in Threads, ~Idle(t), Top(t).fn = "flush_ops",
           NEW pc \in {"fixup", "submit_wait", "read_value", "submit_signal", "update"},
           SetTop(t, [Top(t) EXCEPT !.pc = pc]), UNCHANGED aux_op_queue
    PROVE  /\ InFlush(t, pc)' /\ Top(t)'.pc = pc
           /\ CurrentOp(t)' = CurrentOp(t)
<1>1. Top(t) \in FlushFrame
  BY FlushTop
<1>2. PICK v \in Nat : v = Top(t).timeline_value
  BY <1>1 DEF FlushFrame
<1>3. [Top(t) EXCEPT !.pc = pc] = [Top(t) EXCEPT !.pc = pc, !.timeline_value = v]
  BY <1>1, <1>2 DEF FlushFrame
<1>4. SetTop(t, [Top(t) EXCEPT !.pc = pc, !.timeline_value = v])
  BY <1>3
<1> QED BY <1>4, FlushGoesTo

\* The steps after which the thread is between two operations, entries or calls.
PlainStep(t) ==
    \/ \E q \in Queues : \E op : Enqueue(t, q, op)
    \/ SubmitWait(t) \/ FixupAfterFlush(t) \/ FlushExecute(t) \/ FlushMappings(t)
    \/ SubmitSignal(t) /\ SetTop(t, OpDone(Top(t))) /\ SubmitMayFail
    \/ EnqueueTimelineSemaphore(t) \/ EndOfOps(t)
    \/ TakeBlockedQueues(t) \/ FlushNextQueue(t)
    \/ EndOfRound(t) /\ Return(t, FALSE, Top(t).ok)

\* Those after which it comes for the blocked list.
ListStep(t) ==
    \/ PublishSignal(t) \/ FlushSignalOnCpu(t)
    \/ \E f \in Fences, v \in Values : FenceSignal(t, f, v)
    \/ EndOfRound(t) /\ SetTop(t, [Top(t) EXCEPT !.pc = "take", !.queues = <<>>])

\* Those that bring it further in a signal or a wait.
MovesTo(t, pc) == InFlush(t, pc)' /\ Top(t)'.pc = pc /\ CurrentOp(t)' = CurrentOp(t)

MidStep(t, pc) ==
    \/ FlushWait(t) /\ pc = "submit_wait"
    \/ FlushStop(t) /\ pc = "fixup"
    \/ FlushSignal(t) /\ pc = "read_value"
    \/ ReadTimelineValue(t) /\ pc = "submit_signal"
    \/ SubmitSignal(t) /\ SetTop(t, [Top(t) EXCEPT !.pc = "update"]) /\ pc = "update"

MidStepPcs == {"submit_wait", "fixup", "read_value", "submit_signal", "update"}

LEMMA StepCases ==
    ASSUME NEW t \in Threads, AppCall(t) \/ ThreadStep(t)
    PROVE  PlainStep(t) \/ ListStep(t) \/ \E pc \in MidStepPcs : MidStep(t, pc)
<1>1. CASE AppCall(t)
  BY <1>1, AppCallCases DEF PlainStep, ListStep
<1>2. CASE SubmitSignal(t)
  <2>1. \/ SetTop(t, [Top(t) EXCEPT !.pc = "update"])
        \/ SetTop(t, OpDone(Top(t))) /\ SubmitMayFail
    BY <1>2 DEF SubmitSignal
  <2> QED BY <1>2, <2>1 DEF PlainStep, MidStep, MidStepPcs
<1>3. CASE EndOfRound(t)
  <2>1. \/ SetTop(t, [Top(t) EXCEPT !.pc = "take", !.queues = <<>>])
        \/ Return(t, FALSE, Top(t).ok)
    BY <1>3 DEF EndOfRound
  <2> QED BY <1>3, <2>1 DEF PlainStep, ListStep
<1>4. CASE FlushWait(t) \/ FlushStop(t) \/ FlushSignal(t) \/ ReadTimelineValue(t)
  BY <1>4 DEF MidStep, MidStepPcs
<1>5. CASE PublishSignal(t) \/ FlushSignalOnCpu(t)
  BY <1>5 DEF ListStep
<1> QED BY <1>1, <1>2, <1>3, <1>4, <1>5 DEF ThreadStep, PlainStep

LEMMA DoneIsPlain ==
    ASSUME FlushInv, NEW t \in Threads, ~Idle(t), Top(t).fn = "flush_ops",
           SetTop(t, OpDone(Top(t)))
    PROVE  Plain(t)'
<1>1. Top(t) \in FlushFrame
  BY FlushTop
<1>2. PICK f : f = OpDone(Top(t))
  OBVIOUS
<1>3. f \in FlushFrame /\ f.pc = "op"
  <2>1. Top(t).i \in Nat /\ Top(t).i + 1 \in Nat
    BY <1>1 DEF FlushFrame
  <2>2. PICK g \in FlushFrame : g = Top(t)
    BY <1>1
  <2>3. OpDone(g) \in FlushFrame
    BY <2>1, <2>2 DEF OpDone, FlushFrame
  <2>4. OpDone(g).pc = "op"
    BY DEF OpDone, FlushFrame
  <2> QED BY <1>2, <2>2, <2>3, <2>4
<1>4. f \in Frame /\ SharedTypeOK
  BY <1>3 DEF Frame, FlushInv
<1>5. Top(t)' = f
  BY <1>2, <1>4, TopSet
<1> QED BY <1>3, <1>5 DEF Plain

LEMMA BlockedIsPlain ==
    ASSUME FlushInv, NEW t \in Threads, NEW frame \in BlockedFrame, frame.pc = "flush",
           ~Idle(t), SetTop(t, frame)
    PROVE  Plain(t)'
<1>1. frame \in Frame /\ SharedTypeOK
  BY DEF Frame, FlushInv
<1>2. Top(t)' = frame
  BY <1>1, TopSet
<1> QED BY <1>2 DEF Plain

LEMMA PlainNext ==
    ASSUME FlushInv, NEW t \in Threads, PlainStep(t)
    PROVE  Plain(t)'
<1>1. SharedTypeOK
  BY DEF FlushInv
<1>2. ASSUME NEW c \in Queues, NEW op, Enqueue(t, c, op) PROVE Plain(t)'
  <2>1. Idle(t)
    BY <1>2 DEF Enqueue
  <2>2. CASE UNCHANGED stack
    BY <2>1, <2>2 DEF Plain, Idle
  <2>3. CASE stack' = [stack EXCEPT ![t] = <<FlushOps(c)>>]
    <3>1. FlushOps(c) \in Frame /\ FlushOps(c).pc = "op"
      BY QuietFlushes DEF FlushOps
    <3>2. Top(t)' = FlushOps(c)
      BY <1>1, <2>3, <3>1, TopStarted
    <3> QED BY <3>1, <3>2 DEF Plain
  <2> QED BY <1>2, <2>2, <2>3 DEF Enqueue
<1>3. CASE \/ SubmitWait(t) \/ FlushExecute(t) \/ FlushMappings(t)
           \/ SubmitSignal(t) /\ SetTop(t, OpDone(Top(t))) /\ SubmitMayFail
           \/ EnqueueTimelineSemaphore(t)
  <2>1. SetTop(t, OpDone(Top(t)))
    BY <1>3 DEF SubmitWait, FlushExecute, FlushMappings, EnqueueTimelineSemaphore
  <2>2. ~Idle(t) /\ Top(t).fn = "flush_ops"
    BY <1>3 DEF SubmitWait, FlushExecute, FlushMappings, SubmitSignal,
       EnqueueTimelineSemaphore, AtOp, InFlush
  <2> QED BY <2>1, <2>2, DoneIsPlain
<1>4. CASE FixupAfterFlush(t) \/ EndOfOps(t)
  <2>1. ~Idle(t) /\ Top(t).fn = "flush_ops"
    BY <1>4 DEF FixupAfterFlush, EndOfOps, InFlush
  <2>2. Top(t) \in FlushFrame
    BY <2>1, FlushTop
  <2>3. Top(t).flushed_any \in BOOLEAN
    BY <2>2 DEF FlushFrame
  <2>4. ASSUME NEW ok \in BOOLEAN, Return(t, Top(t).flushed_any, ok) PROVE Plain(t)'
    BY <2>1, <2>3, <2>4, TopReturned
  <2>5. CASE SetTop(t, [Top(t) EXCEPT !.i = 1]) /\ EndOfOps(t)
    <3>1. PICK f : f = [Top(t) EXCEPT !.i = 1]
      OBVIOUS
    <3>2. Top(t).pc = "op"
      BY <2>5 DEF EndOfOps, InFlush
    <3>3. f \in FlushFrame /\ f.pc = "op"
      BY <2>2, <3>1, <3>2 DEF FlushFrame
    <3>4. f \in Frame
      BY <3>3 DEF Frame
    <3>5. Top(t)' = f
      BY <1>1, <2>1, <2>5, <3>1, <3>4, TopSet
    <3> QED BY <3>3, <3>5 DEF Plain
  <2>6. \/ \E ok \in BOOLEAN : Return(t, Top(t).flushed_any, ok)
        \/ SetTop(t, [Top(t) EXCEPT !.i = 1]) /\ EndOfOps(t)
    <3>1. CASE FixupAfterFlush(t)
      <4>1. Return(t, Top(t).flushed_any, Len(blocked_queues) < MaxBlocked)
        BY <3>1 DEF FixupAfterFlush
      <4>2. (Len(blocked_queues) < MaxBlocked) \in BOOLEAN
        OBVIOUS
      <4> QED BY <4>1, <4>2
    <3>2. CASE EndOfOps(t)
      BY <3>2 DEF EndOfOps
    <3> QED BY <1>4, <3>1, <3>2
  <2> QED BY <2>4, <2>5, <2>6
<1>5. CASE \/ TakeBlockedQueues(t) \/ FlushNextQueue(t)
           \/ EndOfRound(t) /\ Return(t, FALSE, Top(t).ok)
  <2>1. ~Idle(t) /\ Top(t).fn = "flush_blocked"
    BY <1>5 DEF TakeBlockedQueues, FlushNextQueue, EndOfRound, InBlocked
  <2>2. /\ Top(t) \in BlockedFrame /\ Top(t).i \in Nat /\ Top(t).i >= 1
        /\ Top(t).queues \in Seq(Queues)
    BY <2>1, BlockedTop
  <2>3. CASE TakeBlockedQueues(t)
    <3>1. PICK f : f = [Top(t) EXCEPT !.pc = "flush", !.queues = blocked_queues,
                                      !.i = 1, !.flushed_any = FALSE]
      OBVIOUS
    <3>2. f \in BlockedFrame /\ f.pc = "flush"
      BY <1>1, <2>2, <3>1 DEF BlockedFrame, SharedTypeOK
    <3>3. SetTop(t, f)
      BY <2>3, <3>1 DEF TakeBlockedQueues
    <3> QED BY <2>1, <3>2, <3>3, BlockedIsPlain
  <2>4. CASE FlushNextQueue(t)
    <3>1. PICK f : f = [Top(t) EXCEPT !.i = @ + 1]
      OBVIOUS
    <3>2. Top(t).pc = "flush"
      BY <2>4 DEF FlushNextQueue, InBlocked
    <3>3. f \in BlockedFrame /\ f.pc = "flush"
      BY <2>2, <3>1, <3>2 DEF BlockedFrame
    <3>4. CASE SetTop(t, f)
      BY <2>1, <3>3, <3>4, BlockedIsPlain
    <3>5. ASSUME NEW c \in Queues, Call(t, f, FlushOps(c)) PROVE Plain(t)'
      <4>1. FlushOps(c) \in Frame /\ FlushOps(c).pc = "op" /\ f \in Frame
        BY <3>3, QuietFlushes DEF FlushOps, Frame
      <4>2. Top(t)' = FlushOps(c)
        BY <1>1, <2>1, <3>5, <4>1, TopCalled
      <4> QED BY <4>1, <4>2 DEF Plain
    <3>6. PICK c \in Queues : c = Top(t).queues[Top(t).i]
      BY <2>2, <2>4, ElementOfSeq DEF FlushNextQueue
    <3>7. SetTop(t, f) \/ Call(t, f, FlushOps(c))
      BY <2>4, <3>1, <3>6 DEF FlushNextQueue
    <3> QED BY <3>4, <3>5, <3>7
  <2>5. CASE Return(t, FALSE, Top(t).ok)
    <3>1. Top(t).ok \in BOOLEAN
      BY <2>2 DEF BlockedFrame
    <3> QED BY <2>1, <2>5, <3>1, TopReturned
  <2> QED BY <1>5, <2>3, <2>4, <2>5
<1> QED BY <1>2, <1>3, <1>4, <1>5 DEF PlainStep

LEMMA ListNext ==
    ASSUME FlushInv, NEW t \in Threads, ListStep(t)
    PROVE  InBlocked(t, "take")' /\ Top(t)'.pc = "take"
<1>1. SharedTypeOK /\ FlushBlockedQueues \in Frame
  BY QuietBlocked DEF FlushInv
<1>2. FlushBlockedQueues.fn = "flush_blocked" /\ FlushBlockedQueues.pc = "take"
  BY DEF FlushBlockedQueues
<1>3. CASE PublishSignal(t) \/ FlushSignalOnCpu(t)
  <2>1. ~Idle(t) /\ Top(t).fn = "flush_ops"
    BY <1>3 DEF PublishSignal, FlushSignalOnCpu, AtOp, InFlush
  <2>2. Top(t) \in FlushFrame
    BY <2>1, FlushTop
  <2>3. PICK pc \in {"signal_flush", "cpu_flush"} :
            Call(t, [Top(t) EXCEPT !.pc = pc], FlushBlockedQueues)
    BY <1>3 DEF PublishSignal, FlushSignalOnCpu
  <2>4. PICK f : f = [Top(t) EXCEPT !.pc = pc]
    OBVIOUS
  <2>5. f \in FlushFrame
    BY <2>2, <2>4 DEF FlushFrame
  <2>6. f \in Frame
    BY <2>5 DEF Frame
  <2>7. ~Idle(t)' /\ Top(t)' = FlushBlockedQueues
    BY <1>1, <2>1, <2>3, <2>4, <2>6, TopCalled
  <2> QED BY <1>2, <2>7 DEF InBlocked
<1>4. ASSUME NEW f, NEW v, FenceSignal(t, f, v) PROVE InBlocked(t, "take")' /\ Top(t)'.pc = "take"
  <2>1. stack' = [stack EXCEPT ![t] = <<FlushBlockedQueues>>]
    BY <1>4 DEF FenceSignal
  <2>2. ~Idle(t)' /\ Top(t)' = FlushBlockedQueues
    BY <1>1, <2>1, TopStarted
  <2> QED BY <1>2, <2>2 DEF InBlocked
<1>5. CASE EndOfRound(t) /\ SetTop(t, [Top(t) EXCEPT !.pc = "take", !.queues = <<>>])
  <2>1. ~Idle(t) /\ Top(t).fn = "flush_blocked"
    BY <1>5 DEF EndOfRound, InBlocked
  <2>2. Top(t) \in BlockedFrame
    BY <2>1, BlockedTop
  <2>3. PICK f : f = [Top(t) EXCEPT !.pc = "take", !.queues = <<>>]
    OBVIOUS
  <2>4. f \in BlockedFrame /\ f.pc = "take" /\ f.fn = "flush_blocked"
    BY <2>2, <2>3, EmptySeq DEF BlockedFrame
  <2>5. f \in Frame
    BY <2>4 DEF Frame
  <2>6. ~Idle(t)' /\ Top(t)' = f
    BY <1>1, <1>5, <2>1, <2>3, <2>5, TopSet
  <2> QED BY <2>4, <2>6 DEF InBlocked
<1> QED BY <1>3, <1>4, <1>5 DEF ListStep

LEMMA MidNext ==
    ASSUME FlushInv, FenceTypeOK, NEW t \in Threads, NEW pc \in MidStepPcs, MidStep(t, pc)
    PROVE  MovesTo(t, pc)
<1>1. ~Idle(t) /\ Top(t).fn = "flush_ops" /\ UNCHANGED aux_op_queue
  BY DEF MidStep, FlushWait, FlushStop, FlushSignal, ReadTimelineValue, SubmitSignal,
     AtOp, InFlush, Perform, queueVars
<1>2. CASE FlushWait(t) /\ pc = "submit_wait"
  <2>1. CurrentOp(t) \in Op /\ CurrentOp(t).type = "wait"
    BY <1>2, AtOpProperties DEF FlushWait
  <2>2. PICK w \in WaitValues(fence[CurrentOp(t).fence], CurrentOp(t).value) :
            SetTop(t, [Top(t) EXCEPT !.pc = "submit_wait", !.timeline_value = w])
    BY <1>2 DEF FlushWait
  <2>3. w \in Nat
    BY <2>1, <2>2, SignalOpType, WaitValueType DEF FenceTypeOK
  <2> QED BY <1>1, <1>2, <2>2, <2>3, FlushGoesTo DEF MovesTo
<1>3. CASE ReadTimelineValue(t) /\ pc = "submit_signal"
  <2>1. PICK f \in Fences : CurrentOp(t).fence = f
    BY <1>3, MidOpSignal DEF ReadTimelineValue, SignalFits, SignalPcs
  <2>2. PICK w \in Nat : w = fence[f].pending_timeline_value
    BY DEF FenceTypeOK, FenceRecord
  <2>3. SetTop(t, [Top(t) EXCEPT !.pc = "submit_signal", !.timeline_value = w])
    BY <1>3, <2>1, <2>2 DEF ReadTimelineValue
  <2> QED BY <1>1, <1>3, <2>3, FlushGoesTo DEF MovesTo
<1>4. CASE \/ FlushStop(t) /\ pc = "fixup"
           \/ FlushSignal(t) /\ pc = "read_value"
           \/ SetTop(t, [Top(t) EXCEPT !.pc = "update"]) /\ pc = "update"
  <2>1. SetTop(t, [Top(t) EXCEPT !.pc = pc])
    BY <1>4 DEF FlushStop, FlushSignal
  <2> QED BY <1>1, <2>1, FlushGoesOnTo DEF MovesTo, MidStepPcs
<1> QED BY <1>2, <1>3, <1>4 DEF MidStep

-----------------------------------------------------------------------------
(***************************************************************************)
(* max_pending_value after a step.                                         *)
(***************************************************************************)
LEMMA MaxIsSettled ==
    ASSUME NEW g \in FenceRecord, NEW m \in MaxPendingValues(g),
           NEW h, h = [g EXCEPT !.max_pending_value = m]
    PROVE  /\ h.max_pending_value = m /\ PendingValues(h) = PendingValues(g)
           /\ \A p \in PendingValues(h) : p <= h.max_pending_value
<1>1. h.value = g.value /\ h.semaphores = g.semaphores /\ h.max_pending_value = m
  BY DEF FenceRecord
<1>2. PendingValues(h) = PendingValues(g)
  BY <1>1 DEF PendingValues
<1> QED BY <1>1, <1>2 DEF MaxPendingValues

\* max_pending_value of f is recomputed, the other fences stay.
Recomputed(f) ==
    /\ \A p \in PendingValues(fence'[f]) : p <= fence'[f].max_pending_value
    /\ \A g \in Fences \ {f} : fence'[g] = fence[g]

LEMMA UpdateRecomputes ==
    ASSUME TypeInv, NEW f \in Fences, UpdatePendingValue(f)
    PROVE  Recomputed(f)
<1>1. fence[f] \in FenceRecord
  BY DEF TypeInv, FenceTypeOK
<1>2. PICK m \in MaxPendingValues(fence[f]) :
           fence' = [fence EXCEPT ![f].max_pending_value = m]
  BY DEF UpdatePendingValue
<1>3. PICK h : h = [fence[f] EXCEPT !.max_pending_value = m]
  OBVIOUS
<1>4. fence'[f] = h /\ \A g \in Fences \ {f} : fence'[g] = fence[g]
  BY <1>2, <1>3 DEF TypeInv, FenceTypeOK
<1> QED BY <1>1, <1>3, <1>4, MaxIsSettled DEF Recomputed

LEMMA CpuRecomputes ==
    ASSUME TypeInv, NEW f \in Fences, NEW v \in Values, SignalCpuTimelineSemaphore(f, v)
    PROVE  Recomputed(f)
<1>1. fence[f] \in FenceRecord
  BY DEF TypeInv, FenceTypeOK
<1>2. PICK h : h = [fence[f] EXCEPT !.value = v, !.events = @ \ Ready(fence[f], {v})]
  OBVIOUS
<1>3. h \in FenceRecord
  BY <1>1, <1>2 DEF FenceRecord
<1>4. PICK m \in MaxPendingValues(h) :
           fence' = [fence EXCEPT ![f] = [h EXCEPT !.max_pending_value = m]]
  BY <1>2 DEF SignalCpuTimelineSemaphore
<1>5. PICK k : k = [h EXCEPT !.max_pending_value = m]
  OBVIOUS
<1>6. fence'[f] = k /\ \A g \in Fences \ {f} : fence'[g] = fence[g]
  BY <1>4, <1>5 DEF TypeInv, FenceTypeOK
<1> QED BY <1>3, <1>5, <1>6, MaxIsSettled DEF Recomputed

\* A worker's report takes values away; what is left stays below the maximum.
LEMMA ReportRecomputes ==
    ASSUME TypeInv, NEW f \in Fences, NEW t \in Nat, SignalTimelineSemaphore(f, t)
    PROVE  /\ Recomputed(f)
           /\ Settled(f) => fence'[f].max_pending_value <= fence[f].max_pending_value
           /\ fence'[f].max_pending_value \in Values
<1> DEFINE g == fence[f]
           due == Due(g, t)
           vals == {s.value : s \in due}
           h(v) == [g EXCEPT !.value = v,
                             !.timeline_value = IF @ < t THEN t ELSE @,
                             !.semaphores = @ \ due,
                             !.events = @ \ Ready(g, vals)]
<1>1. g \in FenceRecord
  BY DEF TypeInv, FenceTypeOK
<1> PICK v \in FinalValues(g, t) :
          \E m \in MaxPendingValues(h(v)) :
              fence' = [fence EXCEPT ![f] = [h(v) EXCEPT !.max_pending_value = m]]
  BY DEF SignalTimelineSemaphore
<1>2. PICK m \in MaxPendingValues(h(v)) :
          fence' = [fence EXCEPT ![f] = [h(v) EXCEPT !.max_pending_value = m]]
  OBVIOUS
<1>3. v \in Values
  BY <1>1, FinalValueType
<1>4. PICK r : r = h(v)
  OBVIOUS
<1>5. r \in FenceRecord
  BY <1>1, <1>3, <1>4 DEF FenceRecord
<1>6. r.value = v /\ r.semaphores \subseteq g.semaphores
  BY <1>1, <1>4 DEF FenceRecord
<1>7. v \in PendingValues(g)
  BY DEF FinalValues, LastDue, Due, PendingValues
<1>8. PendingValues(r) \subseteq PendingValues(g)
  BY <1>6, <1>7 DEF PendingValues
<1>9. PICK k : k = [r EXCEPT !.max_pending_value = m]
  OBVIOUS
<1>10. fence' = [fence EXCEPT ![f] = k]
  BY <1>2, <1>4, <1>9
<1>11. m \in MaxPendingValues(r)
  BY <1>4
<1> HIDE DEF h
<1>12. fence'[f] = k /\ \A e \in Fences \ {f} : fence'[e] = fence[e]
  BY <1>10 DEF TypeInv, FenceTypeOK
<1>13. /\ k.max_pending_value = m /\ PendingValues(k) = PendingValues(r)
       /\ \A p \in PendingValues(k) : p <= k.max_pending_value
  BY <1>5, <1>9, <1>11, MaxIsSettled
<1>14. m \in Values /\ m \in PendingValues(r)
  BY <1>5, <1>11, MaxPendingType
<1>15. Settled(f) => m <= g.max_pending_value
  BY <1>8, <1>14 DEF Settled
<1> QED BY <1>12, <1>13, <1>14, <1>15 DEF Recomputed

\* A signal that is added is not in max_pending_value yet.
LEMMA AddKeepsMax ==
    ASSUME TypeInv, NEW f \in Fences, NEW v, AddPendingTimelineSignal(f, v)
    PROVE  /\ \A g \in Fences \ {f} : fence'[g] = fence[g]
           /\ \A g \in Fences : fence'[g].max_pending_value = fence[g].max_pending_value
<1>1. fence[f] \in FenceRecord
  BY DEF TypeInv, FenceTypeOK
<1>2. PICK n, sems : fence' = [fence EXCEPT ![f].pending_timeline_value = n,
                                            ![f].semaphores = sems]
  BY DEF AddPendingTimelineSignal
<1>3. PICK k : k = [fence[f] EXCEPT !.pending_timeline_value = n, !.semaphores = sems]
  OBVIOUS
<1>4. fence' = [fence EXCEPT ![f] = k]
  BY <1>2, <1>3 DEF TypeInv, FenceTypeOK
<1>5. k.max_pending_value = fence[f].max_pending_value
  BY <1>1, <1>3 DEF FenceRecord
<1> QED BY <1>4, <1>5 DEF TypeInv, FenceTypeOK

-----------------------------------------------------------------------------
(***************************************************************************)
(* One thread: where it is tells whether a signal is being published and   *)
(* whether the blocked list is about to be taken.                          *)
(***************************************************************************)
LEMMA NotPublishing ==
    ASSUME OneThread, NEW t \in Threads, Idle(t) \/ Top(t).pc \notin PublishPcs
    PROVE  \A f : ~Publishing(f)
<1>1. \A pc \in PublishPcs : ~InFlush(t, pc)
  BY DEF InFlush
<1>2. \A u \in Threads : u = t
  BY DEF OneThread
<1> QED BY <1>1, <1>2 DEF Publishing

LEMMA NotPublishingNext ==
    ASSUME OneThread, NEW t \in Threads, Plain(t)' \/ Top(t)'.pc \notin PublishPcs
    PROVE  \A f : ~Publishing(f)'
<1>1. \A pc \in PublishPcs : ~InFlush(t, pc)'
  BY DEF InFlush, Plain, PublishPcs
<1>2. \A u \in Threads : u = t
  BY DEF OneThread
<1> QED BY <1>1, <1>2 DEF Publishing

LEMMA NotTaking ==
    ASSUME OneThread, NEW t \in Threads, Idle(t) \/ Top(t).pc # "take"
    PROVE  ~Taking
<1>1. ~InBlocked(t, "take")
  BY DEF InBlocked
<1>2. \A u \in Threads : u = t
  BY DEF OneThread
<1> QED BY <1>1, <1>2 DEF Taking

LEMMA StopsNext ==
    ASSUME OneThread, NEW t \in Threads, Plain(t)' \/ Top(t)'.pc # "fixup"
    PROVE  StopFits'
<1>1. ~InFlush(t, "fixup")'
  BY DEF InFlush, Plain
<1>2. \A u \in Threads : u = t
  BY DEF OneThread
<1> QED BY <1>1, <1>2 DEF StopFits

\* Where the thread is before each of its steps.
LEMMA PlainBefore ==
    ASSUME ~SubmitMayFail, NEW t \in Threads, PlainStep(t)
    PROVE  /\ Idle(t) \/ Top(t).pc \notin PublishPcs
           /\ Idle(t) \/ Top(t).pc # "take" \/ TakeBlockedQueues(t)
           /\ UNCHANGED fence
<1>1. ASSUME NEW q, NEW op, Enqueue(t, q, op) PROVE Idle(t) /\ UNCHANGED fence
  BY <1>1 DEF Enqueue, fenceVars
<1>2. CASE SubmitWait(t) \/ FixupAfterFlush(t) \/ FlushExecute(t) \/ FlushMappings(t)
           \/ EnqueueTimelineSemaphore(t) \/ EndOfOps(t)
  BY <1>2 DEF SubmitWait, FixupAfterFlush, FlushExecute, FlushMappings,
     EnqueueTimelineSemaphore, EndOfOps, AtOp, InFlush, PublishPcs, fenceVars
<1>3. CASE TakeBlockedQueues(t) \/ FlushNextQueue(t) \/ EndOfRound(t)
  BY <1>3 DEF TakeBlockedQueues, FlushNextQueue, EndOfRound, InBlocked, PublishPcs, fenceVars
<1> QED BY <1>1, <1>2, <1>3 DEF PlainStep

-----------------------------------------------------------------------------
(***************************************************************************)
(* The queues on the blocked list.                                         *)
(***************************************************************************)
LEMMA ListedIsIdle ==
    ASSUME Exclusive, NEW q \in Queues, NEW j \in Nat, OnList(q, j)
    PROVE  ~is_flushing[q] /\ op_queue[q] # <<>> /\ NoPlace(q)
<1>1. ~NoEntry(q)
  BY DEF NoEntry
<1> QED BY <1>1 DEF Exclusive, Owned, Flushing, Unheld, Waiting

\* What stood on the list stands there with the same first operation.
Stays(q, j) == OnList(q, j) /\ Head(op_queue'[q]) = Head(op_queue[q])

LEMMA StaysBy ==
    ASSUME UNCHANGED <<blocked_queues, op_queue>>, NEW q, NEW j, OnList(q, j)'
    PROVE  Stays(q, j)
BY DEF Stays, OnList

\* Only a queue that is not on the list starts to be flushed or goes on.
LEMMA StaysByOther ==
    ASSUME Exclusive, UNCHANGED blocked_queues, NEW c \in Queues,
           is_flushing[c] \/ op_queue[c] = <<>> \/ ~NoPlace(c),
           \A q \in Queues \ {c} : op_queue'[q] = op_queue[q],
           NEW q \in Queues, NEW j \in Nat, OnList(q, j)'
    PROVE  Stays(q, j)
<1>1. OnList(q, j)
  BY DEF OnList
<1>2. q # c
  BY <1>1, ListedIsIdle
<1> QED BY <1>1, <1>2 DEF Stays

LEMMA StaysWhenPlain ==
    ASSUME FlushInv, NEW t \in Threads, PlainStep(t), ~FixupAfterFlush(t),
           NEW q \in Queues, NEW j \in Nat, OnList(q, j)'
    PROVE  Stays(q, j)
<1>1. SharedTypeOK /\ Exclusive
  BY DEF FlushInv
<1>2. ASSUME NEW c \in Queues, NEW op, Enqueue(t, c, op) PROVE Stays(q, j)
  <2>1. UNCHANGED blocked_queues /\ op \in Op
    BY <1>2, QueueAssumption DEF Enqueue
  <2>2. PICK ops : ops = Append(op_queue[c], op)
    OBVIOUS
  <2>3. CASE StartFlush(c, ops) /\ Len(ops) = 1
    <3>1. op_queue[c] = <<>>
      <4>1. op_queue[c] \in Seq(Op) /\ Len(ops) = Len(op_queue[c]) + 1
        BY <1>1, <2>1, <2>2, AppendTo DEF SharedTypeOK
      <4>2. PICK n \in Nat : n = Len(op_queue[c])
        BY <4>1
      <4>3. n + 1 = 1
        BY <2>3, <4>1, <4>2
      <4>4. Len(op_queue[c]) = 0
        BY <4>2, <4>3
      <4> QED BY <4>1, <4>4, EmptySeq
    <3>2. \A r \in Queues \ {c} : op_queue'[r] = op_queue[r]
      BY <1>1, <2>3 DEF StartFlush, SharedTypeOK
    <3> QED BY <1>1, <2>1, <3>1, <3>2, StaysByOther
  <2>4. CASE op_queue' = [op_queue EXCEPT ![c] = ops]
    <3>1. OnList(q, j)
      BY <2>1 DEF OnList
    <3>2. op_queue[q] # <<>> /\ op_queue[q] \in Seq(Op)
      BY <1>1, <3>1, ListedIsIdle DEF SharedTypeOK
    <3>3. CASE q # c
      BY <1>1, <2>4, <3>1, <3>3 DEF Stays, SharedTypeOK
    <3>4. CASE q = c
      <4>1. op_queue'[q] = ops
        BY <1>1, <2>4, <3>4 DEF SharedTypeOK
      <4>2. ops \in Seq(Op) /\ Len(ops) = Len(op_queue[q]) + 1 /\ Len(op_queue[q]) \in Nat \ {0}
        BY <2>1, <2>2, <3>2, <3>4, AppendTo, EmptySeq
      <4>3. \A k \in 1 .. Len(op_queue[q]) : ops[k] = op_queue[q][k]
        BY <2>1, <2>2, <3>2, <3>4, AppendTo
      <4>4. ops[1] = op_queue[q][1]
        BY <4>2, <4>3
      <4>5. Head(ops) = ops[1] /\ Head(op_queue[q]) = op_queue[q][1]
        BY <3>2, <4>2, EmptySeq
      <4> QED BY <3>1, <4>1, <4>4, <4>5 DEF Stays
    <3> QED BY <3>3, <3>4
  <2> QED BY <1>2, <2>2, <2>3, <2>4 DEF Enqueue
<1>3. CASE SubmitWait(t) \/ FlushExecute(t) \/ FlushMappings(t) \/ SubmitSignal(t)
           \/ EnqueueTimelineSemaphore(t) \/ EndOfRound(t)
  <2>1. UNCHANGED <<blocked_queues, op_queue>>
    BY <1>3 DEF SubmitWait, FlushExecute, FlushMappings, SubmitSignal,
       EnqueueTimelineSemaphore, EndOfRound, Perform, queueVars
  <2> QED BY <2>1, StaysBy
<1>4. CASE EndOfOps(t)
  <2>1. ~Idle(t) /\ Top(t).fn = "flush_ops"
    BY <1>4 DEF EndOfOps, InFlush
  <2>2. PICK c \in Queues : c = CurrentQueue(t)
    BY <2>1, FlushTop
  <2>3. is_flushing[c]
    <3>1. Len(stack[t]) \in Nat \ {0} /\ Flushed(c, t, Len(stack[t]))
      BY <1>1, <2>1, <2>2, TopIsFlushed
    <3> QED BY <1>1, <3>1, FlushedIsFlushing
  <2>4. op_queue' = [op_queue EXCEPT ![c] = <<>>] /\ UNCHANGED blocked_queues
    BY <1>4, <2>2 DEF EndOfOps
  <2>5. \A r \in Queues \ {c} : op_queue'[r] = op_queue[r]
    BY <1>1, <2>4 DEF SharedTypeOK
  <2> QED BY <1>1, <2>3, <2>4, <2>5, StaysByOther
<1>5. CASE TakeBlockedQueues(t)
  <2>1. blocked_queues' = <<>>
    BY <1>5 DEF TakeBlockedQueues
  <2>2. ~OnList(q, j)'
    BY <2>1 DEF OnList
  <2> QED BY <2>2
<1>6. CASE FlushNextQueue(t)
  <2>1. /\ ~Idle(t) /\ Top(t).fn = "flush_blocked" /\ Top(t).i <= Len(Top(t).queues)
        /\ UNCHANGED blocked_queues
    BY <1>6 DEF FlushNextQueue, InBlocked
  <2>2. /\ Top(t).i \in Nat /\ Top(t).i >= 1
        /\ Top(t).queues \in Seq(Queues) /\ Len(Top(t).queues) \in Nat
    BY <2>1, BlockedTop
  <2>3. PICK c \in Queues : c = Top(t).queues[Top(t).i]
    BY <2>1, <2>2, ElementOfSeq
  <2>4. CASE UNCHANGED op_queue
    BY <2>1, <2>4, StaysBy
  <2>5. CASE StartFlush(c, op_queue[c])
    <3>1. Len(stack[t]) \in 1 .. Len(stack[t]) /\ Len(stack[t]) \in Nat
      BY <1>1, <2>1, EmptySeq DEF SharedTypeOK, Idle
    <3>2. InArray(c, t, Len(stack[t]), Top(t).i)
      <4>1. Waits(Top(t), c, Top(t).i)
        BY <2>1, <2>2, <2>3 DEF Waits
      <4> QED BY <3>1, <4>1 DEF InArray, Top
    <3>3. ~NoPlace(c)
      BY <2>2, <3>1, <3>2 DEF NoPlace
    <3>4. \A r \in Queues \ {c} : op_queue'[r] = op_queue[r]
      BY <1>1, <2>5 DEF StartFlush, SharedTypeOK
    <3> QED BY <1>1, <2>1, <3>3, <3>4, StaysByOther
  <2> QED BY <1>6, <2>3, <2>4, <2>5 DEF FlushNextQueue
<1> QED BY <1>2, <1>3, <1>4, <1>5, <1>6 DEF PlainStep

\* The queue that stops has the wait it stopped at in front.
LEMMA StopIsFirst ==
    ASSUME FlushInv, NEW t \in Threads, FixupAfterFlush(t),
           NEW q \in Queues, NEW j \in Nat, OnList(q, j)'
    PROVE  Stays(q, j) \/ Head(op_queue'[q]) = CurrentOp(t)
<1>1. SharedTypeOK /\ Exclusive
  BY DEF FlushInv
<1>2. InFlush(t, "fixup")
  BY DEF FixupAfterFlush
<1>3. /\ ~Idle(t) /\ Top(t).fn = "flush_ops"
      /\ Top(t).i <= Len(aux_op_queue[CurrentQueue(t)])
      /\ CurrentOp(t) = aux_op_queue[CurrentQueue(t)][Top(t).i]
  BY <1>2, MidOpProperties
<1>4. PICK c \in Queues : CurrentQueue(t) = c
  BY <1>3, FlushTop
<1>5. PICK i \in Nat : i = Top(t).i /\ i >= 1
  BY <1>3, FlushTop
<1>6. PICK left : left = SubSeq(aux_op_queue[c], i, Len(aux_op_queue[c]))
  OBVIOUS
<1>7. op_queue[c] \in Seq(Op) /\ aux_op_queue[c] \in Seq(Op) /\ Len(aux_op_queue[c]) \in Nat
  BY <1>1 DEF SharedTypeOK
<1>8. i <= Len(aux_op_queue[c])
  BY <1>3, <1>4, <1>5
<1>9. left \in Seq(Op) /\ Len(left) = Len(aux_op_queue[c]) + 1 - i
  BY <1>5, <1>6, <1>7, <1>8, SuffixFrom
<1>10. left[1] = aux_op_queue[c][i]
  <2>1. \A k \in 1 .. Len(aux_op_queue[c]) + 1 - i : left[k] = aux_op_queue[c][i + k - 1]
    BY <1>5, <1>6, <1>7, <1>8, SuffixFrom
  <2>2. 1 \in 1 .. Len(aux_op_queue[c]) + 1 - i /\ i + 1 - 1 = i
    BY <1>5, <1>7, <1>8
  <2>3. left[1] = aux_op_queue[c][i + 1 - 1]
    BY <2>1, <2>2
  <2> QED BY <2>2, <2>3
<1>11. /\ op_queue' = [op_queue EXCEPT ![c] = left \o op_queue[c]]
       /\ blocked_queues' \in {Append(blocked_queues, c), blocked_queues}
  BY <1>4, <1>5, <1>6 DEF FixupAfterFlush
<1>12. CASE q = c
  <2>1. op_queue'[q] = left \o op_queue[c]
    BY <1>1, <1>11, <1>12 DEF SharedTypeOK
  <2>2. 1 \in 1 .. Len(left)
    BY <1>5, <1>7, <1>8, <1>9
  <2>3. (left \o op_queue[c])[1] = left[1]
    BY <1>7, <1>9, <2>2, ConcatProperties
  <2>4. Head(op_queue'[q]) = (left \o op_queue[c])[1]
    <3>1. PICK s : s = left \o op_queue[c]
      OBVIOUS
    <3>2. s \in Seq(Op) /\ Len(s) = Len(left) + Len(op_queue[c])
      BY <1>7, <1>9, <3>1, ConcatProperties
    <3>3. Len(s) # 0
      <4>1. PICK m \in Nat : m = Len(left)
        <5>1. left \in Seq(Op)
          BY <1>9
        <5> QED BY <5>1
      <4>2. PICK n \in Nat : n = Len(op_queue[c])
        <5>1. op_queue[c] \in Seq(Op)
          BY <1>7
        <5> QED BY <5>1
      <4>3. m >= 1 /\ Len(s) = m + n
        BY <2>2, <3>2, <4>1, <4>2
      <4> QED BY <4>3
    <3>4. Head(s) = s[1]
      BY <3>2, <3>3
    <3> QED BY <2>1, <3>1, <3>4
  <2> QED BY <1>3, <1>4, <1>5, <1>10, <2>3, <2>4
<1>13. CASE q # c
  <2>1. op_queue'[q] = op_queue[q]
    BY <1>1, <1>11, <1>13 DEF SharedTypeOK
  <2>2. OnList(q, j)
    <3>1. CASE blocked_queues' = blocked_queues
      BY <3>1 DEF OnList
    <3>2. CASE blocked_queues' = Append(blocked_queues, c)
      <4>1. PICK s : s = Append(blocked_queues, c)
        OBVIOUS
      <4>2. PICK n \in Nat : n = Len(blocked_queues)
        BY <1>1 DEF SharedTypeOK
      <4>3. Len(s) = n + 1 /\ s[n + 1] = c /\ \A k \in 1 .. n : s[k] = blocked_queues[k]
        BY <1>1, <4>1, <4>2, AppendTo DEF SharedTypeOK
      <4>4. j \in 1 .. n + 1 /\ s[j] = q
        BY <3>2, <4>1, <4>3 DEF OnList
      <4>5. j \in 1 .. n /\ blocked_queues[j] = q
        BY <1>13, <4>3, <4>4
      <4> QED BY <4>2, <4>5 DEF OnList
    <3> QED BY <1>11, <3>1, <3>2
  <2> QED BY <2>1, <2>2 DEF Stays
<1> QED BY <1>12, <1>13

-----------------------------------------------------------------------------
(***************************************************************************)
(* WakeInv is inductive.                                                   *)
(***************************************************************************)
LEMMA StuckIs ==
    ASSUME OneThread, NEW t \in Threads, Idle(t) \/ Top(t).pc \notin PublishPcs \cup {"take"},
           NEW op, Stuck(op)
    PROVE  op.type = "wait" /\ ~Pending(op)
<1>1. ~Taking /\ ~Publishing(op.fence)
  BY NotTaking, NotPublishing
<1> QED BY <1>1 DEF Stuck

LEMMA StuckNext ==
    ASSUME NEW op, op.type = "wait", (~Pending(op))' \/ Publishing(op.fence)' \/ Taking'
    PROVE  Stuck(op)'
BY DEF Stuck

LEMMA ListNextBy ==
    ASSUME \A q \in Queues : \A j \in Nat : OnList(q, j)' =>
               \E op : Head(op_queue'[q]) = op /\ Stuck(op)'
    PROVE  ListFits'
BY DEF ListFits, Stuck, Pending, Publishing

LEMMA PendingKept ==
    ASSUME UNCHANGED fence, NEW op
    PROVE  Pending(op)' <=> Pending(op)
BY DEF Pending

LEMMA WakeOfPlain ==
    ASSUME OneThread, ~SubmitMayFail, FlushInv, WakeInv, NEW t \in Threads, PlainStep(t)
    PROVE  WakeInv'
<1>1. UNCHANGED fence /\ (\A f : ~Publishing(f))
  BY PlainBefore, NotPublishing
<1>2. Plain(t)'
  BY PlainNext
<1>3. MaxFits'
  BY <1>1 DEF WakeInv, MaxFits, Settled
<1>4. StopFits'
  BY <1>2, StopsNext
<1>5. ASSUME NEW q \in Queues, NEW j \in Nat, OnList(q, j)'
      PROVE  \E op : Head(op_queue'[q]) = op /\ Stuck(op)'
  <2>1. ~Taking
    <3>1. ~TakeBlockedQueues(t)
      <4>1. TakeBlockedQueues(t) => blocked_queues' = <<>>
        BY DEF TakeBlockedQueues
      <4> QED BY <1>5, <4>1 DEF OnList
    <3> QED BY <3>1, PlainBefore, NotTaking
  <2>2. CASE Stays(q, j)
    <3>1. PICK op : op = Head(op_queue[q])
      OBVIOUS
    <3>2. Stuck(op) /\ Head(op_queue'[q]) = op
      BY <2>2, <3>1 DEF Stays, WakeInv, ListFits
    <3>3. op.type = "wait" /\ ~Pending(op)
      BY <1>1, <2>1, <3>2 DEF Stuck
    <3> QED BY <1>1, <3>2, <3>3, StuckNext, PendingKept
  <2>3. CASE FixupAfterFlush(t) /\ Head(op_queue'[q]) = CurrentOp(t)
    <3>1. InFlush(t, "fixup")
      BY <2>3 DEF FixupAfterFlush
    <3>2. CurrentOp(t).type = "wait"
      BY <3>1, MidOpProperties DEF TypeAt
    <3>3. ~Pending(CurrentOp(t))
      BY <3>1 DEF WakeInv, StopFits
    <3>4. PICK op : op = CurrentOp(t)
      OBVIOUS
    <3>5. Stuck(op)'
      BY <1>1, <3>2, <3>3, <3>4, StuckNext, PendingKept
    <3> QED BY <2>3, <3>4, <3>5
  <2> QED BY <1>5, <2>2, <2>3, StaysWhenPlain, StopIsFirst
<1>6. ListFits'
  BY <1>5, ListNextBy
<1> QED BY <1>3, <1>4, <1>6 DEF WakeInv

\* The steps after which the list is taken only change one fence.
LEMMA ListStepFence ==
    ASSUME OneThread, TypeInv, FlushInv, NEW t \in Threads, ListStep(t)
    PROVE  /\ UNCHANGED <<blocked_queues, op_queue>>
           /\ \/ UNCHANGED fence /\ \A f : ~Publishing(f)
              \/ \E f \in Fences : Recomputed(f) /\ \A g : Publishing(g) => g = f
<1>1. \A u \in Threads : u = t
  BY DEF OneThread
<1>2. CASE PublishSignal(t)
  <2>1. InFlush(t, "update")
    BY <1>2 DEF PublishSignal
  <2>2. CurrentOp(t) \in Op /\ CurrentOp(t).type = "signal"
    BY <2>1, MidOpProperties DEF TypeAt
  <2>3. PICK f \in Fences : f = CurrentOp(t).fence
    BY <2>2, SignalOpType
  <2>4. UpdatePendingValue(f) /\ UNCHANGED <<blocked_queues, op_queue>>
    BY <1>2, <2>3 DEF PublishSignal, queueVars
  <2>5. \A g : Publishing(g) => g = f
    BY <1>1, <2>3 DEF Publishing
  <2> QED BY <2>4, <2>5, UpdateRecomputes
<1>3. CASE FlushSignalOnCpu(t)
  <2>1. /\ ~Idle(t) /\ Top(t).pc = "op"
        /\ CurrentOp(t) \in Op /\ CurrentOp(t).type = "signal_on_cpu"
    BY <1>3, AtOpProperties DEF FlushSignalOnCpu
  <2>2. PICK f \in Fences, v \in Values : f = CurrentOp(t).fence /\ v = CurrentOp(t).value
    BY <2>1, SignalOpType
  <2>3. SignalCpuTimelineSemaphore(f, v) /\ UNCHANGED <<blocked_queues, op_queue>>
    BY <1>3, <2>2 DEF FlushSignalOnCpu, Perform
  <2>4. \A g : ~Publishing(g)
    BY <2>1, NotPublishing DEF PublishPcs
  <2> QED BY <2>3, <2>4, CpuRecomputes
<1>4. ASSUME NEW f \in Fences, NEW v \in Values, FenceSignal(t, f, v)
      PROVE  /\ UNCHANGED <<blocked_queues, op_queue>>
             /\ Recomputed(f) /\ \A g : ~Publishing(g)
  <2>1. /\ Idle(t) /\ SignalCpuTimelineSemaphore(f, v)
        /\ UNCHANGED <<blocked_queues, op_queue>>
    BY <1>4 DEF FenceSignal
  <2> QED BY <2>1, CpuRecomputes, NotPublishing
<1>5. CASE EndOfRound(t)
  <2>1. /\ Top(t).pc = "flush" /\ UNCHANGED <<blocked_queues, op_queue, fence>>
    BY <1>5 DEF EndOfRound, InBlocked, queueVars, fenceVars
  <2> QED BY <2>1, NotPublishing DEF PublishPcs
<1> QED BY <1>2, <1>3, <1>4, <1>5 DEF ListStep

LEMMA WakeOfList ==
    ASSUME OneThread, TypeInv, FlushInv, WakeInv, NEW t \in Threads, ListStep(t)
    PROVE  WakeInv'
<1>1. InBlocked(t, "take")' /\ Top(t)'.pc = "take"
  BY ListNext
<1>2. Taking'
  BY <1>1 DEF Taking
<1>3. StopFits'
  BY <1>1, StopsNext
<1>4. UNCHANGED <<blocked_queues, op_queue>>
  BY ListStepFence
<1>5. MaxFits'
  <2>1. CASE UNCHANGED fence /\ \A f : ~Publishing(f)
    BY <2>1 DEF WakeInv, MaxFits, Settled
  <2>2. ASSUME NEW f \in Fences, Recomputed(f), \A g : Publishing(g) => g = f
        PROVE  MaxFits'
    <3>1. ASSUME NEW g \in Fences PROVE Settled(g)'
      <4>1. CASE g = f
        BY <2>2, <4>1 DEF Recomputed, Settled
      <4>2. CASE g # f
        <5>1. Settled(g) /\ fence'[g] = fence[g]
          BY <2>2, <4>2 DEF WakeInv, MaxFits, Recomputed
        <5> QED BY <5>1 DEF Settled
      <4> QED BY <4>1, <4>2
    <3> QED BY <3>1 DEF MaxFits
  <2> QED BY <2>1, <2>2, ListStepFence
<1>6. ASSUME NEW q \in Queues, NEW j \in Nat, OnList(q, j)'
      PROVE  \E op : Head(op_queue'[q]) = op /\ Stuck(op)'
  <2>1. PICK op : op = Head(op_queue[q])
    OBVIOUS
  <2>2. Stays(q, j)
    BY <1>4, <1>6, StaysBy
  <2>3. op.type = "wait" /\ Head(op_queue'[q]) = op
    BY <2>1, <2>2 DEF Stays, WakeInv, ListFits, Stuck
  <2> QED BY <1>2, <2>3, StuckNext
<1>7. ListFits'
  BY <1>6, ListNextBy
<1> QED BY <1>3, <1>5, <1>7 DEF WakeInv

\* A queued operation of the first kind that waits names a fence and a value.
LEMMA ListedOp ==
    ASSUME SharedTypeOK, Exclusive, NEW q \in Queues, NEW j \in Nat, OnList(q, j),
           Head(op_queue[q]).type = "wait"
    PROVE  /\ Head(op_queue[q]).fence \in Fences
           /\ Head(op_queue[q]).value \in Values
<1>1. op_queue[q] \in Seq(Op) /\ op_queue[q] # <<>>
  BY ListedIsIdle DEF SharedTypeOK
<1>2. PICK op : op = Head(op_queue[q])
  OBVIOUS
<1>3. op \in Op
  BY <1>1, <1>2
<1> QED BY <1>2, <1>3 DEF Op, FenceOp, PlainOp

\* Where the thread is when it brings a signal or a wait further.
LEMMA MidBefore ==
    ASSUME FlushInv, NEW t \in Threads, NEW pc \in MidStepPcs, MidStep(t, pc)
    PROVE  /\ Top(t).pc \in {"op", "read_value", "submit_signal"}
           /\ Top(t).pc # "op" => pc \in PublishPcs
           /\ UNCHANGED <<blocked_queues, op_queue>>
           /\ \/ UNCHANGED fence
              \/ \E f \in Fences : /\ pc = "read_value" /\ f = CurrentOp(t).fence
                                   /\ \E v : AddPendingTimelineSignal(f, v)
<1>1. CASE FlushWait(t) \/ FlushStop(t)
  BY <1>1 DEF MidStep, FlushWait, FlushStop, AtOp, InFlush, queueVars, fenceVars
<1>2. CASE ReadTimelineValue(t) /\ pc = "submit_signal"
  BY <1>2 DEF ReadTimelineValue, InFlush, queueVars, fenceVars, PublishPcs
<1>3. CASE SubmitSignal(t) /\ pc = "update"
  BY <1>3 DEF SubmitSignal, InFlush, Perform, fenceVars, PublishPcs
<1>4. CASE FlushSignal(t) /\ pc = "read_value"
  <2>1. Top(t).pc = "op" /\ CurrentOp(t) \in Op /\ CurrentOp(t).type = "signal"
    BY <1>4, AtOpProperties DEF FlushSignal
  <2>2. CurrentOp(t).fence \in Fences
    BY <2>1, SignalOpType
  <2>3. UNCHANGED <<blocked_queues, op_queue>>
    BY <1>4 DEF FlushSignal, queueVars
  <2>4. AddPendingTimelineSignal(CurrentOp(t).fence, CurrentOp(t).value)
    BY <1>4 DEF FlushSignal
  <2> QED BY <1>4, <2>1, <2>2, <2>3, <2>4
<1> QED BY <1>1, <1>2, <1>3, <1>4 DEF MidStep

LEMMA WakeOfMid ==
    ASSUME OneThread, TypeInv, FlushInv, WakeInv,
           NEW t \in Threads, NEW pc \in MidStepPcs, MidStep(t, pc)
    PROVE  WakeInv'
<1>1. /\ Top(t).pc \in {"op", "read_value", "submit_signal"}
      /\ Top(t).pc # "op" => pc \in PublishPcs
      /\ UNCHANGED <<blocked_queues, op_queue>>
  BY MidBefore
<1>2. MovesTo(t, pc)
  BY MidNext DEF TypeInv
<1>3. \A u \in Threads : u = t
  BY DEF OneThread
<1>4. SharedTypeOK /\ Exclusive /\ FenceTypeOK
  BY DEF FlushInv, TypeInv
<1>5. pc \in PublishPcs => Publishing(CurrentOp(t).fence)'
  BY <1>2 DEF MovesTo, Publishing
<1>6. ~Taking
  BY <1>1, NotTaking
<1>7. ASSUME NEW f, Publishing(f) PROVE Publishing(f)'
  <2>1. f = CurrentOp(t).fence /\ Top(t).pc \in PublishPcs
    BY <1>3, <1>7 DEF Publishing, InFlush
  <2>2. CurrentOp(t)' = CurrentOp(t) /\ pc \in PublishPcs
    BY <1>1, <1>2, <2>1 DEF MovesTo, PublishPcs
  <2> QED BY <1>2, <2>1, <2>2 DEF MovesTo, Publishing
<1>8. ASSUME NEW f \in Fences PROVE fence'[f].max_pending_value = fence[f].max_pending_value
  BY MidBefore, AddKeepsMax
<1>9. MaxFits'
  <2>1. ASSUME NEW f \in Fences PROVE Settled(f)' \/ Publishing(f)'
    <3>1. CASE fence'[f] = fence[f]
      BY <1>7, <3>1 DEF WakeInv, MaxFits, Settled
    <3>2. CASE fence'[f] # fence[f]
      <4>1. PICK g \in Fences : /\ pc = "read_value" /\ g = CurrentOp(t).fence
                                /\ \E v : AddPendingTimelineSignal(g, v)
        BY <3>2, MidBefore
      <4>2. f = CurrentOp(t).fence
        BY <3>2, <4>1, AddKeepsMax
      <4>3. InFlush(t, pc)' /\ CurrentOp(t)'.fence = f
        BY <1>2, <4>2 DEF MovesTo
      <4> QED BY <4>1, <4>3 DEF Publishing, PublishPcs
    <3> QED BY <3>1, <3>2
  <2> QED BY <2>1 DEF MaxFits
<1>10. StopFits'
  <2>1. CASE pc # "fixup"
    BY <1>2, <2>1, StopsNext DEF MovesTo
  <2>2. CASE pc = "fixup"
    <3>1. FlushStop(t)
      BY <2>2 DEF MidStep
    <3>2. PICK op : op = CurrentOp(t)
      OBVIOUS
    <3>3. AtOp(t, "wait") /\ op.value > fence[op.fence].max_pending_value /\ UNCHANGED fence
      BY <3>1, <3>2 DEF FlushStop, fenceVars
    <3>4. op \in Op /\ op.type = "wait"
      BY <3>2, <3>3, AtOpProperties
    <3>5. op.fence \in Fences /\ op.value \in Values
      BY <3>2, <3>4, SignalOpType
    <3>6. fence[op.fence].max_pending_value \in Values
      BY <1>4, <3>5 DEF FenceTypeOK, FenceRecord
    <3>7. ~Pending(op)
      <4>1. PICK v \in Nat, m \in Nat : v = op.value /\ m = fence[op.fence].max_pending_value
        BY <3>5, <3>6, FenceAssumption
      <4>2. v > m
        BY <3>3, <4>1
      <4> QED BY <4>1, <4>2 DEF Pending
    <3>8. (~Pending(op))'
      BY <3>3, <3>7, PendingKept
    <3>9. (CurrentOp(t))' = op
      BY <1>2, <3>2 DEF MovesTo
    <3> QED BY <1>3, <3>8, <3>9 DEF StopFits
  <2> QED BY <2>1, <2>2
<1>11. ASSUME NEW q \in Queues, NEW j \in Nat, OnList(q, j)'
       PROVE  \E op : Head(op_queue'[q]) = op /\ Stuck(op)'
  <2>1. PICK op : op = Head(op_queue[q])
    OBVIOUS
  <2>2. OnList(q, j) /\ Head(op_queue'[q]) = op
    BY <1>1, <1>11, <2>1, StaysBy DEF Stays
  <2>3. Stuck(op)
    BY <2>1, <2>2 DEF WakeInv, ListFits
  <2>4. op.type = "wait" /\ op.fence \in Fences
    BY <1>4, <2>1, <2>2, <2>3, ListedOp DEF Stuck
  <2>5. (~Pending(op))' \/ Publishing(op.fence)'
    <3>1. CASE ~Pending(op)
      BY <1>8, <2>4, <3>1 DEF Pending
    <3>2. CASE Publishing(op.fence)
      BY <1>7, <3>2
    <3> QED BY <1>6, <2>3, <3>1, <3>2 DEF Stuck
  <2> QED BY <2>2, <2>4, <2>5, StuckNext
<1>12. ListFits'
  BY <1>11, ListNextBy
<1> QED BY <1>9, <1>10, <1>12 DEF WakeInv

\* A worker never makes a value pending while no signal is being published.
LEMMA StillWaits ==
    ASSUME TypeInv, WakeInv, NEW f \in Fences, Recomputed(f),
           Settled(f) => fence'[f].max_pending_value <= fence[f].max_pending_value,
           fence'[f].max_pending_value \in Values,
           NEW op, op.fence \in Fences, op.value \in Values,
           ~Pending(op), ~Publishing(op.fence)
    PROVE  (~Pending(op))'
<1>1. CASE op.fence # f
  BY <1>1 DEF Pending, Recomputed
<1>2. CASE op.fence = f
  <2>1. fence[f].max_pending_value \in Values
    BY DEF TypeInv, FenceTypeOK, FenceRecord
  <2>2. PICK v \in Nat, m \in Nat, n \in Nat :
            /\ v = op.value /\ m = fence[f].max_pending_value
            /\ n = fence'[f].max_pending_value
    BY <2>1, FenceAssumption
  <2>3. n <= m
    BY <1>2, <2>2 DEF WakeInv, MaxFits
  <2>4. ~(v <= m)
    BY <1>2, <2>2 DEF Pending
  <2>5. ~(v <= n)
    BY <2>3, <2>4
  <2> QED BY <1>2, <2>2, <2>5 DEF Pending
<1> QED BY <1>1, <1>2

LEMMA WakeOfWorker ==
    ASSUME OneThread, TypeInv, FlushInv, WorkersFit, WakeInv,
           NEW w \in Queues, WorkerSignal(w)
    PROVE  WakeInv'
<1>1. UNCHANGED <<stack, aux_op_queue, op_queue, blocked_queues>>
  BY DEF WorkerSignal
<1>2. PICK f \in Fences : f = Head(worker[w]).fence
  BY WorkerHead DEF WorkerSignal
<1>3. PICK n \in Nat : n = Head(worker[w]).timeline_value
  <2>1. fence[f].pending_timeline_value \in Nat
    BY DEF TypeInv, FenceTypeOK, FenceRecord
  <2> QED BY <1>2, <2>1, WorkerHead DEF WorkerSignal
<1>4. SignalTimelineSemaphore(f, n)
  BY <1>2, <1>3 DEF WorkerSignal
<1>5. /\ Recomputed(f)
      /\ Settled(f) => fence'[f].max_pending_value <= fence[f].max_pending_value
      /\ fence'[f].max_pending_value \in Values
  BY <1>4, ReportRecomputes
<1>6. SharedTypeOK /\ Exclusive
  BY DEF FlushInv
<1>7. (\A g : Publishing(g)' <=> Publishing(g)) /\ (Taking' <=> Taking)
  BY <1>1 DEF Publishing, Taking, InFlush, InBlocked, Idle, Top, CurrentOp, CurrentQueue
<1>8. MaxFits'
  <2>1. ASSUME NEW g \in Fences PROVE Settled(g)' \/ Publishing(g)'
    <3>1. CASE g = f
      BY <1>5, <3>1 DEF Recomputed, Settled
    <3>2. CASE g # f
      <4>1. fence'[g] = fence[g]
        BY <1>5, <3>2 DEF Recomputed
      <4> QED BY <1>7, <4>1 DEF WakeInv, MaxFits, Settled
    <3> QED BY <3>1, <3>2
  <2> QED BY <2>1 DEF MaxFits
<1>9. ASSUME NEW op, op.fence \in Fences, op.value \in Values,
             ~Pending(op), ~Publishing(op.fence)
      PROVE  (~Pending(op))'
  BY <1>5, <1>9, StillWaits
<1>10. StopFits'
  <2>1. ASSUME NEW t \in Threads, InFlush(t, "fixup")' PROVE (~Pending(CurrentOp(t)))'
    <3>1. InFlush(t, "fixup") /\ CurrentOp(t)' = CurrentOp(t)
      BY <1>1, <2>1 DEF InFlush, Idle, Top, CurrentOp, CurrentQueue
    <3>2. PICK op : op = CurrentOp(t)
      OBVIOUS
    <3>3. Top(t).pc = "fixup" /\ op \in Op /\ op.type = "wait"
      BY <3>1, <3>2, MidOpProperties DEF TypeAt
    <3>4. op.fence \in Fences /\ op.value \in Values
      BY <3>2, <3>3, SignalOpType
    <3>5. ~Pending(op)
      BY <3>1, <3>2 DEF WakeInv, StopFits
    <3>6. ~Publishing(op.fence)
      BY <3>3, NotPublishing DEF PublishPcs
    <3>7. (~Pending(op))'
      BY <1>9, <3>4, <3>5, <3>6
    <3>8. (CurrentOp(t))' = op
      BY <3>1, <3>2
    <3> QED BY <3>7, <3>8
  <2> QED BY <2>1 DEF StopFits
<1>11. ASSUME NEW q \in Queues, NEW j \in Nat, OnList(q, j)'
       PROVE  \E op : Head(op_queue'[q]) = op /\ Stuck(op)'
  <2>1. PICK op : op = Head(op_queue[q])
    OBVIOUS
  <2>2. OnList(q, j) /\ Head(op_queue'[q]) = op
    BY <1>1, <1>11, <2>1, StaysBy DEF Stays
  <2>3. Stuck(op)
    BY <2>1, <2>2 DEF WakeInv, ListFits
  <2>4. op.type = "wait" /\ op.fence \in Fences /\ op.value \in Values
    BY <1>6, <2>1, <2>2, <2>3, ListedOp DEF Stuck
  <2>5. (~Pending(op))' \/ Publishing(op.fence)' \/ Taking'
    BY <1>7, <1>9, <2>3, <2>4 DEF Stuck
  <2> QED BY <2>2, <2>4, <2>5, StuckNext
<1>12. ListFits'
  BY <1>11, ListNextBy
<1> QED BY <1>8, <1>10, <1>12 DEF WakeInv

LEMMA WakeOfStill ==
    ASSUME WakeInv, UNCHANGED <<fence, stack, aux_op_queue, op_queue, blocked_queues>>
    PROVE  WakeInv'
BY DEF WakeInv, MaxFits, Settled, StopFits, ListFits, OnList, Stuck, Pending, Publishing, Taking,
   InFlush, InBlocked, Idle, Top, CurrentOp, CurrentQueue

LEMMA WakeInit == Init => WakeInv
<1> SUFFICES ASSUME Init PROVE WakeInv
  OBVIOUS
<1>1. PICK initial_value \in [Fences -> Values] :
          fence = [f \in Fences |-> InitialFence(initial_value[f])]
  BY DEF Init, FenceInit
<1>2. ASSUME NEW f \in Fences PROVE Settled(f)
  <2>1. PICK v \in Values : v = initial_value[f]
    OBVIOUS
  <2>2. fence[f] = InitialFence(v)
    BY <1>1, <2>1
  <2>3. /\ fence[f].value = v /\ fence[f].max_pending_value = v
        /\ fence[f].semaphores = {}
    BY <2>2 DEF InitialFence
  <2>4. PendingValues(fence[f]) = {v}
    BY <2>3 DEF PendingValues
  <2> QED BY <2>1, <2>3, <2>4, FenceAssumption DEF Settled
<1>3. \A t \in Threads : Idle(t)
  BY DEF Init, Idle
<1>4. ASSUME NEW q \in Queues, NEW j \in Nat PROVE ~OnList(q, j)
  <2>1. Len(blocked_queues) = 0
    BY EmptySeq DEF Init
  <2> QED BY <2>1 DEF OnList
<1> QED BY <1>2, <1>3, <1>4 DEF WakeInv, MaxFits, StopFits, ListFits, InFlush

LEMMA WakeStep ==
    ASSUME OneThread, ~SubmitMayFail, QueueInv, WakeInv, [Next]_vars
    PROVE  WakeInv'
<1>1. TypeInv /\ FlushInv /\ WorkersFit
  BY DEF QueueInv
<1>2. ASSUME NEW t \in Threads, AppCall(t) \/ ThreadStep(t) PROVE WakeInv'
  BY <1>1, <1>2, StepCases, WakeOfPlain, WakeOfList, WakeOfMid
<1>3. ASSUME NEW q \in Queues, WorkerSignal(q) PROVE WakeInv'
  BY <1>1, <1>3, WakeOfWorker
<1>4. ASSUME NEW vq \in VkQueues, Gpu(vq) PROVE WakeInv'
  <2>1. UNCHANGED <<fence, stack, aux_op_queue, op_queue, blocked_queues>>
    BY <1>4 DEF Gpu, GpuNext, fenceVars, queueVars
  <2> QED BY <2>1, WakeOfStill
<1>5. CASE UNCHANGED vars
  BY <1>5, WakeOfStill DEF vars, fenceVars, queueVars
<1> QED BY <1>2, <1>3, <1>4, <1>5 DEF Next

LEMMA WakeAlways == OneThread /\ ~SubmitMayFail => (Spec => [](QueueInv /\ WakeInv))
<1> SUFFICES ASSUME OneThread, ~SubmitMayFail PROVE Spec => [](QueueInv /\ WakeInv)
  OBVIOUS
<1>1. QueueInv /\ WakeInv /\ [Next]_vars => WakeInv'
  BY WakeStep
<1> QED BY <1>1, WakeInit, QueueInvAlways, PTL DEF Spec

\* With no call under way, a queue with operations left is on the list.
LEMMA HeldByList ==
    ASSUME FlushInv, HasRoom, NEW q \in Queues, op_queue[q] # <<>>,
           \A t \in Threads : Idle(t)
    PROVE  \E j \in Nat : OnList(q, j)
<1>1. PICK h \in Holders(q) : TRUE
  BY NoneOrphaned DEF NeverOrphaned, HasRoom
<1>2. \A t \in Threads : Len(stack[t]) = 0
  BY EmptySeq DEF Idle
<1>3. \A t \in Threads : \A k, j \in Nat : ~InArray(q, t, k, j) /\ ~Flushed(q, t, k)
  BY <1>2 DEF InArray, Flushed
<1>4. h \in ListHolders(q)
  BY <1>1, <1>3, HolderCases DEF Holders
<1> QED BY <1>4, HolderCases

\* "Flush any ops unblocked by a new pending value": when the application has
\* one thread, the blocked list has room for all queues and no submission
\* fails, no call returns and leaves a queue behind whose next operation could
\* go, however the flushes nest and whatever the workers report meanwhile.
THEOREM NoQueueStranded ==
    OneThread /\ ~SubmitMayFail /\ HasRoom => (Spec => []NoStrandedQueue)
<1> SUFFICES ASSUME OneThread, ~SubmitMayFail, HasRoom PROVE Spec => []NoStrandedQueue
  OBVIOUS
<1>1. QueueInv /\ WakeInv => NoStrandedQueue
  <2> SUFFICES ASSUME QueueInv, WakeInv, NEW q \in Queues, Stranded(q) PROVE FALSE
    BY DEF NoStrandedQueue
  <2>1. (\A t \in Threads : Idle(t)) /\ op_queue[q] # <<>> /\ FlushInv
    BY DEF Stranded, QueueInv
  <2>2. PICK j \in Nat : OnList(q, j)
    BY <2>1, HeldByList
  <2>3. PICK op : op = Head(op_queue[q])
    OBVIOUS
  <2>4. Stuck(op)
    BY <2>2, <2>3 DEF WakeInv, ListFits
  <2>5. ~Taking /\ ~Publishing(op.fence)
    BY <2>1 DEF Taking, Publishing, InBlocked, InFlush
  <2>6. op.type = "wait" /\ ~Pending(op)
    BY <2>4, <2>5 DEF Stuck
  <2> QED BY <2>3, <2>6 DEF Stranded, Pending
<1> QED BY <1>1, WakeAlways, PTL

-----------------------------------------------------------------------------
(***************************************************************************)
(* The order of a wait and its signal in a VkQueue.  With two threads it   *)
(* may be wrong (CommandQueueSignaledFence): a wait is tied to a signal    *)
(* that another thread has added, but not submitted.                       *)
(***************************************************************************)

\* The timeline value of a signal of f is taken, but the signal not submitted.
SubmitPcs == {"read_value", "submit_signal"}
SubmitsSignal(f) == \E t \in Threads : \E pc \in SubmitPcs :
    InFlush(t, pc) /\ CurrentOp(t).fence = f

\* A wait that is to be submitted waits for a signal that was queued; a signal
\* that is to be submitted is the last one.
CallsAhead == \A t \in Threads :
    /\ InFlush(t, "submit_wait") =>
           Top(t).timeline_value <= Len(requested[CurrentOp(t).fence])
    /\ InFlush(t, "submit_signal") =>
           Top(t).timeline_value = Len(requested[CurrentOp(t).fence])

\* No submitted wait waits for the signal that is not submitted yet.
Ahead(b) ==
    /\ b.timeline_value <= Len(requested[b.fence])
    /\ SubmitsSignal(b.fence) => b.timeline_value < Len(requested[b.fence])

WaitsAhead == \A vq \in VkQueues : \A j \in 1 .. Len(vk_queue[vq]) :
    vk_queue[vq][j].type = "wait" => Ahead(vk_queue[vq][j])

\* A signal behind a wait for the same fence is none that it waits for.
Turn(b, c) == (b.type = "wait" /\ c.type = "signal" /\ b.fence = c.fence)
                  => b.timeline_value < c.timeline_value

InTurn == \A vq \in VkQueues : \A i, j \in 1 .. Len(vk_queue[vq]) :
    i < j => Turn(vk_queue[vq][i], vk_queue[vq][j])

TurnInv == CallsAhead /\ WaitsAhead /\ InTurn

LEMMA WaitBatch ==
    ASSUME NEW b \in Batch, b.type = "wait"
    PROVE  b.fence \in Fences /\ b.timeline_value \in Nat
BY DEF Batch, SemaphoreBatch, ExecuteBatch

LEMMA QueuedBatch ==
    ASSUME VulkanTypeOK, NEW vq \in VkQueues, NEW j \in 1 .. Len(vk_queue[vq])
    PROVE  vk_queue[vq][j] \in Batch
BY ElementOfSeq DEF VulkanTypeOK

LEMMA CountType ==
    ASSUME FenceTypeOK, NEW f \in Fences
    PROVE  Len(requested[f]) \in Nat
BY DEF FenceTypeOK

\* A batch may stay where it is when fewer signals are underway.
LEMMA AheadKept ==
    ASSUME \A f : SubmitsSignal(f)' => SubmitsSignal(f), UNCHANGED requested,
           NEW b, Ahead(b)
    PROVE  Ahead(b)'
BY DEF Ahead

\* The VkQueues lose batches at the front, or stay.
LEMMA TurnPopped ==
    ASSUME WaitsAhead, InTurn, \A f : SubmitsSignal(f)' => SubmitsSignal(f),
           UNCHANGED requested, NEW place,
           \A vq \in VkQueues : \A j \in 1 .. Len(vk_queue'[vq]) :
               /\ place[vq][j] \in 1 .. Len(vk_queue[vq])
               /\ vk_queue'[vq][j] = vk_queue[vq][place[vq][j]],
           \A vq \in VkQueues : \A i, j \in 1 .. Len(vk_queue'[vq]) :
               i < j => place[vq][i] < place[vq][j]
    PROVE  WaitsAhead' /\ InTurn'
<1>1. ASSUME NEW vq \in VkQueues, NEW j \in 1 .. Len(vk_queue'[vq]),
             vk_queue'[vq][j].type = "wait"
      PROVE  Ahead(vk_queue[vq][j])'
  <2>1. PICK b : b = vk_queue'[vq][j]
    OBVIOUS
  <2>2. Ahead(b)
    BY <1>1, <2>1 DEF WaitsAhead
  <2>3. Ahead(b)'
    BY <2>2, AheadKept
  <2>4. (vk_queue[vq][j])' = b
    BY <2>1
  <2> QED BY <2>3, <2>4 DEF Ahead, SubmitsSignal
<1>2. ASSUME NEW vq \in VkQueues, NEW i \in 1 .. Len(vk_queue'[vq]),
             NEW j \in 1 .. Len(vk_queue'[vq]), i < j
      PROVE  Turn(vk_queue[vq][i], vk_queue[vq][j])'
  <2>1. PICK k \in 1 .. Len(vk_queue[vq]), l \in 1 .. Len(vk_queue[vq]) :
            k = place[vq][i] /\ l = place[vq][j]
    OBVIOUS
  <2>2. k < l /\ vk_queue'[vq][i] = vk_queue[vq][k] /\ vk_queue'[vq][j] = vk_queue[vq][l]
    BY <1>2, <2>1
  <2>3. Turn(vk_queue[vq][k], vk_queue[vq][l])
    BY <2>2 DEF InTurn
  <2> QED BY <2>2, <2>3 DEF Turn
<1> QED BY <1>1, <1>2 DEF WaitsAhead, InTurn

\* A wait comes behind the signals; a signal comes behind waits for others.
LEMMA TurnAppended ==
    ASSUME VulkanTypeOK, FenceTypeOK, WaitsAhead, InTurn, UNCHANGED requested,
           \A f : ~SubmitsSignal(f)', NEW c \in VkQueues, NEW b \in Batch, VkQueueSubmit(c, b),
           b.type = "wait" => b.timeline_value <= Len(requested[b.fence]),
           b.type = "signal" => /\ SubmitsSignal(b.fence)
                                /\ b.timeline_value = Len(requested[b.fence])
    PROVE  WaitsAhead' /\ InTurn'
<1>1. vk_queue[c] \in Seq(Batch)
  BY DEF VulkanTypeOK
<1>2. PICK s : s = Append(vk_queue[c], b)
  OBVIOUS
<1>3. PICK l \in Nat : l = Len(vk_queue[c])
  BY <1>1
<1>4. Len(s) = l + 1 /\ s[l + 1] = b /\ \A k \in 1 .. l : s[k] = vk_queue[c][k]
  BY <1>1, <1>2, <1>3, AppendTo
<1>5. \A vq \in VkQueues : vk_queue'[vq] = IF vq = c THEN s ELSE vk_queue[vq]
  BY <1>2 DEF VkQueueSubmit, VulkanTypeOK
<1>6. \A vq \in VkQueues : Len(vk_queue[vq]) \in Nat
  BY DEF VulkanTypeOK
<1>7. ASSUME NEW vq \in VkQueues, NEW j \in 1 .. Len(vk_queue'[vq]),
             ~(j \in 1 .. Len(vk_queue[vq]) /\ vk_queue'[vq][j] = vk_queue[vq][j])
      PROVE  vq = c /\ j = l + 1 /\ vk_queue'[vq][j] = b
  <2>1. CASE vq # c
    BY <1>5, <1>7, <2>1
  <2>2. CASE vq = c
    <3>1. vk_queue'[vq] = s /\ j \in 1 .. l + 1
      BY <1>4, <1>5, <2>2
    <3> QED BY <1>3, <1>4, <1>7, <2>2, <3>1
  <2> QED BY <2>1, <2>2
<1>8. ASSUME NEW vq \in VkQueues, NEW j \in 1 .. Len(vk_queue'[vq]),
             vk_queue'[vq][j].type = "wait"
      PROVE  Ahead(vk_queue[vq][j])'
  <2>1. PICK d : d = vk_queue'[vq][j]
    OBVIOUS
  <2>2. d.timeline_value <= Len(requested[d.fence])
    <3>1. CASE j \in 1 .. Len(vk_queue[vq]) /\ vk_queue'[vq][j] = vk_queue[vq][j]
      BY <1>8, <2>1, <3>1 DEF WaitsAhead, Ahead
    <3>2. CASE vk_queue'[vq][j] = b
      BY <1>8, <2>1, <3>2
    <3> QED BY <1>7, <3>1, <3>2
  <2>3. Ahead(d)'
    BY <2>2 DEF Ahead
  <2>4. (vk_queue[vq][j])' = d
    BY <2>1
  <2> QED BY <2>3, <2>4 DEF Ahead, SubmitsSignal
<1>9. ASSUME NEW vq \in VkQueues, NEW i \in 1 .. Len(vk_queue'[vq]),
             NEW j \in 1 .. Len(vk_queue'[vq]), i < j
      PROVE  Turn(vk_queue[vq][i], vk_queue[vq][j])'
  <2>1. i \in 1 .. Len(vk_queue[vq]) /\ vk_queue'[vq][i] = vk_queue[vq][i]
    <3>1. CASE vq = c /\ i = l + 1
      <4>1. j \in 1 .. l + 1
        BY <1>4, <1>5, <3>1
      <4> QED BY <1>3, <1>9, <3>1, <4>1
    <3> QED BY <1>7, <3>1
  <2>2. PICK d \in Batch : d = vk_queue[vq][i]
    BY <2>1, QueuedBatch
  <2>3. CASE j \in 1 .. Len(vk_queue[vq]) /\ vk_queue'[vq][j] = vk_queue[vq][j]
    <3>1. Turn(vk_queue[vq][i], vk_queue[vq][j])
      BY <1>9, <2>1, <2>3 DEF InTurn
    <3> QED BY <2>1, <2>3, <3>1 DEF Turn
  <2>4. CASE vk_queue'[vq][j] = b
    <3>1. Turn(d, b)
      <4> SUFFICES ASSUME d.type = "wait", b.type = "signal", d.fence = b.fence
                   PROVE  d.timeline_value < b.timeline_value
        BY DEF Turn
      <4>1. Ahead(d)
        BY <2>1, <2>2 DEF WaitsAhead
      <4> QED BY <4>1 DEF Ahead
    <3> QED BY <2>1, <2>2, <2>4, <3>1 DEF Turn
  <2> QED BY <1>7, <2>3, <2>4
<1> QED BY <1>8, <1>9 DEF WaitsAhead, InTurn

\* A signal is added: what was submitted waits for an earlier one.
LEMMA TurnRequested ==
    ASSUME VulkanTypeOK, FenceTypeOK, WaitsAhead, InTurn, UNCHANGED vk_queue,
           NEW f \in Fences, NEW v \in Values, AddPendingTimelineSignal(f, v),
           \A g : SubmitsSignal(g)' => g = f
    PROVE  WaitsAhead' /\ InTurn'
<1>1. /\ Len(requested'[f]) = Len(requested[f]) + 1
      /\ \A g \in Fences \ {f} : requested'[g] = requested[g]
  <2>1. requested[f] \in Seq(Values)
    BY DEF FenceTypeOK
  <2>2. PICK r : r = Append(requested[f], v)
    OBVIOUS
  <2>3. Len(r) = Len(requested[f]) + 1
    BY <2>1, <2>2, AppendTo
  <2>4. requested' = [requested EXCEPT ![f] = r]
    BY <2>2 DEF AddPendingTimelineSignal
  <2> QED BY <2>3, <2>4 DEF FenceTypeOK
<1>2. ASSUME NEW vq \in VkQueues, NEW j \in 1 .. Len(vk_queue[vq]),
             vk_queue[vq][j].type = "wait"
      PROVE  Ahead(vk_queue[vq][j])'
  <2>1. PICK b \in Batch : b = vk_queue[vq][j]
    BY QueuedBatch
  <2>2. PICK g \in Fences, n \in Nat, l \in Nat :
            g = b.fence /\ n = b.timeline_value /\ l = Len(requested[g])
    BY <1>2, <2>1, WaitBatch, CountType
  <2>3. n <= l
    BY <1>2, <2>1, <2>2 DEF WaitsAhead, Ahead
  <2>4. CASE g = f
    <3>1. n < Len(requested'[g]) /\ n <= Len(requested'[g])
      BY <1>1, <2>2, <2>3, <2>4
    <3>2. Ahead(b)'
      BY <2>2, <3>1 DEF Ahead
    <3> QED BY <2>1, <3>2 DEF Ahead, SubmitsSignal
  <2>5. CASE g # f
    <3>1. n <= Len(requested'[g]) /\ ~SubmitsSignal(g)'
      BY <1>1, <2>2, <2>3, <2>5
    <3>2. Ahead(b)'
      BY <2>2, <3>1 DEF Ahead
    <3> QED BY <2>1, <3>2 DEF Ahead, SubmitsSignal
  <2> QED BY <2>4, <2>5
<1>3. InTurn'
  BY DEF InTurn, Turn
<1> QED BY <1>2, <1>3 DEF WaitsAhead

LEMMA NotSubmittingNext ==
    ASSUME OneThread, NEW t \in Threads, Plain(t)' \/ Top(t)'.pc \notin SubmitPcs
    PROVE  \A f : ~SubmitsSignal(f)'
<1>1. \A pc \in SubmitPcs : ~InFlush(t, pc)'
  BY DEF InFlush, Plain, SubmitPcs
<1>2. \A u \in Threads : u = t
  BY DEF OneThread
<1> QED BY <1>1, <1>2 DEF SubmitsSignal

LEMMA CallsAheadNext ==
    ASSUME OneThread, NEW t \in Threads,
           Plain(t)' \/ Top(t)'.pc \notin {"submit_wait", "submit_signal"}
    PROVE  CallsAhead'
<1>1. ~InFlush(t, "submit_wait")' /\ ~InFlush(t, "submit_signal")'
  BY DEF InFlush, Plain
<1>2. \A u \in Threads : u = t
  BY DEF OneThread
<1> QED BY <1>1, <1>2 DEF CallsAhead

\* Only a flush that has just added a signal has changed the histories.
LEMMA RequestsStay ==
    ASSUME OneThread, FlushInv, FenceTypeOK, NEW t \in Threads, AppCall(t) \/ ThreadStep(t),
           Plain(t)' \/ Top(t)'.pc # "read_value"
    PROVE  UNCHANGED requested
<1>1. ~FlushSignal(t)
  <2> SUFFICES ASSUME FlushSignal(t) PROVE FALSE
    OBVIOUS
  <2>1. MovesTo(t, "read_value")
    BY MidNext DEF MidStep, MidStepPcs
  <2> QED BY <2>1 DEF MovesTo, InFlush, Plain
<1>2. \A u \in Threads : ~FlushSignal(u)
  BY <1>1 DEF OneThread
<1> QED BY <1>2, RequestsUnchanged DEF Next

LEMMA TurnSame ==
    ASSUME WaitsAhead, InTurn, \A f : SubmitsSignal(f)' => SubmitsSignal(f),
           UNCHANGED <<requested, vk_queue>>
    PROVE  WaitsAhead' /\ InTurn'
<1>1. ASSUME NEW vq \in VkQueues, NEW j \in 1 .. Len(vk_queue[vq]),
             vk_queue[vq][j].type = "wait"
      PROVE  Ahead(vk_queue[vq][j])'
  <2>1. PICK b : b = vk_queue[vq][j]
    OBVIOUS
  <2>2. Ahead(b)
    BY <1>1, <2>1 DEF WaitsAhead
  <2>3. Ahead(b)'
    BY <2>2, AheadKept
  <2> QED BY <2>1, <2>3 DEF Ahead, SubmitsSignal
<1>2. InTurn'
  BY DEF InTurn, Turn
<1> QED BY <1>1, <1>2 DEF WaitsAhead

\* get_timeline_wait_value_locked() finds a signal that was queued, or none.
LEMMA LookedUp ==
    ASSUME Inv, NEW f \in Fences, NEW v, NEW w \in WaitValues(fence[f], v)
    PROVE  w \in Nat /\ w <= Len(requested[f])
<1>1. PICK g \in FenceRecord : g = fence[f] /\ Kept(g, requested[f])
  BY DEF Inv, TypeInv, FenceTypeOK, GoodFence
<1>2. PICK l \in Nat : l = Len(requested[f])
  BY CountType DEF Inv, TypeInv
<1>3. w \in Nat
  BY <1>1, WaitValueType
<1>4. CASE Reaching(g, v) = {}
  BY <1>1, <1>2, <1>4 DEF WaitValues
<1>5. CASE Reaching(g, v) # {}
  <2>1. PICK s \in g.semaphores : w = s.timeline_value
    BY <1>1, <1>5 DEF WaitValues, Reaching
  <2>2. PICK n \in g.timeline_value + 1 .. l :
            s = [value |-> requested[f][n], timeline_value |-> n]
    BY <1>1, <1>2, <2>1 DEF Kept
  <2>3. g.timeline_value \in Nat
    BY <1>1 DEF FenceRecord
  <2> QED BY <1>2, <1>3, <2>1, <2>2, <2>3
<1> QED BY <1>3, <1>4, <1>5

LEMMA TurnOfPlain ==
    ASSUME OneThread, QueueInv, TurnInv, NEW t \in Threads, AppCall(t) \/ ThreadStep(t),
           PlainStep(t)
    PROVE  TurnInv'
<1>1. FlushInv /\ FenceTypeOK /\ VulkanTypeOK /\ CallsAhead /\ WaitsAhead /\ InTurn
  BY DEF QueueInv, TypeInv, DataTypeOK, TurnInv
<1>2. Plain(t)'
  BY <1>1, PlainNext
<1>3. CallsAhead' /\ (\A f : ~SubmitsSignal(f)') /\ UNCHANGED requested
  BY <1>1, <1>2, CallsAheadNext, NotSubmittingNext, RequestsStay
<1>4. CASE UNCHANGED vk_queue
  BY <1>1, <1>3, <1>4, TurnSame DEF TurnInv
<1>5. CASE SubmitWait(t)
  <2>1. InFlush(t, "submit_wait")
    BY <1>5 DEF SubmitWait
  <2>2. /\ ~Idle(t) /\ Top(t).fn = "flush_ops"
        /\ CurrentOp(t) \in Op /\ CurrentOp(t).type = "wait"
    BY <1>1, <2>1, MidOpProperties DEF TypeAt
  <2>3. PICK b : b = [type |-> "wait", fence |-> CurrentOp(t).fence,
                      timeline_value |-> Top(t).timeline_value, value |-> CurrentOp(t).value]
    OBVIOUS
  <2>4. b \in Batch
    BY <1>1, <2>2, <2>3, BatchType
  <2>5. PICK c \in VkQueues : c = VkQueueOf[CurrentQueue(t)]
    BY <1>1, <2>2, FlushTop, QueueAssumption
  <2>6. VkQueueSubmit(c, b) \/ UNCHANGED vk_queue
    BY <1>5, <2>3, <2>5 DEF SubmitWait, vulkanVars
  <2>7. b.type = "wait" /\ b.timeline_value <= Len(requested[b.fence])
    BY <1>1, <2>1, <2>3 DEF CallsAhead
  <2> QED BY <1>1, <1>3, <1>4, <2>4, <2>6, <2>7, TurnAppended DEF TurnInv
<1>6. CASE FlushExecute(t)
  <2>1. ~Idle(t) /\ Top(t).fn = "flush_ops"
    BY <1>6 DEF FlushExecute, AtOp, InFlush
  <2>2. PICK c \in VkQueues : c = VkQueueOf[CurrentQueue(t)]
    BY <1>1, <2>1, FlushTop, QueueAssumption
  <2>3. VkQueueSubmit(c, ExecuteBatch) \/ UNCHANGED vk_queue
    BY <1>6, <2>2 DEF FlushExecute, vulkanVars
  <2>4. ExecuteBatch \in Batch /\ ExecuteBatch.type \notin {"wait", "signal"}
    BY DEF Batch, ExecuteBatch
  <2> QED BY <1>1, <1>3, <1>4, <2>3, <2>4, TurnAppended DEF TurnInv
<1>7. CASE SubmitSignal(t)
  <2>1. ~SetTop(t, [Top(t) EXCEPT !.pc = "update"])
    <3> SUFFICES ASSUME SetTop(t, [Top(t) EXCEPT !.pc = "update"]) PROVE FALSE
      OBVIOUS
    <3>1. MovesTo(t, "update")
      BY <1>1, <1>7, MidNext DEF MidStep, MidStepPcs
    <3> QED BY <1>2, <3>1 DEF MovesTo, InFlush, Plain
  <2>2. UNCHANGED vk_queue
    BY <1>7, <2>1 DEF SubmitSignal, vulkanVars
  <2> QED BY <1>4, <2>2
<1>8. CASE \E q \in Queues : \E op : Enqueue(t, q, op)
  <2>1. UNCHANGED vk_queue
    BY <1>8 DEF Enqueue, vulkanVars
  <2> QED BY <1>4, <2>1
<1>9. CASE \/ FixupAfterFlush(t) \/ FlushMappings(t) \/ EnqueueTimelineSemaphore(t)
           \/ EndOfOps(t) \/ TakeBlockedQueues(t) \/ FlushNextQueue(t) \/ EndOfRound(t)
  <2>1. UNCHANGED vk_queue
    BY <1>9 DEF FixupAfterFlush, FlushMappings, EnqueueTimelineSemaphore, EndOfOps,
       TakeBlockedQueues, FlushNextQueue, EndOfRound, vulkanVars
  <2> QED BY <1>4, <2>1
<1> QED BY <1>5, <1>6, <1>7, <1>8, <1>9 DEF PlainStep

LEMMA TurnOfList ==
    ASSUME OneThread, QueueInv, TurnInv, NEW t \in Threads, AppCall(t) \/ ThreadStep(t),
           ListStep(t)
    PROVE  TurnInv'
<1>1. FlushInv /\ FenceTypeOK /\ CallsAhead /\ WaitsAhead /\ InTurn
  BY DEF QueueInv, TypeInv, TurnInv
<1>2. Top(t)'.pc = "take"
  BY <1>1, ListNext
<1>3. CallsAhead' /\ (\A f : ~SubmitsSignal(f)') /\ UNCHANGED requested
  BY <1>1, <1>2, CallsAheadNext, NotSubmittingNext, RequestsStay DEF SubmitPcs
<1>4. UNCHANGED vk_queue
  <2>1. ASSUME NEW f, NEW v, FenceSignal(t, f, v) PROVE UNCHANGED vk_queue
    BY <2>1 DEF FenceSignal, RecordCpuValue
  <2>2. CASE PublishSignal(t) \/ FlushSignalOnCpu(t) \/ EndOfRound(t)
    BY <2>2 DEF PublishSignal, FlushSignalOnCpu, EndOfRound, RecordCpuValue, vulkanVars
  <2> QED BY <2>1, <2>2 DEF ListStep
<1> QED BY <1>1, <1>3, <1>4, TurnSame DEF TurnInv

\* What a wait found, and the value a signal reads, are those of the history.
LEMMA CallsAheadMid ==
    ASSUME OneThread, QueueInv, Inv, NEW t \in Threads, NEW pc \in MidStepPcs,
           MidStep(t, pc)
    PROVE  CallsAhead'
<1>1. FlushInv /\ FenceTypeOK
  BY DEF QueueInv, TypeInv
<1>2. MovesTo(t, pc)
  BY <1>1, MidNext
<1>3. \A u \in Threads : u = t
  BY DEF OneThread
<1>4. CASE pc \notin {"submit_wait", "submit_signal"}
  BY <1>2, <1>4, CallsAheadNext DEF MovesTo
<1>5. CASE pc = "submit_wait"
  <2>1. FlushWait(t)
    BY <1>5 DEF MidStep
  <2>2. /\ ~Idle(t) /\ Top(t).fn = "flush_ops"
        /\ CurrentOp(t) \in Op /\ CurrentOp(t).type = "wait"
    BY <1>1, <2>1, AtOpProperties DEF FlushWait
  <2>3. PICK f \in Fences, v \in Values : f = CurrentOp(t).fence /\ v = CurrentOp(t).value
    BY <1>1, <2>2, SignalOpType
  <2>4. PICK w \in WaitValues(fence[f], v) :
            SetTop(t, [Top(t) EXCEPT !.pc = "submit_wait", !.timeline_value = w])
    BY <2>1, <2>3 DEF FlushWait
  <2>5. w \in Nat /\ w <= Len(requested[f])
    BY LookedUp
  <2>6. UNCHANGED <<aux_op_queue, requested>>
    BY <2>1 DEF FlushWait, fenceVars, queueVars
  <2>7. (Top(t)').timeline_value = w /\ CurrentOp(t)' = CurrentOp(t)
    BY <1>1, <2>2, <2>4, <2>5, <2>6, FlushGoesTo
  <2>8. (Top(t)').timeline_value <= Len(requested'[(CurrentOp(t)').fence])
    BY <2>3, <2>5, <2>6, <2>7
  <2>9. ~InFlush(t, "submit_signal")'
    BY <1>2, <1>5 DEF MovesTo, InFlush
  <2> QED BY <1>3, <2>8, <2>9 DEF CallsAhead
<1>6. CASE pc = "submit_signal"
  <2>1. ReadTimelineValue(t)
    BY <1>6 DEF MidStep
  <2>2. /\ ~Idle(t) /\ Top(t).fn = "flush_ops"
        /\ CurrentOp(t) \in Op /\ CurrentOp(t).type = "signal"
    BY <1>1, <2>1, MidOpProperties DEF ReadTimelineValue, TypeAt
  <2>3. PICK f \in Fences : f = CurrentOp(t).fence
    BY <1>1, <2>2, SignalOpType
  <2>4. PICK w \in Nat : w = fence[f].pending_timeline_value
    BY <1>1 DEF FenceTypeOK, FenceRecord
  <2>5. w = Len(requested[f])
    BY <2>4 DEF Inv, GoodFence, Kept
  <2>6. /\ SetTop(t, [Top(t) EXCEPT !.pc = "submit_signal", !.timeline_value = w])
        /\ UNCHANGED <<aux_op_queue, requested>>
    BY <2>1, <2>3, <2>4 DEF ReadTimelineValue, fenceVars, queueVars
  <2>7. (Top(t)').timeline_value = w /\ CurrentOp(t)' = CurrentOp(t)
    BY <1>1, <2>2, <2>6, FlushGoesTo
  <2>8. (Top(t)').timeline_value = Len(requested'[(CurrentOp(t)').fence])
    BY <2>3, <2>5, <2>6, <2>7
  <2>9. ~InFlush(t, "submit_wait")'
    BY <1>2, <1>6 DEF MovesTo, InFlush
  <2> QED BY <1>3, <2>8, <2>9 DEF CallsAhead
<1> QED BY <1>4, <1>5, <1>6

LEMMA TurnOfMid ==
    ASSUME OneThread, QueueInv, Inv, TurnInv, NEW t \in Threads,
           AppCall(t) \/ ThreadStep(t), NEW pc \in MidStepPcs, MidStep(t, pc)
    PROVE  TurnInv'
<1>1. FlushInv /\ FenceTypeOK /\ VulkanTypeOK /\ CallsAhead /\ WaitsAhead /\ InTurn
  BY DEF QueueInv, TypeInv, DataTypeOK, TurnInv
<1>2. MovesTo(t, pc)
  BY <1>1, MidNext
<1>3. CallsAhead'
  BY CallsAheadMid
<1>4. \A u \in Threads : u = t
  BY DEF OneThread
<1>5. \A f : SubmitsSignal(f)' => f = CurrentOp(t).fence
  BY <1>2, <1>4 DEF SubmitsSignal, MovesTo
<1>6. CASE FlushSignal(t) /\ pc = "read_value"
  <2>1. CurrentOp(t) \in Op /\ CurrentOp(t).type = "signal"
    BY <1>1, <1>6, AtOpProperties DEF FlushSignal
  <2>2. PICK f \in Fences, v \in Values : f = CurrentOp(t).fence /\ v = CurrentOp(t).value
    BY <1>1, <2>1, SignalOpType
  <2>3. AddPendingTimelineSignal(f, v) /\ UNCHANGED vk_queue
    BY <1>6, <2>2 DEF FlushSignal, vulkanVars
  <2> QED BY <1>1, <1>3, <1>5, <2>2, <2>3, TurnRequested DEF TurnInv
<1>7. CASE pc # "read_value"
  <2>1. UNCHANGED requested
    BY <1>1, <1>2, <1>7, RequestsStay DEF MovesTo
  <2>2. CASE (FlushWait(t) \/ FlushStop(t)) /\ pc \notin SubmitPcs
    <3>1. UNCHANGED vk_queue
      BY <2>2 DEF FlushWait, FlushStop, vulkanVars
    <3>2. \A f : ~SubmitsSignal(f)'
      BY <1>2, <2>2, NotSubmittingNext DEF MovesTo
    <3> QED BY <1>1, <1>3, <2>1, <3>1, <3>2, TurnSame DEF TurnInv
  <2>3. CASE ReadTimelineValue(t)
    <3>1. UNCHANGED vk_queue /\ InFlush(t, "read_value")
      BY <2>3 DEF ReadTimelineValue, vulkanVars
    <3>2. SubmitsSignal(CurrentOp(t).fence)
      BY <3>1 DEF SubmitsSignal, SubmitPcs
    <3> QED BY <1>1, <1>3, <1>5, <2>1, <3>1, <3>2, TurnSame DEF TurnInv
  <2>4. CASE SubmitSignal(t) /\ pc = "update"
    <3>1. InFlush(t, "submit_signal")
      BY <2>4 DEF SubmitSignal
    <3>2. /\ ~Idle(t) /\ Top(t).fn = "flush_ops"
          /\ CurrentOp(t) \in Op /\ CurrentOp(t).type = "signal"
      BY <1>1, <3>1, MidOpProperties DEF TypeAt
    <3>3. PICK b : b = [type |-> "signal", fence |-> CurrentOp(t).fence,
                        timeline_value |-> Top(t).timeline_value,
                        value |-> CurrentOp(t).value]
      OBVIOUS
    <3>4. b \in Batch
      BY <1>1, <3>2, <3>3, BatchType
    <3>5. PICK c \in VkQueues : c = VkQueueOf[CurrentQueue(t)]
      BY <1>1, <3>2, FlushTop, QueueAssumption
    <3>6. VkQueueSubmit(c, b) \/ UNCHANGED vk_queue
      BY <2>4, <3>3, <3>5 DEF SubmitSignal, vulkanVars
    <3>7. SubmitsSignal(CurrentOp(t).fence)
      BY <3>1 DEF SubmitsSignal, SubmitPcs
    <3>8. /\ b.type = "signal" /\ SubmitsSignal(b.fence)
          /\ b.timeline_value = Len(requested[b.fence])
      BY <1>1, <3>1, <3>3, <3>7 DEF CallsAhead
    <3>9. \A f : ~SubmitsSignal(f)'
      BY <1>2, <2>4, NotSubmittingNext DEF MovesTo, SubmitPcs
    <3>10. CASE VkQueueSubmit(c, b)
      BY <1>1, <1>3, <2>1, <3>4, <3>8, <3>9, <3>10, TurnAppended DEF TurnInv
    <3>11. CASE UNCHANGED vk_queue
      BY <1>1, <1>3, <2>1, <3>9, <3>11, TurnSame DEF TurnInv
    <3> QED BY <3>6, <3>10, <3>11
  <2> QED BY <1>7, <2>2, <2>3, <2>4 DEF MidStep, SubmitPcs
<1> QED BY <1>6, <1>7 DEF MidStep

\* The GPU takes batches away; a worker and a stutter do not touch them.
LEMMA TurnOfOthers ==
    ASSUME QueueInv, TurnInv, UNCHANGED <<stack, aux_op_queue, requested>>,
           UNCHANGED vk_queue \/ \E vq \in VkQueues : vk_queue[vq] # <<>> /\ PopBatch(vq)
    PROVE  TurnInv'
<1>1. VulkanTypeOK /\ CallsAhead /\ WaitsAhead /\ InTurn
  BY DEF QueueInv, DataTypeOK, TurnInv
<1>2. CallsAhead'
  BY <1>1 DEF CallsAhead, InFlush, Idle, Top, CurrentOp, CurrentQueue
<1>3. \A f : SubmitsSignal(f)' <=> SubmitsSignal(f)
  BY DEF SubmitsSignal, InFlush, Idle, Top, CurrentOp, CurrentQueue
<1>4. CASE UNCHANGED vk_queue
  BY <1>1, <1>2, <1>3, <1>4, TurnSame DEF TurnInv
<1>5. ASSUME NEW vq \in VkQueues, vk_queue[vq] # <<>>, PopBatch(vq) PROVE TurnInv'
  <2>1. PICK place : place = [c \in VkQueues |-> [j \in Nat |-> Place(vq, c, j)]]
    OBVIOUS
  <2>2. \A c \in VkQueues : \A j \in 1 .. Len(vk_queue'[c]) :
            /\ Place(vq, c, j) \in 1 .. Len(vk_queue[c])
            /\ vk_queue'[c][j] = vk_queue[c][Place(vq, c, j)]
    BY <1>1, <1>5, PoppedSignals
  <2>3. \A c \in VkQueues : \A j \in 1 .. Len(vk_queue'[c]) : j \in Nat
    OBVIOUS
  <2>4. \A c \in VkQueues : \A j \in Nat : place[c][j] = Place(vq, c, j)
    BY <2>1
  <2>5. \A c \in VkQueues : \A j \in 1 .. Len(vk_queue'[c]) :
            /\ place[c][j] \in 1 .. Len(vk_queue[c])
            /\ vk_queue'[c][j] = vk_queue[c][place[c][j]]
    BY <2>2, <2>3, <2>4
  <2>6. \A c \in VkQueues : \A i, j \in 1 .. Len(vk_queue'[c]) :
            i < j => place[c][i] < place[c][j]
    BY <2>3, <2>4 DEF Place
  <2>7. WaitsAhead' /\ InTurn'
    BY <1>1, <1>3, <2>5, <2>6, TurnPopped
  <2> QED BY <1>2, <2>7 DEF TurnInv
<1> QED BY <1>4, <1>5

LEMMA TurnInit == Init => TurnInv
<1> SUFFICES ASSUME Init PROVE TurnInv
  OBVIOUS
<1>1. \A t \in Threads : Idle(t)
  BY DEF Init, Idle
<1>2. \A vq \in VkQueues : Len(vk_queue[vq]) = 0
  BY EmptySeq DEF Init, VulkanInit
<1> QED BY <1>1, <1>2 DEF TurnInv, CallsAhead, WaitsAhead, InTurn, InFlush

LEMMA TurnStep ==
    ASSUME OneThread, QueueInv, Inv, TurnInv, [Next]_vars
    PROVE  TurnInv'
<1>1. FlushInv
  BY DEF QueueInv
<1>2. ASSUME NEW t \in Threads, AppCall(t) \/ ThreadStep(t) PROVE TurnInv'
  BY <1>2, StepCases, TurnOfPlain, TurnOfList, TurnOfMid
<1>3. ASSUME NEW q \in Queues, WorkerSignal(q) PROVE TurnInv'
  <2>1. UNCHANGED <<stack, aux_op_queue, requested, vk_queue>>
    BY <1>3 DEF WorkerSignal, SignalTimelineSemaphore, vulkanVars
  <2> QED BY <2>1, TurnOfOthers
<1>4. ASSUME NEW vq \in VkQueues, Gpu(vq) PROVE TurnInv'
  <2>1. UNCHANGED <<stack, aux_op_queue, requested>>
    BY <1>4 DEF Gpu, GpuNext, fenceVars, queueVars
  <2>2. vk_queue[vq] # <<>> /\ PopBatch(vq)
    BY <1>4 DEF Gpu, GpuNext, GpuExecute, GpuWait, GpuSignal
  <2> QED BY <2>1, <2>2, TurnOfOthers
<1>5. CASE UNCHANGED vars
  BY <1>5, TurnOfOthers DEF vars, fenceVars, vulkanVars, queueVars
<1> QED BY <1>2, <1>3, <1>4, <1>5 DEF Next

LEMMA TurnAlways == OneThread => (Spec => [](QueueInv /\ TurnInv))
<1> SUFFICES ASSUME OneThread PROVE Spec => [](QueueInv /\ TurnInv)
  OBVIOUS
<1>1. QueueInv /\ Inv /\ TurnInv /\ [Next]_vars => TurnInv'
  BY TurnStep
<1> QED BY <1>1, TurnInit, QueueInvAlways, FencesAlways, PTL DEF Spec

\* Command queues that share a VkQueue do not stop it for good: when the
\* application has one thread, no VkQueue ever stands at a wait whose signal
\* was submitted behind it, even when submissions fail.
THEOREM WaitsComeAfterSignals == OneThread => (Spec => []NoWaitBeforeItsSignal)
<1> SUFFICES ASSUME OneThread PROVE Spec => []NoWaitBeforeItsSignal
  OBVIOUS
<1>1. QueueInv /\ TurnInv => NoWaitBeforeItsSignal
  <2> SUFFICES ASSUME QueueInv, TurnInv, NEW vq \in VkQueues, WaitsForSuccessor(vq)
               PROVE  FALSE
    BY DEF NoWaitBeforeItsSignal
  <2>1. vk_queue[vq] \in Seq(Batch) /\ vk_queue[vq] # <<>>
    BY DEF QueueInv, DataTypeOK, VulkanTypeOK, WaitsForSuccessor
  <2>2. PICK l \in Nat \ {0} : l = Len(vk_queue[vq])
    BY <2>1, EmptySeq
  <2>3. PICK b : b = Head(vk_queue[vq])
    OBVIOUS
  <2>4. b = vk_queue[vq][1] /\ b \in Batch
    BY <2>1, <2>2, <2>3
  <2>5. b.type = "wait"
    BY <2>3 DEF WaitsForSuccessor
  <2>6. PICK n \in DOMAIN vk_queue[vq] :
            /\ vk_queue[vq][n].type = "signal" /\ vk_queue[vq][n].fence = b.fence
            /\ vk_queue[vq][n].timeline_value = b.timeline_value
    BY <2>3 DEF WaitsForSuccessor
  <2>7. n \in 1 .. l /\ n # 1
    BY <2>1, <2>2, <2>4, <2>5, <2>6
  <2>8. Turn(vk_queue[vq][1], vk_queue[vq][n])
    BY <2>2, <2>7 DEF TurnInv, InTurn
  <2>9. b.timeline_value < b.timeline_value
    BY <2>4, <2>5, <2>6, <2>8 DEF Turn
  <2> QED BY <2>4, <2>5, <2>9, WaitBatch
<1> QED BY <1>1, TurnAlways, PTL
=============================================================================
