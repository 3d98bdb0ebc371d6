--------------------------- MODULE MCCommandQueue ---------------------------
(* Instances of CommandQueue: which operations the application puts on     *)
(* each queue.  The order and the threads are left open.                   *)
EXTENDS CommandQueue

CONSTANTS q1, q2, q3, f1, f2, vq1, vq2

OneValue == 0 .. 1
TwoValues == 0 .. 2

WaitFor(f, v) == [type |-> "wait", fence |-> f, value |-> v]
Sig(f, v) == [type |-> "signal", fence |-> f, value |-> v]
CpuSig(f, v) == [type |-> "signal_on_cpu", fence |-> f, value |-> v]
Exec == [type |-> "execute"]
Tiles == [type |-> "mappings"]

Shared == [q \in Queues |-> vq1]
Separate == [q \in Queues |-> IF q = q1 THEN vq1 ELSE vq2]

\* One queue signals from the GPU, the other one waits and signals in turn.
ThreadsOps == (q1 :> {Sig(f1, 1), Exec})
           @@ (q2 :> {WaitFor(f1, 1), CpuSig(f1, 2), Exec})
ThreadsSignals == {<<f1, 2>>}

\* Two fences back and forth between two queues of one VkQueue.
TurnsOps == (q1 :> {Sig(f1, 1), WaitFor(f2, 1)})
         @@ (q2 :> {WaitFor(f1, 1), Sig(f2, 1), Tiles})
TurnsSignals == {<<f1, 0>>}

\* Two queues that both may block, and a list for one.
OverflowOps == (q1 :> {WaitFor(f1, 1), Exec}) @@ (q2 :> {WaitFor(f1, 1), Sig(f1, 1)})
OverflowSignals == {<<f1, 1>>}

\* A wait before a CPU signal.
LostOps == (q1 :> {WaitFor(f1, 1)})
LostSignals == {<<f1, 1>>}

\* Two queues signal one fence.
OrderOps == (q1 :> {Sig(f1, 1)}) @@ (q2 :> {Sig(f1, 2)})

\* A wait for a signaled fence, while another queue signals it higher.
SignaledOps == (q1 :> {Sig(f1, 2)}) @@ (q2 :> {WaitFor(f1, 1)})
=============================================================================
