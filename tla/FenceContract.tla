---------------------------- MODULE FenceContract ----------------------------
(***************************************************************************)
(* What an ID3D12Fence promises: it has a value; the CPU sets it at once,  *)
(* signals queued on the GPU set it later in the order they were queued;   *)
(* an event waits until the fence has a value that reaches the event's.    *)
(***************************************************************************)
EXTENDS Integers, Sequences

CONSTANTS Fences, Values, Events

VARIABLES
    value,      \* GetCompletedValue()
    queued,     \* the values of the GPU signals that have not completed
    waiting     \* the registered events that have not been signalled

Init == /\ value \in [Fences -> Values]
        /\ queued = [f \in Fences |-> <<>>]
        /\ waiting = [f \in Fences |-> {}]

\* The events that one of the values does not reach stay.
Remaining(f, vals) == {w \in waiting[f] : \A v \in vals : v < w.value}

Set(f, v) ==
    /\ value' = [value EXCEPT ![f] = v]
    /\ waiting' = [waiting EXCEPT ![f] = Remaining(f, {v})]
    /\ UNCHANGED queued

QueueSignal(f, v) ==
    /\ queued' = [queued EXCEPT ![f] = Append(@, v)]
    /\ UNCHANGED <<value, waiting>>

\* The first n of the queued signals complete, one after the other.
Complete(f, n) ==
    /\ value' = [value EXCEPT ![f] = queued[f][n]]
    /\ waiting' = [waiting EXCEPT ![f] =
                      Remaining(f, {queued[f][k] : k \in 1 .. n})]
    /\ queued' = [queued EXCEPT ![f] = SubSeq(@, n + 1, Len(@))]

Register(f, e, v) ==
    /\ value[f] < v
    /\ waiting' = [waiting EXCEPT ![f] = @ \cup {[event |-> e, value |-> v]}]
    /\ UNCHANGED <<value, queued>>

Next ==
    \E f \in Fences :
        \/ \E v \in Values : \/ Set(f, v) \/ QueueSignal(f, v)
                             \/ \E e \in Events : Register(f, e, v)
        \/ \E n \in 1 .. Len(queued[f]) : Complete(f, n)

Spec == Init /\ [][Next]_<<value, queued, waiting>>
=============================================================================
