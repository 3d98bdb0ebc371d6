-------------------------- MODULE MultiFenceEvent --------------------------
(***************************************************************************)
(* ID3D12Device1::SetEventOnMultipleFenceCompletion() for several fences   *)
(* (libs/vkd3d/device.c).  The call gives each fence a share of a counter  *)
(* that owns itself: the share that brings it to zero frees it.  A share   *)
(* is spent by the thread that signals the fence, from inside the fence's  *)
(* lock, or by the caller itself when the fence has passed its value or    *)
(* the registration fails.  The shares are spent concurrently; an action   *)
(* is one atomic access to the counter or to the event pointer.            *)
(***************************************************************************)
EXTENDS Naturals, FiniteSets

CONSTANT FenceCount     \* fence_count

ASSUME FenceCountAssumption == FenceCount \in Nat \ {0, 1}

Shares == 0 .. FenceCount - 1

VARIABLES
    any,            \* D3D12_MULTIPLE_FENCE_WAIT_FLAG_ANY was given
    blocking,       \* the caller gave no event: it waits for one of its own
    fence_index,    \* the fence that the caller is at
    busy,           \* the caller is spending the share of that fence
    share,          \* what happens to each share
    reached,        \* the fences that were found to have passed their value
    event,          \* s->event is not NULL
    value,          \* s->value
    event_signals,  \* how often the event was signalled
    semaphore_frees,\* how often s was freed
    hr              \* what the call will return

multiFenceVars == <<any, blocking, fence_index, busy, share, reached, event,
                    value, event_signals, semaphore_frees, hr>>

MultiFenceInit ==
    /\ any \in BOOLEAN /\ blocking \in BOOLEAN
    /\ fence_index = 0 /\ busy = FALSE
    /\ share = [i \in Shares |-> "none"] /\ reached = {}
    /\ event = TRUE /\ value = FenceCount
    /\ event_signals = 0 /\ semaphore_frees = 0
    /\ hr = "S_OK"

Becomes(i, step) == share' = [share EXCEPT ![i] = step]

\* The callback: waiting_event_semaphore_signal_first() or ..._signal().
Signal(i) == /\ Becomes(i, IF any THEN "exchange" ELSE "drop")
             /\ reached' = reached \cup {i}

AtFence(i) == fence_index = i /\ share[i] = "none"

\* The fence has passed the value: the caller runs the callback itself.
AlreadyReached(i) ==
    /\ AtFence(i) /\ Signal(i) /\ busy' = TRUE
    /\ UNCHANGED <<any, blocking, fence_index, event, value, event_signals, semaphore_frees, hr>>

Register(i) ==
    /\ AtFence(i) /\ Becomes(i, "registered") /\ fence_index' = i + 1
    /\ UNCHANGED <<any, blocking, busy, reached, event, value, event_signals, semaphore_frees, hr>>

\* The fence's array of events cannot grow.
RegistrationFails(i) ==
    /\ AtFence(i) /\ Becomes(i, "cancel") /\ busy' = TRUE
    /\ UNCHANGED <<any, blocking, fence_index, reached, event, value, event_signals,
                   semaphore_frees, hr>>

Cancel(i) ==
    /\ share[i] = "cancel" /\ Becomes(i, "drop")
    /\ event' = FALSE
    /\ hr' = IF event THEN "E_OUTOFMEMORY" ELSE hr
    /\ UNCHANGED <<any, blocking, fence_index, busy, reached, value, event_signals, semaphore_frees>>

NextFence(i) ==
    /\ busy /\ fence_index = i /\ share[i] = "done"
    /\ busy' = FALSE /\ fence_index' = i + 1
    /\ UNCHANGED <<any, blocking, share, reached, event, value, event_signals, semaphore_frees, hr>>

\* Another thread signals the fence.
FenceReaches(i) ==
    /\ share[i] = "registered" /\ Signal(i)
    /\ UNCHANGED <<any, blocking, fence_index, busy, event, value, event_signals, semaphore_frees, hr>>

\* Mutant: the event is read and not taken.
ExchangeReads(i) ==
    /\ share[i] = "exchange" /\ Becomes(i, IF event THEN "deliver" ELSE "drop")
    /\ UNCHANGED <<any, blocking, fence_index, busy, reached, event, value, event_signals,
                   semaphore_frees, hr>>

Exchange(i) ==
    /\ share[i] = "exchange" /\ Becomes(i, IF event THEN "deliver" ELSE "drop")
    /\ event' = FALSE
    /\ UNCHANGED <<any, blocking, fence_index, busy, reached, value, event_signals, semaphore_frees, hr>>

Deliver(i) ==
    /\ share[i] = "deliver" /\ Becomes(i, "drop")
    /\ event_signals' = event_signals + 1
    /\ UNCHANGED <<any, blocking, fence_index, busy, reached, event, value, semaphore_frees, hr>>

Drop(i) ==
    /\ share[i] = "drop" /\ Becomes(i, IF value = 1 THEN "last" ELSE "done")
    /\ value' = value - 1
    /\ UNCHANGED <<any, blocking, fence_index, busy, reached, event, event_signals, semaphore_frees, hr>>

LastShare(i) ==
    /\ share[i] = "last" /\ Becomes(i, "free")
    /\ event_signals' = IF event THEN event_signals + 1 ELSE event_signals
    /\ UNCHANGED <<any, blocking, fence_index, busy, reached, event, value, semaphore_frees, hr>>

Free(i) ==
    /\ share[i] = "free" /\ Becomes(i, "done")
    /\ semaphore_frees' = semaphore_frees + 1
    /\ UNCHANGED <<any, blocking, fence_index, busy, reached, event, value, event_signals, hr>>

\* A caller without an event waits for vkd3d_signal_null_event().
ReturnToCaller ==
    /\ fence_index = FenceCount /\ (blocking => event_signals > 0)
    /\ fence_index' = FenceCount + 1
    /\ UNCHANGED <<any, blocking, busy, share, reached, event, value, event_signals,
                   semaphore_frees, hr>>

MultiFenceNext ==
    \/ \E i \in Shares : \/ AlreadyReached(i) \/ Register(i) \/ RegistrationFails(i)
                         \/ Cancel(i) \/ NextFence(i) \/ FenceReaches(i) \/ Exchange(i)
                         \/ Deliver(i) \/ Drop(i) \/ LastShare(i) \/ Free(i)
    \/ ReturnToCaller

MultiFenceSpec == MultiFenceInit /\ [][MultiFenceNext]_multiFenceVars

----------------------------------------------------------------------------
In(steps) == {i \in Shares : share[i] \in steps}
Spent == In({"last", "free", "done"})

\* One thread frees the counter, and only when no other can touch it again.
FreedOnceByTheLast ==
    /\ value = FenceCount - Cardinality(Spent)
    /\ Cardinality(In({"last", "free"})) + semaphore_frees = (IF value = 0 THEN 1 ELSE 0)

\* At most one thread signals the event, and not before a fence has reached
\* its value: any of them, or each of them.
SignalledOnceWhenDue ==
    /\ event_signals + Cardinality(In({"deliver"})) <= 1
    /\ event_signals + Cardinality(In({"deliver"})) > 0 =>
           IF any THEN reached # {} ELSE reached = Shares

\* The caller is told of a failure exactly when the event will never come.
ToldOfFailure ==
    /\ hr # "S_OK" => event_signals + Cardinality(In({"deliver"})) = 0 /\ ~event
    /\ semaphore_frees = 1 => (hr = "S_OK") = (event_signals = 1)

(***************************************************************************)
(* However the threads that signal the fences, the caller and failing      *)
(* registrations interleave (waiting_event_semaphore_signal, _first and    *)
(* _cancel): the counter is freed once and by its last user, the event is  *)
(* signalled at most once and only when due, and the call fails exactly    *)
(* when the event is never signalled.                                      *)
(***************************************************************************)
MultiFenceEventSound == FreedOnceByTheLast /\ SignalledOnceWhenDue /\ ToldOfFailure
=============================================================================
