-------------------------------- MODULE Fence --------------------------------
(***************************************************************************)
(* struct d3d12_fence (libs/vkd3d/command.c) with a Vulkan timeline        *)
(* semaphore behind it.  A Direct3D 12 fence may be rewound: its virtual   *)
(* value can be set to any number at any time.  A timeline semaphore only  *)
(* grows, so each queued GPU signal of a virtual value is given the next   *)
(* timeline value, and the fence worker threads translate a timeline value *)
(* that was reached back into the virtual value.                           *)
(*                                                                         *)
(* Every action is one critical section of fence->mutex.  The array        *)
(* fence->semaphores is a set: its elements have distinct timeline values  *)
(* and the code never depends on their order.                              *)
(***************************************************************************)
EXTENDS Integers, Sequences, FiniteSets

CONSTANTS
    Fences,             \* the ID3D12Fence objects
    Values,             \* the virtual values the application uses
    Events,             \* the event handles given to SetEventOnCompletion
    MaxTimelineValue,   \* bound: GPU signals queued on one fence
    MaxRegistrations    \* bound: times one event is registered

ASSUME FenceAssumption ==
    /\ Values \subseteq Nat
    /\ MaxTimelineValue \in Nat
    /\ MaxRegistrations \in Nat

VARIABLES
    fence,      \* the fields of each fence
    requested,  \* history: the virtual values of the queued signals, in order
    registered, \* history: how often an event was put on a waiting list
    signalled   \* history: how often a waiting event was signalled

fenceVars == <<fence, requested, registered, signalled>>

Signal == [value : Values, timeline_value : Nat]
WaitingEvent == [event : Events, value : Values]

FenceRecord == [value : Values,
                max_pending_value : Values,
                timeline_value : Nat,
                pending_timeline_value : Nat,
                semaphores : SUBSET Signal,
                events : SUBSET WaitingEvent]

InitialFence(v) == [value |-> v, max_pending_value |-> v,
                    timeline_value |-> 0, pending_timeline_value |-> 0,
                    semaphores |-> {}, events |-> {}]

FenceInit ==
    \E initial_value \in [Fences -> Values] :
        /\ fence = [f \in Fences |-> InitialFence(initial_value[f])]
        /\ requested = [f \in Fences |-> <<>>]
        /\ registered = [f \in Fences |-> [e \in Events |-> 0]]
        /\ signalled = [f \in Fences |-> [e \in Events |-> 0]]

-----------------------------------------------------------------------------
(***************************************************************************)
(* Operators on a fence record.  MaxPendingValues and WaitValues are       *)
(* singletons: the result of a loop that looks for a maximum or a minimum. *)
(***************************************************************************)
PendingValues(g) == {g.value} \cup {s.value : s \in g.semaphores}

\* Mutant: one past the maximum.
MaxPendingValuesPastEnd(g) ==
    {m + 1 : m \in {p \in PendingValues(g) : \A v \in PendingValues(g) : v <= p}}

MaxPendingValues(g) ==
    {m \in PendingValues(g) : \A v \in PendingValues(g) : v <= m}

\* Mutant: "virtual_value > value" in the search for a signal to wait for.
ReachingStrictly(g, v) == {s \in g.semaphores : v < s.value}

\* The queued signals that reach virtual value v.
Reaching(g, v) == {s \in g.semaphores : v <= s.value}

\* Mutant: the timeline value the next signal will have.
NextWaitValue(g, v) == {g.pending_timeline_value + 1}

WaitValues(g, v) ==
    IF Reaching(g, v) = {}
    THEN {0}
    ELSE {s.timeline_value : s \in {r \in Reaching(g, v) :
             \A q \in Reaching(g, v) : r.timeline_value <= q.timeline_value}}

\* Mutant: an event is kept when the fence exactly reaches its value.
ReadyStrictly(g, vals) == {w \in g.events : \E v \in vals : w.value < v}

Ready(g, vals) == {w \in g.events : \E v \in vals : w.value <= v}

\* Mutant: no catch-up loop, only the entry of t itself.
DueExactly(g, t) == {s \in g.semaphores : s.timeline_value = t}

\* The entries the catch-up loop visits on its way to timeline value t.
Due(g, t) == {s \in g.semaphores : /\ g.timeline_value < s.timeline_value
                                   /\ s.timeline_value <= t}

LastDue(g, t) == {s \in Due(g, t) :
                     \A r \in Due(g, t) : r.timeline_value <= s.timeline_value}

\* Mutant: the largest of the values passed, as for a fence that only grows.
LargestDueValue(g, t) ==
    IF Due(g, t) = {} THEN {g.value}
    ELSE {s.value : s \in {r \in Due(g, t) : \A q \in Due(g, t) : q.value <= r.value}}

\* The virtual value the fence is left with.
FinalValues(g, t) == IF Due(g, t) = {} THEN {g.value}
                     ELSE {s.value : s \in LastDue(g, t)}

\* Mutant: every waiting event is signalled, but only the ready ones removed.
SignalAllEvents(f, vals) ==
    signalled' = [signalled EXCEPT ![f] = [e \in Events |->
        @[e] + Cardinality({w \in fence[f].events : w.event = e})]]

\* signal_external_events_locked() of fence f, run for each value of vals.
SignalExternalEvents(f, vals) ==
    signalled' = [signalled EXCEPT ![f] = [e \in Events |->
        @[e] + Cardinality({w \in Ready(fence[f], vals) : w.event = e})]]

-----------------------------------------------------------------------------
(***************************************************************************)
(* The critical sections.                                                  *)
(***************************************************************************)

\* A queue is about to submit a signal.  max_pending_value stays as it was.
AddPendingTimelineSignal(f, v) ==
    LET t == fence[f].pending_timeline_value + 1
    IN  /\ fence[f].pending_timeline_value < MaxTimelineValue
        /\ fence' = [fence EXCEPT
               ![f].pending_timeline_value = t,
               ![f].semaphores = @ \cup {[value |-> v, timeline_value |-> t]}]
        /\ requested' = [requested EXCEPT ![f] = Append(@, v)]
        /\ UNCHANGED <<registered, signalled>>

\* After the submission.
UpdatePendingValue(f) ==
    \E m \in MaxPendingValues(fence[f]) :
        /\ fence' = [fence EXCEPT ![f].max_pending_value = m]
        /\ UNCHANGED <<requested, registered, signalled>>

\* Mutant: max_pending_value is not recomputed.
SignalTimelineKeepsMax(f, t) ==
    LET g == fence[f]
        vals == {s.value : s \in Due(g, t)}
    IN  \E v \in FinalValues(g, t) :
            /\ fence' = [fence EXCEPT ![f] =
                   [g EXCEPT !.value = v,
                             !.timeline_value = IF @ < t THEN t ELSE @,
                             !.semaphores = @ \ Due(g, t),
                             !.events = @ \ Ready(g, vals)]]
            /\ SignalExternalEvents(f, vals)
            /\ UNCHANGED <<requested, registered>>

\* A worker saw the timeline semaphore at t.  Another worker may have been
\* first, or may be late: the loop takes the values in between as well.
SignalTimelineSemaphore(f, t) ==
    LET g == fence[f]
        due == Due(g, t)
        vals == {s.value : s \in due}
    IN  \E v \in FinalValues(g, t) :
            LET h == [g EXCEPT !.value = v,
                               !.timeline_value = IF @ < t THEN t ELSE @,
                               !.semaphores = @ \ due,
                               !.events = @ \ Ready(g, vals)]
            IN  \E m \in MaxPendingValues(h) :
                    /\ fence' = [fence EXCEPT ![f] =
                                    [h EXCEPT !.max_pending_value = m]]
                    /\ SignalExternalEvents(f, vals)
                    /\ UNCHANGED <<requested, registered>>

\* Mutant: the same for a signal from the CPU.
SignalCpuKeepsMax(f, v) ==
    /\ fence' = [fence EXCEPT ![f].value = v, ![f].events = @ \ Ready(fence[f], {v})]
    /\ SignalExternalEvents(f, {v})
    /\ UNCHANGED <<requested, registered>>

\* ID3D12Fence::Signal(), up to the unlock.
SignalCpuTimelineSemaphore(f, v) ==
    LET h == [fence[f] EXCEPT !.value = v, !.events = @ \ Ready(fence[f], {v})]
    IN  \E m \in MaxPendingValues(h) :
            /\ fence' = [fence EXCEPT ![f] = [h EXCEPT !.max_pending_value = m]]
            /\ SignalExternalEvents(f, {v})
            /\ UNCHANGED <<requested, registered>>

\* A value that was reached already signals the event at once; it is never
\* on the list.  A registration that is on the list already is dropped.
SetEventOnCompletion(f, e, v) ==
    /\ fence[f].value < v
    /\ [event |-> e, value |-> v] \notin fence[f].events
    /\ registered[f][e] < MaxRegistrations
    /\ fence' = [fence EXCEPT ![f].events = @ \cup {[event |-> e, value |-> v]}]
    /\ registered' = [registered EXCEPT ![f][e] = @ + 1]
    /\ UNCHANGED <<requested, signalled>>

(***************************************************************************)
(* One fence in an environment that may do anything the mutex allows: any  *)
(* number of queues and workers, the workers in any order and repeatedly.  *)
(***************************************************************************)
FenceNext ==
    \E f \in Fences :
        \/ \E v \in Values : \/ AddPendingTimelineSignal(f, v)
                             \/ SignalCpuTimelineSemaphore(f, v)
                             \/ \E e \in Events : SetEventOnCompletion(f, e, v)
        \/ UpdatePendingValue(f)
        \/ \E t \in 1 .. fence[f].pending_timeline_value :
               SignalTimelineSemaphore(f, t)

FenceSpec == FenceInit /\ [][FenceNext]_fenceVars

-----------------------------------------------------------------------------
(***************************************************************************)
(* Properties.                                                             *)
(***************************************************************************)

\* The fields of a fence and the histories have their types.
FenceTypeOK ==
    /\ fence \in [Fences -> FenceRecord]
    /\ requested \in [Fences -> Seq(Values)]
    /\ registered \in [Fences -> [Events -> Nat]]
    /\ signalled \in [Fences -> [Events -> Nat]]

\* fence->semaphores holds exactly the queued signals whose timeline values
\* have not been handled, each with the virtual value it was queued with: the
\* catch-up loop of d3d12_fence_signal_timeline_semaphore() never meets a
\* timeline value without an entry ("Did not signal a virtual value").
QueuedSignalsKept ==
    \A f \in Fences :
        /\ fence[f].pending_timeline_value = Len(requested[f])
        /\ fence[f].timeline_value <= Len(requested[f])
        /\ fence[f].semaphores =
             {[value |-> requested[f][n], timeline_value |-> n] :
                  n \in fence[f].timeline_value + 1 .. Len(requested[f])}

\* max_pending_value, which lets a queue's wait through, is a value the fence
\* has or a queued signal will give it, and is never below the fence's value.
MaxPendingBacked ==
    \A f \in Fences : /\ fence[f].value <= fence[f].max_pending_value
                      /\ \E p \in PendingValues(fence[f]) :
                             fence[f].max_pending_value <= p

\* A wait let through without a timeline value to wait for (0, the "barrier"
\* of get_timeline_wait_value_locked()) is for a value the fence has reached.
ZeroWaitIsReached ==
    \A f \in Fences, v \in Values :
        (v <= fence[f].max_pending_value /\ 0 \in WaitValues(fence[f], v))
            => v <= fence[f].value

\* No event is left on the list of a fence that has reached its value: no
\* signal is lost between the check in SetEventOnCompletion() and the list.
NoReadyEventWaits ==
    \A f \in Fences : \A w \in fence[f].events : fence[f].value < w.value

\* Each registration signals its event exactly once: none is dropped by the
\* compaction of the list and none fires twice after a rewind.
EventsConserved ==
    \A f \in Fences, e \in Events :
        registered[f][e] = signalled[f][e]
            + Cardinality({w \in fence[f].events : w.event = e})

\* The translation to timeline values is invisible: whichever worker reports
\* first and however late the others are, the virtual value and the events
\* follow the order in which the signals were queued, rewinds included.
Contract == INSTANCE FenceContract WITH
    value <- [f \in Fences |-> fence[f].value],
    queued <- [f \in Fences |->
        SubSeq(requested[f], fence[f].timeline_value + 1, Len(requested[f]))],
    waiting <- [f \in Fences |-> fence[f].events]

ImplementsContract == Contract!Spec
=============================================================================
