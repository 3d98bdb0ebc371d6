----------------------------- MODULE Fence_proofs -----------------------------
(***************************************************************************)
(* Proofs about Fence, for any set of fences, values and events.           *)
(***************************************************************************)
EXTENDS Fence, FiniteSetTheorems, SequenceTheorems, TLAPS

\* The waiting lists are finite: each starts empty and grows one at a time.
EventsFinite == \A f \in Fences : IsFiniteSet(fence[f].events)

TypeInv == FenceTypeOK /\ EventsFinite

-----------------------------------------------------------------------------
(***************************************************************************)
(* The operators on a fence record.                                        *)
(***************************************************************************)

\* The pending values of a fence are virtual values, and so is their maximum.
LEMMA MaxPendingType ==
    ASSUME NEW g \in FenceRecord, NEW m \in MaxPendingValues(g)
    PROVE  m \in Values /\ g.value <= m /\ m \in PendingValues(g)
BY DEF MaxPendingValues, PendingValues, FenceRecord, Signal

\* The catch-up loop leaves the fence with a virtual value.
LEMMA FinalValueType ==
    ASSUME NEW g \in FenceRecord, NEW t \in Nat, NEW v \in FinalValues(g, t)
    PROVE  v \in Values
BY DEF FinalValues, LastDue, Due, FenceRecord, Signal

\* Signalling a number of waiting events counts each of them.
LEMMA ExternalEventsType ==
    ASSUME TypeInv, NEW f \in Fences, NEW vals, SignalExternalEvents(f, vals)
    PROVE  signalled' \in [Fences -> [Events -> Nat]]
<1> DEFINE R(e) == {w \in Ready(fence[f], vals) : w.event = e}
<1>1. ASSUME NEW e \in Events PROVE Cardinality(R(e)) \in Nat
  <2>1. R(e) \in SUBSET fence[f].events
    BY DEF Ready
  <2>2. IsFiniteSet(fence[f].events)
    BY DEF TypeInv, EventsFinite
  <2>3. IsFiniteSet(R(e))
    BY <2>1, <2>2, FS_Subset
  <2> QED BY <2>3, FS_CardinalityType
<1>2. signalled \in [Fences -> [Events -> Nat]]
  BY DEF TypeInv, FenceTypeOK
<1>3. [e \in Events |-> signalled[f][e] + Cardinality(R(e))] \in [Events -> Nat]
  BY <1>1, <1>2
<1>4. signalled' = [signalled EXCEPT ![f] =
                       [e \in Events |-> signalled[f][e] + Cardinality(R(e))]]
  BY <1>2 DEF SignalExternalEvents
<1> QED BY <1>2, <1>3, <1>4

-----------------------------------------------------------------------------
(***************************************************************************)
(* Types.                                                                  *)
(***************************************************************************)
LEMMA TypeInit == FenceInit => TypeInv
<1> SUFFICES ASSUME FenceInit PROVE TypeInv
  OBVIOUS
<1>1. PICK iv \in [Fences -> Values] :
           fence = [f \in Fences |-> InitialFence(iv[f])]
  BY DEF FenceInit
<1>2. \A f \in Fences : InitialFence(iv[f]) \in FenceRecord
  BY DEF InitialFence, FenceRecord
<1>3. FenceTypeOK
  BY <1>1, <1>2, EmptySeq DEF FenceInit, FenceTypeOK
<1>4. EventsFinite
  BY <1>1, FS_EmptySet DEF EventsFinite, InitialFence
<1> QED BY <1>3, <1>4 DEF TypeInv

LEMMA TypeAdd ==
    ASSUME TypeInv, NEW f \in Fences, NEW v \in Values,
           AddPendingTimelineSignal(f, v)
    PROVE  TypeInv'
<1> DEFINE t == fence[f].pending_timeline_value + 1
           h == [fence[f] EXCEPT !.pending_timeline_value = t,
                    !.semaphores = @ \cup {[value |-> v, timeline_value |-> t]}]
<1> USE DEF TypeInv, FenceTypeOK
<1>1. fence[f] \in FenceRecord
  OBVIOUS
<1>2. h \in FenceRecord
  <2>1. [value |-> v, timeline_value |-> t] \in Signal
    BY <1>1 DEF FenceRecord, Signal
  <2>2. fence[f].semaphores \cup {[value |-> v, timeline_value |-> t]}
            \in SUBSET Signal
    BY <1>1, <2>1 DEF FenceRecord
  <2>3. t \in Nat
    BY <1>1 DEF FenceRecord
  <2> HIDE DEF t
  <2> QED BY <1>1, <2>2, <2>3 DEF FenceRecord
<1>3. fence' = [fence EXCEPT ![f] = h]
  BY DEF AddPendingTimelineSignal
<1>4. requested' \in [Fences -> Seq(Values)]
  BY AppendProperties DEF AddPendingTimelineSignal
<1>5. FenceTypeOK'
  BY <1>2, <1>3, <1>4 DEF AddPendingTimelineSignal
<1>6. EventsFinite'
  BY <1>3 DEF EventsFinite
<1> QED BY <1>5, <1>6

LEMMA TypeUpdate ==
    ASSUME TypeInv, NEW f \in Fences, UpdatePendingValue(f)
    PROVE  TypeInv'
<1> USE DEF TypeInv, FenceTypeOK
<1>1. PICK m \in MaxPendingValues(fence[f]) :
           fence' = [fence EXCEPT ![f].max_pending_value = m]
  BY DEF UpdatePendingValue
<1>2. m \in Values
  BY MaxPendingType
<1>3. [fence[f] EXCEPT !.max_pending_value = m] \in FenceRecord
  BY <1>2 DEF FenceRecord
<1>4. FenceTypeOK'
  BY <1>1, <1>3 DEF UpdatePendingValue
<1>5. EventsFinite'
  BY <1>1 DEF EventsFinite
<1> QED BY <1>4, <1>5

LEMMA TypeTimeline ==
    ASSUME TypeInv, NEW f \in Fences, NEW t \in Nat,
           SignalTimelineSemaphore(f, t)
    PROVE  TypeInv'
<1> USE DEF TypeInv, FenceTypeOK
<1> DEFINE g == fence[f]
           due == Due(g, t)
           vals == {s.value : s \in due}
           h(v) == [g EXCEPT !.value = v,
                             !.timeline_value = IF @ < t THEN t ELSE @,
                             !.semaphores = @ \ due,
                             !.events = @ \ Ready(g, vals)]
<1> PICK v \in FinalValues(g, t) :
          \E m \in MaxPendingValues(h(v)) :
              /\ fence' = [fence EXCEPT ![f] = [h(v) EXCEPT !.max_pending_value = m]]
              /\ SignalExternalEvents(f, vals)
              /\ UNCHANGED <<requested, registered>>
  BY DEF SignalTimelineSemaphore
<1>1. PICK m \in MaxPendingValues(h(v)) :
          /\ fence' = [fence EXCEPT ![f] = [h(v) EXCEPT !.max_pending_value = m]]
          /\ SignalExternalEvents(f, vals)
          /\ UNCHANGED <<requested, registered>>
  OBVIOUS
<1>2. g \in FenceRecord
  OBVIOUS
<1>3. v \in Values
  BY <1>2, FinalValueType
<1>4. h(v) \in FenceRecord
  BY <1>2, <1>3 DEF FenceRecord
<1>5. m \in Values
  BY <1>1, <1>4, MaxPendingType
<1>6. [h(v) EXCEPT !.max_pending_value = m] \in FenceRecord
  BY <1>4, <1>5 DEF FenceRecord
<1>7. signalled' \in [Fences -> [Events -> Nat]]
  BY <1>1, ExternalEventsType
<1>8. FenceTypeOK'
  BY <1>1, <1>6, <1>7
<1>9. EventsFinite'
  <2>1. IsFiniteSet(g.events \ Ready(g, vals))
    BY FS_Subset DEF EventsFinite
  <2> QED BY <1>1, <1>2, <2>1 DEF EventsFinite, FenceRecord
<1> QED BY <1>8, <1>9

LEMMA TypeCpu ==
    ASSUME TypeInv, NEW f \in Fences, NEW v \in Values,
           SignalCpuTimelineSemaphore(f, v)
    PROVE  TypeInv'
<1> USE DEF TypeInv, FenceTypeOK
<1> DEFINE g == fence[f]
           h == [g EXCEPT !.value = v, !.events = @ \ Ready(g, {v})]
<1>1. PICK m \in MaxPendingValues(h) :
          /\ fence' = [fence EXCEPT ![f] = [h EXCEPT !.max_pending_value = m]]
          /\ SignalExternalEvents(f, {v})
          /\ UNCHANGED <<requested, registered>>
  BY DEF SignalCpuTimelineSemaphore
<1>2. g \in FenceRecord
  OBVIOUS
<1>3. h \in FenceRecord
  BY <1>2 DEF FenceRecord
<1>4. m \in Values
  BY <1>1, <1>3, MaxPendingType
<1>5. [h EXCEPT !.max_pending_value = m] \in FenceRecord
  BY <1>3, <1>4 DEF FenceRecord
<1>6. signalled' \in [Fences -> [Events -> Nat]]
  BY <1>1, ExternalEventsType
<1>7. FenceTypeOK'
  BY <1>1, <1>5, <1>6
<1>8. EventsFinite'
  <2>1. IsFiniteSet(g.events \ Ready(g, {v}))
    BY FS_Subset DEF EventsFinite
  <2> QED BY <1>1, <1>2, <2>1 DEF EventsFinite, FenceRecord
<1> QED BY <1>7, <1>8

LEMMA TypeRegister ==
    ASSUME TypeInv, NEW f \in Fences, NEW v \in Values, NEW e \in Events,
           SetEventOnCompletion(f, e, v)
    PROVE  TypeInv'
<1> USE DEF TypeInv, FenceTypeOK
<1> DEFINE w == [event |-> e, value |-> v]
           h == [fence[f] EXCEPT !.events = @ \cup {w}]
<1>1. fence' = [fence EXCEPT ![f] = h]
  BY DEF SetEventOnCompletion
<1>2. fence[f] \in FenceRecord
  OBVIOUS
<1>3. h \in FenceRecord
  <2>1. fence[f].events \cup {w} \in SUBSET WaitingEvent
    BY <1>2 DEF FenceRecord, WaitingEvent
  <2> HIDE DEF w
  <2> QED BY <1>2, <2>1 DEF FenceRecord
<1>4. registered' \in [Fences -> [Events -> Nat]]
  BY DEF SetEventOnCompletion
<1>5. FenceTypeOK'
  BY <1>1, <1>3, <1>4 DEF SetEventOnCompletion
<1>6. IsFiniteSet(fence[f].events \cup {w})
  <2>1. IsFiniteSet(fence[f].events)
    BY DEF EventsFinite
  <2> QED BY <2>1, FS_AddElement
<1>7. EventsFinite'
  BY <1>1, <1>2, <1>6 DEF EventsFinite, FenceRecord
<1> QED BY <1>5, <1>7

LEMMA TypeStep == TypeInv /\ [FenceNext]_fenceVars => TypeInv'
<1> SUFFICES ASSUME TypeInv, [FenceNext]_fenceVars PROVE TypeInv'
  OBVIOUS
<1>1. CASE UNCHANGED fenceVars
  BY <1>1 DEF fenceVars, TypeInv, FenceTypeOK, EventsFinite
<1>2. ASSUME NEW f \in Fences, NEW v \in Values, AddPendingTimelineSignal(f, v)
      PROVE  TypeInv'
  BY <1>2, TypeAdd
<1>3. ASSUME NEW f \in Fences, NEW v \in Values, SignalCpuTimelineSemaphore(f, v)
      PROVE  TypeInv'
  BY <1>3, TypeCpu
<1>4. ASSUME NEW f \in Fences, NEW v \in Values, NEW e \in Events,
             SetEventOnCompletion(f, e, v)
      PROVE  TypeInv'
  BY <1>4, TypeRegister
<1>5. ASSUME NEW f \in Fences, UpdatePendingValue(f) PROVE TypeInv'
  BY <1>5, TypeUpdate
<1>6. ASSUME NEW f \in Fences, NEW t \in 1 .. fence[f].pending_timeline_value,
             SignalTimelineSemaphore(f, t)
      PROVE  TypeInv'
  <2>1. t \in Nat
    BY DEF TypeInv, FenceTypeOK, FenceRecord
  <2> QED BY <1>6, <2>1, TypeTimeline
<1>7. CASE FenceNext
  <2> PICK f \in Fences :
          \/ \E v \in Values : \/ AddPendingTimelineSignal(f, v)
                               \/ SignalCpuTimelineSemaphore(f, v)
                               \/ \E e \in Events : SetEventOnCompletion(f, e, v)
          \/ UpdatePendingValue(f)
          \/ \E t \in 1 .. fence[f].pending_timeline_value :
                 SignalTimelineSemaphore(f, t)
    BY <1>7 DEF FenceNext
  <2>1. CASE \E v \in Values : \/ AddPendingTimelineSignal(f, v)
                               \/ SignalCpuTimelineSemaphore(f, v)
                               \/ \E e \in Events : SetEventOnCompletion(f, e, v)
    BY <2>1, <1>2, <1>3, <1>4
  <2>2. CASE \E t \in 1 .. fence[f].pending_timeline_value :
                 SignalTimelineSemaphore(f, t)
    BY <2>2, <1>6
  <2> QED BY <2>1, <2>2, <1>5
<1> QED BY <1>1, <1>7

\* The fields of a fence always have their types.
THEOREM TypeCorrect == FenceSpec => []FenceTypeOK
<1>1. FenceInit => TypeInv
  BY TypeInit
<1>2. TypeInv /\ [FenceNext]_fenceVars => TypeInv'
  BY TypeStep
<1>3. TypeInv => FenceTypeOK
  BY DEF TypeInv
<1> QED BY <1>1, <1>2, <1>3, PTL DEF FenceSpec

-----------------------------------------------------------------------------
(***************************************************************************)
(* The inductive invariant, one fence at a time.  QueuedSignalsKept,       *)
(* MaxPendingBacked and NoReadyEventWaits are inductive together with the  *)
(* types; each is the conjunction over the fences of a predicate on the    *)
(* fence's record g and on the sequence r of the values requested of it.   *)
(***************************************************************************)
Kept(g, r) ==
    /\ g.pending_timeline_value = Len(r)
    /\ g.timeline_value <= Len(r)
    /\ g.semaphores = {[value |-> r[n], timeline_value |-> n] :
                           n \in g.timeline_value + 1 .. Len(r)}

Backed(g) == /\ g.value <= g.max_pending_value
             /\ \E p \in PendingValues(g) : g.max_pending_value <= p

NoneReady(g) == \A w \in g.events : g.value < w.value

GoodFence(g, r) == Kept(g, r) /\ Backed(g) /\ NoneReady(g)

Inv == TypeInv /\ \A f \in Fences : GoodFence(fence[f], requested[f])

\* A record whose max_pending_value was just recomputed is backed.
LEMMA RecomputedIsBacked ==
    ASSUME NEW g \in FenceRecord, NEW m \in MaxPendingValues(g),
           NEW h \in FenceRecord, h = [g EXCEPT !.max_pending_value = m]
    PROVE  Backed(h)
<1>1. m \in Values /\ g.value <= m /\ m \in PendingValues(g)
  BY MaxPendingType
<1>2. h.value = g.value /\ h.semaphores = g.semaphores /\ h.max_pending_value = m
  BY DEF FenceRecord
<1>3. PendingValues(h) = PendingValues(g)
  BY <1>2 DEF PendingValues
<1>4. m <= m
  BY <1>1, FenceAssumption
<1> QED BY <1>1, <1>2, <1>3, <1>4 DEF Backed

\* A step that changes one fence and leaves it good keeps all of them good.
LEMMA OneFenceStep ==
    ASSUME TypeInv, \A g \in Fences : GoodFence(fence[g], requested[g]),
           NEW f \in Fences, NEW h, NEW r,
           fence' = [fence EXCEPT ![f] = h],
           requested' = [requested EXCEPT ![f] = r],
           GoodFence(h, r)
    PROVE  \A g \in Fences : GoodFence(fence'[g], requested'[g])
BY DEF TypeInv, FenceTypeOK

LEMMA InvAdd ==
    ASSUME Inv, NEW f \in Fences, NEW v \in Values,
           AddPendingTimelineSignal(f, v)
    PROVE  Inv'
<1> DEFINE g == fence[f]
           r == requested[f]
           t == g.pending_timeline_value + 1
           s == [value |-> v, timeline_value |-> t]
           h == [g EXCEPT !.pending_timeline_value = t,
                          !.semaphores = @ \cup {s}]
           q == Append(r, v)
<1>1. g \in FenceRecord /\ r \in Seq(Values) /\ GoodFence(g, r)
  BY DEF Inv, TypeInv, FenceTypeOK
<1>2. /\ h.value = g.value
      /\ h.max_pending_value = g.max_pending_value
      /\ h.timeline_value = g.timeline_value
      /\ h.pending_timeline_value = t
      /\ h.semaphores = g.semaphores \cup {s}
      /\ h.events = g.events
  BY <1>1 DEF FenceRecord
<1>3. fence' = [fence EXCEPT ![f] = h] /\ requested' = [requested EXCEPT ![f] = q]
  BY DEF AddPendingTimelineSignal
<1>4. Kept(h, q)
  <2>1. /\ Len(q) = Len(r) + 1 /\ Len(r) \in Nat
        /\ q[Len(r) + 1] = v /\ \A n \in 1 .. Len(r) : q[n] = r[n]
    BY <1>1, AppendProperties, LenProperties
  <2>2. t = Len(r) + 1 /\ g.timeline_value \in Nat /\ g.timeline_value <= Len(r)
    BY <1>1 DEF GoodFence, Kept, FenceRecord
  <2>3. {[value |-> q[n], timeline_value |-> n] :
             n \in g.timeline_value + 1 .. Len(r) + 1}
          = {[value |-> r[n], timeline_value |-> n] :
                 n \in g.timeline_value + 1 .. Len(r)} \cup {s}
    <3>1. g.timeline_value + 1 .. Len(r) + 1
            = (g.timeline_value + 1 .. Len(r)) \cup {Len(r) + 1}
      BY <2>1, <2>2
    <3>2. \A n \in g.timeline_value + 1 .. Len(r) : q[n] = r[n]
      BY <2>1, <2>2
    <3>3. s = [value |-> q[Len(r) + 1], timeline_value |-> Len(r) + 1]
      BY <2>1, <2>2
    <3> QED BY <3>1, <3>2, <3>3
  <2>4. g.semaphores = {[value |-> r[n], timeline_value |-> n] :
                            n \in g.timeline_value + 1 .. Len(r)}
    BY <1>1 DEF GoodFence, Kept
  <2> QED BY <1>2, <2>1, <2>2, <2>3, <2>4 DEF Kept
<1>5. Backed(h)
  <2>1. PendingValues(g) \subseteq PendingValues(h)
    BY <1>2 DEF PendingValues
  <2> QED BY <1>1, <1>2, <2>1 DEF GoodFence, Backed
<1>6. NoneReady(h)
  BY <1>1, <1>2 DEF GoodFence, NoneReady
<1>7. TypeInv'
  BY TypeAdd DEF Inv
<1>8. \A k \in Fences : GoodFence(fence'[k], requested'[k])
  <2> GoodFence(h, q)
    BY <1>4, <1>5, <1>6 DEF GoodFence
  <2> HIDE DEF h, q
  <2> QED BY <1>3, OneFenceStep DEF Inv
<1> QED BY <1>7, <1>8 DEF Inv

LEMMA InvUpdate ==
    ASSUME Inv, NEW f \in Fences, UpdatePendingValue(f)
    PROVE  Inv'
<1> DEFINE g == fence[f]
           r == requested[f]
           h(m) == [g EXCEPT !.max_pending_value = m]
<1>1. g \in FenceRecord /\ requested \in [Fences -> Seq(Values)] /\ GoodFence(g, r)
  BY DEF Inv, TypeInv, FenceTypeOK
<1>2. PICK m \in MaxPendingValues(g) :
          fence' = [fence EXCEPT ![f].max_pending_value = m]
  BY DEF UpdatePendingValue
<1>3. m \in Values
  BY <1>1, MaxPendingType
<1>4. h(m) \in FenceRecord
  BY <1>1, <1>3 DEF FenceRecord
<1>5. /\ h(m).value = g.value
      /\ h(m).timeline_value = g.timeline_value
      /\ h(m).pending_timeline_value = g.pending_timeline_value
      /\ h(m).semaphores = g.semaphores
      /\ h(m).events = g.events
  BY <1>1 DEF FenceRecord
<1>6. Backed(h(m))
  BY <1>1, <1>2, <1>4, RecomputedIsBacked
<1>7. Kept(h(m), r) /\ NoneReady(h(m))
  BY <1>1, <1>5 DEF GoodFence, Kept, NoneReady
<1>8. TypeInv'
  BY TypeUpdate DEF Inv
<1>9. fence' = [fence EXCEPT ![f] = h(m)]
  BY <1>2
<1>10. requested' = [requested EXCEPT ![f] = r]
  BY <1>1 DEF UpdatePendingValue
<1>11. \A k \in Fences : GoodFence(fence'[k], requested'[k])
  <2> GoodFence(h(m), r)
    BY <1>6, <1>7 DEF GoodFence
  <2> HIDE DEF h, r
  <2> QED BY <1>9, <1>10, OneFenceStep DEF Inv
<1> QED BY <1>8, <1>11 DEF Inv

\* When a fence is given a value v, and each of vals is handled, no event that
\* is left is ready, provided v is one of vals or nothing changed.
LEMMA NoneLeftReady ==
    ASSUME NEW g \in FenceRecord, NEW h \in FenceRecord, NEW vals,
           NoneReady(g),
           h.events = g.events \ Ready(g, vals),
           h.value \in vals \/ h.value = g.value
    PROVE  NoneReady(h)
<1> SUFFICES ASSUME NEW w \in h.events PROVE h.value < w.value
  BY DEF NoneReady
<1>1. w \in g.events /\ ~ \E v \in vals : w.value <= v
  BY DEF Ready
<1>2. w.value \in Values /\ h.value \in Values
  BY <1>1 DEF FenceRecord, WaitingEvent
<1>3. w.value \in Nat /\ h.value \in Nat
  BY <1>2, FenceAssumption
<1>4. CASE h.value \in vals
  <2>1. ~(w.value <= h.value)
    BY <1>1, <1>4
  <2> QED BY <2>1, <1>3
<1>5. CASE h.value = g.value
  BY <1>1, <1>5 DEF NoneReady
<1> QED BY <1>4, <1>5

LEMMA InvCpu ==
    ASSUME Inv, NEW f \in Fences, NEW v \in Values,
           SignalCpuTimelineSemaphore(f, v)
    PROVE  Inv'
<1> DEFINE g == fence[f]
           r == requested[f]
           h == [g EXCEPT !.value = v, !.events = @ \ Ready(g, {v})]
           k(m) == [h EXCEPT !.max_pending_value = m]
<1>1. g \in FenceRecord /\ requested \in [Fences -> Seq(Values)] /\ GoodFence(g, r)
  BY DEF Inv, TypeInv, FenceTypeOK
<1>2. h \in FenceRecord
  BY <1>1 DEF FenceRecord
<1>3. PICK m \in MaxPendingValues(h) :
          fence' = [fence EXCEPT ![f] = k(m)] /\ requested' = requested
  BY DEF SignalCpuTimelineSemaphore
<1>4. m \in Values
  BY <1>2, MaxPendingType
<1>5. k(m) \in FenceRecord
  BY <1>2, <1>4 DEF FenceRecord
<1>6. /\ k(m).value = v
      /\ k(m).timeline_value = g.timeline_value
      /\ k(m).pending_timeline_value = g.pending_timeline_value
      /\ k(m).semaphores = g.semaphores
      /\ k(m).events = g.events \ Ready(g, {v})
  BY <1>1 DEF FenceRecord
<1>7. Backed(k(m))
  <2> HIDE DEF h
  <2> QED BY <1>2, <1>3, <1>5, RecomputedIsBacked
<1>8. NoneReady(k(m))
  <2> HIDE DEF k
  <2> QED BY <1>1, <1>5, <1>6, NoneLeftReady DEF GoodFence
<1>9. Kept(k(m), r)
  BY <1>1, <1>6 DEF GoodFence, Kept
<1>10. TypeInv'
  BY TypeCpu DEF Inv
<1>11. \A j \in Fences : GoodFence(fence'[j], requested'[j])
  <2>1. GoodFence(k(m), r)
    BY <1>7, <1>8, <1>9 DEF GoodFence
  <2>2. requested' = [requested EXCEPT ![f] = r]
    BY <1>1, <1>3
  <2> HIDE DEF k, r
  <2> QED BY <1>3, <2>1, <2>2, OneFenceStep DEF Inv
<1> QED BY <1>10, <1>11 DEF Inv

LEMMA InvRegister ==
    ASSUME Inv, NEW f \in Fences, NEW v \in Values, NEW e \in Events,
           SetEventOnCompletion(f, e, v)
    PROVE  Inv'
<1> DEFINE g == fence[f]
           r == requested[f]
           h == [g EXCEPT !.events = @ \cup {[event |-> e, value |-> v]}]
<1>1. g \in FenceRecord /\ requested \in [Fences -> Seq(Values)] /\ GoodFence(g, r)
  BY DEF Inv, TypeInv, FenceTypeOK
<1>2. fence' = [fence EXCEPT ![f] = h] /\ requested' = requested /\ g.value < v
  BY DEF SetEventOnCompletion
<1>3. /\ h.value = g.value
      /\ h.max_pending_value = g.max_pending_value
      /\ h.timeline_value = g.timeline_value
      /\ h.pending_timeline_value = g.pending_timeline_value
      /\ h.semaphores = g.semaphores
      /\ h.events = g.events \cup {[event |-> e, value |-> v]}
  BY <1>1 DEF FenceRecord
<1>4. PendingValues(h) = PendingValues(g)
  BY <1>3 DEF PendingValues
<1>5. GoodFence(h, r)
  BY <1>1, <1>2, <1>3, <1>4 DEF GoodFence, Kept, Backed, NoneReady
<1>6. TypeInv'
  BY TypeRegister DEF Inv
<1>7. \A j \in Fences : GoodFence(fence'[j], requested'[j])
  <2>1. requested' = [requested EXCEPT ![f] = r]
    BY <1>1, <1>2
  <2> HIDE DEF h, r
  <2> QED BY <1>2, <1>5, <2>1, OneFenceStep DEF Inv
<1> QED BY <1>6, <1>7 DEF Inv

\* The signals that are due at t are the next ones in the order of the queue.
LEMMA DueSignals ==
    ASSUME NEW g \in FenceRecord, NEW r \in Seq(Values), Kept(g, r),
           NEW t \in 1 .. Len(r)
    PROVE  Due(g, t) = {[value |-> r[n], timeline_value |-> n] :
                            n \in g.timeline_value + 1 .. t}
<1> DEFINE S(n) == [value |-> r[n], timeline_value |-> n]
           T == g.timeline_value
<1>1. Len(r) \in Nat /\ T \in Nat /\ T <= Len(r) /\ t \in Nat
  BY LenProperties DEF Kept, FenceRecord
<1>2. g.semaphores = {S(n) : n \in T + 1 .. Len(r)}
  BY DEF Kept
<1>3. \A n \in T + 1 .. Len(r) : S(n).timeline_value = n
  OBVIOUS
<1>4. \A n \in T + 1 .. Len(r) : T < n /\ (n <= t <=> n \in T + 1 .. t)
  BY <1>1
<1>5. T + 1 .. t \subseteq T + 1 .. Len(r)
  BY <1>1
<1>6. Due(g, t) = {S(n) : n \in T + 1 .. t}
  <2> HIDE DEF S
  <2> QED BY <1>2, <1>3, <1>4, <1>5 DEF Due
<1> QED BY <1>6

\* Signals with timeline values up to t leave the array, the others stay.
LEMMA KeptAfterTimeline ==
    ASSUME NEW g \in FenceRecord, NEW r \in Seq(Values), Kept(g, r),
           NEW t \in 1 .. Len(r), NEW h,
           h.pending_timeline_value = g.pending_timeline_value,
           h.timeline_value = (IF g.timeline_value < t THEN t ELSE g.timeline_value),
           h.semaphores = g.semaphores \ Due(g, t)
    PROVE  Kept(h, r)
<1> DEFINE S(n) == [value |-> r[n], timeline_value |-> n]
           T == g.timeline_value
           U == h.timeline_value
<1>1. Len(r) \in Nat /\ T \in Nat /\ T <= Len(r) /\ t \in Nat
  BY LenProperties DEF Kept, FenceRecord
<1>2. U \in Nat /\ T <= U /\ t <= U /\ U <= Len(r) /\ (U = T \/ U = t)
  BY <1>1
<1>3. g.semaphores = {S(n) : n \in T + 1 .. Len(r)}
  BY DEF Kept
<1>4. Due(g, t) = {S(n) : n \in T + 1 .. t}
  BY DueSignals
<1>5. \A n \in T + 1 .. Len(r) : S(n) \in Due(g, t) <=> n \in T + 1 .. t
  <2>1. \A n, k \in T + 1 .. Len(r) : S(n) = S(k) => n = k
    OBVIOUS
  <2>2. T + 1 .. t \subseteq T + 1 .. Len(r)
    BY <1>1
  <2> HIDE DEF S
  <2> QED BY <1>4, <2>1, <2>2
<1>6. g.semaphores \ Due(g, t) = {S(n) : n \in U + 1 .. Len(r)}
  <2>1. \A n \in T + 1 .. Len(r) : n \in T + 1 .. t <=> n \notin U + 1 .. Len(r)
    BY <1>1, <1>2
  <2>2. U + 1 .. Len(r) \subseteq T + 1 .. Len(r)
    BY <1>1, <1>2
  <2> HIDE DEF S, T, U
  <2> QED BY <1>3, <1>5, <2>1, <2>2
<1> QED BY <1>2, <1>6 DEF Kept

LEMMA InvTimeline ==
    ASSUME Inv, NEW f \in Fences,
           NEW t \in 1 .. fence[f].pending_timeline_value,
           SignalTimelineSemaphore(f, t)
    PROVE  Inv'
<1> DEFINE g == fence[f]
           r == requested[f]
           due == Due(g, t)
           vals == {s.value : s \in due}
           h(v) == [g EXCEPT !.value = v,
                             !.timeline_value = IF @ < t THEN t ELSE @,
                             !.semaphores = @ \ due,
                             !.events = @ \ Ready(g, vals)]
           k(v, m) == [h(v) EXCEPT !.max_pending_value = m]
<1>1. g \in FenceRecord /\ requested \in [Fences -> Seq(Values)] /\ GoodFence(g, r)
  BY DEF Inv, TypeInv, FenceTypeOK
<1>2. t \in Nat /\ t \in 1 .. Len(r)
  BY <1>1 DEF GoodFence, Kept, FenceRecord
<1> PICK v \in FinalValues(g, t) :
          \E m \in MaxPendingValues(h(v)) :
              /\ fence' = [fence EXCEPT ![f] = k(v, m)]
              /\ SignalExternalEvents(f, vals)
              /\ UNCHANGED <<requested, registered>>
  BY DEF SignalTimelineSemaphore
<1>3. PICK m \in MaxPendingValues(h(v)) :
          fence' = [fence EXCEPT ![f] = k(v, m)] /\ requested' = requested
  OBVIOUS
<1>4. v \in Values /\ (v \in vals \/ v = g.value)
  <2>1. v \in Values
    BY <1>1, <1>2, FinalValueType
  <2>2. v \in vals \/ v = g.value
    BY DEF FinalValues, LastDue
  <2> QED BY <2>1, <2>2
<1>5. h(v) \in FenceRecord
  BY <1>1, <1>2, <1>4 DEF FenceRecord
<1>6. m \in Values
  BY <1>3, <1>5, MaxPendingType
<1>7. k(v, m) \in FenceRecord
  BY <1>5, <1>6 DEF FenceRecord
<1>8. /\ k(v, m).value = v
      /\ k(v, m).timeline_value = (IF g.timeline_value < t THEN t ELSE g.timeline_value)
      /\ k(v, m).pending_timeline_value = g.pending_timeline_value
      /\ k(v, m).semaphores = g.semaphores \ due
      /\ k(v, m).events = g.events \ Ready(g, vals)
  BY <1>1 DEF FenceRecord
<1>9. Backed(k(v, m))
  <2> HIDE DEF h
  <2> QED BY <1>3, <1>5, <1>7, RecomputedIsBacked
<1>10. NoneReady(k(v, m))
  <2> HIDE DEF k, vals
  <2> QED BY <1>1, <1>4, <1>7, <1>8, NoneLeftReady DEF GoodFence
<1>11. Kept(k(v, m), r)
  <2> HIDE DEF k
  <2> QED BY <1>1, <1>2, <1>8, KeptAfterTimeline DEF GoodFence
<1>12. TypeInv'
  BY <1>2, TypeTimeline DEF Inv
<1>13. \A j \in Fences : GoodFence(fence'[j], requested'[j])
  <2>1. GoodFence(k(v, m), r)
    BY <1>9, <1>10, <1>11 DEF GoodFence
  <2>2. requested' = [requested EXCEPT ![f] = r]
    BY <1>1, <1>3
  <2> HIDE DEF k, r
  <2> QED BY <1>3, <2>1, <2>2, OneFenceStep DEF Inv
<1> QED BY <1>12, <1>13 DEF Inv

LEMMA InvInit == FenceInit => Inv
<1> SUFFICES ASSUME FenceInit PROVE Inv
  OBVIOUS
<1>1. PICK iv \in [Fences -> Values] :
          /\ fence = [f \in Fences |-> InitialFence(iv[f])]
          /\ requested = [f \in Fences |-> <<>>]
  BY DEF FenceInit
<1>2. ASSUME NEW f \in Fences PROVE GoodFence(fence[f], requested[f])
  <2> DEFINE g == fence[f]
  <2>1. /\ g.value = iv[f] /\ g.max_pending_value = iv[f]
        /\ g.timeline_value = 0 /\ g.pending_timeline_value = 0
        /\ g.semaphores = {} /\ g.events = {}
        /\ requested[f] = <<>>
    BY <1>1 DEF InitialFence
  <2>2. iv[f] <= iv[f]
    <3>1. iv[f] \in Nat
      BY FenceAssumption
    <3> QED BY <3>1
  <2>3. Kept(g, <<>>)
    BY <2>1 DEF Kept
  <2>4. Backed(g)
    BY <2>1, <2>2 DEF Backed, PendingValues
  <2>5. NoneReady(g)
    BY <2>1 DEF NoneReady
  <2> QED BY <2>1, <2>3, <2>4, <2>5 DEF GoodFence
<1> QED BY <1>2, TypeInit DEF Inv

LEMMA InvStep == Inv /\ [FenceNext]_fenceVars => Inv'
<1> SUFFICES ASSUME Inv, [FenceNext]_fenceVars PROVE Inv'
  OBVIOUS
<1>1. CASE UNCHANGED fenceVars
  <2>1. TypeInv'
    BY <1>1 DEF fenceVars, Inv, TypeInv, FenceTypeOK, EventsFinite
  <2> QED BY <1>1, <2>1 DEF fenceVars, Inv
<1>2. CASE FenceNext
  <2> PICK f \in Fences :
          \/ \E v \in Values : \/ AddPendingTimelineSignal(f, v)
                               \/ SignalCpuTimelineSemaphore(f, v)
                               \/ \E e \in Events : SetEventOnCompletion(f, e, v)
          \/ UpdatePendingValue(f)
          \/ \E t \in 1 .. fence[f].pending_timeline_value :
                 SignalTimelineSemaphore(f, t)
    BY <1>2 DEF FenceNext
  <2>1. CASE \E v \in Values : \/ AddPendingTimelineSignal(f, v)
                               \/ SignalCpuTimelineSemaphore(f, v)
                               \/ \E e \in Events : SetEventOnCompletion(f, e, v)
    BY <2>1, InvAdd, InvCpu, InvRegister
  <2>2. CASE \E t \in 1 .. fence[f].pending_timeline_value :
                 SignalTimelineSemaphore(f, t)
    BY <2>2, InvTimeline
  <2>3. CASE UpdatePendingValue(f)
    BY <2>3, InvUpdate
  <2> QED BY <2>1, <2>2, <2>3
<1> QED BY <1>1, <1>2

LEMMA InvAlways == FenceSpec => []Inv
BY InvInit, InvStep, PTL DEF FenceSpec

-----------------------------------------------------------------------------
(***************************************************************************)
(* The safety properties.                                                  *)
(***************************************************************************)

\* d3d12_fence_signal_timeline_semaphore() finds an entry for every timeline
\* value between the fence's and the one that was reached.
THEOREM SignalsKept == FenceSpec => []QueuedSignalsKept
<1>1. Inv => QueuedSignalsKept
  BY DEF Inv, GoodFence, Kept, QueuedSignalsKept
<1> QED BY <1>1, InvAlways, PTL

\* max_pending_value is always covered by the value or by a queued signal.
THEOREM PendingIsBacked == FenceSpec => []MaxPendingBacked
<1>1. Inv => MaxPendingBacked
  BY DEF Inv, GoodFence, Backed, MaxPendingBacked
<1> QED BY <1>1, InvAlways, PTL

\* A wait that is let through as a plain barrier is for a reached value.
THEOREM BarrierIsReached == FenceSpec => []ZeroWaitIsReached
<1>1. Inv => ZeroWaitIsReached
  <2> SUFFICES ASSUME Inv, NEW f \in Fences, NEW v \in Values,
                      v <= fence[f].max_pending_value,
                      0 \in WaitValues(fence[f], v)
               PROVE  v <= fence[f].value
    BY DEF ZeroWaitIsReached
  <2> DEFINE g == fence[f]
  <2>1. g \in FenceRecord /\ Kept(g, requested[f]) /\ Backed(g)
    BY DEF Inv, TypeInv, FenceTypeOK, GoodFence
  <2>2. \A s \in g.semaphores : s.timeline_value # 0
    BY <2>1 DEF Kept, FenceRecord
  <2>3. Reaching(g, v) = {}
    BY <2>2 DEF WaitValues, Reaching
  <2>4. PICK p \in PendingValues(g) : g.max_pending_value <= p
    BY <2>1 DEF Backed
  <2>5. p \in Values /\ g.max_pending_value \in Values /\ g.value \in Values
    BY <2>1, <2>4 DEF PendingValues, FenceRecord, Signal
  <2>6. v <= p
    <3>1. v \in Nat /\ p \in Nat /\ g.max_pending_value \in Nat
      BY <2>5, FenceAssumption
    <3> QED BY <2>4, <3>1
  <2>7. p = g.value
    BY <2>3, <2>4, <2>6 DEF PendingValues, Reaching
  <2> QED BY <2>6, <2>7
<1> QED BY <1>1, InvAlways, PTL

\* No event waits for a value the fence already has.
THEOREM NoEventLeftBehind == FenceSpec => []NoReadyEventWaits
<1>1. Inv => NoReadyEventWaits
  BY DEF Inv, GoodFence, NoneReady, NoReadyEventWaits
<1> QED BY <1>1, InvAlways, PTL

-----------------------------------------------------------------------------
(***************************************************************************)
(* Every registration signals once: the registrations of an event are the  *)
(* signals it got and the entries still on the list.                       *)
(***************************************************************************)
\* Nothing happens to the events of a fence whose list stays as it is.
LEMMA ConservedUnchanged ==
    ASSUME EventsConserved, \A f \in Fences : fence'[f].events = fence[f].events,
           UNCHANGED <<registered, signalled>>
    PROVE  EventsConserved'
<1> SUFFICES ASSUME NEW f \in Fences, NEW e \in Events
             PROVE  registered'[f][e] = signalled'[f][e]
                        + Cardinality({w \in fence'[f].events : w.event = e})
  BY DEF EventsConserved
<1>1. {w \in fence'[f].events : w.event = e} = {w \in fence[f].events : w.event = e}
  OBVIOUS
<1> QED BY <1>1 DEF EventsConserved

\* The entries signal_external_events_locked() takes off the list are the ones
\* it signals.
LEMMA ConservedBySignal ==
    ASSUME TypeInv, EventsConserved, NEW f \in Fences, NEW vals,
           SignalExternalEvents(f, vals), UNCHANGED registered,
           \A g \in Fences : fence'[g].events =
               IF g = f THEN fence[f].events \ Ready(fence[f], vals) ELSE fence[g].events
    PROVE  EventsConserved'
<1> SUFFICES ASSUME NEW g \in Fences, NEW e \in Events
             PROVE  registered'[g][e] = signalled'[g][e]
                        + Cardinality({w \in fence'[g].events : w.event = e})
  BY DEF EventsConserved
<1>1. signalled \in [Fences -> [Events -> Nat]]
  BY DEF TypeInv, FenceTypeOK
<1>2. CASE g # f
  <2>1. signalled'[g] = signalled[g] /\ fence'[g].events = fence[g].events
    BY <1>1, <1>2 DEF SignalExternalEvents
  <2>2. {w \in fence'[g].events : w.event = e} = {w \in fence[g].events : w.event = e}
    BY <2>1
  <2> QED BY <2>1, <2>2 DEF EventsConserved
<1>3. CASE g = f
  <2> DEFINE W == {w \in fence[f].events : w.event = e}
             R == {w \in Ready(fence[f], vals) : w.event = e}
  <2>1. IsFiniteSet(W)
    <3>1. IsFiniteSet(fence[f].events)
      BY DEF TypeInv, EventsFinite
    <3> QED BY <3>1, FS_Subset
  <2>2. R \subseteq W /\ W \cap R = R
    BY DEF Ready
  <2>3. {w \in fence'[g].events : w.event = e} = W \ R
    BY <1>3
  <2>4. signalled'[f][e] = signalled[f][e] + Cardinality(R)
    BY <1>1 DEF SignalExternalEvents
  <2>5. registered'[f][e] = signalled[f][e] + Cardinality(W)
    BY DEF EventsConserved
  <2>6. Cardinality(R) \in Nat /\ Cardinality(W) \in Nat /\ signalled[f][e] \in Nat
    <3>1. IsFiniteSet(R)
      BY <2>1, <2>2, FS_Subset
    <3> QED BY <1>1, <2>1, <3>1, FS_CardinalityType
  <2>7. Cardinality(W \ R) = Cardinality(W) - Cardinality(R)
    <3> HIDE DEF W, R
    <3> QED BY <2>1, <2>2, FS_Difference
  <2>8. registered'[f][e] = signalled'[f][e] + Cardinality(W \ R)
    <3> HIDE DEF W, R
    <3> QED BY <2>4, <2>5, <2>6, <2>7
  <2>9. Cardinality({w \in fence'[g].events : w.event = e}) = Cardinality(W \ R)
    BY <2>3
  <2> HIDE DEF W, R
  <2> QED BY <1>3, <2>8, <2>9
<1> QED BY <1>2, <1>3

LEMMA ConservedByRegister ==
    ASSUME TypeInv, EventsConserved, NEW f \in Fences, NEW v \in Values,
           NEW d \in Events, SetEventOnCompletion(f, d, v)
    PROVE  EventsConserved'
<1> DEFINE entry == [event |-> d, value |-> v]
           h == [fence[f] EXCEPT !.events = @ \cup {entry}]
<1> SUFFICES ASSUME NEW g \in Fences, NEW e \in Events
             PROVE  registered'[g][e] = signalled'[g][e]
                        + Cardinality({w \in fence'[g].events : w.event = e})
  BY DEF EventsConserved
<1>1. /\ registered \in [Fences -> [Events -> Nat]] /\ fence[f] \in FenceRecord
      /\ fence \in [Fences -> FenceRecord] /\ signalled \in [Fences -> [Events -> Nat]]
  BY DEF TypeInv, FenceTypeOK
<1>2. /\ fence' = [fence EXCEPT ![f] = h] /\ signalled' = signalled
      /\ registered' = [registered EXCEPT ![f][d] = @ + 1]
      /\ entry \notin fence[f].events
  BY DEF SetEventOnCompletion
<1>3. /\ g # f => fence'[g].events = fence[g].events
      /\ g = f => fence'[g].events = fence[f].events \cup {entry}
  BY <1>1, <1>2 DEF FenceRecord
<1>4. CASE g # f \/ e # d
  <2>1. registered'[g][e] = registered[g][e]
    BY <1>1, <1>2, <1>4
  <2>2. {w \in fence'[g].events : w.event = e} = {w \in fence[g].events : w.event = e}
    <3>1. entry.event = d
      OBVIOUS
    <3> HIDE DEF entry, h
    <3> QED BY <1>3, <1>4, <3>1
  <2> QED BY <1>2, <2>1, <2>2 DEF EventsConserved
<1>5. CASE g = f /\ e = d
  <2> DEFINE W == {w \in fence[f].events : w.event = e}
  <2>1. {w \in fence'[g].events : w.event = e} = W \cup {entry} /\ entry \notin W
    <3>1. entry.event = d
      OBVIOUS
    <3> HIDE DEF entry, h
    <3> QED BY <1>2, <1>3, <1>5, <3>1
  <2>2. IsFiniteSet(W)
    <3>1. IsFiniteSet(fence[f].events)
      BY DEF TypeInv, EventsFinite
    <3> QED BY <3>1, FS_Subset
  <2>3. Cardinality(W \cup {entry}) = Cardinality(W) + 1 /\ Cardinality(W) \in Nat
    <3> HIDE DEF W, entry
    <3> QED BY <2>1, <2>2, FS_AddElement, FS_CardinalityType
  <2>4. registered'[f][e] = registered[f][e] + 1
    BY <1>1, <1>2, <1>5
  <2>5. registered[f][e] = signalled[f][e] + Cardinality(W) /\ signalled[f][e] \in Nat
    BY <1>1 DEF EventsConserved
  <2>6. registered'[f][e] = signalled'[f][e] + Cardinality(W \cup {entry})
    <3>1. signalled'[f][e] = signalled[f][e]
      BY <1>2
    <3> HIDE DEF W, entry
    <3> QED BY <2>3, <2>4, <2>5, <3>1
  <2>7. Cardinality({w \in fence'[g].events : w.event = e}) = Cardinality(W \cup {entry})
    BY <2>1
  <2> HIDE DEF W, entry
  <2> QED BY <1>5, <2>6, <2>7
<1> QED BY <1>4, <1>5

LEMMA ConservedStep == TypeInv /\ EventsConserved /\ [FenceNext]_fenceVars => EventsConserved'
<1> SUFFICES ASSUME TypeInv, EventsConserved, [FenceNext]_fenceVars
             PROVE  EventsConserved'
  OBVIOUS
<1>1. CASE UNCHANGED fenceVars
  BY <1>1, ConservedUnchanged DEF fenceVars
<1>2. ASSUME NEW f \in Fences, NEW v \in Values, AddPendingTimelineSignal(f, v)
      PROVE  EventsConserved'
  <2>1. \A g \in Fences : fence'[g].events = fence[g].events
    BY <1>2 DEF AddPendingTimelineSignal, TypeInv, FenceTypeOK, FenceRecord
  <2>2. UNCHANGED <<registered, signalled>>
    BY <1>2 DEF AddPendingTimelineSignal
  <2> QED BY <2>1, <2>2, ConservedUnchanged
<1>3. ASSUME NEW f \in Fences, UpdatePendingValue(f) PROVE EventsConserved'
  <2>1. \A g \in Fences : fence'[g].events = fence[g].events
    BY <1>3 DEF UpdatePendingValue, TypeInv, FenceTypeOK, FenceRecord
  <2>2. UNCHANGED <<registered, signalled>>
    BY <1>3 DEF UpdatePendingValue
  <2> QED BY <2>1, <2>2, ConservedUnchanged
<1>4. ASSUME NEW f \in Fences, NEW v \in Values, SignalCpuTimelineSemaphore(f, v)
      PROVE  EventsConserved'
  <2>1. \A g \in Fences : fence'[g].events =
            IF g = f THEN fence[f].events \ Ready(fence[f], {v}) ELSE fence[g].events
    BY <1>4 DEF SignalCpuTimelineSemaphore, TypeInv, FenceTypeOK, FenceRecord
  <2>2. SignalExternalEvents(f, {v}) /\ UNCHANGED registered
    BY <1>4 DEF SignalCpuTimelineSemaphore
  <2> QED BY <2>1, <2>2, ConservedBySignal
<1>5. ASSUME NEW f \in Fences, NEW t \in 1 .. fence[f].pending_timeline_value,
             SignalTimelineSemaphore(f, t)
      PROVE  EventsConserved'
  <2> DEFINE vals == {s.value : s \in Due(fence[f], t)}
  <2>1. \A g \in Fences : fence'[g].events =
            IF g = f THEN fence[f].events \ Ready(fence[f], vals) ELSE fence[g].events
    BY <1>5 DEF SignalTimelineSemaphore, TypeInv, FenceTypeOK, FenceRecord
  <2>2. SignalExternalEvents(f, vals) /\ UNCHANGED registered
    BY <1>5 DEF SignalTimelineSemaphore
  <2> HIDE DEF vals
  <2> QED BY <2>1, <2>2, ConservedBySignal
<1>6. CASE FenceNext
  <2> PICK f \in Fences :
          \/ \E v \in Values : \/ AddPendingTimelineSignal(f, v)
                               \/ SignalCpuTimelineSemaphore(f, v)
                               \/ \E e \in Events : SetEventOnCompletion(f, e, v)
          \/ UpdatePendingValue(f)
          \/ \E t \in 1 .. fence[f].pending_timeline_value :
                 SignalTimelineSemaphore(f, t)
    BY <1>6 DEF FenceNext
  <2>1. CASE \E v \in Values : \/ AddPendingTimelineSignal(f, v)
                               \/ SignalCpuTimelineSemaphore(f, v)
                               \/ \E e \in Events : SetEventOnCompletion(f, e, v)
    BY <2>1, <1>2, <1>4, ConservedByRegister
  <2>2. CASE \E t \in 1 .. fence[f].pending_timeline_value :
                 SignalTimelineSemaphore(f, t)
    BY <2>2, <1>5
  <2> QED BY <2>1, <2>2, <1>3
<1> QED BY <1>1, <1>6

LEMMA ConservedInit == FenceInit => EventsConserved
<1> SUFFICES ASSUME FenceInit, NEW f \in Fences, NEW e \in Events
             PROVE  registered[f][e] = signalled[f][e]
                        + Cardinality({w \in fence[f].events : w.event = e})
  BY DEF EventsConserved
<1>1. fence[f].events = {} /\ registered[f][e] = 0 /\ signalled[f][e] = 0
  BY DEF FenceInit, InitialFence
<1>2. {w \in fence[f].events : w.event = e} = {}
  BY <1>1
<1> QED BY <1>1, <1>2, FS_EmptySet

\* Each registration of an event signals it exactly once, however often the
\* fence is rewound.
THEOREM EventsSignalledOnce == FenceSpec => []EventsConserved
<1>1. FenceInit => TypeInv /\ EventsConserved
  BY TypeInit, ConservedInit
<1>2. TypeInv /\ EventsConserved /\ [FenceNext]_fenceVars
          => (TypeInv /\ EventsConserved)'
  BY TypeStep, ConservedStep
<1> QED BY <1>1, <1>2, PTL DEF FenceSpec

-----------------------------------------------------------------------------
(***************************************************************************)
(* Fence implements FenceContract: FenceSpec => Contract!Spec.             *)
(* The timeline values that were given out and not handled are the queue   *)
(* of the contract, so handling timeline value t completes the first       *)
(* t - timeline_value signals of the queue.                                *)
(***************************************************************************)
\* The contract's state.
ContractValue == [f \in Fences |-> fence[f].value]
ContractQueue(g, r) == SubSeq(r, g.timeline_value + 1, Len(r))
ContractQueued == [f \in Fences |-> ContractQueue(fence[f], requested[f])]
ContractWaiting == [f \in Fences |-> fence[f].events]

ContractVars == <<ContractValue, ContractQueued, ContractWaiting>>

\* What SubSeq() does at the end of a sequence.
LEMMA SuffixProperties ==
    ASSUME NEW S, NEW r \in Seq(S), NEW T \in Nat, T <= Len(r)
    PROVE  /\ SubSeq(r, T + 1, Len(r)) \in Seq(S)
           /\ Len(SubSeq(r, T + 1, Len(r))) = Len(r) - T
           /\ \A k \in 1 .. Len(r) - T : SubSeq(r, T + 1, Len(r))[k] = r[T + k]
BY LenProperties, SubSeqProperties

\* A sequence that grows at the end has a suffix that grows.
LEMMA SuffixAppend ==
    ASSUME NEW S, NEW r \in Seq(S), NEW v \in S, NEW T \in Nat, T <= Len(r)
    PROVE  SubSeq(Append(r, v), T + 1, Len(r) + 1)
               = Append(SubSeq(r, T + 1, Len(r)), v)
<1> DEFINE q == Append(r, v)
           a == SubSeq(q, T + 1, Len(q))
           b == SubSeq(r, T + 1, Len(r))
           c == Append(b, v)
<1>1. /\ q \in Seq(S) /\ Len(q) = Len(r) + 1 /\ Len(r) \in Nat
      /\ q[Len(r) + 1] = v /\ \A n \in 1 .. Len(r) : q[n] = r[n]
  BY AppendProperties, LenProperties
<1>2. /\ a \in Seq(S) /\ Len(a) = Len(r) + 1 - T
      /\ \A k \in 1 .. Len(r) + 1 - T : a[k] = q[T + k]
  <2> HIDE DEF q
  <2>1. T <= Len(q)
    BY <1>1
  <2> QED BY <1>1, <2>1, SuffixProperties
<1>3. /\ b \in Seq(S) /\ Len(b) = Len(r) - T
      /\ \A k \in 1 .. Len(r) - T : b[k] = r[T + k]
  BY SuffixProperties
<1>4. /\ c \in Seq(S) /\ Len(c) = Len(r) - T + 1
      /\ c[Len(r) - T + 1] = v /\ \A n \in 1 .. Len(r) - T : c[n] = b[n]
  <2> HIDE DEF b
  <2> QED BY <1>3, AppendProperties
<1>5. ASSUME NEW k \in 1 .. Len(r) + 1 - T PROVE a[k] = c[k]
  <2>1. CASE k = Len(r) + 1 - T
    <3>1. T + k = Len(r) + 1 /\ k = Len(r) - T + 1
      BY <1>1, <2>1
    <3> HIDE DEF q, a, b, c
    <3> QED BY <1>1, <1>2, <1>4, <3>1
  <2>2. CASE k # Len(r) + 1 - T
    <3>1. k \in 1 .. Len(r) - T /\ T + k \in 1 .. Len(r)
      BY <1>1, <2>2
    <3> HIDE DEF a, b, c, q
    <3> QED BY <1>1, <1>2, <1>3, <1>4, <3>1
  <2> QED BY <2>1, <2>2
<1>6. a = c
  <2> HIDE DEF a, c
  <2>1. Len(a) = Len(c)
    BY <1>1, <1>2, <1>4
  <2> QED BY <1>1, <1>2, <1>4, <1>5, <2>1, SeqEqual
<1> QED BY <1>1, <1>6

\* A suffix of a suffix is a suffix.
LEMMA SuffixOfSuffix ==
    ASSUME NEW S, NEW r \in Seq(S), NEW T \in Nat, NEW n \in Nat, T + n <= Len(r)
    PROVE  LET b == SubSeq(r, T + 1, Len(r))
           IN  SubSeq(b, n + 1, Len(b)) = SubSeq(r, T + n + 1, Len(r))
<1> DEFINE b == SubSeq(r, T + 1, Len(r))
           a == SubSeq(b, n + 1, Len(b))
           c == SubSeq(r, T + n + 1, Len(r))
<1>1. Len(r) \in Nat /\ T <= Len(r) /\ T + n \in Nat
  BY LenProperties
<1>2. /\ b \in Seq(S) /\ Len(b) = Len(r) - T
      /\ \A k \in 1 .. Len(r) - T : b[k] = r[T + k]
  BY <1>1, SuffixProperties
<1>3. /\ a \in Seq(S) /\ Len(a) = Len(b) - n
      /\ \A k \in 1 .. Len(b) - n : a[k] = b[n + k]
  <2> HIDE DEF b
  <2>1. n <= Len(b)
    BY <1>1, <1>2
  <2> QED BY <1>2, <2>1, SuffixProperties
<1>4. /\ c \in Seq(S) /\ Len(c) = Len(r) - (T + n)
      /\ \A k \in 1 .. Len(r) - (T + n) : c[k] = r[T + n + k]
  BY <1>1, SuffixProperties
<1>5. ASSUME NEW k \in 1 .. Len(a) PROVE a[k] = c[k]
  <2> HIDE DEF a, b, c
  <2>1. n + k \in 1 .. Len(r) - T /\ T + (n + k) = T + n + k
    BY <1>1, <1>2, <1>3
  <2>2. k \in 1 .. Len(b) - n /\ k \in 1 .. Len(r) - (T + n)
    BY <1>1, <1>2, <1>3
  <2> QED BY <1>2, <1>3, <1>4, <2>1, <2>2
<1>6. a = c
  <2> HIDE DEF a, b, c
  <2>1. Len(a) = Len(c)
    BY <1>1, <1>2, <1>3, <1>4
  <2> QED BY <1>3, <1>4, <1>5, <2>1, SeqEqual
<1> QED BY <1>6

-----------------------------------------------------------------------------
(***************************************************************************)
(* Every step of a fence is a step of the contract or changes nothing.     *)
(***************************************************************************)
LEMMA ContractInit == FenceInit => Contract!Init
<1> SUFFICES ASSUME FenceInit PROVE Contract!Init
  OBVIOUS
<1>1. PICK iv \in [Fences -> Values] :
          /\ fence = [f \in Fences |-> InitialFence(iv[f])]
          /\ requested = [f \in Fences |-> <<>>]
  BY DEF FenceInit
<1>2. ContractValue \in [Fences -> Values]
  BY <1>1 DEF ContractValue, InitialFence
<1>3. ContractQueued = [f \in Fences |-> <<>>]
  <2>1. ASSUME NEW f \in Fences PROVE ContractQueue(fence[f], requested[f]) = <<>>
    <3>1. SubSeq(<<>>, 1, 0) = <<>>
      BY SubSeqEmpty
    <3> QED BY <1>1, <3>1 DEF ContractQueue, InitialFence
  <2> QED BY <2>1 DEF ContractQueued
<1>4. ContractWaiting = [f \in Fences |-> {}]
  BY <1>1 DEF ContractWaiting, InitialFence
<1> QED BY <1>2, <1>3, <1>4
        DEF Contract!Init, ContractValue, ContractQueued, ContractQueue, ContractWaiting

\* The mapped variables of a step that changes one fence.
LEMMA MappedStep ==
    ASSUME Inv, NEW f \in Fences, NEW h, NEW r,
           fence' = [fence EXCEPT ![f] = h], requested' = [requested EXCEPT ![f] = r]
    PROVE  /\ ContractValue' = [ContractValue EXCEPT ![f] = h.value]
           /\ ContractQueued' = [ContractQueued EXCEPT ![f] = ContractQueue(h, r)]
           /\ ContractWaiting' = [ContractWaiting EXCEPT ![f] = h.events]
<1>1. /\ fence'[f] = h /\ requested'[f] = r
      /\ \A g \in Fences \ {f} : fence'[g] = fence[g] /\ requested'[g] = requested[g]
  BY DEF Inv, TypeInv, FenceTypeOK
<1>2. ContractValue' = [ContractValue EXCEPT ![f] = h.value]
  <2>1. ContractValue' = [g \in Fences |-> fence'[g].value]
    BY DEF ContractValue
  <2>2. \A g \in Fences : fence'[g].value = IF g = f THEN h.value ELSE fence[g].value
    BY <1>1
  <2>3. [ContractValue EXCEPT ![f] = h.value]
            = [g \in Fences |-> IF g = f THEN h.value ELSE fence[g].value]
    BY DEF ContractValue
  <2> QED BY <2>1, <2>2, <2>3
<1>3. ContractQueued' = [ContractQueued EXCEPT ![f] = ContractQueue(h, r)]
  <2>1. ContractQueued' = [g \in Fences |-> ContractQueue(fence'[g], requested'[g])]
    BY DEF ContractQueued, ContractQueue
  <2>2. \A g \in Fences :
            ContractQueue(fence'[g], requested'[g])
                = IF g = f THEN ContractQueue(h, r) ELSE ContractQueue(fence[g], requested[g])
    BY <1>1
  <2>3. [ContractQueued EXCEPT ![f] = ContractQueue(h, r)]
            = [g \in Fences |-> IF g = f THEN ContractQueue(h, r)
                                ELSE ContractQueue(fence[g], requested[g])]
    BY DEF ContractQueued
  <2> QED BY <2>1, <2>2, <2>3
<1>4. ContractWaiting' = [ContractWaiting EXCEPT ![f] = h.events]
  <2>1. ContractWaiting' = [g \in Fences |-> fence'[g].events]
    BY DEF ContractWaiting
  <2>2. \A g \in Fences : fence'[g].events = IF g = f THEN h.events ELSE fence[g].events
    BY <1>1
  <2>3. [ContractWaiting EXCEPT ![f] = h.events]
            = [g \in Fences |-> IF g = f THEN h.events ELSE fence[g].events]
    BY DEF ContractWaiting
  <2> QED BY <2>1, <2>2, <2>3
<1> QED BY <1>2, <1>3, <1>4

LEMMA ContractAdd ==
    ASSUME Inv, NEW f \in Fences, NEW v \in Values, AddPendingTimelineSignal(f, v)
    PROVE  Contract!QueueSignal(f, v)
<1> DEFINE g == fence[f]
           r == requested[f]
           t == g.pending_timeline_value + 1
           h == [g EXCEPT !.pending_timeline_value = t,
                    !.semaphores = @ \cup {[value |-> v, timeline_value |-> t]}]
           q == Append(r, v)
<1>1. g \in FenceRecord /\ r \in Seq(Values) /\ Kept(g, r)
  BY DEF Inv, TypeInv, FenceTypeOK, GoodFence
<1>2. fence' = [fence EXCEPT ![f] = h] /\ requested' = [requested EXCEPT ![f] = q]
  BY DEF AddPendingTimelineSignal
<1>3. /\ h.value = g.value /\ h.events = g.events
      /\ h.timeline_value = g.timeline_value
  BY <1>1 DEF FenceRecord
<1>4. ContractQueue(h, q) = Append(ContractQueue(g, r), v)
  <2>1. Len(q) = Len(r) + 1
    BY <1>1, AppendProperties
  <2>2. g.timeline_value \in Nat /\ g.timeline_value <= Len(r)
    BY <1>1 DEF Kept, FenceRecord
  <2> HIDE DEF h
  <2> QED BY <1>1, <1>3, <2>1, <2>2, SuffixAppend DEF ContractQueue
<1>5. /\ ContractValue' = [ContractValue EXCEPT ![f] = h.value]
      /\ ContractQueued' = [ContractQueued EXCEPT ![f] = ContractQueue(h, q)]
      /\ ContractWaiting' = [ContractWaiting EXCEPT ![f] = h.events]
  <2> HIDE DEF h, q
  <2> QED BY <1>2, MappedStep
<1>6. ContractValue' = ContractValue /\ ContractWaiting' = ContractWaiting
  BY <1>3, <1>5 DEF ContractValue, ContractWaiting
<1>7. ContractQueued' = [ContractQueued EXCEPT ![f] = Append(@, v)]
  BY <1>4, <1>5 DEF ContractQueued
<1> QED BY <1>6, <1>7
        DEF Contract!QueueSignal, ContractValue, ContractQueued, ContractQueue, ContractWaiting

LEMMA ContractRegister ==
    ASSUME Inv, NEW f \in Fences, NEW v \in Values, NEW e \in Events,
           SetEventOnCompletion(f, e, v)
    PROVE  Contract!Register(f, e, v)
<1> DEFINE g == fence[f]
           r == requested[f]
           w == [event |-> e, value |-> v]
           h == [g EXCEPT !.events = @ \cup {w}]
<1>1. g \in FenceRecord /\ requested \in [Fences -> Seq(Values)]
  BY DEF Inv, TypeInv, FenceTypeOK
<1>2. fence' = [fence EXCEPT ![f] = h] /\ requested' = requested /\ g.value < v
  BY DEF SetEventOnCompletion
<1>3. /\ h.value = g.value /\ h.events = g.events \cup {w}
      /\ h.timeline_value = g.timeline_value
  BY <1>1 DEF FenceRecord
<1>4. ContractQueue(h, r) = ContractQueue(g, r)
  BY <1>3 DEF ContractQueue
<1>5. /\ ContractValue' = [ContractValue EXCEPT ![f] = h.value]
      /\ ContractQueued' = [ContractQueued EXCEPT ![f] = ContractQueue(h, r)]
      /\ ContractWaiting' = [ContractWaiting EXCEPT ![f] = h.events]
  <2>1. /\ fence' = [fence EXCEPT ![f] = h]
        /\ requested' = [requested EXCEPT ![f] = r]
    BY <1>1, <1>2
  <2> HIDE DEF g, h, r
  <2> QED BY <2>1, MappedStep
<1>6. ContractValue' = ContractValue /\ ContractQueued' = ContractQueued
  BY <1>3, <1>4, <1>5 DEF ContractValue, ContractQueued
<1>7. ContractWaiting' = [ContractWaiting EXCEPT ![f] = @ \cup {w}]
  BY <1>3, <1>5 DEF ContractWaiting
<1> QED BY <1>2, <1>6, <1>7
        DEF Contract!Register, ContractValue, ContractQueued, ContractQueue, ContractWaiting

LEMMA ContractUpdate ==
    ASSUME Inv, NEW f \in Fences, UpdatePendingValue(f)
    PROVE  UNCHANGED ContractVars
<1> DEFINE g == fence[f]
           r == requested[f]
           h(m) == [g EXCEPT !.max_pending_value = m]
<1>1. g \in FenceRecord /\ requested \in [Fences -> Seq(Values)]
  BY DEF Inv, TypeInv, FenceTypeOK
<1>2. PICK m \in MaxPendingValues(g) :
          fence' = [fence EXCEPT ![f] = h(m)] /\ requested' = requested
  BY DEF UpdatePendingValue
<1>3. /\ h(m).value = g.value /\ h(m).events = g.events
      /\ h(m).timeline_value = g.timeline_value
  BY <1>1 DEF FenceRecord
<1>4. ContractQueue(h(m), r) = ContractQueue(g, r)
  BY <1>3 DEF ContractQueue
<1>5. /\ ContractValue' = [ContractValue EXCEPT ![f] = h(m).value]
      /\ ContractQueued' = [ContractQueued EXCEPT ![f] = ContractQueue(h(m), r)]
      /\ ContractWaiting' = [ContractWaiting EXCEPT ![f] = h(m).events]
  <2>1. /\ fence' = [fence EXCEPT ![f] = h(m)]
        /\ requested' = [requested EXCEPT ![f] = r]
    BY <1>1, <1>2
  <2> HIDE DEF g, h, r
  <2> QED BY <2>1, MappedStep
<1> QED BY <1>3, <1>4, <1>5 DEF ContractVars, ContractValue, ContractQueued, ContractWaiting

\* The events that are left are those that no handled value reaches.
LEMMA RemainingEvents ==
    ASSUME NEW g \in FenceRecord, NEW vals \in SUBSET Values
    PROVE  g.events \ Ready(g, vals)
               = {w \in g.events : \A v \in vals : v < w.value}
<1>1. \A w \in g.events, v \in vals : w.value \in Nat /\ v \in Nat
  BY FenceAssumption DEF FenceRecord, WaitingEvent
<1>2. \A w \in g.events, v \in vals : ~(w.value <= v) <=> v < w.value
  BY <1>1
<1> QED BY <1>2 DEF Ready

LEMMA ContractCpu ==
    ASSUME Inv, NEW f \in Fences, NEW v \in Values, SignalCpuTimelineSemaphore(f, v)
    PROVE  Contract!Set(f, v)
<1> DEFINE g == fence[f]
           r == requested[f]
           h == [g EXCEPT !.value = v, !.events = @ \ Ready(g, {v})]
           k(m) == [h EXCEPT !.max_pending_value = m]
<1>1. g \in FenceRecord /\ requested \in [Fences -> Seq(Values)]
  BY DEF Inv, TypeInv, FenceTypeOK
<1>2. PICK m \in MaxPendingValues(h) :
          fence' = [fence EXCEPT ![f] = k(m)] /\ requested' = requested
  BY DEF SignalCpuTimelineSemaphore
<1>3. /\ k(m).value = v /\ k(m).events = g.events \ Ready(g, {v})
      /\ k(m).timeline_value = g.timeline_value
  BY <1>1 DEF FenceRecord
<1>4. ContractQueue(k(m), r) = ContractQueue(g, r)
  BY <1>3 DEF ContractQueue
<1>5. /\ ContractValue' = [ContractValue EXCEPT ![f] = k(m).value]
      /\ ContractQueued' = [ContractQueued EXCEPT ![f] = ContractQueue(k(m), r)]
      /\ ContractWaiting' = [ContractWaiting EXCEPT ![f] = k(m).events]
  <2>1. /\ fence' = [fence EXCEPT ![f] = k(m)]
        /\ requested' = [requested EXCEPT ![f] = r]
    BY <1>1, <1>2
  <2> HIDE DEF g, k, r
  <2> QED BY <2>1, MappedStep
<1>6. k(m).events = {w \in g.events : \A u \in {v} : u < w.value}
  BY <1>1, <1>3, RemainingEvents
<1>7. ContractValue' = [ContractValue EXCEPT ![f] = v] /\ ContractQueued' = ContractQueued
  BY <1>3, <1>4, <1>5 DEF ContractQueued
<1>8. ContractWaiting' = [ContractWaiting EXCEPT ![f] =
          {w \in ContractWaiting[f] : \A u \in {v} : u < w.value}]
  BY <1>5, <1>6 DEF ContractWaiting
<1> QED BY <1>7, <1>8
        DEF Contract!Set, Contract!Remaining, ContractValue, ContractQueued, ContractQueue, ContractWaiting

\* The catch-up loop ends with the value of the last signal it handled.
LEMMA FinalValueIsLast ==
    ASSUME NEW g \in FenceRecord, NEW r \in Seq(Values), Kept(g, r),
           NEW t \in 1 .. Len(r)
    PROVE  FinalValues(g, t) = {IF g.timeline_value < t THEN r[t] ELSE g.value}
<1> DEFINE S(n) == [value |-> r[n], timeline_value |-> n]
           T == g.timeline_value
<1>1. T \in Nat /\ t \in Nat
  BY LenProperties DEF FenceRecord
<1>2. Due(g, t) = {S(n) : n \in T + 1 .. t}
  BY DueSignals
<1>3. CASE T < t
  <2>1. t \in T + 1 .. t /\ \A n \in T + 1 .. t : n <= t /\ (t <= n => n = t)
    BY <1>1, <1>3
  <2>2. \A n \in T + 1 .. t : S(n).timeline_value = n
    OBVIOUS
  <2>3. LastDue(g, t) = {S(t)}
    <3> HIDE DEF S
    <3> QED BY <1>2, <2>1, <2>2 DEF LastDue
  <2>4. Due(g, t) # {}
    <3> HIDE DEF S
    <3> QED BY <1>2, <2>1
  <2> QED BY <1>3, <2>3, <2>4 DEF FinalValues
<1>4. CASE ~(T < t)
  <2>1. T + 1 .. t = {}
    BY <1>1, <1>4
  <2> QED BY <1>2, <1>4, <2>1 DEF FinalValues
<1> QED BY <1>3, <1>4

LEMMA ContractTimeline ==
    ASSUME Inv, NEW f \in Fences,
           NEW t \in 1 .. fence[f].pending_timeline_value,
           SignalTimelineSemaphore(f, t)
    PROVE  \/ \E n \in 1 .. Len(ContractQueued[f]) : Contract!Complete(f, n)
           \/ UNCHANGED ContractVars
<1> DEFINE g == fence[f]
           r == requested[f]
           T == g.timeline_value
           due == Due(g, t)
           vals == {s.value : s \in due}
           h(v) == [g EXCEPT !.value = v,
                             !.timeline_value = IF @ < t THEN t ELSE @,
                             !.semaphores = @ \ due,
                             !.events = @ \ Ready(g, vals)]
           k(v, m) == [h(v) EXCEPT !.max_pending_value = m]
<1>1. /\ g \in FenceRecord /\ requested \in [Fences -> Seq(Values)]
      /\ r \in Seq(Values) /\ Kept(g, r)
  BY DEF Inv, TypeInv, FenceTypeOK, GoodFence
<1>2. /\ t \in 1 .. Len(r) /\ t \in Nat /\ T \in Nat
      /\ T <= Len(r) /\ Len(r) \in Nat
  BY <1>1, LenProperties DEF Kept, FenceRecord
<1>0. PICK v \in FinalValues(g, t) :
          \E m \in MaxPendingValues(h(v)) :
              /\ fence' = [fence EXCEPT ![f] = k(v, m)]
              /\ SignalExternalEvents(f, vals)
              /\ UNCHANGED <<requested, registered>>
  BY DEF SignalTimelineSemaphore
<1>3. PICK m \in MaxPendingValues(h(v)) :
          fence' = [fence EXCEPT ![f] = k(v, m)] /\ requested' = requested
  BY <1>0
<1>4. /\ k(v, m).value = v
      /\ k(v, m).timeline_value = (IF T < t THEN t ELSE T)
      /\ k(v, m).events = g.events \ Ready(g, vals)
  BY <1>1 DEF FenceRecord
<1>5. /\ ContractValue' = [ContractValue EXCEPT ![f] = k(v, m).value]
      /\ ContractQueued' = [ContractQueued EXCEPT ![f] = ContractQueue(k(v, m), r)]
      /\ ContractWaiting' = [ContractWaiting EXCEPT ![f] = k(v, m).events]
  <2>1. /\ fence' = [fence EXCEPT ![f] = k(v, m)]
        /\ requested' = [requested EXCEPT ![f] = r]
    BY <1>1, <1>3
  <2> HIDE DEF g, k, r
  <2> QED BY <2>1, MappedStep
<1>6. v = IF T < t THEN r[t] ELSE g.value
  BY <1>0, <1>1, <1>2, FinalValueIsLast
<1>7. vals = {r[n] : n \in T + 1 .. t}
  <2> DEFINE S(n) == [value |-> r[n], timeline_value |-> n]
  <2>1. due = {S(n) : n \in T + 1 .. t}
    BY <1>1, <1>2, DueSignals
  <2>2. \A n \in T + 1 .. t : S(n).value = r[n]
    OBVIOUS
  <2> HIDE DEF S, due
  <2> QED BY <2>1, <2>2
<1>8. CASE ~(T < t)
  <2>1. T + 1 .. t = {}
    BY <1>2, <1>8
  <2>2. vals = {}
    BY <1>7, <2>1
  <2>3. k(v, m).value = g.value /\ k(v, m).events = g.events
    BY <1>4, <1>6, <1>8, <2>2 DEF Ready
  <2>4. ContractQueue(k(v, m), r) = ContractQueue(g, r)
    BY <1>4, <1>8 DEF ContractQueue
  <2> HIDE DEF k
  <2> QED BY <1>5, <2>3, <2>4 DEF ContractVars, ContractValue, ContractQueued, ContractWaiting
<1>9. CASE T < t
  <2> DEFINE b == ContractQueue(g, r)
  <2>0. PICK n \in 1 .. Len(r) - T : T + n = t
    <3>1. t - T \in 1 .. Len(r) - T /\ T + (t - T) = t
      BY <1>2, <1>9
    <3> QED BY <3>1
  <2>1. n \in Nat /\ n \in 1 .. Len(r) - T /\ T + n = t
    BY <1>2, <2>0
  <2>2. /\ Len(b) = Len(r) - T /\ b \in Seq(Values)
        /\ \A j \in 1 .. Len(r) - T : b[j] = r[T + j]
    <3>1. LET c == SubSeq(r, T + 1, Len(r))
          IN  /\ Len(c) = Len(r) - T /\ c \in Seq(Values)
              /\ \A j \in 1 .. Len(r) - T : c[j] = r[T + j]
      <4> HIDE DEF r, T
      <4> QED BY <1>1, <1>2, SuffixProperties
    <3> QED BY <3>1 DEF ContractQueue
  <2>3. ContractQueued[f] = b
    BY DEF ContractQueued
  <2>4. k(v, m).value = b[n]
    BY <1>4, <1>6, <1>9, <2>1, <2>2
  <2>5. ContractQueue(k(v, m), r) = SubSeq(b, n + 1, Len(b))
    <3>1. k(v, m).timeline_value = T + n
      BY <1>4, <1>9, <2>1
    <3>2. LET c == SubSeq(r, T + 1, Len(r))
          IN  SubSeq(c, n + 1, Len(c)) = SubSeq(r, T + n + 1, Len(r))
      <4>1. T + n <= Len(r)
        BY <1>2, <2>1
      <4> HIDE DEF T, r
      <4> QED BY <1>1, <1>2, <2>1, <4>1, SuffixOfSuffix
    <3> HIDE DEF k
    <3> QED BY <3>1, <3>2 DEF ContractQueue
  <2>6. vals = {b[j] : j \in 1 .. n}
    <3>1. \A j \in 1 .. n : b[j] = r[T + j] /\ T + j \in T + 1 .. t
      <4> HIDE DEF b, r, T
      <4> QED BY <1>2, <2>1, <2>2
    <3>2. \A i \in T + 1 .. t : i - T \in 1 .. n /\ T + (i - T) = i
      BY <1>2, <2>1
    <3> HIDE DEF b, vals, g, r, T, due, h, k
    <3>3. ASSUME NEW i \in T + 1 .. t PROVE \E j \in 1 .. n : b[j] = r[i]
      BY <3>1, <3>2
    <3>4. ASSUME NEW j \in 1 .. n PROVE \E i \in T + 1 .. t : b[j] = r[i]
      BY <3>1
    <3>5. \A x : x \in vals <=> \E i \in T + 1 .. t : x = r[i]
      BY <1>7
    <3>6. \A x : x \in {b[j] : j \in 1 .. n} <=> \E j \in 1 .. n : x = b[j]
      OBVIOUS
    <3>7. ASSUME NEW x \in vals PROVE x \in {b[j] : j \in 1 .. n}
      <4>1. PICK i \in T + 1 .. t : x = r[i]
        BY <3>5
      <4> QED BY <3>3, <4>1
    <3>8. ASSUME NEW x \in {b[j] : j \in 1 .. n} PROVE x \in vals
      <4>1. PICK j \in 1 .. n : x = b[j]
        BY <3>6
      <4>2. PICK i \in T + 1 .. t : b[j] = r[i]
        BY <3>4
      <4> QED BY <3>5, <4>1, <4>2
    <3> QED BY <3>7, <3>8
  <2>7. vals \in SUBSET Values
    BY <1>1 DEF Due, FenceRecord, Signal
  <2>8. k(v, m).events = {w \in g.events : \A u \in {b[j] : j \in 1 .. n} : u < w.value}
    <3>1. g.events \ Ready(g, vals) = {w \in g.events : \A u \in vals : u < w.value}
      <4> HIDE DEF g, vals
      <4> QED BY <1>1, <2>7, RemainingEvents
    <3> HIDE DEF k, vals, b
    <3> QED BY <1>4, <2>6, <3>1
  <2>9. /\ ContractValue' = [ContractValue EXCEPT ![f] = ContractQueued[f][n]]
        /\ ContractQueued' = [ContractQueued EXCEPT ![f] = SubSeq(@, n + 1, Len(@))]
        /\ ContractWaiting' = [ContractWaiting EXCEPT ![f] =
               {w \in ContractWaiting[f] : \A u \in {ContractQueued[f][j] : j \in 1 .. n} : u < w.value}]
    <3>1. ContractWaiting[f] = g.events
      BY DEF ContractWaiting
    <3> HIDE DEF k, b
    <3> QED BY <1>5, <2>3, <2>4, <2>5, <2>8, <3>1
  <2>10. n \in 1 .. Len(ContractQueued[f])
    BY <2>1, <2>2, <2>3
  <2>11. Contract!Complete(f, n)
    BY <2>9 DEF Contract!Complete, Contract!Remaining,
       ContractValue, ContractQueued, ContractQueue, ContractWaiting
  <2> HIDE DEF g, r, T, due, vals, h, k, b
  <2> QED BY <2>10, <2>11
<1> QED BY <1>8, <1>9

LEMMA ContractStep == Inv /\ [FenceNext]_fenceVars => [Contract!Next]_ContractVars
<1> SUFFICES ASSUME Inv, [FenceNext]_fenceVars
             PROVE  Contract!Next \/ UNCHANGED ContractVars
  OBVIOUS
<1>1. CASE UNCHANGED fenceVars
  <2>1. ContractValue' = ContractValue /\ ContractWaiting' = ContractWaiting
    BY <1>1 DEF fenceVars, ContractValue, ContractWaiting
  <2>2. ContractQueued' = ContractQueued
    BY <1>1 DEF fenceVars, ContractQueued, ContractQueue
  <2> QED BY <2>1, <2>2 DEF ContractVars
<1>2. CASE FenceNext
  <2> PICK f \in Fences :
          \/ \E v \in Values : \/ AddPendingTimelineSignal(f, v)
                               \/ SignalCpuTimelineSemaphore(f, v)
                               \/ \E e \in Events : SetEventOnCompletion(f, e, v)
          \/ UpdatePendingValue(f)
          \/ \E t \in 1 .. fence[f].pending_timeline_value :
                 SignalTimelineSemaphore(f, t)
    BY <1>2 DEF FenceNext
  <2>1. CASE \E v \in Values : AddPendingTimelineSignal(f, v)
    BY <2>1, ContractAdd DEF Contract!Next
  <2>2. CASE \E v \in Values : SignalCpuTimelineSemaphore(f, v)
    BY <2>2, ContractCpu DEF Contract!Next
  <2>3. CASE \E v \in Values, e \in Events : SetEventOnCompletion(f, e, v)
    BY <2>3, ContractRegister DEF Contract!Next
  <2>4. CASE UpdatePendingValue(f)
    BY <2>4, ContractUpdate
  <2>5. CASE \E t \in 1 .. fence[f].pending_timeline_value :
                 SignalTimelineSemaphore(f, t)
    <3>1. \/ \E n \in 1 .. Len(ContractQueued[f]) : Contract!Complete(f, n)
          \/ UNCHANGED ContractVars
      BY <2>5, ContractTimeline
    <3> QED BY <3>1 DEF Contract!Next, ContractQueued, ContractQueue
  <2> QED BY <2>1, <2>2, <2>3, <2>4, <2>5
<1> QED BY <1>1, <1>2

\* A fence over a timeline semaphore behaves as the Direct3D 12 fence of the
\* contract, whatever the order and the delay of the workers' reports.
THEOREM FenceImplementsContract == FenceSpec => ImplementsContract
<1>1. Inv /\ [FenceNext]_fenceVars => [Contract!Next]_ContractVars
  BY ContractStep
<1>2. FenceInit => Contract!Init
  BY ContractInit
<1> QED BY <1>1, <1>2, InvAlways, PTL
        DEF FenceSpec, ImplementsContract, Contract!Spec, ContractVars,
            ContractValue, ContractQueued, ContractQueue, ContractWaiting
=============================================================================
