------------------------ MODULE DeviceObjects_proofs ------------------------
(***************************************************************************)
(* Proofs about MultiFenceEvent, for any number of fences, and about       *)
(* HeapLifetime, for any number of threads, heaps and resources.           *)
(*                                                                         *)
(* MultiFenceEventSound: who may still signal the event, of the counter's  *)
(* users, follows from where each share is.                                *)
(*                                                                         *)
(* HeapsOutliveResources: the inductive invariant HeapLifetimeInv says of  *)
(* each count what it is made of, the steps that the threads still have to *)
(* make included: a public count is its holders and the references on      *)
(* their way to one, an internal count its public count, its users and the *)
(* pending drops.                                                          *)
(***************************************************************************)
EXTENDS MultiFenceEvent, HeapLifetime, FiniteSetTheorems, FunctionTheorems, SequenceTheorems, TLAPS

----------------------------------------------------------------------------
(* Multi-fence events.                                                     *)
ShareSteps == {"none", "registered", "cancel", "exchange", "deliver", "drop", "last",
               "free", "done"}

MultiFenceTypeOK ==
    /\ any \in BOOLEAN /\ blocking \in BOOLEAN /\ busy \in BOOLEAN /\ event \in BOOLEAN
    /\ share \in [Shares -> ShareSteps] /\ reached \subseteq Shares
    /\ value \in Nat /\ event_signals \in Nat /\ semaphore_frees \in Nat
    /\ hr \in {"S_OK", "E_OUTOFMEMORY"}

\* A share on its way to the counter has seen its fence reach the value, or
\* has taken the event away.  Only the first of several shares takes the event.
SharesFit ==
    \A i \in Shares :
        /\ share[i] \in {"exchange", "deliver"} => any /\ i \in reached
        /\ share[i] \in {"drop", "last", "free", "done"} => i \in reached \/ ~event

\* Who has the right to signal the event: nobody as long as it can be taken,
\* unless the last share is signalling it; then the one who took it, and if
\* that was a failed registration, nobody ever.
Late == Cardinality(In({"free"})) + semaphore_frees

OneSignal ==
    /\ event => hr = "S_OK"
    /\ event_signals + Cardinality(In({"deliver"})) =
           (IF event THEN Late ELSE IF hr = "S_OK" THEN 1 ELSE 0)

MultiFenceInv == /\ MultiFenceTypeOK /\ SharesFit /\ OneSignal /\ FreedOnceByTheLast
                 /\ SignalledOnceWhenDue

-----------------------------------------------------------------------------
LEMMA SharesFinite == IsFiniteSet(Shares) /\ Cardinality(Shares) = FenceCount
BY FenceCountAssumption, FS_Interval DEF Shares

LEMMA InFinite ==
    ASSUME NEW A
    PROVE  /\ IsFiniteSet(In(A)) /\ Cardinality(In(A)) \in Nat
           /\ Cardinality(In(A)) <= FenceCount
           /\ Cardinality(In(A)) = FenceCount => In(A) = Shares
           /\ Cardinality(In(A)) = 0 => In(A) = {}
<1>1. In(A) \subseteq Shares
  BY DEF In
<1>2. IsFiniteSet(In(A)) /\ Cardinality(In(A)) <= Cardinality(Shares)
      /\ (Cardinality(Shares) = Cardinality(In(A)) => Shares = In(A))
  BY <1>1, SharesFinite, FS_Subset
<1> QED BY <1>2, SharesFinite, FS_CardinalityType, FS_EmptySet

\* One share moves: how the number of those at certain steps changes.
LEMMA ShareMoves ==
    ASSUME MultiFenceTypeOK, NEW i \in Shares, NEW step \in ShareSteps, Becomes(i, step),
           NEW A
    PROVE  Cardinality(In(A))' = Cardinality(In(A)) + (IF step \in A THEN 1 ELSE 0)
                                                    - (IF share[i] \in A THEN 1 ELSE 0)
<1> DEFINE rest == In(A) \ {i}
<1>1. /\ IsFiniteSet(In(A)) /\ Cardinality(In(A)) \in Nat
  BY InFinite
<1>2. share'[i] = step /\ \A j \in Shares \ {i} : share'[j] = share[j]
  BY DEF Becomes, MultiFenceTypeOK
<1>3. In(A)' = (IF step \in A THEN rest \cup {i} ELSE rest)
  BY <1>2 DEF In
<1>4. In(A) = (IF share[i] \in A THEN rest \cup {i} ELSE rest)
  BY DEF In
<1>5. IsFiniteSet(rest) /\ i \notin rest
  BY <1>1, FS_RemoveElement
<1> HIDE DEF rest
<1>6. /\ Cardinality(rest) \in Nat
      /\ Cardinality(rest \cup {i}) = Cardinality(rest) + 1
  BY <1>5, FS_AddElement, FS_CardinalityType
<1> QED BY <1>3, <1>4, <1>6

LEMMA MultiFenceInitInv == MultiFenceInit => MultiFenceInv
<1> SUFFICES ASSUME MultiFenceInit PROVE MultiFenceInv
  OBVIOUS
<1> USE DEF MultiFenceInit
<1>1. MultiFenceTypeOK
  BY FenceCountAssumption DEF MultiFenceTypeOK, ShareSteps
<1>2. \A i \in Shares : share[i] = "none"
  OBVIOUS
<1>3. In({"deliver"}) = {} /\ In({"free"}) = {} /\ Spent = {} /\ In({"last", "free"}) = {}
  BY <1>2 DEF In, Spent
<1>4. SharesFit
  BY <1>2 DEF SharesFit
<1>5. OneSignal /\ FreedOnceByTheLast /\ SignalledOnceWhenDue
  BY <1>3, FenceCountAssumption, FS_EmptySet
     DEF OneSignal, Late, FreedOnceByTheLast, SignalledOnceWhenDue
<1> QED BY <1>1, <1>4, <1>5 DEF MultiFenceInv

\* The counts of the shares as a step that moves one of them changes them.
LEMMA CountsMove ==
    ASSUME MultiFenceInv, NEW i \in Shares, NEW step \in ShareSteps, Becomes(i, step)
    PROVE  LET moves(A) == (IF step \in A THEN 1 ELSE 0) - (IF share[i] \in A THEN 1 ELSE 0)
           IN  /\ Cardinality(Spent)' = Cardinality(Spent) + moves({"last", "free", "done"})
               /\ Cardinality(In({"last", "free"}))'
                      = Cardinality(In({"last", "free"})) + moves({"last", "free"})
               /\ Cardinality(In({"free"}))' = Cardinality(In({"free"})) + moves({"free"})
               /\ Cardinality(In({"deliver"}))' = Cardinality(In({"deliver"}))
                                                      + moves({"deliver"})
BY ShareMoves DEF MultiFenceInv, Spent

\* As long as a share is not spent, the counter is not freed, nor about to be.
LEMMA NotSpentNotFreed ==
    ASSUME MultiFenceInv, NEW i \in Shares, share[i] \notin {"last", "free", "done"}
    PROVE  /\ value > 0 /\ semaphore_frees = 0
           /\ Cardinality(In({"last", "free"})) = 0 /\ Cardinality(In({"free"})) = 0
<1>1. i \notin Spent /\ Spent \subseteq Shares
  BY DEF Spent, In
<1>2. Cardinality(Spent) \in Nat /\ Cardinality(Spent) <= FenceCount
      /\ (Cardinality(Spent) = FenceCount => Spent = Shares)
  BY InFinite DEF Spent
<1>3. value > 0
  BY <1>1, <1>2, FenceCountAssumption DEF MultiFenceInv, FreedOnceByTheLast
<1>4. semaphore_frees = 0 /\ Cardinality(In({"last", "free"})) = 0
  BY <1>3, InFinite DEF MultiFenceInv, FreedOnceByTheLast, MultiFenceTypeOK
<1>5. In({"last", "free"}) = {}
  BY <1>4, InFinite
<1>6. In({"free"}) = {}
  BY <1>5 DEF In
<1> QED BY <1>3, <1>4, <1>6, FS_EmptySet

-----------------------------------------------------------------------------
(***************************************************************************)
(* Every step keeps the invariant.                                         *)
(***************************************************************************)

\* Steps of a share that neither spend it nor touch the event.
LEMMA ShareGoesOn ==
    ASSUME MultiFenceInv, NEW i \in Shares,
           NEW step \in {"registered", "cancel", "exchange", "drop"},
           share[i] \in {"none", "registered"}, Becomes(i, step),
           step = "exchange" => any,
           reached' = (IF step \in {"exchange", "drop"} THEN reached \cup {i} ELSE reached),
           busy' \in BOOLEAN,
           UNCHANGED <<any, blocking, event, value, event_signals, semaphore_frees, hr>>
    PROVE  MultiFenceInv'
<1> USE DEF MultiFenceInv
<1>1. MultiFenceTypeOK'
  BY DEF MultiFenceTypeOK, Becomes, ShareSteps
<1>2. /\ share'[i] = step /\ \A j \in Shares \ {i} : share'[j] = share[j]
      /\ reached \subseteq reached' /\ reached' \subseteq Shares
  BY DEF Becomes, MultiFenceTypeOK
<1>3. SharesFit'
  BY <1>2 DEF SharesFit
<1>4. /\ Cardinality(Spent)' = Cardinality(Spent)
      /\ Cardinality(In({"last", "free"}))' = Cardinality(In({"last", "free"}))
      /\ Cardinality(In({"free"}))' = Cardinality(In({"free"}))
      /\ Cardinality(In({"deliver"}))' = Cardinality(In({"deliver"}))
  <2>1. Cardinality(Spent) \in Nat /\ Cardinality(In({"last", "free"})) \in Nat
        /\ Cardinality(In({"free"})) \in Nat /\ Cardinality(In({"deliver"})) \in Nat
    BY InFinite DEF Spent
  <2> QED BY <2>1, CountsMove DEF ShareSteps
<1>5. OneSignal' /\ FreedOnceByTheLast'
  BY <1>4 DEF OneSignal, Late, FreedOnceByTheLast
<1>6. SignalledOnceWhenDue'
  BY <1>2, <1>4 DEF SignalledOnceWhenDue
<1> QED BY <1>1, <1>3, <1>5, <1>6

\* Steps of a share that is not spent yet: the event is taken, given up or
\* signalled, or nothing happens to it.
LEMMA EventStep ==
    ASSUME MultiFenceInv, NEW i \in Shares, Cancel(i) \/ Exchange(i) \/ Deliver(i)
    PROVE  MultiFenceInv'
<1> USE DEF MultiFenceInv
<1>1. PICK step \in {"deliver", "drop"} : Becomes(i, step)
  BY DEF Cancel, Exchange, Deliver
<1>2. share[i] \in {"cancel", "exchange", "deliver"}
  BY DEF Cancel, Exchange, Deliver
<1>3. /\ value > 0 /\ semaphore_frees = 0
      /\ Cardinality(In({"last", "free"})) = 0 /\ Cardinality(In({"free"})) = 0
  BY <1>2, NotSpentNotFreed
<1>4. MultiFenceTypeOK'
  <2>1. share' \in [Shares -> ShareSteps]
    BY <1>1 DEF MultiFenceTypeOK, Becomes, ShareSteps
  <2>2. hr' \in {"S_OK", "E_OUTOFMEMORY"} /\ event_signals' \in Nat
    BY DEF MultiFenceTypeOK, Cancel, Exchange, Deliver
  <2>3. event' = FALSE \/ event' = event
    BY DEF Cancel, Exchange, Deliver
  <2>4. UNCHANGED <<any, blocking, busy, reached, value, semaphore_frees>>
    BY DEF Cancel, Exchange, Deliver
  <2> QED BY <2>1, <2>2, <2>3, <2>4 DEF MultiFenceTypeOK
<1>5. /\ share'[i] = step /\ \A j \in Shares \ {i} : share'[j] = share[j]
      /\ UNCHANGED <<any, reached, value, semaphore_frees>>
  BY <1>1 DEF Becomes, MultiFenceTypeOK, Cancel, Exchange, Deliver
<1>6. SharesFit'
  BY <1>1, <1>2, <1>5 DEF SharesFit, Cancel, Exchange, Deliver, Becomes
<1>7. /\ Cardinality(Spent) \in Nat /\ Cardinality(In({"last", "free"})) \in Nat
      /\ Cardinality(In({"free"})) \in Nat /\ Cardinality(In({"deliver"})) \in Nat
  BY InFinite DEF Spent
<1>8. /\ Cardinality(Spent)' = Cardinality(Spent)
      /\ Cardinality(In({"last", "free"}))' = Cardinality(In({"last", "free"}))
      /\ Cardinality(In({"free"}))' = Cardinality(In({"free"}))
      /\ Cardinality(In({"deliver"}))' = Cardinality(In({"deliver"}))
             + (IF step = "deliver" THEN 1 ELSE 0) - (IF share[i] = "deliver" THEN 1 ELSE 0)
  <2>1. step \in ShareSteps
    BY <1>1 DEF ShareSteps
  <2> QED BY <1>1, <1>2, <1>7, <2>1, CountsMove
<1>9. FreedOnceByTheLast'
  BY <1>5, <1>8 DEF FreedOnceByTheLast
<1>10. Late' = 0 /\ Late = 0
  BY <1>3, <1>5, <1>8 DEF Late
<1>11. CASE Cancel(i)
  <2>1. /\ event' = FALSE /\ hr' = (IF event THEN "E_OUTOFMEMORY" ELSE hr)
        /\ share[i] = "cancel" /\ step = "drop" /\ event_signals' = event_signals
    BY <1>5, <1>11 DEF Cancel, Becomes, MultiFenceTypeOK
  <2>2. OneSignal'
    BY <1>7, <1>8, <1>10, <2>1 DEF OneSignal, MultiFenceTypeOK
  <2> QED BY <1>4, <1>5, <1>6, <1>7, <1>8, <1>9, <2>1, <2>2 DEF SignalledOnceWhenDue
<1>12. CASE Exchange(i)
  <2>1. /\ event' = FALSE /\ hr' = hr /\ event_signals' = event_signals
        /\ share[i] = "exchange" /\ step = (IF event THEN "deliver" ELSE "drop")
    BY <1>5, <1>12 DEF Exchange, Becomes, MultiFenceTypeOK
  <2>2. OneSignal'
    BY <1>7, <1>8, <1>10, <2>1 DEF OneSignal, MultiFenceTypeOK
  <2>3. SignalledOnceWhenDue'
    <3>1. any /\ reached # {}
      BY <2>1 DEF SharesFit
    <3>2. event_signals' + Cardinality(In({"deliver"}))' <= 1
      BY <1>10, <2>2 DEF OneSignal
    <3> QED BY <1>5, <3>1, <3>2 DEF SignalledOnceWhenDue
  <2> QED BY <1>4, <1>6, <1>9, <2>2, <2>3
<1>13. CASE Deliver(i)
  <2>1. /\ event' = event /\ hr' = hr /\ event_signals' = event_signals + 1
        /\ share[i] = "deliver" /\ step = "drop"
    BY <1>5, <1>13 DEF Deliver, Becomes, MultiFenceTypeOK
  <2>2. event_signals' + Cardinality(In({"deliver"}))'
            = event_signals + Cardinality(In({"deliver"}))
    BY <1>7, <1>8, <2>1 DEF MultiFenceTypeOK
  <2>3. OneSignal'
    BY <1>10, <2>1, <2>2 DEF OneSignal
  <2>4. SignalledOnceWhenDue'
    BY <1>5, <2>2 DEF SignalledOnceWhenDue
  <2> QED BY <1>4, <1>6, <1>9, <2>3, <2>4
<1> QED BY <1>11, <1>12, <1>13

\* The share is spent; the last one signals the event if it is still there.
LEMMA SpendStep ==
    ASSUME MultiFenceInv, NEW i \in Shares, Drop(i) \/ LastShare(i) \/ Free(i)
    PROVE  MultiFenceInv'
<1> USE DEF MultiFenceInv
<1>1. PICK step \in {"last", "free", "done"} : Becomes(i, step)
  BY DEF Drop, LastShare, Free
<1>2. share[i] \in {"drop", "last", "free"}
  BY DEF Drop, LastShare, Free
<1>3. /\ Cardinality(Spent) \in Nat /\ Cardinality(In({"last", "free"})) \in Nat
      /\ Cardinality(In({"free"})) \in Nat /\ Cardinality(In({"deliver"})) \in Nat
      /\ Cardinality(Spent) <= FenceCount
      /\ (Cardinality(Spent) = FenceCount => Spent = Shares)
  BY InFinite DEF Spent
<1>4. /\ Cardinality(Spent)' = Cardinality(Spent) + (IF share[i] = "drop" THEN 1 ELSE 0)
      /\ Cardinality(In({"last", "free"}))' = Cardinality(In({"last", "free"}))
             + (IF step = "done" THEN 0 ELSE 1) - (IF share[i] = "drop" THEN 0 ELSE 1)
      /\ Cardinality(In({"free"}))' = Cardinality(In({"free"}))
             + (IF step = "free" THEN 1 ELSE 0) - (IF share[i] = "free" THEN 1 ELSE 0)
      /\ Cardinality(In({"deliver"}))' = Cardinality(In({"deliver"}))
  <2>1. step \in ShareSteps
    BY <1>1 DEF ShareSteps
  <2> QED BY <1>1, <1>2, <1>3, <2>1, CountsMove
<1>5. /\ share'[i] = step /\ \A j \in Shares \ {i} : share'[j] = share[j]
      /\ UNCHANGED <<any, reached, event, hr>>
  BY <1>1 DEF Becomes, MultiFenceTypeOK, Drop, LastShare, Free
<1>6. share[i] = "drop" => value > 0
  BY NotSpentNotFreed
<1>7. MultiFenceTypeOK'
  BY <1>6 DEF MultiFenceTypeOK, Drop, LastShare, Free, Becomes, ShareSteps
<1>8. SharesFit'
  BY <1>1, <1>2, <1>5 DEF SharesFit
<1>9. CASE Drop(i)
  <2>1. /\ share[i] = "drop" /\ step = (IF value = 1 THEN "last" ELSE "done")
        /\ value' = value - 1 /\ UNCHANGED <<event_signals, semaphore_frees>>
    BY <1>5, <1>9 DEF Drop, Becomes, MultiFenceTypeOK
  <2>2. semaphore_frees = 0 /\ Cardinality(In({"last", "free"})) = 0
    BY <2>1, NotSpentNotFreed
  <2>3. FreedOnceByTheLast'
    BY <1>3, <1>4, <2>1, <2>2, FenceCountAssumption DEF FreedOnceByTheLast, MultiFenceTypeOK
  <2>4. Late' = Late
    BY <1>3, <1>4, <2>1 DEF Late, MultiFenceTypeOK
  <2>5. OneSignal'
    BY <1>4, <1>5, <2>1, <2>4 DEF OneSignal
  <2>6. SignalledOnceWhenDue'
    BY <1>4, <1>5, <2>1 DEF SignalledOnceWhenDue
  <2> QED BY <1>7, <1>8, <2>3, <2>5, <2>6
<1>10. CASE LastShare(i)
  <2>1. /\ share[i] = "last" /\ step = "free" /\ UNCHANGED <<value, semaphore_frees>>
        /\ event_signals' = (IF event THEN event_signals + 1 ELSE event_signals)
    BY <1>5, <1>10 DEF LastShare, Becomes, MultiFenceTypeOK
  <2>2. FreedOnceByTheLast'
    BY <1>3, <1>4, <2>1 DEF FreedOnceByTheLast, MultiFenceTypeOK
  <2>3. Late' = Late + 1
    BY <1>3, <1>4, <2>1 DEF Late, MultiFenceTypeOK
  <2>4. Late = 0 /\ value = 0
    <3>1. i \in In({"last", "free"}) /\ i \notin In({"free"})
      BY <2>1 DEF In
    <3>2. In({"free"}) \subseteq In({"last", "free"})
      BY DEF In
    <3>3. IsFiniteSet(In({"last", "free"}))
      BY InFinite
    <3>4. Cardinality(In({"free"})) < Cardinality(In({"last", "free"}))
      BY <1>3, <3>1, <3>2, <3>3, FS_Subset
    <3> QED BY <1>3, <3>4 DEF FreedOnceByTheLast, Late, MultiFenceTypeOK
  <2>5. OneSignal'
    BY <1>3, <1>4, <1>5, <2>1, <2>3, <2>4 DEF OneSignal, MultiFenceTypeOK
  <2>6. SignalledOnceWhenDue'
    <3>1. CASE ~event
      BY <1>4, <1>5, <2>1, <3>1 DEF SignalledOnceWhenDue
    <3>2. CASE event
      <4>1. Spent = Shares
        BY <1>3, <2>4, FenceCountAssumption DEF FreedOnceByTheLast
      <4>2. \A j \in Shares : j \in reached
        BY <3>2, <4>1 DEF SharesFit, Spent, In
      <4>3. reached = Shares /\ reached # {}
        BY <4>2 DEF MultiFenceTypeOK
      <4>4. event_signals' + Cardinality(In({"deliver"}))' <= 1
        BY <1>5, <2>3, <2>4, <2>5, <3>2 DEF OneSignal
      <4> QED BY <1>5, <4>3, <4>4 DEF SignalledOnceWhenDue
    <3> QED BY <3>1, <3>2
  <2> QED BY <1>7, <1>8, <2>2, <2>5, <2>6
<1>11. CASE Free(i)
  <2>1. /\ share[i] = "free" /\ step = "done" /\ UNCHANGED <<value, event_signals>>
        /\ semaphore_frees' = semaphore_frees + 1
    BY <1>5, <1>11 DEF Free, Becomes, MultiFenceTypeOK
  <2>2. FreedOnceByTheLast'
    BY <1>3, <1>4, <2>1 DEF FreedOnceByTheLast, MultiFenceTypeOK
  <2>3. Late' = Late
    BY <1>3, <1>4, <2>1 DEF Late, MultiFenceTypeOK
  <2>4. OneSignal'
    BY <1>4, <1>5, <2>1, <2>3 DEF OneSignal
  <2>5. SignalledOnceWhenDue'
    BY <1>4, <1>5, <2>1 DEF SignalledOnceWhenDue
  <2> QED BY <1>7, <1>8, <2>2, <2>4, <2>5
<1> QED BY <1>9, <1>10, <1>11

\* Nothing happens to the shares or to what they spend.
LEMMA OtherStep ==
    ASSUME MultiFenceInv, busy' \in BOOLEAN,
           UNCHANGED <<any, blocking, share, reached, event, value, event_signals,
                       semaphore_frees, hr>>
    PROVE  MultiFenceInv'
BY DEF MultiFenceInv, MultiFenceTypeOK, SharesFit, OneSignal, Late, FreedOnceByTheLast,
   SignalledOnceWhenDue, Spent, In

LEMMA MultiFenceInvStep == MultiFenceInv /\ [MultiFenceNext]_multiFenceVars => MultiFenceInv'
<1> SUFFICES ASSUME MultiFenceInv, [MultiFenceNext]_multiFenceVars PROVE MultiFenceInv'
  OBVIOUS
<1>1. MultiFenceTypeOK
  BY DEF MultiFenceInv
<1>2. ASSUME NEW i \in Shares,
             AlreadyReached(i) \/ Register(i) \/ RegistrationFails(i) \/ FenceReaches(i)
      PROVE  MultiFenceInv'
  <2>1. share[i] \in {"none", "registered"} /\ busy' \in BOOLEAN
    BY <1>1, <1>2 DEF MultiFenceTypeOK, AlreadyReached, Register, RegistrationFails,
       FenceReaches, AtFence
  <2>2. UNCHANGED <<any, blocking, event, value, event_signals, semaphore_frees, hr>>
    BY <1>2 DEF AlreadyReached, Register, RegistrationFails, FenceReaches
  <2>3. CASE AlreadyReached(i) \/ FenceReaches(i)
    <3>1. PICK step \in {"exchange", "drop"} : Becomes(i, step) /\ (step = "exchange" => any)
      BY <2>3 DEF AlreadyReached, FenceReaches, Signal
    <3>2. reached' = reached \cup {i}
      BY <2>3 DEF AlreadyReached, FenceReaches, Signal
    <3> QED BY <2>1, <2>2, <3>1, <3>2, ShareGoesOn
  <2>4. CASE Register(i) \/ RegistrationFails(i)
    <3>1. PICK step \in {"registered", "cancel"} : Becomes(i, step)
      BY <2>4 DEF Register, RegistrationFails
    <3>2. reached' = reached
      BY <2>4 DEF Register, RegistrationFails
    <3> QED BY <2>1, <2>2, <3>1, <3>2, ShareGoesOn
  <2> QED BY <1>2, <2>3, <2>4
<1>3. ASSUME NEW i \in Shares, NextFence(i) PROVE MultiFenceInv'
  BY <1>3, OtherStep DEF NextFence
<1>4. CASE ReturnToCaller \/ UNCHANGED multiFenceVars
  BY <1>1, <1>4, OtherStep DEF ReturnToCaller, multiFenceVars, MultiFenceTypeOK
<1> QED BY <1>2, <1>3, <1>4, EventStep, SpendStep DEF MultiFenceNext

\* The invariant says in particular what the call returns.
LEMMA CallerIsTold == MultiFenceInv => ToldOfFailure
<1> SUFFICES ASSUME MultiFenceInv PROVE ToldOfFailure
  OBVIOUS
<1> USE DEF MultiFenceInv
<1>1. /\ Cardinality(Spent) \in Nat /\ Cardinality(In({"last", "free"})) \in Nat
      /\ Cardinality(In({"free"})) \in Nat /\ Cardinality(In({"deliver"})) \in Nat
      /\ (Cardinality(Spent) = FenceCount => Spent = Shares)
  BY InFinite DEF Spent
<1>2. hr # "S_OK" => event_signals + Cardinality(In({"deliver"})) = 0 /\ ~event
  BY DEF OneSignal, MultiFenceTypeOK
<1>3. ASSUME semaphore_frees = 1 PROVE (hr = "S_OK") = (event_signals = 1)
  <2>1. value = 0 /\ Cardinality(In({"last", "free"})) = 0
    BY <1>1, <1>3 DEF FreedOnceByTheLast
  <2>2. Spent = Shares
    BY <1>1, <2>1, FenceCountAssumption DEF FreedOnceByTheLast
  <2>3. In({"last", "free"}) = {}
    BY <2>1, InFinite
  <2>4. In({"deliver"}) = {} /\ In({"free"}) = {}
    BY <2>2, <2>3 DEF Spent, In
  <2>5. Cardinality(In({"deliver"})) = 0 /\ Cardinality(In({"free"})) = 0
    BY <2>4, FS_EmptySet
  <2>6. event_signals = (IF event THEN 1 ELSE IF hr = "S_OK" THEN 1 ELSE 0)
    BY <1>1, <1>3, <2>5 DEF OneSignal, Late, MultiFenceTypeOK
  <2> QED BY <2>6 DEF OneSignal
<1> QED BY <1>2, <1>3 DEF ToldOfFailure

\* However the threads that signal the fences, the caller and failing
\* registrations interleave, and for any number of fences: the counter is
\* freed once and by its last user, the event is signalled at most once and
\* only when due, and the call fails exactly when it is never signalled.
THEOREM MultiFenceEventCorrect == MultiFenceSpec => []MultiFenceEventSound
<1>1. MultiFenceInv => MultiFenceEventSound
  BY CallerIsTold DEF MultiFenceInv, MultiFenceEventSound
<1> QED BY <1>1, MultiFenceInitInv, MultiFenceInvStep, PTL DEF MultiFenceSpec

----------------------------------------------------------------------------
\* The calls that are under way.  A step that lets go of a heap comes before
\* one that changes the resource, and that before what ends the call.
Elements(s) == {s[n] : n \in DOMAIN s}
Due(t) == Elements(todo[t])

HeapSteps == ({"heap_incref", "heap_decref"} \X Heaps)
             \cup ({"incref", "decref", "free", "private_decref", "device_add_ref"} \X Resources)
             \cup ({"device_release", "return"} \X Shared)
             \cup ({"hand"} \X HeapThreads \X Shared)

Rank(step) ==
    IF step[1] \in {"return", "hand"} \/ (step[1] = "device_release" /\ step[2] \in Resources) THEN 3
    ELSE IF step[1] \in {"incref", "decref", "free"} THEN 2 ELSE 1

Rising(s) == \A i, j \in DOMAIN s : i < j => Rank(s[i]) < Rank(s[j])

TodoOK ==
    /\ todo \in [HeapThreads -> Seq(HeapSteps)]
    /\ \A t \in HeapThreads : Rising(todo[t])

\* The objects that a step of this kind is due for.
Objects(S, op) == {o \in Shared : <<op, o>> \in S}
Handed(S) == {x \in HeapThreads \X Shared : <<"hand", x[1], x[2]>> \in S}

Returns(t) == Objects(Due(t), "return")
Hands(t) == Handed(Due(t))
Increments(t) == Objects(Due(t), "heap_incref") \cup Objects(Due(t), "incref")
Drops(t) == Objects(Due(t), "heap_decref") \cup Objects(Due(t), "decref")
Frees(t) == Objects(Due(t), "free")
PrivateDrops(t) == Objects(Due(t), "private_decref")
DeviceAdds(t) == Objects(Due(t), "device_add_ref")
DeviceReleases(t) == Objects(Due(t), "device_release")

LEMMA RankRange == \A step : Rank(step) \in 1 .. 3
BY DEF Rank

LEMMA RestDue ==
    ASSUME NEW s \in Seq(HeapSteps), s # <<>>, Rising(s)
    PROVE  /\ Tail(s) \in Seq(HeapSteps) /\ Rising(Tail(s)) /\ Head(s) \in Elements(s)
           /\ Elements(Tail(s)) = Elements(s) \ {Head(s)}
           /\ \A x \in Elements(Tail(s)) : Rank(Head(s)) < Rank(x)
<1>1. /\ Tail(s) \in Seq(HeapSteps) /\ Len(s) \in Nat /\ Len(s) > 0
      /\ Len(Tail(s)) = Len(s) - 1 /\ Head(s) = s[1]
      /\ \A n \in 1 .. Len(Tail(s)) : Tail(s)[n] = s[n + 1]
  BY HeadTailProperties, LenProperties, EmptySeq
<1>2. DOMAIN s = 1 .. Len(s) /\ DOMAIN Tail(s) = 1 .. Len(s) - 1
  BY <1>1, LenProperties
<1>3. Rising(Tail(s))
  <2> SUFFICES ASSUME NEW i \in DOMAIN Tail(s), NEW j \in DOMAIN Tail(s), i < j
               PROVE  Rank(Tail(s)[i]) < Rank(Tail(s)[j])
    BY DEF Rising
  <2>1. i + 1 \in DOMAIN s /\ j + 1 \in DOMAIN s /\ i + 1 < j + 1
    BY <1>1, <1>2
  <2>2. Rank(s[i + 1]) < Rank(s[j + 1])
    BY <2>1 DEF Rising
  <2> QED BY <2>2, <1>1, <1>2
<1>4. \A n \in 2 .. Len(s) : Rank(s[1]) < Rank(s[n])
  <2> TAKE n \in 2 .. Len(s)
  <2>1. 1 \in DOMAIN s /\ n \in DOMAIN s /\ 1 < n
    BY <1>1, <1>2
  <2> QED BY <2>1 DEF Rising
<1>5. Elements(Tail(s)) = {s[n] : n \in 2 .. Len(s)}
  <2>1. \A x \in Elements(Tail(s)) : x \in {s[n] : n \in 2 .. Len(s)}
    <3> SUFFICES ASSUME NEW i \in 1 .. Len(s) - 1
                 PROVE  Tail(s)[i] \in {s[n] : n \in 2 .. Len(s)}
      BY <1>2 DEF Elements
    <3>1. i + 1 \in 2 .. Len(s)
      BY <1>1
    <3> QED BY <3>1, <1>1
  <2>2. \A n \in 2 .. Len(s) : s[n] \in Elements(Tail(s))
    <3> TAKE n \in 2 .. Len(s)
    <3>1. n - 1 \in 1 .. Len(s) - 1 /\ (n - 1) + 1 = n
      BY <1>1
    <3>2. Tail(s)[n - 1] = s[n]
      BY <3>1, <1>1
    <3> QED BY <3>1, <3>2, <1>2 DEF Elements
  <2> QED BY <2>1, <2>2
<1>6. Elements(s) = {s[1]} \cup {s[n] : n \in 2 .. Len(s)}
  <2>1. 1 .. Len(s) = {1} \cup 2 .. Len(s)
    BY <1>1
  <2> QED BY <2>1, <1>2 DEF Elements
<1>7. s[1] \notin {s[n] : n \in 2 .. Len(s)}
  <2> SUFFICES ASSUME NEW n \in 2 .. Len(s), s[n] = s[1] PROVE FALSE
    OBVIOUS
  <2>1. Rank(s[1]) < Rank(s[1])
    BY <1>4
  <2> QED BY <2>1, RankRange
<1> QED BY <1>1, <1>3, <1>4, <1>5, <1>6, <1>7

LEMMA PutBefore ==
    ASSUME NEW p \in Seq(HeapSteps), NEW s \in Seq(HeapSteps), Rising(p), Rising(s),
           \A x \in Elements(p), y \in Elements(s) : Rank(x) < Rank(y)
    PROVE  /\ p \o s \in Seq(HeapSteps) /\ Rising(p \o s)
           /\ Elements(p \o s) = Elements(p) \cup Elements(s)
<1> PICK c : c = p \o s
  OBVIOUS
<1>1. /\ c \in Seq(HeapSteps) /\ Len(c) = Len(p) + Len(s)
      /\ \A n \in 1 .. Len(c) : c[n] = IF n <= Len(p) THEN p[n] ELSE s[n - Len(p)]
  BY ConcatProperties
<1>2. /\ Len(p) \in Nat /\ Len(s) \in Nat
      /\ DOMAIN p = 1 .. Len(p) /\ DOMAIN s = 1 .. Len(s) /\ DOMAIN c = 1 .. Len(p) + Len(s)
  BY <1>1, LenProperties
<1>3. \A n \in 1 .. Len(p) : n \in DOMAIN c /\ c[n] = p[n]
  BY <1>1, <1>2
<1>4. \A n \in 1 .. Len(s) : Len(p) + n \in DOMAIN c /\ c[Len(p) + n] = s[n]
  <2> TAKE n \in 1 .. Len(s)
  <2>1. Len(p) + n \in 1 .. Len(c) /\ ~ Len(p) + n <= Len(p) /\ (Len(p) + n) - Len(p) = n
    BY <1>1, <1>2
  <2> QED BY <2>1, <1>1, <1>2
<1>5. \A n \in DOMAIN c : \/ n \in DOMAIN p /\ c[n] = p[n]
                          \/ n > Len(p) /\ n - Len(p) \in DOMAIN s /\ c[n] = s[n - Len(p)]
  BY <1>1, <1>2
<1>6. Elements(c) = Elements(p) \cup Elements(s)
  <2>1. \A x \in Elements(c) : x \in Elements(p) \cup Elements(s)
    BY <1>5 DEF Elements
  <2>2. \A x \in Elements(p) : x \in Elements(c)
    BY <1>2, <1>3 DEF Elements
  <2>3. \A x \in Elements(s) : x \in Elements(c)
    BY <1>2, <1>4 DEF Elements
  <2> QED BY <2>1, <2>2, <2>3
<1>7. Rising(c)
  <2> SUFFICES ASSUME NEW i \in DOMAIN c, NEW j \in DOMAIN c, i < j
               PROVE  Rank(c[i]) < Rank(c[j])
    BY DEF Rising
  <2>1. CASE j \in DOMAIN p /\ c[j] = p[j]
    <3>1. i \in DOMAIN p /\ c[i] = p[i]
      BY <2>1, <1>2, <1>3
    <3> QED BY <2>1, <3>1 DEF Rising
  <2>2. CASE j > Len(p) /\ j - Len(p) \in DOMAIN s /\ c[j] = s[j - Len(p)]
    <3>1. CASE i \in DOMAIN p /\ c[i] = p[i]
      BY <2>2, <3>1 DEF Elements
    <3>2. CASE i > Len(p) /\ i - Len(p) \in DOMAIN s /\ c[i] = s[i - Len(p)]
      <4>1. i - Len(p) < j - Len(p)
        BY <1>2
      <4> QED BY <4>1, <2>2, <3>2 DEF Rising
    <3> QED BY <3>1, <3>2, <1>5
  <2> QED BY <2>1, <2>2, <1>5
<1> QED BY <1>1, <1>6, <1>7

LEMMA FewSteps ==
    /\ <<>> \in Seq(HeapSteps) /\ Rising(<<>>) /\ Elements(<<>>) = {}
    /\ \A a \in HeapSteps : <<a>> \in Seq(HeapSteps) /\ Rising(<<a>>) /\ Elements(<<a>>) = {a}
    /\ \A a, b \in HeapSteps :
           /\ <<a, b>> \in Seq(HeapSteps) /\ Elements(<<a, b>>) = {a, b}
           /\ Rank(a) < Rank(b) => Rising(<<a, b>>)
    /\ \A a, b, c \in HeapSteps :
           /\ <<a, b, c>> \in Seq(HeapSteps) /\ Elements(<<a, b, c>>) = {a, b, c}
           /\ Rank(a) < Rank(b) /\ Rank(b) < Rank(c) => Rising(<<a, b, c>>)
<1>1. <<>> \in Seq(HeapSteps) /\ Rising(<<>>) /\ Elements(<<>>) = {}
  BY DEF Rising, Elements
<1>2. ASSUME NEW a \in HeapSteps
      PROVE  <<a>> \in Seq(HeapSteps) /\ Rising(<<a>>) /\ Elements(<<a>>) = {a}
  <2>1. DOMAIN <<a>> = {1} /\ <<a>>[1] = a
    OBVIOUS
  <2> QED BY <2>1 DEF Rising, Elements
<1>3. ASSUME NEW a \in HeapSteps, NEW b \in HeapSteps
      PROVE  /\ <<a, b>> \in Seq(HeapSteps) /\ Elements(<<a, b>>) = {a, b}
             /\ Rank(a) < Rank(b) => Rising(<<a, b>>)
  <2> PICK s : s = <<a, b>>
    OBVIOUS
  <2>1. DOMAIN s = {1, 2} /\ s[1] = a /\ s[2] = b
    OBVIOUS
  <2>2. Elements(s) = {a, b}
    BY <2>1 DEF Elements
  <2>3. ASSUME Rank(a) < Rank(b) PROVE Rising(s)
    BY <2>1, <2>3 DEF Rising
  <2> QED BY <2>2, <2>3
<1>4. ASSUME NEW a \in HeapSteps, NEW b \in HeapSteps, NEW c \in HeapSteps
      PROVE  /\ <<a, b, c>> \in Seq(HeapSteps) /\ Elements(<<a, b, c>>) = {a, b, c}
             /\ Rank(a) < Rank(b) /\ Rank(b) < Rank(c) => Rising(<<a, b, c>>)
  <2> PICK s : s = <<a, b, c>>
    OBVIOUS
  <2>1. DOMAIN s = {1, 2, 3} /\ s[1] = a /\ s[2] = b /\ s[3] = c
    OBVIOUS
  <2>2. Elements(s) = {a, b, c}
    BY <2>1 DEF Elements
  <2>3. ASSUME Rank(a) < Rank(b), Rank(b) < Rank(c) PROVE Rising(s)
    <3>1. Rank(a) < Rank(c)
      BY <2>3, RankRange
    <3> QED BY <2>1, <2>3, <3>1 DEF Rising
  <2> QED BY <2>2, <2>3
<1> QED BY <1>1, <1>2, <1>3, <1>4

----------------------------------------------------------------------------
\* What the steps that are due are about.
DoingIn(S, returns, hands, increments, drops, frees, privateDrops, adds, releases) ==
    /\ Objects(S, "return") = returns /\ Handed(S) = hands
    /\ Objects(S, "heap_incref") \cup Objects(S, "incref") = increments
    /\ Objects(S, "heap_decref") \cup Objects(S, "decref") = drops
    /\ Objects(S, "free") = frees /\ Objects(S, "private_decref") = privateDrops
    /\ Objects(S, "device_add_ref") = adds /\ Objects(S, "device_release") = releases

Doing(t, returns, hands, increments, drops, frees, privateDrops, adds, releases) ==
    DoingIn(Due(t), returns, hands, increments, drops, frees, privateDrops, adds, releases)

LEMMA OneStepDue ==
    ASSUME NEW op \in {"heap_incref", "heap_decref", "incref", "decref", "free", "private_decref",
                       "device_add_ref", "device_release", "return"},
           NEW o \in Shared
    PROVE  /\ Objects({<<op, o>>}, op) = {o}
           /\ \A other : other # op => Objects({<<op, o>>}, other) = {}
           /\ Handed({<<op, o>>}) = {}
<1>1. \A other, x : <<other, x>> = <<op, o>> <=> other = op /\ x = o
  OBVIOUS
<1>2. \A u, x : <<"hand", u, x>> # <<op, o>>
  <2> SUFFICES ASSUME NEW u, NEW x, <<"hand", u, x>> = <<op, o>> PROVE FALSE
    OBVIOUS
  <2>1. <<"hand", u, x>>[1] = "hand" /\ <<op, o>>[1] = op
    OBVIOUS
  <2> QED BY <2>1
<1> QED BY <1>1, <1>2 DEF Objects, Handed

LEMMA OneHandDue ==
    ASSUME NEW u \in HeapThreads, NEW o \in Shared
    PROVE  /\ \A op : Objects({<<"hand", u, o>>}, op) = {} \/ op = "hand"
           /\ Handed({<<"hand", u, o>>}) = {<<u, o>>}
<1>1. \A op, x : <<op, x>> = <<"hand", u, o>> => op = "hand"
  <2> SUFFICES ASSUME NEW op, NEW x, <<op, x>> = <<"hand", u, o>> PROVE op = "hand"
    OBVIOUS
  <2>1. <<op, x>>[1] = op /\ <<"hand", u, o>>[1] = "hand"
    OBVIOUS
  <2> QED BY <2>1
<1>2. \A v, x : <<"hand", v, x>> = <<"hand", u, o>> <=> v = u /\ x = o
  OBVIOUS
<1>3. Handed({<<"hand", u, o>>}) = {x \in HeapThreads \X Shared : x[1] = u /\ x[2] = o}
  BY <1>2 DEF Handed
<1>4. ASSUME NEW x \in HeapThreads \X Shared, x[1] = u, x[2] = o PROVE x = <<u, o>>
  BY <1>4
<1>5. <<u, o>> \in HeapThreads \X Shared /\ <<u, o>>[1] = u /\ <<u, o>>[2] = o
  OBVIOUS
<1>6. {x \in HeapThreads \X Shared : x[1] = u /\ x[2] = o} = {<<u, o>>}
  BY <1>4, <1>5
<1> QED BY <1>1, <1>3, <1>6 DEF Objects

LEMMA UnionHanded ==
    ASSUME NEW S, NEW T
    PROVE  Handed(S \cup T) = Handed(S) \cup Handed(T) /\ Handed(S \ T) = Handed(S) \ Handed(T)
BY DEF Handed

LEMMA NothingDue == DoingIn({}, {}, {}, {}, {}, {}, {}, {}, {})
BY DEF DoingIn, Objects, Handed

LEMMA DueAlone ==
    ASSUME NEW o \in Shared, NEW u \in HeapThreads
    PROVE  /\ DoingIn({<<"return", o>>}, {o}, {}, {}, {}, {}, {}, {}, {})
           /\ DoingIn({<<"hand", u, o>>}, {}, {<<u, o>>}, {}, {}, {}, {}, {}, {})
           /\ DoingIn({<<"heap_incref", o>>}, {}, {}, {o}, {}, {}, {}, {}, {})
           /\ DoingIn({<<"incref", o>>}, {}, {}, {o}, {}, {}, {}, {}, {})
           /\ DoingIn({<<"heap_decref", o>>}, {}, {}, {}, {o}, {}, {}, {}, {})
           /\ DoingIn({<<"decref", o>>}, {}, {}, {}, {o}, {}, {}, {}, {})
           /\ DoingIn({<<"free", o>>}, {}, {}, {}, {}, {o}, {}, {}, {})
           /\ DoingIn({<<"private_decref", o>>}, {}, {}, {}, {}, {}, {o}, {}, {})
           /\ DoingIn({<<"device_add_ref", o>>}, {}, {}, {}, {}, {}, {}, {o}, {})
           /\ DoingIn({<<"device_release", o>>}, {}, {}, {}, {}, {}, {}, {}, {o})
<1> USE DEF DoingIn
<1>1. DoingIn({<<"return", o>>}, {o}, {}, {}, {}, {}, {}, {}, {})
  BY OneStepDue
<1>2. DoingIn({<<"hand", u, o>>}, {}, {<<u, o>>}, {}, {}, {}, {}, {}, {})
  BY OneHandDue
<1>3. DoingIn({<<"heap_incref", o>>}, {}, {}, {o}, {}, {}, {}, {}, {})
  BY OneStepDue
<1>4. DoingIn({<<"incref", o>>}, {}, {}, {o}, {}, {}, {}, {}, {})
  BY OneStepDue
<1>5. DoingIn({<<"heap_decref", o>>}, {}, {}, {}, {o}, {}, {}, {}, {})
  BY OneStepDue
<1>6. DoingIn({<<"decref", o>>}, {}, {}, {}, {o}, {}, {}, {}, {})
  BY OneStepDue
<1>7. DoingIn({<<"free", o>>}, {}, {}, {}, {}, {o}, {}, {}, {})
  BY OneStepDue
<1>8. DoingIn({<<"private_decref", o>>}, {}, {}, {}, {}, {}, {o}, {}, {})
  BY OneStepDue
<1>9. DoingIn({<<"device_add_ref", o>>}, {}, {}, {}, {}, {}, {}, {o}, {})
  BY OneStepDue
<1>10. DoingIn({<<"device_release", o>>}, {}, {}, {}, {}, {}, {}, {}, {o})
  BY OneStepDue
<1> QED BY <1>1, <1>2, <1>3, <1>4, <1>5, <1>6, <1>7, <1>8, <1>9, <1>10

LEMMA DueTogether ==
    ASSUME NEW S, NEW T, NEW a1, NEW b1, NEW c1, NEW d1, NEW e1, NEW f1, NEW g1, NEW h1,
           NEW a2, NEW b2, NEW c2, NEW d2, NEW e2, NEW f2, NEW g2, NEW h2,
           DoingIn(S, a1, b1, c1, d1, e1, f1, g1, h1), DoingIn(T, a2, b2, c2, d2, e2, f2, g2, h2)
    PROVE  DoingIn(S \cup T, a1 \cup a2, b1 \cup b2, c1 \cup c2, d1 \cup d2, e1 \cup e2,
                   f1 \cup f2, g1 \cup g2, h1 \cup h2)
<1>1. \A op : Objects(S \cup T, op) = Objects(S, op) \cup Objects(T, op)
  BY DEF Objects
<1>2. /\ Objects(S \cup T, "heap_incref") \cup Objects(S \cup T, "incref") = c1 \cup c2
      /\ Objects(S \cup T, "heap_decref") \cup Objects(S \cup T, "decref") = d1 \cup d2
  BY <1>1, Zenon DEF DoingIn
<1>3. /\ Objects(S \cup T, "return") = a1 \cup a2
      /\ Objects(S \cup T, "free") = e1 \cup e2 /\ Objects(S \cup T, "private_decref") = f1 \cup f2
      /\ Objects(S \cup T, "device_add_ref") = g1 \cup g2
      /\ Objects(S \cup T, "device_release") = h1 \cup h2
  BY <1>1 DEF DoingIn
<1>4. Handed(S \cup T) = b1 \cup b2
  BY UnionHanded DEF DoingIn
<1> QED BY <1>2, <1>3, <1>4, Zenon DEF DoingIn

\* Of each object, only one of the two steps of either kind can be due.
LEMMA DueOfKind ==
    ASSUME NEW S, S \subseteq HeapSteps, NEW o
    PROVE  /\ <<"heap_incref", o>> \in S \/ <<"heap_decref", o>> \in S => o \in Heaps
           /\ (\E op \in {"incref", "decref", "free", "private_decref", "device_add_ref"} :
                 <<op, o>> \in S) => o \in Resources
<1>1. ASSUME NEW op, <<op, o>> \in HeapSteps, op \in {"heap_incref", "heap_decref"}
      PROVE  o \in Heaps
  BY <1>1 DEF HeapSteps
<1>2. ASSUME NEW op, <<op, o>> \in HeapSteps,
             op \in {"incref", "decref", "free", "private_decref", "device_add_ref"}
      PROVE  o \in Resources
  BY <1>2 DEF HeapSteps
<1> QED BY <1>1, <1>2

LEMMA DueTaken ==
    ASSUME NEW S, S \subseteq HeapSteps, NEW o \in Shared,
           NEW a, NEW b, NEW c, NEW d, NEW e, NEW f, NEW g, NEW h,
           DoingIn(S, a, b, c, d, e, f, g, h)
    PROVE  /\ <<"heap_incref", o>> \in S =>
                  DoingIn(S \ {<<"heap_incref", o>>}, a, b, c \ {o}, d, e, f, g, h)
           /\ <<"incref", o>> \in S =>
                  DoingIn(S \ {<<"incref", o>>}, a, b, c \ {o}, d, e, f, g, h)
           /\ <<"heap_decref", o>> \in S =>
                  DoingIn(S \ {<<"heap_decref", o>>}, a, b, c, d \ {o}, e, f, g, h)
           /\ <<"decref", o>> \in S =>
                  DoingIn(S \ {<<"decref", o>>}, a, b, c, d \ {o}, e, f, g, h)
           /\ DoingIn(S \ {<<"free", o>>}, a, b, c, d, e \ {o}, f, g, h)
           /\ DoingIn(S \ {<<"private_decref", o>>}, a, b, c, d, e, f \ {o}, g, h)
           /\ DoingIn(S \ {<<"device_add_ref", o>>}, a, b, c, d, e, f, g \ {o}, h)
           /\ DoingIn(S \ {<<"device_release", o>>}, a, b, c, d, e, f, g, h \ {o})
<1>1. \A op \in {"heap_incref", "heap_decref", "incref", "decref", "free", "private_decref",
                 "device_add_ref", "device_release", "return"} :
          /\ Objects(S \ {<<op, o>>}, op) = Objects(S, op) \ {o}
          /\ \A other : other # op => Objects(S \ {<<op, o>>}, other) = Objects(S, other)
          /\ Handed(S \ {<<op, o>>}) = Handed(S)
  <2> TAKE op \in {"heap_incref", "heap_decref", "incref", "decref", "free", "private_decref",
                   "device_add_ref", "device_release", "return"}
  <2> PICK T : T = {<<op, o>>}
    OBVIOUS
  <2>1. Objects(T, op) = {o} /\ (\A other : other # op => Objects(T, other) = {}) /\ Handed(T) = {}
    BY OneStepDue
  <2>2. /\ \A other : Objects(S \ T, other) = Objects(S, other) \ Objects(T, other)
        /\ Handed(S \ T) = Handed(S) \ Handed(T)
    BY DEF Objects, Handed
  <2>3. ASSUME NEW other, other # op PROVE Objects(S \ T, other) = Objects(S, other)
    <3>1. Objects(T, other) = {} /\ Objects(S \ T, other) = Objects(S, other) \ Objects(T, other)
      BY <2>1, <2>2, <2>3
    <3> QED BY <3>1
  <2> QED BY <2>1, <2>2, <2>3
<1>2. Heaps \cap Resources = {}
  BY HeapLifetimeAssumption
<1>3. /\ <<"heap_incref", o>> \in S => o \notin Objects(S, "incref")
      /\ <<"incref", o>> \in S => o \notin Objects(S, "heap_incref")
      /\ <<"heap_decref", o>> \in S => o \notin Objects(S, "decref")
      /\ <<"decref", o>> \in S => o \notin Objects(S, "heap_decref")
  BY <1>2, DueOfKind DEF Objects
<1> USE DEF DoingIn
<1>4. /\ DoingIn(S \ {<<"free", o>>}, a, b, c, d, e \ {o}, f, g, h)
      /\ DoingIn(S \ {<<"private_decref", o>>}, a, b, c, d, e, f \ {o}, g, h)
      /\ DoingIn(S \ {<<"device_add_ref", o>>}, a, b, c, d, e, f, g \ {o}, h)
      /\ DoingIn(S \ {<<"device_release", o>>}, a, b, c, d, e, f, g, h \ {o})
  BY <1>1
<1>5. ASSUME <<"heap_incref", o>> \in S
      PROVE  DoingIn(S \ {<<"heap_incref", o>>}, a, b, c \ {o}, d, e, f, g, h)
  <2> PICK T : T = S \ {<<"heap_incref", o>>}
    OBVIOUS
  <2>1. /\ Objects(T, "heap_incref") = Objects(S, "heap_incref") \ {o} /\ Handed(T) = Handed(S)
        /\ \A other : other # "heap_incref" => Objects(T, other) = Objects(S, other)
    BY <1>1
  <2>2. o \notin Objects(S, "incref")
    BY <1>5, <1>3
  <2>3. Objects(T, "heap_incref") \cup Objects(T, "incref") = c \ {o}
    BY <2>1, <2>2
  <2> QED BY <2>1, <2>3
<1>6. ASSUME <<"incref", o>> \in S
      PROVE  DoingIn(S \ {<<"incref", o>>}, a, b, c \ {o}, d, e, f, g, h)
  <2> PICK T : T = S \ {<<"incref", o>>}
    OBVIOUS
  <2>1. /\ Objects(T, "incref") = Objects(S, "incref") \ {o} /\ Handed(T) = Handed(S)
        /\ \A other : other # "incref" => Objects(T, other) = Objects(S, other)
    BY <1>1
  <2>2. o \notin Objects(S, "heap_incref")
    BY <1>6, <1>3
  <2>3. Objects(T, "heap_incref") \cup Objects(T, "incref") = c \ {o}
    BY <2>1, <2>2
  <2> QED BY <2>1, <2>3
<1>7. ASSUME <<"heap_decref", o>> \in S
      PROVE  DoingIn(S \ {<<"heap_decref", o>>}, a, b, c, d \ {o}, e, f, g, h)
  <2> PICK T : T = S \ {<<"heap_decref", o>>}
    OBVIOUS
  <2>1. /\ Objects(T, "heap_decref") = Objects(S, "heap_decref") \ {o} /\ Handed(T) = Handed(S)
        /\ \A other : other # "heap_decref" => Objects(T, other) = Objects(S, other)
    BY <1>1
  <2>2. o \notin Objects(S, "decref")
    BY <1>7, <1>3
  <2>3. Objects(T, "heap_decref") \cup Objects(T, "decref") = d \ {o}
    BY <2>1, <2>2
  <2> QED BY <2>1, <2>3
<1>8. ASSUME <<"decref", o>> \in S
      PROVE  DoingIn(S \ {<<"decref", o>>}, a, b, c, d \ {o}, e, f, g, h)
  <2> PICK T : T = S \ {<<"decref", o>>}
    OBVIOUS
  <2>1. /\ Objects(T, "decref") = Objects(S, "decref") \ {o} /\ Handed(T) = Handed(S)
        /\ \A other : other # "decref" => Objects(T, other) = Objects(S, other)
    BY <1>1
  <2>2. o \notin Objects(S, "heap_decref")
    BY <1>8, <1>3
  <2>3. Objects(T, "heap_decref") \cup Objects(T, "decref") = d \ {o}
    BY <2>1, <2>2
  <2> QED BY <2>1, <2>3
<1> QED BY <1>4, <1>5, <1>6, <1>7, <1>8

----------------------------------------------------------------------------
\* What each action does to the steps that are due.
LEMMA CallBegins ==
    ASSUME TodoOK, NEW t \in HeapThreads, Idle(t),
           NEW s \in Seq(HeapSteps), Rising(s), Will(t, s)
    PROVE  /\ TodoOK' /\ Due(t) = {} /\ Due(t)' = Elements(s)
           /\ \A v \in HeapThreads \ {t} : Due(v)' = Due(v)
<1>1. todo \in [HeapThreads -> Seq(HeapSteps)] /\ todo[t] = <<>> /\ todo' = [todo EXCEPT ![t] = s]
  BY DEF TodoOK, Idle, Will
<1>2. todo'[t] = s /\ \A v \in HeapThreads \ {t} : todo'[v] = todo[v]
  BY <1>1
<1>3. todo' \in [HeapThreads -> Seq(HeapSteps)]
  BY <1>1
<1>4. TodoOK'
  BY <1>2, <1>3 DEF TodoOK
<1>5. Due(t) = {}
  BY <1>1, FewSteps DEF Due
<1> QED BY <1>2, <1>4, <1>5 DEF Due

LEMMA CallGoesOn ==
    ASSUME TodoOK, NEW t \in HeapThreads, todo[t] # <<>>,
           NEW p \in Seq(HeapSteps), Rising(p),
           \A x \in Elements(p) : Rank(x) <= Rank(Head(todo[t])),
           Will(t, p \o Tail(todo[t]))
    PROVE  /\ TodoOK' /\ Head(todo[t]) \in Due(t) /\ Due(t) \subseteq HeapSteps
           /\ Due(t)' = Elements(p) \cup (Due(t) \ {Head(todo[t])})
           /\ \A x \in Due(t) \ {Head(todo[t])} : Rank(Head(todo[t])) < Rank(x)
           /\ \A v \in HeapThreads \ {t} : Due(v)' = Due(v)
<1> PICK s : s = todo[t]
  OBVIOUS
<1>1. todo \in [HeapThreads -> Seq(HeapSteps)] /\ s \in Seq(HeapSteps) /\ Rising(s) /\ s # <<>>
  BY DEF TodoOK
<1>2. /\ Tail(s) \in Seq(HeapSteps) /\ Rising(Tail(s)) /\ Head(s) \in Elements(s)
      /\ Elements(Tail(s)) = Elements(s) \ {Head(s)}
      /\ \A x \in Elements(Tail(s)) : Rank(Head(s)) < Rank(x)
  BY <1>1, RestDue
<1>3. \A x \in Elements(p), y \in Elements(Tail(s)) : Rank(x) < Rank(y)
  <2> TAKE x \in Elements(p), y \in Elements(Tail(s))
  <2>1. Rank(x) <= Rank(Head(s)) /\ Rank(Head(s)) < Rank(y)
    BY <1>2
  <2> QED BY <2>1, RankRange
<1> PICK q : q = p \o Tail(s)
  OBVIOUS
<1>4. q \in Seq(HeapSteps) /\ Rising(q) /\ Elements(q) = Elements(p) \cup Elements(Tail(s))
  BY <1>2, <1>3, PutBefore
<1>5. todo' = [todo EXCEPT ![t] = q]
  BY DEF Will
<1>6. todo'[t] = q /\ \A v \in HeapThreads \ {t} : todo'[v] = todo[v]
  BY <1>1, <1>5
<1>7. todo' \in [HeapThreads -> Seq(HeapSteps)]
  BY <1>1, <1>4, <1>5
<1>8. TodoOK'
  BY <1>4, <1>6, <1>7 DEF TodoOK
<1>9. Due(t) \subseteq HeapSteps
  BY <1>1, ElementOfSeq DEF Due, Elements
<1> QED BY <1>2, <1>4, <1>6, <1>8, <1>9 DEF Due

LEMMA StepDone ==
    ASSUME TodoOK, NEW t \in HeapThreads, todo[t] # <<>>, Will(t, Tail(todo[t]))
    PROVE  /\ TodoOK' /\ Head(todo[t]) \in Due(t) /\ Due(t) \subseteq HeapSteps
           /\ Due(t)' = Due(t) \ {Head(todo[t])}
           /\ \A x \in Due(t) \ {Head(todo[t])} : Rank(Head(todo[t])) < Rank(x)
           /\ \A v \in HeapThreads \ {t} : Due(v)' = Due(v)
<1>1. todo[t] \in Seq(HeapSteps) /\ Tail(todo[t]) \in Seq(HeapSteps)
  BY HeadTailProperties DEF TodoOK
<1>2. Tail(todo[t]) = <<>> \o Tail(todo[t])
  BY <1>1, ConcatEmptySeq
<1>3. <<>> \in Seq(HeapSteps) /\ Rising(<<>>) /\ Elements(<<>>) = {}
  BY FewSteps
<1>4. Will(t, <<>> \o Tail(todo[t]))
  BY <1>2
<1> QED BY <1>3, <1>4, CallGoesOn

\* The step at the head, by its kind.
LEMMA HeadKinds ==
    ASSUME TodoOK, NEW t \in HeapThreads, todo[t] # <<>>,
           NEW op, Step(t, op)
    PROVE  /\ op \in {"heap_incref", "heap_decref"} => \E h \in Heaps : Head(todo[t]) = <<op, h>>
           /\ op \in {"incref", "decref", "free", "private_decref", "device_add_ref"} =>
                  \E r \in Resources : Head(todo[t]) = <<op, r>>
           /\ op \in {"device_release", "return"} => \E o \in Shared : Head(todo[t]) = <<op, o>>
           /\ op = "hand" => \E u \in HeapThreads, o \in Shared : Head(todo[t]) = <<op, u, o>>
<1> PICK x : x = Head(todo[t])
  OBVIOUS
<1>1. x \in HeapSteps /\ x[1] = op
  BY StepDone, HeadTailProperties DEF TodoOK, Step
<1>2. \/ x \in {"heap_incref", "heap_decref"} \X Heaps
      \/ x \in {"incref", "decref", "free", "private_decref", "device_add_ref"} \X Resources
      \/ x \in {"device_release", "return"} \X Shared
      \/ x \in {"hand"} \X HeapThreads \X Shared
  BY <1>1 DEF HeapSteps
<1>3. CASE x \in {"heap_incref", "heap_decref"} \X Heaps
  BY <1>1, <1>3
<1>4. CASE x \in {"incref", "decref", "free", "private_decref", "device_add_ref"} \X Resources
  BY <1>1, <1>4
<1>5. CASE x \in {"device_release", "return"} \X Shared
  BY <1>1, <1>5
<1>6. CASE x \in {"hand"} \X HeapThreads \X Shared
  BY <1>1, <1>6
<1> QED BY <1>2, <1>3, <1>4, <1>5, <1>6

Views(t) == << Returns(t), Hands(t), Increments(t), Drops(t), Frees(t), PrivateDrops(t),
               DeviceAdds(t), DeviceReleases(t) >>

\* The call t is in goes on; nothing changes for the other threads.
Only(t) == TodoOK' /\ \A v \in HeapThreads \ {t} : Views(v)' = Views(v)

Quiet(t) == Doing(t, {}, {}, {}, {}, {}, {}, {}, {})

LEMMA SameViews ==
    ASSUME NEW v, Due(v)' = Due(v)
    PROVE  Views(v)' = Views(v)
BY DEF Views, Returns, Hands, Increments, Drops, Frees, PrivateDrops, DeviceAdds, DeviceReleases

LEMMA StepsAreSteps ==
    /\ \A h \in Heaps : <<"heap_incref", h>> \in HeapSteps /\ <<"heap_decref", h>> \in HeapSteps
    /\ \A r \in Resources : /\ <<"incref", r>> \in HeapSteps /\ <<"decref", r>> \in HeapSteps
                            /\ <<"free", r>> \in HeapSteps /\ <<"private_decref", r>> \in HeapSteps
                            /\ <<"device_add_ref", r>> \in HeapSteps
    /\ \A o \in Shared : <<"device_release", o>> \in HeapSteps /\ <<"return", o>> \in HeapSteps
    /\ \A u \in HeapThreads, o \in Shared : <<"hand", u, o>> \in HeapSteps
BY DEF HeapSteps

LEMMA Ranks ==
    /\ \A h \in Heaps : Rank(<<"heap_incref", h>>) = 1 /\ Rank(<<"heap_decref", h>>) = 1
                        /\ Rank(<<"device_release", h>>) = 1
    /\ \A r \in Resources : /\ Rank(<<"device_add_ref", r>>) = 1
                            /\ Rank(<<"private_decref", r>>) = 1 /\ Rank(<<"free", r>>) = 2
                            /\ Rank(<<"incref", r>>) = 2 /\ Rank(<<"decref", r>>) = 2
                            /\ Rank(<<"device_release", r>>) = 3
    /\ \A o \in Shared : Rank(<<"return", o>>) = 3
    /\ \A u \in HeapThreads, o \in Shared : Rank(<<"hand", u, o>>) = 3
<1>1. \A a, b : <<a, b>>[1] = a /\ <<a, b>>[2] = b
  OBVIOUS
<1>2. \A a, b, c : <<a, b, c>>[1] = a
  OBVIOUS
<1>3. Heaps \cap Resources = {}
  BY HeapLifetimeAssumption
<1>4. ASSUME NEW h \in Heaps
      PROVE  Rank(<<"heap_incref", h>>) = 1 /\ Rank(<<"heap_decref", h>>) = 1
             /\ Rank(<<"device_release", h>>) = 1
  <2>1. h \notin Resources
    BY <1>3
  <2> QED BY <2>1, <1>1 DEF Rank
<1>5. ASSUME NEW r \in Resources
      PROVE  /\ Rank(<<"device_add_ref", r>>) = 1
             /\ Rank(<<"private_decref", r>>) = 1 /\ Rank(<<"free", r>>) = 2
             /\ Rank(<<"incref", r>>) = 2 /\ Rank(<<"decref", r>>) = 2
             /\ Rank(<<"device_release", r>>) = 3
  BY <1>1 DEF Rank
<1>6. \A o : Rank(<<"return", o>>) = 3
  BY <1>1 DEF Rank
<1>7. \A u, o : Rank(<<"hand", u, o>>) = 3
  BY <1>2 DEF Rank
<1> QED BY <1>4, <1>5, <1>6, <1>7

\* Calls that begin.
LEMMA BeginsWithOne ==
    ASSUME TodoOK, NEW t \in HeapThreads, Idle(t), NEW a \in HeapSteps, Will(t, <<a>>)
    PROVE  Only(t) /\ Quiet(t) /\ Due(t)' = {a}
<1>1. <<a>> \in Seq(HeapSteps) /\ Rising(<<a>>) /\ Elements(<<a>>) = {a}
  BY FewSteps
<1>2. TodoOK' /\ Due(t) = {} /\ Due(t)' = {a} /\ \A v \in HeapThreads \ {t} : Due(v)' = Due(v)
  BY <1>1, CallBegins
<1> QED BY <1>2, SameViews, NothingDue DEF Only, Quiet, Doing

LEMMA BeginsWithTwo ==
    ASSUME TodoOK, NEW t \in HeapThreads, Idle(t), NEW a \in HeapSteps, NEW b \in HeapSteps,
           Rank(a) < Rank(b), Will(t, <<a, b>>)
    PROVE  Only(t) /\ Quiet(t) /\ Due(t)' = {a} \cup {b}
<1>1. <<a, b>> \in Seq(HeapSteps) /\ Rising(<<a, b>>) /\ Elements(<<a, b>>) = {a, b}
  BY FewSteps
<1>2. /\ TodoOK' /\ Due(t) = {} /\ Due(t)' = {a, b}
      /\ \A v \in HeapThreads \ {t} : Due(v)' = Due(v)
  BY <1>1, CallBegins
<1> QED BY <1>2, SameViews, NothingDue DEF Only, Quiet, Doing

LEMMA BeginsWithThree ==
    ASSUME TodoOK, NEW t \in HeapThreads, Idle(t), NEW a \in HeapSteps, NEW b \in HeapSteps,
           NEW c \in HeapSteps, Rank(a) < Rank(b), Rank(b) < Rank(c), Will(t, <<a, b, c>>)
    PROVE  Only(t) /\ Quiet(t) /\ Due(t)' = {a} \cup ({b} \cup {c})
<1>1. /\ <<a, b, c>> \in Seq(HeapSteps) /\ Rising(<<a, b, c>>)
      /\ Elements(<<a, b, c>>) = {a, b, c}
  BY FewSteps
<1>2. /\ TodoOK' /\ Due(t) = {} /\ Due(t)' = {a, b, c}
      /\ \A v \in HeapThreads \ {t} : Due(v)' = Due(v)
  BY <1>1, CallBegins
<1>3. {a, b, c} = {a} \cup ({b} \cup {c})
  OBVIOUS
<1> QED BY <1>2, <1>3, SameViews, NothingDue DEF Only, Quiet, Doing

LEMMA BeginsWithNone ==
    ASSUME TodoOK, NEW t \in HeapThreads, Idle(t), Will(t, <<>>)
    PROVE  Only(t) /\ Quiet(t) /\ Quiet(t)'
<1>1. <<>> \in Seq(HeapSteps) /\ Rising(<<>>) /\ Elements(<<>>) = {}
  BY FewSteps
<1>2. TodoOK' /\ Due(t) = {} /\ Due(t)' = {} /\ \A v \in HeapThreads \ {t} : Due(v)' = Due(v)
  BY <1>1, CallBegins
<1> QED BY <1>2, SameViews, NothingDue DEF Only, Quiet, Doing

LEMMA IdleIsQuiet ==
    ASSUME NEW t, Idle(t)
    PROVE  Quiet(t) /\ Due(t) = {}
<1>1. Due(t) = {}
  BY FewSteps DEF Idle, Due
<1> QED BY <1>1, NothingDue DEF Quiet, Doing

LEMMA ReturnBegins ==
    ASSUME TodoOK, NEW t \in HeapThreads, Idle(t), NEW o \in Shared, Will(t, << <<"return", o>> >>)
    PROVE  Only(t) /\ Quiet(t) /\ Doing(t, {o}, {}, {}, {}, {}, {}, {}, {})'
BY BeginsWithOne, StepsAreSteps, DueAlone DEF Doing

LEMMA PlaceBegins ==
    ASSUME TodoOK, NEW t \in HeapThreads, Idle(t), NEW h \in Heaps, NEW r \in Resources,
           Will(t, << <<"heap_incref", h>>, <<"return", r>> >>)
    PROVE  Only(t) /\ Quiet(t) /\ Doing(t, {r}, {}, {h}, {}, {}, {}, {}, {})'
<1>1. h \in Shared /\ r \in Shared
  BY DEF Shared
<1> PICK a, b : a = <<"heap_incref", h>> /\ b = <<"return", r>>
  OBVIOUS
<1>2. a \in HeapSteps /\ b \in HeapSteps
  BY <1>1, StepsAreSteps
<1>3. Rank(a) = 1 /\ Rank(b) = 3
  BY <1>1, Ranks
<1>4. a \in HeapSteps /\ b \in HeapSteps /\ Rank(a) < Rank(b)
  BY <1>2, <1>3
<1>5. Will(t, <<a, b>>)
  OBVIOUS
<1>6. Only(t) /\ Quiet(t) /\ Due(t)' = {a} \cup {b}
  BY <1>4, <1>5, BeginsWithTwo
<1>7. DoingIn({<<"heap_incref", h>>} \cup {<<"return", r>>}, {} \cup {r}, {} \cup {}, {h} \cup {},
              {} \cup {}, {} \cup {}, {} \cup {}, {} \cup {}, {} \cup {})
  BY <1>1, DueAlone, DueTogether
<1> QED BY <1>6, <1>7 DEF Doing

LEMMA FailureBegins ==
    ASSUME TodoOK, NEW t \in HeapThreads, Idle(t), NEW r \in Resources, Will(t, Released(r))
    PROVE  Only(t) /\ Quiet(t) /\ Doing(t, {}, {}, {}, {r}, {}, {}, {}, {r})'
<1>1. r \in Shared
  BY DEF Shared
<1> PICK a, b : a = <<"decref", r>> /\ b = <<"device_release", r>>
  OBVIOUS
<1>2. a \in HeapSteps /\ b \in HeapSteps
  BY <1>1, StepsAreSteps
<1>3. Rank(a) = 2 /\ Rank(b) = 3
  BY <1>1, Ranks
<1>4. a \in HeapSteps /\ b \in HeapSteps /\ Rank(a) < Rank(b)
  BY <1>2, <1>3
<1>5. Will(t, <<a, b>>)
  BY DEF Released
<1>6. Only(t) /\ Quiet(t) /\ Due(t)' = {a} \cup {b}
  BY <1>4, <1>5, BeginsWithTwo
<1>7. DoingIn({<<"decref", r>>} \cup {<<"device_release", r>>}, {} \cup {}, {} \cup {}, {} \cup {},
              {r} \cup {}, {} \cup {}, {} \cup {}, {} \cup {}, {} \cup {r})
  BY <1>1, DueAlone, DueTogether
<1> QED BY <1>6, <1>7 DEF Doing

LEMMA DropBegins ==
    ASSUME TodoOK, NEW t \in HeapThreads, Idle(t)
    PROVE  /\ \A h \in Heaps : Will(t, << <<"heap_decref", h>> >>) =>
                  Only(t) /\ Quiet(t) /\ Doing(t, {}, {}, {}, {h}, {}, {}, {}, {})'
           /\ \A r \in Resources : Will(t, << <<"decref", r>> >>) =>
                  Only(t) /\ Quiet(t) /\ Doing(t, {}, {}, {}, {r}, {}, {}, {}, {})'
<1>1. Heaps \subseteq Shared /\ Resources \subseteq Shared
  BY DEF Shared
<1>2. ASSUME NEW h \in Heaps, Will(t, << <<"heap_decref", h>> >>)
      PROVE  Only(t) /\ Quiet(t) /\ Doing(t, {}, {}, {}, {h}, {}, {}, {}, {})'
  <2>1. <<"heap_decref", h>> \in HeapSteps /\ h \in Shared
    BY <1>1, StepsAreSteps
  <2>2. Only(t) /\ Quiet(t) /\ Due(t)' = {<<"heap_decref", h>>}
    BY <1>2, <2>1, BeginsWithOne
  <2> QED BY <2>1, <2>2, DueAlone DEF Doing
<1>3. ASSUME NEW r \in Resources, Will(t, << <<"decref", r>> >>)
      PROVE  Only(t) /\ Quiet(t) /\ Doing(t, {}, {}, {}, {r}, {}, {}, {}, {})'
  <2> PICK a : a = <<"decref", r>>
    OBVIOUS
  <2>1. a \in HeapSteps /\ Will(t, <<a>>)
    BY <1>3, StepsAreSteps
  <2>2. Only(t) /\ Quiet(t) /\ Due(t)' = {a}
    BY <2>1, BeginsWithOne
  <2>3. DoingIn({a}, {}, {}, {}, {r}, {}, {}, {}, {})
    BY <1>1, DueAlone
  <2> QED BY <2>2, <2>3 DEF Doing
<1> QED BY <1>2, <1>3

LEMMA HandBegins ==
    ASSUME TodoOK, NEW t \in HeapThreads, Idle(t), NEW u \in HeapThreads, NEW o \in Shared,
           Will(t, << <<"hand", u, o>> >>)
    PROVE  Only(t) /\ Quiet(t) /\ Doing(t, {}, {<<u, o>>}, {}, {}, {}, {}, {}, {})'
<1> PICK a : a = <<"hand", u, o>>
  OBVIOUS
<1>1. a \in HeapSteps /\ Will(t, <<a>>)
  BY StepsAreSteps
<1>2. Only(t) /\ Quiet(t) /\ Due(t)' = {a}
  BY <1>1, BeginsWithOne
<1>3. DoingIn({a}, {}, {<<u, o>>}, {}, {}, {}, {}, {}, {})
  BY DueAlone
<1> QED BY <1>2, <1>3 DEF Doing

LEMMA HeapRevivalBegins ==
    ASSUME TodoOK, NEW t \in HeapThreads, Idle(t), NEW u \in HeapThreads, NEW h \in Heaps,
           Will(t, << <<"heap_incref", h>>, <<"hand", u, h>> >>)
    PROVE  Only(t) /\ Quiet(t) /\ Doing(t, {}, {<<u, h>>}, {h}, {}, {}, {}, {}, {})'
<1>1. h \in Shared
  BY DEF Shared
<1> PICK a, b : a = <<"heap_incref", h>> /\ b = <<"hand", u, h>>
  OBVIOUS
<1>2. a \in HeapSteps /\ b \in HeapSteps
  BY <1>1, StepsAreSteps
<1>3. Rank(a) = 1 /\ Rank(b) = 3
  BY <1>1, Ranks
<1>4. a \in HeapSteps /\ b \in HeapSteps /\ Rank(a) < Rank(b)
  BY <1>2, <1>3
<1>5. Will(t, <<a, b>>)
  OBVIOUS
<1>6. Only(t) /\ Quiet(t) /\ Due(t)' = {a} \cup {b}
  BY <1>4, <1>5, BeginsWithTwo
<1>7. DoingIn({<<"heap_incref", h>>} \cup {<<"hand", u, h>>}, {} \cup {}, {} \cup {<<u, h>>},
              {h} \cup {}, {} \cup {}, {} \cup {}, {} \cup {}, {} \cup {}, {} \cup {})
  BY <1>1, DueAlone, DueTogether
<1> QED BY <1>6, <1>7 DEF Doing

LEMMA RevivalBegins ==
    ASSUME TodoOK, NEW t \in HeapThreads, Idle(t), NEW u \in HeapThreads, NEW r \in Resources,
           Will(t, << <<"device_add_ref", r>>, <<"incref", r>>, <<"hand", u, r>> >>)
    PROVE  Only(t) /\ Quiet(t) /\ Doing(t, {}, {<<u, r>>}, {r}, {}, {}, {}, {r}, {})'
<1>1. r \in Shared
  BY DEF Shared
<1> PICK a, b, c : a = <<"device_add_ref", r>> /\ b = <<"incref", r>> /\ c = <<"hand", u, r>>
  OBVIOUS
<1>2. a \in HeapSteps /\ b \in HeapSteps /\ c \in HeapSteps
  BY <1>1, StepsAreSteps
<1>3. Rank(a) = 1 /\ Rank(b) = 2 /\ Rank(c) = 3
  BY <1>1, Ranks
<1>4. /\ a \in HeapSteps /\ b \in HeapSteps /\ c \in HeapSteps
      /\ Rank(a) < Rank(b) /\ Rank(b) < Rank(c)
  BY <1>2, <1>3
<1>5. Will(t, <<a, b, c>>)
  OBVIOUS
<1>6. Only(t) /\ Quiet(t) /\ Due(t)' = {a} \cup ({b} \cup {c})
  BY <1>4, <1>5, BeginsWithThree
<1>7. DoingIn({<<"incref", r>>} \cup {<<"hand", u, r>>}, {} \cup {}, {} \cup {<<u, r>>},
              {r} \cup {}, {} \cup {}, {} \cup {}, {} \cup {}, {} \cup {}, {} \cup {})
  BY <1>1, DueAlone, DueTogether
<1>8. DoingIn({<<"incref", r>>} \cup {<<"hand", u, r>>}, {}, {<<u, r>>}, {r}, {}, {}, {}, {}, {})
  BY <1>7
<1>9. DoingIn({<<"device_add_ref", r>>} \cup ({<<"incref", r>>} \cup {<<"hand", u, r>>}),
              {} \cup {}, {} \cup {<<u, r>>}, {} \cup {r}, {} \cup {}, {} \cup {}, {} \cup {},
              {r} \cup {}, {} \cup {})
  BY <1>1, <1>8, DueAlone, DueTogether
<1> QED BY <1>6, <1>9 DEF Doing

\* Steps of calls.
LEMMA LastStepAlone ==
    ASSUME TodoOK, NEW t \in HeapThreads, todo[t] # <<>>, Will(t, Tail(todo[t])),
           NEW x, x = Head(todo[t]), Rank(x) = 3
    PROVE  Only(t) /\ Due(t) = {x} /\ Quiet(t)'
<1>1. /\ TodoOK' /\ x \in Due(t) /\ Due(t)' = Due(t) \ {x}
      /\ \A y \in Due(t) \ {x} : Rank(x) < Rank(y)
      /\ \A v \in HeapThreads \ {t} : Due(v)' = Due(v)
  BY StepDone
<1>2. Due(t) \ {x} = {}
  <2> SUFFICES ASSUME NEW y \in Due(t) \ {x} PROVE FALSE
    OBVIOUS
  <2>1. Rank(x) < Rank(y)
    BY <1>1
  <2> QED BY <2>1, RankRange
<1>3. Due(t) = {x} /\ Due(t)' = {}
  BY <1>1, <1>2
<1> QED BY <1>1, <1>3, SameViews, NothingDue DEF Only, Quiet, Doing

LEMMA ReturnStep ==
    ASSUME TodoOK, NEW t \in HeapThreads, Return(t)
    PROVE  \E o \in Shared : /\ Object(t) = o /\ Only(t) /\ Quiet(t)'
                             /\ Doing(t, {o}, {}, {}, {}, {}, {}, {}, {})
<1>1. todo[t] # <<>> /\ Step(t, "return") /\ Will(t, Tail(todo[t]))
  BY DEF Return, Step
<1>2. PICK o \in Shared : Head(todo[t]) = <<"return", o>>
  BY <1>1, HeadKinds
<1>3. Rank(<<"return", o>>) = 3
  BY Ranks
<1>4. Only(t) /\ Due(t) = {<<"return", o>>} /\ Quiet(t)'
  BY <1>1, <1>2, <1>3, LastStepAlone
<1>5. Object(t) = o
  BY <1>2 DEF Object
<1> QED BY <1>4, <1>5, DueAlone DEF Doing

LEMMA HandStep ==
    ASSUME TodoOK, NEW t \in HeapThreads, Hand(t)
    PROVE  \E u \in HeapThreads, o \in Shared :
               /\ Object(t) = u /\ Head(todo[t])[3] = o /\ Only(t) /\ Quiet(t)'
               /\ Doing(t, {}, {<<u, o>>}, {}, {}, {}, {}, {}, {})
<1>1. todo[t] # <<>> /\ Step(t, "hand") /\ Will(t, Tail(todo[t]))
  BY DEF Hand, Step
<1>2. PICK u \in HeapThreads, o \in Shared : Head(todo[t]) = <<"hand", u, o>>
  BY <1>1, HeadKinds
<1>3. Rank(<<"hand", u, o>>) = 3
  BY Ranks
<1>4. Only(t) /\ Due(t) = {<<"hand", u, o>>} /\ Quiet(t)'
  BY <1>1, <1>2, <1>3, LastStepAlone
<1>5. Object(t) = u /\ Head(todo[t])[3] = o
  BY <1>2 DEF Object
<1>6. DoingIn({<<"hand", u, o>>}, {}, {<<u, o>>}, {}, {}, {}, {}, {}, {})
  BY DueAlone
<1> QED BY <1>4, <1>5, <1>6 DEF Doing

DoingAsNow(t) ==
    Doing(t, Returns(t), Hands(t), Increments(t), Drops(t), Frees(t), PrivateDrops(t),
          DeviceAdds(t), DeviceReleases(t))

LEMMA DoesAsNow == \A t : DoingAsNow(t)
BY DEF DoingAsNow, Doing, DoingIn, Returns, Hands, Increments, Drops, Frees, PrivateDrops,
       DeviceAdds, DeviceReleases

LEMMA DoingNext ==
    ASSUME NEW t, NEW a, NEW b, NEW c, NEW d, NEW e, NEW f, NEW g, NEW h,
           Doing(t, a, b, c, d, e, f, g, h)'
    PROVE  /\ Returns(t)' = a /\ Hands(t)' = b /\ Increments(t)' = c /\ Drops(t)' = d
           /\ Frees(t)' = e /\ PrivateDrops(t)' = f
           /\ DeviceAdds(t)' = g /\ DeviceReleases(t)' = h
BY DEF Doing, DoingIn, Returns, Hands, Increments, Drops, Frees, PrivateDrops, DeviceAdds,
       DeviceReleases

LEMMA DoingNow ==
    ASSUME NEW t, NEW a, NEW b, NEW c, NEW d, NEW e, NEW f, NEW g, NEW h,
           Doing(t, a, b, c, d, e, f, g, h)
    PROVE  /\ Returns(t) = a /\ Hands(t) = b /\ Increments(t) = c /\ Drops(t) = d
           /\ Frees(t) = e /\ PrivateDrops(t) = f
           /\ DeviceAdds(t) = g /\ DeviceReleases(t) = h
BY DEF Doing, DoingIn, Returns, Hands, Increments, Drops, Frees, PrivateDrops, DeviceAdds,
       DeviceReleases

LEMMA IncrementStep ==
    ASSUME TodoOK, NEW t \in HeapThreads, Increment(t)
    PROVE  \E o \in Shared :
               /\ Object(t) = o /\ Only(t) /\ o \in Increments(t)
               /\ Increments(t)' = Increments(t) \ {o}
               /\ UNCHANGED <<Returns(t), Hands(t), Drops(t), Frees(t), PrivateDrops(t),
                              DeviceAdds(t), DeviceReleases(t)>>
<1>1. PICK op \in {"heap_incref", "incref"} :
          todo[t] # <<>> /\ Step(t, op) /\ Will(t, Tail(todo[t]))
  BY DEF Increment, Step
<1>2. PICK o \in Shared : Head(todo[t]) = <<op, o>>
  BY <1>1, HeadKinds DEF Shared
<1>3. /\ TodoOK' /\ <<op, o>> \in Due(t) /\ Due(t) \subseteq HeapSteps
      /\ Due(t)' = Due(t) \ {<<op, o>>}
      /\ \A v \in HeapThreads \ {t} : Due(v)' = Due(v)
  BY <1>1, <1>2, StepDone
<1>4. Only(t)
  BY <1>3, SameViews DEF Only
<1>5. Object(t) = o /\ o \in Increments(t)
  BY <1>1, <1>2, <1>3 DEF Object, Increments, Objects
<1> PICK S : S = Due(t)
  OBVIOUS
<1> PICK a, b, c, d, e, f, g, h :
        /\ a = Returns(t) /\ b = Hands(t) /\ c = Increments(t) /\ d = Drops(t) /\ e = Frees(t)
        /\ f = PrivateDrops(t) /\ g = DeviceAdds(t) /\ h = DeviceReleases(t)
  OBVIOUS
<1>6. DoingIn(S, a, b, c, d, e, f, g, h)
  BY DoesAsNow DEF DoingAsNow, Doing
<1>7. DoingIn(S \ {<<op, o>>}, a, b, c \ {o}, d, e, f, g, h)
  <2>1. CASE op = "heap_incref"
    BY <2>1, <1>3, <1>6, DueTaken
  <2>2. CASE op = "incref"
    BY <2>2, <1>3, <1>6, DueTaken
  <2> QED BY <2>1, <2>2
<1>8. Doing(t, a, b, c \ {o}, d, e, f, g, h)'
  BY <1>3, <1>7 DEF Doing
<1> QED BY <1>4, <1>5, <1>8, DoingNext

LEMMA HeapDecrefStep ==
    ASSUME TodoOK, NEW t \in HeapThreads, HeapDecref(t)
    PROVE  \E o \in Heaps :
               /\ Object(t) = o /\ Only(t) /\ o \in Drops(t)
               /\ Drops(t)' = Drops(t) \ {o}
               /\ UNCHANGED <<Returns(t), Hands(t), Increments(t), Frees(t), PrivateDrops(t),
                              DeviceAdds(t)>>
               /\ internal_refs[o] # 1 => DeviceReleases(t)' = DeviceReleases(t)
               /\ internal_refs[o] = 1 => /\ o \notin DeviceReleases(t)
                                          /\ DeviceReleases(t)' = DeviceReleases(t) \cup {o}
<1>1. todo[t] # <<>> /\ Step(t, "heap_decref")
  BY DEF HeapDecref, Step
<1>2. PICK o \in Heaps : Head(todo[t]) = <<"heap_decref", o>>
  BY <1>1, HeadKinds
<1>3. o \in Shared /\ Object(t) = o
  BY <1>2 DEF Shared, Object
<1> PICK p : p = (IF internal_refs[o] = 1 THEN << <<"device_release", o>> >> ELSE <<>>)
  OBVIOUS
<1>4. Will(t, p \o Tail(todo[t]))
  BY <1>3 DEF HeapDecref
<1> PICK y : y = <<"device_release", o>>
  OBVIOUS
<1>5. y \in HeapSteps /\ Rank(y) = 1
  BY <1>3, StepsAreSteps, Ranks
<1>6. /\ p \in Seq(HeapSteps) /\ Rising(p)
      /\ Elements(p) = IF internal_refs[o] = 1 THEN {y} ELSE {}
  <2>1. CASE internal_refs[o] = 1
    BY <2>1, <1>5, FewSteps
  <2>2. CASE internal_refs[o] # 1
    BY <2>2, FewSteps
  <2> QED BY <2>1, <2>2
<1> PICK x : x = <<"heap_decref", o>>
  OBVIOUS
<1>7. Rank(x) = 1 /\ Head(todo[t]) = x
  BY <1>2, Ranks
<1>8. \A z \in Elements(p) : Rank(z) <= Rank(Head(todo[t]))
  BY <1>5, <1>6, <1>7
<1> PICK S : S = Due(t)
  OBVIOUS
<1>9. /\ TodoOK' /\ x \in S /\ S \subseteq HeapSteps
      /\ Due(t)' = Elements(p) \cup (S \ {x})
      /\ \A z \in S \ {x} : Rank(x) < Rank(z)
      /\ \A v \in HeapThreads \ {t} : Due(v)' = Due(v)
  BY <1>1, <1>4, <1>6, <1>7, <1>8, CallGoesOn
<1>10. Only(t)
  BY <1>9, SameViews DEF Only
<1>11. o \in Drops(t)
  BY <1>3, <1>9 DEF Drops, Objects
<1>12. y # x
  OBVIOUS
<1>13. y \notin S
  BY <1>5, <1>7, <1>9, <1>12
<1>14. o \notin DeviceReleases(t)
  BY <1>13 DEF DeviceReleases, Objects
<1> PICK a, b, c, d, e, f, g, h :
        /\ a = Returns(t) /\ b = Hands(t) /\ c = Increments(t) /\ d = Drops(t) /\ e = Frees(t)
        /\ f = PrivateDrops(t) /\ g = DeviceAdds(t) /\ h = DeviceReleases(t)
  OBVIOUS
<1>15. DoingIn(S, a, b, c, d, e, f, g, h)
  BY DoesAsNow DEF DoingAsNow, Doing
<1>16. DoingIn(S \ {x}, a, b, c, d \ {o}, e, f, g, h)
  BY <1>3, <1>9, <1>15, DueTaken
<1>17. ASSUME internal_refs[o] # 1 PROVE Doing(t, a, b, c, d \ {o}, e, f, g, h)'
  <2>1. Due(t)' = S \ {x}
    BY <1>6, <1>9, <1>17
  <2> QED BY <2>1, <1>16 DEF Doing
<1>18. ASSUME internal_refs[o] = 1 PROVE Doing(t, a, b, c, d \ {o}, e, f, g, h \cup {o})'
  <2>1. Due(t)' = (S \ {x}) \cup {y}
    BY <1>6, <1>9, <1>18
  <2>2. DoingIn({y}, {}, {}, {}, {}, {}, {}, {}, {o})
    BY <1>3, DueAlone
  <2>3. DoingIn((S \ {x}) \cup {y}, a \cup {}, b \cup {}, c \cup {}, (d \ {o}) \cup {},
                e \cup {}, f \cup {}, g \cup {}, h \cup {o})
    BY <2>2, <1>16, DueTogether
  <2>4. DoingIn((S \ {x}) \cup {y}, a, b, c, d \ {o}, e, f, g, h \cup {o})
    BY <2>3
  <2> QED BY <2>1, <2>4 DEF Doing
<1>19. CASE internal_refs[o] # 1
  BY <1>19, <1>17, <1>3, <1>10, <1>11, DoingNext
<1>20. CASE internal_refs[o] = 1
  BY <1>20, <1>18, <1>3, <1>10, <1>11, <1>14, DoingNext
<1> QED BY <1>19, <1>20

LEMMA DecrefStep ==
    ASSUME TodoOK, heap_of \in [Resources -> Heaps \cup {NoHeap} \cup Resources],
           \A r \in Resources : heap_of[r] \in Resources => heap_of[r] = r,
           NEW t \in HeapThreads, Decref(t)
    PROVE  \E r \in Resources :
               /\ Object(t) = r /\ Only(t)
               /\ Drops(t) = {r} /\ Increments(t) = {} /\ Frees(t) = {} /\ PrivateDrops(t) = {}
               /\ DeviceAdds(t) = {} /\ Increments(t)' = {} /\ DeviceAdds(t)' = {}
               /\ UNCHANGED <<Returns(t), Hands(t), DeviceReleases(t)>>
               /\ internal_refs[r] # 1 =>
                      Drops(t)' = {} /\ Frees(t)' = {} /\ PrivateDrops(t)' = {}
               /\ internal_refs[r] = 1 =>
                      /\ Drops(t)' = {heap_of[r]} \cap Heaps /\ Frees(t)' = {r}
                      /\ PrivateDrops(t)' = {heap_of[r]} \cap {r}
<1>1. todo[t] # <<>> /\ Step(t, "decref")
  BY DEF Decref, Step
<1>2. PICK r \in Resources : Head(todo[t]) = <<"decref", r>>
  BY <1>1, HeadKinds
<1>3. r \in Shared /\ Object(t) = r /\ Heaps \cap Resources = {} /\ NoHeap \notin Heaps \cup Resources
  BY <1>2, HeapLifetimeAssumption DEF Shared, Object
<1> PICK k : k = heap_of[r]
  OBVIOUS
<1>4. k \in Heaps \/ k = r \/ k = NoHeap
  BY HeapLifetimeAssumption
<1> PICK fr, hd, pd : fr = <<"free", r>> /\ hd = <<"heap_decref", k>> /\ pd = <<"private_decref", r>>
  OBVIOUS
<1> PICK q : q = (IF k \in Heaps THEN <<hd>> ELSE IF k = r THEN <<pd>> ELSE <<>>)
  OBVIOUS
<1> PICK f1 : f1 = <<fr>>
  OBVIOUS
<1> PICK p : p = (IF internal_refs[r] # 1 THEN <<>> ELSE q \o f1)
  OBVIOUS
<1>5. Will(t, p \o Tail(todo[t]))
  <2>1. q = (CASE heap_of[r] \in Heaps -> << <<"heap_decref", heap_of[r]>> >>
               [] heap_of[r] = r -> << <<"private_decref", r>> >>
               [] OTHER -> <<>>)
    <3>1. CASE k \in Heaps
      BY <3>1, <1>3
    <3>2. CASE k \notin Heaps /\ k = r
      BY <3>2
    <3>3. CASE k \notin Heaps /\ k # r
      BY <3>3
    <3> QED BY <3>1, <3>2, <3>3
  <2>2. p = (IF internal_refs[r] # 1 THEN <<>>
             ELSE (CASE heap_of[r] \in Heaps -> << <<"heap_decref", heap_of[r]>> >>
                     [] heap_of[r] = r -> << <<"private_decref", r>> >>
                     [] OTHER -> <<>>) \o << <<"free", r>> >>)
    BY <2>1, Zenon
  <2>3. Object(t) = r
    BY <1>3
  <2> QED BY <2>2, <2>3, Zenon DEF Decref
<1>6. /\ fr \in HeapSteps /\ pd \in HeapSteps /\ (k \in Heaps => hd \in HeapSteps)
  BY <1>3, StepsAreSteps
<1>7. Rank(fr) = 2 /\ Rank(pd) = 1 /\ (k \in Heaps => Rank(hd) = 1)
  BY Ranks
<1>8. /\ q \in Seq(HeapSteps) /\ Rising(q)
      /\ Elements(q) = IF k \in Heaps THEN {hd} ELSE IF k = r THEN {pd} ELSE {}
  <2>1. CASE k \in Heaps
    <3>1. <<hd>> \in Seq(HeapSteps) /\ Rising(<<hd>>) /\ Elements(<<hd>>) = {hd}
      BY <2>1, <1>6, FewSteps
    <3>2. q = <<hd>>
      BY <2>1
    <3> QED BY <2>1, <3>1, <3>2
  <2>2. CASE k \notin Heaps /\ k = r
    <3>1. <<pd>> \in Seq(HeapSteps) /\ Rising(<<pd>>) /\ Elements(<<pd>>) = {pd}
      BY <1>6, FewSteps
    <3>2. q = <<pd>>
      BY <2>2
    <3> QED BY <2>2, <3>1, <3>2
  <2>3. CASE k \notin Heaps /\ k # r
    BY <2>3, FewSteps
  <2> QED BY <2>1, <2>2, <2>3
<1>9. f1 \in Seq(HeapSteps) /\ Rising(f1) /\ Elements(f1) = {fr}
  BY <1>6, FewSteps
<1>10. \A z \in Elements(q), y \in Elements(f1) : Rank(z) < Rank(y)
  BY <1>7, <1>8, <1>9
<1>11. /\ q \o f1 \in Seq(HeapSteps) /\ Rising(q \o f1)
       /\ Elements(q \o f1) = Elements(q) \cup {fr}
  <2>1. q \in Seq(HeapSteps) /\ Rising(q) /\ f1 \in Seq(HeapSteps) /\ Rising(f1)
    BY <1>8, <1>9
  <2>2. /\ q \o f1 \in Seq(HeapSteps) /\ Rising(q \o f1)
        /\ Elements(q \o f1) = Elements(q) \cup Elements(f1)
    BY <2>1, <1>10, PutBefore
  <2> QED BY <2>2, <1>9
<1>12. /\ p \in Seq(HeapSteps) /\ Rising(p)
       /\ Elements(p) = IF internal_refs[r] # 1 THEN {} ELSE Elements(q) \cup {fr}
  <2>1. CASE internal_refs[r] # 1
    BY <2>1, FewSteps
  <2>2. CASE internal_refs[r] = 1
    BY <2>2, <1>11
  <2> QED BY <2>1, <2>2
<1> PICK x : x = <<"decref", r>>
  OBVIOUS
<1>13. Rank(x) = 2 /\ Head(todo[t]) = x
  BY <1>2, Ranks
<1>14. \A z \in Elements(p) : Rank(z) <= Rank(Head(todo[t]))
  <2>1. Elements(q) \subseteq {hd, pd} /\ \A z \in Elements(q) : Rank(z) = 1
    BY <1>7, <1>8
  <2>2. \A z \in Elements(p) : Rank(z) = 1 \/ Rank(z) = 2
    BY <2>1, <1>7, <1>12
  <2>3. \A z \in Elements(p) : Rank(z) <= 2
    <3> TAKE z \in Elements(p)
    <3>1. Rank(z) = 1 \/ Rank(z) = 2
      BY <2>2
    <3> QED BY <3>1
  <2> QED BY <2>3, <1>13
<1> PICK S : S = Due(t)
  OBVIOUS
<1>15. /\ TodoOK' /\ x \in S /\ S \subseteq HeapSteps
       /\ Due(t)' = Elements(p) \cup (S \ {x})
       /\ \A z \in S \ {x} : Rank(x) < Rank(z)
       /\ \A v \in HeapThreads \ {t} : Due(v)' = Due(v)
  BY <1>1, <1>5, <1>12, <1>13, <1>14, CallGoesOn
<1>16. Only(t)
  BY <1>15, SameViews DEF Only
\* What is left after the step ends the call.
<1>17. \A z \in S \ {x} : Rank(z) > 2
  BY <1>13, <1>15
<1>18. ASSUME NEW op \in {"heap_incref", "incref", "heap_decref", "decref", "free",
                          "private_decref", "device_add_ref"}, NEW o \in Shared
       PROVE  <<op, o>> \notin S \ {x}
  <2> SUFFICES ASSUME <<op, o>> \in S \ {x} PROVE FALSE
    OBVIOUS
  <2>1. Rank(<<op, o>>) > 2
    BY <1>17
  <2>2. <<op, o>>[1] = op
    OBVIOUS
  <2> QED BY <2>1, <2>2 DEF Rank
<1> PICK a, b, h : a = Returns(t) /\ b = Hands(t) /\ h = DeviceReleases(t)
  OBVIOUS
<1>19. DoingIn(S \ {x}, a, b, {}, {}, {}, {}, {}, h)
  <2>1. /\ Objects(S \ {x}, "return") = a /\ Handed(S \ {x}) = b
        /\ Objects(S \ {x}, "device_release") = h
    <3> PICK c, d, e, f, g : /\ c = Increments(t) /\ d = Drops(t) /\ e = Frees(t)
                             /\ f = PrivateDrops(t) /\ g = DeviceAdds(t)
      OBVIOUS
    <3>1. DoingIn(S, a, b, c, d, e, f, g, h)
      BY DoesAsNow DEF DoingAsNow, Doing
    <3>2. DoingIn(S \ {x}, a, b, c, d \ {r}, e, f, g, h)
      BY <3>1, <1>3, <1>15, DueTaken
    <3> QED BY <3>2 DEF DoingIn
  <2>2. \A op \in {"heap_incref", "incref", "heap_decref", "decref", "free", "private_decref",
                   "device_add_ref"} : Objects(S \ {x}, op) = {}
    BY <1>18 DEF Objects
  <2> QED BY <2>1, <2>2 DEF DoingIn
<1>20. DoingIn(S, a, b, {}, {r}, {}, {}, {}, h)
  <2>1. DoingIn({x}, {}, {}, {}, {r}, {}, {}, {}, {})
    BY <1>3, DueAlone
  <2>2. DoingIn((S \ {x}) \cup {x}, a \cup {}, b \cup {}, {} \cup {}, {} \cup {r}, {} \cup {},
                {} \cup {}, {} \cup {}, h \cup {})
    BY <2>1, <1>19, DueTogether
  <2>3. (S \ {x}) \cup {x} = S
    BY <1>15
  <2> QED BY <2>2, <2>3
<1>21. Doing(t, a, b, {}, {r}, {}, {}, {}, h)
  BY <1>20 DEF Doing
<1>22. ASSUME internal_refs[r] # 1 PROVE Doing(t, a, b, {}, {}, {}, {}, {}, h)'
  <2>1. Due(t)' = S \ {x}
    BY <1>12, <1>15, <1>22
  <2> QED BY <2>1, <1>19 DEF Doing
<1>23. ASSUME internal_refs[r] = 1
       PROVE  Doing(t, a, b, {}, {k} \cap Heaps, {r}, {k} \cap {r}, {}, h)'
  <2>1. Due(t)' = (S \ {x}) \cup (Elements(q) \cup {fr})
    BY <1>12, <1>15, <1>23
  <2>2. DoingIn(Elements(q), {}, {}, {}, {k} \cap Heaps, {}, {k} \cap {r}, {}, {})
    <3>1. CASE k \in Heaps
      <4>1. k \in Shared /\ k # r /\ {k} \cap Heaps = {k} /\ {k} \cap {r} = {}
        BY <3>1, <1>3 DEF Shared
      <4>2. DoingIn({hd}, {}, {}, {}, {k}, {}, {}, {}, {})
        BY <4>1, DueAlone
      <4> QED BY <4>1, <4>2, <3>1, <1>8
    <3>2. CASE k \notin Heaps /\ k = r
      <4>1. {k} \cap Heaps = {} /\ {k} \cap {r} = {r}
        BY <3>2
      <4>2. DoingIn({pd}, {}, {}, {}, {}, {}, {r}, {}, {})
        BY <1>3, DueAlone
      <4> QED BY <4>1, <4>2, <3>2, <1>8
    <3>3. CASE k \notin Heaps /\ k # r
      <4>1. {k} \cap Heaps = {} /\ {k} \cap {r} = {}
        BY <3>3
      <4> QED BY <4>1, <3>3, <1>8, NothingDue
    <3> QED BY <3>1, <3>2, <3>3
  <2>3. DoingIn({fr}, {}, {}, {}, {}, {r}, {}, {}, {})
    BY <1>3, DueAlone
  <2>4. DoingIn(Elements(q) \cup {fr}, {} \cup {}, {} \cup {}, {} \cup {}, ({k} \cap Heaps) \cup {},
                {} \cup {r}, ({k} \cap {r}) \cup {}, {} \cup {}, {} \cup {})
    BY <2>2, <2>3, DueTogether
  <2>5. DoingIn(Elements(q) \cup {fr}, {}, {}, {}, {k} \cap Heaps, {r}, {k} \cap {r}, {}, {})
    BY <2>4
  <2>6. DoingIn((S \ {x}) \cup (Elements(q) \cup {fr}), a \cup {}, b \cup {}, {} \cup {},
                {} \cup ({k} \cap Heaps), {} \cup {r}, {} \cup ({k} \cap {r}), {} \cup {}, h \cup {})
    BY <2>5, <1>19, DueTogether
  <2>7. DoingIn((S \ {x}) \cup (Elements(q) \cup {fr}), a, b, {}, {k} \cap Heaps, {r},
                {k} \cap {r}, {}, h)
    BY <2>6
  <2> QED BY <2>1, <2>7 DEF Doing
<1>24. CASE internal_refs[r] # 1
  BY <1>24, <1>21, <1>22, <1>3, <1>16, DoingNow, DoingNext
<1>25. CASE internal_refs[r] = 1
  BY <1>25, <1>21, <1>23, <1>3, <1>16, DoingNow, DoingNext
<1> QED BY <1>24, <1>25

LEMMA PrivateDecrefStep ==
    ASSUME TodoOK, NEW t \in HeapThreads, PrivateDecref(t)
    PROVE  \E r \in Resources :
               /\ Object(t) = r /\ Only(t) /\ r \in PrivateDrops(t)
               /\ PrivateDrops(t)' = PrivateDrops(t) \ {r}
               /\ UNCHANGED <<Returns(t), Hands(t), Increments(t), Drops(t), Frees(t),
                              DeviceAdds(t), DeviceReleases(t)>>
<1>1. todo[t] # <<>> /\ Step(t, "private_decref") /\ Will(t, Tail(todo[t]))
  BY DEF PrivateDecref, Step
<1>2. PICK r \in Resources : Head(todo[t]) = <<"private_decref", r>>
  BY <1>1, HeadKinds
<1> PICK x, S : x = <<"private_decref", r>> /\ S = Due(t)
  OBVIOUS
<1>3. /\ TodoOK' /\ x \in S /\ S \subseteq HeapSteps /\ Due(t)' = S \ {x}
      /\ \A v \in HeapThreads \ {t} : Due(v)' = Due(v)
  BY <1>1, <1>2, StepDone
<1>4. Only(t)
  BY <1>3, SameViews DEF Only
<1>5. r \in Shared /\ Object(t) = r /\ r \in PrivateDrops(t)
  BY <1>2, <1>3 DEF Object, PrivateDrops, Objects, Shared
<1> PICK a, b, c, d, e, f, g, h :
        /\ a = Returns(t) /\ b = Hands(t) /\ c = Increments(t) /\ d = Drops(t) /\ e = Frees(t)
        /\ f = PrivateDrops(t) /\ g = DeviceAdds(t) /\ h = DeviceReleases(t)
  OBVIOUS
<1>6. DoingIn(S, a, b, c, d, e, f, g, h)
  BY DoesAsNow DEF DoingAsNow, Doing
<1>7. DoingIn(S \ {x}, a, b, c, d, e, f \ {r}, g, h)
  BY <1>3, <1>5, <1>6, DueTaken
<1>8. Doing(t, a, b, c, d, e, f \ {r}, g, h)'
  BY <1>3, <1>7 DEF Doing
<1> QED BY <1>4, <1>5, <1>8, DoingNext

LEMMA FreeStep ==
    ASSUME TodoOK, NEW t \in HeapThreads, FreeResource(t)
    PROVE  \E r \in Resources :
               /\ Object(t) = r /\ Only(t) /\ r \in Frees(t) /\ PrivateDrops(t) = {}
               /\ Frees(t)' = Frees(t) \ {r}
               /\ UNCHANGED <<Returns(t), Hands(t), Increments(t), Drops(t), PrivateDrops(t),
                              DeviceAdds(t), DeviceReleases(t)>>
<1>1. todo[t] # <<>> /\ Step(t, "free") /\ Will(t, Tail(todo[t]))
  BY DEF FreeResource, Step
<1>2. PICK r \in Resources : Head(todo[t]) = <<"free", r>>
  BY <1>1, HeadKinds
<1> PICK x, S : x = <<"free", r>> /\ S = Due(t)
  OBVIOUS
<1>3. /\ TodoOK' /\ x \in S /\ S \subseteq HeapSteps /\ Due(t)' = S \ {x}
      /\ \A y \in S \ {x} : Rank(x) < Rank(y)
      /\ \A v \in HeapThreads \ {t} : Due(v)' = Due(v)
  BY <1>1, <1>2, StepDone
<1>4. Only(t)
  BY <1>3, SameViews DEF Only
<1>5. r \in Shared /\ Object(t) = r /\ r \in Frees(t)
  BY <1>2, <1>3 DEF Object, Frees, Objects, Shared
<1>6. ASSUME NEW o \in PrivateDrops(t) PROVE FALSE
  <2> PICK y : y = <<"private_decref", o>>
    OBVIOUS
  <2>1. y \in S /\ y \in HeapSteps /\ o \in Resources
    BY <1>3, DueOfKind DEF PrivateDrops, Objects
  <2>2. y # x
    OBVIOUS
  <2>3. Rank(x) = 2
    BY Ranks
  <2>4. Rank(y) = 1
    BY <2>1, Ranks
  <2> QED BY <1>3, <2>1, <2>2, <2>3, <2>4
<1> PICK a, b, c, d, e, f, g, h :
        /\ a = Returns(t) /\ b = Hands(t) /\ c = Increments(t) /\ d = Drops(t) /\ e = Frees(t)
        /\ f = PrivateDrops(t) /\ g = DeviceAdds(t) /\ h = DeviceReleases(t)
  OBVIOUS
<1>7. DoingIn(S, a, b, c, d, e, f, g, h)
  BY DoesAsNow DEF DoingAsNow, Doing
<1>8. DoingIn(S \ {x}, a, b, c, d, e \ {r}, f, g, h)
  BY <1>3, <1>5, <1>7, DueTaken
<1>9. Doing(t, a, b, c, d, e \ {r}, f, g, h)'
  BY <1>3, <1>8 DEF Doing
<1>10. PrivateDrops(t) = {}
  BY <1>6
<1> QED BY <1>4, <1>5, <1>9, <1>10, DoingNext

LEMMA DeviceStep ==
    ASSUME TodoOK, NEW t \in HeapThreads, DeviceRef(t)
    PROVE  /\ Only(t)
           /\ UNCHANGED <<Returns(t), Hands(t), Increments(t), Drops(t), Frees(t), PrivateDrops(t)>>
           /\ Step(t, "device_add_ref") =>
                  \E r \in DeviceAdds(t) : /\ DeviceAdds(t)' = DeviceAdds(t) \ {r}
                                           /\ DeviceReleases(t)' = DeviceReleases(t)
           /\ ~ Step(t, "device_add_ref") =>
                  \E o \in DeviceReleases(t) :
                      /\ DeviceReleases(t)' = DeviceReleases(t) \ {o}
                      /\ DeviceAdds(t)' = DeviceAdds(t)
<1>1. PICK op \in {"device_add_ref", "device_release"} :
          todo[t] # <<>> /\ Step(t, op) /\ Will(t, Tail(todo[t]))
  BY DEF DeviceRef, Step
<1>2. PICK o \in Shared : Head(todo[t]) = <<op, o>>
  BY <1>1, HeadKinds DEF Shared
<1>3. Step(t, "device_add_ref") <=> op = "device_add_ref"
  BY <1>1 DEF Step
<1> PICK x, S : x = <<op, o>> /\ S = Due(t)
  OBVIOUS
<1>4. /\ TodoOK' /\ x \in S /\ S \subseteq HeapSteps /\ Due(t)' = S \ {x}
      /\ \A v \in HeapThreads \ {t} : Due(v)' = Due(v)
  BY <1>1, <1>2, StepDone
<1>5. Only(t)
  BY <1>4, SameViews DEF Only
<1>6. o \in IF op = "device_add_ref" THEN DeviceAdds(t) ELSE DeviceReleases(t)
  BY <1>4 DEF DeviceAdds, DeviceReleases, Objects
<1> PICK a, b, c, d, e, f, g, h :
        /\ a = Returns(t) /\ b = Hands(t) /\ c = Increments(t) /\ d = Drops(t) /\ e = Frees(t)
        /\ f = PrivateDrops(t) /\ g = DeviceAdds(t) /\ h = DeviceReleases(t)
  OBVIOUS
<1>7. DoingIn(S, a, b, c, d, e, f, g, h)
  BY DoesAsNow DEF DoingAsNow, Doing
<1>8. CASE op = "device_add_ref"
  <2>1. DoingIn(S \ {x}, a, b, c, d, e, f, g \ {o}, h)
    BY <1>8, <1>4, <1>7, DueTaken
  <2>2. Doing(t, a, b, c, d, e, f, g \ {o}, h)'
    BY <1>4, <2>1 DEF Doing
  <2> QED BY <2>2, <1>3, <1>5, <1>6, <1>8, DoingNext
<1>9. CASE op = "device_release"
  <2>1. DoingIn(S \ {x}, a, b, c, d, e, f, g, h \ {o})
    BY <1>9, <1>4, <1>7, DueTaken
  <2>2. Doing(t, a, b, c, d, e, f, g, h \ {o})'
    BY <1>4, <2>1 DEF Doing
  <2> QED BY <2>2, <1>3, <1>5, <1>6, <1>9, DoingNext
<1> QED BY <1>8, <1>9

\* A call ends in one way.
Promised(t) == Returns(t) \cup {x[2] : x \in Hands(t)}

LEMMA OneOfRank ==
    ASSUME TodoOK, NEW t \in HeapThreads, NEW x \in Due(t), NEW y \in Due(t), Rank(x) = Rank(y)
    PROVE  x = y
<1> PICK s : s = todo[t]
  OBVIOUS
<1>1. Rising(s) /\ s \in Seq(HeapSteps)
  BY DEF TodoOK
<1>2. PICK i \in DOMAIN s, j \in DOMAIN s : x = s[i] /\ y = s[j]
  BY DEF Due, Elements
<1>3. i \in Nat /\ j \in Nat
  BY <1>1
<1>4. ~ i < j /\ ~ j < i
  BY <1>1, <1>2, RankRange DEF Rising
<1> QED BY <1>2, <1>3, <1>4

LEMMA OnePromise ==
    ASSUME TodoOK, NEW t \in HeapThreads
    PROVE  /\ \A o, p \in Promised(t) : o = p
           /\ \A o \in Returns(t), x \in Hands(t) : FALSE
           /\ \A x, y \in Hands(t) : x = y
           /\ Promised(t) \subseteq Shared
<1>1. \A o \in Returns(t) : o \in Shared /\ <<"return", o>> \in Due(t) /\ Rank(<<"return", o>>) = 3
  BY Ranks DEF Returns, Objects
<1>2. \A x \in Hands(t) : /\ x[1] \in HeapThreads /\ x[2] \in Shared /\ x = <<x[1], x[2]>>
                          /\ <<"hand", x[1], x[2]>> \in Due(t)
                          /\ Rank(<<"hand", x[1], x[2]>>) = 3
  BY Ranks DEF Hands, Handed
<1>3. ASSUME NEW o \in Returns(t), NEW p \in Returns(t) PROVE o = p
  <2>1. <<"return", o>> = <<"return", p>>
    BY <1>1, OneOfRank
  <2> QED BY <2>1
<1>4. ASSUME NEW x \in Hands(t), NEW y \in Hands(t) PROVE x = y
  <2>1. <<"hand", x[1], x[2]>> = <<"hand", y[1], y[2]>>
    BY <1>2, OneOfRank
  <2>2. x[1] = y[1] /\ x[2] = y[2]
    BY <2>1
  <2> QED BY <1>2, <2>2
<1>5. ASSUME NEW o \in Returns(t), NEW x \in Hands(t) PROVE FALSE
  <2> PICK z, w : z = <<"return", o>> /\ w = <<"hand", x[1], x[2]>>
    OBVIOUS
  <2>1. z = w
    BY <1>1, <1>2, OneOfRank
  <2>2. z[1] = "return" /\ w[1] = "hand"
    OBVIOUS
  <2> QED BY <2>1, <2>2
<1>6. Promised(t) \subseteq Shared
  BY <1>1, <1>2 DEF Promised
<1> QED BY <1>3, <1>4, <1>5, <1>6 DEF Promised

----------------------------------------------------------------------------
\* The inductive invariant.  An object is revived by the thread that takes
\* its internal reference before it hands it over.
Reviving(o) == \E t \in HeapThreads : o \in Increments(t) /\ o \in Promised(t)
Public(o) == refs[o] > 0 /\ ~ Reviving(o)

\* The resources that have their reference of the heap.
Residents(h) ==
    {r \in Resources : /\ heap_of[r] = h /\ internal_refs[r] > 0
                       /\ ~ \E t \in HeapThreads : h \in Increments(t) /\ r \in Promised(t)}
Keepers(r) == {t \in HeapThreads : r \in keeps[t]}
Users(o) == IF o \in Heaps THEN Residents(o) ELSE Keepers(o)
Droppers(o) == {t \in HeapThreads : o \in Drops(t)}
Holders(o) == {t \in HeapThreads : o \in holds[t]}
Promisers(o) == {t \in HeapThreads : o \in Promised(t)}

HeapTypes ==
    /\ life \in [Shared -> {"none", "live", "freed"}]
    /\ private \in [Resources -> {"none", "live", "freed"}]
    /\ refs \in [Shared -> Nat] /\ internal_refs \in [Shared -> Nat]
    /\ private_refs \in [Resources -> Nat]
    /\ heap_of \in [Resources -> Heaps \cup {NoHeap} \cup Resources]
    /\ \A r \in Resources : heap_of[r] \in Resources => heap_of[r] = r
    /\ device_refs \in Int
    /\ holds \in [HeapThreads -> SUBSET Shared] /\ keeps \in [HeapThreads -> SUBSET Resources]

\* What the two counts are made of.
RefsExact ==
    \A o \in Shared : refs[o] = Cardinality(Holders(o)) + Cardinality(Promisers(o))

ExactAt(o) ==
    internal_refs[o] = (IF Public(o) THEN 1 ELSE 0) + Cardinality(Users(o)) + Cardinality(Droppers(o))

InternalExact == \A o \in Shared : ExactAt(o)

LifeOK ==
    /\ \A h \in Heaps : /\ life[h] = "live" <=> internal_refs[h] > 0
                        /\ life[h] = "none" => \A r \in Resources : heap_of[r] # h
    /\ \A r \in Resources :
           /\ internal_refs[r] > 0 => life[r] = "live"
           /\ life[r] = "live" => internal_refs[r] > 0 \/ \E t \in HeapThreads : r \in Frees(t)
           /\ life[r] = "none" => heap_of[r] = NoHeap

\* A private heap lives as long as its resource has internal references.
PrivateOK ==
    \A r \in Resources :
        /\ private[r] = "live" <=>
               /\ heap_of[r] = r
               /\ internal_refs[r] > 0 \/ \E t \in HeapThreads : r \in PrivateDrops(t)
        /\ private[r] = "live" => private_refs[r] = 1

\* Nobody knows what a call has made before it returns it.
ReturnsOK ==
    \A t \in HeapThreads : \A o \in Returns(t) :
        /\ Holders(o) = {} /\ Promisers(o) = {t} /\ Keepers(o) = {}
        /\ \A r \in Resources : heap_of[r] = o => r = o

HandsOK ==
    \A t \in HeapThreads : \A x \in Hands(t) :
        /\ x[2] \notin holds[x[1]]
        /\ \A v \in HeapThreads : x \in Hands(v) => v = t

\* A count is incremented by a thread that has something that keeps it up.
IncrementsOK ==
    /\ \A t \in HeapThreads : \A h \in Increments(t) \cap Heaps :
           \/ \E r \in Returns(t) \cap Resources : heap_of[r] = h /\ h \in holds[t]
           \/ /\ h \in Promised(t) /\ h \notin Returns(t)
              /\ \E r \in Has(t) \cap Resources : heap_of[r] = h
    /\ \A t \in HeapThreads : \A r \in (Increments(t) \cap Resources) \cup DeviceAdds(t) :
           r \in keeps[t] /\ r \in Promised(t) /\ r \notin Returns(t)
    /\ \A o \in Shared : \A t, v \in HeapThreads :
           o \in Increments(t) /\ o \in Promised(t) /\ o \in Increments(v) /\ o \in Promised(v) => t = v

FreesOK ==
    /\ \A t \in HeapThreads : \A r \in Frees(t) :
           /\ r \in Resources /\ internal_refs[r] = 0 /\ life[r] = "live"
           /\ \A v \in HeapThreads : r \in Frees(v) => v = t
    /\ \A t \in HeapThreads : \A r \in PrivateDrops(t) : r \in Frees(t) /\ heap_of[r] = r

LiveHeaps == {h \in Heaps : life[h] = "live"}
PublicResources == {r \in Resources : refs[r] > 0}
AllReleases == {x \in HeapThreads \X Shared : x[2] \in DeviceReleases(x[1])}
AllAdds == {x \in HeapThreads \X Shared : x[2] \in DeviceAdds(x[1])}

DeviceExact ==
    device_refs + Cardinality(AllAdds)
        = Cardinality(LiveHeaps) + Cardinality(PublicResources) + Cardinality(AllReleases)

HeapLifetimeInv ==
    /\ HeapTypes /\ TodoOK /\ RefsExact /\ InternalExact /\ LifeOK /\ PrivateOK
    /\ ReturnsOK /\ HandsOK /\ IncrementsOK /\ FreesOK /\ DeviceExact

----------------------------------------------------------------------------
\* Counting.
LEMMA Counted ==
    ASSUME NEW S, IsFiniteSet(S), NEW x
    PROVE  /\ Cardinality(S) \in Nat /\ (Cardinality(S) = 0 <=> S = {})
           /\ x \notin S => IsFiniteSet(S \cup {x}) /\ Cardinality(S \cup {x}) = Cardinality(S) + 1
           /\ x \in S => IsFiniteSet(S \ {x}) /\ Cardinality(S \ {x}) = Cardinality(S) - 1
BY FS_CardinalityType, FS_EmptySet, FS_AddElement, FS_RemoveElement

LEMMA FiniteParts ==
    ASSUME NEW o
    PROVE  /\ IsFiniteSet(Holders(o)) /\ IsFiniteSet(Promisers(o)) /\ IsFiniteSet(Users(o))
           /\ IsFiniteSet(Droppers(o)) /\ IsFiniteSet(Residents(o)) /\ IsFiniteSet(Keepers(o))
           /\ Cardinality(Holders(o)) \in Nat /\ Cardinality(Promisers(o)) \in Nat
           /\ Cardinality(Users(o)) \in Nat /\ Cardinality(Droppers(o)) \in Nat
<1>1. IsFiniteSet(HeapThreads) /\ IsFiniteSet(Resources)
  BY HeapLifetimeAssumption
<1>2. IsFiniteSet(Holders(o)) /\ IsFiniteSet(Promisers(o)) /\ IsFiniteSet(Droppers(o))
      /\ IsFiniteSet(Keepers(o))
  BY <1>1, FS_Subset DEF Holders, Promisers, Droppers, Keepers
<1>3. IsFiniteSet(Residents(o))
  BY <1>1, FS_Subset DEF Residents
<1>4. IsFiniteSet(Users(o))
  BY <1>2, <1>3 DEF Users
<1> QED BY <1>2, <1>3, <1>4, FS_CardinalityType

LEMMA UsedIsCounted ==
    ASSUME HeapLifetimeInv, NEW o \in Shared, Public(o) \/ Users(o) # {} \/ Droppers(o) # {}
    PROVE  internal_refs[o] > 0
<1> PICK n, m \in Nat : n = Cardinality(Users(o)) /\ m = Cardinality(Droppers(o))
  BY FiniteParts
<1>1. internal_refs[o] = (IF Public(o) THEN 1 ELSE 0) + n + m
  BY DEF HeapLifetimeInv, InternalExact, ExactAt
<1>2. (n = 0 <=> Users(o) = {}) /\ (m = 0 <=> Droppers(o) = {})
  BY FiniteParts, Counted
<1> QED BY <1>1, <1>2

LEMMA KeptIsCounted ==
    ASSUME HeapLifetimeInv, NEW t \in HeapThreads, NEW r \in keeps[t]
    PROVE  r \in Resources /\ r \in Shared /\ internal_refs[r] > 0
<1>1. r \in Resources /\ r \in Shared /\ r \notin Heaps
  BY HeapLifetimeAssumption DEF HeapLifetimeInv, HeapTypes, Shared
<1>2. t \in Users(r)
  BY <1>1 DEF Users, Keepers
<1> QED BY <1>1, <1>2, UsedIsCounted

LEMMA HeldIsCounted ==
    ASSUME HeapLifetimeInv, NEW o \in Shared, Holders(o) # {} \/ Promisers(o) # {}
    PROVE  refs[o] > 0
<1> PICK n, m \in Nat : n = Cardinality(Holders(o)) /\ m = Cardinality(Promisers(o))
  BY FiniteParts
<1>1. refs[o] = n + m
  BY DEF HeapLifetimeInv, RefsExact
<1>2. (n = 0 <=> Holders(o) = {}) /\ (m = 0 <=> Promisers(o) = {})
  BY FiniteParts, Counted
<1> QED BY <1>1, <1>2

LEMMA PublicResourceAlive ==
    ASSUME HeapLifetimeInv, NEW r \in Resources, refs[r] > 0
    PROVE  internal_refs[r] > 0
<1>1. r \in Shared
  BY DEF Shared
<1>2. CASE Public(r)
  BY <1>1, <1>2, UsedIsCounted
<1>3. CASE ~ Public(r)
  <2>1. PICK t \in HeapThreads : r \in Increments(t)
    BY <1>3 DEF Public, Reviving
  <2>2. r \in keeps[t]
    BY <2>1 DEF HeapLifetimeInv, IncrementsOK
  <2> QED BY <2>2, KeptIsCounted
<1> QED BY <1>2, <1>3

\* A resource that a thread has keeps its heap.
LEMMA OwnedIsResident ==
    ASSUME HeapLifetimeInv, NEW t \in HeapThreads, NEW r \in Has(t) \cap Resources
    PROVE  /\ internal_refs[r] > 0
           /\ \A v \in HeapThreads, h \in Heaps : ~ (h \in Increments(v) /\ r \in Promised(v))
           /\ heap_of[r] \in Heaps => r \in Residents(heap_of[r]) /\ internal_refs[heap_of[r]] > 0
<1>1. t \in Holders(r) \/ t \in Keepers(r)
  BY DEF Has, Holders, Keepers
<1>2. r \in Shared
  BY DEF Shared
<1>3. internal_refs[r] > 0
  <2>1. CASE t \in Holders(r)
    BY <2>1, <1>2, HeldIsCounted, PublicResourceAlive
  <2>2. CASE t \in Keepers(r)
    BY <2>2, KeptIsCounted DEF Keepers
  <2> QED BY <1>1, <2>1, <2>2
<1>4. ASSUME NEW v \in HeapThreads, NEW h \in Heaps, h \in Increments(v), r \in Promised(v)
      PROVE  FALSE
  <2>1. TodoOK /\ IncrementsOK /\ ReturnsOK
    BY DEF HeapLifetimeInv
  <2>2. \A o \in Promised(v) : o = r
    BY <2>1, <1>4, OnePromise
  <2>3. h # r
    BY HeapLifetimeAssumption
  <2>4. PICK s \in Returns(v) : TRUE
    BY <2>1, <2>2, <2>3, <1>4 DEF IncrementsOK
  <2>5. s = r
    BY <2>2, <2>4 DEF Promised
  <2>6. Holders(r) = {} /\ Keepers(r) = {}
    BY <2>1, <2>4, <2>5 DEF ReturnsOK
  <2> QED BY <1>1, <2>6
<1>5. ASSUME heap_of[r] \in Heaps
      PROVE  r \in Residents(heap_of[r]) /\ internal_refs[heap_of[r]] > 0
  <2>1. r \in Residents(heap_of[r])
    BY <1>3, <1>4, <1>5 DEF Residents
  <2>2. heap_of[r] \in Shared /\ Users(heap_of[r]) # {}
    BY <2>1, <1>5 DEF Users, Shared
  <2> QED BY <2>1, <2>2, UsedIsCounted
<1> QED BY <1>3, <1>4, <1>5

LEMMA PublicIsAlive ==
    ASSUME HeapLifetimeInv, NEW o \in Shared, refs[o] > 0
    PROVE  internal_refs[o] > 0
<1>1. CASE o \in Resources
  BY <1>1, PublicResourceAlive
<1>2. CASE o \in Heaps /\ Public(o)
  BY <1>2, UsedIsCounted
<1>3. CASE o \in Heaps /\ ~ Public(o)
  <2>1. PICK t \in HeapThreads : o \in Increments(t) /\ o \in Promised(t)
    BY <1>3 DEF Public, Reviving
  <2>2. TodoOK /\ IncrementsOK
    BY DEF HeapLifetimeInv
  <2>3. ASSUME NEW r \in Returns(t) \cap Resources PROVE FALSE
    <3>1. r = o
      BY <2>1, <2>2, OnePromise DEF Promised
    <3> QED BY <3>1, <1>3, HeapLifetimeAssumption
  <2>4. PICK r \in Has(t) \cap Resources : heap_of[r] = o
    BY <2>1, <2>2, <2>3, <1>3 DEF IncrementsOK
  <2> QED BY <2>4, <1>3, OwnedIsResident
<1> QED BY <1>1, <1>2, <1>3 DEF Shared

----------------------------------------------------------------------------
\* What an action leaves alone.
LEMMA OthersSame ==
    ASSUME NEW t, Only(t), NEW v \in HeapThreads \ {t}
    PROVE  /\ Returns(v)' = Returns(v) /\ Hands(v)' = Hands(v) /\ Promised(v)' = Promised(v)
           /\ Increments(v)' = Increments(v) /\ Drops(v)' = Drops(v) /\ Frees(v)' = Frees(v)
           /\ PrivateDrops(v)' = PrivateDrops(v) /\ DeviceAdds(v)' = DeviceAdds(v)
           /\ DeviceReleases(v)' = DeviceReleases(v)
<1>1. Views(v)' = Views(v)
  BY DEF Only
<1>2. /\ Returns(v)' = Returns(v) /\ Hands(v)' = Hands(v)
      /\ Increments(v)' = Increments(v) /\ Drops(v)' = Drops(v) /\ Frees(v)' = Frees(v)
      /\ PrivateDrops(v)' = PrivateDrops(v) /\ DeviceAdds(v)' = DeviceAdds(v)
      /\ DeviceReleases(v)' = DeviceReleases(v)
  BY <1>1 DEF Views
<1> QED BY <1>2 DEF Promised

LEMMA RefsKept ==
    ASSUME RefsExact, UNCHANGED <<refs, holds>>, \A v \in HeapThreads : Promised(v)' = Promised(v)
    PROVE  RefsExact'
<1>1. ASSUME NEW o \in Shared PROVE Holders(o)' = Holders(o) /\ Promisers(o)' = Promisers(o)
  BY DEF Holders, Promisers
<1> QED BY <1>1 DEF RefsExact

\* The threads that bring an increment and what they have promised.
SameIncrements ==
    \A v \in HeapThreads : \A o, p :
        (o \in Increments(v) /\ p \in Promised(v)) <=> (o \in Increments(v)' /\ p \in Promised(v)')

LEMMA PublicKept ==
    ASSUME SameIncrements, NEW o, refs'[o] > 0 <=> refs[o] > 0
    PROVE  Public(o)' <=> Public(o)
BY DEF SameIncrements, Public, Reviving

LEMMA UsersKept ==
    ASSUME SameIncrements, UNCHANGED <<heap_of, keeps>>, NEW o \in Shared,
           \A r \in Resources : heap_of[r] = o => (internal_refs'[r] > 0 <=> internal_refs[r] > 0)
    PROVE  Users(o)' = Users(o)
<1>1. Residents(o)' = Residents(o)
  BY DEF SameIncrements, Residents
<1>2. Keepers(o)' = Keepers(o)
  BY DEF Keepers
<1> QED BY <1>1, <1>2 DEF Users

LEMMA ExactKept ==
    ASSUME NEW o, ExactAt(o), Users(o)' = Users(o), Droppers(o)' = Droppers(o),
           Public(o)' <=> Public(o), internal_refs'[o] = internal_refs[o]
    PROVE  ExactAt(o)'
<1>1. CASE Public(o)
  BY <1>1 DEF ExactAt
<1>2. CASE ~ Public(o)
  BY <1>2 DEF ExactAt
<1> QED BY <1>1, <1>2

LEMMA InternalKept ==
    ASSUME InternalExact, SameIncrements, UNCHANGED <<refs, internal_refs, heap_of, keeps>>,
           \A v \in HeapThreads : Drops(v)' = Drops(v)
    PROVE  InternalExact'
<1>1. ASSUME NEW o \in Shared
      PROVE  /\ Users(o)' = Users(o) /\ Droppers(o)' = Droppers(o)
             /\ Public(o)' <=> Public(o)
             /\ internal_refs'[o] = internal_refs[o]
  BY UsersKept, PublicKept DEF Droppers
<1>2. ASSUME NEW o \in Shared PROVE ExactAt(o)'
  <2>1. ExactAt(o)
    BY DEF InternalExact
  <2> QED BY <1>1, <2>1, ExactKept
<1> QED BY <1>2 DEF InternalExact

LEMMA LifeKept ==
    ASSUME LifeOK, UNCHANGED <<life, internal_refs, heap_of>>,
           \A v \in HeapThreads : Frees(v)' = Frees(v)
    PROVE  LifeOK'
BY DEF LifeOK

LEMMA PrivateKept ==
    ASSUME PrivateOK, UNCHANGED <<private, private_refs, heap_of, internal_refs>>,
           \A v \in HeapThreads : PrivateDrops(v)' = PrivateDrops(v)
    PROVE  PrivateOK'
BY DEF PrivateOK

LEMMA ReturnsKept ==
    ASSUME ReturnsOK, UNCHANGED <<holds, keeps, heap_of>>,
           \A v \in HeapThreads : Returns(v)' = Returns(v) /\ Promised(v)' = Promised(v)
    PROVE  ReturnsOK'
<1>1. \A o : Holders(o)' = Holders(o) /\ Promisers(o)' = Promisers(o) /\ Keepers(o)' = Keepers(o)
  BY DEF Holders, Promisers, Keepers
<1> QED BY <1>1 DEF ReturnsOK

LEMMA HandsKept ==
    ASSUME HandsOK, holds' = holds, \A v \in HeapThreads : Hands(v)' = Hands(v)
    PROVE  HandsOK'
BY DEF HandsOK

LEMMA IncrementsKept ==
    ASSUME IncrementsOK, UNCHANGED <<holds, keeps, heap_of>>,
           \A v \in HeapThreads : /\ Returns(v)' = Returns(v) /\ Promised(v)' = Promised(v)
                                  /\ Increments(v)' = Increments(v)
                                  /\ DeviceAdds(v)' = DeviceAdds(v)
    PROVE  IncrementsOK'
<1>1. \A v \in HeapThreads : Has(v)' = Has(v)
  BY DEF Has
<1> QED BY <1>1 DEF IncrementsOK

LEMMA FreesKept ==
    ASSUME FreesOK, UNCHANGED <<life, internal_refs, heap_of>>,
           \A v \in HeapThreads : Frees(v)' = Frees(v) /\ PrivateDrops(v)' = PrivateDrops(v)
    PROVE  FreesOK'
BY DEF FreesOK

LEMMA DeviceKept ==
    ASSUME DeviceExact, UNCHANGED <<life, refs, device_refs>>,
           \A v \in HeapThreads : /\ DeviceReleases(v)' = DeviceReleases(v)
                                  /\ DeviceAdds(v)' = DeviceAdds(v)
    PROVE  DeviceExact'
<1>1. AllReleases' = AllReleases /\ AllAdds' = AllAdds
  BY DEF AllReleases, AllAdds
<1>2. LiveHeaps' = LiveHeaps /\ PublicResources' = PublicResources
  BY DEF LiveHeaps, PublicResources
<1> QED BY <1>1, <1>2 DEF DeviceExact

LEMMA FiniteSets ==
    /\ IsFiniteSet(AllReleases) /\ IsFiniteSet(AllAdds)
    /\ IsFiniteSet(LiveHeaps) /\ IsFiniteSet(PublicResources)
<1>1. IsFiniteSet(Heaps) /\ IsFiniteSet(Resources) /\ IsFiniteSet(HeapThreads)
  BY HeapLifetimeAssumption
<1>2. IsFiniteSet(Shared)
  BY <1>1, FS_Union DEF Shared
<1>3. IsFiniteSet(HeapThreads \X Shared)
  BY <1>1, <1>2, FS_Product
<1>4. AllReleases \subseteq HeapThreads \X Shared /\ AllAdds \subseteq HeapThreads \X Shared
  BY DEF AllReleases, AllAdds
<1>5. LiveHeaps \subseteq Heaps /\ PublicResources \subseteq Resources
  BY DEF LiveHeaps, PublicResources
<1>6. IsFiniteSet(AllReleases) /\ IsFiniteSet(AllAdds)
  BY <1>3, <1>4, FS_Subset
<1> QED BY <1>1, <1>5, <1>6, FS_Subset

\* The steps that are due for the device, when those of one thread change.
LEMMA PairsChange ==
    ASSUME NEW A, NEW B, A \subseteq HeapThreads \X Shared, B \subseteq HeapThreads \X Shared,
           NEW t \in HeapThreads, NEW o \in Shared,
           \A v \in HeapThreads \ {t}, p \in Shared : <<v, p>> \in B <=> <<v, p>> \in A
    PROVE  /\ (\A p \in Shared : <<t, p>> \in B <=> <<t, p>> \in A \/ p = o) => B = A \cup {<<t, o>>}
           /\ (\A p \in Shared : <<t, p>> \in B <=> <<t, p>> \in A /\ p # o) => B = A \ {<<t, o>>}
<1>1. \A x \in HeapThreads \X Shared : /\ x = <<x[1], x[2]>> /\ x[1] \in HeapThreads
                                        /\ x[2] \in Shared
  OBVIOUS
<1>2. ASSUME \A p \in Shared : <<t, p>> \in B <=> <<t, p>> \in A \/ p = o
      PROVE  B = A \cup {<<t, o>>}
  <2>1. ASSUME NEW x \in HeapThreads \X Shared PROVE x \in B <=> x \in A \/ x = <<t, o>>
    <3> PICK v \in HeapThreads, p \in Shared : x = <<v, p>>
      BY <1>1
    <3>1. CASE v = t
      BY <3>1, <1>2
    <3>2. CASE v # t
      BY <3>2
    <3> QED BY <3>1, <3>2
  <2>2. <<t, o>> \in HeapThreads \X Shared
    OBVIOUS
  <2> QED BY <2>1, <2>2
<1>3. ASSUME \A p \in Shared : <<t, p>> \in B <=> <<t, p>> \in A /\ p # o
      PROVE  B = A \ {<<t, o>>}
  <2>1. ASSUME NEW x \in HeapThreads \X Shared PROVE x \in B <=> x \in A /\ x # <<t, o>>
    <3> PICK v \in HeapThreads, p \in Shared : x = <<v, p>>
      BY <1>1
    <3>1. CASE v = t
      BY <3>1, <1>3
    <3>2. CASE v # t
      BY <3>2
    <3> QED BY <3>1, <3>2
  <2> QED BY <2>1
<1> QED BY <1>2, <1>3

----------------------------------------------------------------------------
\* The steps that end a call or come after the counts.
LEMMA DeviceStepInv ==
    ASSUME HeapLifetimeInv, NEW t \in HeapThreads, DeviceRef(t)
    PROVE  HeapLifetimeInv'
<1>1. UNCHANGED <<life, private, refs, internal_refs, private_refs, heap_of, holds, keeps>>
  BY DEF DeviceRef
<1>2. TodoOK /\ Only(t)
  BY DeviceStep DEF HeapLifetimeInv
<1>3. /\ UNCHANGED <<Returns(t), Hands(t), Increments(t), Drops(t), Frees(t), PrivateDrops(t)>>
      /\ DeviceAdds(t)' \subseteq DeviceAdds(t)
  BY <1>2, DeviceStep
<1>4. \A v \in HeapThreads :
          /\ UNCHANGED <<Returns(v), Hands(v), Increments(v), Drops(v), Frees(v), PrivateDrops(v)>>
          /\ Promised(v)' = Promised(v) /\ DeviceAdds(v)' \subseteq DeviceAdds(v)
  <2> TAKE v \in HeapThreads
  <2>1. CASE v = t
    BY <2>1, <1>3 DEF Promised
  <2>2. CASE v # t
    BY <2>2, <1>2, OthersSame
  <2> QED BY <2>1, <2>2
<1>5. SameIncrements
  BY <1>4 DEF SameIncrements
<1>6. RefsExact' /\ InternalExact' /\ LifeOK' /\ PrivateOK' /\ ReturnsOK' /\ HandsOK' /\ FreesOK'
  BY <1>1, <1>4, <1>5, RefsKept, InternalKept, LifeKept, PrivateKept, ReturnsKept, HandsKept, FreesKept
     DEF HeapLifetimeInv
<1>7. IncrementsOK'
  <2>1. \A v \in HeapThreads : Has(v)' = Has(v)
    BY <1>1 DEF Has
  <2>2. IncrementsOK
    BY DEF HeapLifetimeInv
  <2> QED BY <1>1, <1>4, <2>1, <2>2 DEF IncrementsOK
<1>8. device_refs \in Int /\ device_refs' \in Int
  BY DEF HeapLifetimeInv, HeapTypes, DeviceRef
<1>9. HeapTypes'
  BY <1>1, <1>8 DEF HeapLifetimeInv, HeapTypes
<1>10. DeviceExact'
  <2>1. LiveHeaps' = LiveHeaps /\ PublicResources' = PublicResources
    BY <1>1 DEF LiveHeaps, PublicResources
  <2>2. DeviceExact
    BY DEF HeapLifetimeInv
  <2>3. /\ AllReleases \subseteq HeapThreads \X Shared /\ AllReleases' \subseteq HeapThreads \X Shared
        /\ AllAdds \subseteq HeapThreads \X Shared /\ AllAdds' \subseteq HeapThreads \X Shared
    BY DEF AllReleases, AllAdds
  <2>4. \A v \in HeapThreads, p \in Shared :
            /\ <<v, p>> \in AllReleases <=> p \in DeviceReleases(v)
            /\ <<v, p>> \in AllReleases' <=> p \in DeviceReleases(v)'
            /\ <<v, p>> \in AllAdds <=> p \in DeviceAdds(v)
            /\ <<v, p>> \in AllAdds' <=> p \in DeviceAdds(v)'
    BY DEF AllReleases, AllAdds
  <2>5. \A v \in HeapThreads \ {t} : DeviceReleases(v)' = DeviceReleases(v)
                                     /\ DeviceAdds(v)' = DeviceAdds(v)
    BY <1>2, OthersSame
  <2> PICK n, m, i, j \in Int : /\ n = Cardinality(AllReleases) /\ m = Cardinality(AllAdds)
                                /\ i = Cardinality(LiveHeaps) /\ j = Cardinality(PublicResources)
    BY FiniteSets, FS_CardinalityType
  <2>6. CASE Step(t, "device_add_ref")
    <3>1. PICK r \in DeviceAdds(t) : /\ DeviceAdds(t)' = DeviceAdds(t) \ {r}
                                     /\ DeviceReleases(t)' = DeviceReleases(t)
      BY <1>2, <2>6, DeviceStep
    <3>2. r \in Shared
      BY DEF DeviceAdds, Objects
    <3>3. AllAdds' = AllAdds \ {<<t, r>>}
      BY <3>1, <3>2, <2>3, <2>4, <2>5, PairsChange
    <3>4. AllReleases' = AllReleases
      BY <3>1, <2>5 DEF AllReleases
    <3>5. <<t, r>> \in AllAdds
      BY <3>1, <3>2, <2>4
    <3>6. Cardinality(AllAdds') = m - 1
      BY <3>3, <3>5, FiniteSets, Counted
    <3>7. device_refs' = device_refs + 1
      BY <2>6 DEF DeviceRef
    <3>8. device_refs + m = i + j + n
      BY <2>2 DEF DeviceExact
    <3>9. /\ Cardinality(LiveHeaps') = i /\ Cardinality(PublicResources') = j
          /\ Cardinality(AllReleases') = n
      BY <2>1, <3>4
    <3> QED BY <3>6, <3>7, <3>8, <3>9, <1>8 DEF DeviceExact
  <2>7. CASE ~ Step(t, "device_add_ref")
    <3>1. PICK r \in DeviceReleases(t) : /\ DeviceReleases(t)' = DeviceReleases(t) \ {r}
                                         /\ DeviceAdds(t)' = DeviceAdds(t)
      BY <1>2, <2>7, DeviceStep
    <3>2. r \in Shared
      BY DEF DeviceReleases, Objects
    <3>3. AllReleases' = AllReleases \ {<<t, r>>}
      BY <3>1, <3>2, <2>3, <2>4, <2>5, PairsChange
    <3>4. AllAdds' = AllAdds
      BY <3>1, <2>5 DEF AllAdds
    <3>5. <<t, r>> \in AllReleases
      BY <3>1, <3>2, <2>4
    <3>6. Cardinality(AllReleases') = n - 1
      BY <3>3, <3>5, FiniteSets, Counted
    <3>7. device_refs' = device_refs - 1
      BY <2>7 DEF DeviceRef
    <3>8. device_refs + m = i + j + n
      BY <2>2 DEF DeviceExact
    <3>9. /\ Cardinality(LiveHeaps') = i /\ Cardinality(PublicResources') = j
          /\ Cardinality(AllAdds') = m
      BY <2>1, <3>4
    <3> QED BY <3>6, <3>7, <3>8, <3>9, <1>8 DEF DeviceExact
  <2> QED BY <2>6, <2>7
<1>11. TodoOK'
  BY <1>2 DEF Only
<1> QED BY <1>6, <1>7, <1>9, <1>10, <1>11 DEF HeapLifetimeInv

LEMMA PromisedSame ==
    ASSUME NEW v, Returns(v)' = Returns(v), Hands(v)' = Hands(v)
    PROVE  Promised(v)' = Promised(v)
BY DEF Promised

LEMMA FreeStepInv ==
    ASSUME HeapLifetimeInv, NEW t \in HeapThreads, FreeResource(t)
    PROVE  HeapLifetimeInv'
<1>1. UNCHANGED <<private, refs, internal_refs, private_refs, heap_of, device_refs, holds, keeps>>
  BY DEF FreeResource
<1>2. TodoOK
  BY DEF HeapLifetimeInv
<1>3. PICK r \in Resources :
          /\ Object(t) = r /\ Only(t) /\ r \in Frees(t) /\ PrivateDrops(t) = {}
          /\ Frees(t)' = Frees(t) \ {r}
          /\ UNCHANGED <<Returns(t), Hands(t), Increments(t), Drops(t), PrivateDrops(t),
                         DeviceAdds(t), DeviceReleases(t)>>
  BY <1>2, FreeStep
<1>4. \A v \in HeapThreads :
          /\ UNCHANGED <<Returns(v), Hands(v), Increments(v), Drops(v), PrivateDrops(v),
                         DeviceAdds(v), DeviceReleases(v)>>
          /\ Promised(v)' = Promised(v)
  <2> TAKE v \in HeapThreads
  <2>1. CASE v = t
    BY <2>1, <1>3, PromisedSame
  <2>2. CASE v # t
    BY <2>2, <1>3, OthersSame
  <2> QED BY <2>1, <2>2
<1>5. SameIncrements
  BY <1>4 DEF SameIncrements
<1>6. /\ RefsExact' /\ InternalExact' /\ PrivateOK' /\ ReturnsOK' /\ HandsOK' /\ IncrementsOK'
  BY <1>1, <1>4, <1>5, RefsKept, InternalKept, PrivateKept, ReturnsKept, HandsKept, IncrementsKept
     DEF HeapLifetimeInv
<1>7. FreesOK /\ LifeOK /\ HeapTypes /\ Heaps \cap Resources = {}
  BY HeapLifetimeAssumption DEF HeapLifetimeInv
<1>8. life' = [life EXCEPT ![r] = "freed"] /\ r \in Shared
  BY <1>3 DEF FreeResource, Shared
<1>9. /\ life' \in [Shared -> {"none", "live", "freed"}] /\ life'[r] = "freed"
      /\ \A o \in Shared \ {r} : life'[o] = life[o]
  BY <1>7, <1>8 DEF HeapTypes
<1>10. \A v \in HeapThreads : \A p : p \in Frees(v)' <=> p \in Frees(v) /\ p # r
  <2> TAKE v \in HeapThreads
  <2>1. CASE v = t
    BY <2>1, <1>3
  <2>2. CASE v # t
    <3>1. r \notin Frees(v)
      BY <2>2, <1>3, <1>7 DEF FreesOK
    <3>2. Frees(v)' = Frees(v)
      BY <2>2, <1>3, OthersSame
    <3> QED BY <3>1, <3>2
  <2> QED BY <2>1, <2>2
<1>11. internal_refs[r] = 0
  BY <1>3, <1>7 DEF FreesOK
<1>12. HeapTypes'
  BY <1>1, <1>7, <1>9 DEF HeapTypes
<1>13. LifeOK'
  <2>1. \A h \in Heaps : life'[h] = life[h]
    BY <1>7, <1>9 DEF Shared
  <2>2. \A p \in Resources \ {r} : life'[p] = life[p]
    BY <1>9 DEF Shared
  <2> QED BY <1>1, <1>7, <1>9, <1>10, <1>11, <2>1, <2>2 DEF LifeOK
<1>14. FreesOK'
  <2>1. ASSUME NEW v \in HeapThreads, NEW p \in Frees(v)'
        PROVE  /\ p \in Resources /\ internal_refs'[p] = 0 /\ life'[p] = "live"
               /\ \A w \in HeapThreads : p \in Frees(w)' => w = v
    <3>1. p \in Frees(v) /\ p # r
      BY <2>1, <1>10
    <3>2. p \in Resources /\ internal_refs[p] = 0 /\ life[p] = "live"
          /\ \A w \in HeapThreads : p \in Frees(w) => w = v
      BY <3>1, <1>7 DEF FreesOK
    <3> QED BY <3>1, <3>2, <1>1, <1>9, <1>10 DEF Shared
  <2>2. ASSUME NEW v \in HeapThreads, NEW p \in PrivateDrops(v)'
        PROVE  p \in Frees(v)' /\ heap_of'[p] = p
    <3>1. p \in PrivateDrops(v) /\ v # t
      BY <2>2, <1>3, <1>4
    <3>2. p \in Frees(v) /\ heap_of[p] = p
      BY <3>1, <1>7 DEF FreesOK
    <3>3. p # r
      BY <3>1, <3>2, <1>3, <1>7 DEF FreesOK
    <3> QED BY <3>2, <3>3, <1>1, <1>10
  <2> QED BY <2>1, <2>2 DEF FreesOK
<1>15. DeviceExact'
  <2>1. LiveHeaps' = LiveHeaps /\ PublicResources' = PublicResources
    BY <1>1, <1>7, <1>9 DEF LiveHeaps, PublicResources, Shared
  <2>2. AllReleases' = AllReleases /\ AllAdds' = AllAdds
    BY <1>4 DEF AllReleases, AllAdds
  <2> QED BY <1>1, <2>1, <2>2 DEF HeapLifetimeInv, DeviceExact
<1> QED BY <1>3, <1>6, <1>12, <1>13, <1>14, <1>15 DEF HeapLifetimeInv, Only

LEMMA PrivateDecrefInv ==
    ASSUME HeapLifetimeInv, NEW t \in HeapThreads, PrivateDecref(t)
    PROVE  HeapLifetimeInv'
<1>1. UNCHANGED <<life, refs, internal_refs, heap_of, device_refs, holds, keeps>>
  BY DEF PrivateDecref
<1>2. TodoOK /\ FreesOK /\ PrivateOK /\ HeapTypes
  BY DEF HeapLifetimeInv
<1>3. PICK r \in Resources :
          /\ Object(t) = r /\ Only(t) /\ r \in PrivateDrops(t)
          /\ PrivateDrops(t)' = PrivateDrops(t) \ {r}
          /\ UNCHANGED <<Returns(t), Hands(t), Increments(t), Drops(t), Frees(t),
                         DeviceAdds(t), DeviceReleases(t)>>
  BY <1>2, PrivateDecrefStep
<1>4. \A v \in HeapThreads :
          /\ UNCHANGED <<Returns(v), Hands(v), Increments(v), Drops(v), Frees(v),
                         DeviceAdds(v), DeviceReleases(v)>>
          /\ Promised(v)' = Promised(v) /\ PrivateDrops(v)' \subseteq PrivateDrops(v)
  <2> TAKE v \in HeapThreads
  <2>1. CASE v = t
    BY <2>1, <1>3, PromisedSame
  <2>2. CASE v # t
    BY <2>2, <1>3, OthersSame
  <2> QED BY <2>1, <2>2
<1>5. SameIncrements
  BY <1>4 DEF SameIncrements
<1>6. /\ RefsExact' /\ InternalExact' /\ ReturnsOK' /\ HandsOK' /\ IncrementsOK' /\ LifeOK'
      /\ DeviceExact'
  BY <1>1, <1>4, <1>5, RefsKept, InternalKept, ReturnsKept, HandsKept, IncrementsKept, LifeKept,
     DeviceKept DEF HeapLifetimeInv
<1>7. FreesOK'
  BY <1>1, <1>2, <1>4 DEF FreesOK
<1>8. r \in Frees(t) /\ heap_of[r] = r /\ internal_refs[r] = 0
  BY <1>2, <1>3 DEF FreesOK
<1>9. private[r] = "live" /\ private_refs[r] = 1
  BY <1>2, <1>3, <1>8 DEF PrivateOK
<1>10. /\ private' = [private EXCEPT ![r] = "freed"]
       /\ private_refs' = [private_refs EXCEPT ![r] = 0]
  BY <1>2, <1>3, <1>9 DEF PrivateDecref, HeapTypes
<1>11. /\ private'[r] = "freed" /\ private' \in [Resources -> {"none", "live", "freed"}]
       /\ private_refs' \in [Resources -> Nat]
       /\ \A p \in Resources \ {r} : private'[p] = private[p] /\ private_refs'[p] = private_refs[p]
  BY <1>2, <1>10 DEF HeapTypes
<1>12. \A v \in HeapThreads : \A p : p \in PrivateDrops(v)' <=> p \in PrivateDrops(v) /\ p # r
  <2> TAKE v \in HeapThreads
  <2>1. CASE v = t
    BY <2>1, <1>3
  <2>2. CASE v # t
    <3>1. r \notin PrivateDrops(v)
      BY <2>2, <1>2, <1>8 DEF FreesOK
    <3>2. PrivateDrops(v)' = PrivateDrops(v)
      BY <2>2, <1>3, OthersSame
    <3> QED BY <3>1, <3>2
  <2> QED BY <2>1, <2>2
<1>13. PrivateOK'
  BY <1>1, <1>2, <1>8, <1>11, <1>12 DEF PrivateOK
<1>14. HeapTypes'
  BY <1>1, <1>2, <1>11 DEF HeapTypes
<1> QED BY <1>3, <1>6, <1>7, <1>13, <1>14 DEF HeapLifetimeInv, Only

\* The end of a call that gives o to u.
LEMMA GivenExact ==
    ASSUME HeapLifetimeInv, NEW t \in HeapThreads, NEW u \in HeapThreads, NEW o \in Shared,
           o \notin holds[u], refs' = refs, holds' = [holds EXCEPT ![u] = @ \cup {o}],
           Promised(t) = {o}, Promised(t)' = {},
           \A v \in HeapThreads \ {t} : Promised(v)' = Promised(v)
    PROVE  /\ RefsExact'
           /\ \A p \in Shared \ {o} : Holders(p)' = Holders(p) /\ Promisers(p)' = Promisers(p)
           /\ Promisers(o)' = Promisers(o) \ {t} /\ holds' \in [HeapThreads -> SUBSET Shared]
           /\ \A v \in HeapThreads : holds[v] \subseteq holds'[v]
<1>1. holds \in [HeapThreads -> SUBSET Shared]
  BY DEF HeapLifetimeInv, HeapTypes
<1>2. /\ holds'[u] = holds[u] \cup {o} /\ \A v \in HeapThreads \ {u} : holds'[v] = holds[v]
      /\ holds' \in [HeapThreads -> SUBSET Shared]
  BY <1>1
<1>3. ASSUME NEW p \in Shared \ {o}
      PROVE  Holders(p)' = Holders(p) /\ Promisers(p)' = Promisers(p)
  BY <1>2 DEF Holders, Promisers
<1>4. Holders(o)' = Holders(o) \cup {u} /\ u \notin Holders(o)
  BY <1>2 DEF Holders
<1>5. Promisers(o)' = Promisers(o) \ {t} /\ t \in Promisers(o)
  BY DEF Promisers
<1> PICK n, m \in Nat : n = Cardinality(Holders(o)) /\ m = Cardinality(Promisers(o))
  BY FiniteParts
<1>6. Cardinality(Holders(o)') = n + 1
  BY <1>4, FiniteParts, Counted
<1>7. Cardinality(Promisers(o)') = m - 1
  BY <1>5, FiniteParts, Counted
<1>8. refs[o] = n + m
  BY DEF HeapLifetimeInv, RefsExact
<1>9. refs'[o] = Cardinality(Holders(o)') + Cardinality(Promisers(o)')
  BY <1>6, <1>7, <1>8
<1>10. ASSUME NEW p \in Shared \ {o}
       PROVE  refs'[p] = Cardinality(Holders(p)') + Cardinality(Promisers(p)')
  BY <1>3 DEF HeapLifetimeInv, RefsExact
<1>11. RefsExact'
  BY <1>9, <1>10 DEF RefsExact
<1> QED BY <1>2, <1>3, <1>5, <1>11

LEMMA GiveStepInv ==
    ASSUME HeapLifetimeInv, NEW t \in HeapThreads, Return(t) \/ Hand(t)
    PROVE  HeapLifetimeInv'
<1>1. UNCHANGED <<life, private, refs, internal_refs, private_refs, heap_of, device_refs, keeps>>
  BY DEF Return, Hand
<1>2. TodoOK /\ ReturnsOK /\ HandsOK /\ IncrementsOK /\ HeapTypes
  BY DEF HeapLifetimeInv
<1>3. PICK u \in HeapThreads, o \in Shared :
          /\ Only(t) /\ Quiet(t)'
          /\ \/ Doing(t, {o}, {}, {}, {}, {}, {}, {}, {}) /\ u = t
             \/ Doing(t, {}, {<<u, o>>}, {}, {}, {}, {}, {}, {})
          /\ holds' = [holds EXCEPT ![u] = @ \cup {o}]
  <2>1. CASE Return(t)
    <3>1. PICK o \in Shared : /\ Object(t) = o /\ Only(t) /\ Quiet(t)'
                              /\ Doing(t, {o}, {}, {}, {}, {}, {}, {}, {})
      BY <1>2, <2>1, ReturnStep
    <3>2. holds' = [holds EXCEPT ![t] = @ \cup {o}]
      BY <2>1, <3>1 DEF Return
    <3> QED BY <3>1, <3>2
  <2>2. CASE Hand(t)
    <3>1. PICK u \in HeapThreads, o \in Shared :
               /\ Object(t) = u /\ Head(todo[t])[3] = o /\ Only(t) /\ Quiet(t)'
               /\ Doing(t, {}, {<<u, o>>}, {}, {}, {}, {}, {}, {})
      BY <1>2, <2>2, HandStep
    <3>2. holds' = [holds EXCEPT ![u] = @ \cup {o}]
      BY <2>2, <3>1 DEF Hand
    <3> QED BY <3>1, <3>2
  <2> QED BY <2>1, <2>2
<1>4. /\ Increments(t) = {} /\ Drops(t) = {} /\ Frees(t) = {}
      /\ PrivateDrops(t) = {} /\ DeviceAdds(t) = {} /\ DeviceReleases(t) = {}
      /\ \/ Returns(t) = {o} /\ Hands(t) = {} /\ u = t
         \/ Returns(t) = {} /\ Hands(t) = {<<u, o>>}
  BY <1>3, DoingNow
<1>5. /\ Returns(t)' = {} /\ Hands(t)' = {} /\ Increments(t)' = {} /\ Drops(t)' = {}
      /\ Frees(t)' = {} /\ PrivateDrops(t)' = {} /\ DeviceAdds(t)' = {} /\ DeviceReleases(t)' = {}
  BY <1>3, DoingNext DEF Quiet
<1>6. Promised(t) = {o} /\ Promised(t)' = {}
  <2>1. Promised(t)' = {}
    BY <1>5 DEF Promised
  <2> PICK P : P = {x[2] : x \in Hands(t)}
    OBVIOUS
  <2>2. Promised(t) = Returns(t) \cup P
    BY DEF Promised
  <2>3. CASE Returns(t) = {o} /\ Hands(t) = {}
    <3>1. P = {}
      BY <2>3
    <3> QED BY <2>1, <2>2, <2>3, <3>1
  <2>4. CASE Returns(t) = {} /\ Hands(t) = {<<u, o>>}
    <3>1. {x[2] : x \in {<<u, o>>}} = {o}
      OBVIOUS
    <3>2. P = {o}
      BY <2>4, <3>1
    <3> QED BY <2>1, <2>2, <2>4, <3>2
  <2> QED BY <2>3, <2>4, <1>4
<1>7. \A v \in HeapThreads : UNCHANGED <<Increments(v), Drops(v), Frees(v), PrivateDrops(v),
                                        DeviceAdds(v), DeviceReleases(v)>>
  BY <1>3, <1>4, <1>5, OthersSame
<1>8. \A v \in HeapThreads \ {t} :
          Returns(v)' = Returns(v) /\ Hands(v)' = Hands(v) /\ Promised(v)' = Promised(v)
  BY <1>3, OthersSame
<1>9. o \notin holds[u]
  <2>1. CASE Returns(t) = {o} /\ u = t
    <3>1. Holders(o) = {}
      BY <2>1, <1>2 DEF ReturnsOK
    <3> QED BY <2>1, <3>1 DEF Holders
  <2>2. CASE Hands(t) = {<<u, o>>}
    <3> PICK x : x = <<u, o>>
      OBVIOUS
    <3>1. x[1] = u /\ x[2] = o /\ x \in Hands(t)
      BY <2>2
    <3>2. x[2] \notin holds[x[1]]
      BY <3>1, <1>2 DEF HandsOK
    <3> QED BY <3>1, <3>2
  <2> QED BY <2>1, <2>2, <1>4
<1>10. /\ RefsExact'
       /\ \A p \in Shared \ {o} : Holders(p)' = Holders(p) /\ Promisers(p)' = Promisers(p)
       /\ Promisers(o)' = Promisers(o) \ {t} /\ holds' \in [HeapThreads -> SUBSET Shared]
       /\ \A v \in HeapThreads : holds[v] \subseteq holds'[v]
  BY <1>1, <1>3, <1>6, <1>8, <1>9, GivenExact
<1>11. SameIncrements
  <2>1. ASSUME NEW v \in HeapThreads, NEW p, NEW q
        PROVE  p \in Increments(v) /\ q \in Promised(v)
                   <=> p \in Increments(v)' /\ q \in Promised(v)'
    <3>1. CASE v = t
      BY <3>1, <1>4, <1>5
    <3>2. CASE v # t
      BY <3>2, <1>7, <1>8
    <3> QED BY <3>1, <3>2
  <2> QED BY <2>1 DEF SameIncrements
<1>12. InternalExact' /\ LifeOK' /\ PrivateOK' /\ FreesOK' /\ DeviceExact'
  BY <1>1, <1>7, <1>11, InternalKept, LifeKept, PrivateKept, FreesKept, DeviceKept
     DEF HeapLifetimeInv
<1>13. t \in Promisers(o)
  BY <1>6 DEF Promisers
<1>14. ReturnsOK'
  <2> SUFFICES ASSUME NEW v \in HeapThreads, NEW p \in Returns(v)'
               PROVE  /\ Holders(p)' = {} /\ Promisers(p)' = {v} /\ Keepers(p)' = {}
                      /\ \A r \in Resources : heap_of'[r] = p => r = p
    BY DEF ReturnsOK
  <2>1. v # t /\ p \in Returns(v)
    BY <1>5, <1>8
  <2>2. /\ Holders(p) = {} /\ Promisers(p) = {v} /\ Keepers(p) = {}
        /\ \A r \in Resources : heap_of[r] = p => r = p
    BY <2>1, <1>2 DEF ReturnsOK
  <2>3. p # o /\ p \in Shared
    BY <2>1, <2>2, <1>13 DEF Returns, Objects
  <2>4. Keepers(p)' = Keepers(p)
    BY <1>1 DEF Keepers
  <2> QED BY <1>1, <1>10, <2>2, <2>3, <2>4
<1>15. HandsOK'
  <2> SUFFICES ASSUME NEW v \in HeapThreads, NEW x \in Hands(v)'
               PROVE  /\ x[2] \notin holds'[x[1]]
                      /\ \A w \in HeapThreads : x \in Hands(w)' => w = v
    BY DEF HandsOK
  <2>1. v # t /\ x \in Hands(v)
    BY <1>5, <1>8
  <2>2. x[2] \notin holds[x[1]] /\ \A w \in HeapThreads : x \in Hands(w) => w = v
    BY <2>1, <1>2 DEF HandsOK
  <2>3. \A w \in HeapThreads : x \in Hands(w)' => w = v
    BY <2>2, <1>5, <1>8
  <2>4. ASSUME x[1] = u, x[2] = o PROVE FALSE
    <3>1. CASE Returns(t) = {o}
      <4>1. v \in Promisers(o)
        BY <2>1, <2>4 DEF Promisers, Promised
      <4>2. Promisers(o) = {t}
        BY <3>1, <1>2, <1>4 DEF ReturnsOK
      <4> QED BY <4>1, <4>2, <2>1
    <3>2. CASE Hands(t) = {<<u, o>>}
      <4>1. x = <<u, o>>
        BY <2>1, <2>4 DEF Hands, Handed
      <4>2. x \in Hands(t)
        BY <3>2, <4>1
      <4> QED BY <4>2, <2>1, <2>2
    <3> QED BY <3>1, <3>2, <1>4
  <2>5. x[1] \in HeapThreads
    BY <2>1 DEF Hands, Handed
  <2>6. holds \in [HeapThreads -> SUBSET Shared] /\ holds' = [holds EXCEPT ![u] = @ \cup {o}]
    BY <1>2, <1>3 DEF HeapTypes
  <2>7. x[2] \notin holds'[x[1]]
    <3>1. CASE x[1] = u
      BY <3>1, <2>2, <2>4, <2>6
    <3>2. CASE x[1] # u
      BY <3>2, <2>2, <2>5, <2>6
    <3> QED BY <3>1, <3>2
  <2> QED BY <2>3, <2>7
<1>16. IncrementsOK'
  <2>1. ASSUME NEW v \in HeapThreads, NEW h \in Increments(v)' \cap Heaps
        PROVE  \/ \E r \in Returns(v)' \cap Resources : heap_of'[r] = h /\ h \in holds'[v]
               \/ /\ h \in Promised(v)' /\ h \notin Returns(v)'
                  /\ \E r \in Has(v)' \cap Resources : heap_of'[r] = h
    <3>1. v # t /\ h \in Increments(v)
      BY <2>1, <1>5, <1>7
    <3>2. Returns(v)' = Returns(v) /\ Promised(v)' = Promised(v) /\ holds[v] \subseteq holds'[v]
      BY <3>1, <1>8, <1>10
    <3>3. Has(v) \subseteq Has(v)'
      BY <3>2, <1>1 DEF Has
    <3>4. \/ \E r \in Returns(v) \cap Resources : heap_of[r] = h /\ h \in holds[v]
          \/ /\ h \in Promised(v) /\ h \notin Returns(v)
             /\ \E r \in Has(v) \cap Resources : heap_of[r] = h
      BY <3>1, <1>2 DEF IncrementsOK
    <3> QED BY <3>2, <3>3, <3>4, <1>1
  <2>2. ASSUME NEW v \in HeapThreads, NEW r \in (Increments(v)' \cap Resources) \cup DeviceAdds(v)'
        PROVE  r \in keeps'[v] /\ r \in Promised(v)' /\ r \notin Returns(v)'
    <3>1. v # t /\ r \in (Increments(v) \cap Resources) \cup DeviceAdds(v)
      BY <2>2, <1>5, <1>7
    <3> QED BY <3>1, <1>1, <1>2, <1>8 DEF IncrementsOK
  <2>3. ASSUME NEW p \in Shared, NEW v \in HeapThreads, NEW w \in HeapThreads,
               p \in Increments(v)', p \in Promised(v)', p \in Increments(w)', p \in Promised(w)'
        PROVE  v = w
    BY <2>3, <1>2, <1>11 DEF IncrementsOK, SameIncrements
  <2> QED BY <2>1, <2>2, <2>3 DEF IncrementsOK
<1>17. HeapTypes'
  BY <1>1, <1>2, <1>10 DEF HeapTypes
<1> QED BY <1>3, <1>10, <1>12, <1>14, <1>15, <1>16, <1>17 DEF HeapLifetimeInv, Only

LEMMA IncrementInv ==
    ASSUME HeapLifetimeInv, NEW t \in HeapThreads, Increment(t)
    PROVE  HeapLifetimeInv'
<1>1. UNCHANGED <<life, private, refs, private_refs, heap_of, device_refs, holds, keeps>>
  BY DEF Increment
<1>2. /\ TodoOK /\ ReturnsOK /\ IncrementsOK /\ HeapTypes /\ InternalExact /\ FreesOK /\ LifeOK
      /\ PrivateOK
  BY DEF HeapLifetimeInv
<1>3. PICK o \in Shared :
               /\ Object(t) = o /\ Only(t) /\ o \in Increments(t)
               /\ Increments(t)' = Increments(t) \ {o}
               /\ UNCHANGED <<Returns(t), Hands(t), Drops(t), Frees(t), PrivateDrops(t),
                              DeviceAdds(t), DeviceReleases(t)>>
  BY <1>2, IncrementStep
<1>4. \A v \in HeapThreads :
          /\ UNCHANGED <<Returns(v), Hands(v), Drops(v), Frees(v), PrivateDrops(v),
                         DeviceAdds(v), DeviceReleases(v)>>
          /\ Promised(v)' = Promised(v)
          /\ \A p : p \in Increments(v)' <=> p \in Increments(v) /\ ~ (v = t /\ p = o)
  <2> TAKE v \in HeapThreads
  <2>1. CASE v = t
    BY <2>1, <1>3, PromisedSame
  <2>2. CASE v # t
    BY <2>2, <1>3, OthersSame
  <2> QED BY <2>1, <2>2
<1>5. Heaps \cap Resources = {} /\ Shared = Heaps \cup Resources
  BY HeapLifetimeAssumption DEF Shared
<1>6. \/ o \in Promised(t)
      \/ o \in Heaps /\ \E r \in Returns(t) \cap Resources : heap_of[r] = o /\ o \in holds[t]
  BY <1>2, <1>3, <1>5 DEF IncrementsOK
<1>7. internal_refs[o] > 0
  <2>1. refs[o] > 0
    <3>1. t \in Promisers(o) \/ t \in Holders(o)
      BY <1>6 DEF Promisers, Holders
    <3> QED BY <3>1, HeldIsCounted
  <2> QED BY <2>1, PublicIsAlive
<1>8. /\ internal_refs' = [internal_refs EXCEPT ![o] = @ + 1]
      /\ internal_refs \in [Shared -> Nat]
  BY <1>2, <1>3 DEF Increment, HeapTypes
<1>9. /\ internal_refs' \in [Shared -> Nat] /\ internal_refs'[o] = internal_refs[o] + 1
      /\ \A p \in Shared \ {o} : internal_refs'[p] = internal_refs[p]
      /\ \A p \in Shared : internal_refs'[p] > 0 <=> internal_refs[p] > 0
  BY <1>7, <1>8
<1>10. RefsExact' /\ ReturnsOK' /\ HandsOK' /\ DeviceExact'
  BY <1>1, <1>4, RefsKept, ReturnsKept, HandsKept, DeviceKept DEF HeapLifetimeInv
<1>11. IncrementsOK'
  <2>1. \A v \in HeapThreads : Has(v)' = Has(v) /\ Increments(v)' \subseteq Increments(v)
    BY <1>1, <1>4 DEF Has
  <2> QED BY <1>1, <1>2, <1>4, <2>1 DEF IncrementsOK
<1>12. FreesOK'
  <2>1. \A v \in HeapThreads : \A r \in Frees(v) : r # o /\ r \in Shared
    BY <1>2, <1>5, <1>7 DEF FreesOK
  <2> QED BY <1>1, <1>2, <1>4, <1>9, <2>1 DEF FreesOK
<1>13. LifeOK' /\ PrivateOK'
  <2>1. LifeOK'
    BY <1>1, <1>2, <1>4, <1>5, <1>9 DEF LifeOK
  <2>2. PrivateOK'
    BY <1>1, <1>2, <1>4, <1>5, <1>9 DEF PrivateOK
  <2> QED BY <2>1, <2>2
<1>14. HeapTypes'
  BY <1>1, <1>2, <1>9 DEF HeapTypes
<1>15. \A p : Keepers(p)' = Keepers(p) /\ Droppers(p)' = Droppers(p)
  BY <1>1, <1>4 DEF Keepers, Droppers
<1>16. ASSUME NEW p \in Shared \ {o} PROVE ExactAt(p)'
  <2>1. Public(p)' <=> Public(p)
    BY <1>1, <1>4, <1>16 DEF Public, Reviving
  <2>2. Residents(p)' = Residents(p)
    BY <1>1, <1>4, <1>5, <1>9, <1>16 DEF Residents
  <2>3. Users(p)' = Users(p)
    BY <2>2, <1>15 DEF Users
  <2>4. ExactAt(p)
    BY <1>2 DEF InternalExact
  <2> QED BY <2>1, <2>3, <2>4, <1>9, <1>15, ExactKept
<1> PICK n, m \in Nat : n = Cardinality(Users(o)) /\ m = Cardinality(Droppers(o))
  BY FiniteParts
<1>17. ExactAt(o)
  BY <1>2 DEF InternalExact
<1>18. ExactAt(o)'
  <2>1. CASE o \in Promised(t)
    <3>1. Reviving(o)
      BY <2>1, <1>3 DEF Reviving
    <3>2. ~ Reviving(o)'
      BY <2>1, <1>2, <1>3, <1>4 DEF Reviving, IncrementsOK
    <3>3. t \in Promisers(o)
      BY <2>1 DEF Promisers
    <3>4. refs[o] > 0
      BY <3>3, HeldIsCounted
    <3>5. Public(o)' /\ ~ Public(o)
      BY <3>1, <3>2, <3>4, <1>1 DEF Public
    <3>6. ASSUME o \in Heaps PROVE Residents(o)' = Residents(o)
      <4>1. \A r \in Resources : r \notin Promised(t)
        BY <2>1, <3>6, <1>2, <1>5, OnePromise
      <4> QED BY <4>1, <1>1, <1>4, <1>5, <1>9 DEF Residents
    <3>7. Users(o)' = Users(o)
      BY <3>6, <1>15 DEF Users
    <3>8. internal_refs[o] = n + m
      BY <3>5, <1>17 DEF ExactAt
    <3>9. internal_refs'[o] = 1 + Cardinality(Users(o)') + Cardinality(Droppers(o)')
      BY <3>7, <3>8, <1>9, <1>15
    <3> QED BY <3>5, <3>9 DEF ExactAt
  <2>2. CASE o \notin Promised(t)
    <3>1. PICK r \in Returns(t) \cap Resources : heap_of[r] = o
      BY <2>2, <1>6
    <3>2. o \in Heaps /\ r \in Promised(t) /\ r \in Shared
      BY <2>2, <3>1, <1>5, <1>6 DEF Promised
    <3>3. Public(o)' <=> Public(o)
      BY <2>2, <1>1, <1>4 DEF Public, Reviving
    <3>4. \A v \in HeapThreads : r \in Promised(v) => v = t
      BY <3>1, <1>2 DEF ReturnsOK, Promisers
    <3>5. \A s \in Promised(t) : s = r
      BY <3>2, <1>2, OnePromise
    <3>6. internal_refs[r] > 0
      <4>1. t \in Promisers(r)
        BY <3>2 DEF Promisers
      <4> QED BY <4>1, <3>2, HeldIsCounted, PublicIsAlive
    <3>7. r \notin Residents(o)
      BY <3>2, <1>3 DEF Residents
    <3>8. r \in Residents(o)'
      BY <3>1, <3>2, <3>4, <3>6, <1>1, <1>4, <1>9 DEF Residents
    <3>9. \A s \in Resources \ {r} : s \in Residents(o)' <=> s \in Residents(o)
      BY <3>5, <1>1, <1>4, <1>5, <1>9 DEF Residents
    <3>10. Residents(o)' = Residents(o) \cup {r}
      BY <3>1, <3>8, <3>9 DEF Residents
    <3>11. Users(o)' = Users(o) \cup {r} /\ r \notin Users(o)
      BY <3>2, <3>7, <3>10 DEF Users
    <3>12. Cardinality(Users(o)') = n + 1
      BY <3>11, FiniteParts, Counted
    <3>13. CASE Public(o)
      <4>1. internal_refs[o] = 1 + n + m
        BY <3>13, <1>17 DEF ExactAt
      <4>2. internal_refs'[o] = 1 + Cardinality(Users(o)') + Cardinality(Droppers(o)')
        BY <4>1, <3>12, <1>9, <1>15
      <4> QED BY <4>2, <3>3, <3>13 DEF ExactAt
    <3>14. CASE ~ Public(o)
      <4>1. internal_refs[o] = n + m
        BY <3>14, <1>17 DEF ExactAt
      <4>2. internal_refs'[o] = Cardinality(Users(o)') + Cardinality(Droppers(o)')
        BY <4>1, <3>12, <1>9, <1>15
      <4>3. Cardinality(Users(o)') \in Nat /\ Cardinality(Droppers(o)') \in Nat
        BY <3>12, <1>15
      <4> QED BY <4>2, <4>3, <3>3, <3>14 DEF ExactAt
    <3> QED BY <3>13, <3>14
  <2> QED BY <2>1, <2>2
<1>19. InternalExact'
  BY <1>16, <1>18 DEF InternalExact
<1> QED BY <1>3, <1>10, <1>11, <1>12, <1>13, <1>14, <1>19 DEF HeapLifetimeInv, Only

LEMMA ExactMoves ==
    ASSUME HeapTypes, NEW o \in Shared, NEW b \in Int, NEW c \in Int, ExactAt(o),
           Public(o)' <=> Public(o),
           Cardinality(Users(o)') = Cardinality(Users(o)) + b,
           Cardinality(Droppers(o)') = Cardinality(Droppers(o)) + c,
           internal_refs'[o] = internal_refs[o] + b + c
    PROVE  ExactAt(o)'
<1> PICK n, m \in Nat : n = Cardinality(Users(o)) /\ m = Cardinality(Droppers(o))
  BY FiniteParts
<1>1. CASE Public(o)
  <2>1. internal_refs[o] = 1 + n + m
    BY <1>1 DEF ExactAt
  <2>2. internal_refs'[o] = 1 + Cardinality(Users(o)') + Cardinality(Droppers(o)')
    BY <2>1
  <2> QED BY <1>1, <2>2 DEF ExactAt
<1>2. CASE ~ Public(o)
  <2>1. internal_refs[o] = 0 + n + m
    BY <1>2 DEF ExactAt
  <2>2. internal_refs'[o] = 0 + Cardinality(Users(o)') + Cardinality(Droppers(o)')
    BY <2>1
  <2> QED BY <1>2, <2>2 DEF ExactAt
<1> QED BY <1>1, <1>2

LEMMA IncRefInv ==
    ASSUME HeapLifetimeInv, NEW t \in HeapThreads, NEW r \in Resources, IncRef(t, r)
    PROVE  HeapLifetimeInv'
<1>1. /\ UNCHANGED <<life, private, refs, private_refs, heap_of, device_refs, holds, todo>>
      /\ r \in holds[t] /\ r \notin keeps[t] /\ r \in Shared
  BY DEF IncRef, Shared
<1>2. /\ TodoOK /\ ReturnsOK /\ IncrementsOK /\ HeapTypes /\ InternalExact /\ FreesOK /\ LifeOK
      /\ PrivateOK
  BY DEF HeapLifetimeInv
<1>3. Heaps \cap Resources = {} /\ Shared = Heaps \cup Resources
  BY HeapLifetimeAssumption DEF Shared
<1>4. \A v : Due(v)' = Due(v)
  BY <1>1 DEF Due
<1>5. \A v : UNCHANGED <<Returns(v), Hands(v), Increments(v), Drops(v), Frees(v),
                         PrivateDrops(v), DeviceAdds(v), DeviceReleases(v)>>
  BY <1>4 DEF Returns, Hands, Increments, Drops, Frees, PrivateDrops, DeviceAdds, DeviceReleases
<1>6. \A v : Promised(v)' = Promised(v)
  BY <1>5, PromisedSame
<1>7. SameIncrements
  BY <1>5, <1>6 DEF SameIncrements
<1>8. internal_refs[r] > 0
  BY <1>1, OwnedIsResident DEF Has
<1>9. /\ internal_refs' = [internal_refs EXCEPT ![r] = @ + 1]
      /\ internal_refs \in [Shared -> Nat]
      /\ keeps' = [keeps EXCEPT ![t] = @ \cup {r}] /\ keeps \in [HeapThreads -> SUBSET Resources]
  BY <1>2 DEF IncRef, HeapTypes
<1>10. /\ internal_refs' \in [Shared -> Nat] /\ internal_refs'[r] = internal_refs[r] + 1
       /\ \A p \in Shared \ {r} : internal_refs'[p] = internal_refs[p]
       /\ \A p \in Shared : internal_refs'[p] > 0 <=> internal_refs[p] > 0
  BY <1>1, <1>8, <1>9
<1>11. /\ keeps' \in [HeapThreads -> SUBSET Resources] /\ keeps'[t] = keeps[t] \cup {r}
       /\ \A v \in HeapThreads \ {t} : keeps'[v] = keeps[v]
  BY <1>9
<1>12. RefsExact' /\ HandsOK' /\ DeviceExact'
  BY <1>1, <1>5, <1>6, RefsKept, HandsKept, DeviceKept DEF HeapLifetimeInv
<1>13. /\ Keepers(r)' = Keepers(r) \cup {t} /\ t \notin Keepers(r)
       /\ \A p : p # r => Keepers(p)' = Keepers(p)
  BY <1>1, <1>11 DEF Keepers
<1>14. ReturnsOK'
  <2> SUFFICES ASSUME NEW v \in HeapThreads, NEW p \in Returns(v)'
               PROVE  /\ Holders(p)' = {} /\ Promisers(p)' = {v} /\ Keepers(p)' = {}
                      /\ \A s \in Resources : heap_of'[s] = p => s = p
    BY DEF ReturnsOK
  <2>1. p \in Returns(v)
    BY <1>5
  <2>2. /\ Holders(p) = {} /\ Promisers(p) = {v} /\ Keepers(p) = {}
        /\ \A s \in Resources : heap_of[s] = p => s = p
    BY <2>1, <1>2 DEF ReturnsOK
  <2>3. Holders(p)' = Holders(p) /\ Promisers(p)' = Promisers(p)
    BY <1>1, <1>6 DEF Holders, Promisers
  <2>4. p # r
    BY <2>2, <1>1 DEF Holders
  <2> QED BY <1>1, <1>13, <2>2, <2>3, <2>4
<1>15. IncrementsOK'
  <2>1. \A v \in HeapThreads : Has(v) \subseteq Has(v)' /\ keeps[v] \subseteq keeps'[v]
    BY <1>1, <1>11 DEF Has
  <2> QED BY <1>1, <1>2, <1>5, <1>6, <2>1 DEF IncrementsOK
<1>16. FreesOK'
  <2>1. \A v \in HeapThreads : \A s \in Frees(v) : s # r /\ s \in Shared
    BY <1>2, <1>3, <1>8 DEF FreesOK
  <2> QED BY <1>1, <1>2, <1>5, <1>10, <2>1 DEF FreesOK
<1>17. LifeOK'
  BY <1>1, <1>2, <1>3, <1>5, <1>10 DEF LifeOK
<1>18. PrivateOK'
  BY <1>1, <1>2, <1>3, <1>5, <1>10 DEF PrivateOK
<1>19. HeapTypes'
  BY <1>1, <1>2, <1>10, <1>11 DEF HeapTypes
<1>20. \A p \in Shared : Droppers(p)' = Droppers(p) /\ (Public(p)' <=> Public(p))
  BY <1>1, <1>5, <1>7, PublicKept DEF Droppers
<1>21. \A p \in Heaps : Residents(p)' = Residents(p)
  BY <1>1, <1>3, <1>5, <1>6, <1>10 DEF Residents
<1>22. ASSUME NEW p \in Shared \ {r} PROVE ExactAt(p)'
  <2>1. Users(p)' = Users(p)
    BY <1>13, <1>21, <1>22 DEF Users
  <2>2. ExactAt(p)
    BY <1>2 DEF InternalExact
  <2> QED BY <2>1, <2>2, <1>10, <1>20, ExactKept
<1>23. ExactAt(r)'
  <2>1. Users(r)' = Users(r) \cup {t} /\ t \notin Users(r)
    BY <1>3, <1>13 DEF Users
  <2>2. Cardinality(Users(r)') = Cardinality(Users(r)) + 1
    BY <2>1, FiniteParts, Counted
  <2>3. Cardinality(Droppers(r)') = Cardinality(Droppers(r)) + 0
    BY <1>1, <1>20, FiniteParts
  <2>4. ExactAt(r) /\ internal_refs'[r] = internal_refs[r] + 1 + 0
    BY <1>1, <1>2, <1>9, <1>10 DEF InternalExact
  <2> QED BY <2>2, <2>3, <2>4, <1>1, <1>2, <1>20, ExactMoves
<1>24. InternalExact'
  BY <1>22, <1>23 DEF InternalExact
<1>25. TodoOK'
  BY <1>1, <1>2 DEF TodoOK
<1> QED BY <1>12, <1>14, <1>15, <1>16, <1>17, <1>18, <1>19, <1>24, <1>25 DEF HeapLifetimeInv

LEMMA DecRefInv ==
    ASSUME HeapLifetimeInv, NEW t \in HeapThreads, NEW r \in Resources, DecRef(t, r)
    PROVE  HeapLifetimeInv'
<1>1. /\ UNCHANGED <<life, private, refs, internal_refs, private_refs, heap_of, device_refs, holds>>
      /\ Idle(t) /\ r \in keeps[t] /\ Will(t, << <<"decref", r>> >>) /\ r \in Shared
  BY DEF DecRef, Shared
<1>2. TodoOK /\ ReturnsOK /\ IncrementsOK /\ HeapTypes /\ InternalExact
  BY DEF HeapLifetimeInv
<1>3. Heaps \cap Resources = {} /\ Shared = Heaps \cup Resources
  BY HeapLifetimeAssumption DEF Shared
<1>4. Only(t) /\ Quiet(t) /\ Doing(t, {}, {}, {}, {r}, {}, {}, {}, {})'
  BY <1>1, <1>2, DropBegins
<1>5. /\ Returns(t) = {} /\ Hands(t) = {} /\ Increments(t) = {} /\ Drops(t) = {} /\ Frees(t) = {}
      /\ PrivateDrops(t) = {} /\ DeviceAdds(t) = {} /\ DeviceReleases(t) = {}
  BY <1>4, DoingNow DEF Quiet
<1>6. /\ Returns(t)' = {} /\ Hands(t)' = {} /\ Increments(t)' = {} /\ Drops(t)' = {r}
      /\ Frees(t)' = {} /\ PrivateDrops(t)' = {} /\ DeviceAdds(t)' = {} /\ DeviceReleases(t)' = {}
  BY <1>4, DoingNext
<1>7. \A v \in HeapThreads :
          /\ UNCHANGED <<Returns(v), Hands(v), Increments(v), Frees(v), PrivateDrops(v),
                         DeviceAdds(v), DeviceReleases(v)>>
          /\ Promised(v)' = Promised(v)
  <2> TAKE v \in HeapThreads
  <2>1. CASE v = t
    BY <2>1, <1>5, <1>6, PromisedSame
  <2>2. CASE v # t
    BY <2>2, <1>4, OthersSame
  <2> QED BY <2>1, <2>2
<1>8. SameIncrements
  BY <1>7 DEF SameIncrements
<1>9. keeps' = [keeps EXCEPT ![t] = @ \ {r}] /\ keeps \in [HeapThreads -> SUBSET Resources]
  BY <1>2 DEF DecRef, HeapTypes
<1>10. /\ keeps' \in [HeapThreads -> SUBSET Resources] /\ keeps'[t] = keeps[t] \ {r}
       /\ \A v \in HeapThreads \ {t} : keeps'[v] = keeps[v]
  BY <1>9
<1>11. /\ Keepers(r)' = Keepers(r) \ {t} /\ t \in Keepers(r)
       /\ \A p : p # r => Keepers(p)' = Keepers(p)
  BY <1>1, <1>10 DEF Keepers
<1>12. RefsExact' /\ HandsOK' /\ DeviceExact' /\ LifeOK' /\ PrivateOK' /\ FreesOK'
  BY <1>1, <1>7, RefsKept, HandsKept, DeviceKept, LifeKept, PrivateKept, FreesKept
     DEF HeapLifetimeInv
<1>13. ReturnsOK'
  <2>1. \A p : /\ Holders(p)' = Holders(p) /\ Promisers(p)' = Promisers(p)
               /\ Keepers(p)' \subseteq Keepers(p)
    BY <1>1, <1>7, <1>11 DEF Holders, Promisers
  <2> QED BY <1>1, <1>2, <1>7, <2>1 DEF ReturnsOK
<1>14. IncrementsOK'
  <2>1. \A v \in HeapThreads \ {t} : Has(v)' = Has(v) /\ keeps'[v] = keeps[v]
    BY <1>1, <1>10 DEF Has
  <2>2. \A v \in HeapThreads : Increments(v)' # {} \/ DeviceAdds(v)' # {} => v # t
    BY <1>6
  <2>3. ASSUME NEW v \in HeapThreads, NEW h \in Increments(v)' \cap Heaps
        PROVE  \/ \E s \in Returns(v)' \cap Resources : heap_of'[s] = h /\ h \in holds'[v]
               \/ /\ h \in Promised(v)' /\ h \notin Returns(v)'
                  /\ \E s \in Has(v)' \cap Resources : heap_of'[s] = h
    <3>1. v # t /\ h \in Increments(v) \cap Heaps
      BY <2>2, <2>3, <1>7
    <3> QED BY <3>1, <2>1, <1>1, <1>2, <1>7 DEF IncrementsOK
  <2>4. ASSUME NEW v \in HeapThreads, NEW s \in (Increments(v)' \cap Resources) \cup DeviceAdds(v)'
        PROVE  s \in keeps'[v] /\ s \in Promised(v)' /\ s \notin Returns(v)'
    <3>1. v # t /\ s \in (Increments(v) \cap Resources) \cup DeviceAdds(v)
      BY <2>2, <2>4, <1>7
    <3> QED BY <3>1, <2>1, <1>2, <1>7 DEF IncrementsOK
  <2>5. \A p \in Shared : \A v, w \in HeapThreads :
            p \in Increments(v)' /\ p \in Promised(v)' /\ p \in Increments(w)' /\ p \in Promised(w)'
                => v = w
    BY <1>2, <1>7 DEF IncrementsOK
  <2> QED BY <2>3, <2>4, <2>5 DEF IncrementsOK
<1>15. HeapTypes'
  BY <1>1, <1>2, <1>10 DEF HeapTypes
<1>16. /\ Droppers(r)' = Droppers(r) \cup {t} /\ t \notin Droppers(r)
       /\ \A p : p # r => Droppers(p)' = Droppers(p)
  <2>1. \A v \in HeapThreads \ {t} : Drops(v)' = Drops(v)
    BY <1>4, OthersSame
  <2> QED BY <2>1, <1>5, <1>6 DEF Droppers
<1>17. \A p \in Shared : Public(p)' <=> Public(p)
  BY <1>1, <1>8, PublicKept
<1>18. \A p \in Heaps : Residents(p)' = Residents(p)
  BY <1>1, <1>7 DEF Residents
<1>19. ASSUME NEW p \in Shared \ {r} PROVE ExactAt(p)'
  <2>1. Users(p)' = Users(p)
    BY <1>11, <1>18, <1>19 DEF Users
  <2>2. ExactAt(p) /\ internal_refs'[p] = internal_refs[p]
    BY <1>1, <1>2 DEF InternalExact
  <2> QED BY <2>1, <2>2, <1>16, <1>17, ExactKept
<1>20. ExactAt(r)'
  <2>1. Users(r)' = Users(r) \ {t} /\ t \in Users(r)
    BY <1>3, <1>11 DEF Users
  <2> PICK n, m \in Nat : n = Cardinality(Users(r)) /\ m = Cardinality(Droppers(r))
    BY FiniteParts
  <2>2. Cardinality(Users(r)') = n + (-1)
    BY <2>1, FiniteParts, Counted
  <2>3. Cardinality(Droppers(r)') = m + 1
    BY <1>16, FiniteParts, Counted
  <2>4. internal_refs[r] \in Int
    BY <1>1, <1>2 DEF HeapTypes
  <2>5. ExactAt(r) /\ internal_refs'[r] = internal_refs[r] + (-1) + 1
    BY <1>1, <1>2, <2>4 DEF InternalExact
  <2> QED BY <2>2, <2>3, <2>5, <1>1, <1>2, <1>17, ExactMoves
<1>21. InternalExact'
  BY <1>19, <1>20 DEF InternalExact
<1> QED BY <1>4, <1>12, <1>13, <1>14, <1>15, <1>21 DEF HeapLifetimeInv, Only

LEMMA DeviceMoves ==
    ASSUME DeviceExact, HeapTypes, device_refs' \in Int, NEW a \in Int, NEW b \in Int, NEW c \in Int,
           NEW d \in Int
    PROVE  /\ Cardinality(LiveHeaps') = Cardinality(LiveHeaps) + a
           /\ Cardinality(PublicResources') = Cardinality(PublicResources) + b
           /\ Cardinality(AllReleases') = Cardinality(AllReleases) + c
           /\ Cardinality(AllAdds') = Cardinality(AllAdds) + d
           /\ device_refs' + d = device_refs + a + b + c
           => DeviceExact'
<1>1. PICK n, m, i, j \in Int : /\ n = Cardinality(AllReleases) /\ m = Cardinality(AllAdds)
                                /\ i = Cardinality(LiveHeaps) /\ j = Cardinality(PublicResources)
  BY FiniteSets, FS_CardinalityType
<1>2. PICK x, y \in Int : x = device_refs /\ y = device_refs'
  BY DEF HeapTypes
<1>3. /\ n \in Int /\ m \in Int /\ i \in Int /\ j \in Int /\ x \in Int /\ y \in Int
      /\ x + m = i + j + n
  BY <1>1, <1>2 DEF DeviceExact
<1>4. y + d = x + a + b + c => y + (m + d) = (i + a) + (j + b) + (n + c)
  BY <1>3
<1> QED BY <1>1, <1>2, <1>4 DEF DeviceExact

LEMMA CountsStay ==
    /\ Cardinality(LiveHeaps) \in Int /\ Cardinality(PublicResources) \in Int
    /\ Cardinality(AllReleases) \in Int /\ Cardinality(AllAdds) \in Int
BY FiniteSets, FS_CardinalityType

LEMMA ReleasesGain ==
    ASSUME NEW t \in HeapThreads, Only(t), NEW o \in Shared, o \notin DeviceReleases(t),
           DeviceReleases(t)' = DeviceReleases(t) \cup {o}
    PROVE  Cardinality(AllReleases') = Cardinality(AllReleases) + 1
<1>1. AllReleases \subseteq HeapThreads \X Shared /\ AllReleases' \subseteq HeapThreads \X Shared
  BY DEF AllReleases
<1>2. \A v \in HeapThreads, p \in Shared :
          /\ <<v, p>> \in AllReleases <=> p \in DeviceReleases(v)
          /\ <<v, p>> \in AllReleases' <=> p \in DeviceReleases(v)'
  BY DEF AllReleases
<1>3. \A v \in HeapThreads \ {t} : DeviceReleases(v)' = DeviceReleases(v)
  BY OthersSame
<1>4. AllReleases' = AllReleases \cup {<<t, o>>}
  BY <1>1, <1>2, <1>3, PairsChange
<1>5. <<t, o>> \notin AllReleases
  BY <1>2
<1> QED BY <1>4, <1>5, FiniteSets, Counted

LEMMA AddsGain ==
    ASSUME NEW t \in HeapThreads, Only(t), NEW o \in Shared, o \notin DeviceAdds(t),
           DeviceAdds(t)' = DeviceAdds(t) \cup {o}
    PROVE  Cardinality(AllAdds') = Cardinality(AllAdds) + 1
<1>1. AllAdds \subseteq HeapThreads \X Shared /\ AllAdds' \subseteq HeapThreads \X Shared
  BY DEF AllAdds
<1>2. \A v \in HeapThreads, p \in Shared :
          /\ <<v, p>> \in AllAdds <=> p \in DeviceAdds(v)
          /\ <<v, p>> \in AllAdds' <=> p \in DeviceAdds(v)'
  BY DEF AllAdds
<1>3. \A v \in HeapThreads \ {t} : DeviceAdds(v)' = DeviceAdds(v)
  BY OthersSame
<1>4. AllAdds' = AllAdds \cup {<<t, o>>}
  BY <1>1, <1>2, <1>3, PairsChange
<1>5. <<t, o>> \notin AllAdds
  BY <1>2
<1> QED BY <1>4, <1>5, FiniteSets, Counted

LEMMA ReleasesStay ==
    ASSUME NEW t, Only(t), DeviceReleases(t)' = DeviceReleases(t)
    PROVE  AllReleases' = AllReleases
<1>1. \A v \in HeapThreads : DeviceReleases(v)' = DeviceReleases(v)
  BY OthersSame
<1> QED BY <1>1 DEF AllReleases

LEMMA AddsStay ==
    ASSUME NEW t, Only(t), DeviceAdds(t)' = DeviceAdds(t)
    PROVE  AllAdds' = AllAdds
<1>1. \A v \in HeapThreads : DeviceAdds(v)' = DeviceAdds(v)
  BY OthersSame
<1> QED BY <1>1 DEF AllAdds

LEMMA HeapDecrefInv ==
    ASSUME HeapLifetimeInv, NEW t \in HeapThreads, HeapDecref(t)
    PROVE  HeapLifetimeInv'
<1>1. UNCHANGED <<private, refs, private_refs, heap_of, device_refs, holds, keeps>>
  BY DEF HeapDecref
<1>2. /\ TodoOK /\ HeapTypes /\ InternalExact /\ FreesOK /\ LifeOK /\ PrivateOK /\ DeviceExact
  BY DEF HeapLifetimeInv
<1>3. Heaps \cap Resources = {} /\ Shared = Heaps \cup Resources
  BY HeapLifetimeAssumption DEF Shared
<1>4. PICK h \in Heaps :
               /\ Object(t) = h /\ Only(t) /\ h \in Drops(t)
               /\ Drops(t)' = Drops(t) \ {h}
               /\ UNCHANGED <<Returns(t), Hands(t), Increments(t), Frees(t), PrivateDrops(t),
                              DeviceAdds(t)>>
               /\ internal_refs[h] # 1 => DeviceReleases(t)' = DeviceReleases(t)
               /\ internal_refs[h] = 1 => /\ h \notin DeviceReleases(t)
                                          /\ DeviceReleases(t)' = DeviceReleases(t) \cup {h}
  BY <1>2, HeapDecrefStep
<1>5. \A v \in HeapThreads :
          /\ UNCHANGED <<Returns(v), Hands(v), Increments(v), Frees(v), PrivateDrops(v),
                         DeviceAdds(v)>>
          /\ Promised(v)' = Promised(v)
          /\ \A p : p \in Drops(v)' <=> p \in Drops(v) /\ ~ (v = t /\ p = h)
  <2> TAKE v \in HeapThreads
  <2>1. CASE v = t
    BY <2>1, <1>4, PromisedSame
  <2>2. CASE v # t
    BY <2>2, <1>4, OthersSame
  <2> QED BY <2>1, <2>2
<1>6. SameIncrements
  BY <1>5 DEF SameIncrements
<1>7. /\ Droppers(h)' = Droppers(h) \ {t} /\ t \in Droppers(h)
      /\ \A p : p # h => Droppers(p)' = Droppers(p)
  BY <1>4, <1>5 DEF Droppers
<1>8. h \in Shared /\ internal_refs[h] > 0
  BY <1>3, <1>7, UsedIsCounted
<1>9. internal_refs' = [internal_refs EXCEPT ![h] = @ - 1] /\ internal_refs \in [Shared -> Nat]
  BY <1>2, <1>4 DEF HeapDecref, HeapTypes
<1>10. /\ internal_refs' \in [Shared -> Nat] /\ internal_refs'[h] = internal_refs[h] - 1
       /\ \A p \in Shared \ {h} : internal_refs'[p] = internal_refs[p]
       /\ \A r \in Resources : internal_refs'[r] = internal_refs[r]
  BY <1>3, <1>8, <1>9
<1>11. /\ life' \in [Shared -> {"none", "live", "freed"}]
       /\ \A p \in Shared \ {h} : life'[p] = life[p]
       /\ \A r \in Resources : life'[r] = life[r]
       /\ life'[h] = IF internal_refs[h] = 1 THEN "freed" ELSE life[h]
  <2>1. life \in [Shared -> {"none", "live", "freed"}]
    BY <1>2 DEF HeapTypes
  <2>2. life' = IF internal_refs[h] = 1 THEN [life EXCEPT ![h] = "freed"] ELSE life
    BY <1>4 DEF HeapDecref
  <2> QED BY <2>1, <2>2, <1>3, <1>8
<1>12. RefsExact' /\ ReturnsOK' /\ HandsOK' /\ IncrementsOK'
  BY <1>1, <1>5, RefsKept, ReturnsKept, HandsKept, IncrementsKept DEF HeapLifetimeInv
<1>13. PrivateOK'
  BY <1>1, <1>2, <1>5, <1>10 DEF PrivateOK
<1>14. FreesOK'
  BY <1>1, <1>2, <1>5, <1>10, <1>11 DEF FreesOK
<1>15. LifeOK'
  <2>1. life'[h] = "live" <=> internal_refs'[h] > 0
    <3>1. life[h] = "live" /\ internal_refs[h] \in Nat
      BY <1>2, <1>8, <1>9 DEF LifeOK
    <3>2. CASE internal_refs[h] = 1
      BY <3>2, <1>10, <1>11
    <3>3. CASE internal_refs[h] # 1
      BY <3>1, <3>3, <1>8, <1>10, <1>11
    <3> QED BY <3>2, <3>3
  <2>2. life[h] = "live" /\ life'[h] # "none"
    BY <1>2, <1>8, <1>11 DEF LifeOK
  <2> QED BY <2>1, <2>2, <1>1, <1>2, <1>3, <1>5, <1>10, <1>11 DEF LifeOK
<1>16. HeapTypes'
  BY <1>1, <1>2, <1>10, <1>11 DEF HeapTypes
<1>17. \A p \in Shared : (Public(p)' <=> Public(p)) /\ Users(p)' = Users(p)
  BY <1>1, <1>6, <1>10, PublicKept, UsersKept
<1>18. ASSUME NEW p \in Shared \ {h} PROVE ExactAt(p)'
  <2>1. ExactAt(p)
    BY <1>2 DEF InternalExact
  <2> QED BY <2>1, <1>7, <1>10, <1>17, ExactKept
<1>19. ExactAt(h)'
  <2> PICK n, m \in Nat : n = Cardinality(Users(h)) /\ m = Cardinality(Droppers(h))
    BY FiniteParts
  <2>1. Cardinality(Users(h)') = n + 0 /\ Cardinality(Droppers(h)') = m + (-1)
    BY <1>7, <1>8, <1>17, FiniteParts, Counted
  <2>2. ExactAt(h) /\ internal_refs'[h] = internal_refs[h] + 0 + (-1)
    BY <1>2, <1>8, <1>9, <1>10 DEF InternalExact
  <2> QED BY <2>1, <2>2, <1>2, <1>8, <1>17, ExactMoves
<1>20. InternalExact'
  BY <1>18, <1>19 DEF InternalExact
<1>21. DeviceExact'
  <2>1. AllAdds' = AllAdds /\ PublicResources' = PublicResources
    BY <1>1, <1>4, AddsStay DEF PublicResources
  <2>2. device_refs' = device_refs /\ device_refs \in Int
    BY <1>1, <1>2 DEF HeapTypes
  <2>3. CASE internal_refs[h] = 1
    <3>1. Cardinality(AllReleases') = Cardinality(AllReleases) + 1
      BY <2>3, <1>4, <1>8, ReleasesGain
    <3>2. LiveHeaps' = LiveHeaps \ {h} /\ h \in LiveHeaps
      BY <2>3, <1>2, <1>3, <1>8, <1>11 DEF LiveHeaps, LifeOK
    <3>3. Cardinality(LiveHeaps') = Cardinality(LiveHeaps) + (-1)
      BY <3>2, FiniteSets, Counted
    <3>4. /\ Cardinality(PublicResources') = Cardinality(PublicResources) + 0
          /\ Cardinality(AllAdds') = Cardinality(AllAdds) + 0
      BY <2>1, CountsStay
    <3>5. device_refs' + 0 = device_refs + (-1) + 0 + 1
      BY <2>2
    <3> QED BY <3>1, <3>3, <3>4, <3>5, <2>2, <1>2, DeviceMoves
  <2>4. CASE internal_refs[h] # 1
    <3>1. AllReleases' = AllReleases
      BY <2>4, <1>4, ReleasesStay
    <3>2. LiveHeaps' = LiveHeaps
      BY <2>4, <1>3, <1>11 DEF LiveHeaps
    <3> QED BY <3>1, <3>2, <2>1, <2>2, <1>2 DEF DeviceExact
  <2> QED BY <2>3, <2>4
<1> QED BY <1>4, <1>12, <1>13, <1>14, <1>15, <1>16, <1>20, <1>21 DEF HeapLifetimeInv, Only

\* Who counted in the last internal reference of a resource.
LEMMA LastDropper ==
    ASSUME HeapLifetimeInv, NEW r \in Resources, NEW t \in Droppers(r), internal_refs[r] = 1
    PROVE  ~ Public(r) /\ Keepers(r) = {} /\ Promisers(r) = {}
<1>1. r \in Shared /\ r \notin Heaps
  BY HeapLifetimeAssumption DEF Shared
<1>2. Users(r) = Keepers(r)
  BY <1>1 DEF Users
<1> PICK n, m \in Nat : n = Cardinality(Keepers(r)) /\ m = Cardinality(Droppers(r))
  BY <1>2, FiniteParts
<1>3. 1 = (IF Public(r) THEN 1 ELSE 0) + n + m
  BY <1>1, <1>2 DEF HeapLifetimeInv, InternalExact, ExactAt
<1>4. m > 0 /\ (n = 0 => Keepers(r) = {})
  <2>1. Cardinality(Keepers(r)) = 0 => Keepers(r) = {}
    BY FiniteParts, Counted
  <2>2. Cardinality(Droppers(r)) # 0
    BY FiniteParts, Counted
  <2> QED BY <2>1, <2>2
<1>5. ~ Public(r) /\ Keepers(r) = {}
  BY <1>3, <1>4
<1>6. ASSUME NEW v \in Promisers(r) PROVE FALSE
  <2>1. refs[r] > 0
    BY <1>1, <1>6, HeldIsCounted
  <2>2. PICK w \in HeapThreads : r \in Increments(w)
    BY <2>1, <1>5 DEF Public, Reviving
  <2>3. r \in keeps[w]
    BY <2>2 DEF HeapLifetimeInv, IncrementsOK
  <2> QED BY <2>3, <1>5 DEF Keepers
<1> QED BY <1>5, <1>6

LEMMA DecrefInv ==
    ASSUME HeapLifetimeInv, NEW t \in HeapThreads, Decref(t)
    PROVE  HeapLifetimeInv'
<1>1. UNCHANGED <<life, private, refs, private_refs, heap_of, device_refs, holds, keeps>>
  BY DEF Decref
<1>2. /\ TodoOK /\ HeapTypes /\ InternalExact /\ FreesOK /\ LifeOK /\ PrivateOK
  BY DEF HeapLifetimeInv
<1>3. Heaps \cap Resources = {} /\ Shared = Heaps \cup Resources
  BY HeapLifetimeAssumption DEF Shared
<1>4. PICK r \in Resources :
               /\ Object(t) = r /\ Only(t)
               /\ Drops(t) = {r} /\ Increments(t) = {} /\ Frees(t) = {} /\ PrivateDrops(t) = {}
               /\ DeviceAdds(t) = {} /\ Increments(t)' = {} /\ DeviceAdds(t)' = {}
               /\ UNCHANGED <<Returns(t), Hands(t), DeviceReleases(t)>>
               /\ internal_refs[r] # 1 =>
                      Drops(t)' = {} /\ Frees(t)' = {} /\ PrivateDrops(t)' = {}
               /\ internal_refs[r] = 1 =>
                      /\ Drops(t)' = {heap_of[r]} \cap Heaps /\ Frees(t)' = {r}
                      /\ PrivateDrops(t)' = {heap_of[r]} \cap {r}
  <2>1. /\ heap_of \in [Resources -> Heaps \cup {NoHeap} \cup Resources]
        /\ \A r \in Resources : heap_of[r] \in Resources => heap_of[r] = r
    BY <1>2 DEF HeapTypes
  <2> QED BY <2>1, <1>2, DecrefStep
<1>5. \A v \in HeapThreads :
          /\ UNCHANGED <<Returns(v), Hands(v), Increments(v), DeviceAdds(v), DeviceReleases(v)>>
          /\ Promised(v)' = Promised(v)
  <2> TAKE v \in HeapThreads
  <2>1. CASE v = t
    BY <2>1, <1>4, PromisedSame
  <2>2. CASE v # t
    BY <2>2, <1>4, OthersSame
  <2> QED BY <2>1, <2>2
<1>6. \A v \in HeapThreads \ {t} :
          Drops(v)' = Drops(v) /\ Frees(v)' = Frees(v) /\ PrivateDrops(v)' = PrivateDrops(v)
  BY <1>4, OthersSame
<1>7. SameIncrements
  BY <1>5 DEF SameIncrements
<1>8. RefsExact' /\ ReturnsOK' /\ HandsOK' /\ IncrementsOK' /\ DeviceExact'
  BY <1>1, <1>5, RefsKept, ReturnsKept, HandsKept, IncrementsKept, DeviceKept DEF HeapLifetimeInv
<1>9. /\ t \in Droppers(r) /\ Droppers(r)' = Droppers(r) \ {t}
      /\ \A p : p # r /\ p \notin Drops(t)' => Droppers(p)' = Droppers(p)
  <2>1. r \notin Drops(t)'
    BY <1>3, <1>4
  <2> QED BY <2>1, <1>4, <1>6 DEF Droppers
<1>10. r \in Shared /\ internal_refs[r] > 0
  BY <1>3, <1>9, UsedIsCounted
<1>11. internal_refs' = [internal_refs EXCEPT ![r] = @ - 1] /\ internal_refs \in [Shared -> Nat]
  BY <1>2, <1>4 DEF Decref, HeapTypes
<1>12. /\ internal_refs' \in [Shared -> Nat] /\ internal_refs'[r] = internal_refs[r] - 1
       /\ \A p \in Shared \ {r} : internal_refs'[p] = internal_refs[p]
       /\ internal_refs[r] \in Nat
  BY <1>10, <1>11
<1>13. HeapTypes'
  BY <1>1, <1>2, <1>12 DEF HeapTypes
<1>14. \A p \in Shared : Public(p)' <=> Public(p)
  BY <1>1, <1>7, PublicKept
<1>15. Users(r)' = Users(r)
  <2>1. Keepers(r)' = Keepers(r) /\ r \notin Heaps
    BY <1>1, <1>3 DEF Keepers
  <2> QED BY <2>1 DEF Users
<1>16. ExactAt(r)'
  <2> PICK n, m \in Nat : n = Cardinality(Users(r)) /\ m = Cardinality(Droppers(r))
    BY FiniteParts
  <2>1. Cardinality(Users(r)') = n + 0 /\ Cardinality(Droppers(r)') = m + (-1)
    BY <1>9, <1>15, FiniteParts, Counted
  <2>2. ExactAt(r) /\ internal_refs'[r] = internal_refs[r] + 0 + (-1)
    BY <1>2, <1>10, <1>12 DEF InternalExact
  <2> QED BY <2>1, <2>2, <1>2, <1>10, <1>14, ExactMoves
<1>17. \A v \in HeapThreads : r \notin Frees(v)
  BY <1>2, <1>10 DEF FreesOK
<1>18. CASE internal_refs[r] # 1
  <2>1. Drops(t)' = {} /\ \A v \in HeapThreads : /\ Frees(v)' = Frees(v)
                                                 /\ PrivateDrops(v)' = PrivateDrops(v)
    BY <1>4, <1>6, <1>18
  <2>2. \A p \in Shared : internal_refs'[p] > 0 <=> internal_refs[p] > 0
    BY <1>10, <1>12, <1>18
  <2>3. \A p \in Shared : Users(p)' = Users(p)
    BY <2>2, <1>1, <1>3, <1>7, UsersKept
  <2>4. ASSUME NEW p \in Shared \ {r} PROVE ExactAt(p)'
    <3>1. ExactAt(p)
      BY <1>2 DEF InternalExact
    <3>2. Droppers(p)' = Droppers(p)
      BY <2>1, <1>9
    <3> QED BY <3>1, <3>2, <2>3, <1>12, <1>14, ExactKept
  <2>5. InternalExact'
    BY <2>4, <1>16 DEF InternalExact
  <2>6. LifeOK'
    BY <2>1, <2>2, <1>1, <1>2, <1>3 DEF LifeOK
  <2>7. PrivateOK'
    BY <2>1, <2>2, <1>1, <1>2, <1>3 DEF PrivateOK
  <2>8. FreesOK'
    BY <2>1, <1>1, <1>2, <1>3, <1>12, <1>17 DEF FreesOK
  <2> QED BY <2>5, <2>6, <2>7, <2>8, <1>4, <1>8, <1>13 DEF HeapLifetimeInv, Only
<1>19. CASE internal_refs[r] = 1
  <2>1. Promisers(r) = {}
    BY <1>9, <1>19, LastDropper
  <2>2. internal_refs'[r] = 0
    BY <1>12, <1>19
  <2>3. \A v \in HeapThreads : r \notin Promised(v)
    BY <2>1 DEF Promisers
  <2>4. \A h \in Heaps : heap_of[r] # h => Residents(h)' = Residents(h)
    BY <1>1, <1>3, <1>5, <1>12 DEF Residents
  <2>5. ASSUME NEW h \in Heaps, heap_of[r] = h
        PROVE  Residents(h)' = Residents(h) \ {r} /\ r \in Residents(h)
    BY <2>2, <2>3, <2>5, <1>1, <1>3, <1>5, <1>10, <1>12 DEF Residents
  <2>6. \A p \in Resources : Users(p)' = Users(p)
    <3>1. \A p : Keepers(p)' = Keepers(p)
      BY <1>1 DEF Keepers
    <3> QED BY <3>1, <1>3 DEF Users
  <2>7. ASSUME NEW p \in Shared \ {r}, p = heap_of[r], p \in Heaps PROVE ExactAt(p)'
    <3>1. Users(p)' = Users(p) \ {r} /\ r \in Users(p)
      BY <2>5, <2>7 DEF Users
    <3>2. Droppers(p)' = Droppers(p) \cup {t} /\ t \notin Droppers(p)
      BY <2>7, <1>4, <1>6, <1>19 DEF Droppers
    <3> PICK n, m \in Nat : n = Cardinality(Users(p)) /\ m = Cardinality(Droppers(p))
      BY FiniteParts
    <3>3. Cardinality(Users(p)') = n + (-1)
      BY <3>1, FiniteParts, Counted
    <3>4. Cardinality(Droppers(p)') = m + 1
      BY <3>2, FiniteParts, Counted
    <3>5. internal_refs[p] \in Nat
      BY <1>11
    <3>6. ExactAt(p) /\ internal_refs'[p] = internal_refs[p] + (-1) + 1
      BY <3>5, <1>2, <1>12 DEF InternalExact
    <3> QED BY <3>3, <3>4, <3>6, <1>2, <1>14, ExactMoves
  <2>8. ASSUME NEW p \in Shared \ {r}, ~ (p = heap_of[r] /\ p \in Heaps) PROVE ExactAt(p)'
    <3>1. Users(p)' = Users(p)
      BY <2>4, <2>6, <2>8, <1>3 DEF Users
    <3>2. Droppers(p)' = Droppers(p)
      BY <2>8, <1>4, <1>9, <1>19
    <3>3. ExactAt(p)
      BY <1>2 DEF InternalExact
    <3> QED BY <3>1, <3>2, <3>3, <1>12, <1>14, ExactKept
  <2>9. InternalExact'
    BY <2>7, <2>8, <1>16 DEF InternalExact
  <2>10. /\ Frees(t)' = {r} /\ Frees(t) = {} /\ PrivateDrops(t) = {}
         /\ \A p : p \in PrivateDrops(t)' <=> p = r /\ heap_of[r] = r
    BY <1>4, <1>19
  <2>11. life[r] = "live"
    BY <1>2, <1>10 DEF LifeOK
  <2>12. \A v \in HeapThreads : \A p \in Resources :
             /\ p \in Frees(v)' <=> p \in Frees(v) \/ (v = t /\ p = r)
             /\ p \in PrivateDrops(v)' <=> p \in PrivateDrops(v) \/ (v = t /\ p = r /\ heap_of[r] = r)
    BY <2>10, <1>6
  <2>13. LifeOK'
    BY <2>2, <2>12, <1>1, <1>2, <1>3, <1>12 DEF LifeOK
  <2>14. PrivateOK'
    <3>1. ASSUME NEW p \in Resources
          PROVE  private[p] = "live" <=>
                     /\ heap_of[p] = p
                     /\ internal_refs'[p] > 0 \/ \E v \in HeapThreads : p \in PrivateDrops(v)'
      <4>1. private[p] = "live" <=>
                     /\ heap_of[p] = p
                     /\ internal_refs[p] > 0 \/ \E v \in HeapThreads : p \in PrivateDrops(v)
        BY <1>2 DEF PrivateOK
      <4>2. CASE p = r
        BY <4>1, <4>2, <2>10, <1>10
      <4>3. CASE p # r
        BY <4>1, <4>3, <2>12, <1>3, <1>12
      <4> QED BY <4>2, <4>3
    <3> QED BY <3>1, <1>1, <1>2 DEF PrivateOK
  <2>15. FreesOK'
    <3>1. ASSUME NEW v \in HeapThreads, NEW p \in Frees(v)'
          PROVE  /\ p \in Resources /\ internal_refs'[p] = 0 /\ life[p] = "live"
                 /\ \A w \in HeapThreads : p \in Frees(w)' => w = v
      <4>1. CASE v = t
        BY <4>1, <3>1, <2>2, <2>10, <2>11, <1>6, <1>17
      <4>2. CASE v # t
        <5>1. p \in Frees(v) /\ p # r
          BY <4>2, <3>1, <1>6, <1>17
        <5>2. /\ p \in Resources /\ internal_refs[p] = 0 /\ life[p] = "live"
              /\ \A w \in HeapThreads : p \in Frees(w) => w = v
          BY <5>1, <1>2 DEF FreesOK
        <5> QED BY <5>1, <5>2, <2>12, <1>3, <1>12
      <4> QED BY <4>1, <4>2
    <3>2. ASSUME NEW v \in HeapThreads, NEW p \in PrivateDrops(v)'
          PROVE  p \in Frees(v)' /\ heap_of[p] = p
      <4>1. CASE v = t
        BY <4>1, <3>2, <2>10
      <4>2. CASE v # t
        BY <4>2, <3>2, <1>2, <1>6 DEF FreesOK
      <4> QED BY <4>1, <4>2
    <3> QED BY <3>1, <3>2, <1>1 DEF FreesOK
  <2> QED BY <2>9, <2>13, <2>14, <2>15, <1>4, <1>8, <1>13 DEF HeapLifetimeInv, Only
<1> QED BY <1>18, <1>19

LEMMA ReleaseInv ==
    ASSUME HeapLifetimeInv, NEW t \in HeapThreads, NEW o \in Shared, Release(t, o)
    PROVE  HeapLifetimeInv'
<1>1. /\ UNCHANGED <<life, private, internal_refs, private_refs, heap_of, device_refs, keeps>>
      /\ Idle(t) /\ o \in holds[t]
  BY DEF Release
<1>2. /\ TodoOK /\ HeapTypes /\ InternalExact /\ ReturnsOK /\ HandsOK /\ IncrementsOK /\ DeviceExact
      /\ RefsExact
  BY DEF HeapLifetimeInv
<1>3. Heaps \cap Resources = {} /\ Shared = Heaps \cup Resources
  BY HeapLifetimeAssumption DEF Shared
<1>4. /\ Only(t) /\ Quiet(t) /\ Returns(t)' = {} /\ Hands(t)' = {} /\ Increments(t)' = {}
      /\ Frees(t)' = {} /\ PrivateDrops(t)' = {} /\ DeviceAdds(t)' = {}
      /\ Drops(t)' = IF refs[o] = 1 THEN {o} ELSE {}
      /\ DeviceReleases(t)' = IF refs[o] = 1 /\ o \in Resources THEN {o} ELSE {}
  <2>1. CASE refs[o] # 1
    <3>1. Will(t, <<>>)
      BY <2>1 DEF Release
    <3>2. Only(t) /\ Quiet(t) /\ Quiet(t)'
      BY <3>1, <1>1, <1>2, BeginsWithNone
    <3> QED BY <3>2, <2>1, DoingNext DEF Quiet
  <2>2. CASE refs[o] = 1 /\ o \in Heaps
    <3>1. Will(t, << <<"heap_decref", o>> >>)
      BY <2>2 DEF Release
    <3>2. Only(t) /\ Quiet(t) /\ Doing(t, {}, {}, {}, {o}, {}, {}, {}, {})'
      BY <3>1, <2>2, <1>1, <1>2, DropBegins
    <3> QED BY <3>2, <2>2, <1>3, DoingNext
  <2>3. CASE refs[o] = 1 /\ o \in Resources
    <3>1. Will(t, Released(o))
      BY <2>3, <1>3 DEF Release
    <3>2. Only(t) /\ Quiet(t) /\ Doing(t, {}, {}, {}, {o}, {}, {}, {}, {o})'
      BY <3>1, <2>3, <1>1, <1>2, FailureBegins
    <3> QED BY <3>2, <2>3, DoingNext
  <2> QED BY <2>1, <2>2, <2>3, <1>3
<1>5. /\ Returns(t) = {} /\ Hands(t) = {} /\ Increments(t) = {} /\ Drops(t) = {} /\ Frees(t) = {}
      /\ PrivateDrops(t) = {} /\ DeviceAdds(t) = {} /\ DeviceReleases(t) = {}
  BY <1>4, DoingNow DEF Quiet
<1>6. \A v \in HeapThreads :
          /\ UNCHANGED <<Returns(v), Hands(v), Increments(v), Frees(v), PrivateDrops(v),
                         DeviceAdds(v)>>
          /\ Promised(v)' = Promised(v)
  <2> TAKE v \in HeapThreads
  <2>1. CASE v = t
    BY <2>1, <1>4, <1>5, PromisedSame
  <2>2. CASE v # t
    BY <2>2, <1>4, OthersSame
  <2> QED BY <2>1, <2>2
<1>7. SameIncrements
  BY <1>6 DEF SameIncrements
<1>8. /\ refs' = [refs EXCEPT ![o] = @ - 1] /\ refs \in [Shared -> Nat]
      /\ holds' = [holds EXCEPT ![t] = @ \ {o}] /\ holds \in [HeapThreads -> SUBSET Shared]
  BY <1>2 DEF Release, HeapTypes
<1>9. /\ holds' \in [HeapThreads -> SUBSET Shared] /\ holds'[t] = holds[t] \ {o}
      /\ \A v \in HeapThreads \ {t} : holds'[v] = holds[v]
  BY <1>8
<1>10. /\ Holders(o)' = Holders(o) \ {t} /\ t \in Holders(o)
       /\ \A p : p # o => Holders(p)' = Holders(p)
       /\ \A p : Promisers(p)' = Promisers(p) /\ Keepers(p)' = Keepers(p)
  BY <1>1, <1>6, <1>9 DEF Holders, Promisers, Keepers
<1>11. refs[o] > 0 /\ refs[o] \in Nat
  BY <1>8, <1>10, HeldIsCounted
<1>12. /\ refs' \in [Shared -> Nat] /\ refs'[o] = refs[o] - 1
       /\ \A p \in Shared \ {o} : refs'[p] = refs[p]
  BY <1>8, <1>11
<1>13. HeapTypes'
  BY <1>1, <1>2, <1>9, <1>12 DEF HeapTypes
<1>14. RefsExact'
  <2>1. ASSUME NEW p \in Shared \ {o}
        PROVE  refs'[p] = Cardinality(Holders(p)') + Cardinality(Promisers(p)')
    BY <1>2, <1>10, <1>12 DEF RefsExact
  <2> PICK n, m \in Nat : n = Cardinality(Holders(o)) /\ m = Cardinality(Promisers(o))
    BY FiniteParts
  <2>2. refs[o] = n + m
    BY <1>2 DEF RefsExact
  <2>3. Cardinality(Holders(o)') = n - 1
    BY <1>10, FiniteParts, Counted
  <2>4. refs'[o] = Cardinality(Holders(o)') + Cardinality(Promisers(o)')
    BY <2>2, <2>3, <1>10, <1>12
  <2> QED BY <2>1, <2>4 DEF RefsExact
<1>15. LifeOK' /\ PrivateOK' /\ FreesOK'
  BY <1>1, <1>6, LifeKept, PrivateKept, FreesKept DEF HeapLifetimeInv
<1>16. ReturnsOK'
  <2>1. \A p : Holders(p)' \subseteq Holders(p)
    BY <1>10
  <2> QED BY <2>1, <1>1, <1>2, <1>6, <1>10 DEF ReturnsOK
<1>17. HandsOK'
  <2> SUFFICES ASSUME NEW v \in HeapThreads, NEW x \in Hands(v)'
               PROVE  /\ x[2] \notin holds'[x[1]]
                      /\ \A w \in HeapThreads : x \in Hands(w)' => w = v
    BY DEF HandsOK
  <2>1. x \in Hands(v) /\ x[1] \in HeapThreads
    BY <1>6 DEF Hands, Handed
  <2>2. holds'[x[1]] \subseteq holds[x[1]]
    BY <2>1, <1>9
  <2> QED BY <2>1, <2>2, <1>2, <1>6 DEF HandsOK
<1>18. IncrementsOK'
  <2>1. \A v \in HeapThreads \ {t} : Has(v)' = Has(v) /\ holds'[v] = holds[v]
    BY <1>1, <1>9 DEF Has
  <2>2. \A v \in HeapThreads : Increments(v)' # {} \/ DeviceAdds(v)' # {} => v # t
    BY <1>4
  <2>3. ASSUME NEW v \in HeapThreads, NEW h \in Increments(v)' \cap Heaps
        PROVE  \/ \E s \in Returns(v)' \cap Resources : heap_of'[s] = h /\ h \in holds'[v]
               \/ /\ h \in Promised(v)' /\ h \notin Returns(v)'
                  /\ \E s \in Has(v)' \cap Resources : heap_of'[s] = h
    <3>1. v # t /\ h \in Increments(v) \cap Heaps
      BY <2>2, <2>3, <1>6
    <3> QED BY <3>1, <2>1, <1>1, <1>2, <1>6 DEF IncrementsOK
  <2>4. ASSUME NEW v \in HeapThreads, NEW s \in (Increments(v)' \cap Resources) \cup DeviceAdds(v)'
        PROVE  s \in keeps'[v] /\ s \in Promised(v)' /\ s \notin Returns(v)'
    BY <2>4, <1>1, <1>2, <1>6 DEF IncrementsOK
  <2>5. \A p \in Shared : \A v, w \in HeapThreads :
            p \in Increments(v)' /\ p \in Promised(v)' /\ p \in Increments(w)' /\ p \in Promised(w)'
                => v = w
    BY <1>2, <1>6 DEF IncrementsOK
  <2> QED BY <2>3, <2>4, <2>5 DEF IncrementsOK
<1>19. \A p \in Shared : Users(p)' = Users(p) /\ (p # o => Droppers(p)' = Droppers(p))
  <2>1. \A p \in Shared : Users(p)' = Users(p)
    BY <1>1, <1>7, UsersKept
  <2>2. \A p : \A v \in HeapThreads : p # o => (p \in Drops(v)' <=> p \in Drops(v))
    BY <1>4, <1>5, OthersSame
  <2> QED BY <2>1, <2>2 DEF Droppers
<1>20. ASSUME NEW p \in Shared \ {o} PROVE ExactAt(p)'
  <2>1. Public(p)' <=> Public(p)
    BY <1>7, <1>12, PublicKept
  <2>2. ExactAt(p)
    BY <1>2 DEF InternalExact
  <2> QED BY <2>1, <2>2, <1>1, <1>19, ExactKept
<1>21. AllAdds' = AllAdds /\ LiveHeaps' = LiveHeaps
  BY <1>1, <1>4, <1>5, AddsStay DEF LiveHeaps
<1>22. CASE refs[o] # 1
  <2>1. refs'[o] > 0
    BY <1>11, <1>12, <1>22
  <2>2. \A p \in Shared : refs'[p] > 0 <=> refs[p] > 0
    BY <2>1, <1>11, <1>12
  <2>3. Droppers(o)' = Droppers(o)
    BY <1>4, <1>5, <1>22, OthersSame DEF Droppers
  <2>4. ExactAt(o) /\ (Public(o)' <=> Public(o))
    BY <2>2, <1>2, <1>7, PublicKept DEF InternalExact
  <2>5. ExactAt(o)'
    BY <2>3, <2>4, <1>1, <1>19, ExactKept
  <2>6. InternalExact'
    BY <2>5, <1>20 DEF InternalExact
  <2>7. PublicResources' = PublicResources
    BY <2>2, <1>3 DEF PublicResources
  <2>8. AllReleases' = AllReleases
    BY <1>4, <1>5, <1>22, ReleasesStay
  <2>9. DeviceExact'
    BY <2>7, <2>8, <1>1, <1>2, <1>21 DEF DeviceExact
  <2> QED BY <2>6, <2>9, <1>4, <1>13, <1>14, <1>15, <1>16, <1>17, <1>18 DEF HeapLifetimeInv, Only
<1>23. CASE refs[o] = 1
  <2>1. Promisers(o) = {}
    <3> PICK n, m \in Nat : n = Cardinality(Holders(o)) /\ m = Cardinality(Promisers(o))
      BY FiniteParts
    <3>1. 1 = n + m
      BY <1>2, <1>23 DEF RefsExact
    <3>2. n # 0
      BY <1>10, FiniteParts, Counted
    <3>3. m = 0 => Promisers(o) = {}
      BY FiniteParts, Counted
    <3> QED BY <3>1, <3>2, <3>3
  <2>2. ~ Reviving(o)
    BY <2>1 DEF Reviving, Promisers
  <2>3. Public(o)
    BY <2>2, <1>23 DEF Public
  <2>4. refs'[o] = 0
    BY <1>12, <1>23
  <2>5. ~ Public(o)'
    BY <2>4 DEF Public
  <2>6. Droppers(o)' = Droppers(o) \cup {t} /\ t \notin Droppers(o)
    <3>1. \A v \in HeapThreads \ {t} : Drops(v)' = Drops(v)
      BY <1>4, OthersSame
    <3> QED BY <3>1, <1>4, <1>5, <1>23 DEF Droppers
  <2> PICK n, m \in Nat : n = Cardinality(Users(o)) /\ m = Cardinality(Droppers(o))
    BY FiniteParts
  <2>7. Cardinality(Droppers(o)') = m + 1
    BY <2>6, FiniteParts, Counted
  <2>8. internal_refs[o] = 1 + n + m
    BY <2>3, <1>2 DEF InternalExact, ExactAt
  <2>9. internal_refs'[o] = 0 + Cardinality(Users(o)') + Cardinality(Droppers(o)')
    BY <2>7, <2>8, <1>1, <1>19
  <2>10. InternalExact'
    BY <2>5, <2>9, <1>20 DEF InternalExact, ExactAt
  <2>11. DeviceExact'
    <3>1. CASE o \in Heaps
      <4>1. PublicResources' = PublicResources
        BY <3>1, <1>3, <1>12 DEF PublicResources
      <4>2. AllReleases' = AllReleases
        BY <3>1, <1>3, <1>4, <1>5, ReleasesStay
      <4> QED BY <4>1, <4>2, <1>1, <1>2, <1>21 DEF DeviceExact
    <3>2. CASE o \in Resources
      <4>1. Cardinality(AllReleases') = Cardinality(AllReleases) + 1
        BY <3>2, <1>4, <1>5, <1>23, ReleasesGain
      <4>2. PublicResources' = PublicResources \ {o} /\ o \in PublicResources
        BY <3>2, <2>4, <1>3, <1>12, <1>23 DEF PublicResources
      <4>3. Cardinality(PublicResources') = Cardinality(PublicResources) + (-1)
        BY <4>2, FiniteSets, Counted
      <4>4. /\ Cardinality(LiveHeaps') = Cardinality(LiveHeaps) + 0
            /\ Cardinality(AllAdds') = Cardinality(AllAdds) + 0
        BY <1>21, CountsStay
      <4>5. device_refs' + 0 = device_refs + 0 + (-1) + 1 /\ device_refs' \in Int
        BY <1>1, <1>2 DEF HeapTypes
      <4> QED BY <4>1, <4>3, <4>4, <4>5, <1>2, DeviceMoves
    <3> QED BY <3>1, <3>2, <1>3
  <2> QED BY <2>10, <2>11, <1>4, <1>13, <1>14, <1>15, <1>16, <1>17, <1>18 DEF HeapLifetimeInv, Only
<1> QED BY <1>22, <1>23

LEMMA Joined ==
    /\ \A a, b : <<a>> \o <<b>> = <<a, b>>
    /\ \A a, b, c : <<a, b>> \o <<c>> = <<a, b, c>>
<1>1. ASSUME NEW a, NEW b PROVE <<a>> \o <<b>> = <<a, b>>
  <2> PICK S : S = {a, b}
    OBVIOUS
  <2> PICK p, q, s : p = <<a>> /\ q = <<b>> /\ s = <<a, b>>
    OBVIOUS
  <2>1. /\ p \in Seq(S) /\ q \in Seq(S) /\ s \in Seq(S) /\ Len(p) = 1 /\ Len(q) = 1 /\ Len(s) = 2
        /\ p[1] = a /\ q[1] = b /\ s[1] = a /\ s[2] = b
    OBVIOUS
  <2>2. /\ p \o q \in Seq(S) /\ Len(p \o q) = 2
        /\ \A i \in 1 .. 2 : (p \o q)[i] = IF i <= 1 THEN p[i] ELSE q[i - 1]
    BY <2>1, ConcatProperties
  <2>3. (p \o q)[1] = a /\ (p \o q)[2] = b
    BY <2>1, <2>2
  <2>4. \A i \in 1 .. 2 : (p \o q)[i] = s[i]
    BY <2>1, <2>3
  <2>5. p \o q = s
    BY <2>1, <2>2, <2>4, SeqEqual
  <2> QED BY <2>5
<1>2. ASSUME NEW a, NEW b, NEW c PROVE <<a, b>> \o <<c>> = <<a, b, c>>
  <2> PICK S : S = {a, b, c}
    OBVIOUS
  <2> PICK p, q, s : p = <<a, b>> /\ q = <<c>> /\ s = <<a, b, c>>
    OBVIOUS
  <2>1. /\ p \in Seq(S) /\ q \in Seq(S) /\ s \in Seq(S) /\ Len(p) = 2 /\ Len(q) = 1 /\ Len(s) = 3
        /\ p[1] = a /\ p[2] = b /\ q[1] = c /\ s[1] = a /\ s[2] = b /\ s[3] = c
    OBVIOUS
  <2>2. /\ p \o q \in Seq(S) /\ Len(p \o q) = 3
        /\ \A i \in 1 .. 3 : (p \o q)[i] = IF i <= 2 THEN p[i] ELSE q[i - 2]
    BY <2>1, ConcatProperties
  <2>3. (p \o q)[1] = a /\ (p \o q)[2] = b /\ (p \o q)[3] = c
    BY <2>1, <2>2
  <2>4. \A i \in 1 .. 3 : (p \o q)[i] = s[i]
    BY <2>1, <2>3
  <2>5. p \o q = s
    BY <2>1, <2>2, <2>4, SeqEqual
  <2> QED BY <2>5
<1> QED BY <1>1, <1>2

LEMMA AddRefBegins ==
    ASSUME TodoOK, NEW t \in HeapThreads, NEW u \in HeapThreads, NEW o \in Shared, AddRef(t, u, o)
    PROVE  /\ Only(t) /\ Quiet(t) /\ Returns(t)' = {} /\ Hands(t)' = {<<u, o>>}
           /\ Drops(t)' = {} /\ Frees(t)' = {} /\ PrivateDrops(t)' = {} /\ DeviceReleases(t)' = {}
           /\ Increments(t)' = IF refs[o] = 0 THEN {o} ELSE {}
           /\ DeviceAdds(t)' = IF refs[o] = 0 /\ o \in Resources THEN {o} ELSE {}
<1> PICK hand, up, incref, add :
        /\ hand = <<"hand", u, o>> /\ up = <<"heap_incref", o>>
        /\ incref = <<"incref", o>> /\ add = <<"device_add_ref", o>>
  OBVIOUS
<1>1. Heaps \cap Resources = {} /\ Shared = Heaps \cup Resources /\ Idle(t)
  BY HeapLifetimeAssumption DEF Shared, AddRef
<1>2. CASE refs[o] # 0
  <2>1. Will(t, <<>> \o <<hand>>)
    BY <1>2 DEF AddRef
  <2>2. Will(t, <<hand>>)
    BY <2>1
  <2>3. Only(t) /\ Quiet(t) /\ Doing(t, {}, {<<u, o>>}, {}, {}, {}, {}, {}, {})'
    BY <2>2, <1>1, HandBegins
  <2> QED BY <2>3, <1>2, DoingNext
<1>3. CASE refs[o] = 0 /\ o \in Heaps
  <2>1. Will(t, <<up>> \o <<hand>>)
    BY <1>3 DEF AddRef, Revival
  <2>2. Will(t, <<up, hand>>)
    BY <2>1, Joined
  <2>3. Only(t) /\ Quiet(t) /\ Doing(t, {}, {<<u, o>>}, {o}, {}, {}, {}, {}, {})'
    BY <2>2, <1>1, <1>3, HeapRevivalBegins
  <2> QED BY <2>3, <1>1, <1>3, DoingNext
<1>4. CASE refs[o] = 0 /\ o \in Resources
  <2>1. Will(t, <<add, incref>> \o <<hand>>)
    BY <1>1, <1>4 DEF AddRef, Revival
  <2>2. Will(t, <<add, incref, hand>>)
    BY <2>1, Joined
  <2>3. Only(t) /\ Quiet(t) /\ Doing(t, {}, {<<u, o>>}, {o}, {}, {}, {}, {o}, {})'
    BY <2>2, <1>1, <1>4, RevivalBegins
  <2> QED BY <2>3, <1>4, DoingNext
<1> QED BY <1>1, <1>2, <1>3, <1>4

\* What a thread reaches, a thread has or a resource it has lies in.
LEMMA ReachedIsKept ==
    ASSUME HeapLifetimeInv, NEW t \in HeapThreads, NEW o \in Reaches(t)
    PROVE  /\ o \in Shared /\ internal_refs[o] > 0
           /\ \A v \in HeapThreads : o \notin Returns(v)
           /\ refs[o] = 0 => \/ o \in Resources /\ o \in keeps[t]
                             \/ o \in Heaps /\ \E r \in Has(t) \cap Resources : heap_of[r] = o
<1>1. /\ Heaps \cap Resources = {} /\ Shared = Heaps \cup Resources
      /\ holds[t] \subseteq Shared /\ keeps[t] \subseteq Resources /\ ReturnsOK
  BY HeapLifetimeAssumption DEF Shared, HeapLifetimeInv, HeapTypes
<1>2. CASE o \in holds[t]
  <2>1. t \in Holders(o) /\ o \in Shared
    BY <1>1, <1>2 DEF Holders
  <2>2. refs[o] > 0 /\ internal_refs[o] > 0
    BY <2>1, HeldIsCounted, PublicIsAlive
  <2> QED BY <2>1, <2>2, <1>1 DEF ReturnsOK
<1>3. CASE o \in keeps[t]
  <2>1. t \in Keepers(o) /\ o \in Shared /\ o \in Resources
    BY <1>1, <1>3 DEF Keepers
  <2>2. internal_refs[o] > 0
    BY <1>3, KeptIsCounted
  <2> QED BY <2>1, <2>2, <1>1, <1>3 DEF ReturnsOK
<1>4. CASE \E r \in Has(t) \cap Resources : heap_of[r] = o /\ o \in Heaps
  <2>1. PICK r \in Has(t) \cap Resources : heap_of[r] = o /\ o \in Heaps
    BY <1>4
  <2>2. r # o /\ o \in Shared /\ internal_refs[o] > 0
    BY <2>1, <1>1, OwnedIsResident
  <2> QED BY <2>1, <2>2, <1>1 DEF ReturnsOK
<1> QED BY <1>2, <1>3, <1>4 DEF Reaches, Has

LEMMA AddRefInv ==
    ASSUME HeapLifetimeInv, NEW t \in HeapThreads, NEW u \in HeapThreads, NEW o \in Shared,
           AddRef(t, u, o)
    PROVE  HeapLifetimeInv'
<1>1. /\ UNCHANGED <<life, private, internal_refs, private_refs, heap_of, device_refs, holds, keeps>>
      /\ o \in Reaches(t) /\ o \notin holds[u]
  BY DEF AddRef
<1>2. /\ TodoOK /\ HeapTypes /\ InternalExact /\ ReturnsOK /\ HandsOK /\ IncrementsOK /\ DeviceExact
      /\ RefsExact
  BY DEF HeapLifetimeInv
<1>3. Heaps \cap Resources = {} /\ Shared = Heaps \cup Resources
  BY HeapLifetimeAssumption DEF Shared
<1>4. /\ Only(t) /\ Quiet(t) /\ Returns(t)' = {} /\ Hands(t)' = {<<u, o>>}
      /\ Drops(t)' = {} /\ Frees(t)' = {} /\ PrivateDrops(t)' = {} /\ DeviceReleases(t)' = {}
      /\ Increments(t)' = IF refs[o] = 0 THEN {o} ELSE {}
      /\ DeviceAdds(t)' = IF refs[o] = 0 /\ o \in Resources THEN {o} ELSE {}
  BY <1>2, AddRefBegins
<1>5. /\ Returns(t) = {} /\ Hands(t) = {} /\ Increments(t) = {} /\ Drops(t) = {} /\ Frees(t) = {}
      /\ PrivateDrops(t) = {} /\ DeviceAdds(t) = {} /\ DeviceReleases(t) = {}
  BY <1>4, DoingNow DEF Quiet
<1>6. Promised(t) = {} /\ Promised(t)' = {o}
  <2>1. Promised(t) = {}
    BY <1>5 DEF Promised
  <2>2. {x[2] : x \in {<<u, o>>}} = {o}
    OBVIOUS
  <2>3. Promised(t)' = {} \cup {x[2] : x \in {<<u, o>>}}
    BY <1>4 DEF Promised
  <2> QED BY <2>1, <2>2, <2>3
<1>7. \A v \in HeapThreads : UNCHANGED <<Returns(v), Drops(v), Frees(v), PrivateDrops(v),
                                        DeviceReleases(v)>>
  BY <1>4, <1>5, OthersSame
<1>8. \A v \in HeapThreads \ {t} : UNCHANGED <<Hands(v), Increments(v), DeviceAdds(v), Promised(v)>>
  BY <1>4, OthersSame
<1>9. /\ internal_refs[o] > 0 /\ \A v \in HeapThreads : o \notin Returns(v)
      /\ refs[o] = 0 => \/ o \in Resources /\ o \in keeps[t]
                        \/ o \in Heaps /\ \E r \in Has(t) \cap Resources : heap_of[r] = o
  BY <1>1, ReachedIsKept
<1>10. \A v \in HeapThreads : <<u, o>> \notin Hands(v)
  <2> SUFFICES ASSUME NEW v \in HeapThreads, <<u, o>> \in Hands(v) PROVE FALSE
    OBVIOUS
  <2> PICK x : x = <<u, o>>
    OBVIOUS
  <2>1. x[1] = u /\ x[2] = o
    OBVIOUS
  <2>2. <<"hand", u, o>> \in Due(v)
    BY <2>1 DEF Hands, Handed
  <2> QED BY <2>2 DEF AddRef, Due, Elements
<1>11. refs' = [refs EXCEPT ![o] = @ + 1] /\ refs \in [Shared -> Nat]
  BY <1>2 DEF AddRef, HeapTypes
<1>12. /\ refs' \in [Shared -> Nat] /\ refs'[o] = refs[o] + 1 /\ refs[o] \in Nat
       /\ \A p \in Shared \ {o} : refs'[p] = refs[p]
  BY <1>11
<1>13. HeapTypes'
  BY <1>1, <1>2, <1>12 DEF HeapTypes
<1>14. /\ \A p : Holders(p)' = Holders(p) /\ Keepers(p)' = Keepers(p)
       /\ \A p : p # o => Promisers(p)' = Promisers(p)
       /\ Promisers(o)' = Promisers(o) \cup {t} /\ t \notin Promisers(o)
  BY <1>1, <1>6, <1>8 DEF Holders, Keepers, Promisers
<1>15. RefsExact'
  <2>1. ASSUME NEW p \in Shared \ {o}
        PROVE  refs'[p] = Cardinality(Holders(p)') + Cardinality(Promisers(p)')
    BY <1>2, <1>12, <1>14 DEF RefsExact
  <2> PICK n, m \in Nat : n = Cardinality(Holders(o)) /\ m = Cardinality(Promisers(o))
    BY FiniteParts
  <2>2. refs[o] = n + m
    BY <1>2 DEF RefsExact
  <2>3. Cardinality(Promisers(o)') = m + 1
    BY <1>14, FiniteParts, Counted
  <2>4. refs'[o] = Cardinality(Holders(o)') + Cardinality(Promisers(o)')
    BY <2>2, <2>3, <1>12, <1>14
  <2> QED BY <2>1, <2>4 DEF RefsExact
<1>16. LifeOK' /\ PrivateOK' /\ FreesOK'
  BY <1>1, <1>7, LifeKept, PrivateKept, FreesKept DEF HeapLifetimeInv
<1>17. ReturnsOK'
  <2> SUFFICES ASSUME NEW v \in HeapThreads, NEW p \in Returns(v)'
               PROVE  /\ Holders(p)' = {} /\ Promisers(p)' = {v} /\ Keepers(p)' = {}
                      /\ \A s \in Resources : heap_of'[s] = p => s = p
    BY DEF ReturnsOK
  <2>1. p \in Returns(v) /\ p # o
    BY <1>7, <1>9
  <2>2. /\ Holders(p) = {} /\ Promisers(p) = {v} /\ Keepers(p) = {}
        /\ \A s \in Resources : heap_of[s] = p => s = p
    BY <2>1, <1>2 DEF ReturnsOK
  <2> QED BY <2>1, <2>2, <1>1, <1>14
<1>18. HandsOK'
  <2> SUFFICES ASSUME NEW v \in HeapThreads, NEW x \in Hands(v)'
               PROVE  /\ x[2] \notin holds'[x[1]]
                      /\ \A w \in HeapThreads : x \in Hands(w)' => w = v
    BY DEF HandsOK
  <2>1. CASE v = t
    <3>1. x = <<u, o>> /\ x[1] = u /\ x[2] = o
      BY <2>1, <1>4
    <3> QED BY <2>1, <3>1, <1>1, <1>8, <1>10
  <2>2. CASE v # t
    <3>1. x \in Hands(v) /\ x # <<u, o>>
      BY <2>2, <1>8, <1>10
    <3>2. x[2] \notin holds[x[1]] /\ \A w \in HeapThreads : x \in Hands(w) => w = v
      BY <3>1, <1>2 DEF HandsOK
    <3>3. x \notin Hands(t)'
      BY <3>1, <1>4
    <3> QED BY <3>2, <3>3, <1>1, <1>8
  <2> QED BY <2>1, <2>2
<1>19. refs[o] = 0 => \A v \in HeapThreads : o \notin Promised(v)
  <2>1. refs[o] = 0 => Promisers(o) = {}
    BY HeldIsCounted
  <2> QED BY <2>1 DEF Promisers
<1>20. IncrementsOK'
  <2>1. \A v \in HeapThreads : Has(v)' = Has(v)
    BY <1>1 DEF Has
  <2>2. ASSUME NEW v \in HeapThreads, NEW h \in Increments(v)' \cap Heaps
        PROVE  \/ \E s \in Returns(v)' \cap Resources : heap_of'[s] = h /\ h \in holds'[v]
               \/ /\ h \in Promised(v)' /\ h \notin Returns(v)'
                  /\ \E s \in Has(v)' \cap Resources : heap_of'[s] = h
    <3>1. CASE v = t
      <4>1. h = o /\ refs[o] = 0
        BY <3>1, <2>2, <1>4
      <4>2. \E s \in Has(t) \cap Resources : heap_of[s] = o
        BY <4>1, <2>2, <1>3, <1>9
      <4> QED BY <3>1, <4>1, <4>2, <2>1, <1>1, <1>4, <1>6
    <3>2. CASE v # t
      <4>1. h \in Increments(v)
        BY <3>2, <2>2, <1>8
      <4> QED BY <3>2, <4>1, <2>1, <2>2, <1>1, <1>2, <1>7, <1>8 DEF IncrementsOK
    <3> QED BY <3>1, <3>2
  <2>3. ASSUME NEW v \in HeapThreads, NEW s \in (Increments(v)' \cap Resources) \cup DeviceAdds(v)'
        PROVE  s \in keeps'[v] /\ s \in Promised(v)' /\ s \notin Returns(v)'
    <3>1. CASE v = t
      <4>1. s = o /\ refs[o] = 0 /\ o \in Resources
        BY <3>1, <2>3, <1>4
      <4>2. o \in keeps[t]
        BY <4>1, <1>3, <1>9
      <4> QED BY <3>1, <4>1, <4>2, <1>1, <1>4, <1>6
    <3>2. CASE v # t
      <4>1. s \in (Increments(v) \cap Resources) \cup DeviceAdds(v)
        BY <3>2, <2>3, <1>8
      <4> QED BY <3>2, <4>1, <1>1, <1>2, <1>7, <1>8 DEF IncrementsOK
    <3> QED BY <3>1, <3>2
  <2>4. ASSUME NEW p \in Shared, NEW v \in HeapThreads, NEW w \in HeapThreads,
               p \in Increments(v)', p \in Promised(v)', p \in Increments(w)', p \in Promised(w)'
        PROVE  v = w
    <3>1. CASE v = t \/ w = t
      <4>1. p = o /\ refs[o] = 0
        BY <3>1, <2>4, <1>4
      <4> QED BY <4>1, <2>4, <1>8, <1>19
    <3>2. CASE v # t /\ w # t
      BY <3>2, <2>4, <1>2, <1>8 DEF IncrementsOK
    <3> QED BY <3>1, <3>2
  <2> QED BY <2>2, <2>3, <2>4 DEF IncrementsOK
<1>21. \A p \in Shared : Public(p)' <=> Public(p)
  <2>1. ASSUME NEW p \in Shared \ {o} PROVE Public(p)' <=> Public(p)
    <3>1. Reviving(p)' <=> Reviving(p)
      BY <1>5, <1>6, <1>8 DEF Reviving
    <3> QED BY <3>1, <1>12 DEF Public
  <2>2. CASE refs[o] = 0
    <3>1. Reviving(o)'
      BY <2>2, <1>4, <1>6 DEF Reviving
    <3> QED BY <3>1, <2>1, <2>2 DEF Public
  <2>3. CASE refs[o] # 0
    <3>1. Reviving(o)' <=> Reviving(o)
      BY <2>3, <1>4, <1>5, <1>8 DEF Reviving
    <3>2. refs[o] > 0 /\ refs'[o] > 0
      BY <2>3, <1>12
    <3> QED BY <3>1, <3>2, <2>1 DEF Public
  <2> QED BY <2>2, <2>3
<1>22. \A p \in Heaps : Residents(p)' = Residents(p)
  <2>1. \A p \in Heaps, r \in Resources, v \in HeapThreads :
            (p \in Increments(v)' /\ r \in Promised(v)') <=> (p \in Increments(v) /\ r \in Promised(v))
    <3> TAKE p \in Heaps, r \in Resources, v \in HeapThreads
    <3>1. CASE v = t
      BY <3>1, <1>3, <1>4, <1>5, <1>6
    <3>2. CASE v # t
      BY <3>2, <1>8
    <3> QED BY <3>1, <3>2
  <2> QED BY <2>1, <1>1 DEF Residents
<1>23. InternalExact'
  <2> SUFFICES ASSUME NEW p \in Shared PROVE ExactAt(p)'
    BY DEF InternalExact
  <2>1. Users(p)' = Users(p)
    BY <1>14, <1>22 DEF Users
  <2>2. Droppers(p)' = Droppers(p)
    BY <1>7 DEF Droppers
  <2>3. ExactAt(p)
    BY <1>2 DEF InternalExact
  <2> QED BY <2>1, <2>2, <2>3, <1>1, <1>21, ExactKept
<1>24. DeviceExact'
  <2>1. LiveHeaps' = LiveHeaps /\ AllReleases' = AllReleases
    BY <1>1, <1>4, <1>7, ReleasesStay DEF LiveHeaps
  <2>2. CASE refs[o] = 0 /\ o \in Resources
    <3>1. Cardinality(AllAdds') = Cardinality(AllAdds) + 1
      BY <2>2, <1>4, <1>5, AddsGain
    <3>2. PublicResources' = PublicResources \cup {o} /\ o \notin PublicResources
      BY <2>2, <1>3, <1>12 DEF PublicResources
    <3>3. Cardinality(PublicResources') = Cardinality(PublicResources) + 1
      BY <3>2, FiniteSets, Counted
    <3>4. /\ Cardinality(LiveHeaps') = Cardinality(LiveHeaps) + 0
          /\ Cardinality(AllReleases') = Cardinality(AllReleases) + 0
      BY <2>1, CountsStay
    <3>5. device_refs' + 1 = device_refs + 0 + 1 + 0 /\ device_refs' \in Int
      BY <1>1, <1>2 DEF HeapTypes
    <3> QED BY <3>1, <3>3, <3>4, <3>5, <1>2, DeviceMoves
  <2>3. CASE ~ (refs[o] = 0 /\ o \in Resources)
    <3>1. AllAdds' = AllAdds
      BY <2>3, <1>4, <1>5, AddsStay
    <3>2. PublicResources' = PublicResources
      BY <2>3, <1>3, <1>12 DEF PublicResources
    <3> QED BY <3>1, <3>2, <2>1, <1>1, <1>2 DEF DeviceExact
  <2> QED BY <2>2, <2>3
<1> QED BY <1>4, <1>13, <1>15, <1>16, <1>17, <1>18, <1>20, <1>23, <1>24 DEF HeapLifetimeInv, Only

----------------------------------------------------------------------------
\* Calls that create an object.  Nobody knows an object that does not exist.
LEMMA NotYet ==
    ASSUME HeapLifetimeInv, NEW o \in Shared, life[o] = "none"
    PROVE  /\ internal_refs[o] = 0 /\ refs[o] = 0
           /\ Holders(o) = {} /\ Promisers(o) = {} /\ Keepers(o) = {}
           /\ Users(o) = {} /\ Droppers(o) = {}
           /\ \A r \in Resources : heap_of[r] # o
           /\ o \in Resources => heap_of[o] = NoHeap /\ private[o] # "live"
           /\ \A v \in HeapThreads : o \notin Frees(v)
<1>1. /\ Heaps \cap Resources = {} /\ Shared = Heaps \cup Resources
      /\ NoHeap \notin Heaps \cup Resources
  BY HeapLifetimeAssumption DEF Shared
<1>2. HeapTypes /\ LifeOK /\ PrivateOK /\ FreesOK
  BY DEF HeapLifetimeInv
<1>3. internal_refs[o] = 0
  <2>1. ~ (internal_refs[o] > 0)
    BY <1>1, <1>2 DEF LifeOK
  <2>2. internal_refs[o] \in Nat
    BY <1>2 DEF HeapTypes
  <2> QED BY <2>1, <2>2
<1>4. Users(o) = {} /\ Droppers(o) = {}
  BY <1>3, UsedIsCounted
<1>5. refs[o] = 0
  <2>1. refs[o] \in Nat
    BY <1>2 DEF HeapTypes
  <2> QED BY <2>1, <1>3, PublicIsAlive
<1>6. Holders(o) = {} /\ Promisers(o) = {}
  BY <1>5, HeldIsCounted
<1>7. Keepers(o) = {}
  <2> SUFFICES ASSUME NEW v \in HeapThreads, o \in keeps[v] PROVE FALSE
    BY DEF Keepers
  <2>1. internal_refs[o] > 0
    BY KeptIsCounted
  <2> QED BY <2>1, <1>3
<1>8. \A r \in Resources : heap_of[r] # o
  BY <1>1, <1>2 DEF LifeOK, HeapTypes
<1>9. o \in Resources => heap_of[o] = NoHeap /\ private[o] # "live"
  BY <1>1, <1>2 DEF LifeOK, PrivateOK
<1>10. \A v \in HeapThreads : o \notin Frees(v)
  BY <1>2 DEF FreesOK
<1> QED BY <1>3, <1>4, <1>5, <1>6, <1>7, <1>8, <1>9, <1>10

\* The call will return o, which is in heap k.
Makes(t, o, k) ==
    /\ life[o] = "none" /\ life' = [life EXCEPT ![o] = "live"]
    /\ refs' = [refs EXCEPT ![o] = 1] /\ internal_refs' = [internal_refs EXCEPT ![o] = 1]
    /\ device_refs' = device_refs + 1 /\ UNCHANGED <<holds, keeps>>
    /\ Only(t) /\ Quiet(t)
    /\ Doing(t, {o}, {}, {k} \cap Heaps, {}, {}, {}, {}, {})'
    /\ heap_of' \in [Resources -> Heaps \cup {NoHeap} \cup Resources]
    /\ \A r \in Resources \ {o} : heap_of'[r] = heap_of[r]
    /\ o \in Resources => heap_of'[o] = k
    /\ o \in Heaps => k = NoHeap
    /\ k = NoHeap \/ k = o \/ (k \in Heaps /\ k \in holds[t])
    /\ private' = IF k = o THEN [private EXCEPT ![o] = "live"] ELSE private
    /\ private_refs' = IF k = o THEN [private_refs EXCEPT ![o] = 1] ELSE private_refs

LEMMA MakesInv ==
    ASSUME HeapLifetimeInv, NEW t \in HeapThreads, NEW o \in Shared, NEW k, Makes(t, o, k)
    PROVE  HeapLifetimeInv'
<1>1. /\ Heaps \cap Resources = {} /\ Shared = Heaps \cup Resources
      /\ NoHeap \notin Heaps \cup Resources
  BY HeapLifetimeAssumption DEF Shared
<1>2. /\ TodoOK /\ HeapTypes /\ RefsExact /\ InternalExact /\ LifeOK /\ PrivateOK
      /\ ReturnsOK /\ HandsOK /\ IncrementsOK /\ FreesOK /\ DeviceExact
  BY DEF HeapLifetimeInv
<1>3. /\ internal_refs[o] = 0 /\ refs[o] = 0
      /\ Holders(o) = {} /\ Promisers(o) = {} /\ Keepers(o) = {}
      /\ Users(o) = {} /\ Droppers(o) = {}
      /\ \A r \in Resources : heap_of[r] # o
      /\ o \in Resources => heap_of[o] = NoHeap /\ private[o] # "live"
      /\ \A v \in HeapThreads : o \notin Frees(v)
  BY NotYet DEF Makes
<1>4. /\ k = NoHeap \/ k = o \/ (k \in Heaps /\ k \in holds[t])
      /\ o \in Heaps => k = NoHeap
      /\ o \in Resources => heap_of'[o] = k
      /\ \A r \in Resources \ {o} : heap_of'[r] = heap_of[r]
      /\ UNCHANGED <<holds, keeps>>
  BY DEF Makes
<1>5. Only(t) /\ Quiet(t) /\ Doing(t, {o}, {}, {k} \cap Heaps, {}, {}, {}, {}, {})'
  BY DEF Makes
<1>6. /\ Returns(t) = {} /\ Hands(t) = {} /\ Increments(t) = {} /\ Drops(t) = {} /\ Frees(t) = {}
      /\ PrivateDrops(t) = {} /\ DeviceAdds(t) = {} /\ DeviceReleases(t) = {}
  BY <1>5, DoingNow DEF Quiet
<1>7. /\ Returns(t)' = {o} /\ Hands(t)' = {} /\ Increments(t)' = {k} \cap Heaps /\ Drops(t)' = {}
      /\ Frees(t)' = {} /\ PrivateDrops(t)' = {} /\ DeviceAdds(t)' = {} /\ DeviceReleases(t)' = {}
  BY <1>5, DoingNext
<1>8. Promised(t) = {} /\ Promised(t)' = {o}
  BY <1>6, <1>7 DEF Promised
<1>9. \A v \in HeapThreads : UNCHANGED <<Hands(v), Drops(v), Frees(v), PrivateDrops(v),
                                        DeviceAdds(v), DeviceReleases(v)>>
  BY <1>5, <1>6, <1>7, OthersSame
<1>10. \A v \in HeapThreads \ {t} : UNCHANGED <<Returns(v), Increments(v), Promised(v)>>
  BY <1>5, OthersSame
<1>11. /\ life' = [life EXCEPT ![o] = "live"] /\ life \in [Shared -> {"none", "live", "freed"}]
       /\ refs' = [refs EXCEPT ![o] = 1] /\ refs \in [Shared -> Nat]
       /\ internal_refs' = [internal_refs EXCEPT ![o] = 1] /\ internal_refs \in [Shared -> Nat]
  BY <1>2 DEF Makes, HeapTypes
<1>12. /\ life' \in [Shared -> {"none", "live", "freed"}] /\ life'[o] = "live"
       /\ refs' \in [Shared -> Nat] /\ refs'[o] = 1
       /\ internal_refs' \in [Shared -> Nat] /\ internal_refs'[o] = 1
       /\ \A p \in Shared \ {o} : life'[p] = life[p] /\ refs'[p] = refs[p]
                                  /\ internal_refs'[p] = internal_refs[p]
  BY <1>11
<1>13. /\ private' \in [Resources -> {"none", "live", "freed"}] /\ private_refs' \in [Resources -> Nat]
       /\ \A r \in Resources \ {o} : private'[r] = private[r] /\ private_refs'[r] = private_refs[r]
       /\ o \in Resources => /\ private'[o] = "live" <=> k = o
                             /\ k = o => private_refs'[o] = 1
  <2>1. /\ private \in [Resources -> {"none", "live", "freed"}] /\ private_refs \in [Resources -> Nat]
    BY <1>2 DEF HeapTypes
  <2>2. CASE k = o
    <3>1. /\ private' = [private EXCEPT ![o] = "live"]
          /\ private_refs' = [private_refs EXCEPT ![o] = 1]
      BY <2>2 DEF Makes
    <3> QED BY <2>1, <2>2, <3>1
  <2>3. CASE k # o
    <3>1. private' = private /\ private_refs' = private_refs
      BY <2>3 DEF Makes
    <3> QED BY <2>1, <2>3, <3>1, <1>3
  <2> QED BY <2>2, <2>3
<1>14. HeapTypes'
  <2>1. device_refs' \in Int
    BY <1>2 DEF Makes, HeapTypes
  <2>2. heap_of' \in [Resources -> Heaps \cup {NoHeap} \cup Resources]
    BY DEF Makes
  <2>3. \A r \in Resources : heap_of'[r] \in Resources => heap_of'[r] = r
    BY <1>1, <1>2, <1>4 DEF HeapTypes
  <2> QED BY <2>1, <2>2, <2>3, <1>2, <1>4, <1>12, <1>13 DEF HeapTypes
<1>15. /\ \A p : Holders(p)' = Holders(p) /\ Keepers(p)' = Keepers(p) /\ Droppers(p)' = Droppers(p)
       /\ \A p : p # o => Promisers(p)' = Promisers(p)
       /\ Promisers(o)' = {t}
  <2>1. \A p : Holders(p)' = Holders(p) /\ Keepers(p)' = Keepers(p) /\ Droppers(p)' = Droppers(p)
    BY <1>4, <1>9 DEF Holders, Keepers, Droppers
  <2>2. \A p : p # o => Promisers(p)' = Promisers(p)
    BY <1>8, <1>10 DEF Promisers
  <2>3. Promisers(o)' = {t}
    BY <1>3, <1>8, <1>10 DEF Promisers
  <2> QED BY <2>1, <2>2, <2>3
<1>16. RefsExact'
  <2>1. ASSUME NEW p \in Shared \ {o}
        PROVE  refs'[p] = Cardinality(Holders(p)') + Cardinality(Promisers(p)')
    BY <1>2, <1>12, <1>15 DEF RefsExact
  <2>2. Cardinality(Holders(o)') = 0 /\ Cardinality(Promisers(o)') = 1
    BY <1>3, <1>15, FS_EmptySet, FS_Singleton
  <2>3. refs'[o] = Cardinality(Holders(o)') + Cardinality(Promisers(o)')
    BY <2>2, <1>12
  <2> QED BY <2>1, <2>3 DEF RefsExact
<1>17. \A v \in HeapThreads \ {t} : o \notin Promised(v) /\ o \notin Returns(v)
  BY <1>3 DEF Promisers, Promised
<1>18. \A p, q \in Shared : \A v \in HeapThreads :
           (p \in Increments(v)' /\ q \in Promised(v)')
               <=> (p \in Increments(v) /\ q \in Promised(v)) \/ (v = t /\ p = k /\ p \in Heaps /\ q = o)
  <2> TAKE p, q \in Shared
  <2> TAKE v \in HeapThreads
  <2>1. CASE v = t
    BY <2>1, <1>6, <1>7, <1>8
  <2>2. CASE v # t
    BY <2>2, <1>10
  <2> QED BY <2>1, <2>2
<1>19. \A p \in Shared : Reviving(p)' <=> Reviving(p)
  BY <1>1, <1>4, <1>18 DEF Reviving
<1>20. \A p \in Heaps : Residents(p)' = Residents(p)
  <2> TAKE p \in Heaps
  <2>1. ASSUME NEW r \in Resources \ {o} PROVE r \in Residents(p)' <=> r \in Residents(p)
    BY <1>1, <1>4, <1>12, <1>18 DEF Residents
  <2>2. o \notin Residents(p)
    BY <1>3 DEF Residents
  <2>3. o \notin Residents(p)'
    <3>1. SUFFICES ASSUME o \in Resources, heap_of'[o] = p
                   PROVE  p \in Increments(t)' /\ o \in Promised(t)'
      BY DEF Residents
    <3> QED BY <3>1, <1>4, <1>7, <1>8
  <2> QED BY <2>1, <2>2, <2>3 DEF Residents
<1>21. InternalExact'
  <2>1. \A p \in Shared : Users(p)' = Users(p)
    BY <1>15, <1>20 DEF Users
  <2>2. ASSUME NEW p \in Shared \ {o} PROVE ExactAt(p)'
    <3>1. Public(p)' <=> Public(p)
      BY <1>12, <1>19 DEF Public
    <3>2. ExactAt(p)
      BY <1>2 DEF InternalExact
    <3> QED BY <3>1, <3>2, <2>1, <1>12, <1>15, ExactKept
  <2>3. Public(o)'
    <3>1. ~ Reviving(o)
      BY <1>3 DEF Reviving, Promisers
    <3> QED BY <3>1, <1>12, <1>19 DEF Public
  <2>4. Cardinality(Users(o)') = 0 /\ Cardinality(Droppers(o)') = 0
    BY <2>1, <1>3, <1>15, FS_EmptySet
  <2>5. internal_refs'[o] = 1 + Cardinality(Users(o)') + Cardinality(Droppers(o)')
    BY <2>4, <1>12
  <2> QED BY <2>2, <2>3, <2>5 DEF InternalExact, ExactAt
<1>22. k \in Heaps => life[k] = "live" /\ Holders(k) # {} /\ k # o
  <2>1. SUFFICES ASSUME k \in Heaps PROVE life[k] = "live" /\ Holders(k) # {} /\ k # o
    OBVIOUS
  <2>2. k \in Shared /\ t \in Holders(k) /\ k # o
    BY <2>1, <1>1, <1>4 DEF Holders
  <2>3. internal_refs[k] > 0
    BY <2>2, HeldIsCounted, PublicIsAlive
  <2> QED BY <2>1, <2>2, <2>3, <1>2 DEF LifeOK
<1>23. LifeOK'
  <2>1. ASSUME NEW h \in Heaps
        PROVE  /\ life'[h] = "live" <=> internal_refs'[h] > 0
               /\ life'[h] = "none" => \A r \in Resources : heap_of'[r] # h
    <3>1. CASE h = o
      BY <3>1, <1>12
    <3>2. CASE h # o
      <4>1. /\ life'[h] = life[h] /\ internal_refs'[h] = internal_refs[h]
        BY <3>2, <1>1, <1>12
      <4>2. ASSUME life[h] = "none", NEW r \in Resources PROVE heap_of'[r] # h
        <5>1. CASE r = o
          BY <5>1, <4>2, <1>4, <1>22
        <5>2. CASE r # o
          BY <5>2, <4>2, <1>2, <1>4 DEF LifeOK
        <5> QED BY <5>1, <5>2
      <4> QED BY <4>1, <4>2, <1>2 DEF LifeOK
    <3> QED BY <3>1, <3>2
  <2>2. ASSUME NEW r \in Resources
        PROVE  /\ internal_refs'[r] > 0 => life'[r] = "live"
               /\ life'[r] = "live" => internal_refs'[r] > 0 \/ \E v \in HeapThreads : r \in Frees(v)'
               /\ life'[r] = "none" => heap_of'[r] = NoHeap
    <3>1. CASE r = o
      BY <3>1, <1>12
    <3>2. CASE r # o
      <4>1. /\ life'[r] = life[r] /\ internal_refs'[r] = internal_refs[r] /\ heap_of'[r] = heap_of[r]
        BY <3>2, <1>1, <1>4, <1>12
      <4> QED BY <4>1, <1>2, <1>9 DEF LifeOK
    <3> QED BY <3>1, <3>2
  <2> QED BY <2>1, <2>2 DEF LifeOK
<1>24. PrivateOK'
  <2> SUFFICES ASSUME NEW r \in Resources
        PROVE  /\ private'[r] = "live" <=>
                      /\ heap_of'[r] = r
                      /\ internal_refs'[r] > 0 \/ \E v \in HeapThreads : r \in PrivateDrops(v)'
               /\ private'[r] = "live" => private_refs'[r] = 1
    BY DEF PrivateOK
  <2>1. CASE r = o
    BY <2>1, <1>4, <1>12, <1>13
  <2>2. CASE r # o
    <3>1. /\ private'[r] = private[r] /\ private_refs'[r] = private_refs[r]
          /\ heap_of'[r] = heap_of[r] /\ internal_refs'[r] = internal_refs[r]
      BY <2>2, <1>1, <1>4, <1>12, <1>13
    <3> QED BY <3>1, <1>2, <1>9 DEF PrivateOK
  <2> QED BY <2>1, <2>2
<1>25. ReturnsOK'
  <2> SUFFICES ASSUME NEW v \in HeapThreads, NEW p \in Returns(v)'
               PROVE  /\ Holders(p)' = {} /\ Promisers(p)' = {v} /\ Keepers(p)' = {}
                      /\ \A s \in Resources : heap_of'[s] = p => s = p
    BY DEF ReturnsOK
  <2>1. CASE v = t
    <3>1. p = o
      BY <2>1, <1>7
    <3> QED BY <2>1, <3>1, <1>3, <1>4, <1>15
  <2>2. CASE v # t
    <3>1. p \in Returns(v) /\ p # o /\ p \in Shared
      BY <2>2, <1>10, <1>17 DEF Returns, Objects
    <3>2. /\ Holders(p) = {} /\ Promisers(p) = {v} /\ Keepers(p) = {}
          /\ \A s \in Resources : heap_of[s] = p => s = p
      BY <3>1, <1>2 DEF ReturnsOK
    <3>3. ASSUME NEW s \in Resources, heap_of'[s] = p PROVE s = p
      <4>1. CASE s = o
        BY <4>1, <3>1, <3>2, <3>3, <1>1, <1>4, <1>22
      <4>2. CASE s # o
        BY <4>2, <3>2, <3>3, <1>4
      <4> QED BY <4>1, <4>2
    <3> QED BY <3>1, <3>2, <3>3, <1>15
  <2> QED BY <2>1, <2>2
<1>26. HandsOK'
  BY <1>2, <1>4, <1>9, HandsKept
<1>27. IncrementsOK'
  <2>1. \A v \in HeapThreads : Has(v)' = Has(v) /\ o \notin Has(v)
    BY <1>3, <1>4 DEF Has, Holders, Keepers
  <2>2. ASSUME NEW v \in HeapThreads, NEW h \in Increments(v)' \cap Heaps
        PROVE  \/ \E s \in Returns(v)' \cap Resources : heap_of'[s] = h /\ h \in holds'[v]
               \/ /\ h \in Promised(v)' /\ h \notin Returns(v)'
                  /\ \E s \in Has(v)' \cap Resources : heap_of'[s] = h
    <3>1. CASE v = t
      <4>1. h = k /\ o \in Resources /\ k \in holds[t]
        BY <3>1, <2>2, <1>1, <1>4, <1>7, <1>22
      <4> QED BY <3>1, <4>1, <1>4, <1>7
    <3>2. CASE v # t
      <4>1. \/ \E s \in Returns(v) \cap Resources : heap_of[s] = h /\ h \in holds[v]
            \/ /\ h \in Promised(v) /\ h \notin Returns(v)
               /\ \E s \in Has(v) \cap Resources : heap_of[s] = h
        BY <3>2, <2>2, <1>2, <1>10 DEF IncrementsOK
      <4>2. CASE \E s \in Returns(v) \cap Resources : heap_of[s] = h /\ h \in holds[v]
        BY <3>2, <4>2, <1>3, <1>4, <1>10, <1>17
      <4>3. CASE /\ h \in Promised(v) /\ h \notin Returns(v)
                 /\ \E s \in Has(v) \cap Resources : heap_of[s] = h
        BY <3>2, <4>3, <2>1, <1>4, <1>10
      <4> QED BY <4>1, <4>2, <4>3
    <3> QED BY <3>1, <3>2
  <2>3. ASSUME NEW v \in HeapThreads, NEW s \in (Increments(v)' \cap Resources) \cup DeviceAdds(v)'
        PROVE  s \in keeps'[v] /\ s \in Promised(v)' /\ s \notin Returns(v)'
    <3>1. v # t
      BY <2>3, <1>1, <1>7
    <3>2. s \in (Increments(v) \cap Resources) \cup DeviceAdds(v)
      BY <3>1, <2>3, <1>9, <1>10
    <3> QED BY <3>1, <3>2, <1>2, <1>4, <1>10 DEF IncrementsOK
  <2>4. ASSUME NEW p \in Shared, NEW v \in HeapThreads, NEW w \in HeapThreads,
               p \in Increments(v)', p \in Promised(v)', p \in Increments(w)', p \in Promised(w)'
        PROVE  v = w
    <3>1. /\ p \in Increments(v) /\ p \in Promised(v) /\ p \in Increments(w) /\ p \in Promised(w)
      BY <2>4, <1>18, <1>22
    <3> QED BY <3>1, <1>2 DEF IncrementsOK
  <2> QED BY <2>2, <2>3, <2>4 DEF IncrementsOK
<1>28. FreesOK'
  <2>1. ASSUME NEW v \in HeapThreads, NEW r \in Frees(v)'
        PROVE  /\ r \in Resources /\ internal_refs'[r] = 0 /\ life'[r] = "live"
               /\ \A w \in HeapThreads : r \in Frees(w)' => w = v
    <3>1. r \in Frees(v) /\ r # o
      BY <2>1, <1>3, <1>9
    <3>2. /\ r \in Resources /\ internal_refs[r] = 0 /\ life[r] = "live"
          /\ \A w \in HeapThreads : r \in Frees(w) => w = v
      BY <3>1, <1>2 DEF FreesOK
    <3> QED BY <3>1, <3>2, <1>1, <1>9, <1>12
  <2>2. ASSUME NEW v \in HeapThreads, NEW r \in PrivateDrops(v)'
        PROVE  r \in Frees(v)' /\ heap_of'[r] = r
    <3>1. r \in Frees(v) /\ heap_of[r] = r /\ r \in Resources /\ r # o
      BY <2>2, <1>2, <1>3, <1>9 DEF FreesOK
    <3> QED BY <3>1, <1>4, <1>9
  <2> QED BY <2>1, <2>2 DEF FreesOK
<1>29. DeviceExact'
  <2>1. AllReleases' = AllReleases /\ AllAdds' = AllAdds
    BY <1>5, <1>9, ReleasesStay, AddsStay
  <2>2. /\ Cardinality(AllReleases') = Cardinality(AllReleases) + 0
        /\ Cardinality(AllAdds') = Cardinality(AllAdds) + 0
    BY <2>1, CountsStay
  <2>3. device_refs' = device_refs + 1 /\ device_refs \in Int /\ device_refs' \in Int
    BY <1>2 DEF Makes, HeapTypes
  <2>4. CASE o \in Heaps
    <3>1. LiveHeaps' = LiveHeaps \cup {o} /\ o \notin LiveHeaps
      <4>1. life[o] = "none"
        BY DEF Makes
      <4> QED BY <4>1, <2>4, <1>1, <1>12 DEF LiveHeaps
    <3>2. Cardinality(LiveHeaps') = Cardinality(LiveHeaps) + 1
      BY <3>1, FiniteSets, Counted
    <3>3. PublicResources' = PublicResources
      BY <2>4, <1>1, <1>12 DEF PublicResources
    <3>4. Cardinality(PublicResources') = Cardinality(PublicResources) + 0
      BY <3>3, CountsStay
    <3>5. device_refs' + 0 = device_refs + 1 + 0 + 0
      BY <2>3
    <3> QED BY <3>2, <3>4, <3>5, <2>2, <2>3, <1>2, DeviceMoves
  <2>5. CASE o \in Resources
    <3>1. PublicResources' = PublicResources \cup {o} /\ o \notin PublicResources
      BY <2>5, <1>1, <1>3, <1>12 DEF PublicResources
    <3>2. Cardinality(PublicResources') = Cardinality(PublicResources) + 1
      BY <3>1, FiniteSets, Counted
    <3>3. LiveHeaps' = LiveHeaps
      BY <2>5, <1>1, <1>12 DEF LiveHeaps
    <3>4. Cardinality(LiveHeaps') = Cardinality(LiveHeaps) + 0
      BY <3>3, CountsStay
    <3>5. device_refs' + 0 = device_refs + 0 + 1 + 0
      BY <2>3
    <3> QED BY <3>2, <3>4, <3>5, <2>2, <2>3, <1>2, DeviceMoves
  <2> QED BY <2>4, <2>5, <1>1
<1>30. TodoOK'
  BY <1>5 DEF Only
<1> QED BY <1>14, <1>16, <1>21, <1>23, <1>24, <1>25, <1>26, <1>27, <1>28, <1>29, <1>30
     DEF HeapLifetimeInv

LEMMA CreateInv ==
    ASSUME HeapLifetimeInv, NEW t \in HeapThreads,
           \/ \E h \in Heaps : CreateHeap(t, h)
           \/ \E r \in Resources : \/ CreateReserved(t, r) \/ CreateWithPrivateHeap(t, r)
                                   \/ \E h \in Heaps : CreatePlaced(t, r, h)
    PROVE  HeapLifetimeInv'
<1>1. /\ Heaps \cap Resources = {} /\ Shared = Heaps \cup Resources
      /\ NoHeap \notin Heaps \cup Resources
  BY HeapLifetimeAssumption DEF Shared
<1>2. TodoOK /\ HeapTypes
  BY DEF HeapLifetimeInv
<1>3. /\ heap_of \in [Resources -> Heaps \cup {NoHeap} \cup Resources]
  BY <1>2 DEF HeapTypes
<1>4. ASSUME NEW h \in Heaps, CreateHeap(t, h) PROVE HeapLifetimeInv'
  <2>1. Only(t) /\ Quiet(t) /\ Doing(t, {h}, {}, {}, {}, {}, {}, {}, {})'
    BY <1>1, <1>2, <1>4, ReturnBegins DEF CreateHeap, Create
  <2>2. {NoHeap} \cap Heaps = {}
    BY <1>1
  <2>3. Doing(t, {h}, {}, {NoHeap} \cap Heaps, {}, {}, {}, {}, {})'
    BY <2>1, <2>2
  <2>4. Makes(t, h, NoHeap)
    BY <2>1, <2>3, <1>1, <1>3, <1>4 DEF Makes, CreateHeap, Create
  <2> QED BY <2>4, <1>1, MakesInv
<1>5. ASSUME NEW r \in Resources, CreateReserved(t, r) PROVE HeapLifetimeInv'
  <2>1. Only(t) /\ Quiet(t) /\ Doing(t, {r}, {}, {}, {}, {}, {}, {}, {})'
    BY <1>1, <1>2, <1>5, ReturnBegins DEF CreateReserved, Create
  <2>2. {NoHeap} \cap Heaps = {}
    BY <1>1
  <2>3. Doing(t, {r}, {}, {NoHeap} \cap Heaps, {}, {}, {}, {}, {})'
    BY <2>1, <2>2
  <2>4. r \in Shared /\ heap_of[r] = NoHeap
    BY <1>1, <1>5, NotYet DEF CreateReserved, Create
  <2>5. Makes(t, r, NoHeap)
    BY <2>1, <2>3, <2>4, <1>1, <1>3, <1>5 DEF Makes, CreateReserved, Create
  <2> QED BY <2>4, <2>5, MakesInv
<1>6. ASSUME NEW r \in Resources, CreateWithPrivateHeap(t, r) PROVE HeapLifetimeInv'
  <2>1. Only(t) /\ Quiet(t) /\ Doing(t, {r}, {}, {}, {}, {}, {}, {}, {})'
    BY <1>1, <1>2, <1>6, ReturnBegins DEF CreateWithPrivateHeap, Create
  <2>2. {r} \cap Heaps = {}
    BY <1>1
  <2>3. Doing(t, {r}, {}, {r} \cap Heaps, {}, {}, {}, {}, {})'
    BY <2>1, <2>2
  <2>4. heap_of' = [heap_of EXCEPT ![r] = r]
    BY <1>6 DEF CreateWithPrivateHeap
  <2>5. /\ heap_of' \in [Resources -> Heaps \cup {NoHeap} \cup Resources]
        /\ \A s \in Resources \ {r} : heap_of'[s] = heap_of[s]
        /\ heap_of'[r] = r
    BY <2>4, <1>3
  <2>6. Makes(t, r, r)
    BY <2>1, <2>3, <2>5, <1>1, <1>6 DEF Makes, CreateWithPrivateHeap, Create
  <2> QED BY <2>6, <1>1, MakesInv
<1>7. ASSUME NEW r \in Resources, NEW h \in Heaps, CreatePlaced(t, r, h) PROVE HeapLifetimeInv'
  <2>1. Only(t) /\ Quiet(t) /\ Doing(t, {r}, {}, {h}, {}, {}, {}, {}, {})'
    BY <1>2, <1>7, PlaceBegins DEF CreatePlaced, Create
  <2>2. {h} \cap Heaps = {h}
    OBVIOUS
  <2>3. Doing(t, {r}, {}, {h} \cap Heaps, {}, {}, {}, {}, {})'
    BY <2>1, <2>2
  <2>4. heap_of' = [heap_of EXCEPT ![r] = h] /\ h \in holds[t]
    BY <1>7 DEF CreatePlaced
  <2>5. /\ heap_of' \in [Resources -> Heaps \cup {NoHeap} \cup Resources]
        /\ \A s \in Resources \ {r} : heap_of'[s] = heap_of[s]
        /\ heap_of'[r] = h
    BY <2>4, <1>3
  <2>6. h # r
    BY <1>1
  <2>7. Makes(t, r, h)
    BY <2>1, <2>3, <2>4, <2>5, <2>6, <1>1, <1>7 DEF Makes, CreatePlaced, Create
  <2> QED BY <2>7, <1>1, MakesInv
<1> QED BY <1>4, <1>5, <1>6, <1>7

LEMMA CreateFailsInv ==
    ASSUME HeapLifetimeInv, NEW t \in HeapThreads, NEW r \in Resources, CreateFails(t, r)
    PROVE  HeapLifetimeInv'
<1>1. /\ Heaps \cap Resources = {} /\ Shared = Heaps \cup Resources
      /\ NoHeap \notin Heaps \cup Resources /\ r \in Shared
  BY HeapLifetimeAssumption DEF Shared
<1>2. /\ TodoOK /\ HeapTypes /\ RefsExact /\ InternalExact /\ LifeOK /\ PrivateOK
      /\ ReturnsOK /\ HandsOK /\ IncrementsOK /\ FreesOK /\ DeviceExact
  BY DEF HeapLifetimeInv
<1>3. /\ UNCHANGED <<private, refs, private_refs, heap_of, holds, keeps>>
      /\ life[r] = "none" /\ Idle(t) /\ Will(t, Released(r))
  BY DEF CreateFails
<1>4. /\ internal_refs[r] = 0 /\ refs[r] = 0 /\ Users(r) = {} /\ Droppers(r) = {}
      /\ heap_of[r] = NoHeap /\ private[r] # "live"
      /\ \A v \in HeapThreads : r \notin Frees(v)
  BY <1>1, <1>3, NotYet
<1>5. Only(t) /\ Quiet(t) /\ Doing(t, {}, {}, {}, {r}, {}, {}, {}, {r})'
  BY <1>2, <1>3, FailureBegins
<1>6. /\ Returns(t) = {} /\ Hands(t) = {} /\ Increments(t) = {} /\ Drops(t) = {} /\ Frees(t) = {}
      /\ PrivateDrops(t) = {} /\ DeviceAdds(t) = {} /\ DeviceReleases(t) = {}
  BY <1>5, DoingNow DEF Quiet
<1>7. /\ Returns(t)' = {} /\ Hands(t)' = {} /\ Increments(t)' = {} /\ Drops(t)' = {r}
      /\ Frees(t)' = {} /\ PrivateDrops(t)' = {} /\ DeviceAdds(t)' = {} /\ DeviceReleases(t)' = {r}
  BY <1>5, DoingNext
<1>8. \A v \in HeapThreads :
          /\ UNCHANGED <<Returns(v), Hands(v), Increments(v), Frees(v), PrivateDrops(v),
                         DeviceAdds(v)>>
          /\ Promised(v)' = Promised(v)
  <2> TAKE v \in HeapThreads
  <2>1. CASE v = t
    BY <2>1, <1>6, <1>7, PromisedSame
  <2>2. CASE v # t
    BY <2>2, <1>5, OthersSame
  <2> QED BY <2>1, <2>2
<1>9. SameIncrements
  BY <1>8 DEF SameIncrements
<1>10. RefsExact' /\ ReturnsOK' /\ HandsOK' /\ IncrementsOK'
  BY <1>3, <1>8, RefsKept, ReturnsKept, HandsKept, IncrementsKept DEF HeapLifetimeInv
<1>11. /\ life' = [life EXCEPT ![r] = "live"] /\ life \in [Shared -> {"none", "live", "freed"}]
       /\ internal_refs' = [internal_refs EXCEPT ![r] = 1] /\ internal_refs \in [Shared -> Nat]
  BY <1>2 DEF CreateFails, HeapTypes
<1>12. /\ life' \in [Shared -> {"none", "live", "freed"}] /\ life'[r] = "live"
       /\ internal_refs' \in [Shared -> Nat] /\ internal_refs'[r] = 1
       /\ \A p \in Shared \ {r} : life'[p] = life[p] /\ internal_refs'[p] = internal_refs[p]
  BY <1>1, <1>11
<1>13. device_refs' = device_refs + 1 /\ device_refs \in Int /\ device_refs' \in Int
  BY <1>2 DEF CreateFails, HeapTypes
<1>14. HeapTypes'
  BY <1>2, <1>3, <1>12, <1>13 DEF HeapTypes
<1>15. LifeOK'
  BY <1>1, <1>2, <1>3, <1>8, <1>12 DEF LifeOK
<1>16. PrivateOK'
  BY <1>1, <1>2, <1>3, <1>4, <1>8, <1>12 DEF PrivateOK
<1>17. FreesOK'
  BY <1>1, <1>2, <1>3, <1>4, <1>8, <1>12 DEF FreesOK
<1>18. \A p \in Shared : (Public(p)' <=> Public(p)) /\ Users(p)' = Users(p)
  <2>1. \A p \in Shared : Public(p)' <=> Public(p)
    BY <1>3, <1>9, PublicKept
  <2>2. \A p \in Heaps : Residents(p)' = Residents(p)
    BY <1>1, <1>3, <1>4, <1>8, <1>12 DEF Residents
  <2>3. \A p : Keepers(p)' = Keepers(p)
    BY <1>3 DEF Keepers
  <2> QED BY <2>1, <2>2, <2>3 DEF Users
<1>19. /\ Droppers(r)' = {t}
       /\ \A p : p # r => Droppers(p)' = Droppers(p)
  <2>1. \A v \in HeapThreads \ {t} : Drops(v)' = Drops(v)
    BY <1>5, OthersSame
  <2> QED BY <2>1, <1>4, <1>6, <1>7 DEF Droppers
<1>20. InternalExact'
  <2>1. ASSUME NEW p \in Shared \ {r} PROVE ExactAt(p)'
    <3>1. ExactAt(p)
      BY <1>2 DEF InternalExact
    <3> QED BY <3>1, <1>12, <1>18, <1>19, ExactKept
  <2>2. Cardinality(Users(r)') = 0 /\ Cardinality(Droppers(r)') = 1
    BY <1>1, <1>4, <1>18, <1>19, FS_EmptySet, FS_Singleton
  <2>3. ~ Public(r)'
    BY <1>1, <1>4, <1>18 DEF Public
  <2>4. internal_refs'[r] = 0 + Cardinality(Users(r)') + Cardinality(Droppers(r)')
    BY <2>2, <1>12
  <2> QED BY <2>1, <2>3, <2>4 DEF InternalExact, ExactAt
<1>21. DeviceExact'
  <2>1. /\ AllAdds' = AllAdds /\ LiveHeaps' = LiveHeaps /\ PublicResources' = PublicResources
    BY <1>1, <1>3, <1>5, <1>8, <1>12, AddsStay DEF LiveHeaps, PublicResources
  <2>2. Cardinality(AllReleases') = Cardinality(AllReleases) + 1
    BY <1>1, <1>5, <1>6, <1>7, ReleasesGain
  <2>3. /\ Cardinality(AllAdds') = Cardinality(AllAdds) + 0
        /\ Cardinality(LiveHeaps') = Cardinality(LiveHeaps) + 0
        /\ Cardinality(PublicResources') = Cardinality(PublicResources) + 0
    BY <2>1, CountsStay
  <2>4. device_refs' + 0 = device_refs + 0 + 0 + 1
    BY <1>13
  <2> QED BY <2>2, <2>3, <2>4, <1>2, <1>13, DeviceMoves
<1> QED BY <1>5, <1>10, <1>14, <1>15, <1>16, <1>17, <1>20, <1>21 DEF HeapLifetimeInv, Only

----------------------------------------------------------------------------
LEMMA HeapLifetimeInitInv == HeapLifetimeInit => HeapLifetimeInv
<1> SUFFICES ASSUME HeapLifetimeInit PROVE HeapLifetimeInv
  OBVIOUS
<1> USE DEF HeapLifetimeInit
<1>1. Heaps \cap Resources = {} /\ Shared = Heaps \cup Resources /\ NoHeap \notin Heaps \cup Resources
  BY HeapLifetimeAssumption DEF Shared
<1>2. \A t \in HeapThreads : Quiet(t)
  BY IdleIsQuiet DEF Idle
<1>3. \A t \in HeapThreads :
          /\ Returns(t) = {} /\ Hands(t) = {} /\ Increments(t) = {} /\ Drops(t) = {}
          /\ Frees(t) = {} /\ PrivateDrops(t) = {} /\ DeviceAdds(t) = {} /\ DeviceReleases(t) = {}
  BY <1>2, DoingNow DEF Quiet
<1>4. \A t \in HeapThreads : Promised(t) = {}
  BY <1>3 DEF Promised
<1>5. HeapTypes
  BY <1>1 DEF HeapTypes
<1>6. TodoOK
  BY FewSteps DEF TodoOK
<1>7. \A o \in Shared : /\ Holders(o) = {} /\ Promisers(o) = {} /\ Droppers(o) = {} /\ Users(o) = {}
                        /\ ~ Public(o)
  BY <1>1, <1>3, <1>4 DEF Holders, Promisers, Droppers, Users, Residents, Keepers, Public
<1>8. RefsExact
  <2> SUFFICES ASSUME NEW o \in Shared
               PROVE  refs[o] = Cardinality(Holders(o)) + Cardinality(Promisers(o))
    BY DEF RefsExact
  <2>1. Cardinality(Holders(o)) = 0 /\ Cardinality(Promisers(o)) = 0 /\ refs[o] = 0
    BY <1>7, FS_EmptySet
  <2> QED BY <2>1
<1>9. InternalExact
  <2> SUFFICES ASSUME NEW o \in Shared PROVE ExactAt(o)
    BY DEF InternalExact
  <2>1. /\ Cardinality(Users(o)) = 0 /\ Cardinality(Droppers(o)) = 0 /\ internal_refs[o] = 0
        /\ ~ Public(o)
    BY <1>7, FS_EmptySet
  <2> QED BY <2>1 DEF ExactAt
<1>10. LifeOK
  BY <1>1 DEF LifeOK
<1>11. PrivateOK
  BY <1>1 DEF PrivateOK
<1>12. ReturnsOK /\ HandsOK /\ IncrementsOK /\ FreesOK
  BY <1>3 DEF ReturnsOK, HandsOK, IncrementsOK, FreesOK
<1>13. DeviceExact
  <2>1. AllReleases = {} /\ AllAdds = {} /\ LiveHeaps = {} /\ PublicResources = {}
    BY <1>1, <1>3 DEF AllReleases, AllAdds, LiveHeaps, PublicResources
  <2>2. Cardinality({}) = 0
    BY FS_EmptySet
  <2> QED BY <2>1, <2>2 DEF DeviceExact
<1> QED BY <1>5, <1>6, <1>8, <1>9, <1>10, <1>11, <1>12, <1>13 DEF HeapLifetimeInv

LEMMA HeapLifetimeInvStep ==
    ASSUME HeapLifetimeInv, [HeapLifetimeNext]_heapLifetimeVars
    PROVE  HeapLifetimeInv'
<1>1. CASE UNCHANGED heapLifetimeVars
  <2>1. UNCHANGED <<life, private, refs, internal_refs, private_refs, heap_of,
                    device_refs, holds, keeps, todo>>
    BY <1>1 DEF heapLifetimeVars
  <2>2. \A v : UNCHANGED <<Returns(v), Hands(v), Increments(v), Drops(v), Frees(v),
                           PrivateDrops(v), DeviceAdds(v), DeviceReleases(v)>>
    BY <2>1 DEF Returns, Hands, Increments, Drops, Frees, PrivateDrops, DeviceAdds, DeviceReleases,
                Due
  <2>3. \A v : Promised(v)' = Promised(v)
    BY <2>2, PromisedSame
  <2>4. SameIncrements
    BY <2>2, <2>3 DEF SameIncrements
  <2>5. /\ RefsExact' /\ InternalExact' /\ ReturnsOK' /\ HandsOK' /\ IncrementsOK' /\ LifeOK'
        /\ DeviceExact' /\ PrivateOK' /\ FreesOK'
    BY <2>1, <2>2, <2>3, <2>4, RefsKept, InternalKept, ReturnsKept, HandsKept, IncrementsKept,
       LifeKept, DeviceKept, PrivateKept, FreesKept DEF HeapLifetimeInv
  <2>6. HeapTypes' /\ TodoOK'
    BY <2>1 DEF HeapLifetimeInv, HeapTypes, TodoOK
  <2> QED BY <2>5, <2>6 DEF HeapLifetimeInv
<1>2. ASSUME NEW t \in HeapThreads,
             \/ \E h \in Heaps : CreateHeap(t, h)
             \/ \E r \in Resources :
                    \/ CreateFails(t, r) \/ CreateReserved(t, r) \/ CreateWithPrivateHeap(t, r)
                    \/ \E h \in Heaps : CreatePlaced(t, r, h)
                    \/ IncRef(t, r) \/ DecRef(t, r)
             \/ \E o \in Shared : Release(t, o) \/ \E u \in HeapThreads : AddRef(t, u, o)
             \/ Return(t) \/ Hand(t) \/ Increment(t) \/ HeapDecref(t) \/ Decref(t)
             \/ PrivateDecref(t) \/ FreeResource(t) \/ DeviceRef(t)
      PROVE  HeapLifetimeInv'
  <2>1. CASE \E h \in Heaps : CreateHeap(t, h)
    BY <2>1, CreateInv
  <2>2. ASSUME NEW r \in Resources,
               \/ CreateFails(t, r) \/ CreateReserved(t, r) \/ CreateWithPrivateHeap(t, r)
               \/ \E h \in Heaps : CreatePlaced(t, r, h)
               \/ IncRef(t, r) \/ DecRef(t, r)
        PROVE  HeapLifetimeInv'
    BY <2>2, CreateInv, CreateFailsInv, IncRefInv, DecRefInv
  <2>3. ASSUME NEW o \in Shared, Release(t, o) \/ \E u \in HeapThreads : AddRef(t, u, o)
        PROVE  HeapLifetimeInv'
    BY <2>3, ReleaseInv, AddRefInv
  <2>4. CASE \/ Return(t) \/ Hand(t) \/ Increment(t) \/ HeapDecref(t) \/ Decref(t)
             \/ PrivateDecref(t) \/ FreeResource(t) \/ DeviceRef(t)
    BY <2>4, GiveStepInv, IncrementInv, HeapDecrefInv, DecrefInv, PrivateDecrefInv, FreeStepInv,
       DeviceStepInv
  <2> QED BY <2>1, <2>2, <2>3, <2>4, <1>2
<1> QED BY <1>1, <1>2 DEF HeapLifetimeNext

----------------------------------------------------------------------------
\* What the invariant says of what a user of the objects sees.
LEMMA CountedIsLive ==
    ASSUME HeapLifetimeInv, NEW o \in Shared, internal_refs[o] > 0
    PROVE  life[o] = "live"
<1>1. LifeOK /\ (o \in Heaps \/ o \in Resources)
  BY DEF HeapLifetimeInv, Shared
<1> QED BY <1>1 DEF LifeOK

LEMMA StepsTouchLive ==
    ASSUME HeapLifetimeInv, NEW t \in HeapThreads, NEW step \in Due(t), step[1] # "device_release"
    PROVE  life[step[Len(step)]] = "live"
<1>1. /\ Heaps \cap Resources = {} /\ Shared = Heaps \cup Resources
  BY HeapLifetimeAssumption DEF Shared
<1>2. TodoOK /\ IncrementsOK /\ FreesOK
  BY DEF HeapLifetimeInv
<1>3. step \in HeapSteps
  BY <1>2, ElementOfSeq DEF TodoOK, Due, Elements
<1>4. ASSUME NEW o \in Promised(t) PROVE life[o] = "live"
  <2>1. o \in Shared /\ t \in Promisers(o)
    BY <1>2, <1>4, OnePromise DEF Promisers
  <2> QED BY <2>1, HeldIsCounted, PublicIsAlive, CountedIsLive
<1>5. ASSUME NEW o \in Drops(t) PROVE life[o] = "live"
  <2>1. o \in Shared /\ t \in Droppers(o)
    BY <1>5 DEF Drops, Objects, Droppers
  <2> QED BY <2>1, UsedIsCounted, CountedIsLive
<1>6. ASSUME NEW r \in (Increments(t) \cap Resources) \cup DeviceAdds(t) PROVE life[r] = "live"
  <2>1. r \in keeps[t]
    BY <1>2, <1>6 DEF IncrementsOK
  <2> QED BY <2>1, KeptIsCounted, CountedIsLive
<1>7. ASSUME NEW h \in Increments(t) \cap Heaps PROVE life[h] = "live"
  <2>1. h \in Shared
    BY <1>1, <1>7
  <2>2. CASE h \in holds[t]
    <3>1. t \in Holders(h)
      BY <2>2 DEF Holders
    <3> QED BY <3>1, <2>1, HeldIsCounted, PublicIsAlive, CountedIsLive
  <2>3. CASE h \in Promised(t)
    BY <2>3, <1>4
  <2> QED BY <2>2, <2>3, <1>2, <1>7 DEF IncrementsOK
<1>8. CASE step \in {"heap_incref", "heap_decref"} \X Heaps
  <2> PICK op \in {"heap_incref", "heap_decref"}, h \in Heaps : step = <<op, h>>
    BY <1>8
  <2>1. Len(step) = 2 /\ step[2] = h /\ h \in Shared
    BY <1>1
  <2>2. h \in Increments(t) \/ h \in Drops(t)
    BY <2>1 DEF Increments, Drops, Objects
  <2> QED BY <2>1, <2>2, <1>5, <1>7
<1>9. CASE step \in {"incref", "decref", "free", "private_decref", "device_add_ref"} \X Resources
  <2> PICK op \in {"incref", "decref", "free", "private_decref", "device_add_ref"}, r \in Resources :
        step = <<op, r>>
    BY <1>9
  <2>1. Len(step) = 2 /\ step[2] = r /\ r \in Shared
    BY <1>1
  <2>2. \/ r \in Increments(t) \/ r \in Drops(t) \/ r \in DeviceAdds(t) \/ r \in Frees(t)
        \/ r \in PrivateDrops(t)
    BY <2>1 DEF Increments, Drops, DeviceAdds, Frees, PrivateDrops, Objects
  <2>3. r \in Frees(t) \/ r \in PrivateDrops(t) => life[r] = "live"
    BY <1>2 DEF FreesOK
  <2> QED BY <2>1, <2>2, <2>3, <1>5, <1>6
<1>10. CASE step \in {"device_release", "return"} \X Shared
  <2> PICK op \in {"device_release", "return"}, o \in Shared : step = <<op, o>>
    BY <1>10
  <2>1. Len(step) = 2 /\ step[2] = o /\ op = "return"
    OBVIOUS
  <2>2. o \in Promised(t)
    BY <2>1 DEF Promised, Returns, Objects
  <2> QED BY <2>1, <2>2, <1>4
<1>11. CASE step \in {"hand"} \X HeapThreads \X Shared
  <2> PICK u \in HeapThreads, o \in Shared : step = <<"hand", u, o>>
    BY <1>11
  <2> PICK x : x = <<u, o>>
    OBVIOUS
  <2>1. Len(step) = 3 /\ step[3] = o /\ x[1] = u /\ x[2] = o /\ x \in HeapThreads \X Shared
    OBVIOUS
  <2>2. x \in Hands(t)
    BY <2>1 DEF Hands, Handed
  <2>3. o \in Promised(t)
    BY <2>1, <2>2 DEF Promised
  <2> QED BY <2>1, <2>3, <1>4
<1> QED BY <1>3, <1>8, <1>9, <1>10, <1>11 DEF HeapSteps

LEMMA NothingFreedIsUsedInv == HeapLifetimeInv => NothingFreedIsUsed
<1> SUFFICES ASSUME HeapLifetimeInv, NEW t \in HeapThreads
             PROVE  /\ \A n \in DOMAIN todo[t] :
                           todo[t][n][1] # "device_release" =>
                               life[todo[t][n][Len(todo[t][n])]] = "live"
                    /\ \A o \in Reaches(t) : life[o] = "live"
                    /\ \A r \in Has(t) \cap Resources : heap_of[r] = r => private[r] = "live"
  BY DEF NothingFreedIsUsed
<1>1. ASSUME NEW n \in DOMAIN todo[t], todo[t][n][1] # "device_release"
      PROVE  life[todo[t][n][Len(todo[t][n])]] = "live"
  <2> PICK step : step = todo[t][n]
    OBVIOUS
  <2>1. step \in Due(t) /\ step[1] # "device_release"
    BY <1>1 DEF Due, Elements
  <2>2. life[step[Len(step)]] = "live"
    BY <2>1, StepsTouchLive
  <2> QED BY <2>2
<1>2. \A o \in Reaches(t) : life[o] = "live"
  BY ReachedIsKept, CountedIsLive
<1>3. ASSUME NEW r \in Has(t) \cap Resources, heap_of[r] = r PROVE private[r] = "live"
  <2>1. internal_refs[r] > 0
    BY OwnedIsResident
  <2> QED BY <2>1, <1>3 DEF HeapLifetimeInv, PrivateOK
<1> QED BY <1>1, <1>2, <1>3

LEMMA SameSize ==
    ASSUME NEW S, NEW T, IsFiniteSet(S), NEW f \in [S -> T],
           \A a, b \in S : f[a] = f[b] => a = b, \A y \in T : \E x \in S : f[x] = y
    PROVE  Cardinality(T) = Cardinality(S)
<1>1. f \in Bijection(S, T)
  BY Fun_IsBij
<1>2. ExistsBijection(S, T)
  BY <1>1 DEF ExistsBijection
<1> QED BY <1>2, FS_Bijection

\* The threads that bring a heap a reference: for a resource that they are
\* about to return, or for the public count.
Placing(h) == {t \in HeapThreads : h \in Increments(t) /\ h \notin Promised(t)}
Revivers(h) == {t \in HeapThreads : h \in Increments(t) /\ h \in Promised(t)}
InHeap(h) == {r \in Resources : heap_of[r] = h /\ internal_refs[r] > 0}

LEMMA PlacedForOne ==
    ASSUME HeapLifetimeInv, NEW h \in Heaps
    PROVE  /\ IsFiniteSet(Placing(h)) /\ IsFiniteSet(Revivers(h)) /\ IsFiniteSet(InHeap(h))
           /\ Cardinality(InHeap(h)) = Cardinality(Residents(h)) + Cardinality(Placing(h))
<1>1. /\ Heaps \cap Resources = {} /\ Shared = Heaps \cup Resources
      /\ IsFiniteSet(HeapThreads) /\ IsFiniteSet(Resources)
  BY HeapLifetimeAssumption DEF Shared
<1>2. TodoOK /\ IncrementsOK /\ ReturnsOK
  BY DEF HeapLifetimeInv
<1>3. IsFiniteSet(Placing(h)) /\ IsFiniteSet(Revivers(h)) /\ IsFiniteSet(InHeap(h))
  BY <1>1, FS_Subset DEF Placing, Revivers, InHeap
<1> PICK N : N = {r \in InHeap(h) : \E t \in HeapThreads : h \in Increments(t) /\ r \in Promised(t)}
  OBVIOUS
<1>4. InHeap(h) \ N = Residents(h) /\ N \subseteq InHeap(h)
  BY DEF InHeap, Residents
<1>5. ASSUME NEW t \in Placing(h)
      PROVE  \E r \in Resources : r \in Returns(t) /\ r \in Promised(t) /\ r \in N
  <2>1. t \in HeapThreads /\ h \in Increments(t) /\ h \notin Promised(t)
    BY <1>5 DEF Placing
  <2>2. PICK r \in Returns(t) \cap Resources : heap_of[r] = h
    BY <2>1, <1>2 DEF IncrementsOK
  <2>3. r \in Promised(t) /\ r \in Shared /\ t \in Promisers(r)
    BY <2>1, <2>2, <1>1 DEF Promised, Promisers
  <2>4. internal_refs[r] > 0
    BY <2>3, HeldIsCounted, PublicIsAlive
  <2> QED BY <2>1, <2>2, <2>3, <2>4 DEF InHeap
<1>0. PICK f : f = [t \in Placing(h) |->
                       CHOOSE r \in Resources : r \in Returns(t) /\ r \in Promised(t) /\ r \in N]
  OBVIOUS
<1>6. \A t \in Placing(h) :
          f[t] \in Resources /\ f[t] \in Returns(t) /\ f[t] \in Promised(t) /\ f[t] \in N
  BY <1>0, <1>5
<1>7. f \in [Placing(h) -> N]
  BY <1>0, <1>6
<1>8. ASSUME NEW t \in Placing(h), NEW v \in Placing(h), f[t] = f[v] PROVE t = v
  <2>1. t \in HeapThreads /\ v \in HeapThreads
    BY DEF Placing
  <2>2. Promisers(f[t]) = {t} /\ v \in Promisers(f[t])
    BY <2>1, <1>2, <1>6, <1>8 DEF ReturnsOK, Promisers
  <2> QED BY <2>2
<1>9. ASSUME NEW r \in N PROVE \E t \in Placing(h) : f[t] = r
  <2>1. PICK t \in HeapThreads : h \in Increments(t) /\ r \in Promised(t)
    OBVIOUS
  <2>2. h # r
    BY <1>1, <1>4 DEF InHeap
  <2>3. h \notin Promised(t)
    BY <2>1, <2>2, <1>2, OnePromise
  <2>4. t \in Placing(h)
    BY <2>1, <2>3 DEF Placing
  <2>5. f[t] = r
    BY <2>1, <2>4, <1>2, <1>6, OnePromise
  <2> QED BY <2>4, <2>5
<1>10. Cardinality(N) = Cardinality(Placing(h))
  <2> PICK S : S = Placing(h)
    OBVIOUS
  <2>1. \A t, v \in S : f[t] = f[v] => t = v
    BY <1>8
  <2>2. \A r \in N : \E t \in S : f[t] = r
    BY <1>9
  <2>3. IsFiniteSet(S) /\ f \in [S -> N]
    BY <1>3, <1>7
  <2>4. Cardinality(N) = Cardinality(S)
    BY <2>1, <2>2, <2>3, SameSize
  <2> QED BY <2>4
<1>12. Cardinality(Residents(h)) = Cardinality(InHeap(h)) - Cardinality(N)
  <2> PICK S : S = InHeap(h)
    OBVIOUS
  <2>1. IsFiniteSet(S) /\ S \cap N = N /\ S \ N = Residents(h)
    BY <1>3, <1>4
  <2>2. Cardinality(S \ N) = Cardinality(S) - Cardinality(S \cap N)
    BY <2>1, FS_Difference
  <2> QED BY <2>1, <2>2
<1>13. Cardinality(InHeap(h)) \in Nat /\ Cardinality(Placing(h)) \in Nat
  BY <1>3, FS_CardinalityType
<1> PICK a, b, c, d : /\ a = Cardinality(InHeap(h)) /\ b = Cardinality(Placing(h)) /\ c = Cardinality(N)
                      /\ d = Cardinality(Residents(h))
  OBVIOUS
<1>14. a = d + b
  BY <1>10, <1>12, <1>13
<1> QED BY <1>3, <1>14

LEMMA PublicOrRevived ==
    ASSUME HeapLifetimeInv, NEW h \in Heaps
    PROVE  (IF Public(h) THEN 1 ELSE 0) + Cardinality(Revivers(h)) = (IF refs[h] > 0 THEN 1 ELSE 0)
<1>1. h \in Shared /\ IncrementsOK
  BY DEF Shared, HeapLifetimeInv
<1>2. CASE Revivers(h) = {}
  <2>1. Cardinality(Revivers(h)) = 0 /\ ~ Reviving(h)
    BY <1>2, FS_EmptySet DEF Reviving, Revivers
  <2>2. Public(h) <=> refs[h] > 0
    BY <2>1 DEF Public
  <2> QED BY <2>1, <2>2
<1>3. CASE Revivers(h) # {}
  <2>1. PICK t : t \in Revivers(h)
    BY <1>3
  <2>2. Revivers(h) = {t}
    BY <2>1, <1>1 DEF Revivers, IncrementsOK
  <2>3. Cardinality(Revivers(h)) = 1
    BY <2>2, FS_Singleton
  <2>4. t \in HeapThreads /\ h \in Increments(t) /\ h \in Promised(t)
    BY <2>1 DEF Revivers
  <2>5. t \in Promisers(h) /\ Reviving(h)
    BY <2>4 DEF Promisers, Reviving
  <2>6. refs[h] > 0 /\ ~ Public(h)
    BY <2>5, <1>1, HeldIsCounted DEF Public
  <2> QED BY <2>3, <2>6
<1> QED BY <1>2, <1>3

LEMMA PendingSteps ==
    ASSUME HeapLifetimeInv, NEW h \in Heaps
    PROVE  /\ Pending("heap_decref", h) = Cardinality(Droppers(h))
           /\ Pending("heap_incref", h) = Cardinality(Placing(h)) + Cardinality(Revivers(h))
<1>1. \A t \in HeapThreads : Due(t) \subseteq HeapSteps
  BY ElementOfSeq DEF HeapLifetimeInv, TodoOK, Due, Elements
<1>2. h \in Shared /\ h \notin Resources
  BY HeapLifetimeAssumption DEF Shared
<1>3. \A t \in HeapThreads : /\ <<"heap_decref", h>> \in Due(t) <=> h \in Drops(t)
                             /\ <<"heap_incref", h>> \in Due(t) <=> h \in Increments(t)
  <2> TAKE t \in HeapThreads
  <2>1. <<"decref", h>> \notin Due(t) /\ <<"incref", h>> \notin Due(t)
    BY <1>1, <1>2, DueOfKind
  <2> QED BY <2>1, <1>2 DEF Drops, Increments, Objects
<1>4. \A op : Pending(op, h) = Cardinality({t \in HeapThreads : <<op, h>> \in Due(t)})
  BY DEF Pending, Due, Elements
<1>5. {t \in HeapThreads : <<"heap_decref", h>> \in Due(t)} = Droppers(h)
  BY <1>3 DEF Droppers
<1>6. {t \in HeapThreads : <<"heap_incref", h>> \in Due(t)} = Placing(h) \cup Revivers(h)
  BY <1>3 DEF Placing, Revivers
<1>7. Placing(h) \cap Revivers(h) = {}
  BY DEF Placing, Revivers
<1>8. IsFiniteSet(Placing(h)) /\ IsFiniteSet(Revivers(h))
  BY PlacedForOne
<1> PICK P, Q, a, b : /\ P = Placing(h) /\ Q = Revivers(h) /\ a = Cardinality(P) /\ b = Cardinality(Q)
  OBVIOUS
<1>9. a \in Nat /\ b \in Nat /\ Cardinality(P \cap Q) = 0
  BY <1>7, <1>8, FS_CardinalityType, FS_EmptySet
<1>10. Cardinality(P \cup Q) = a + b - 0
  BY <1>8, <1>9, FS_Union
<1>11. Cardinality(P \cup Q) = a + b
  BY <1>9, <1>10
<1> QED BY <1>4, <1>5, <1>6, <1>11

LEMMA InternalRefsAccountedInv == HeapLifetimeInv => InternalRefsAccounted
<1> SUFFICES ASSUME HeapLifetimeInv, NEW h \in Heaps
             PROVE  internal_refs[h] + Pending("heap_incref", h) - Pending("heap_decref", h)
                        = (IF refs[h] > 0 THEN 1 ELSE 0)
                          + Cardinality({r \in Resources : heap_of[r] = h /\ internal_refs[r] > 0})
  BY DEF InternalRefsAccounted
<1>1. {r \in Resources : heap_of[r] = h /\ internal_refs[r] > 0} = InHeap(h)
  BY DEF InHeap
<1>2. h \in Shared /\ Users(h) = Residents(h)
  BY DEF Shared, Users
<1> PICK p, q, i, u, d, a, b, n :
        /\ p = (IF Public(h) THEN 1 ELSE 0) /\ q = (IF refs[h] > 0 THEN 1 ELSE 0)
        /\ i = internal_refs[h] /\ u = Cardinality(Residents(h)) /\ d = Cardinality(Droppers(h))
        /\ a = Cardinality(Placing(h)) /\ b = Cardinality(Revivers(h)) /\ n = Cardinality(InHeap(h))
  OBVIOUS
<1>3. i = p + u + d
  BY <1>2 DEF HeapLifetimeInv, InternalExact, ExactAt
<1>4. n = u + a
  BY PlacedForOne
<1>5. p + b = q
  BY PublicOrRevived
<1>6. p \in Int /\ q \in Int /\ u \in Int /\ d \in Int /\ a \in Int /\ b \in Int
  <2>1. u \in Nat /\ d \in Nat
    BY <1>2, FiniteParts
  <2>2. a \in Nat /\ b \in Nat
    BY PlacedForOne, FS_CardinalityType
  <2>3. p \in {0, 1} /\ q \in {0, 1}
    OBVIOUS
  <2> QED BY <2>1, <2>2, <2>3
<1>7. i + (a + b) - d = q + n
  BY <1>3, <1>4, <1>5, <1>6
<1>8. Pending("heap_decref", h) = d /\ Pending("heap_incref", h) = a + b
  BY PendingSteps
<1> QED BY <1>1, <1>7, <1>8

\* A call has at most three steps left, and at most one of each rank.
LEMMA FewLeft ==
    ASSUME TodoOK, NEW t \in HeapThreads
    PROVE  /\ DOMAIN todo[t] \subseteq 1 .. 3
           /\ \A n, m \in DOMAIN todo[t] : Rank(todo[t][n]) = Rank(todo[t][m]) => n = m
           /\ \A n \in DOMAIN todo[t] : todo[t][n] \in HeapSteps
<1> PICK s : s = todo[t]
  OBVIOUS
<1>1. Rising(s) /\ s \in Seq(HeapSteps)
  BY DEF TodoOK
<1>2. Len(s) \in Nat /\ DOMAIN s = 1 .. Len(s)
  BY <1>1, LenProperties
<1>3. \A n, m \in DOMAIN s : n < m => Rank(s[n]) < Rank(s[m])
  BY <1>1 DEF Rising
<1>4. Len(s) <= 3
  <2> SUFFICES ASSUME Len(s) > 3 PROVE FALSE
    BY <1>2
  <2>1. 1 \in DOMAIN s /\ 2 \in DOMAIN s /\ 3 \in DOMAIN s /\ 4 \in DOMAIN s
    BY <1>2
  <2>2. Rank(s[1]) < Rank(s[2]) /\ Rank(s[2]) < Rank(s[3]) /\ Rank(s[3]) < Rank(s[4])
    BY <2>1, <1>3
  <2>3. Rank(s[1]) \in 1 .. 3 /\ Rank(s[2]) \in 1 .. 3 /\ Rank(s[3]) \in 1 .. 3 /\ Rank(s[4]) \in 1 .. 3
    BY RankRange
  <2> QED BY <2>2, <2>3
<1>5. ASSUME NEW n \in DOMAIN s, NEW m \in DOMAIN s, Rank(s[n]) = Rank(s[m]) PROVE n = m
  <2>1. n \in Nat /\ m \in Nat /\ ~ n < m /\ ~ m < n
    BY <1>2, <1>3, <1>5, RankRange
  <2> QED BY <2>1
<1>6. \A n \in DOMAIN s : s[n] \in HeapSteps
  BY <1>1, <1>2, ElementOfSeq
<1> QED BY <1>2, <1>4, <1>5, <1>6

\* The steps that change the count of the device are counted by what they
\* are about.
LEMMA PlacesCounted ==
    ASSUME TodoOK, NEW op \in {"device_add_ref", "device_release"}
    PROVE  Cardinality({x \in HeapThreads \X Shared : x[2] \in Objects(Due(x[1]), op)})
               = Cardinality(Places(op))
<1>1. /\ IsFiniteSet(HeapThreads) /\ Shared = Heaps \cup Resources /\ Heaps \cap Resources = {}
  BY HeapLifetimeAssumption DEF Shared
<1>0. PICK S, T : /\ S = Places(op)
                  /\ T = {x \in HeapThreads \X Shared : x[2] \in Objects(Due(x[1]), op)}
  OBVIOUS
<1>2. IsFiniteSet(S)
  <2>1. IsFiniteSet(1 .. 5)
    <3>1. 1 \in Int /\ 5 \in Int
      OBVIOUS
    <3> QED BY <3>1, FS_Interval
  <2>2. IsFiniteSet(HeapThreads \X (1 .. 5))
    BY <1>1, <2>1, FS_Product
  <2> QED BY <1>0, <2>2, FS_Subset DEF Places
<1>3. ASSUME NEW x \in S
      PROVE  /\ x[1] \in HeapThreads /\ x[2] \in DOMAIN todo[x[1]] /\ x = <<x[1], x[2]>>
             /\ todo[x[1]][x[2]][2] \in Shared
             /\ todo[x[1]][x[2]] = <<op, todo[x[1]][x[2]][2]>>
  <2>1. /\ x[1] \in HeapThreads /\ x[2] \in DOMAIN todo[x[1]] /\ x = <<x[1], x[2]>>
        /\ todo[x[1]][x[2]][1] = op
    BY <1>0 DEF Places
  <2>2. PICK step : step = todo[x[1]][x[2]]
    OBVIOUS
  <2>3. step \in HeapSteps /\ step[1] = op
    BY <2>1, <2>2, FewLeft
  <2>4. step = <<op, step[2]>> /\ step[2] \in Shared
    <3>1. CASE step \in {"heap_incref", "heap_decref"} \X Heaps
      BY <3>1, <2>3
    <3>2. CASE step \in {"incref", "decref", "free", "private_decref", "device_add_ref"} \X Resources
      BY <3>2, <2>3, <1>1
    <3>3. CASE step \in {"device_release", "return"} \X Shared
      BY <3>3, <2>3
    <3>4. CASE step \in {"hand"} \X HeapThreads \X Shared
      BY <3>4, <2>3
    <3> QED BY <3>1, <3>2, <3>3, <3>4, <2>3 DEF HeapSteps
  <2> QED BY <2>1, <2>2, <2>4
<1>4. PICK f : f = [x \in S |-> <<x[1], todo[x[1]][x[2]][2]>>]
  OBVIOUS
<1>5. ASSUME NEW x \in S
      PROVE  /\ f[x] \in HeapThreads \X Shared /\ f[x][1] = x[1]
             /\ f[x][2] = todo[x[1]][x[2]][2]
             /\ f[x] \in T
  <2>1. /\ f[x] \in HeapThreads \X Shared /\ f[x][1] = x[1] /\ f[x][2] = todo[x[1]][x[2]][2]
    BY <1>3, <1>4
  <2>2. <<op, f[x][2]>> \in Due(x[1])
    BY <1>3, <2>1 DEF Due, Elements
  <2>3. f[x][2] \in Objects(Due(f[x][1]), op)
    BY <2>1, <2>2 DEF Objects
  <2> QED BY <1>0, <2>1, <2>3
<1>6. f \in [S -> T]
  BY <1>4, <1>5
<1>8. ASSUME NEW x \in S, NEW y \in S, f[x] = f[y] PROVE x = y
  <2>1. x[1] = y[1] /\ todo[x[1]][x[2]][2] = todo[y[1]][y[2]][2]
    BY <1>5, <1>8
  <2>2. todo[x[1]][x[2]] = todo[x[1]][y[2]]
    BY <2>1, <1>3
  <2>3. x[2] \in DOMAIN todo[x[1]] /\ y[2] \in DOMAIN todo[x[1]] /\ x[1] \in HeapThreads
    BY <2>1, <1>3
  <2>4. x[2] = y[2]
    BY <2>2, <2>3, FewLeft
  <2> QED BY <2>1, <2>4, <1>3
<1>9. ASSUME NEW y \in T PROVE \E x \in S : f[x] = y
  <2>1. /\ y[1] \in HeapThreads /\ y[2] \in Shared /\ y = <<y[1], y[2]>>
        /\ <<op, y[2]>> \in Due(y[1])
    BY <1>0 DEF Objects
  <2>2. PICK n \in DOMAIN todo[y[1]] : todo[y[1]][n] = <<op, y[2]>>
    BY <2>1 DEF Due, Elements
  <2>3. n \in 1 .. 5
    BY <2>1, FewLeft
  <2>4. PICK x : x = <<y[1], n>>
    OBVIOUS
  <2>5. x[1] = y[1] /\ x[2] = n /\ x \in HeapThreads \X (1 .. 5)
    BY <2>1, <2>3, <2>4
  <2>6. todo[x[1]][x[2]][1] = op /\ todo[x[1]][x[2]][2] = y[2]
    BY <2>2, <2>5
  <2>7. x \in S
    BY <1>0, <2>2, <2>5, <2>6 DEF Places
  <2>8. f[x] = y
    BY <1>4, <2>1, <2>5, <2>6, <2>7
  <2> QED BY <2>7, <2>8
<1>10. Cardinality(T) = Cardinality(S)
  <2>1. \A x, y \in S : f[x] = f[y] => x = y
    BY <1>8
  <2>2. \A y \in T : \E x \in S : f[x] = y
    BY <1>9
  <2> QED BY <1>2, <1>6, <2>1, <2>2, SameSize
<1> QED BY <1>0, <1>10

LEMMA DeviceRefsAccountedInv == HeapLifetimeInv => DeviceRefsAccounted
<1> SUFFICES ASSUME HeapLifetimeInv PROVE DeviceRefsAccounted
  OBVIOUS
<1>1. TodoOK /\ DeviceExact
  BY DEF HeapLifetimeInv
<1>2. Cardinality(AllAdds) = Cardinality(Places("device_add_ref"))
  BY <1>1, PlacesCounted DEF AllAdds, DeviceAdds
<1>3. Cardinality(AllReleases) = Cardinality(Places("device_release"))
  BY <1>1, PlacesCounted DEF AllReleases, DeviceReleases
<1> QED BY <1>1, <1>2, <1>3 DEF DeviceExact, DeviceRefsAccounted, LiveHeaps, PublicResources

LEMMA NothingLeaksInv == HeapLifetimeInv => NothingLeaks
<1> SUFFICES ASSUME HeapLifetimeInv, \A t \in HeapThreads : Idle(t)
             PROVE  /\ \A h \in Heaps : life[h] = "live" =>
                           refs[h] > 0 \/ \E r \in Resources : heap_of[r] = h /\ life[r] = "live"
                    /\ \A r \in Resources : /\ life[r] = "live" => \E t \in HeapThreads : r \in Has(t)
                                            /\ private[r] = "live" => life[r] = "live"
  BY DEF NothingLeaks
<1>1. Shared = Heaps \cup Resources /\ Heaps \cap Resources = {} /\ LifeOK /\ PrivateOK
  BY HeapLifetimeAssumption DEF HeapLifetimeInv, Shared
<1>2. ASSUME NEW t \in HeapThreads
      PROVE  /\ Returns(t) = {} /\ Hands(t) = {} /\ Drops(t) = {} /\ Frees(t) = {}
             /\ PrivateDrops(t) = {} /\ Promised(t) = {}
  <2>1. Doing(t, {}, {}, {}, {}, {}, {}, {}, {})
    BY IdleIsQuiet DEF Quiet
  <2>2. Returns(t) = {} /\ Hands(t) = {} /\ Drops(t) = {} /\ Frees(t) = {} /\ PrivateDrops(t) = {}
    BY <2>1, DoingNow
  <2> QED BY <2>2 DEF Promised
<1>3. \A o \in Shared : Droppers(o) = {} /\ Promisers(o) = {}
  BY <1>2 DEF Droppers, Promisers
<1>4. ASSUME NEW o \in Shared, internal_refs[o] > 0 PROVE refs[o] > 0 \/ Users(o) # {}
  <2> SUFFICES ASSUME ~ Public(o), Users(o) = {} PROVE FALSE
    BY DEF Public
  <2>1. Cardinality(Users(o)) = 0 /\ Cardinality(Droppers(o)) = 0
    BY <1>3, FS_EmptySet
  <2>2. internal_refs[o] = 0
    BY <2>1 DEF HeapLifetimeInv, InternalExact, ExactAt
  <2> QED BY <2>2, <1>4
<1>5. ASSUME NEW h \in Heaps, life[h] = "live"
      PROVE  refs[h] > 0 \/ \E r \in Resources : heap_of[r] = h /\ life[r] = "live"
  <2>1. refs[h] > 0 \/ Residents(h) # {}
    BY <1>1, <1>4, <1>5 DEF LifeOK, Users
  <2>2. \A r \in Residents(h) : r \in Resources /\ heap_of[r] = h /\ life[r] = "live"
    BY <1>1 DEF Residents, LifeOK
  <2> QED BY <2>1, <2>2
<1>6. ASSUME NEW r \in Resources, life[r] = "live" PROVE \E t \in HeapThreads : r \in Has(t)
  <2>1. internal_refs[r] > 0 /\ r \in Shared /\ r \notin Heaps
    BY <1>1, <1>2, <1>6 DEF LifeOK
  <2>2. CASE Users(r) # {}
    BY <2>1, <2>2 DEF Users, Keepers, Has
  <2>3. CASE refs[r] > 0
    <3>1. Holders(r) # {}
      <4> SUFFICES ASSUME Holders(r) = {} PROVE FALSE
        OBVIOUS
      <4>1. Cardinality(Holders(r)) = 0 /\ Cardinality(Promisers(r)) = 0
        BY <1>3, <2>1, FS_EmptySet
      <4>2. refs[r] = 0
        BY <4>1, <2>1 DEF HeapLifetimeInv, RefsExact
      <4> QED BY <4>2, <2>3
    <3> QED BY <3>1 DEF Holders, Has
  <2> QED BY <2>1, <2>2, <2>3, <1>4
<1>7. ASSUME NEW r \in Resources, private[r] = "live" PROVE life[r] = "live"
  BY <1>1, <1>2, <1>7 DEF PrivateOK, LifeOK
<1> QED BY <1>5, <1>6, <1>7

\* In every behaviour of threads that create, share, release and revive heaps
\* and resources: what a step or a caller touches is not freed, the internal
\* counts and the count of the device are exact, and nothing leaks.
THEOREM HeapsOutliveTheirResources == HeapLifetimeSpec => []HeapsOutliveResources
<1>1. HeapLifetimeInit => HeapLifetimeInv
  BY HeapLifetimeInitInv
<1>2. HeapLifetimeInv /\ [HeapLifetimeNext]_heapLifetimeVars => HeapLifetimeInv'
  BY HeapLifetimeInvStep
<1>3. HeapLifetimeInv => HeapsOutliveResources
  BY NothingFreedIsUsedInv, InternalRefsAccountedInv, DeviceRefsAccountedInv, NothingLeaksInv
     DEF HeapsOutliveResources
<1> QED BY <1>1, <1>2, <1>3, PTL DEF HeapLifetimeSpec
=============================================================================
