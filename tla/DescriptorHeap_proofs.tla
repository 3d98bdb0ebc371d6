----------------------- MODULE DescriptorHeap_proofs -----------------------
(***************************************************************************)
(* Descriptor heaps, for any finite number of threads and any number of    *)
(* descriptors and views.  Four layers, each on the ones before:           *)
(*   BaseInv     types, control, and exact reference counts;               *)
(*   ShownInv    what Vulkan is told was in the descriptor;                *)
(*   AllSettled  no write of a descriptor is lost;                         *)
(*   ListInv     each dirty descriptor is on one list, or being pushed.    *)
(* Together they give what a queue needs: it sees what it wrote.           *)
(***************************************************************************)
EXTENDS DescriptorHeap, FiniteSetTheorems, SequenceTheorems, TLAPS

FlushPcs == {"take", "walk", "update", "free", "unlock"}
RefPcs == {"read", "incref", "check", "undo"}
WritePcs == {"replace", "decref", "test", "head", "mark", "push", "relink"}
Holding == {"check", "undo", "replace"}

\* What holds of the local variables of a thread, given who has the mutex.
LocalFits(t, l, mutex) ==
    /\ l.pc = "idle" => l = Start
    /\ l.pc \in FlushPcs => mutex = t
    /\ mutex = t => l.pc \in FlushPcs \cup RefPcs
    /\ mutex # t => l.held = <<>> /\ l.i = UINT_MAX
    /\ l.pc \in {"take", "unlock"} => l.held = <<>> /\ l.i = UINT_MAX
    /\ l.pc \in {"update", "free"} => l.held # <<>>
    /\ Len(l.held) < WriteBufferSize
    /\ l.pc \in RefPcs \cup {"walk"} => Len(l.held) < WriteBufferSize - 1
    /\ l.pc \in {"incref", "check", "undo"} => l.view # NULL
    /\ l.pc = "decref" => l.old # NULL
    /\ l.pc \in RefPcs => l.src \in Descs /\ (mutex # t => l.dst \in Descs)
    /\ l.pc \in WritePcs => l.dst \in Descs

ControlFits == \A t \in Threads : LocalFits(t, thread[t], vk_sets_mutex)

\* A link is nothing, or the encoding of a descriptor or of the end.
LinksFit == \A d \in Descs : next[d] = 0 \/ \E i \in Index : next[d] = Encode(i)

BaseInv == TypeOK /\ ControlFits /\ LinksFit /\ RefcountsExact

----------------------------------------------------------------------------
(* Encoded indices.                                                        *)

LEMMA Encoding ==
    ASSUME NEW i \in Index
    PROVE  /\ Encode(i) \in 1 .. UINT_MAX
           /\ Decode(Encode(i)) = i
           /\ 0 \in 0 .. UINT_MAX /\ UINT_MAX \in Nat /\ UINT_MAX \notin Descs
<1>1. PICK q \in Nat \ {0} : QuarterRange = q /\ NumDescs \in Nat /\ NumDescs <= q
  BY HeapAssumption
<1>2. UINT_MAX = 4 * q - 1
  BY <1>1 DEF UINT_MAX
<1>3. CASE i \in Descs
  <2>1. i \in Nat /\ i < q
    BY <1>1, <1>3 DEF Descs
  <2>2. (2 * i + 1) % (4 * q) = 2 * i + 1
    BY <2>1
  <2>3. Encode(i) = 2 * i + 1
    BY <1>1, <2>2 DEF Encode
  <2>4. (2 * i + 1) \div 2 = i
    BY <2>1
  <2> QED BY <1>1, <1>2, <2>1, <2>3, <2>4 DEF Decode, Descs
<1>4. CASE i = UINT_MAX
  <2>1. 2 * i + 1 = 4 * q + (4 * q - 1)
    BY <1>1, <1>2, <1>4
  <2>2. (4 * q + (4 * q - 1)) % (4 * q) = 4 * q - 1
    BY <1>1
  <2>3. Encode(i) = 4 * q - 1
    BY <1>1, <2>1, <2>2 DEF Encode
  <2>4. (4 * q - 1) \div 2 = 2 * q - 1
    BY <1>1
  <2> QED BY <1>1, <1>2, <1>4, <2>3, <2>4 DEF Decode, Descs
<1> QED BY <1>3, <1>4 DEF Index

LEMMA EmptyLink == NumDescs # 0 => Decode(0) \in Index
BY HeapAssumption DEF Decode, Index, Descs

----------------------------------------------------------------------------
(* Counting references.                                                    *)

Is(b) == IF b THEN 1 ELSE 0

SameBut(S, T, x) == \A y : y # x => (y \in S <=> y \in T)

LEMMA OneChanges ==
    ASSUME NEW S, NEW T, NEW x, IsFiniteSet(S), SameBut(S, T, x)
    PROVE  /\ Cardinality(S) \in Nat /\ Cardinality(T) \in Nat
           /\ Cardinality(T) = Cardinality(S) - Is(x \in S) + Is(x \in T)
<1> DEFINE rest == S \ {x}
<1>1. /\ IsFiniteSet(rest)
      /\ Cardinality(rest) = IF x \in S THEN Cardinality(S) - 1 ELSE Cardinality(S)
  BY FS_RemoveElement
<1>2. T = IF x \in T THEN rest \cup {x} ELSE rest
  BY DEF SameBut
<1>3. x \notin rest
  OBVIOUS
<1> HIDE DEF rest
<1>4. Cardinality(S) \in Nat /\ Cardinality(rest) \in Nat
  BY <1>1, FS_CardinalityType
<1>5. Cardinality(T) = Cardinality(rest) + (IF x \in T THEN 1 ELSE 0)
  <2>1. CASE x \in T
    BY <1>1, <1>2, <1>3, <1>4, <2>1, FS_AddElement
  <2>2. CASE x \notin T
    BY <1>2, <1>4, <2>2
  <2> QED BY <2>1, <2>2
<1> QED BY <1>1, <1>4, <1>5 DEF Is

\* Who refers to a view: descriptors, threads and buffered writes.
DescsOf(obj, o) == {d \in Descs : obj[d] = o}
Takers(th, o) == {t \in Threads : th[t].view = o /\ th[t].pc \in Holding}
Losers(th, o) == {t \in Threads : th[t].pc = "decref" /\ th[t].old = o}
Buffered(th, o) == {x \in Threads \X (1 .. WriteBufferSize) :
                       x[2] \in DOMAIN th[x[1]].held /\ th[x[1]].held[x[2]].view = o}

Total(obj, th, o) == Cardinality(DescsOf(obj, o)) + Cardinality(Takers(th, o))
                     + Cardinality(Losers(th, o)) + Cardinality(Buffered(th, o))

Exact(obj, th, refs, free) ==
    \A o \in Objects : (o \in free <=> refs[o] = 0) /\ refs[o] = Total(obj, th, o)

LEMMA RefcountsAreExact ==
    /\ RefcountsExact <=> Exact(object, thread, refcount, view_desc_cache)
    /\ RefcountsExact' <=> Exact(object', thread', refcount', view_desc_cache')
BY DEF RefcountsExact, Exact, Total, DescsOf, Takers, Losers, Buffered, Holding, At

LEMMA DescsFinite == IsFiniteSet(Descs) /\ Cardinality(Descs) = NumDescs
<1>1. NumDescs \in Nat
  BY HeapAssumption
<1>2. /\ IsFiniteSet(0 .. NumDescs - 1)
      /\ Cardinality(0 .. NumDescs - 1) = IF 0 > NumDescs - 1 THEN 0 ELSE NumDescs - 1 - 0 + 1
  BY <1>1, FS_Interval
<1> QED BY <1>1, <1>2 DEF Descs

LEMMA HoldersFinite ==
    ASSUME NEW obj, NEW th, NEW o
    PROVE  /\ IsFiniteSet(DescsOf(obj, o)) /\ IsFiniteSet(Takers(th, o))
           /\ IsFiniteSet(Losers(th, o)) /\ IsFiniteSet(Buffered(th, o))
           /\ Cardinality(DescsOf(obj, o)) \in Nat /\ Cardinality(Takers(th, o)) \in Nat
           /\ Cardinality(Losers(th, o)) \in Nat /\ Cardinality(Buffered(th, o)) \in Nat
<1>1. IsFiniteSet(1 .. WriteBufferSize)
  BY HeapAssumption, FS_Interval
<1>2. IsFiniteSet(Threads \X (1 .. WriteBufferSize))
  BY <1>1, HeapAssumption, FS_Product
<1>3. /\ IsFiniteSet(DescsOf(obj, o)) /\ IsFiniteSet(Takers(th, o))
      /\ IsFiniteSet(Losers(th, o)) /\ IsFiniteSet(Buffered(th, o))
  BY <1>2, DescsFinite, HeapAssumption, FS_Subset DEF DescsOf, Takers, Losers, Buffered
<1> QED BY <1>3, FS_CardinalityType

\* The buffered writes of one thread that refer to a view.
Places(held, o) == {k \in DOMAIN held : held[k].view = o}

Bounded(l) == l \in Local /\ Len(l.held) < WriteBufferSize

LEMMA PlacesFinite ==
    ASSUME NEW l, Bounded(l), NEW o
    PROVE  /\ IsFiniteSet(Places(l.held, o)) /\ Cardinality(Places(l.held, o)) \in Nat
           /\ Places(l.held, o) \subseteq 1 .. WriteBufferSize
<1>1. l.held \in Seq([desc : Descs, view : Objects])
  BY DEF Bounded, Local
<1>2. PICK n \in Nat : Len(l.held) = n /\ DOMAIN l.held = 1 .. n
  BY <1>1, LenProperties
<1>3. n < WriteBufferSize /\ WriteBufferSize \in Nat
  BY <1>2, HeapAssumption DEF Bounded
<1>4. IsFiniteSet(1 .. n)
  BY FS_Interval
<1>5. Places(l.held, o) \subseteq 1 .. n
  BY <1>2 DEF Places
<1>6. 1 .. n \subseteq 1 .. WriteBufferSize
  BY <1>3
<1> QED BY <1>4, <1>5, <1>6, FS_Subset, FS_CardinalityType

TakenBy(l, o) == l.view = o /\ l.pc \in Holding
LostBy(l, o) == l.pc = "decref" /\ l.old = o

\* How often a thread refers to a view.
Weight(l, o) == Is(TakenBy(l, o)) + Is(LostBy(l, o)) + Cardinality(Places(l.held, o))

LEMMA Disjoint ==
    ASSUME NEW S, IsFiniteSet(S), NEW T, IsFiniteSet(T), \A x \in S : x \notin T
    PROVE  /\ IsFiniteSet(S \cup T) /\ Cardinality(S) \in Nat /\ Cardinality(T) \in Nat
           /\ Cardinality(S \cup T) = Cardinality(S) + Cardinality(T)
<1>1. S \cap T = {}
  OBVIOUS
<1>2. Cardinality(S) \in Nat /\ Cardinality(T) \in Nat
  BY FS_CardinalityType
<1>3. /\ IsFiniteSet(S \cup T)
      /\ Cardinality(S \cup T) = Cardinality(S) + Cardinality(T) - Cardinality(S \cap T)
  BY FS_Union
<1>4. Cardinality(S \cap T) = 0
  BY <1>1, FS_EmptySet
<1> QED BY <1>2, <1>3, <1>4

LEMMA Tagged ==
    ASSUME NEW t, NEW S, IsFiniteSet(S)
    PROVE  IsFiniteSet({t} \X S) /\ Cardinality({t} \X S) = Cardinality(S)
<1>1. IsFiniteSet({t}) /\ Cardinality({t}) = 1
  BY FS_Singleton
<1>2. IsFiniteSet({t} \X S) /\ Cardinality({t} \X S) = Cardinality({t}) * Cardinality(S)
  BY <1>1, FS_Product
<1>3. Cardinality(S) \in Nat
  BY FS_CardinalityType
<1> QED BY <1>1, <1>2, <1>3

LEMMA BufferedCounted ==
    ASSUME NEW th, \A u \in Threads : Bounded(th[u]),
           NEW th2, \A u \in Threads : Bounded(th2[u]),
           NEW t \in Threads, \A u \in Threads : u # t => th2[u] = th[u], NEW o
    PROVE  Cardinality(Buffered(th2, o)) =
               Cardinality(Buffered(th, o)) - Cardinality(Places(th[t].held, o))
               + Cardinality(Places(th2[t].held, o))
<1> DEFINE P == {t} \X Places(th[t].held, o)
           Q == {t} \X Places(th2[t].held, o)
           rest == Buffered(th, o) \ P
<1>1. /\ IsFiniteSet(Places(th[t].held, o)) /\ IsFiniteSet(Places(th2[t].held, o))
      /\ Places(th[t].held, o) \subseteq 1 .. WriteBufferSize
      /\ Places(th2[t].held, o) \subseteq 1 .. WriteBufferSize
  BY PlacesFinite
<1>2. /\ IsFiniteSet(P) /\ Cardinality(P) = Cardinality(Places(th[t].held, o))
      /\ IsFiniteSet(Q) /\ Cardinality(Q) = Cardinality(Places(th2[t].held, o))
  BY <1>1, Tagged
<1>3. IsFiniteSet(rest)
  BY HoldersFinite, FS_Difference
<1>4. /\ \A x \in Buffered(th, o) : x[1] = t <=> x \in P
      /\ \A x \in P : x \in Buffered(th, o)
  BY <1>1 DEF Buffered, Places
<1>5. /\ \A x \in Buffered(th2, o) : x[1] = t <=> x \in Q
      /\ \A x \in Q : x \in Buffered(th2, o)
  BY <1>1 DEF Buffered, Places
<1>6. \A x : x[1] # t => (x \in Buffered(th, o) <=> x \in Buffered(th2, o))
  BY DEF Buffered
<1>7. \A x \in Q : x[1] = t
  OBVIOUS
<1>8. Buffered(th, o) = rest \cup P /\ Buffered(th2, o) = rest \cup Q
  BY <1>4, <1>5, <1>6, <1>7
<1>9. (\A x \in rest : x \notin P) /\ (\A x \in rest : x \notin Q)
  BY <1>4, <1>7
<1> HIDE DEF P, Q, rest
<1>10. /\ Cardinality(rest) \in Nat /\ Cardinality(P) \in Nat /\ Cardinality(Q) \in Nat
       /\ Cardinality(rest \cup P) = Cardinality(rest) + Cardinality(P)
       /\ Cardinality(rest \cup Q) = Cardinality(rest) + Cardinality(Q)
  BY <1>2, <1>3, <1>9, Disjoint
<1> QED BY <1>2, <1>8, <1>10

\* A step of one thread changes the references by what it changes its own.
LEMMA ThreadCounted ==
    ASSUME NEW th, \A u \in Threads : Bounded(th[u]),
           NEW th2, \A u \in Threads : Bounded(th2[u]),
           NEW t \in Threads, \A u \in Threads : u # t => th2[u] = th[u], NEW obj, NEW o
    PROVE  /\ Total(obj, th, o) \in Nat /\ Total(obj, th2, o) \in Nat
           /\ Weight(th[t], o) \in Nat /\ Weight(th2[t], o) \in Nat
           /\ Total(obj, th2, o) = Total(obj, th, o) - Weight(th[t], o) + Weight(th2[t], o)
           /\ Weight(th[t], o) <= Total(obj, th, o)
<1>1. /\ SameBut(Takers(th, o), Takers(th2, o), t)
      /\ SameBut(Losers(th, o), Losers(th2, o), t)
  BY DEF SameBut, Takers, Losers
<1>2. /\ t \in Takers(th, o) <=> TakenBy(th[t], o)
      /\ t \in Takers(th2, o) <=> TakenBy(th2[t], o)
      /\ t \in Losers(th, o) <=> LostBy(th[t], o)
      /\ t \in Losers(th2, o) <=> LostBy(th2[t], o)
  BY DEF Takers, Losers, TakenBy, LostBy
<1>3. PICK d, k, k2, l, l2, b, b2 \in Nat :
          /\ Cardinality(DescsOf(obj, o)) = d
          /\ Cardinality(Takers(th, o)) = k /\ Cardinality(Takers(th2, o)) = k2
          /\ Cardinality(Losers(th, o)) = l /\ Cardinality(Losers(th2, o)) = l2
          /\ Cardinality(Buffered(th, o)) = b /\ Cardinality(Buffered(th2, o)) = b2
  BY HoldersFinite, Zenon
<1>4. PICK p, p2 \in Nat : /\ Cardinality(Places(th[t].held, o)) = p
                          /\ Cardinality(Places(th2[t].held, o)) = p2
  BY PlacesFinite, Zenon
<1>5. /\ Cardinality(Takers(th2, o)) =
             Cardinality(Takers(th, o)) - Is(t \in Takers(th, o)) + Is(t \in Takers(th2, o))
      /\ Cardinality(Losers(th2, o)) =
             Cardinality(Losers(th, o)) - Is(t \in Losers(th, o)) + Is(t \in Losers(th2, o))
  BY <1>1, HoldersFinite, OneChanges
<1>6. Cardinality(Buffered(th2, o)) =
          Cardinality(Buffered(th, o)) - Cardinality(Places(th[t].held, o))
          + Cardinality(Places(th2[t].held, o))
  BY BufferedCounted
<1>7. PICK x, x2, y, y2 \in {0, 1} :
          /\ Is(TakenBy(th[t], o)) = x /\ Is(TakenBy(th2[t], o)) = x2
          /\ Is(LostBy(th[t], o)) = y /\ Is(LostBy(th2[t], o)) = y2
  BY DEF Is
<1>8. /\ Is(t \in Takers(th, o)) = x /\ Is(t \in Takers(th2, o)) = x2
      /\ Is(t \in Losers(th, o)) = y /\ Is(t \in Losers(th2, o)) = y2
  BY <1>2, <1>7 DEF Is
<1>9. k2 = k - x + x2 /\ l2 = l - y + y2 /\ b2 = b - p + p2
  BY <1>3, <1>4, <1>5, <1>6, <1>8
<1>10. Weight(th[t], o) = x + y + p /\ Weight(th2[t], o) = x2 + y2 + p2
  BY <1>4, <1>7 DEF Weight
<1>11. Total(obj, th, o) = d + k + l + b /\ Total(obj, th2, o) = d + k2 + l2 + b2
  BY <1>3 DEF Total
<1>12. x <= k /\ y <= l /\ p <= b
  <2>1. k - x \in Nat
    <3>1. CASE t \in Takers(th, o)
      <4>1. k # 0
        BY <1>3, <3>1, HoldersFinite, FS_EmptySet
      <4> QED BY <1>3, <1>7, <4>1
    <3>2. CASE t \notin Takers(th, o)
      BY <1>3, <1>8, <3>2 DEF Is
    <3> QED BY <3>1, <3>2
  <2>2. l - y \in Nat
    <3>1. CASE t \in Losers(th, o)
      <4>1. l # 0
        BY <1>3, <3>1, HoldersFinite, FS_EmptySet
      <4> QED BY <1>3, <1>7, <4>1
    <3>2. CASE t \notin Losers(th, o)
      BY <1>3, <1>8, <3>2 DEF Is
    <3> QED BY <3>1, <3>2
  <2>3. p <= b
    <3> DEFINE P == {t} \X Places(th[t].held, o)
    <3>1. IsFiniteSet(Places(th[t].held, o)) /\ Places(th[t].held, o) \subseteq 1 .. WriteBufferSize
      BY PlacesFinite
    <3>2. Cardinality(P) = Cardinality(Places(th[t].held, o))
      BY <3>1, Tagged
    <3>3. P \subseteq Buffered(th, o)
      BY <3>1 DEF Buffered, Places
    <3> HIDE DEF P
    <3>4. Cardinality(P) <= Cardinality(Buffered(th, o))
      BY <3>3, HoldersFinite, FS_Subset
    <3> QED BY <1>3, <1>4, <3>2, <3>4
  <2> QED BY <1>3, <1>7, <2>1, <2>2, <2>3
<1> QED BY <1>3, <1>4, <1>7, <1>9, <1>10, <1>11, <1>12

LEMMA ObjectCounted ==
    ASSUME NEW obj, NEW obj2, NEW d \in Descs, \A e \in Descs : e # d => obj2[e] = obj[e],
           NEW th, NEW o
    PROVE  /\ Total(obj, th, o) \in Nat
           /\ Total(obj2, th, o) = Total(obj, th, o) - (IF obj[d] = o THEN 1 ELSE 0)
                                    + (IF obj2[d] = o THEN 1 ELSE 0)
<1>1. SameBut(DescsOf(obj, o), DescsOf(obj2, o), d)
  BY DEF SameBut, DescsOf
<1>2. /\ d \in DescsOf(obj, o) <=> obj[d] = o
      /\ d \in DescsOf(obj2, o) <=> obj2[d] = o
  BY DEF DescsOf
<1>3. Cardinality(DescsOf(obj2, o)) =
          Cardinality(DescsOf(obj, o)) - Is(d \in DescsOf(obj, o)) + Is(d \in DescsOf(obj2, o))
  BY <1>1, HoldersFinite, OneChanges
<1>4. PICK a, b \in {0, 1} : /\ a = IF obj[d] = o THEN 1 ELSE 0
                           /\ b = IF obj2[d] = o THEN 1 ELSE 0
  OBVIOUS
<1>5. Is(d \in DescsOf(obj, o)) = a /\ Is(d \in DescsOf(obj2, o)) = b
  BY <1>2, <1>4 DEF Is
<1> QED BY <1>3, <1>4, <1>5, HoldersFinite DEF Total

----------------------------------------------------------------------------
(* Steps of a thread.                                                      *)

LEMMA AllBounded == BaseInv => \A u \in Threads : Bounded(thread[u])
BY DEF BaseInv, TypeOK, ControlFits, LocalFits, Bounded

\* A thread goes on, and the mutex stays where it is.
LEMMA Moved ==
    ASSUME BaseInv, NEW t \in Threads, NEW l \in Local, Go(t, l),
           LocalFits(t, l, vk_sets_mutex), UNCHANGED vk_sets_mutex
    PROVE  /\ thread' \in [Threads -> Local] /\ thread'[t] = l
           /\ \A u \in Threads : u # t => thread'[u] = thread[u]
           /\ ControlFits' /\ \A u \in Threads : Bounded(thread'[u])
<1>1. thread \in [Threads -> Local] /\ ControlFits
  BY DEF BaseInv, TypeOK
<1>2. /\ thread' \in [Threads -> Local] /\ thread'[t] = l
      /\ \A u \in Threads : u # t => thread'[u] = thread[u]
  BY <1>1 DEF Go
<1>3. ASSUME NEW u \in Threads PROVE LocalFits(u, thread'[u], vk_sets_mutex')
  <2>1. CASE u = t
    BY <1>2, <2>1
  <2>2. CASE u # t
    <3>1. LocalFits(u, thread[u], vk_sets_mutex)
      BY <1>1 DEF ControlFits
    <3>2. thread'[u] = thread[u]
      BY <1>2, <2>2
    <3> QED BY <3>1, <3>2
  <2> QED BY <2>1, <2>2
<1>4. \A u \in Threads : Bounded(thread'[u])
  BY <1>2, <1>3 DEF Bounded, LocalFits
<1> QED BY <1>2, <1>3, <1>4 DEF ControlFits

\* No reference is taken or dropped: it may pass from one variable to another.
LEMMA SameRefs ==
    ASSUME BaseInv, NEW t \in Threads, \A u \in Threads : Bounded(thread'[u]),
           \A u \in Threads : u # t => thread'[u] = thread[u],
           UNCHANGED <<object, refcount, view_desc_cache>>,
           \A o \in Objects : Weight(thread'[t], o) = Weight(thread[t], o)
    PROVE  RefcountsExact'
<1> SUFFICES ASSUME NEW o \in Objects
             PROVE  Total(object', thread', o) = Total(object, thread, o)
  BY RefcountsAreExact DEF BaseInv, Exact
<1> QED BY AllBounded, ThreadCounted

\* vkd3d_view_incref() of a view that is not freed.
LEMMA TakesRef ==
    ASSUME BaseInv, NEW t \in Threads, \A u \in Threads : Bounded(thread'[u]),
           \A u \in Threads : u # t => thread'[u] = thread[u],
           NEW o \in Objects, refcount' = [refcount EXCEPT ![o] = @ + 1],
           refcount[o] # 0, UNCHANGED <<object, view_desc_cache>>,
           \A p \in Objects : Weight(thread'[t], p) = Weight(thread[t], p) + Is(p = o)
    PROVE  RefcountsExact' /\ refcount' \in [Objects -> Nat]
<1>1. refcount \in [Objects -> Nat] /\ Exact(object, thread, refcount, view_desc_cache)
  BY RefcountsAreExact DEF BaseInv, TypeOK
<1>2. refcount' \in [Objects -> Nat]
  BY <1>1
<1>3. ASSUME NEW p \in Objects
      PROVE  /\ p \in view_desc_cache' <=> refcount'[p] = 0
             /\ refcount'[p] = Total(object', thread', p)
  <2>1. /\ Total(object, thread, p) \in Nat /\ Weight(thread[t], p) \in Nat
        /\ Total(object, thread', p) =
               Total(object, thread, p) - Weight(thread[t], p) + Weight(thread'[t], p)
    BY AllBounded, ThreadCounted
  <2>2. Total(object', thread', p) = Total(object, thread, p) + Is(p = o)
    BY <2>1 DEF Is
  <2>3. /\ p \in view_desc_cache <=> refcount[p] = 0
        /\ refcount[p] = Total(object, thread, p)
    BY <1>1 DEF Exact
  <2>4. refcount'[p] = refcount[p] + Is(p = o)
    <3>1. CASE p = o
      BY <1>1, <3>1 DEF Is
    <3>2. CASE p # o
      BY <1>1, <3>2 DEF Is
    <3> QED BY <3>1, <3>2
  <2> QED BY <2>1, <2>2, <2>3, <2>4 DEF Is
<1> QED BY <1>2, <1>3, RefcountsAreExact DEF Exact

\* vkd3d_view_decref().
LEMMA DropsRef ==
    ASSUME BaseInv, NEW t \in Threads, \A u \in Threads : Bounded(thread'[u]),
           \A u \in Threads : u # t => thread'[u] = thread[u],
           NEW o \in Objects, DecRef(o), UNCHANGED object,
           \A p \in Objects : Weight(thread'[t], p) = Weight(thread[t], p) - Is(p = o)
    PROVE  /\ RefcountsExact' /\ refcount' \in [Objects -> Nat]
           /\ view_desc_cache' \subseteq Objects
<1>1. /\ refcount \in [Objects -> Nat] /\ Exact(object, thread, refcount, view_desc_cache)
      /\ view_desc_cache \subseteq Objects
  BY RefcountsAreExact DEF BaseInv, TypeOK
<1>2. /\ refcount' = [refcount EXCEPT ![o] = @ - 1]
      /\ view_desc_cache' = view_desc_cache \cup (IF refcount[o] = 1 THEN {o} ELSE {})
  BY DEF DecRef
<1>3. ASSUME NEW p \in Objects
      PROVE  /\ p \in view_desc_cache' <=> refcount'[p] = 0
             /\ refcount'[p] = Total(object', thread', p)
             /\ refcount'[p] \in Nat
  <2>1. /\ Total(object, thread, p) \in Nat /\ Total(object, thread', p) \in Nat
        /\ Weight(thread[t], p) \in Nat
        /\ Total(object, thread', p) =
               Total(object, thread, p) - Weight(thread[t], p) + Weight(thread'[t], p)
    BY AllBounded, ThreadCounted
  <2>2. Total(object', thread', p) = Total(object, thread, p) - Is(p = o)
    BY <2>1 DEF Is
  <2>3. /\ p \in view_desc_cache <=> refcount[p] = 0
        /\ refcount[p] = Total(object, thread, p)
    BY <1>1 DEF Exact
  <2>4. CASE p = o
    <3>1. refcount'[p] = refcount[p] - 1 /\ Is(p = o) = 1
      BY <1>1, <1>2, <2>4 DEF Is
    <3>2. p \in view_desc_cache' <=> p \in view_desc_cache \/ refcount[p] = 1
      BY <1>2, <2>4
    <3>3. refcount'[p] \in Nat
      BY <2>1, <2>2, <2>3, <3>1
    <3> QED BY <2>1, <2>2, <2>3, <3>1, <3>2, <3>3
  <2>5. CASE p # o
    <3>1. refcount'[p] = refcount[p] /\ Is(p = o) = 0
      BY <1>1, <1>2, <2>5 DEF Is
    <3>2. p \in view_desc_cache' <=> p \in view_desc_cache
      BY <1>2, <2>5
    <3> QED BY <2>1, <2>2, <2>3, <3>1, <3>2
  <2> QED BY <2>4, <2>5
<1>4. refcount' \in [Objects -> Nat]
  BY <1>1, <1>2, <1>3
<1> QED BY <1>1, <1>2, <1>3, <1>4, RefcountsAreExact DEF Exact

\* The weight of a thread by its fields.
LEMMA WeightBy ==
    ASSUME NEW l, NEW o
    PROVE  Weight(l, o) = (IF l.pc \in Holding /\ l.view = o THEN 1 ELSE 0)
                          + (IF l.pc = "decref" /\ l.old = o THEN 1 ELSE 0)
                          + Cardinality(Places(l.held, o))
BY DEF Weight, Is, TakenBy, LostBy

LEMMA Unbuffered ==
    ASSUME NEW o
    PROVE  Places(<<>>, o) = {} /\ Cardinality(Places(<<>>, o)) = 0
<1>1. Places(<<>>, o) = {}
  BY DEF Places
<1> QED BY <1>1, FS_EmptySet

LEMMA StartIsLocal == Start \in Local
BY EmptySeq DEF Start, Local, Index

\* What the types say of one thread.
LEMMA LocalTypes ==
    ASSUME NEW l \in Local
    PROVE  /\ l.dst \in Descs \cup {0} /\ l.src \in Descs \cup {0}
           /\ l.view \in Objects \cup {NULL} /\ l.old \in Objects \cup {NULL}
           /\ l.head \in Index /\ l.i \in Index
           /\ l.held \in Seq([desc : Descs, view : Objects])
BY DEF Local

----------------------------------------------------------------------------
(* Buffered writes.                                                        *)

Write == [desc : Descs, view : Objects]

LEMMA PlacesOfAppend ==
    ASSUME NEW held \in Seq(Write), NEW w \in Write, NEW o
    PROVE  /\ Append(held, w) \in Seq(Write) /\ Len(Append(held, w)) = Len(held) + 1
           /\ Append(held, w) # <<>>
           /\ Cardinality(Places(held, o)) \in Nat
           /\ Cardinality(Places(Append(held, w), o)) =
                  Cardinality(Places(held, o)) + Is(w.view = o)
<1>1. PICK n \in Nat : Len(held) = n
  OBVIOUS
<1>2. PICK p \in Seq(Write) : p = Append(held, w)
  BY AppendProperties
<1>3. Len(p) = n + 1 /\ p[n + 1] = w /\ \A k \in 1 .. n : p[k] = held[k]
  BY <1>1, <1>2, AppendProperties
<1>4. DOMAIN held = 1 .. n /\ DOMAIN p = 1 .. n + 1
  BY <1>1, <1>3, LenProperties
<1>5. \A k : k \in 1 .. n + 1 <=> k \in 1 .. n \/ k = n + 1
  OBVIOUS
<1>6. SameBut(Places(held, o), Places(p, o), n + 1)
  BY <1>3, <1>4, <1>5 DEF SameBut, Places
<1>7. n + 1 \notin Places(held, o) /\ (n + 1 \in Places(p, o) <=> w.view = o)
  BY <1>3, <1>4, <1>5 DEF Places
<1>8. IsFiniteSet(Places(held, o))
  <2>1. IsFiniteSet(1 .. n)
    BY FS_Interval
  <2>2. Places(held, o) \subseteq 1 .. n
    BY <1>4 DEF Places
  <2> QED BY <2>1, <2>2, FS_Subset
<1>9. /\ Cardinality(Places(held, o)) \in Nat
      /\ Cardinality(Places(p, o)) = Cardinality(Places(held, o))
             - Is(n + 1 \in Places(held, o)) + Is(n + 1 \in Places(p, o))
  BY <1>6, <1>8, OneChanges
<1>10. Is(n + 1 \in Places(held, o)) = 0 /\ Is(n + 1 \in Places(p, o)) = Is(w.view = o)
  BY <1>7 DEF Is
<1>11. p # <<>>
  BY <1>3, EmptySeq
<1> QED BY <1>1, <1>2, <1>3, <1>9, <1>10, <1>11 DEF Is

LEMMA PlacesOfTail ==
    ASSUME NEW held \in Seq(Write), held # <<>>, NEW o
    PROVE  /\ Tail(held) \in Seq(Write) /\ Len(Tail(held)) < Len(held) /\ Head(held) \in Write
           /\ Cardinality(Places(held, o)) \in Nat
           /\ Cardinality(Places(Tail(held), o)) =
                  Cardinality(Places(held, o)) - Is(Head(held).view = o)
<1>1. PICK n \in Nat : Len(held) = n + 1
  <2>1. PICK m \in Nat : Len(held) = m /\ m # 0
    BY EmptySeq
  <2>2. m - 1 \in Nat /\ m = (m - 1) + 1
    BY <2>1
  <2> QED BY <2>1, <2>2
<1>2. PICK p \in Seq(Write) : p = Tail(held)
  BY HeadTailProperties
<1>3. /\ Len(p) = n /\ held[1] = Head(held) /\ Head(held) \in Write
      /\ \A k \in 1 .. n : p[k] = held[k + 1]
  BY <1>1, <1>2, HeadTailProperties
<1>4. DOMAIN held = 1 .. n + 1 /\ DOMAIN p = 1 .. n
  BY <1>1, <1>3, LenProperties
<1> DEFINE I == Places(held, o)
           K == I \ {1}
           down == [k \in K |-> k - 1]
<1>5. I \subseteq 1 .. n + 1 /\ (1 \in I <=> Head(held).view = o)
  BY <1>3, <1>4 DEF Places
<1>6. Places(p, o) = {k \in 1 .. n : k + 1 \in I}
  BY <1>3, <1>4 DEF Places
<1>7. IsFiniteSet(I)
  <2>1. IsFiniteSet(1 .. n + 1)
    BY FS_Interval
  <2> QED BY <1>5, <2>1, FS_Subset
<1> HIDE DEF I
<1>8. /\ IsFiniteSet(K) /\ Cardinality(I) \in Nat
      /\ Cardinality(K) = IF 1 \in I THEN Cardinality(I) - 1 ELSE Cardinality(I)
  BY <1>7, FS_RemoveElement, FS_CardinalityType
<1>9. down \in Bijection(K, Places(p, o))
  <2>1. \A k \in K : k \in 1 .. n + 1 /\ k # 1 /\ k - 1 \in Places(p, o)
    BY <1>5, <1>6
  <2>2. down \in [K -> Places(p, o)]
    BY <2>1
  <2>3. \A j, k \in K : down[j] = down[k] => j = k
    BY <2>1
  <2>4. \A j \in Places(p, o) : j + 1 \in K /\ down[j + 1] = j
    BY <1>6
  <2> QED BY <2>2, <2>3, <2>4 DEF Bijection, Injection, Surjection, IsInjective
<1>10. ExistsBijection(K, Places(p, o))
  BY <1>9 DEF ExistsBijection
<1>11. Cardinality(Places(p, o)) = Cardinality(K)
  BY <1>8, <1>10, FS_Bijection
<1> QED BY <1>1, <1>2, <1>3, <1>5, <1>8, <1>11 DEF I, Is

----------------------------------------------------------------------------
(* The calls of the application.                                           *)

LEMMA BaseCreateView ==
    ASSUME BaseInv, NEW t \in Threads, NEW d \in Descs, CreateView(t, d)
    PROVE  BaseInv'
<1>1. TypeOK /\ ControlFits /\ LinksFit /\ RefcountsExact
  BY DEF BaseInv
<1>2. /\ thread[t].pc = "idle" /\ writes < MaxWrites /\ writes' = writes + 1
      /\ UNCHANGED <<heapVars, vk_sets_mutex, vk_set, had, writers>>
  BY DEF CreateView, At
<1>3. UNCHANGED <<object, next, dirty_list_head>>
  BY <1>2 DEF heapVars
<1>4. thread[t] = Start /\ vk_sets_mutex # t
  BY <1>1, <1>2 DEF ControlFits, LocalFits, FlushPcs, RefPcs
<1>5. writes' \in 0 .. MaxWrites /\ writes + 1 \in 0 .. MaxWrites
  BY <1>1, <1>2, HeapAssumption DEF TypeOK
<1>6. LinksFit'
  BY <1>1, <1>3 DEF LinksFit
<1>7. ASSUME NEW o \in view_desc_cache,
             view_desc_cache' = view_desc_cache \ {o},
             refcount' = [refcount EXCEPT ![o] = 1],
             version' = [version EXCEPT ![o] = writes + 1],
             Go(t, [Start EXCEPT !.pc = "replace", !.dst = d, !.view = o])
      PROVE  BaseInv'
  <2> DEFINE l == [Start EXCEPT !.pc = "replace", !.dst = d, !.view = o]
  <2>1. o \in Objects
    BY <1>1, <1>7 DEF TypeOK
  <2>2. l \in Local
    BY <2>1, StartIsLocal DEF Local
  <2>3. /\ l.pc = "replace" /\ l.dst = d /\ l.view = o /\ l.held = <<>> /\ l.i = UINT_MAX
    BY DEF Start
  <2>4. Go(t, l)
    BY <1>7
  <2> HIDE DEF l
  <2>5. LocalFits(t, l, vk_sets_mutex)
    BY <1>4, <2>3, HeapAssumption DEF LocalFits, FlushPcs, RefPcs, WritePcs
  <2>6. /\ thread' \in [Threads -> Local] /\ thread'[t] = l
        /\ \A u \in Threads : u # t => thread'[u] = thread[u]
        /\ ControlFits' /\ \A u \in Threads : Bounded(thread'[u])
    BY <1>2, <2>2, <2>4, <2>5, Moved
  <2>7. \A p \in Objects : Weight(thread[t], p) = 0 /\ Weight(thread'[t], p) = Is(p = o)
    BY <1>2, <1>4, <2>3, <2>6, WeightBy, Unbuffered DEF Start, Holding, Is
  <2>8. ASSUME NEW p \in Objects
        PROVE  /\ p \in view_desc_cache' <=> refcount'[p] = 0
               /\ refcount'[p] = Total(object', thread', p)
    <3>1. /\ Total(object, thread, p) \in Nat
          /\ Total(object, thread', p) =
                 Total(object, thread, p) - Weight(thread[t], p) + Weight(thread'[t], p)
      BY <2>6, AllBounded, ThreadCounted
    <3>2. Total(object', thread', p) = Total(object, thread, p) + Is(p = o)
      BY <1>3, <2>7, <3>1 DEF Is
    <3>3. /\ p \in view_desc_cache <=> refcount[p] = 0
          /\ refcount[p] = Total(object, thread, p)
      BY <1>1, RefcountsAreExact DEF Exact
    <3>4. refcount \in [Objects -> Nat]
      BY <1>1 DEF TypeOK
    <3>5. CASE p = o
      BY <1>7, <3>2, <3>3, <3>4, <3>5 DEF Is
    <3>6. CASE p # o
      BY <1>7, <3>1, <3>2, <3>3, <3>4, <3>6 DEF Is
    <3> QED BY <3>5, <3>6
  <2>9. RefcountsExact'
    BY <2>8, RefcountsAreExact DEF Exact
  <2>10. TypeOK'
    <3>1. refcount' \in [Objects -> Nat] /\ view_desc_cache' \subseteq Objects
      BY <1>1, <1>7 DEF TypeOK
    <3>2. version' \in [Objects -> 0 .. MaxWrites]
      BY <1>1, <1>5, <1>7 DEF TypeOK
    <3> QED BY <1>1, <1>2, <1>3, <1>5, <2>6, <3>1, <3>2 DEF TypeOK
  <2> QED BY <1>6, <2>6, <2>9, <2>10 DEF BaseInv
<1>8. ASSUME Go(t, [Start EXCEPT !.pc = "replace", !.dst = d]), UNCHANGED viewVars
      PROVE  BaseInv'
  <2> DEFINE l == [Start EXCEPT !.pc = "replace", !.dst = d]
  <2>1. l \in Local
    BY StartIsLocal DEF Local
  <2>2. /\ l.pc = "replace" /\ l.dst = d /\ l.view = NULL /\ l.held = <<>> /\ l.i = UINT_MAX
    BY DEF Start
  <2>3. Go(t, l)
    BY <1>8
  <2> HIDE DEF l
  <2>4. LocalFits(t, l, vk_sets_mutex)
    BY <1>4, <2>2, HeapAssumption DEF LocalFits, FlushPcs, RefPcs, WritePcs
  <2>5. /\ thread' \in [Threads -> Local] /\ thread'[t] = l
        /\ \A u \in Threads : u # t => thread'[u] = thread[u]
        /\ ControlFits' /\ \A u \in Threads : Bounded(thread'[u])
    BY <1>2, <2>1, <2>3, <2>4, Moved
  <2>6. \A p \in Objects : Weight(thread[t], p) = 0 /\ Weight(thread'[t], p) = 0
    BY <1>2, <1>4, <2>2, <2>5, WeightBy, Unbuffered, HeapAssumption DEF Start, Holding
  <2>7. RefcountsExact'
    BY <1>3, <1>8, <2>5, <2>6, SameRefs DEF viewVars
  <2>8. TypeOK'
    BY <1>1, <1>2, <1>3, <1>5, <1>8, <2>5 DEF TypeOK, viewVars
  <2> QED BY <1>6, <2>5, <2>7, <2>8 DEF BaseInv
<1> QED BY <1>7, <1>8 DEF CreateView

\* A step that changes nothing but where a thread is.
LEMMA BaseMoves ==
    ASSUME BaseInv, NEW t \in Threads, NEW l \in Local, Go(t, l),
           LocalFits(t, l, vk_sets_mutex),
           UNCHANGED <<heapVars, viewVars, historyVars, vk_sets_mutex, vk_set>>,
           \A o \in Objects : Weight(l, o) = Weight(thread[t], o)
    PROVE  BaseInv'
<1>1. TypeOK /\ ControlFits /\ LinksFit /\ RefcountsExact
  BY DEF BaseInv
<1>2. UNCHANGED <<object, next, dirty_list_head, refcount, view_desc_cache, version, writes,
                  had, writers, vk_sets_mutex, vk_set>>
  BY DEF heapVars, viewVars, historyVars
<1>3. /\ thread' \in [Threads -> Local] /\ thread'[t] = l
      /\ \A u \in Threads : u # t => thread'[u] = thread[u]
      /\ ControlFits' /\ \A u \in Threads : Bounded(thread'[u])
  BY <1>2, Moved
<1>4. RefcountsExact'
  BY <1>2, <1>3, SameRefs
<1>5. TypeOK'
  BY <1>1, <1>2, <1>3 DEF TypeOK
<1>6. LinksFit'
  BY <1>1, <1>2 DEF LinksFit
<1> QED BY <1>3, <1>4, <1>5, <1>6 DEF BaseInv

LEMMA BaseCopyDescriptor ==
    ASSUME BaseInv, NEW t \in Threads, NEW d \in Descs, NEW s \in Descs, CopyDescriptor(t, d, s)
    PROVE  BaseInv'
<1>1. TypeOK /\ ControlFits /\ LinksFit /\ RefcountsExact
  BY DEF BaseInv
<1> DEFINE l == [Start EXCEPT !.pc = "read", !.dst = d, !.src = s]
<1>2. /\ thread[t].pc = "idle" /\ writes < MaxWrites /\ writes' = writes + 1 /\ Go(t, l)
      /\ UNCHANGED <<heapVars, viewVars, vk_sets_mutex, vk_set, had, writers>>
  BY DEF CopyDescriptor, At
<1>3. UNCHANGED <<object, next, dirty_list_head, refcount, view_desc_cache, version>>
  BY <1>2 DEF heapVars, viewVars
<1>4. thread[t] = Start /\ vk_sets_mutex # t
  BY <1>1, <1>2 DEF ControlFits, LocalFits, FlushPcs, RefPcs
<1>5. l \in Local
  BY StartIsLocal DEF Local
<1>6. l.pc = "read" /\ l.dst = d /\ l.src = s /\ l.held = <<>> /\ l.i = UINT_MAX
  BY DEF Start
<1> HIDE DEF l
<1>7. LocalFits(t, l, vk_sets_mutex)
  BY <1>4, <1>6, HeapAssumption DEF LocalFits, FlushPcs, RefPcs, WritePcs
<1>8. /\ thread' \in [Threads -> Local] /\ thread'[t] = l
      /\ \A u \in Threads : u # t => thread'[u] = thread[u]
      /\ ControlFits' /\ \A u \in Threads : Bounded(thread'[u])
  BY <1>2, <1>5, <1>7, Moved
<1>9. \A p \in Objects : Weight(thread[t], p) = 0 /\ Weight(thread'[t], p) = 0
  BY <1>2, <1>4, <1>6, <1>8, WeightBy, Unbuffered DEF Start, Holding
<1>10. RefcountsExact'
  BY <1>3, <1>8, <1>9, SameRefs
<1>11. writes' \in 0 .. MaxWrites
  BY <1>1, <1>2, HeapAssumption DEF TypeOK
<1>12. TypeOK'
  BY <1>1, <1>2, <1>3, <1>8, <1>11 DEF TypeOK
<1>13. LinksFit'
  BY <1>1, <1>3 DEF LinksFit
<1> QED BY <1>8, <1>10, <1>12, <1>13 DEF BaseInv

LEMMA BaseFlushHeap ==
    ASSUME BaseInv, NEW t \in Threads, FlushHeap(t)
    PROVE  BaseInv'
<1>1. TypeOK /\ ControlFits
  BY DEF BaseInv
<1> DEFINE l == [thread[t] EXCEPT !.pc = "lock"]
<1>2. /\ thread[t].pc = "idle" /\ Go(t, l)
      /\ UNCHANGED <<heapVars, viewVars, historyVars, vk_sets_mutex, vk_set>>
  BY DEF FlushHeap, At, Goto
<1>3. thread[t] = Start /\ vk_sets_mutex # t
  BY <1>1, <1>2 DEF ControlFits, LocalFits, FlushPcs, RefPcs
<1>4. l \in Local
  BY <1>3, StartIsLocal DEF Local
<1>5. l.pc = "lock" /\ l.held = <<>> /\ l.i = UINT_MAX
  BY <1>3 DEF Start
<1> HIDE DEF l
<1>6. LocalFits(t, l, vk_sets_mutex)
  BY <1>3, <1>5, HeapAssumption DEF LocalFits, FlushPcs, RefPcs, WritePcs
<1>7. \A p \in Objects : Weight(l, p) = Weight(thread[t], p)
  BY <1>3, <1>5, WeightBy, Unbuffered DEF Start, Holding
<1> QED BY <1>2, <1>4, <1>6, <1>7, BaseMoves

----------------------------------------------------------------------------
(* Taking a reference.                                                     *)

\* The caller of d3d12_desc_get_object_ref() puts the reference where it
\* belongs: a copy keeps it, a flush buffers it.
LEMMA GotRefMoves ==
    ASSUME BaseInv, NEW t \in Threads, thread[t].pc \in {"read", "check"},
           NEW view \in Objects \cup {NULL}, GotRef(t, view)
    PROVE  \E l \in Local :
               /\ Go(t, l) /\ LocalFits(t, l, vk_sets_mutex)
               /\ \A o \in Objects :
                      /\ Cardinality(Places(thread[t].held, o)) \in Nat
                      /\ Weight(l, o) = Cardinality(Places(thread[t].held, o)) + Is(view = o)
<1>1. TypeOK /\ ControlFits
  BY DEF BaseInv
<1>2. PICK l0 \in Local : thread[t] = l0
  BY <1>1 DEF TypeOK
<1>3. LocalFits(t, l0, vk_sets_mutex)
  BY <1>1, <1>2 DEF ControlFits
<1>4. l0.held \in Seq(Write) /\ l0.src \in Descs
  BY <1>2, <1>3 DEF Local, LocalFits, RefPcs, Write
<1>5. /\ l0.pc \in {"read", "check"} /\ Len(l0.held) < WriteBufferSize - 1
      /\ vk_sets_mutex # t => l0.dst \in Descs /\ l0.held = <<>> /\ l0.i = UINT_MAX
  BY <1>2, <1>3 DEF LocalFits, RefPcs
<1>6. \A o \in Objects : Cardinality(Places(l0.held, o)) \in Nat
  <2>1. Bounded(l0)
    BY <1>3 DEF Bounded, LocalFits
  <2> QED BY <2>1, PlacesFinite
<1>7. PICK n \in Nat : Len(l0.held) = n
  BY <1>4
<1>8. n < WriteBufferSize - 1 /\ WriteBufferSize \in Nat
  BY <1>5, <1>7, HeapAssumption
<1>9. CASE ~Flushing(t)
  <2> DEFINE l == [l0 EXCEPT !.pc = "replace", !.view = view]
  <2>1. l \in Local
    BY <1>2 DEF Local
  <2>2. /\ l.pc = "replace" /\ l.dst = l0.dst /\ l.view = view /\ l.held = l0.held
        /\ l.i = l0.i
    BY <1>2 DEF Local
  <2>3. Go(t, l)
    BY <1>2, <1>9 DEF GotRef
  <2> HIDE DEF l
  <2>4. LocalFits(t, l, vk_sets_mutex)
    BY <1>5, <1>7, <1>8, <1>9, <2>2 DEF LocalFits, FlushPcs, RefPcs, WritePcs, Flushing
  <2>5. \A o \in Objects : Weight(l, o) = Cardinality(Places(l0.held, o)) + Is(view = o)
    BY <1>6, <2>2, WeightBy DEF Holding, Is
  <2> QED BY <1>2, <1>6, <2>1, <2>3, <2>4, <2>5
<1>10. CASE Flushing(t) /\ view = NULL
  <2> DEFINE l == [l0 EXCEPT !.pc = "walk"]
  <2>1. l \in Local
    BY <1>2 DEF Local
  <2>2. l.pc = "walk" /\ l.held = l0.held
    BY <1>2 DEF Local
  <2>3. Go(t, l)
    BY <1>2, <1>10 DEF GotRef, Goto
  <2> HIDE DEF l
  <2>4. LocalFits(t, l, vk_sets_mutex)
    BY <1>5, <1>7, <1>8, <1>10, <2>2 DEF LocalFits, FlushPcs, RefPcs, WritePcs, Flushing
  <2>5. \A o \in Objects : Weight(l, o) = Cardinality(Places(l0.held, o)) + Is(view = o)
    BY <1>6, <1>10, <2>2, WeightBy, HeapAssumption DEF Holding, Is
  <2> QED BY <1>2, <1>6, <2>1, <2>3, <2>4, <2>5
<1>11. CASE Flushing(t) /\ view # NULL
  <2> DEFINE full == Len(l0.held) + 1 >= WriteBufferSize - 1
             l == [l0 EXCEPT !.pc = IF full THEN "update" ELSE "walk", !.view = NULL,
                             !.held = Append(@, [desc |-> l0.src, view |-> view])]
  <2>1. PICK w \in Write : w = [desc |-> l0.src, view |-> view]
    BY <1>4, <1>11 DEF Write
  <2>2. PICK h \in Seq(Write) : h = Append(l0.held, w)
    BY <1>4, AppendProperties
  <2>3. /\ Len(h) = n + 1 /\ h # <<>>
        /\ \A o \in Objects :
               Cardinality(Places(h, o)) = Cardinality(Places(l0.held, o)) + Is(view = o)
    <3>1. w.view = view
      BY <2>1
    <3>2. Len(h) = Len(l0.held) + 1 /\ h # <<>>
      BY <1>4, <2>2, PlacesOfAppend
    <3>3. \A o : Cardinality(Places(h, o)) = Cardinality(Places(l0.held, o)) + Is(w.view = o)
      BY <1>4, <2>2, PlacesOfAppend
    <3> QED BY <1>7, <3>1, <3>2, <3>3
  <2>4. l = [l0 EXCEPT !.pc = IF full THEN "update" ELSE "walk", !.view = NULL, !.held = h]
    BY <2>1, <2>2
  <2>5. l \in Local
    BY <1>2, <2>4 DEF Local, Write
  <2>6. /\ l.pc = IF full THEN "update" ELSE "walk"
        /\ l.view = NULL /\ l.held = h
    BY <1>2, <2>4 DEF Local
  <2>7. Go(t, l)
    BY <1>2, <1>11 DEF GotRef
  <2> HIDE DEF l
  <2>8. LocalFits(t, l, vk_sets_mutex)
    BY <1>7, <1>8, <1>11, <2>3, <2>6 DEF LocalFits, FlushPcs, RefPcs, WritePcs, Flushing
  <2>9. \A o \in Objects : Weight(l, o) = Cardinality(Places(l0.held, o)) + Is(view = o)
    BY <1>6, <2>3, <2>6, WeightBy DEF Holding, Is
  <2> QED BY <1>2, <1>6, <2>5, <2>7, <2>8, <2>9
<1> QED BY <1>9, <1>10, <1>11

LEMMA BaseReadObject ==
    ASSUME BaseInv, NEW t \in Threads, ReadObject(t)
    PROVE  BaseInv'
<1>1. TypeOK /\ ControlFits
  BY DEF BaseInv
<1>2. PICK l0 \in Local : thread[t] = l0
  BY <1>1 DEF TypeOK
<1>3. LocalFits(t, l0, vk_sets_mutex)
  BY <1>1, <1>2 DEF ControlFits
<1>4. /\ l0.pc = "read"
      /\ UNCHANGED <<heapVars, viewVars, historyVars, vk_sets_mutex, vk_set>>
  BY <1>2 DEF ReadObject, At
<1>5. \A o \in Objects : /\ Cardinality(Places(l0.held, o)) \in Nat
                         /\ Weight(l0, o) = Cardinality(Places(l0.held, o))
  <2>1. Bounded(l0)
    BY <1>3 DEF Bounded, LocalFits
  <2> QED BY <1>4, <2>1, PlacesFinite, WeightBy DEF Holding
<1>6. l0.src \in Descs
  BY <1>3, <1>4 DEF LocalFits, RefPcs
<1>7. CASE object[l0.src] = NULL
  <2>1. GotRef(t, NULL)
    BY <1>2, <1>7 DEF ReadObject
  <2>2. PICK l \in Local :
            /\ Go(t, l) /\ LocalFits(t, l, vk_sets_mutex)
            /\ \A o \in Objects :
                   Weight(l, o) = Cardinality(Places(l0.held, o)) + Is(NULL = o)
    BY <1>2, <1>4, <2>1, GotRefMoves
  <2>3. \A o \in Objects : Weight(l, o) = Weight(thread[t], o)
    BY <1>2, <1>5, <2>2, HeapAssumption DEF Is
  <2> QED BY <1>4, <2>2, <2>3, BaseMoves
<1>8. CASE object[l0.src] # NULL
  <2> DEFINE l == [l0 EXCEPT !.pc = "incref", !.view = object[l0.src]]
  <2>1. object[l0.src] \in Objects \cup {NULL}
    BY <1>1, <1>6 DEF TypeOK
  <2>2. l \in Local
    BY <1>2, <2>1 DEF Local
  <2>3. /\ l.pc = "incref" /\ l.view # NULL /\ l.dst = l0.dst /\ l.src = l0.src
        /\ l.held = l0.held /\ l.i = l0.i
    BY <1>2, <1>8 DEF Local
  <2>4. Go(t, l)
    BY <1>2, <1>8 DEF ReadObject
  <2> HIDE DEF l
  <2>5. LocalFits(t, l, vk_sets_mutex)
    BY <1>3, <1>4, <2>3 DEF LocalFits, FlushPcs, RefPcs, WritePcs
  <2>6. \A o \in Objects : Weight(l, o) = Weight(thread[t], o)
    BY <1>2, <1>5, <2>3, WeightBy DEF Holding
  <2> QED BY <1>4, <2>2, <2>4, <2>5, <2>6, BaseMoves
<1> QED BY <1>7, <1>8

LEMMA BaseIncRef ==
    ASSUME BaseInv, NEW t \in Threads, IncRef(t)
    PROVE  BaseInv'
<1>1. TypeOK /\ ControlFits /\ LinksFit
  BY DEF BaseInv
<1>2. PICK l0 \in Local : thread[t] = l0
  BY <1>1 DEF TypeOK
<1>3. LocalFits(t, l0, vk_sets_mutex)
  BY <1>1, <1>2 DEF ControlFits
<1>4. /\ l0.pc = "incref"
      /\ UNCHANGED <<heapVars, view_desc_cache, version, historyVars, vk_sets_mutex, vk_set>>
  BY <1>2 DEF IncRef, At
<1>5. UNCHANGED <<object, next, dirty_list_head, writes, had, writers>>
  BY <1>4 DEF heapVars, historyVars
<1>6. PICK o \in Objects : l0.view = o
  BY <1>3, <1>4 DEF LocalFits, Local
<1>7. \A p \in Objects : /\ Cardinality(Places(l0.held, p)) \in Nat
                         /\ Weight(l0, p) = Cardinality(Places(l0.held, p))
  <2>1. Bounded(l0)
    BY <1>3 DEF Bounded, LocalFits
  <2> QED BY <1>4, <2>1, PlacesFinite, WeightBy DEF Holding
<1>8. CASE refcount[o] = 0
  <2> DEFINE l == [l0 EXCEPT !.pc = "read", !.view = NULL]
  <2>1. l \in Local
    BY <1>2 DEF Local
  <2>2. /\ l.pc = "read" /\ l.dst = l0.dst /\ l.src = l0.src /\ l.held = l0.held /\ l.i = l0.i
    BY <1>2 DEF Local
  <2>3. Go(t, l) /\ UNCHANGED refcount
    BY <1>2, <1>6, <1>8 DEF IncRef
  <2> HIDE DEF l
  <2>4. LocalFits(t, l, vk_sets_mutex)
    BY <1>3, <1>4, <2>2 DEF LocalFits, FlushPcs, RefPcs, WritePcs
  <2>5. \A p \in Objects : Weight(l, p) = Weight(thread[t], p)
    BY <1>2, <1>7, <2>2, WeightBy DEF Holding
  <2> QED BY <1>4, <2>1, <2>3, <2>4, <2>5, BaseMoves DEF viewVars
<1>9. CASE refcount[o] # 0
  <2> DEFINE l == [l0 EXCEPT !.pc = "check"]
  <2>1. l \in Local
    BY <1>2 DEF Local
  <2>2. /\ l.pc = "check" /\ l.view = o /\ l.dst = l0.dst /\ l.src = l0.src
        /\ l.held = l0.held /\ l.i = l0.i
    BY <1>2, <1>6 DEF Local
  <2>3. Go(t, l) /\ refcount' = [refcount EXCEPT ![o] = @ + 1]
    BY <1>2, <1>6, <1>9 DEF IncRef, Goto
  <2> HIDE DEF l
  <2>4. LocalFits(t, l, vk_sets_mutex)
    BY <1>3, <1>4, <1>6, <2>2 DEF LocalFits, FlushPcs, RefPcs, WritePcs
  <2>5. /\ thread' \in [Threads -> Local] /\ thread'[t] = l
        /\ \A u \in Threads : u # t => thread'[u] = thread[u]
        /\ ControlFits' /\ \A u \in Threads : Bounded(thread'[u])
    BY <1>4, <2>1, <2>3, <2>4, Moved
  <2>6. \A p \in Objects : Weight(thread'[t], p) = Weight(thread[t], p) + Is(p = o)
    BY <1>2, <1>7, <2>2, <2>5, WeightBy DEF Holding, Is
  <2>7. RefcountsExact' /\ refcount' \in [Objects -> Nat]
    BY <1>4, <1>5, <1>9, <2>3, <2>5, <2>6, TakesRef
  <2>8. TypeOK'
    BY <1>1, <1>4, <1>5, <2>5, <2>7 DEF TypeOK
  <2>9. LinksFit'
    BY <1>1, <1>5 DEF LinksFit
  <2> QED BY <2>5, <2>7, <2>8, <2>9 DEF BaseInv
<1> QED BY <1>8, <1>9

LEMMA BaseCheckObject ==
    ASSUME BaseInv, NEW t \in Threads, CheckObject(t)
    PROVE  BaseInv'
<1>1. TypeOK /\ ControlFits
  BY DEF BaseInv
<1>2. PICK l0 \in Local : thread[t] = l0
  BY <1>1 DEF TypeOK
<1>3. LocalFits(t, l0, vk_sets_mutex)
  BY <1>1, <1>2 DEF ControlFits
<1>4. /\ l0.pc = "check"
      /\ UNCHANGED <<heapVars, viewVars, historyVars, vk_sets_mutex, vk_set>>
  BY <1>2 DEF CheckObject, At
<1>5. \A p \in Objects :
          /\ Cardinality(Places(l0.held, p)) \in Nat
          /\ Weight(l0, p) = Cardinality(Places(l0.held, p)) + Is(l0.view = p)
  <2>1. Bounded(l0)
    BY <1>3 DEF Bounded, LocalFits
  <2> QED BY <1>4, <2>1, PlacesFinite, WeightBy DEF Holding, Is
<1>6. CASE l0.view = object[l0.src]
  <2>1. GotRef(t, l0.view) /\ l0.view \in Objects \cup {NULL}
    BY <1>2, <1>6 DEF CheckObject, Local
  <2>2. PICK l \in Local :
            /\ Go(t, l) /\ LocalFits(t, l, vk_sets_mutex)
            /\ \A o \in Objects :
                   Weight(l, o) = Cardinality(Places(l0.held, o)) + Is(l0.view = o)
    BY <1>2, <1>4, <2>1, GotRefMoves
  <2>3. \A o \in Objects : Weight(l, o) = Weight(thread[t], o)
    BY <1>2, <1>5, <2>2
  <2> QED BY <1>4, <2>2, <2>3, BaseMoves
<1>7. CASE l0.view # object[l0.src]
  <2> DEFINE l == [l0 EXCEPT !.pc = "undo"]
  <2>1. l \in Local
    BY <1>2 DEF Local
  <2>2. /\ l.pc = "undo" /\ l.view = l0.view /\ l.dst = l0.dst /\ l.src = l0.src
        /\ l.held = l0.held /\ l.i = l0.i
    BY <1>2 DEF Local
  <2>3. Go(t, l)
    BY <1>2, <1>7 DEF CheckObject, Goto
  <2> HIDE DEF l
  <2>4. LocalFits(t, l, vk_sets_mutex)
    BY <1>3, <1>4, <2>2 DEF LocalFits, FlushPcs, RefPcs, WritePcs
  <2>5. \A o \in Objects : Weight(l, o) = Weight(thread[t], o)
    BY <1>2, <1>5, <2>2, WeightBy DEF Holding, Is
  <2> QED BY <1>4, <2>1, <2>3, <2>4, <2>5, BaseMoves
<1> QED BY <1>6, <1>7

\* A step that drops a reference and changes nothing else but the thread.
LEMMA BaseDrops ==
    ASSUME BaseInv, NEW t \in Threads, NEW l \in Local, Go(t, l),
           LocalFits(t, l, vk_sets_mutex), NEW o \in Objects, DecRef(o),
           UNCHANGED <<heapVars, version, historyVars, vk_sets_mutex, vk_set>>,
           \A p \in Objects : Weight(l, p) = Weight(thread[t], p) - Is(p = o)
    PROVE  BaseInv'
<1>1. TypeOK /\ ControlFits /\ LinksFit
  BY DEF BaseInv
<1>2. UNCHANGED <<object, next, dirty_list_head, version, writes, had, writers,
                  vk_sets_mutex, vk_set>>
  BY DEF heapVars, historyVars
<1>3. /\ thread' \in [Threads -> Local] /\ thread'[t] = l
      /\ \A u \in Threads : u # t => thread'[u] = thread[u]
      /\ ControlFits' /\ \A u \in Threads : Bounded(thread'[u])
  BY <1>2, Moved
<1>4. /\ RefcountsExact' /\ refcount' \in [Objects -> Nat]
      /\ view_desc_cache' \subseteq Objects
  BY <1>2, <1>3, DropsRef
<1>5. TypeOK'
  BY <1>1, <1>2, <1>3, <1>4 DEF TypeOK
<1>6. LinksFit'
  BY <1>1, <1>2 DEF LinksFit
<1> QED BY <1>3, <1>4, <1>5, <1>6 DEF BaseInv

LEMMA BaseUndoRef ==
    ASSUME BaseInv, NEW t \in Threads, UndoRef(t)
    PROVE  BaseInv'
<1>1. TypeOK /\ ControlFits
  BY DEF BaseInv
<1>2. PICK l0 \in Local : thread[t] = l0
  BY <1>1 DEF TypeOK
<1>3. LocalFits(t, l0, vk_sets_mutex)
  BY <1>1, <1>2 DEF ControlFits
<1>4. /\ l0.pc = "undo"
      /\ UNCHANGED <<heapVars, version, historyVars, vk_sets_mutex, vk_set>>
  BY <1>2 DEF UndoRef, At
<1>5. PICK o \in Objects : l0.view = o
  BY <1>3, <1>4 DEF LocalFits, Local
<1>6. \A p \in Objects :
          /\ Cardinality(Places(l0.held, p)) \in Nat
          /\ Weight(l0, p) = Cardinality(Places(l0.held, p)) + Is(p = o)
  <2>1. Bounded(l0)
    BY <1>3 DEF Bounded, LocalFits
  <2> QED BY <1>4, <1>5, <2>1, PlacesFinite, WeightBy DEF Holding, Is
<1> DEFINE l == [l0 EXCEPT !.pc = "read", !.view = NULL]
<1>7. l \in Local
  BY <1>2 DEF Local
<1>8. /\ l.pc = "read" /\ l.dst = l0.dst /\ l.src = l0.src /\ l.held = l0.held /\ l.i = l0.i
  BY <1>2 DEF Local
<1>9. Go(t, l) /\ DecRef(o)
  BY <1>2, <1>5 DEF UndoRef
<1> HIDE DEF l
<1>10. LocalFits(t, l, vk_sets_mutex)
  BY <1>3, <1>4, <1>8 DEF LocalFits, FlushPcs, RefPcs, WritePcs
<1>11. \A p \in Objects : Weight(l, p) = Weight(thread[t], p) - Is(p = o)
  BY <1>2, <1>6, <1>8, WeightBy DEF Holding, Is
<1> QED BY <1>4, <1>7, <1>9, <1>10, <1>11, BaseDrops

LEMMA BaseDecRefOld ==
    ASSUME BaseInv, NEW t \in Threads, DecRefOld(t)
    PROVE  BaseInv'
<1>1. TypeOK /\ ControlFits
  BY DEF BaseInv
<1>2. PICK l0 \in Local : thread[t] = l0
  BY <1>1 DEF TypeOK
<1>3. LocalFits(t, l0, vk_sets_mutex)
  BY <1>1, <1>2 DEF ControlFits
<1>4. /\ l0.pc = "decref"
      /\ UNCHANGED <<heapVars, version, historyVars, vk_sets_mutex, vk_set>>
  BY <1>2 DEF DecRefOld, At
<1>5. PICK o \in Objects : l0.old = o
  BY <1>3, <1>4 DEF LocalFits, Local
<1>6. \A p \in Objects :
          /\ Cardinality(Places(l0.held, p)) \in Nat
          /\ Weight(l0, p) = Cardinality(Places(l0.held, p)) + Is(p = o)
  <2>1. Bounded(l0)
    BY <1>3 DEF Bounded, LocalFits
  <2> QED BY <1>4, <1>5, <2>1, PlacesFinite, WeightBy DEF Holding, Is
<1> DEFINE l == [l0 EXCEPT !.pc = "test", !.old = NULL]
<1>7. l \in Local
  BY <1>2 DEF Local
<1>8. /\ l.pc = "test" /\ l.dst = l0.dst /\ l.src = l0.src /\ l.held = l0.held /\ l.i = l0.i
  BY <1>2 DEF Local
<1>9. Go(t, l) /\ DecRef(o)
  BY <1>2, <1>5 DEF DecRefOld
<1> HIDE DEF l
<1>10. LocalFits(t, l, vk_sets_mutex)
  BY <1>3, <1>4, <1>8 DEF LocalFits, FlushPcs, RefPcs, WritePcs
<1>11. \A p \in Objects : Weight(l, p) = Weight(thread[t], p) - Is(p = o)
  BY <1>2, <1>6, <1>8, WeightBy DEF Holding, Is
<1> QED BY <1>4, <1>7, <1>9, <1>10, <1>11, BaseDrops

----------------------------------------------------------------------------
(* Writing a descriptor.                                                   *)

MarkPcs == {"test", "head", "mark", "push", "relink"}

\* A thread that marks a descriptor refers to no view.
LEMMA Marking ==
    ASSUME NEW t \in Threads, NEW l \in Local, NEW mutex
    PROVE  /\ l.pc \in MarkPcs /\ LocalFits(t, l, mutex) =>
                  /\ mutex # t /\ l.dst \in Descs /\ l.held = <<>> /\ l.i = UINT_MAX
                  /\ \A o \in Objects : Weight(l, o) = 0
           /\ l.pc \in MarkPcs /\ mutex # t /\ l.dst \in Descs /\ l.held = <<>> /\ l.i = UINT_MAX =>
                  /\ LocalFits(t, l, mutex)
                  /\ \A o \in Objects : Weight(l, o) = 0
           /\ mutex # t => LocalFits(t, Start, mutex)
           /\ \A o \in Objects : Weight(Start, o) = 0
<1>1. PICK w \in Nat \ {0, 1} : WriteBufferSize = w
  BY HeapAssumption
<1>2. Len(<<>>) = 0
  OBVIOUS
<1>3. l.held = <<>> /\ l.pc \in MarkPcs => \A o \in Objects : Weight(l, o) = 0
  BY WeightBy, Unbuffered DEF MarkPcs, Holding
<1>4. ASSUME l.pc \in MarkPcs, LocalFits(t, l, mutex)
      PROVE  mutex # t /\ l.dst \in Descs /\ l.held = <<>> /\ l.i = UINT_MAX
  BY <1>4 DEF LocalFits, MarkPcs, FlushPcs, RefPcs, WritePcs
<1>5. ASSUME l.pc \in MarkPcs, mutex # t, l.dst \in Descs, l.held = <<>>, l.i = UINT_MAX
      PROVE  LocalFits(t, l, mutex)
  BY <1>1, <1>2, <1>5 DEF LocalFits, MarkPcs, FlushPcs, RefPcs, WritePcs
<1>6. mutex # t => LocalFits(t, Start, mutex)
  BY <1>1, <1>2 DEF LocalFits, Start, FlushPcs, RefPcs, WritePcs
<1>7. \A o \in Objects : Weight(Start, o) = 0
  BY WeightBy, Unbuffered DEF Start, Holding
<1> QED BY <1>3, <1>4, <1>5, <1>6, <1>7

\* A step that changes the links and where a thread is.
LEMMA BaseLinks ==
    ASSUME BaseInv, NEW t \in Threads, NEW l \in Local, Go(t, l),
           LocalFits(t, l, vk_sets_mutex),
           UNCHANGED <<object, viewVars, historyVars, vk_sets_mutex, vk_set>>,
           next' \in [Descs -> 0 .. UINT_MAX], LinksFit', dirty_list_head' \in Index,
           \A o \in Objects : Weight(l, o) = Weight(thread[t], o)
    PROVE  BaseInv'
<1>1. TypeOK /\ ControlFits /\ RefcountsExact
  BY DEF BaseInv
<1>2. UNCHANGED <<object, refcount, view_desc_cache, version, writes, had, writers,
                  vk_sets_mutex, vk_set>>
  BY DEF viewVars, historyVars
<1>3. /\ thread' \in [Threads -> Local] /\ thread'[t] = l
      /\ \A u \in Threads : u # t => thread'[u] = thread[u]
      /\ ControlFits' /\ \A u \in Threads : Bounded(thread'[u])
  BY <1>2, Moved
<1>4. RefcountsExact'
  BY <1>2, <1>3, SameRefs
<1>5. TypeOK'
  BY <1>1, <1>2, <1>3 DEF TypeOK
<1> QED BY <1>3, <1>4, <1>5 DEF BaseInv

LEMMA BaseTestNext ==
    ASSUME BaseInv, NEW t \in Threads, TestNext(t)
    PROVE  BaseInv'
<1>1. TypeOK /\ ControlFits
  BY DEF BaseInv
<1>2. PICK l0 \in Local : thread[t] = l0 /\ LocalFits(t, l0, vk_sets_mutex)
  BY <1>1 DEF TypeOK, ControlFits
<1>3. /\ l0.pc = "test"
      /\ UNCHANGED <<heapVars, viewVars, historyVars, vk_sets_mutex, vk_set>>
  BY <1>2 DEF TestNext, At
<1>4. /\ vk_sets_mutex # t /\ l0.dst \in Descs /\ l0.held = <<>> /\ l0.i = UINT_MAX
      /\ \A o \in Objects : Weight(l0, o) = 0
  BY <1>2, <1>3, Marking DEF MarkPcs
<1>5. CASE Go(t, Start)
  BY <1>2, <1>3, <1>4, <1>5, StartIsLocal, Marking, BaseMoves
<1> DEFINE l == [l0 EXCEPT !.pc = "head", !.view = NULL]
<1>6. CASE Go(t, l)
  <2>1. l \in Local
    BY <1>2 DEF Local
  <2>2. l.pc = "head" /\ l.dst = l0.dst /\ l.held = <<>> /\ l.i = UINT_MAX
    BY <1>2, <1>4 DEF Local
  <2>3. Go(t, l)
    BY <1>6
  <2> HIDE DEF l
  <2>4. LocalFits(t, l, vk_sets_mutex) /\ \A o \in Objects : Weight(l, o) = 0
    BY <1>4, <2>1, <2>2, Marking DEF MarkPcs
  <2> QED BY <1>2, <1>3, <1>4, <2>1, <2>3, <2>4, BaseMoves
<1> QED BY <1>2, <1>5, <1>6 DEF TestNext, Return

LEMMA BaseReadHead ==
    ASSUME BaseInv, NEW t \in Threads, ReadHead(t)
    PROVE  BaseInv'
<1>1. TypeOK /\ ControlFits
  BY DEF BaseInv
<1>2. PICK l0 \in Local : thread[t] = l0 /\ LocalFits(t, l0, vk_sets_mutex)
  BY <1>1 DEF TypeOK, ControlFits
<1> DEFINE l == [l0 EXCEPT !.pc = "mark", !.head = dirty_list_head]
<1>3. /\ l0.pc = "head" /\ Go(t, l)
      /\ UNCHANGED <<heapVars, viewVars, historyVars, vk_sets_mutex, vk_set>>
  BY <1>2 DEF ReadHead, At
<1>4. /\ vk_sets_mutex # t /\ l0.dst \in Descs /\ l0.held = <<>> /\ l0.i = UINT_MAX
      /\ \A o \in Objects : Weight(l0, o) = 0
  BY <1>2, <1>3, Marking DEF MarkPcs
<1>5. dirty_list_head \in Index
  BY <1>1 DEF TypeOK
<1>6. l \in Local
  BY <1>2, <1>5 DEF Local
<1>7. l.pc = "mark" /\ l.dst = l0.dst /\ l.held = <<>> /\ l.i = UINT_MAX
  BY <1>2, <1>4 DEF Local
<1> HIDE DEF l
<1>8. LocalFits(t, l, vk_sets_mutex) /\ \A o \in Objects : Weight(l, o) = 0
  BY <1>4, <1>6, <1>7, Marking DEF MarkPcs
<1> QED BY <1>2, <1>3, <1>4, <1>6, <1>8, BaseMoves

\* A link that is set to the encoding of a descriptor or of the end.
LEMMA Linked ==
    ASSUME BaseInv, NEW d \in Descs, NEW i \in Index, next' = [next EXCEPT ![d] = Encode(i)]
    PROVE  next' \in [Descs -> 0 .. UINT_MAX] /\ LinksFit'
<1>1. next \in [Descs -> 0 .. UINT_MAX] /\ LinksFit
  BY DEF BaseInv, TypeOK
<1>2. PICK e \in 0 .. UINT_MAX : Encode(i) = e
  BY Encoding
<1>3. next' \in [Descs -> 0 .. UINT_MAX]
  BY <1>1, <1>2
<1>4. ASSUME NEW c \in Descs
      PROVE  next'[c] = 0 \/ \E j \in Index : next'[c] = Encode(j)
  BY <1>1 DEF LinksFit
<1> QED BY <1>3, <1>4 DEF LinksFit

LEMMA BaseMarkDesc ==
    ASSUME BaseInv, NEW t \in Threads, MarkDesc(t)
    PROVE  BaseInv'
<1>1. TypeOK /\ ControlFits
  BY DEF BaseInv
<1>2. PICK l0 \in Local : thread[t] = l0 /\ LocalFits(t, l0, vk_sets_mutex)
  BY <1>1 DEF TypeOK, ControlFits
<1>3. /\ l0.pc = "mark"
      /\ UNCHANGED <<object, dirty_list_head, viewVars, historyVars, vk_sets_mutex, vk_set>>
  BY <1>2 DEF MarkDesc, At
<1>4. /\ vk_sets_mutex # t /\ l0.dst \in Descs /\ l0.held = <<>> /\ l0.i = UINT_MAX
      /\ \A o \in Objects : Weight(l0, o) = 0
  BY <1>2, <1>3, Marking DEF MarkPcs
<1>5. dirty_list_head' \in Index
  BY <1>1, <1>3 DEF TypeOK
<1>6. CASE next[l0.dst] # 0
  <2>1. Go(t, Start) /\ UNCHANGED next
    BY <1>2, <1>6 DEF MarkDesc, Return
  <2>2. UNCHANGED heapVars
    BY <1>3, <2>1 DEF heapVars
  <2> QED BY <1>2, <1>3, <1>4, <2>1, <2>2, StartIsLocal, Marking, BaseMoves
<1>7. CASE next[l0.dst] = 0
  <2> DEFINE l == [l0 EXCEPT !.pc = "push"]
  <2>1. Go(t, l) /\ next' = [next EXCEPT ![l0.dst] = Encode(l0.head)]
    BY <1>2, <1>7 DEF MarkDesc, Goto
  <2>2. l \in Local
    BY <1>2 DEF Local
  <2>3. l.pc = "push" /\ l.dst = l0.dst /\ l.held = <<>> /\ l.i = UINT_MAX
    BY <1>2, <1>4 DEF Local
  <2> HIDE DEF l
  <2>4. LocalFits(t, l, vk_sets_mutex) /\ \A o \in Objects : Weight(l, o) = 0
    BY <1>4, <2>2, <2>3, Marking DEF MarkPcs
  <2>5. next' \in [Descs -> 0 .. UINT_MAX] /\ LinksFit'
    BY <1>2, <1>4, <2>1, LocalTypes, Linked
  <2> QED BY <1>2, <1>3, <1>4, <1>5, <2>1, <2>2, <2>4, <2>5, BaseLinks
<1> QED BY <1>6, <1>7

LEMMA BasePushDesc ==
    ASSUME BaseInv, NEW t \in Threads, PushDesc(t)
    PROVE  BaseInv'
<1>1. TypeOK /\ ControlFits
  BY DEF BaseInv
<1>2. PICK l0 \in Local : thread[t] = l0 /\ LocalFits(t, l0, vk_sets_mutex)
  BY <1>1 DEF TypeOK, ControlFits
<1>3. /\ l0.pc = "push"
      /\ UNCHANGED <<object, next, viewVars, historyVars, vk_sets_mutex, vk_set>>
  BY <1>2 DEF PushDesc, At
<1>4. /\ vk_sets_mutex # t /\ l0.dst \in Descs /\ l0.held = <<>> /\ l0.i = UINT_MAX
      /\ \A o \in Objects : Weight(l0, o) = 0
  BY <1>2, <1>3, Marking DEF MarkPcs
<1>5. next' \in [Descs -> 0 .. UINT_MAX] /\ LinksFit' /\ dirty_list_head \in Index
  BY <1>1, <1>3 DEF TypeOK, LinksFit, BaseInv
<1>6. CASE dirty_list_head = l0.head
  <2>1. Go(t, Start) /\ dirty_list_head' = l0.dst
    BY <1>2, <1>6 DEF PushDesc, Return
  <2>2. dirty_list_head' \in Index
    BY <1>4, <2>1 DEF Index
  <2> QED BY <1>2, <1>3, <1>4, <1>5, <2>1, <2>2, StartIsLocal, Marking, BaseLinks
<1>7. CASE dirty_list_head # l0.head
  <2> DEFINE l == [l0 EXCEPT !.pc = "relink", !.head = dirty_list_head]
  <2>1. Go(t, l) /\ UNCHANGED dirty_list_head
    BY <1>2, <1>7 DEF PushDesc
  <2>2. l \in Local
    BY <1>2, <1>5 DEF Local
  <2>3. l.pc = "relink" /\ l.dst = l0.dst /\ l.held = <<>> /\ l.i = UINT_MAX
    BY <1>2, <1>4 DEF Local
  <2> HIDE DEF l
  <2>4. LocalFits(t, l, vk_sets_mutex) /\ \A o \in Objects : Weight(l, o) = 0
    BY <1>4, <2>2, <2>3, Marking DEF MarkPcs
  <2>5. dirty_list_head' \in Index
    BY <1>5, <2>1
  <2> QED BY <1>2, <1>3, <1>4, <1>5, <2>1, <2>2, <2>4, <2>5, BaseLinks
<1> QED BY <1>6, <1>7

LEMMA BaseRelinkDesc ==
    ASSUME BaseInv, NEW t \in Threads, RelinkDesc(t)
    PROVE  BaseInv'
<1>1. TypeOK /\ ControlFits
  BY DEF BaseInv
<1>2. PICK l0 \in Local : thread[t] = l0 /\ LocalFits(t, l0, vk_sets_mutex)
  BY <1>1 DEF TypeOK, ControlFits
<1> DEFINE l == [l0 EXCEPT !.pc = "push"]
<1>3. /\ l0.pc = "relink" /\ Go(t, l) /\ next' = [next EXCEPT ![l0.dst] = Encode(l0.head)]
      /\ UNCHANGED <<object, dirty_list_head, viewVars, historyVars, vk_sets_mutex, vk_set>>
  BY <1>2 DEF RelinkDesc, At, Goto
<1>4. /\ vk_sets_mutex # t /\ l0.dst \in Descs /\ l0.held = <<>> /\ l0.i = UINT_MAX
      /\ \A o \in Objects : Weight(l0, o) = 0
  BY <1>2, <1>3, Marking DEF MarkPcs
<1>5. l \in Local
  BY <1>2 DEF Local
<1>6. l.pc = "push" /\ l.dst = l0.dst /\ l.held = <<>> /\ l.i = UINT_MAX
  BY <1>2, <1>4 DEF Local
<1> HIDE DEF l
<1>7. LocalFits(t, l, vk_sets_mutex) /\ \A o \in Objects : Weight(l, o) = 0
  BY <1>4, <1>5, <1>6, Marking DEF MarkPcs
<1>8. next' \in [Descs -> 0 .. UINT_MAX] /\ LinksFit'
  BY <1>2, <1>3, <1>4, LocalTypes, Linked
<1>9. dirty_list_head' \in Index
  BY <1>1, <1>3 DEF TypeOK
<1> QED BY <1>2, <1>3, <1>4, <1>5, <1>7, <1>8, <1>9, BaseLinks

LEMMA BaseReplaceObject ==
    ASSUME BaseInv, NEW t \in Threads, ReplaceObject(t)
    PROVE  BaseInv'
<1>1. TypeOK /\ ControlFits /\ LinksFit
  BY DEF BaseInv
<1>2. PICK l0 \in Local : thread[t] = l0 /\ LocalFits(t, l0, vk_sets_mutex)
  BY <1>1 DEF TypeOK, ControlFits
<1>3. /\ l0.pc = "replace"
      /\ UNCHANGED <<next, dirty_list_head, viewVars, writes, vk_sets_mutex, vk_set>>
  BY <1>2 DEF ReplaceObject, At
<1>4. UNCHANGED <<refcount, view_desc_cache, version>>
  BY <1>3 DEF viewVars
<1>5. /\ vk_sets_mutex # t /\ l0.held = <<>> /\ l0.i = UINT_MAX
      /\ l0.view \in Objects \cup {NULL}
  BY <1>2, <1>3 DEF LocalFits, FlushPcs, RefPcs, Local
<1>6. PICK d \in Descs : l0.dst = d
  BY <1>2, <1>3 DEF LocalFits, WritePcs
<1>7. PICK was \in Objects \cup {NULL} : object[d] = was
  BY <1>1 DEF TypeOK
<1> DEFINE l == [l0 EXCEPT !.pc = IF was = NULL THEN "test" ELSE "decref", !.old = was]
<1>8. /\ object' = [object EXCEPT ![d] = l0.view] /\ Go(t, l)
      /\ had' = [had EXCEPT ![d] = IF l0.view = NULL THEN @ ELSE @ \cup {version[l0.view]}]
      /\ writers' = [writers EXCEPT ![d] = @ \cup {t}]
  BY <1>2, <1>6, <1>7 DEF ReplaceObject
<1>9. l \in Local
  BY <1>2, <1>7 DEF Local
<1>10. /\ l.pc = IF was = NULL THEN "test" ELSE "decref"
       /\ l.old = was /\ l.dst = d /\ l.held = <<>> /\ l.i = UINT_MAX
  BY <1>2, <1>5, <1>6 DEF Local
<1> HIDE DEF l
<1>11. LocalFits(t, l, vk_sets_mutex)
  BY <1>5, <1>10, HeapAssumption DEF LocalFits, FlushPcs, RefPcs, WritePcs
<1>12. /\ thread' \in [Threads -> Local] /\ thread'[t] = l
       /\ \A u \in Threads : u # t => thread'[u] = thread[u]
       /\ ControlFits' /\ \A u \in Threads : Bounded(thread'[u])
  BY <1>3, <1>8, <1>9, <1>11, Moved
<1>13. ASSUME NEW o \in Objects
       PROVE  Total(object', thread', o) = Total(object, thread, o)
  <2>1. Weight(thread[t], o) = Is(l0.view = o)
    BY <1>2, <1>3, <1>5, WeightBy, Unbuffered DEF Holding, Is
  <2>2. Weight(thread'[t], o) = Is(was = o)
    BY <1>10, <1>12, WeightBy, Unbuffered, HeapAssumption DEF Holding, Is
  <2>3. /\ Total(object, thread, o) \in Nat
        /\ Total(object, thread', o) =
               Total(object, thread, o) - Is(l0.view = o) + Is(was = o)
    BY <1>12, <2>1, <2>2, AllBounded, ThreadCounted
  <2>4. (\A e \in Descs : e # d => object'[e] = object[e]) /\ object'[d] = l0.view
    BY <1>1, <1>8 DEF TypeOK
  <2>5. /\ Total(object, thread', o) \in Nat
        /\ Total(object', thread', o) =
               Total(object, thread', o) - Is(was = o) + Is(l0.view = o)
    <3>1. /\ Total(object, thread', o) \in Nat
          /\ Total(object', thread', o) =
                 Total(object, thread', o) - (IF object[d] = o THEN 1 ELSE 0)
                 + (IF object'[d] = o THEN 1 ELSE 0)
      BY <2>4, ObjectCounted
    <3> QED BY <1>7, <2>4, <3>1 DEF Is
  <2> QED BY <2>3, <2>5 DEF Is
<1>14. RefcountsExact'
  BY <1>4, <1>13, RefcountsAreExact DEF BaseInv, Exact
<1>15. object' \in [Descs -> Objects \cup {NULL}]
  BY <1>1, <1>5, <1>8 DEF TypeOK
<1>16. writers' \in [Descs -> SUBSET Threads]
  BY <1>1, <1>8 DEF TypeOK
<1>17. had' \in [Descs -> SUBSET (0 .. MaxWrites)]
  <2>1. l0.view # NULL => version[l0.view] \in 0 .. MaxWrites
    BY <1>1, <1>5 DEF TypeOK
  <2>2. CASE l0.view = NULL
    BY <1>1, <1>8, <2>2 DEF TypeOK
  <2>3. CASE l0.view # NULL
    BY <1>1, <1>8, <2>1, <2>3 DEF TypeOK
  <2> QED BY <2>2, <2>3
<1>18. TypeOK'
  BY <1>1, <1>3, <1>4, <1>12, <1>15, <1>16, <1>17 DEF TypeOK
<1>19. LinksFit'
  BY <1>1, <1>3 DEF LinksFit
<1> QED BY <1>12, <1>14, <1>18, <1>19 DEF BaseInv

----------------------------------------------------------------------------
(* Flushing.                                                               *)

\* A thread goes on, and takes or releases the mutex.
LEMMA MovedWithMutex ==
    ASSUME BaseInv, NEW t \in Threads, NEW l \in Local, Go(t, l),
           LocalFits(t, l, vk_sets_mutex'),
           \A u \in Threads : u # t => vk_sets_mutex # u /\ vk_sets_mutex' # u,
           vk_sets_mutex' \in Threads \cup {NULL},
           UNCHANGED <<heapVars, viewVars, historyVars, vk_set>>,
           \A o \in Objects : Weight(l, o) = Weight(thread[t], o)
    PROVE  BaseInv'
<1>1. TypeOK /\ ControlFits /\ LinksFit
  BY DEF BaseInv
<1>2. UNCHANGED <<object, next, dirty_list_head, refcount, view_desc_cache, version, writes,
                  had, writers, vk_set>>
  BY DEF heapVars, viewVars, historyVars
<1>3. /\ thread' \in [Threads -> Local] /\ thread'[t] = l
      /\ \A u \in Threads : u # t => thread'[u] = thread[u]
  BY <1>1 DEF Go, TypeOK
<1>4. ASSUME NEW u \in Threads PROVE LocalFits(u, thread'[u], vk_sets_mutex')
  <2>1. CASE u = t
    BY <1>3, <2>1
  <2>2. CASE u # t
    <3>1. LocalFits(u, thread[u], vk_sets_mutex)
      BY <1>1 DEF ControlFits
    <3>2. thread'[u] = thread[u] /\ vk_sets_mutex # u /\ vk_sets_mutex' # u
      BY <1>3, <2>2
    <3> QED BY <3>1, <3>2 DEF LocalFits
  <2> QED BY <2>1, <2>2
<1>5. \A u \in Threads : Bounded(thread'[u])
  BY <1>3, <1>4 DEF Bounded, LocalFits
<1>6. RefcountsExact'
  BY <1>2, <1>3, <1>5, SameRefs
<1>7. TypeOK'
  BY <1>1, <1>2, <1>3 DEF TypeOK
<1>8. LinksFit'
  BY <1>1, <1>2 DEF LinksFit
<1> QED BY <1>4, <1>6, <1>7, <1>8 DEF BaseInv, ControlFits

LEMMA BaseLockSets ==
    ASSUME BaseInv, NEW t \in Threads, LockSets(t)
    PROVE  BaseInv'
<1>1. TypeOK /\ ControlFits
  BY DEF BaseInv
<1>2. PICK l0 \in Local : thread[t] = l0 /\ LocalFits(t, l0, vk_sets_mutex)
  BY <1>1 DEF TypeOK, ControlFits
<1> DEFINE l == [l0 EXCEPT !.pc = "take"]
<1>3. /\ l0.pc = "lock" /\ vk_sets_mutex = NULL /\ vk_sets_mutex' = t /\ Go(t, l)
      /\ UNCHANGED <<heapVars, viewVars, historyVars, vk_set>>
  BY <1>2 DEF LockSets, At, Goto
<1>4. l0.held = <<>> /\ l0.i = UINT_MAX
  BY <1>2, <1>3, HeapAssumption DEF LocalFits
<1>5. l \in Local
  BY <1>2 DEF Local
<1>6. l.pc = "take" /\ l.held = <<>> /\ l.i = UINT_MAX
  BY <1>2, <1>4 DEF Local
<1> HIDE DEF l
<1>7. LocalFits(t, l, vk_sets_mutex')
  BY <1>3, <1>6, HeapAssumption DEF LocalFits, FlushPcs, RefPcs, WritePcs
<1>8. \A o \in Objects : Weight(l, o) = Weight(thread[t], o)
  BY <1>2, <1>3, <1>4, <1>6, WeightBy DEF Holding
<1>9. \A u \in Threads : u # t => vk_sets_mutex # u /\ vk_sets_mutex' # u
  BY <1>3, HeapAssumption
<1> QED BY <1>3, <1>5, <1>7, <1>8, <1>9, MovedWithMutex

LEMMA BaseUnlockSets ==
    ASSUME BaseInv, NEW t \in Threads, UnlockSets(t)
    PROVE  BaseInv'
<1>1. TypeOK /\ ControlFits
  BY DEF BaseInv
<1>2. PICK l0 \in Local : thread[t] = l0 /\ LocalFits(t, l0, vk_sets_mutex)
  BY <1>1 DEF TypeOK, ControlFits
<1>3. /\ l0.pc = "unlock" /\ vk_sets_mutex' = NULL /\ Go(t, Start)
      /\ UNCHANGED <<heapVars, viewVars, historyVars, vk_set>>
  BY <1>2 DEF UnlockSets, At, Return
<1>4. l0.held = <<>> /\ vk_sets_mutex = t
  BY <1>2, <1>3 DEF LocalFits, FlushPcs
<1>5. vk_sets_mutex' # t /\ LocalFits(t, Start, vk_sets_mutex')
  BY <1>3, StartIsLocal, Marking, HeapAssumption
<1>6. \A o \in Objects : Weight(Start, o) = Weight(thread[t], o)
  BY <1>2, <1>3, <1>4, StartIsLocal, Marking, WeightBy, Unbuffered DEF Holding
<1>7. \A u \in Threads : u # t => vk_sets_mutex # u /\ vk_sets_mutex' # u
  BY <1>3, <1>4, HeapAssumption
<1> QED BY <1>3, <1>5, <1>6, <1>7, StartIsLocal, MovedWithMutex

LEMMA BaseTakeList ==
    ASSUME BaseInv, NEW t \in Threads, TakeList(t)
    PROVE  BaseInv'
<1>1. TypeOK /\ ControlFits
  BY DEF BaseInv
<1>2. PICK l0 \in Local : thread[t] = l0 /\ LocalFits(t, l0, vk_sets_mutex)
  BY <1>1 DEF TypeOK, ControlFits
<1> DEFINE l == [l0 EXCEPT !.pc = "walk", !.i = dirty_list_head]
<1>3. /\ l0.pc = "take" /\ dirty_list_head' = UINT_MAX /\ Go(t, l)
      /\ UNCHANGED <<object, next, viewVars, historyVars, vk_sets_mutex, vk_set>>
  BY <1>2 DEF TakeList, At
<1>4. l0.held = <<>> /\ vk_sets_mutex = t
  BY <1>2, <1>3 DEF LocalFits, FlushPcs
<1>5. dirty_list_head \in Index
  BY <1>1 DEF TypeOK
<1>6. l \in Local
  BY <1>2, <1>5 DEF Local
<1>7. l.pc = "walk" /\ l.held = <<>>
  BY <1>2, <1>4 DEF Local
<1> HIDE DEF l
<1>8. LocalFits(t, l, vk_sets_mutex)
  BY <1>4, <1>7, HeapAssumption DEF LocalFits, FlushPcs, RefPcs, WritePcs
<1>9. \A o \in Objects : Weight(l, o) = Weight(thread[t], o)
  BY <1>2, <1>3, <1>4, <1>7, WeightBy DEF Holding
<1>10. next' \in [Descs -> 0 .. UINT_MAX] /\ LinksFit' /\ dirty_list_head' \in Index
  BY <1>1, <1>3 DEF TypeOK, LinksFit, BaseInv, Index
<1> QED BY <1>3, <1>6, <1>8, <1>9, <1>10, BaseLinks

LEMMA BaseWalkList ==
    ASSUME BaseInv, NEW t \in Threads, WalkList(t)
    PROVE  BaseInv'
<1>1. TypeOK /\ ControlFits /\ LinksFit
  BY DEF BaseInv
<1>2. PICK l0 \in Local : thread[t] = l0 /\ LocalFits(t, l0, vk_sets_mutex)
  BY <1>1 DEF TypeOK, ControlFits
<1>3. l0.pc = "walk" /\ l0.i # UINT_MAX
      /\ UNCHANGED <<object, dirty_list_head, viewVars, historyVars, vk_sets_mutex, vk_set>>
  BY <1>2 DEF WalkList, At
<1>4. PICK d \in Descs : l0.i = d
  BY <1>2, <1>3 DEF Local, Index
<1>5. PICK i \in Index : Decode(next[d]) = i
  <2>1. CASE next[d] = 0
    <3>1. NumDescs # 0
      BY HeapAssumption DEF Descs
    <3> QED BY <2>1, <3>1, EmptyLink
  <2>2. CASE \E j \in Index : next[d] = Encode(j)
    BY <2>2, Encoding
  <2> QED BY <1>1, <2>1, <2>2 DEF LinksFit
<1> DEFINE l == [l0 EXCEPT !.pc = "read", !.src = d, !.i = i]
<1>6. Go(t, l) /\ next' = [next EXCEPT ![d] = 0]
  BY <1>2, <1>4, <1>5 DEF WalkList
<1>7. l \in Local
  BY <1>2 DEF Local
<1>8. l.pc = "read" /\ l.src = d /\ l.i = i /\ l.held = l0.held
  BY <1>2 DEF Local
<1>9. vk_sets_mutex = t /\ Len(l0.held) < WriteBufferSize /\ Len(l0.held) < WriteBufferSize - 1
  BY <1>2, <1>3 DEF LocalFits, FlushPcs
<1> HIDE DEF l
<1>10. LocalFits(t, l, vk_sets_mutex)
  BY <1>8, <1>9 DEF LocalFits, FlushPcs, RefPcs, WritePcs
<1>11. \A o \in Objects : Weight(l, o) = Weight(thread[t], o)
  BY <1>2, <1>3, <1>8, WeightBy DEF Holding
<1>12. next' \in [Descs -> 0 .. UINT_MAX] /\ LinksFit' /\ dirty_list_head' \in Index
  BY <1>1, <1>3, <1>6, Encoding DEF TypeOK, LinksFit, Index
<1> QED BY <1>3, <1>6, <1>7, <1>10, <1>11, <1>12, BaseLinks

LEMMA BaseEndOfList ==
    ASSUME BaseInv, NEW t \in Threads, EndOfList(t)
    PROVE  BaseInv'
<1>1. TypeOK /\ ControlFits
  BY DEF BaseInv
<1>2. PICK l0 \in Local : thread[t] = l0 /\ LocalFits(t, l0, vk_sets_mutex)
  BY <1>1 DEF TypeOK, ControlFits
<1> DEFINE l == [l0 EXCEPT !.pc = IF l0.held = <<>> THEN "unlock" ELSE "update"]
<1>3. /\ l0.pc = "walk" /\ l0.i = UINT_MAX /\ Go(t, l)
      /\ UNCHANGED <<heapVars, viewVars, historyVars, vk_sets_mutex, vk_set>>
  BY <1>2 DEF EndOfList, At, Goto
<1>4. l \in Local
  BY <1>2 DEF Local
<1>5. /\ l.pc = IF l0.held = <<>> THEN "unlock" ELSE "update"
      /\ l.held = l0.held /\ l.i = l0.i
  BY <1>2 DEF Local
<1>6. vk_sets_mutex = t /\ Len(l0.held) < WriteBufferSize
  BY <1>2, <1>3 DEF LocalFits, FlushPcs
<1> HIDE DEF l
<1>7. LocalFits(t, l, vk_sets_mutex)
  BY <1>3, <1>5, <1>6 DEF LocalFits, FlushPcs, RefPcs, WritePcs
<1>8. \A o \in Objects : Weight(l, o) = Weight(thread[t], o)
  BY <1>2, <1>3, <1>5, WeightBy DEF Holding
<1> QED BY <1>3, <1>4, <1>7, <1>8, BaseMoves

\* A set of natural numbers has a least element.
LEMMA Least ==
    ASSUME NEW S \in SUBSET Nat, S # {}
    PROVE  \E x \in S : \A y \in S : x <= y
<1> DEFINE R == {p \in Nat \X Nat : p[1] < p[2]}
<1>1. IsWellFoundedOn(R, Nat)
  BY NatLessThanWellFounded DEF OpToRel
<1>2. PICK x \in S : \A y \in S : <<y, x>> \notin R
  BY <1>1, WFMin
<1>3. \A y \in S : y \in Nat /\ x \in Nat /\ ~ y < x
  BY <1>2
<1> QED BY <1>3

\* The last buffered write to a descriptor.
LastFor(held, d) == Max({n \in DOMAIN held : held[n].desc = d})

LEMMA LastWrite ==
    ASSUME NEW held \in Seq(Write), NEW d, NEW w \in ToSet(held), w.desc = d
    PROVE  /\ LastFor(held, d) \in DOMAIN held /\ held[LastFor(held, d)] \in Write
           /\ held[LastFor(held, d)].desc = d
           /\ \A n \in DOMAIN held : held[n].desc = d => n <= LastFor(held, d)
<1> DEFINE S == {n \in DOMAIN held : held[n].desc = d}
<1>1. PICK m \in Nat : Len(held) = m /\ DOMAIN held = 1 .. m
  BY LenProperties
<1>2. S # {} /\ S \subseteq 1 .. m
  BY <1>1 DEF ToSet
<1>3. PICK x \in {m - n : n \in S} : \A y \in {m - n : n \in S} : x <= y
  <2>1. {m - n : n \in S} \in SUBSET Nat /\ {m - n : n \in S} # {}
    BY <1>2
  <2> QED BY <2>1, Least
<1>4. PICK k \in S : x = m - k
  BY <1>3
<1>5. \A n \in S : k >= n
  <2> SUFFICES ASSUME NEW n \in S PROVE k >= n
    OBVIOUS
  <2>1. x <= m - n /\ n \in Nat /\ k \in Nat
    BY <1>2, <1>3
  <2> QED BY <1>1, <1>4, <2>1
<1>6. Max(S) \in S /\ \A n \in S : Max(S) >= n
  BY <1>5 DEF Max
<1> QED BY <1>1, <1>2, <1>6 DEF LastFor

Has(held, d) == \E w \in ToSet(held) : w.desc = d
LastOf(held, d) == held[LastFor(held, d)]

\* The last write to each descriptor when one more is buffered.
LEMMA LastOfAppend ==
    ASSUME NEW held \in Seq(Write), NEW w \in Write, NEW d
    PROVE  /\ d = w.desc => Has(Append(held, w), d) /\ LastOf(Append(held, w), d) = w
           /\ d # w.desc => /\ Has(Append(held, w), d) <=> Has(held, d)
                            /\ Has(held, d) => LastOf(Append(held, w), d) = LastOf(held, d)
<1>1. PICK n \in Nat : Len(held) = n /\ DOMAIN held = 1 .. n
  BY LenProperties
<1>2. PICK h \in Seq(Write) : h = Append(held, w)
  BY AppendProperties
<1>3. DOMAIN h = 1 .. n + 1 /\ h[n + 1] = w /\ \A k \in 1 .. n : h[k] = held[k]
  BY <1>1, <1>2, AppendProperties, LenProperties
<1>4. ASSUME d = w.desc
      PROVE  (\E x \in ToSet(h) : x.desc = d) /\ h[LastFor(h, d)] = w
  <2>1. w \in ToSet(h) /\ n + 1 \in DOMAIN h
    BY <1>3 DEF ToSet
  <2>2. LastFor(h, d) \in 1 .. n + 1 /\ n + 1 <= LastFor(h, d)
    BY <1>3, <1>4, <2>1, LastWrite
  <2> QED BY <1>3, <1>4, <2>1, <2>2
<1>5. ASSUME d # w.desc
      PROVE  {k \in DOMAIN h : h[k].desc = d} = {k \in DOMAIN held : held[k].desc = d}
  BY <1>1, <1>3, <1>5
<1>6. ASSUME d # w.desc
      PROVE  (\E x \in ToSet(h) : x.desc = d) <=> (\E x \in ToSet(held) : x.desc = d)
  BY <1>5, <1>6, <1>1, <1>3 DEF ToSet
<1>7. ASSUME d # w.desc, NEW x \in ToSet(held), x.desc = d
      PROVE  h[LastFor(h, d)] = held[LastFor(held, d)]
  <2>1. LastFor(h, d) = LastFor(held, d)
    BY <1>5, <1>7 DEF LastFor
  <2>2. LastFor(held, d) \in 1 .. n
    BY <1>1, <1>7, LastWrite
  <2> QED BY <1>3, <2>1, <2>2
<1> QED BY <1>2, <1>4, <1>6, <1>7 DEF Has, LastOf

LEMMA BaseUpdateSets ==
    ASSUME BaseInv, NEW t \in Threads, UpdateSets(t)
    PROVE  BaseInv'
<1>1. TypeOK /\ ControlFits /\ LinksFit
  BY DEF BaseInv
<1>2. PICK l0 \in Local : thread[t] = l0 /\ LocalFits(t, l0, vk_sets_mutex)
  BY <1>1 DEF TypeOK, ControlFits
<1> DEFINE l == [l0 EXCEPT !.pc = "free"]
<1>3. /\ l0.pc = "update" /\ Go(t, l)
      /\ UNCHANGED <<heapVars, viewVars, historyVars, vk_sets_mutex>>
      /\ vk_set' = [d \in Descs |->
             IF \E w \in ToSet(l0.held) : w.desc = d
             THEN version[l0.held[LastFor(l0.held, d)].view] ELSE vk_set[d]]
  BY <1>2 DEF UpdateSets, At, Goto, LastFor
<1>4. UNCHANGED <<object, next, dirty_list_head, refcount, view_desc_cache, version, writes,
                  had, writers, vk_sets_mutex>>
  BY <1>3 DEF heapVars, viewVars, historyVars
<1>5. l \in Local /\ l0.held \in Seq(Write)
  BY <1>2 DEF Local, Write
<1>6. l.pc = "free" /\ l.held = l0.held
  BY <1>2 DEF Local
<1>7. vk_sets_mutex = t /\ l0.held # <<>> /\ Len(l0.held) < WriteBufferSize
  BY <1>2, <1>3 DEF LocalFits, FlushPcs
<1> HIDE DEF l
<1>8. LocalFits(t, l, vk_sets_mutex)
  BY <1>6, <1>7 DEF LocalFits, FlushPcs, RefPcs, WritePcs
<1>9. \A o \in Objects : Weight(l, o) = Weight(thread[t], o)
  BY <1>2, <1>3, <1>6, WeightBy DEF Holding
<1>10. /\ thread' \in [Threads -> Local] /\ thread'[t] = l
       /\ \A u \in Threads : u # t => thread'[u] = thread[u]
       /\ ControlFits' /\ \A u \in Threads : Bounded(thread'[u])
  BY <1>3, <1>4, <1>5, <1>8, Moved
<1>11. RefcountsExact'
  BY <1>4, <1>9, <1>10, SameRefs
<1>12. vk_set' \in [Descs -> 0 .. MaxWrites]
  <2>1. ASSUME NEW d \in Descs PROVE vk_set'[d] \in 0 .. MaxWrites
    <3>1. CASE \E w \in ToSet(l0.held) : w.desc = d
      <4>1. l0.held[LastFor(l0.held, d)].view \in Objects
        BY <1>5, <3>1, LastWrite DEF Write
      <4> QED BY <1>1, <1>3, <3>1, <4>1 DEF TypeOK
    <3>2. CASE ~ \E w \in ToSet(l0.held) : w.desc = d
      BY <1>1, <1>3, <3>2 DEF TypeOK
    <3> QED BY <3>1, <3>2
  <2> QED BY <1>3, <2>1
<1>13. TypeOK'
  BY <1>1, <1>4, <1>10, <1>12 DEF TypeOK
<1>14. LinksFit'
  BY <1>1, <1>4 DEF LinksFit
<1> QED BY <1>10, <1>11, <1>13, <1>14 DEF BaseInv

LEMMA BaseFreeRef ==
    ASSUME BaseInv, NEW t \in Threads, FreeRef(t)
    PROVE  BaseInv'
<1>1. TypeOK /\ ControlFits
  BY DEF BaseInv
<1>2. PICK l0 \in Local : thread[t] = l0 /\ LocalFits(t, l0, vk_sets_mutex)
  BY <1>1 DEF TypeOK, ControlFits
<1>3. /\ l0.pc = "free" /\ DecRef(Head(l0.held).view)
      /\ UNCHANGED <<heapVars, version, historyVars, vk_sets_mutex, vk_set>>
  BY <1>2 DEF FreeRef, At
<1>4. PICK held \in Seq(Write) : l0.held = held
  BY <1>2 DEF Local, Write
<1>5. vk_sets_mutex = t /\ held # <<>> /\ Len(held) < WriteBufferSize
  BY <1>2, <1>3, <1>4 DEF LocalFits, FlushPcs
<1>6. PICK left \in Seq(Write), o \in Objects : Tail(held) = left /\ Head(held).view = o
  BY <1>4, <1>5, PlacesOfTail DEF Write
<1> DEFINE l == [l0 EXCEPT !.pc = IF left = <<>> THEN "walk" ELSE "free", !.held = left]
<1>7. Go(t, l) /\ DecRef(o)
  BY <1>2, <1>3, <1>4, <1>6 DEF FreeRef
<1>8. l \in Local
  BY <1>2, <1>4, <1>6 DEF Local, Write
<1>9. l.pc = (IF left = <<>> THEN "walk" ELSE "free") /\ l.held = left
  BY <1>2 DEF Local
<1> HIDE DEF l
<1>10. Len(left) < Len(held) /\ \A p : Cardinality(Places(held, p)) \in Nat
  BY <1>4, <1>5, <1>6, PlacesOfTail
<1>11. Len(left) < WriteBufferSize /\ Len(left) < WriteBufferSize - 1
  <2>1. PICK m, n \in Nat : Len(left) = m /\ Len(held) = n
    BY <1>4, <1>6
  <2> QED BY <1>5, <1>10, <2>1, HeapAssumption
<1>12. LocalFits(t, l, vk_sets_mutex)
  BY <1>5, <1>9, <1>11 DEF LocalFits, FlushPcs, RefPcs, WritePcs
<1>13. ASSUME NEW p \in Objects PROVE Weight(l, p) = Weight(thread[t], p) - Is(p = o)
  <2>1. Cardinality(Places(left, p)) = Cardinality(Places(held, p)) - Is(Head(held).view = p)
    BY <1>4, <1>5, <1>6, PlacesOfTail
  <2>2. Weight(l, p) = Cardinality(Places(left, p))
    <3>1. Cardinality(Places(left, p)) \in Nat
      BY <1>8, <1>9, <1>11, PlacesFinite DEF Bounded
    <3> QED BY <1>9, <3>1, WeightBy DEF Holding
  <2>3. Weight(thread[t], p) = Cardinality(Places(held, p))
    BY <1>2, <1>3, <1>4, <1>10, WeightBy DEF Holding
  <2> QED BY <1>6, <2>1, <2>2, <2>3 DEF Is
<1> QED BY <1>3, <1>7, <1>8, <1>12, <1>13, BaseDrops

----------------------------------------------------------------------------
(* The theorems.                                                           *)

LEMMA BaseInit == Init => BaseInv
<1> SUFFICES ASSUME Init PROVE BaseInv
  OBVIOUS
<1>1. QuarterRange \in Nat \ {0} /\ 0 \in 0 .. UINT_MAX
  BY HeapAssumption DEF UINT_MAX
<1>2. 0 \in 0 .. MaxWrites /\ MaxWrites \in Nat
  BY HeapAssumption
<1>3. TypeOK
  BY <1>1, <1>2, StartIsLocal DEF Init, TypeOK, Index
<1>4. ControlFits
  <2> SUFFICES ASSUME NEW t \in Threads PROVE LocalFits(t, Start, NULL)
    BY DEF Init, ControlFits
  <2>1. NULL # t
    BY HeapAssumption
  <2> QED BY <2>1, StartIsLocal, Marking
<1>5. LinksFit
  BY DEF Init, LinksFit
<1>6. ASSUME NEW o \in Objects PROVE Total(object, thread, o) = 0
  <2>1. DescsOf(object, o) = {}
    BY HeapAssumption DEF Init, DescsOf
  <2>2. Takers(thread, o) = {} /\ Losers(thread, o) = {} /\ Buffered(thread, o) = {}
    BY DEF Init, Start, Takers, Losers, Buffered, Holding
  <2> QED BY <2>1, <2>2, FS_EmptySet DEF Total
<1>7. RefcountsExact
  BY <1>6, RefcountsAreExact DEF Exact, Init
<1> QED BY <1>3, <1>4, <1>5, <1>7 DEF BaseInv

LEMMA BaseStutter ==
    ASSUME BaseInv, UNCHANGED vars
    PROVE  BaseInv'
<1>1. TypeOK'
  BY DEF BaseInv, TypeOK, vars, heapVars, viewVars, historyVars
<1>2. ControlFits' /\ LinksFit'
  BY DEF BaseInv, ControlFits, LinksFit, vars, heapVars
<1>3. RefcountsExact'
  BY RefcountsAreExact DEF BaseInv, vars, heapVars, viewVars
<1> QED BY <1>1, <1>2, <1>3 DEF BaseInv

LEMMA BaseNext == BaseInv /\ [Next]_vars => BaseInv'
<1> SUFFICES ASSUME BaseInv, [Next]_vars PROVE BaseInv'
  OBVIOUS
<1>1. CASE UNCHANGED vars
  BY <1>1, BaseStutter
<1>2. ASSUME NEW t \in Threads, Call(t) PROVE BaseInv'
  BY <1>2, BaseCreateView, BaseCopyDescriptor, BaseFlushHeap DEF Call
<1>3. ASSUME NEW t \in Threads, Step(t) PROVE BaseInv'
  <2>1. CASE ReadObject(t) \/ IncRef(t) \/ CheckObject(t) \/ UndoRef(t)
    BY <2>1, BaseReadObject, BaseIncRef, BaseCheckObject, BaseUndoRef
  <2>2. CASE ReplaceObject(t) \/ DecRefOld(t) \/ TestNext(t)
    BY <2>2, BaseReplaceObject, BaseDecRefOld, BaseTestNext
  <2>3. CASE ReadHead(t) \/ MarkDesc(t) \/ PushDesc(t) \/ RelinkDesc(t)
    BY <2>3, BaseReadHead, BaseMarkDesc, BasePushDesc, BaseRelinkDesc
  <2>4. CASE LockSets(t) \/ TakeList(t) \/ WalkList(t) \/ EndOfList(t)
    BY <2>4, BaseLockSets, BaseTakeList, BaseWalkList, BaseEndOfList
  <2>5. CASE UpdateSets(t) \/ FreeRef(t) \/ UnlockSets(t)
    BY <2>5, BaseUpdateSets, BaseFreeRef, BaseUnlockSets
  <2> QED BY <1>3, <2>1, <2>2, <2>3, <2>4, <2>5 DEF Step
<1> QED BY <1>1, <1>2, <1>3 DEF Next

\* The variables of a heap and of the threads keep their types: no index, link or
\* buffered write leaves its range, and a buffer never overflows.
THEOREM HeapTypeCorrect == Spec => []TypeOK
<1>1. BaseInv => TypeOK
  BY DEF BaseInv
<1> QED BY <1>1, BaseInit, BaseNext, PTL DEF Spec

\* vkd3d_view_incref() and vkd3d_view_decref(), for any number of threads that
\* write, copy and flush the same descriptors: the count of a view is the number
\* of descriptors, threads and buffered writes that refer to it, and only a view
\* that nothing refers to is in the cache and can be reused.
THEOREM NoViewFreedUnderUse == Spec => []RefcountsExact
<1>1. BaseInv => RefcountsExact
  BY DEF BaseInv
<1> QED BY <1>1, BaseInit, BaseNext, PTL DEF Spec

----------------------------------------------------------------------------
(* What Vulkan is told was in the descriptor.                              *)

\* What a buffer holds, a descriptor has, or Vulkan shows, the descriptor had.
HeldWasThere(held, ver, hd) == \A k \in DOMAIN held : ver[held[k].view] \in hd[held[k].desc]

ShownInv ==
    /\ WrittenWasThere
    /\ \A d \in Descs : object[d] # NULL => version[object[d]] \in had[d]
    /\ \A t \in Threads : HeldWasThere(thread[t].held, version, had)

\* A view in the cache is in no descriptor and in no buffer.
LEMMA Unused ==
    ASSUME BaseInv, NEW o \in view_desc_cache
    PROVE  /\ o \in Objects
           /\ \A d \in Descs : object[d] # o
           /\ \A t \in Threads : \A k \in DOMAIN thread[t].held : thread[t].held[k].view # o
<1>1. o \in Objects /\ refcount[o] = 0
  BY RefcountsAreExact DEF BaseInv, TypeOK, Exact
<1>2. Total(object, thread, o) = 0
  BY <1>1, RefcountsAreExact DEF BaseInv, Exact
<1>3. PICK a, b, c, e \in Nat :
          /\ Cardinality(DescsOf(object, o)) = a /\ Cardinality(Takers(thread, o)) = b
          /\ Cardinality(Losers(thread, o)) = c /\ Cardinality(Buffered(thread, o)) = e
  BY HoldersFinite, Zenon
<1>4. a = 0 /\ e = 0
  BY <1>2, <1>3 DEF Total
<1>5. DescsOf(object, o) = {} /\ Buffered(thread, o) = {}
  BY <1>3, <1>4, HoldersFinite, FS_EmptySet
<1>6. ASSUME NEW t \in Threads, NEW k \in DOMAIN thread[t].held
      PROVE  thread[t].held[k].view # o
  <2>1. Bounded(thread[t])
    BY AllBounded
  <2>2. Places(thread[t].held, o) \subseteq 1 .. WriteBufferSize
    BY <2>1, PlacesFinite
  <2>3. thread[t].held[k].view = o => k \in 1 .. WriteBufferSize
    BY <2>2 DEF Places
  <2>4. <<t, k>> \notin Buffered(thread, o)
    BY <1>5
  <2> QED BY <2>3, <2>4 DEF Buffered
<1> QED BY <1>1, <1>5, <1>6 DEF DescsOf

\* What a step of one thread leaves alone.
LEMMA Stepped ==
    ASSUME BaseInv, NEW t \in Threads, NEW l, Go(t, l)
    PROVE  thread'[t] = l /\ \A u \in Threads : u # t => thread'[u] = thread[u]
BY DEF BaseInv, TypeOK, Go

\* A step that buffers nothing and changes no descriptor and no view.
LEMMA ShownKept ==
    ASSUME BaseInv, ShownInv, NEW t \in Threads, NEW l, Go(t, l),
           l.held = thread[t].held \/ l.held = <<>>,
           UNCHANGED <<object, version, had, vk_set>>
    PROVE  ShownInv'
<1>1. thread'[t] = l /\ \A u \in Threads : u # t => thread'[u] = thread[u]
  BY Stepped
<1>2. HeldWasThere(l.held, version, had)
  <2>1. CASE l.held = thread[t].held
    BY <2>1 DEF ShownInv
  <2>2. CASE l.held = <<>>
    BY <2>2 DEF HeldWasThere
  <2> QED BY <2>1, <2>2
<1>3. ASSUME NEW u \in Threads PROVE HeldWasThere(thread'[u].held, version', had')
  <2>1. CASE u = t
    BY <1>1, <1>2, <2>1
  <2>2. CASE u # t
    BY <1>1, <2>2 DEF ShownInv
  <2> QED BY <2>1, <2>2
<1>4. WrittenWasThere' /\ \A d \in Descs : object'[d] # NULL => version'[object'[d]] \in had'[d]
  BY DEF ShownInv, WrittenWasThere
<1> QED BY <1>3, <1>4 DEF ShownInv

LEMMA ShownQuiet ==
    ASSUME BaseInv, ShownInv, NEW t \in Threads,
           \/ FlushHeap(t) \/ IncRef(t) \/ UndoRef(t) \/ DecRefOld(t)
           \/ TestNext(t) \/ ReadHead(t) \/ MarkDesc(t) \/ PushDesc(t) \/ RelinkDesc(t)
           \/ LockSets(t) \/ TakeList(t) \/ WalkList(t) \/ EndOfList(t) \/ UnlockSets(t)
    PROVE  ShownInv'
<1>1. PICK l0 \in Local : thread[t] = l0
  BY DEF BaseInv, TypeOK
<1>2. Start.held = <<>>
  BY DEF Start
<1>3. UNCHANGED <<object, version, had, vk_set>>
  BY DEF FlushHeap, IncRef, UndoRef, DecRefOld, TestNext, ReadHead, MarkDesc, PushDesc,
         RelinkDesc, LockSets, TakeList, WalkList, EndOfList, UnlockSets,
         heapVars, viewVars, historyVars
<1>4. CASE FlushHeap(t) \/ IncRef(t) \/ UndoRef(t) \/ DecRefOld(t)
  <2>1. PICK l \in {[l0 EXCEPT !.pc = "lock"], [l0 EXCEPT !.pc = "check"],
                    [l0 EXCEPT !.pc = "read", !.view = NULL],
                    [l0 EXCEPT !.pc = "test", !.old = NULL]} : Go(t, l)
    BY <1>1, <1>4 DEF FlushHeap, IncRef, UndoRef, DecRefOld, Goto
  <2>2. l.held = l0.held
    BY <2>1 DEF Local
  <2> QED BY <1>1, <1>3, <2>1, <2>2, ShownKept
<1>5. CASE TestNext(t) \/ ReadHead(t) \/ MarkDesc(t) \/ PushDesc(t) \/ RelinkDesc(t)
  <2>1. PICK l \in {Start, [l0 EXCEPT !.pc = "head", !.view = NULL],
                    [l0 EXCEPT !.pc = "mark", !.head = dirty_list_head],
                    [l0 EXCEPT !.pc = "push"],
                    [l0 EXCEPT !.pc = "relink", !.head = dirty_list_head]} : Go(t, l)
    BY <1>1, <1>5 DEF TestNext, ReadHead, MarkDesc, PushDesc, RelinkDesc, Goto, Return
  <2>2. l.held = l0.held \/ l.held = <<>>
    BY <1>2, <2>1 DEF Local
  <2> QED BY <1>1, <1>3, <2>1, <2>2, ShownKept
<1>6. CASE LockSets(t) \/ TakeList(t) \/ WalkList(t) \/ EndOfList(t) \/ UnlockSets(t)
  <2>1. PICK l \in {Start, [l0 EXCEPT !.pc = "take"],
                    [l0 EXCEPT !.pc = "walk", !.i = dirty_list_head],
                    [l0 EXCEPT !.pc = "read", !.src = l0.i, !.i = Decode(next[l0.i])],
                    [l0 EXCEPT !.pc = IF l0.held = <<>> THEN "unlock" ELSE "update"]} : Go(t, l)
    BY <1>1, <1>6 DEF LockSets, TakeList, WalkList, EndOfList, UnlockSets, Goto, Return
  <2>2. l.held = l0.held \/ l.held = <<>>
    BY <1>2, <2>1 DEF Local
  <2> QED BY <1>1, <1>3, <2>1, <2>2, ShownKept
<1> QED BY <1>4, <1>5, <1>6

LEMMA ShownCreateView ==
    ASSUME BaseInv, ShownInv, NEW t \in Threads, NEW d \in Descs, CreateView(t, d)
    PROVE  ShownInv'
<1>1. UNCHANGED <<object, vk_set, had>>
  BY DEF CreateView, heapVars
<1>2. Start \in Local /\ Start.held = <<>>
  BY StartIsLocal DEF Start
<1>3. CASE UNCHANGED version
  <2>1. \/ Go(t, [Start EXCEPT !.pc = "replace", !.dst = d])
        \/ \E o : Go(t, [Start EXCEPT !.pc = "replace", !.dst = d, !.view = o])
    BY DEF CreateView
  <2>2. /\ [Start EXCEPT !.pc = "replace", !.dst = d].held = <<>>
        /\ \A o : [Start EXCEPT !.pc = "replace", !.dst = d, !.view = o].held = <<>>
    BY <1>2 DEF Local
  <2> QED BY <1>1, <1>3, <2>1, <2>2, ShownKept
<1>4. ASSUME NEW o \in view_desc_cache, version' = [version EXCEPT ![o] = writes + 1],
             Go(t, [Start EXCEPT !.pc = "replace", !.dst = d, !.view = o])
      PROVE  ShownInv'
  <2> DEFINE l == [Start EXCEPT !.pc = "replace", !.dst = d, !.view = o]
  <2>1. l.held = <<>>
    BY <1>2 DEF Local
  <2>2. thread'[t] = l /\ \A u \in Threads : u # t => thread'[u] = thread[u]
    BY <1>4, Stepped
  <2>3. \A p : p # o => version'[p] = version[p]
    BY <1>4 DEF BaseInv, TypeOK
  <2> HIDE DEF l
  <2>4. \A e \in Descs : object'[e] # NULL => version'[object'[e]] \in had'[e]
    BY <1>1, <2>3, Unused DEF ShownInv
  <2>5. ASSUME NEW u \in Threads PROVE HeldWasThere(thread'[u].held, version', had')
    <3>1. CASE u = t
      BY <2>1, <2>2, <3>1 DEF HeldWasThere
    <3>2. CASE u # t
      <4>1. thread'[u] = thread[u] /\ HeldWasThere(thread[u].held, version, had)
        BY <2>2, <3>2 DEF ShownInv
      <4> QED BY <1>1, <2>3, <4>1, Unused DEF HeldWasThere
    <3> QED BY <3>1, <3>2
  <2>6. WrittenWasThere'
    BY <1>1 DEF ShownInv, WrittenWasThere
  <2> QED BY <2>4, <2>5, <2>6 DEF ShownInv
<1> QED BY <1>3, <1>4 DEF CreateView, viewVars

LEMMA ShownCopyDescriptor ==
    ASSUME BaseInv, ShownInv, NEW t \in Threads, NEW d \in Descs, NEW s \in Descs,
           CopyDescriptor(t, d, s)
    PROVE  ShownInv'
<1>1. UNCHANGED <<object, version, had, vk_set>>
  BY DEF CopyDescriptor, heapVars, viewVars
<1> DEFINE l == [Start EXCEPT !.pc = "read", !.dst = d, !.src = s]
<1>2. Go(t, l) /\ l.held = <<>>
  BY DEF CopyDescriptor, Start
<1> HIDE DEF l
<1> QED BY <1>1, <1>2, ShownKept

\* A flush buffers only a view that it has just seen in the descriptor.
LEMMA ShownGotRef ==
    ASSUME BaseInv, ShownInv, NEW t \in Threads, thread[t].pc \in {"read", "check"},
           NEW view, view = object[thread[t].src], GotRef(t, view),
           UNCHANGED <<object, version, had, vk_set>>
    PROVE  ShownInv'
<1>1. PICK l0 \in Local : thread[t] = l0 /\ LocalFits(t, l0, vk_sets_mutex)
  BY DEF BaseInv, TypeOK, ControlFits
<1>2. l0.src \in Descs /\ l0.held \in Seq(Write) /\ view \in Objects \cup {NULL}
  BY <1>1 DEF LocalFits, RefPcs, Local, Write, BaseInv, TypeOK
<1>3. CASE ~Flushing(t) \/ view = NULL
  <2>1. PICK l \in {[l0 EXCEPT !.pc = "replace", !.view = view], [l0 EXCEPT !.pc = "walk"]} :
            Go(t, l)
    BY <1>1, <1>3 DEF GotRef, Goto
  <2>2. l.held = l0.held
    BY <2>1 DEF Local
  <2> QED BY <1>1, <2>1, <2>2, ShownKept
<1>4. CASE Flushing(t) /\ view # NULL
  <2> DEFINE w == [desc |-> l0.src, view |-> view]
  <2>1. w \in Write
    BY <1>2, <1>4 DEF Write
  <2> DEFINE full == Len(l0.held) + 1 >= WriteBufferSize - 1
             l == [l0 EXCEPT !.pc = IF full THEN "update" ELSE "walk", !.view = NULL,
                             !.held = Append(@, w)]
  <2>2. Go(t, l) /\ l.held = Append(l0.held, w)
    <3>1. Go(t, l)
      BY <1>1, <1>4 DEF GotRef
    <3>2. l.held = Append(l0.held, w)
      BY DEF Local
    <3> QED BY <3>1, <3>2
  <2>3. PICK n \in Nat : Len(l0.held) = n /\ DOMAIN l0.held = 1 .. n
    BY <1>2, LenProperties
  <2>4. PICK h \in Seq(Write) : h = Append(l0.held, w)
    BY <1>2, <2>1, AppendProperties
  <2>5. /\ DOMAIN h = 1 .. n + 1 /\ h[n + 1] = w
        /\ \A k \in 1 .. n : h[k] = l0.held[k]
    BY <1>2, <2>1, <2>3, <2>4, AppendProperties, LenProperties
  <2>6. version[w.view] \in had[w.desc]
    BY <1>1, <1>2, <1>4 DEF ShownInv
  <2>7. HeldWasThere(l0.held, version, had)
    BY <1>1 DEF ShownInv
  <2> HIDE DEF w, l
  <2>8. HeldWasThere(h, version, had)
    <3> SUFFICES ASSUME NEW k \in 1 .. n + 1 PROVE version[h[k].view] \in had[h[k].desc]
      BY <2>5 DEF HeldWasThere
    <3>1. CASE k = n + 1
      BY <2>5, <2>6, <3>1
    <3>2. CASE k \in 1 .. n
      BY <2>3, <2>5, <2>7, <3>2 DEF HeldWasThere
    <3> QED BY <3>1, <3>2
  <2>9. thread'[t] = l /\ \A u \in Threads : u # t => thread'[u] = thread[u]
    BY <2>2, Stepped
  <2>10. ASSUME NEW u \in Threads PROVE HeldWasThere(thread'[u].held, version', had')
    <3>1. CASE u = t
      BY <2>2, <2>4, <2>8, <2>9, <3>1
    <3>2. CASE u # t
      BY <2>9, <3>2 DEF ShownInv
    <3> QED BY <3>1, <3>2
  <2> QED BY <2>10 DEF ShownInv, WrittenWasThere
<1> QED BY <1>3, <1>4

LEMMA ShownReads ==
    ASSUME BaseInv, ShownInv, NEW t \in Threads, ReadObject(t) \/ CheckObject(t)
    PROVE  ShownInv'
<1>1. UNCHANGED <<object, version, had, vk_set>>
  BY DEF ReadObject, CheckObject, heapVars, viewVars, historyVars
<1>2. PICK l0 \in Local : thread[t] = l0
  BY DEF BaseInv, TypeOK
<1>3. CASE \E view : view = object[l0.src] /\ GotRef(t, view)
  BY <1>1, <1>2, <1>3, ShownGotRef DEF ReadObject, CheckObject, At
<1>4. CASE ~ \E view : view = object[l0.src] /\ GotRef(t, view)
  <2>1. PICK l \in {[l0 EXCEPT !.pc = "incref", !.view = object[l0.src]],
                    [l0 EXCEPT !.pc = "undo"]} : Go(t, l)
    BY <1>2, <1>4 DEF ReadObject, CheckObject, Goto
  <2>2. l.held = l0.held
    BY <2>1 DEF Local
  <2> QED BY <1>1, <1>2, <2>1, <2>2, ShownKept
<1> QED BY <1>3, <1>4

LEMMA ShownReplaceObject ==
    ASSUME BaseInv, ShownInv, NEW t \in Threads, ReplaceObject(t)
    PROVE  ShownInv'
<1>1. PICK l0 \in Local : thread[t] = l0 /\ LocalFits(t, l0, vk_sets_mutex)
  BY DEF BaseInv, TypeOK, ControlFits
<1>2. PICK d \in Descs : l0.dst = d
  BY <1>1 DEF LocalFits, ReplaceObject, At, WritePcs
<1>3. /\ object' = [object EXCEPT ![d] = l0.view]
      /\ had' = [had EXCEPT ![d] = IF l0.view = NULL THEN @ ELSE @ \cup {version[l0.view]}]
      /\ UNCHANGED <<version, vk_set>>
  BY <1>1, <1>2 DEF ReplaceObject, viewVars
<1>4. object \in [Descs -> Objects \cup {NULL}] /\ had \in [Descs -> SUBSET (0 .. MaxWrites)]
  BY DEF BaseInv, TypeOK
<1>5. /\ had'[d] = IF l0.view = NULL THEN had[d] ELSE had[d] \cup {version[l0.view]}
      /\ \A e \in Descs : e # d => had'[e] = had[e] /\ object'[e] = object[e]
      /\ object'[d] = l0.view
  BY <1>3, <1>4
<1>6. \A e \in Descs : \A x \in had[e] : x \in had'[e]
  BY <1>5
<1>7. /\ \A u \in Threads : u # t => thread'[u] = thread[u]
      /\ thread'[t].held = l0.held
  <2> DEFINE l == [l0 EXCEPT !.pc = IF object[d] = NULL THEN "test" ELSE "decref",
                             !.old = object[d]]
  <2>1. Go(t, l)
    BY <1>1, <1>2 DEF ReplaceObject
  <2>2. l.held = l0.held
    BY DEF Local
  <2> HIDE DEF l
  <2> QED BY <2>1, <2>2, Stepped
<1>8. ASSUME NEW u \in Threads PROVE HeldWasThere(thread'[u].held, version', had')
  <2>1. thread'[u].held = thread[u].held /\ HeldWasThere(thread[u].held, version, had)
    BY <1>1, <1>7 DEF ShownInv
  <2>2. \A k \in DOMAIN thread[u].held : thread[u].held[k].desc \in Descs
    <3>1. PICK held \in Seq(Write) : thread[u].held = held
      BY DEF BaseInv, TypeOK, Local, Write
    <3>2. \A k \in DOMAIN held : held[k] \in Write
      BY ElementOfSeq, LenProperties
    <3> QED BY <3>1, <3>2 DEF Write
  <2> QED BY <1>3, <1>6, <2>1, <2>2 DEF HeldWasThere
<1>9. \A e \in Descs : object'[e] # NULL => version'[object'[e]] \in had'[e]
  BY <1>3, <1>5 DEF ShownInv
<1>10. WrittenWasThere'
  BY <1>3, <1>6 DEF ShownInv, WrittenWasThere
<1> QED BY <1>8, <1>9, <1>10 DEF ShownInv

LEMMA ShownUpdateSets ==
    ASSUME BaseInv, ShownInv, NEW t \in Threads, UpdateSets(t)
    PROVE  ShownInv'
<1>1. PICK l0 \in Local : thread[t] = l0
  BY DEF BaseInv, TypeOK
<1>2. PICK held \in Seq(Write) : l0.held = held
  BY DEF Local, Write
<1>3. UNCHANGED <<object, version, had>> /\ vk_set' = [d \in Descs |->
             IF \E w \in ToSet(held) : w.desc = d
             THEN version[held[LastFor(held, d)].view] ELSE vk_set[d]]
  BY <1>1, <1>2 DEF UpdateSets, heapVars, viewVars, historyVars, LastFor
<1>4. HeldWasThere(held, version, had)
  BY <1>1, <1>2 DEF ShownInv
<1>5. ASSUME NEW d \in Descs PROVE vk_set'[d] \in had'[d]
  <2>1. CASE \E w \in ToSet(held) : w.desc = d
    <3>1. LastFor(held, d) \in DOMAIN held /\ held[LastFor(held, d)].desc = d
      BY <2>1, LastWrite
    <3>2. version[held[LastFor(held, d)].view] \in had[d]
      BY <1>4, <3>1 DEF HeldWasThere
    <3> QED BY <1>3, <2>1, <3>2
  <2>2. CASE ~ \E w \in ToSet(held) : w.desc = d
    BY <1>3, <2>2 DEF ShownInv, WrittenWasThere
  <2> QED BY <2>1, <2>2
<1>6. /\ \A u \in Threads : u # t => thread'[u] = thread[u]
      /\ thread'[t].held = held
  <2> DEFINE l == [l0 EXCEPT !.pc = "free"]
  <2>1. Go(t, l)
    BY <1>1 DEF UpdateSets, Goto
  <2>2. l.held = held
    BY <1>2 DEF Local
  <2> HIDE DEF l
  <2> QED BY <2>1, <2>2, Stepped
<1>7. \A u \in Threads : HeldWasThere(thread'[u].held, version', had')
  BY <1>1, <1>2, <1>3, <1>6 DEF ShownInv
<1> QED BY <1>3, <1>5, <1>7 DEF ShownInv, WrittenWasThere

LEMMA ShownFreeRef ==
    ASSUME BaseInv, ShownInv, NEW t \in Threads, FreeRef(t)
    PROVE  ShownInv'
<1>1. PICK l0 \in Local : thread[t] = l0 /\ LocalFits(t, l0, vk_sets_mutex)
  BY DEF BaseInv, TypeOK, ControlFits
<1>2. PICK held \in Seq(Write) : l0.held = held
  BY DEF Local, Write
<1>3. UNCHANGED <<object, version, had, vk_set>>
  BY DEF FreeRef, heapVars, historyVars
<1>4. held # <<>>
  BY <1>1, <1>2 DEF LocalFits, FreeRef, At
<1>5. PICK n \in Nat : Len(held) = n /\ n # 0
  BY <1>4, EmptySeq
<1>6. PICK left \in Seq(Write) : left = Tail(held)
  BY <1>4, PlacesOfTail
<1>7. DOMAIN held = 1 .. n /\ DOMAIN left = 1 .. n - 1 /\ \A k \in 1 .. n - 1 : left[k] = held[k + 1]
  BY <1>4, <1>5, <1>6, HeadTailProperties, LenProperties
<1>8. HeldWasThere(held, version, had)
  BY <1>1, <1>2 DEF ShownInv
<1>9. HeldWasThere(left, version', had')
  <2> SUFFICES ASSUME NEW k \in 1 .. n - 1 PROVE version'[left[k].view] \in had'[left[k].desc]
    BY <1>7 DEF HeldWasThere
  <2>1. k + 1 \in 1 .. n
    BY <1>5
  <2> QED BY <1>3, <1>7, <1>8, <2>1 DEF HeldWasThere
<1>10. /\ \A u \in Threads : u # t => thread'[u] = thread[u]
       /\ thread'[t].held = left
  <2> DEFINE l == [l0 EXCEPT !.pc = IF left = <<>> THEN "walk" ELSE "free", !.held = left]
  <2>1. Go(t, l)
    BY <1>1, <1>2, <1>6 DEF FreeRef
  <2>2. l.held = left
    BY DEF Local
  <2> HIDE DEF l
  <2> QED BY <2>1, <2>2, Stepped
<1>11. \A u \in Threads : HeldWasThere(thread'[u].held, version', had')
  BY <1>3, <1>9, <1>10 DEF ShownInv
<1> QED BY <1>3, <1>11 DEF ShownInv, WrittenWasThere

LEMMA ShownInit == Init => ShownInv
<1> SUFFICES ASSUME Init PROVE ShownInv
  OBVIOUS
<1>1. \A t \in Threads : HeldWasThere(thread[t].held, version, had)
  BY DEF Init, Start, HeldWasThere
<1> QED BY <1>1 DEF Init, ShownInv, WrittenWasThere

LEMMA ShownNext == BaseInv /\ ShownInv /\ [Next]_vars => ShownInv'
<1> SUFFICES ASSUME BaseInv, ShownInv, [Next]_vars PROVE ShownInv'
  OBVIOUS
<1>1. CASE UNCHANGED vars
  BY <1>1 DEF ShownInv, WrittenWasThere, HeldWasThere, vars, heapVars, viewVars, historyVars
<1>2. ASSUME NEW t \in Threads, Call(t) PROVE ShownInv'
  BY <1>2, ShownCreateView, ShownCopyDescriptor, ShownQuiet DEF Call
<1>3. ASSUME NEW t \in Threads, Step(t) PROVE ShownInv'
  <2>1. CASE ReadObject(t) \/ CheckObject(t)
    BY <2>1, ShownReads
  <2>2. CASE ReplaceObject(t) \/ UpdateSets(t) \/ FreeRef(t)
    BY <2>2, ShownReplaceObject, ShownUpdateSets, ShownFreeRef
  <2> QED BY <1>3, <2>1, <2>2, ShownQuiet DEF Step
<1> QED BY <1>1, <1>2, <1>3 DEF Next

\* The flush takes a reference, and then looks at the descriptor again: whatever
\* writes, frees and reuses of the view came between, Vulkan shows at a descriptor
\* only what that descriptor has had.
THEOREM VulkanShowsWhatWasThere == Spec => []WrittenWasThere
<1>1. ShownInv => WrittenWasThere
  BY DEF ShownInv
<1> QED BY <1>1, BaseInit, BaseNext, ShownInit, ShownNext, PTL DEF Spec

----------------------------------------------------------------------------
(* No write of a descriptor is lost.                                       *)

\* A thread has still to mark the descriptor, to read it, or to write it.
Marks(l, d, v) == /\ l.dst = d
                  /\ \/ l.pc \in {"decref", "test"} /\ l.view = v
                     \/ l.pc \in {"head", "mark"}
Reads(l, d) == l.src = d /\ l.pc \in RefPcs
Buffers(l, d) == l.pc # "free" /\ Has(l.held, d)
ToWrite(l, d, v) == Buffers(l, d) /\ LastOf(l.held, d).view = v

\* What Vulkan shows at a descriptor is its view, or somebody sees to it: the
\* last buffered write counts, an earlier one to the same descriptor does not.
Settled(d) ==
    \/ next[d] # 0
    \/ \E t \in Threads : Marks(thread[t], d, object[d])
    \/ \E t \in Threads : vk_sets_mutex = t /\ Reads(thread[t], d)
    \/ \E t \in Threads : ToWrite(thread[t], d, object[d])
    \/ /\ \A t \in Threads : ~ Buffers(thread[t], d)
       /\ vk_set[d] = version[object[d]]

AllSettled == \A d \in Descs : object[d] # NULL => Settled(d)

\* The buffer is the same, or counts neither before nor after.
Buffering(l) == l.pc # "free" /\ l.held # <<>>
SameBuffer(l, l2) == \/ ~ Buffering(l) /\ ~ Buffering(l2)
                     \/ l.pc # "free" /\ l2.pc # "free" /\ l2.held = l.held

LEMMA SettledKept ==
    ASSUME BaseInv, AllSettled, NEW t \in Threads, NEW l, Go(t, l), SameBuffer(thread[t], l),
           UNCHANGED <<object, vk_set>>,
           \A d \in Descs : object[d] # NULL => version'[object[d]] = version[object[d]],
           \A u \in Threads : u # t /\ vk_sets_mutex = u => vk_sets_mutex' = u,
           \A d \in Descs : next[d] # 0 =>
               next'[d] # 0 \/ (vk_sets_mutex' = t /\ Reads(l, d)),
           \A d \in Descs : object[d] # NULL /\ Marks(thread[t], d, object[d]) =>
               next'[d] # 0 \/ Marks(l, d, object[d]),
           \A d \in Descs : object[d] # NULL /\ vk_sets_mutex = t /\ Reads(thread[t], d) =>
               vk_sets_mutex' = t /\ Reads(l, d)
    PROVE  AllSettled'
<1> SUFFICES ASSUME NEW d \in Descs, object[d] # NULL PROVE Settled(d)'
  BY DEF AllSettled
<1>1. thread'[t] = l /\ \A u \in Threads : u # t => thread'[u] = thread[u]
  BY Stepped
<1>2. Settled(d)
  BY DEF AllSettled
<1>3. CASE next[d] # 0
  BY <1>1, <1>3 DEF Settled
<1>4. ASSUME NEW u \in Threads, Marks(thread[u], d, object[d]) PROVE Settled(d)'
  BY <1>1, <1>4 DEF Settled
<1>5. ASSUME NEW u \in Threads, vk_sets_mutex = u, Reads(thread[u], d) PROVE Settled(d)'
  BY <1>1, <1>5 DEF Settled
<1>6. /\ Buffers(l, d) <=> Buffers(thread[t], d)
      /\ ToWrite(l, d, object[d]) <=> ToWrite(thread[t], d, object[d])
  <2>1. \A k : ~ Buffering(k) => ~ Buffers(k, d)
    BY DEF Buffering, Buffers, Has, ToSet
  <2>2. CASE ~ Buffering(thread[t]) /\ ~ Buffering(l)
    BY <2>1, <2>2 DEF ToWrite
  <2>3. CASE thread[t].pc # "free" /\ l.pc # "free" /\ l.held = thread[t].held
    BY <2>3 DEF Buffers, ToWrite
  <2> QED BY <2>2, <2>3 DEF SameBuffer
<1>7. ASSUME NEW u \in Threads, ToWrite(thread[u], d, object[d]) PROVE Settled(d)'
  BY <1>1, <1>6, <1>7 DEF Settled
<1>8. ASSUME \A u \in Threads : ~ Buffers(thread[u], d), vk_set[d] = version[object[d]]
      PROVE  Settled(d)'
  <2>1. \A u \in Threads : ~ Buffers(thread'[u], d)
    BY <1>1, <1>6, <1>8
  <2>2. vk_set'[d] = version'[object'[d]]
    BY <1>8
  <2> QED BY <2>1, <2>2 DEF Settled
<1> QED BY <1>2, <1>3, <1>4, <1>5, <1>7, <1>8 DEF Settled

\* A thread at these places has no update of Vulkan to see to.
Neutral == {"idle", "replace", "push", "relink", "lock", "take", "walk", "update", "free", "unlock"}

LEMMA NeutralDoesNothing ==
    ASSUME NEW l, l.pc \in Neutral
    PROVE  \A d, v : ~ Marks(l, d, v) /\ ~ Reads(l, d)
BY DEF Neutral, Marks, Reads, RefPcs

LEMMA SettledCreateView ==
    ASSUME BaseInv, AllSettled, NEW t \in Threads, NEW d \in Descs, CreateView(t, d)
    PROVE  AllSettled'
<1>1. PICK l0 \in Local : thread[t] = l0 /\ l0.pc = "idle" /\ LocalFits(t, l0, vk_sets_mutex)
  BY DEF BaseInv, TypeOK, ControlFits, CreateView, At
<1>2. l0.held = <<>>
  BY <1>1 DEF LocalFits, Start
<1>3. UNCHANGED <<object, next, vk_sets_mutex, vk_set>>
  BY DEF CreateView, heapVars
<1>4. \A e \in Descs : object[e] # NULL => version'[object[e]] = version[object[e]]
  <2>1. CASE UNCHANGED version
    BY <2>1
  <2>2. ASSUME NEW o \in view_desc_cache, version' = [version EXCEPT ![o] = writes + 1],
               NEW e \in Descs, object[e] # NULL
        PROVE  version'[object[e]] = version[object[e]]
    BY <2>2, Unused DEF BaseInv, TypeOK
  <2> QED BY <2>1, <2>2 DEF CreateView, viewVars
<1>5. \/ Go(t, [Start EXCEPT !.pc = "replace", !.dst = d])
      \/ \E o : Go(t, [Start EXCEPT !.pc = "replace", !.dst = d, !.view = o])
  BY DEF CreateView
<1>6. /\ [Start EXCEPT !.pc = "replace", !.dst = d].held = <<>>
      /\ \A o : [Start EXCEPT !.pc = "replace", !.dst = d, !.view = o].held = <<>>
  BY DEF Start
<1>7. PICK l : Go(t, l) /\ l.held = <<>>
  <2>1. CASE Go(t, [Start EXCEPT !.pc = "replace", !.dst = d])
    BY <1>6, <2>1
  <2>2. ASSUME NEW o, Go(t, [Start EXCEPT !.pc = "replace", !.dst = d, !.view = o])
        PROVE  \E l : Go(t, l) /\ l.held = <<>>
    BY <1>6, <2>2
  <2> QED BY <1>5, <2>1, <2>2
<1>8. SameBuffer(l0, l)
  BY <1>2, <1>7 DEF SameBuffer, Buffering
<1> QED BY <1>1, <1>3, <1>4, <1>7, <1>8, SettledKept, NeutralDoesNothing DEF Neutral

LEMMA SettledCalls ==
    ASSUME BaseInv, AllSettled, NEW t \in Threads,
           FlushHeap(t) \/ \E d, s \in Descs : CopyDescriptor(t, d, s)
    PROVE  AllSettled'
<1>1. PICK l0 \in Local : thread[t] = l0 /\ l0.pc = "idle" /\ LocalFits(t, l0, vk_sets_mutex)
  BY DEF BaseInv, TypeOK, ControlFits, FlushHeap, CopyDescriptor, At
<1>2. l0 = Start
  BY <1>1 DEF LocalFits
<1>3. UNCHANGED <<object, next, vk_sets_mutex, vk_set, version>>
  BY DEF FlushHeap, CopyDescriptor, heapVars, viewVars
<1>4. CASE FlushHeap(t)
  <2> DEFINE l == [Start EXCEPT !.pc = "lock"]
  <2>1. Go(t, l) /\ SameBuffer(l0, l)
    BY <1>1, <1>2, <1>4 DEF FlushHeap, Goto, SameBuffer, Buffering, Start
  <2> HIDE DEF l
  <2> QED BY <1>1, <1>3, <2>1, SettledKept, NeutralDoesNothing DEF Neutral
<1>5. ASSUME NEW d \in Descs, NEW s \in Descs, CopyDescriptor(t, d, s) PROVE AllSettled'
  <2> DEFINE l == [Start EXCEPT !.pc = "read", !.dst = d, !.src = s]
  <2>1. Go(t, l) /\ SameBuffer(l0, l)
    BY <1>1, <1>2, <1>5 DEF CopyDescriptor, SameBuffer, Buffering, Start
  <2> HIDE DEF l
  <2> QED BY <1>1, <1>3, <2>1, SettledKept, NeutralDoesNothing DEF Neutral
<1> QED BY <1>4, <1>5

LEMMA SettledReads ==
    ASSUME BaseInv, AllSettled, NEW t \in Threads, IncRef(t) \/ UndoRef(t)
    PROVE  AllSettled'
<1>1. PICK l0 \in Local : /\ thread[t] = l0 /\ LocalFits(t, l0, vk_sets_mutex)
                          /\ l0.pc \in {"incref", "undo"}
  BY DEF BaseInv, TypeOK, ControlFits, IncRef, UndoRef, At
<1>2. UNCHANGED <<object, next, vk_sets_mutex, vk_set, version>>
  BY DEF IncRef, UndoRef, heapVars
<1>3. PICK l \in {[l0 EXCEPT !.pc = "check"], [l0 EXCEPT !.pc = "read", !.view = NULL]} :
          Go(t, l)
  BY <1>1 DEF IncRef, UndoRef, Goto
<1>4. l.pc \in {"check", "read"} /\ l.held = l0.held /\ l.src = l0.src
  BY <1>3 DEF Local
<1>5. SameBuffer(l0, l)
  BY <1>1, <1>4 DEF SameBuffer
<1>6. \A d, v : ~ Marks(l0, d, v) /\ (Reads(l0, d) => Reads(l, d))
  BY <1>1, <1>4 DEF Marks, Reads, RefPcs
<1> QED BY <1>1, <1>2, <1>3, <1>5, <1>6, SettledKept

\* A flush that finds a view buffers it as the last write to the descriptor.
LEMMA SettledGotRef ==
    ASSUME BaseInv, AllSettled, NEW t \in Threads, thread[t].pc \in {"read", "check"},
           NEW view, view = object[thread[t].src], GotRef(t, view),
           UNCHANGED <<object, next, vk_sets_mutex, vk_set, version>>
    PROVE  AllSettled'
<1>1. PICK l0 \in Local : /\ thread[t] = l0 /\ LocalFits(t, l0, vk_sets_mutex)
                          /\ l0.pc \in {"read", "check"}
  BY DEF BaseInv, TypeOK, ControlFits
<1>2. l0.src \in Descs /\ l0.held \in Seq(Write) /\ view \in Objects \cup {NULL}
  BY <1>1 DEF LocalFits, RefPcs, Local, Write, BaseInv, TypeOK
<1>3. CASE ~Flushing(t) \/ view = NULL
  <2>1. PICK l \in {[l0 EXCEPT !.pc = "replace", !.view = view], [l0 EXCEPT !.pc = "walk"]} :
            Go(t, l)
    BY <1>1, <1>3 DEF GotRef, Goto
  <2>2. l.held = l0.held /\ l.pc # "free"
    BY <2>1 DEF Local
  <2>3. SameBuffer(l0, l)
    BY <1>1, <2>2 DEF SameBuffer
  <2>4. \A d, v : ~ Marks(l0, d, v)
    BY <1>1 DEF Marks
  <2>5. \A d : object[d] # NULL => ~ (vk_sets_mutex = t /\ Reads(l0, d))
    BY <1>1, <1>3 DEF Reads, Flushing
  <2> QED BY <1>1, <2>1, <2>3, <2>4, <2>5, SettledKept
<1>4. CASE Flushing(t) /\ view # NULL
  <2> DEFINE w == [desc |-> l0.src, view |-> view]
             full == Len(l0.held) + 1 >= WriteBufferSize - 1
             l == [l0 EXCEPT !.pc = IF full THEN "update" ELSE "walk", !.view = NULL,
                             !.held = Append(@, w)]
  <2>1. w \in Write /\ w.desc = l0.src /\ w.view = view
    BY <1>2, <1>4 DEF Write
  <2>2. Go(t, l) /\ l.held = Append(l0.held, w) /\ l.pc # "free"
    <3>1. Go(t, l)
      BY <1>1, <1>4 DEF GotRef
    <3>2. l.held = Append(l0.held, w)
      BY DEF Local
    <3>3. l.pc # "free"
      BY DEF Local
    <3> QED BY <3>1, <3>2, <3>3
  <2> HIDE DEF w, l
  <2>3. thread'[t] = l /\ \A u \in Threads : u # t => thread'[u] = thread[u]
    BY <2>2, Stepped
  <2>4. ASSUME NEW d \in Descs, object[d] # NULL PROVE Settled(d)'
    <3>1. Settled(d)
      BY <2>4 DEF AllSettled
    <3>2. CASE d = l0.src
      <4>1. Buffers(l, d) /\ LastOf(l.held, d).view = view
        BY <1>2, <2>1, <2>2, <3>2, LastOfAppend DEF Buffers
      <4> QED BY <1>1, <2>3, <3>2, <4>1 DEF Settled, ToWrite
    <3>3. CASE d # l0.src
      <4>1. /\ Buffers(l, d) <=> Buffers(l0, d)
            /\ ToWrite(l, d, object[d]) <=> ToWrite(l0, d, object[d])
        BY <1>1, <1>2, <2>1, <2>2, <3>3, LastOfAppend DEF Buffers, ToWrite
      <4>2. ~ Marks(l0, d, object[d]) /\ ~ Reads(l0, d)
        BY <1>1, <3>3 DEF Marks, Reads
      <4>3. CASE next[d] # 0
        BY <4>3 DEF Settled
      <4>4. ASSUME NEW u \in Threads,
                   \/ Marks(thread[u], d, object[d])
                   \/ vk_sets_mutex = u /\ Reads(thread[u], d)
            PROVE  Settled(d)'
        BY <1>1, <2>3, <4>2, <4>4 DEF Settled
      <4>5. ASSUME NEW u \in Threads, ToWrite(thread[u], d, object[d]) PROVE Settled(d)'
        BY <1>1, <2>3, <4>1, <4>5 DEF Settled
      <4>6. ASSUME \A u \in Threads : ~ Buffers(thread[u], d), vk_set[d] = version[object[d]]
            PROVE  Settled(d)'
        <5>1. \A u \in Threads : ~ Buffers(thread'[u], d)
          BY <1>1, <2>3, <4>1, <4>6
        <5> QED BY <4>6, <5>1 DEF Settled
      <4> QED BY <3>1, <4>3, <4>4, <4>5, <4>6 DEF Settled
    <3> QED BY <3>2, <3>3
  <2> QED BY <2>4 DEF AllSettled
<1> QED BY <1>3, <1>4

LEMMA SettledObject ==
    ASSUME BaseInv, AllSettled, NEW t \in Threads, ReadObject(t) \/ CheckObject(t)
    PROVE  AllSettled'
<1>1. UNCHANGED <<object, next, vk_sets_mutex, vk_set, version>>
  BY DEF ReadObject, CheckObject, heapVars, viewVars
<1>2. PICK l0 \in Local : thread[t] = l0 /\ l0.pc \in {"read", "check"}
  BY DEF BaseInv, TypeOK, ReadObject, CheckObject, At
<1>3. CASE \E view : view = object[l0.src] /\ GotRef(t, view)
  BY <1>1, <1>2, <1>3, SettledGotRef
<1>4. CASE ~ \E view : view = object[l0.src] /\ GotRef(t, view)
  <2>1. PICK l \in {[l0 EXCEPT !.pc = "incref", !.view = object[l0.src]],
                    [l0 EXCEPT !.pc = "undo"]} : Go(t, l)
    BY <1>2, <1>4 DEF ReadObject, CheckObject, Goto
  <2>2. l.held = l0.held /\ l.pc \in {"incref", "undo"} /\ l.src = l0.src
    BY <2>1 DEF Local
  <2>3. SameBuffer(l0, l)
    BY <1>2, <2>2 DEF SameBuffer
  <2>4. \A d, v : ~ Marks(l0, d, v) /\ (Reads(l0, d) => Reads(l, d))
    BY <1>2, <2>2 DEF Marks, Reads, RefPcs
  <2> QED BY <1>1, <1>2, <2>1, <2>3, <2>4, SettledKept
<1> QED BY <1>3, <1>4

\* The writer marks the descriptor that it has changed.
LEMMA SettledReplaceObject ==
    ASSUME BaseInv, AllSettled, NEW t \in Threads, ReplaceObject(t)
    PROVE  AllSettled'
<1>1. PICK l0 \in Local : /\ thread[t] = l0 /\ l0.pc = "replace"
                          /\ LocalFits(t, l0, vk_sets_mutex)
  BY DEF BaseInv, TypeOK, ControlFits, ReplaceObject, At
<1>2. PICK c \in Descs : l0.dst = c
  BY <1>1 DEF LocalFits, WritePcs
<1>3. vk_sets_mutex # t /\ l0.held = <<>>
  BY <1>1 DEF LocalFits, FlushPcs, RefPcs
<1>4. /\ UNCHANGED <<next, vk_sets_mutex, vk_set, version>>
      /\ object' = [object EXCEPT ![c] = l0.view]
  BY <1>1, <1>2 DEF ReplaceObject, viewVars
<1>5. object'[c] = l0.view /\ \A d \in Descs : d # c => object'[d] = object[d]
  BY <1>4 DEF BaseInv, TypeOK
<1> DEFINE l == [l0 EXCEPT !.pc = IF object[c] = NULL THEN "test" ELSE "decref",
                           !.old = object[c]]
<1>6. Go(t, l)
  BY <1>1, <1>2 DEF ReplaceObject
<1>7. l.held = <<>> /\ l.pc \in {"test", "decref"} /\ l.dst = c /\ l.view = l0.view
  BY <1>2, <1>3 DEF Local
<1> HIDE DEF l
<1>8. thread'[t] = l /\ \A u \in Threads : u # t => thread'[u] = thread[u]
  BY <1>6, Stepped
<1>9. ASSUME NEW d \in Descs, object'[d] # NULL PROVE Settled(d)'
  <2>1. CASE d = c
    <3>1. Marks(l, d, object'[d])
      BY <1>5, <1>7, <2>1 DEF Marks
    <3> QED BY <1>8, <3>1 DEF Settled
  <2>2. CASE d # c
    <3>1. object'[d] = object[d] /\ Settled(d)
      BY <1>5, <1>9, <2>2 DEF AllSettled
    <3>2. /\ ~ Marks(l0, d, object[d]) /\ ~ Reads(l0, d)
          /\ ~ Buffers(l0, d) /\ ~ Buffers(l, d)
      BY <1>1, <1>3, <1>7 DEF Marks, Reads, RefPcs, Buffers, Has, ToSet
    <3>3. CASE next[d] # 0
      BY <1>4, <3>3 DEF Settled
    <3>4. ASSUME NEW u \in Threads,
                 \/ Marks(thread[u], d, object[d])
                 \/ vk_sets_mutex = u /\ Reads(thread[u], d)
                 \/ ToWrite(thread[u], d, object[d])
          PROVE  Settled(d)'
      BY <1>1, <1>4, <1>8, <3>1, <3>2, <3>4 DEF Settled, ToWrite
    <3>5. ASSUME \A u \in Threads : ~ Buffers(thread[u], d), vk_set[d] = version[object[d]]
          PROVE  Settled(d)'
      <4>1. \A u \in Threads : ~ Buffers(thread'[u], d)
        BY <1>8, <3>2, <3>5
      <4> QED BY <1>4, <3>1, <3>5, <4>1 DEF Settled
    <3> QED BY <3>1, <3>3, <3>4, <3>5 DEF Settled
  <2> QED BY <2>1, <2>2
<1> QED BY <1>9 DEF AllSettled

LEMMA SettledMarks ==
    ASSUME BaseInv, AllSettled, NEW t \in Threads,
           DecRefOld(t) \/ TestNext(t) \/ ReadHead(t) \/ MarkDesc(t)
    PROVE  AllSettled'
<1>1. PICK l0 \in Local : /\ thread[t] = l0 /\ LocalFits(t, l0, vk_sets_mutex)
                          /\ l0.pc \in {"decref", "test", "head", "mark"}
  BY DEF BaseInv, TypeOK, ControlFits, DecRefOld, TestNext, ReadHead, MarkDesc, At
<1>2. PICK c \in Descs : l0.dst = c
  BY <1>1 DEF LocalFits, WritePcs
<1>3. vk_sets_mutex # t /\ l0.held = <<>>
  BY <1>1 DEF LocalFits, FlushPcs, RefPcs
<1>4. UNCHANGED <<object, vk_sets_mutex, vk_set, version>>
  BY DEF DecRefOld, TestNext, ReadHead, MarkDesc, heapVars, viewVars
<1>5. ~ Buffering(l0)
  BY <1>3 DEF Buffering
<1>6. CASE DecRefOld(t)
  <2> DEFINE l == [l0 EXCEPT !.pc = "test", !.old = NULL]
  <2>1. Go(t, l) /\ UNCHANGED next /\ l0.pc = "decref"
    BY <1>1, <1>6 DEF DecRefOld, heapVars, At
  <2>2. l.held = <<>> /\ l.pc = "test" /\ l.dst = c /\ l.view = l0.view
    BY <1>2, <1>3 DEF Local
  <2> HIDE DEF l
  <2>3. SameBuffer(l0, l) /\ \A d, v : Marks(l0, d, v) => Marks(l, d, v)
    BY <1>2, <1>5, <2>1, <2>2 DEF SameBuffer, Buffering, Marks
  <2> QED BY <1>1, <1>3, <1>4, <2>1, <2>3, SettledKept
<1>7. CASE TestNext(t) /\ l0.view # NULL /\ next[c] = 0
  <2> DEFINE l == [l0 EXCEPT !.pc = "head", !.view = NULL]
  <2>1. Go(t, l) /\ UNCHANGED next
    BY <1>1, <1>2, <1>7 DEF TestNext, heapVars
  <2>2. l.held = <<>> /\ l.pc = "head" /\ l.dst = c
    BY <1>2, <1>3 DEF Local
  <2> HIDE DEF l
  <2>3. SameBuffer(l0, l) /\ \A d, v : Marks(l0, d, v) => Marks(l, d, v)
    BY <1>2, <1>5, <2>2 DEF SameBuffer, Buffering, Marks
  <2> QED BY <1>1, <1>3, <1>4, <2>1, <2>3, SettledKept
<1>8. CASE TestNext(t) /\ ~ (l0.view # NULL /\ next[c] = 0)
  <2>1. Go(t, Start) /\ UNCHANGED next /\ l0.pc = "test"
    BY <1>1, <1>2, <1>8 DEF TestNext, heapVars, Return, At
  <2>2. SameBuffer(l0, Start)
    BY <1>5 DEF SameBuffer, Buffering, Start
  <2>3. \A d, v : v # NULL /\ Marks(l0, d, v) => next[d] # 0
    BY <1>2, <1>8, <2>1 DEF Marks
  <2> QED BY <1>1, <1>3, <1>4, <2>1, <2>2, <2>3, SettledKept
<1>9. CASE ReadHead(t)
  <2> DEFINE l == [l0 EXCEPT !.pc = "mark", !.head = dirty_list_head]
  <2>1. Go(t, l) /\ UNCHANGED next /\ l0.pc = "head"
    BY <1>1, <1>9 DEF ReadHead, heapVars, At
  <2>2. l.held = <<>> /\ l.pc = "mark" /\ l.dst = c
    BY <1>2, <1>3 DEF Local
  <2> HIDE DEF l
  <2>3. SameBuffer(l0, l) /\ \A d, v : Marks(l0, d, v) => Marks(l, d, v)
    BY <1>2, <1>5, <2>2 DEF SameBuffer, Buffering, Marks
  <2> QED BY <1>1, <1>3, <1>4, <2>1, <2>3, SettledKept
<1>10. CASE MarkDesc(t)
  <2>1. PICK l \in {Start, [l0 EXCEPT !.pc = "push"]} : Go(t, l)
    BY <1>1, <1>10 DEF MarkDesc, Goto, Return
  <2>2. l.held = <<>>
    BY <1>3, <2>1 DEF Local, Start
  <2>3. SameBuffer(l0, l)
    BY <1>5, <2>2 DEF SameBuffer, Buffering
  <2>4. l0.pc = "mark" /\ next'[c] # 0 /\ \A d \in Descs : next[d] # 0 => next'[d] # 0
    <3>1. l0.head \in Index
      BY LocalTypes
    <3>2. Encode(l0.head) # 0
      BY <3>1, Encoding
    <3>3. l0.pc = "mark" /\ (next[c] = 0 => next' = [next EXCEPT ![c] = Encode(l0.head)])
          /\ (next[c] # 0 => UNCHANGED next)
      BY <1>1, <1>2, <1>10 DEF MarkDesc, At
    <3> QED BY <3>2, <3>3 DEF BaseInv, TypeOK
  <2>5. \A d, v : Marks(l0, d, v) => d = c
    BY <1>2 DEF Marks
  <2> QED BY <1>1, <1>3, <1>4, <2>1, <2>3, <2>4, <2>5, SettledKept
<1> QED BY <1>6, <1>7, <1>8, <1>9, <1>10

LEMMA SettledPushes ==
    ASSUME BaseInv, AllSettled, NEW t \in Threads, PushDesc(t) \/ RelinkDesc(t)
    PROVE  AllSettled'
<1>1. PICK l0 \in Local : /\ thread[t] = l0 /\ LocalFits(t, l0, vk_sets_mutex)
                          /\ l0.pc \in {"push", "relink"}
  BY DEF BaseInv, TypeOK, ControlFits, PushDesc, RelinkDesc, At
<1>2. l0.dst \in Descs /\ l0.held = <<>>
  BY <1>1 DEF LocalFits, WritePcs, FlushPcs, RefPcs
<1>3. UNCHANGED <<object, vk_sets_mutex, vk_set, version>>
  BY DEF PushDesc, RelinkDesc, viewVars
<1>4. PICK l \in {Start, [l0 EXCEPT !.pc = "push"],
                  [l0 EXCEPT !.pc = "relink", !.head = dirty_list_head]} : Go(t, l)
  BY <1>1 DEF PushDesc, RelinkDesc, Goto, Return
<1>5. l.held = <<>>
  <2>1. Start.held = <<>>
    BY DEF Start
  <2> QED BY <1>2, <1>4, <2>1 DEF Local
<1>6. SameBuffer(l0, l)
  BY <1>2, <1>5 DEF SameBuffer, Buffering
<1>7. \A d \in Descs : next[d] # 0 => next'[d] # 0
  <2>1. CASE UNCHANGED next
    BY <2>1
  <2>2. CASE next' = [next EXCEPT ![l0.dst] = Encode(l0.head)]
    <3>1. l0.head \in Index
      BY LocalTypes
    <3>2. Encode(l0.head) # 0
      BY <3>1, Encoding
    <3> QED BY <2>2, <3>2 DEF BaseInv, TypeOK
  <2> QED BY <1>1, <2>1, <2>2 DEF PushDesc, RelinkDesc
<1>8. \A d, v : ~ Marks(l0, d, v) /\ ~ Reads(l0, d)
  BY <1>1, NeutralDoesNothing DEF Neutral
<1> QED BY <1>1, <1>3, <1>4, <1>6, <1>7, <1>8, SettledKept

LEMMA SettledLocks ==
    ASSUME BaseInv, AllSettled, NEW t \in Threads, LockSets(t) \/ UnlockSets(t)
    PROVE  AllSettled'
<1>1. PICK l0 \in Local : /\ thread[t] = l0 /\ LocalFits(t, l0, vk_sets_mutex)
                          /\ l0.pc \in {"lock", "unlock"}
  BY DEF BaseInv, TypeOK, ControlFits, LockSets, UnlockSets, At
<1>2. UNCHANGED <<object, next, vk_set, version>>
  BY DEF LockSets, UnlockSets, heapVars, viewVars
<1>3. \A u \in Threads : u # t => vk_sets_mutex # u
  BY <1>1, HeapAssumption DEF LockSets, UnlockSets, At, LocalFits, FlushPcs
<1>4. l0.held = <<>>
  BY <1>1, HeapAssumption DEF LockSets, LocalFits, FlushPcs, RefPcs
<1>5. PICK l \in {Start, [l0 EXCEPT !.pc = "take"]} : Go(t, l)
  BY <1>1 DEF LockSets, UnlockSets, Goto, Return
<1>6. l.held = <<>>
  <2>1. Start.held = <<>>
    BY DEF Start
  <2> QED BY <1>4, <1>5, <2>1 DEF Local
<1>7. SameBuffer(l0, l)
  BY <1>4, <1>6 DEF SameBuffer, Buffering
<1>8. \A d, v : ~ Marks(l0, d, v) /\ ~ Reads(l0, d)
  BY <1>1, NeutralDoesNothing DEF Neutral
<1> QED BY <1>1, <1>2, <1>3, <1>5, <1>7, <1>8, SettledKept

\* The flush cleans a descriptor and goes on to read it.
LEMMA SettledWalks ==
    ASSUME BaseInv, AllSettled, NEW t \in Threads,
           TakeList(t) \/ WalkList(t) \/ EndOfList(t)
    PROVE  AllSettled'
<1>1. PICK l0 \in Local : /\ thread[t] = l0 /\ LocalFits(t, l0, vk_sets_mutex)
                          /\ l0.pc \in {"take", "walk"}
  BY DEF BaseInv, TypeOK, ControlFits, TakeList, WalkList, EndOfList, At
<1>2. UNCHANGED <<object, vk_set, version, vk_sets_mutex>> /\ vk_sets_mutex = t
  BY <1>1 DEF TakeList, WalkList, EndOfList, heapVars, viewVars, LocalFits, FlushPcs
<1>3. \A d, v : ~ Marks(l0, d, v) /\ ~ Reads(l0, d)
  BY <1>1, NeutralDoesNothing DEF Neutral
<1>4. CASE TakeList(t) \/ EndOfList(t)
  <2>1. PICK l \in {[l0 EXCEPT !.pc = "walk", !.i = dirty_list_head],
                    [l0 EXCEPT !.pc = IF l0.held = <<>> THEN "unlock" ELSE "update"]} :
            Go(t, l) /\ UNCHANGED next
    BY <1>1, <1>4 DEF TakeList, EndOfList, Goto, heapVars
  <2>2. l.held = l0.held /\ l.pc # "free"
    BY <2>1 DEF Local
  <2>3. SameBuffer(l0, l)
    BY <1>1, <2>2 DEF SameBuffer
  <2> QED BY <1>1, <1>2, <1>3, <2>1, <2>3, SettledKept
<1>5. CASE WalkList(t)
  <2> DEFINE c == l0.i
             l == [l0 EXCEPT !.pc = "read", !.src = c, !.i = Decode(next[c])]
  <2>1. Go(t, l) /\ next' = [next EXCEPT ![c] = 0]
    BY <1>1, <1>5 DEF WalkList
  <2>2. l.held = l0.held /\ l.pc = "read" /\ l.src = c
    BY DEF Local
  <2> HIDE DEF c, l
  <2>3. SameBuffer(l0, l)
    BY <1>1, <2>2 DEF SameBuffer
  <2>4. \A d \in Descs : next[d] # 0 => next'[d] # 0 \/ Reads(l, d)
    BY <2>1, <2>2 DEF BaseInv, TypeOK, Reads, RefPcs
  <2> QED BY <1>1, <1>2, <1>3, <2>1, <2>3, <2>4, SettledKept
<1> QED BY <1>4, <1>5

\* vkUpdateDescriptorSets() shows the last write to each descriptor.
LEMMA SettledUpdateSets ==
    ASSUME BaseInv, AllSettled, NEW t \in Threads, UpdateSets(t)
    PROVE  AllSettled'
<1>1. PICK l0 \in Local : /\ thread[t] = l0 /\ l0.pc = "update"
                          /\ LocalFits(t, l0, vk_sets_mutex)
  BY DEF BaseInv, TypeOK, ControlFits, UpdateSets, At
<1>2. vk_sets_mutex = t
  BY <1>1 DEF LocalFits, FlushPcs
<1>3. /\ UNCHANGED <<object, next, version, vk_sets_mutex>>
      /\ vk_set' = [d \in Descs |-> IF Has(l0.held, d) THEN version[LastOf(l0.held, d).view]
                                    ELSE vk_set[d]]
  BY <1>1 DEF UpdateSets, heapVars, viewVars, LastFor, LastOf, Has
<1> DEFINE l == [l0 EXCEPT !.pc = "free"]
<1>4. Go(t, l)
  BY <1>1 DEF UpdateSets, Goto
<1>5. l.pc = "free"
  BY DEF Local
<1> HIDE DEF l
<1>6. thread'[t] = l /\ \A u \in Threads : u # t => thread'[u] = thread[u]
  BY <1>4, Stepped
<1>7. ASSUME NEW u \in Threads, u # t
      PROVE  \A d : ~ Buffers(thread[u], d)
  <2>1. thread[u].held = <<>>
    BY <1>2, <1>7 DEF BaseInv, ControlFits, LocalFits
  <2> QED BY <2>1 DEF Buffers, Has, ToSet
<1>8. \A u \in Threads : \A d : ~ Buffers(thread'[u], d)
  BY <1>5, <1>6, <1>7 DEF Buffers
<1>9. ASSUME NEW d \in Descs, object[d] # NULL PROVE Settled(d)'
  <2>1. Settled(d)
    BY <1>9 DEF AllSettled
  <2>2. ~ Marks(l0, d, object[d]) /\ ~ Reads(l0, d)
    BY <1>1, NeutralDoesNothing DEF Neutral
  <2>3. CASE next[d] # 0
    BY <1>3, <2>3 DEF Settled
  <2>4. ASSUME NEW u \in Threads,
               \/ Marks(thread[u], d, object[d])
               \/ vk_sets_mutex = u /\ Reads(thread[u], d)
        PROVE  Settled(d)'
    BY <1>1, <1>3, <1>6, <2>2, <2>4 DEF Settled
  <2>5. ASSUME NEW u \in Threads, ToWrite(thread[u], d, object[d]) PROVE Settled(d)'
    <3>1. Has(l0.held, d) /\ LastOf(l0.held, d).view = object[d]
      BY <1>1, <1>7, <2>5 DEF ToWrite, Buffers
    <3>2. vk_set'[d] = version'[object'[d]]
      BY <1>3, <3>1
    <3> QED BY <1>8, <3>2 DEF Settled
  <2>6. ASSUME \A u \in Threads : ~ Buffers(thread[u], d), vk_set[d] = version[object[d]]
        PROVE  Settled(d)'
    <3>1. ~ Has(l0.held, d)
      BY <1>1, <2>6 DEF Buffers
    <3>2. vk_set'[d] = version'[object'[d]]
      BY <1>3, <2>6, <3>1
    <3> QED BY <1>8, <3>2 DEF Settled
  <2> QED BY <2>1, <2>3, <2>4, <2>5, <2>6 DEF Settled
<1> QED BY <1>3, <1>9 DEF AllSettled

LEMMA SettledFreeRef ==
    ASSUME BaseInv, AllSettled, NEW t \in Threads, FreeRef(t)
    PROVE  AllSettled'
<1>1. PICK l0 \in Local : /\ thread[t] = l0 /\ l0.pc = "free"
                          /\ LocalFits(t, l0, vk_sets_mutex)
  BY DEF BaseInv, TypeOK, ControlFits, FreeRef, At
<1>2. UNCHANGED <<object, next, vk_sets_mutex, vk_set, version>>
  BY DEF FreeRef, heapVars
<1> DEFINE left == Tail(l0.held)
           l == [l0 EXCEPT !.pc = IF left = <<>> THEN "walk" ELSE "free", !.held = left]
<1>3. Go(t, l)
  BY <1>1 DEF FreeRef
<1>4. l.pc = (IF left = <<>> THEN "walk" ELSE "free") /\ l.held = left
  BY DEF Local
<1> HIDE DEF left, l
<1>5. SameBuffer(l0, l)
  BY <1>1, <1>4 DEF SameBuffer, Buffering
<1>6. \A d, v : ~ Marks(l0, d, v) /\ ~ Reads(l0, d)
  BY <1>1, NeutralDoesNothing DEF Neutral
<1> QED BY <1>1, <1>2, <1>3, <1>5, <1>6, SettledKept

LEMMA SettledInit == Init => AllSettled
BY DEF Init, AllSettled

LEMMA SettledNext == BaseInv /\ AllSettled /\ [Next]_vars => AllSettled'
<1> SUFFICES ASSUME BaseInv, AllSettled, [Next]_vars PROVE AllSettled'
  OBVIOUS
<1>1. CASE UNCHANGED vars
  BY <1>1 DEF AllSettled, Settled, vars, heapVars, viewVars
<1>2. ASSUME NEW t \in Threads, Call(t) PROVE AllSettled'
  BY <1>2, SettledCreateView, SettledCalls DEF Call
<1>3. ASSUME NEW t \in Threads, Step(t) PROVE AllSettled'
  <2>1. CASE ReadObject(t) \/ IncRef(t) \/ CheckObject(t) \/ UndoRef(t)
    BY <2>1, SettledReads, SettledObject
  <2>2. CASE ReplaceObject(t) \/ DecRefOld(t) \/ TestNext(t)
    BY <2>2, SettledReplaceObject, SettledMarks
  <2>3. CASE ReadHead(t) \/ MarkDesc(t) \/ PushDesc(t) \/ RelinkDesc(t)
    BY <2>3, SettledMarks, SettledPushes
  <2>4. CASE LockSets(t) \/ TakeList(t) \/ WalkList(t) \/ EndOfList(t)
    BY <2>4, SettledLocks, SettledWalks
  <2>5. CASE UpdateSets(t) \/ FreeRef(t) \/ UnlockSets(t)
    BY <2>5, SettledUpdateSets, SettledFreeRef, SettledLocks
  <2> QED BY <1>3, <2>1, <2>2, <2>3, <2>4, <2>5 DEF Step
<1> QED BY <1>1, <1>2, <1>3 DEF Next

\* d3d12_desc_mark_as_modified() against d3d12_desc_flush_vk_heap_updates_locked():
\* however writes of a descriptor interleave with flushes, one whose view Vulkan
\* does not show is dirty, or some thread is about to mark, to read or to write it.
THEOREM NoUpdateLost == Spec => []UpdateNotLost
<1>1. BaseInv /\ AllSettled => UpdateNotLost
  <2> SUFFICES ASSUME BaseInv, AllSettled, NEW d \in Descs, object[d] # NULL,
                      vk_set[d] # version[object[d]], next[d] = 0
               PROVE  \E t \in Threads :
                   LET l == thread[t]
                   IN  \/ l.dst = d /\ l.pc \in {"decref", "test"} /\ l.view = object[d]
                       \/ l.dst = d /\ l.pc \in {"head", "mark"}
                       \/ l.src = d /\ l.pc \in {"read", "incref", "check", "undo"} /\ Flushing(t)
                       \/ l.pc # "free" /\ [desc |-> d, view |-> object[d]] \in ToSet(l.held)
    BY DEF UpdateNotLost
  <2>1. Settled(d)
    BY DEF AllSettled
  <2>2. CASE \E t \in Threads : Marks(thread[t], d, object[d])
    BY <2>2 DEF Marks
  <2>3. CASE \E t \in Threads : vk_sets_mutex = t /\ Reads(thread[t], d)
    BY <2>3 DEF Reads, RefPcs, Flushing
  <2>4. ASSUME NEW t \in Threads, ToWrite(thread[t], d, object[d])
        PROVE  thread[t].pc # "free" /\ [desc |-> d, view |-> object[d]] \in ToSet(thread[t].held)
    <3>1. PICK held \in Seq(Write) : thread[t].held = held
      BY DEF BaseInv, TypeOK, Local, Write
    <3>2. PICK k : k \in DOMAIN held /\ held[k] \in Write /\ held[k].desc = d
                   /\ held[k].view = object[d]
      BY <2>4, <3>1, LastWrite DEF ToWrite, Buffers, Has, LastOf
    <3>3. held[k] = [desc |-> d, view |-> object[d]]
      BY <3>2 DEF Write
    <3> QED BY <2>4, <3>1, <3>2, <3>3 DEF ToSet, ToWrite, Buffers
  <2> QED BY <2>1, <2>2, <2>3, <2>4 DEF Settled
<1> QED BY <1>1, BaseInit, BaseNext, SettledInit, SettledNext, PTL DEF Spec

----------------------------------------------------------------------------
(* The lists of dirty descriptors.                                         *)

\* f[n], ..., f[1] is a list that is linked by 'next' and ends in UINT_MAX, f[0]:
\* to push is to extend f, and to take the first element is to use less of it.
Chain(nx, f, n) ==
    /\ n \in Nat /\ f \in [Nat -> Index] /\ f[0] = UINT_MAX
    /\ \A k \in 1 .. n : f[k] \in Descs /\ nx[f[k]] = Encode(f[k - 1])
    /\ \A j, k \in 1 .. n : f[j] = f[k] => j = k

On(f, n, d) == \E k \in 1 .. n : f[k] = d

LEMMA ChainEmpty == \E f : \A nx : Chain(nx, f, 0)
<1> DEFINE f == [k \in Nat |-> UINT_MAX]
<1>1. f \in [Nat -> Index] /\ f[0] = UINT_MAX
  BY DEF Index
<1> HIDE DEF f
<1> QED BY <1>1 DEF Chain

LEMMA ChainCut ==
    ASSUME NEW nx, NEW f, NEW n, Chain(nx, f, n)
    PROVE  /\ \A nx2 : Chain(nx2, f, 0) /\ \A d : ~ On(f, 0, d)
           /\ f[n] \in Index /\ (f[n] = UINT_MAX <=> n = 0)
           /\ \A d : On(f, n, d) => d \in Descs /\ nx[d] # 0
<1>1. f[n] \in Index
  BY DEF Chain
<1>2. (\A nx2 : Chain(nx2, f, 0)) /\ \A d : ~ On(f, 0, d)
  BY DEF Chain, On
<1>3. n # 0 => n \in 1 .. n /\ f[n] \in Descs
  BY DEF Chain
<1>4. UINT_MAX \notin Descs
  BY Encoding DEF Index
<1>5. ASSUME NEW k \in 1 .. n PROVE f[k] \in Descs /\ nx[f[k]] # 0
  <2>1. f[k - 1] \in Index /\ f[k] \in Descs /\ nx[f[k]] = Encode(f[k - 1])
    BY DEF Chain
  <2> QED BY <2>1, Encoding
<1> QED BY <1>1, <1>2, <1>3, <1>4, <1>5 DEF Chain, On

\* A change elsewhere does not disturb a list.
LEMMA ChainOff ==
    ASSUME NEW nx, NEW nx2, NEW f, NEW n, Chain(nx, f, n), NEW d, ~ On(f, n, d),
           \A e \in Descs : e # d => nx2[e] = nx[e]
    PROVE  Chain(nx2, f, n)
BY DEF Chain, On

LEMMA ChainPush ==
    ASSUME NEW nx, NEW f, NEW n, Chain(nx, f, n), NEW d \in Descs, ~ On(f, n, d),
           nx[d] = Encode(f[n])
    PROVE  \E f2 : /\ Chain(nx, f2, n + 1) /\ f2[n + 1] = d
                   /\ \A e : On(f2, n + 1, e) <=> On(f, n, e) \/ e = d
<1> DEFINE f2 == [f EXCEPT ![n + 1] = d]
<1>1. n \in Nat /\ f \in [Nat -> Index]
  BY DEF Chain
<1>2. /\ f2 \in [Nat -> Index] /\ f2[n + 1] = d
      /\ \A k \in 0 .. n : f2[k] = f[k]
  BY <1>1 DEF Index
<1> HIDE DEF f2
<1>3. \A k : k \in 1 .. n + 1 <=> k \in 1 .. n \/ k = n + 1
  BY <1>1
<1>4. \A k \in 1 .. n : f2[k] = f[k] /\ f2[k - 1] = f[k - 1]
  BY <1>1, <1>2
<1>5. f2[0] = UINT_MAX /\ (n + 1) - 1 = n /\ f2[n] = f[n]
  BY <1>1, <1>2 DEF Chain
<1>6. ASSUME NEW k \in 1 .. n + 1 PROVE f2[k] \in Descs /\ nx[f2[k]] = Encode(f2[k - 1])
  <2>1. CASE k = n + 1
    BY <1>2, <1>5, <2>1
  <2>2. CASE k \in 1 .. n
    BY <1>4, <2>2 DEF Chain
  <2> QED BY <1>3, <2>1, <2>2
<1>7. ASSUME NEW j \in 1 .. n + 1, NEW k \in 1 .. n + 1, f2[j] = f2[k] PROVE j = k
  <2>1. CASE j \in 1 .. n /\ k \in 1 .. n
    BY <1>4, <1>7, <2>1 DEF Chain
  <2>2. CASE j = n + 1 /\ k \in 1 .. n
    BY <1>2, <1>4, <1>7, <2>2 DEF On
  <2>3. CASE j \in 1 .. n /\ k = n + 1
    BY <1>2, <1>4, <1>7, <2>3 DEF On
  <2>4. CASE j = n + 1 /\ k = n + 1
    BY <2>4
  <2> QED BY <1>3, <2>1, <2>2, <2>3, <2>4
<1>8. Chain(nx, f2, n + 1)
  BY <1>1, <1>2, <1>5, <1>6, <1>7 DEF Chain
<1>9. \A e : On(f2, n + 1, e) <=> On(f, n, e) \/ e = d
  BY <1>2, <1>3, <1>4 DEF On
<1> QED BY <1>2, <1>8, <1>9

LEMMA ChainPop ==
    ASSUME NEW nx, NEW nx2, NEW g, NEW m, Chain(nx, g, m), m # 0,
           \A e \in Descs : e # g[m] => nx2[e] = nx[e]
    PROVE  Chain(nx2, g, m - 1) /\ Decode(nx[g[m]]) = g[m - 1]
<1>1. m \in Nat \ {0} /\ g \in [Nat -> Index]
  BY DEF Chain
<1>2. m - 1 \in Nat /\ m \in 1 .. m
      /\ \A k : k \in 1 .. m <=> k \in 1 .. m - 1 \/ k = m
  BY <1>1
<1>3. Decode(nx[g[m]]) = g[m - 1]
  BY <1>1, <1>2, Encoding DEF Chain
<1>4. \A k \in 1 .. m - 1 : k # m /\ g[k] # g[m]
  BY <1>1, <1>2 DEF Chain
<1>5. Chain(nx2, g, m - 1)
  BY <1>1, <1>2, <1>4 DEF Chain
<1> QED BY <1>3, <1>5

LEMMA OnPop ==
    ASSUME NEW nx, NEW g, NEW m, Chain(nx, g, m), m # 0
    PROVE  /\ On(g, m, g[m]) /\ ~ On(g, m - 1, g[m])
           /\ \A e : On(g, m, e) <=> On(g, m - 1, e) \/ e = g[m]
<1>1. m \in Nat \ {0}
  BY DEF Chain
<1>2. m \in 1 .. m /\ \A k : k \in 1 .. m <=> k \in 1 .. m - 1 \/ k = m
  BY <1>1
<1>3. \A k \in 1 .. m - 1 : k # m /\ g[k] # g[m]
  BY <1>1, <1>2 DEF Chain
<1> QED BY <1>2, <1>3 DEF On

----------------------------------------------------------------------------
(* What is on the lists.                                                   *)

Pushing(l) == l.pc \in {"push", "relink"}

\* The dirty list, and the rest of the list that the flush has taken.
ListsFit(f, n, g, m) ==
    /\ Chain(next, f, n) /\ dirty_list_head = f[n]
    /\ Chain(next, g, m) /\ \A t \in Threads : vk_sets_mutex = t => thread[t].i = g[m]
    /\ vk_sets_mutex = NULL => m = 0
    /\ \A d : ~ (On(f, n, d) /\ On(g, m, d))

\* A descriptor that is being pushed is on neither, and only one thread pushes it.
PushersFit(f, n, g, m) ==
    \A t \in Threads : Pushing(thread[t]) =>
        /\ next[thread[t].dst] # 0
        /\ ~ On(f, n, thread[t].dst) /\ ~ On(g, m, thread[t].dst)
        /\ thread[t].pc = "push" => next[thread[t].dst] = Encode(thread[t].head)
        /\ \A u \in Threads : Pushing(thread[u]) /\ thread[u].dst = thread[t].dst => u = t

\* Every descriptor with a link is in one of these places.
Covered(f, n, g, m) ==
    \A d \in Descs : next[d] # 0 =>
        \/ On(f, n, d) \/ On(g, m, d)
        \/ \E t \in Threads : Pushing(thread[t]) /\ thread[t].dst = d

\* What only the flushing thread writes is not on the list that follows.
OwnFits(f, n) ==
    \A t \in Threads, d \in Descs :
        vk_sets_mutex = t /\ thread[t].pc # "take" /\ writers[d] = {t} => ~ On(f, n, d)

Parts(f, n, g, m) ==
    ListsFit(f, n, g, m) /\ PushersFit(f, n, g, m) /\ Covered(f, n, g, m) /\ OwnFits(f, n)

MarksOwn == \A t \in Threads : thread[t].pc \in MarkPcs \cup {"decref"} =>
                t \in writers[thread[t].dst]

ListInv == MarksOwn /\ \E f, n, g, m : Parts(f, n, g, m)

\* A step of a thread that pushes nothing and leaves the lists alone.
LEMMA ListsQuiet ==
    ASSUME BaseInv, ListInv, NEW t \in Threads, NEW l, Go(t, l),
           ~ Pushing(thread[t]), ~ Pushing(l),
           UNCHANGED <<next, dirty_list_head, vk_sets_mutex>>,
           vk_sets_mutex = t => l.i = thread[t].i /\ thread[t].pc # "take",
           \A d \in Descs, u \in Threads : u \in writers[d] => u \in writers'[d],
           \A d \in Descs, u \in Threads :
               vk_sets_mutex = u /\ writers'[d] = {u} => writers[d] = {u},
           l.pc \in MarkPcs \cup {"decref"} => t \in writers'[l.dst]
    PROVE  ListInv'
<1>1. thread'[t] = l /\ \A u \in Threads : u # t => thread'[u] = thread[u]
  BY Stepped
<1>2. PICK f, n, g, m : Parts(f, n, g, m)
  BY DEF ListInv
<1>3. ListsFit(f, n, g, m)'
  BY <1>1, <1>2 DEF Parts, ListsFit
<1>4. \A u \in Threads : Pushing(thread'[u]) => u # t /\ thread'[u] = thread[u]
  BY <1>1
<1>5. PushersFit(f, n, g, m)'
  BY <1>2, <1>4 DEF Parts, PushersFit
<1>6. Covered(f, n, g, m)'
  <2> SUFFICES ASSUME NEW d \in Descs, next[d] # 0, ~ On(f, n, d), ~ On(g, m, d)
               PROVE  \E u \in Threads : Pushing(thread'[u]) /\ thread'[u].dst = d
    BY DEF Covered
  <2>1. PICK u \in Threads : Pushing(thread[u]) /\ thread[u].dst = d
    BY <1>2 DEF Parts, Covered
  <2>2. thread'[u] = thread[u]
    BY <1>1, <2>1
  <2> QED BY <2>1, <2>2
<1>7. OwnFits(f, n)'
  <2> SUFFICES ASSUME NEW u \in Threads, NEW d \in Descs, vk_sets_mutex = u,
                      thread'[u].pc # "take", writers'[d] = {u}
               PROVE  ~ On(f, n, d)
    BY DEF OwnFits
  <2>1. writers[d] = {u} /\ thread[u].pc # "take"
    BY <1>1
  <2> QED BY <1>2, <2>1 DEF Parts, OwnFits
<1>8. MarksOwn'
  <2> SUFFICES ASSUME NEW u \in Threads, thread'[u].pc \in MarkPcs \cup {"decref"}
               PROVE  u \in writers'[thread'[u].dst]
    BY DEF MarksOwn
  <2>1. CASE u = t
    BY <1>1, <2>1
  <2>2. CASE u # t
    <3>1. thread'[u] = thread[u] /\ u \in writers[thread[u].dst]
      BY <1>1, <2>2 DEF ListInv, MarksOwn
    <3>2. thread[u].dst \in Descs
      BY <1>1, <2>2 DEF BaseInv, ControlFits, LocalFits, WritePcs, MarkPcs
    <3> QED BY <3>1, <3>2
  <2> QED BY <2>1, <2>2
<1> QED BY <1>3, <1>5, <1>6, <1>7, <1>8 DEF ListInv, Parts

\* A step that leaves the writers alone as well.
LEMMA ListsIdle ==
    ASSUME BaseInv, ListInv, NEW t \in Threads, NEW l, Go(t, l),
           ~ Pushing(thread[t]), ~ Pushing(l),
           UNCHANGED <<next, dirty_list_head, vk_sets_mutex, writers>>,
           vk_sets_mutex = t => l.i = thread[t].i /\ thread[t].pc # "take",
           l.pc \in MarkPcs \cup {"decref"} =>
               l.dst = thread[t].dst /\ thread[t].pc \in MarkPcs \cup {"decref"}
    PROVE  ListInv'
<1>1. l.pc \in MarkPcs \cup {"decref"} => t \in writers'[l.dst]
  BY DEF ListInv, MarksOwn
<1> QED BY <1>1, ListsQuiet

LEMMA ListsCalls ==
    ASSUME BaseInv, ListInv, NEW t \in Threads,
           \/ FlushHeap(t) \/ \E d \in Descs : CreateView(t, d)
           \/ \E d, s \in Descs : CopyDescriptor(t, d, s)
    PROVE  ListInv'
<1>1. PICK l0 \in Local : thread[t] = l0 /\ l0.pc = "idle" /\ LocalFits(t, l0, vk_sets_mutex)
  BY DEF BaseInv, TypeOK, ControlFits, FlushHeap, CopyDescriptor, CreateView, At
<1>2. l0 = Start /\ vk_sets_mutex # t /\ ~ Pushing(l0)
  BY <1>1 DEF LocalFits, FlushPcs, RefPcs, Pushing
<1>3. UNCHANGED <<next, dirty_list_head, vk_sets_mutex, writers>>
  BY DEF FlushHeap, CopyDescriptor, CreateView, heapVars, historyVars
<1>4. CASE FlushHeap(t)
  <2> DEFINE l == [Start EXCEPT !.pc = "lock"]
  <2>1. Go(t, l) /\ l.pc = "lock"
    BY <1>1, <1>2, <1>4 DEF FlushHeap, Goto, Start
  <2> HIDE DEF l
  <2> QED BY <1>1, <1>2, <1>3, <2>1, ListsIdle DEF Pushing, MarkPcs
<1>5. ASSUME NEW d \in Descs, NEW s \in Descs, CopyDescriptor(t, d, s) PROVE ListInv'
  <2> DEFINE l == [Start EXCEPT !.pc = "read", !.dst = d, !.src = s]
  <2>1. Go(t, l) /\ l.pc = "read"
    BY <1>5 DEF CopyDescriptor, Start
  <2> HIDE DEF l
  <2> QED BY <1>1, <1>2, <1>3, <2>1, ListsIdle DEF Pushing, MarkPcs
<1>6. ASSUME NEW d \in Descs, CreateView(t, d) PROVE ListInv'
  <2>1. \/ Go(t, [Start EXCEPT !.pc = "replace", !.dst = d])
        \/ \E o : Go(t, [Start EXCEPT !.pc = "replace", !.dst = d, !.view = o])
    BY <1>6 DEF CreateView
  <2>2. /\ [Start EXCEPT !.pc = "replace", !.dst = d].pc = "replace"
        /\ \A o : [Start EXCEPT !.pc = "replace", !.dst = d, !.view = o].pc = "replace"
    BY DEF Start
  <2>3. ASSUME NEW l, Go(t, l), l.pc = "replace" PROVE ListInv'
    BY <1>1, <1>2, <1>3, <2>3, ListsIdle DEF Pushing, MarkPcs
  <2> QED BY <2>1, <2>2, <2>3
<1> QED BY <1>4, <1>5, <1>6

LEMMA ListsRefs ==
    ASSUME BaseInv, ListInv, NEW t \in Threads,
           ReadObject(t) \/ IncRef(t) \/ CheckObject(t) \/ UndoRef(t)
    PROVE  ListInv'
<1>1. PICK l0 \in Local : thread[t] = l0 /\ l0.pc \in {"read", "incref", "check", "undo"}
  BY DEF BaseInv, TypeOK, ReadObject, IncRef, CheckObject, UndoRef, At
<1>2. UNCHANGED <<next, dirty_list_head, vk_sets_mutex, writers>>
  BY DEF ReadObject, IncRef, CheckObject, UndoRef, heapVars, historyVars
<1>3. ASSUME NEW l, Go(t, l), l.i = l0.i,
             l.pc \in {"read", "incref", "check", "undo", "replace", "walk", "update"}
      PROVE  ListInv'
  <2>1. l.pc \notin MarkPcs \cup {"decref"} /\ ~ Pushing(l) /\ ~ Pushing(l0) /\ l0.pc # "take"
    BY <1>1, <1>3 DEF MarkPcs, Pushing
  <2> QED BY <1>1, <1>2, <1>3, <2>1, ListsIdle
<1>4. ASSUME NEW view, GotRef(t, view) PROVE ListInv'
  <2> DEFINE full == Len(l0.held) + 1 >= WriteBufferSize - 1
             held == Append(l0.held, [desc |-> l0.src, view |-> view])
  <2>1. PICK l \in {[l0 EXCEPT !.pc = "replace", !.view = view], [l0 EXCEPT !.pc = "walk"],
                    [l0 EXCEPT !.pc = IF full THEN "update" ELSE "walk", !.view = NULL,
                               !.held = held]} : Go(t, l)
    BY <1>1, <1>4 DEF GotRef, Goto
  <2>2. l.i = l0.i /\ l.pc \in {"replace", "walk", "update"}
    BY <2>1 DEF Local
  <2> QED BY <1>3, <2>1, <2>2
<1>5. CASE ~ \E view : GotRef(t, view)
  <2>1. PICK l \in {[l0 EXCEPT !.pc = "incref", !.view = object[l0.src]],
                    [l0 EXCEPT !.pc = "check"], [l0 EXCEPT !.pc = "undo"],
                    [l0 EXCEPT !.pc = "read", !.view = NULL]} : Go(t, l)
    BY <1>1, <1>5 DEF ReadObject, IncRef, CheckObject, UndoRef, Goto
  <2>2. l.i = l0.i /\ l.pc \in {"incref", "check", "undo", "read"}
    BY <2>1 DEF Local
  <2> QED BY <1>3, <2>1, <2>2
<1> QED BY <1>4, <1>5

LEMMA ListsReplaceObject ==
    ASSUME BaseInv, ListInv, NEW t \in Threads, ReplaceObject(t)
    PROVE  ListInv'
<1>1. PICK l0 \in Local : /\ thread[t] = l0 /\ l0.pc = "replace"
                          /\ LocalFits(t, l0, vk_sets_mutex)
  BY DEF BaseInv, TypeOK, ControlFits, ReplaceObject, At
<1>2. PICK c \in Descs : l0.dst = c
  BY <1>1 DEF LocalFits, WritePcs
<1>3. vk_sets_mutex # t /\ ~ Pushing(l0)
  BY <1>1 DEF LocalFits, FlushPcs, RefPcs, Pushing
<1>4. /\ UNCHANGED <<next, dirty_list_head, vk_sets_mutex>>
      /\ writers' = [writers EXCEPT ![c] = @ \cup {t}]
  BY <1>1, <1>2 DEF ReplaceObject
<1>5. /\ writers'[c] = writers[c] \cup {t}
      /\ \A d \in Descs : d # c => writers'[d] = writers[d]
  BY <1>4 DEF BaseInv, TypeOK
<1> DEFINE l == [l0 EXCEPT !.pc = IF object[c] = NULL THEN "test" ELSE "decref",
                           !.old = object[c]]
<1>6. Go(t, l)
  BY <1>1, <1>2 DEF ReplaceObject
<1>7. l.pc \in {"test", "decref"} /\ l.dst = c
  BY <1>2 DEF Local
<1> HIDE DEF l
<1>8. ~ Pushing(l) /\ t \in writers'[l.dst]
  BY <1>5, <1>7 DEF Pushing
<1>9. \A d \in Descs, u \in Threads : u \in writers[d] => u \in writers'[d]
  BY <1>5
<1>10. \A d \in Descs, u \in Threads : u # t /\ writers'[d] = {u} => writers[d] = {u}
  BY <1>5
<1> QED BY <1>1, <1>3, <1>4, <1>6, <1>8, <1>9, <1>10, ListsQuiet

LEMMA ListsMarks ==
    ASSUME BaseInv, ListInv, NEW t \in Threads,
           DecRefOld(t) \/ TestNext(t) \/ ReadHead(t)
    PROVE  ListInv'
<1>1. PICK l0 \in Local : /\ thread[t] = l0 /\ LocalFits(t, l0, vk_sets_mutex)
                          /\ l0.pc \in {"decref", "test", "head"}
  BY DEF BaseInv, TypeOK, ControlFits, DecRefOld, TestNext, ReadHead, At
<1>2. vk_sets_mutex # t /\ ~ Pushing(l0) /\ l0.pc \in MarkPcs \cup {"decref"}
  BY <1>1 DEF LocalFits, FlushPcs, RefPcs, Pushing, MarkPcs
<1>3. UNCHANGED <<next, dirty_list_head, vk_sets_mutex, writers>>
  BY DEF DecRefOld, TestNext, ReadHead, heapVars, historyVars
<1>4. PICK l \in {Start, [l0 EXCEPT !.pc = "test", !.old = NULL],
                  [l0 EXCEPT !.pc = "head", !.view = NULL],
                  [l0 EXCEPT !.pc = "mark", !.head = dirty_list_head]} : Go(t, l)
  BY <1>1 DEF DecRefOld, TestNext, ReadHead, Return
<1>5. l.pc \in {"idle", "test", "head", "mark"} /\ (l.pc # "idle" => l.dst = l0.dst)
  <2>1. Start.pc = "idle"
    BY DEF Start
  <2> QED BY <1>4, <2>1 DEF Local
<1>6. ~ Pushing(l) /\ (l.pc \in MarkPcs \cup {"decref"} => l.dst = l0.dst)
  BY <1>5 DEF Pushing, MarkPcs
<1> QED BY <1>1, <1>2, <1>3, <1>4, <1>6, ListsIdle

LEMMA ListsUpdates ==
    ASSUME BaseInv, ListInv, NEW t \in Threads,
           EndOfList(t) \/ UpdateSets(t) \/ FreeRef(t)
    PROVE  ListInv'
<1>1. PICK l0 \in Local : thread[t] = l0 /\ l0.pc \in {"walk", "update", "free"}
  BY DEF BaseInv, TypeOK, EndOfList, UpdateSets, FreeRef, At
<1>2. UNCHANGED <<next, dirty_list_head, vk_sets_mutex, writers>>
  BY DEF EndOfList, UpdateSets, FreeRef, heapVars, historyVars
<1> DEFINE left == Tail(l0.held)
<1>3. PICK l \in {[l0 EXCEPT !.pc = IF l0.held = <<>> THEN "unlock" ELSE "update"],
                  [l0 EXCEPT !.pc = "free"],
                  [l0 EXCEPT !.pc = IF left = <<>> THEN "walk" ELSE "free", !.held = left]} :
          Go(t, l)
  BY <1>1 DEF EndOfList, UpdateSets, FreeRef, Goto
<1>4. l.pc \in {"unlock", "update", "free", "walk"} /\ l.i = l0.i
  BY <1>3 DEF Local
<1>5. ~ Pushing(l) /\ ~ Pushing(l0) /\ l0.pc # "take" /\ l.pc \notin MarkPcs \cup {"decref"}
  BY <1>1, <1>4 DEF Pushing, MarkPcs
<1> QED BY <1>1, <1>2, <1>3, <1>4, <1>5, ListsIdle

\* The threads other than one keep their place among those that mark.
LEMMA OwnKept ==
    ASSUME BaseInv, ListInv, NEW t \in Threads, NEW l, Go(t, l), UNCHANGED writers,
           l.pc \in MarkPcs \cup {"decref"} =>
               l.dst = thread[t].dst /\ thread[t].pc \in MarkPcs \cup {"decref"}
    PROVE  MarksOwn'
<1>1. thread'[t] = l /\ \A u \in Threads : u # t => thread'[u] = thread[u]
  BY Stepped
<1>2. ASSUME NEW u \in Threads, thread'[u].pc \in MarkPcs \cup {"decref"}
      PROVE  u \in writers'[thread'[u].dst]
  <2>1. CASE u = t
    BY <1>1, <1>2, <2>1 DEF ListInv, MarksOwn
  <2>2. CASE u # t
    BY <1>1, <1>2, <2>2 DEF ListInv, MarksOwn
  <2> QED BY <2>1, <2>2
<1> QED BY <1>2 DEF MarksOwn

LEMMA ListsLocks ==
    ASSUME BaseInv, ListInv, NEW t \in Threads, LockSets(t) \/ UnlockSets(t)
    PROVE  ListInv'
<1>1. PICK l0 \in Local : /\ thread[t] = l0 /\ LocalFits(t, l0, vk_sets_mutex)
                          /\ l0.pc \in {"lock", "unlock"}
  BY DEF BaseInv, TypeOK, ControlFits, LockSets, UnlockSets, At
<1>2. UNCHANGED <<next, dirty_list_head, writers>>
  BY DEF LockSets, UnlockSets, heapVars, historyVars
<1>3. /\ \A u \in Threads : u # t => vk_sets_mutex # u /\ vk_sets_mutex' # u
      /\ l0.i = UINT_MAX /\ (vk_sets_mutex = t \/ vk_sets_mutex = NULL)
  BY <1>1, HeapAssumption DEF LockSets, UnlockSets, At, LocalFits, FlushPcs
<1>4. PICK l \in {Start, [l0 EXCEPT !.pc = "take"]} :
          Go(t, l) /\ (vk_sets_mutex' = t => l = [l0 EXCEPT !.pc = "take"])
  BY <1>1, HeapAssumption DEF LockSets, UnlockSets, Goto, Return
<1>5. l.pc \in {"idle", "take"} /\ l.i = UINT_MAX /\ (vk_sets_mutex' = t => l.pc = "take")
  <2>1. Start.pc = "idle" /\ Start.i = UINT_MAX
    BY DEF Start
  <2> QED BY <1>3, <1>4, <2>1 DEF Local
<1>6. ~ Pushing(l) /\ ~ Pushing(l0) /\ l.pc \notin MarkPcs \cup {"decref"}
  BY <1>1, <1>5 DEF Pushing, MarkPcs
<1>7. thread'[t] = l /\ \A u \in Threads : u # t => thread'[u] = thread[u]
  BY <1>4, Stepped
<1>8. PICK f, n, g, m : Parts(f, n, g, m)
  BY DEF ListInv
<1>9. m = 0 /\ g[m] = UINT_MAX
  BY <1>1, <1>3, <1>8, ChainCut DEF Parts, ListsFit
<1>10. ListsFit(f, n, g, m)'
  BY <1>2, <1>3, <1>5, <1>7, <1>8, <1>9 DEF Parts, ListsFit
<1>11. \A u \in Threads : Pushing(thread'[u]) => u # t /\ thread'[u] = thread[u]
  BY <1>6, <1>7
<1>12. PushersFit(f, n, g, m)'
  BY <1>2, <1>8, <1>11 DEF Parts, PushersFit
<1>13. Covered(f, n, g, m)'
  <2> SUFFICES ASSUME NEW d \in Descs, next[d] # 0, ~ On(f, n, d), ~ On(g, m, d)
               PROVE  \E u \in Threads : Pushing(thread'[u]) /\ thread'[u].dst = d
    BY <1>2 DEF Covered
  <2>1. PICK u \in Threads : Pushing(thread[u]) /\ thread[u].dst = d
    BY <1>8 DEF Parts, Covered
  <2>2. thread'[u] = thread[u]
    BY <1>1, <1>6, <1>7, <2>1
  <2> QED BY <2>1, <2>2
<1>14. OwnFits(f, n)'
  BY <1>3, <1>5, <1>7 DEF OwnFits
<1>15. MarksOwn'
  BY <1>2, <1>4, <1>6, OwnKept
<1> QED BY <1>10, <1>12, <1>13, <1>14, <1>15 DEF ListInv, Parts

\* What a thread that pushes knows of its descriptor, and of itself.
LEMMA Pusher ==
    ASSUME BaseInv, ListInv, NEW t \in Threads, thread[t].pc \in {"mark", "push", "relink"}
    PROVE  /\ vk_sets_mutex # t /\ thread[t].dst \in Descs /\ thread[t].head \in Index
           /\ Encode(thread[t].head) # 0 /\ t \in writers[thread[t].dst]
<1>1. PICK l0 \in Local : thread[t] = l0 /\ LocalFits(t, l0, vk_sets_mutex)
  BY DEF BaseInv, TypeOK, ControlFits
<1>2. vk_sets_mutex # t /\ l0.dst \in Descs
  BY <1>1, Marking DEF MarkPcs
<1>3. l0.head \in Index
  BY LocalTypes
<1>4. Encode(l0.head) # 0
  BY <1>3, Encoding
<1>5. t \in writers[l0.dst]
  BY <1>1 DEF ListInv, MarksOwn, MarkPcs
<1> QED BY <1>1, <1>2, <1>3, <1>4, <1>5

LEMMA ListsMarkDesc ==
    ASSUME BaseInv, ListInv, NEW t \in Threads, MarkDesc(t)
    PROVE  ListInv'
<1>1. PICK l0 \in Local : thread[t] = l0 /\ l0.pc = "mark"
  BY DEF BaseInv, TypeOK, MarkDesc, At
<1>2. /\ vk_sets_mutex # t /\ Encode(l0.head) # 0 /\ t \in writers[l0.dst]
  BY <1>1, Pusher
<1>3. PICK c \in Descs : l0.dst = c
  BY <1>1, Pusher
<1>4. UNCHANGED <<dirty_list_head, vk_sets_mutex, writers>>
  BY DEF MarkDesc, historyVars
<1>5. ~ Pushing(l0) /\ l0.pc \in MarkPcs
  BY <1>1 DEF Pushing, MarkPcs
<1>6. CASE next[c] # 0
  <2>1. Go(t, Start) /\ UNCHANGED next
    BY <1>1, <1>3, <1>6 DEF MarkDesc, Return
  <2>2. ~ Pushing(Start) /\ Start.pc \notin MarkPcs \cup {"decref"}
    BY DEF Start, Pushing, MarkPcs
  <2> QED BY <1>1, <1>2, <1>4, <1>5, <2>1, <2>2, ListsIdle
<1>7. CASE next[c] = 0
  <2> DEFINE l == [l0 EXCEPT !.pc = "push"]
  <2>1. Go(t, l) /\ next' = [next EXCEPT ![c] = Encode(l0.head)]
    BY <1>1, <1>3, <1>7 DEF MarkDesc, Goto
  <2>2. l.pc = "push" /\ l.dst = c /\ l.head = l0.head
    BY <1>3 DEF Local
  <2> HIDE DEF l
  <2>3. thread'[t] = l /\ \A u \in Threads : u # t => thread'[u] = thread[u]
    BY <2>1, Stepped
  <2>4. next'[c] = Encode(l0.head) /\ \A d \in Descs : d # c => next'[d] = next[d]
    BY <2>1 DEF BaseInv, TypeOK
  <2>5. PICK f, n, g, m : Parts(f, n, g, m)
    BY DEF ListInv
  <2>6. ~ On(f, n, c) /\ ~ On(g, m, c)
    BY <1>7, <2>5, ChainCut DEF Parts, ListsFit
  <2>7. Chain(next', f, n) /\ Chain(next', g, m)
    BY <2>4, <2>5, <2>6, ChainOff DEF Parts, ListsFit
  <2>8. ListsFit(f, n, g, m)'
    BY <1>2, <1>4, <2>3, <2>5, <2>7 DEF Parts, ListsFit
  <2>9. ASSUME NEW u \in Threads, Pushing(thread[u])
        PROVE  u # t /\ thread[u].dst \in Descs /\ thread[u].dst # c
    <3>1. u # t
      BY <1>1, <1>5, <2>9
    <3>2. thread[u].dst \in Descs
      BY <2>9, Pusher DEF Pushing
    <3>3. next[thread[u].dst] # 0
      BY <2>5, <2>9 DEF Parts, PushersFit
    <3> QED BY <1>7, <3>1, <3>2, <3>3
  <2>10. PushersFit(f, n, g, m)'
    <3> SUFFICES ASSUME NEW u \in Threads, Pushing(thread'[u])
                 PROVE  /\ next'[thread'[u].dst] # 0
                        /\ ~ On(f, n, thread'[u].dst) /\ ~ On(g, m, thread'[u].dst)
                        /\ thread'[u].pc = "push" =>
                               next'[thread'[u].dst] = Encode(thread'[u].head)
                        /\ \A w \in Threads :
                               Pushing(thread'[w]) /\ thread'[w].dst = thread'[u].dst => w = u
      BY DEF PushersFit
    <3>1. CASE u = t
      BY <1>2, <2>2, <2>3, <2>4, <2>6, <2>9, <3>1
    <3>2. CASE u # t
      <4>1. thread'[u] = thread[u] /\ thread[u].dst \in Descs /\ thread[u].dst # c
        BY <2>3, <2>9, <3>2
      <4>2. next'[thread[u].dst] = next[thread[u].dst]
        BY <2>4, <4>1
      <4>3. \A w \in Threads : thread'[w].dst = thread[u].dst => w # t
        BY <2>2, <2>3, <4>1
      <4> QED BY <2>3, <2>5, <4>1, <4>2, <4>3 DEF Parts, PushersFit
    <3> QED BY <3>1, <3>2
  <2>11. Covered(f, n, g, m)'
    <3> SUFFICES ASSUME NEW d \in Descs, next'[d] # 0, ~ On(f, n, d), ~ On(g, m, d)
                 PROVE  \E u \in Threads : Pushing(thread'[u]) /\ thread'[u].dst = d
      BY DEF Covered
    <3>1. CASE d = c
      BY <2>2, <2>3, <3>1 DEF Pushing
    <3>2. CASE d # c
      <4>1. PICK u \in Threads : Pushing(thread[u]) /\ thread[u].dst = d
        BY <2>4, <2>5, <3>2 DEF Parts, Covered
      <4> QED BY <2>3, <2>9, <4>1
    <3> QED BY <3>1, <3>2
  <2>12. OwnFits(f, n)'
    BY <1>2, <1>4, <2>3, <2>5 DEF Parts, OwnFits
  <2>13. MarksOwn'
    BY <1>1, <1>3, <1>4, <1>5, <2>1, <2>2, OwnKept
  <2> QED BY <2>8, <2>10, <2>11, <2>12, <2>13 DEF ListInv, Parts
<1> QED BY <1>6, <1>7

\* A thread that pushes a descriptor has a link of its own to write.
LEMMA ListsStillPushes ==
    ASSUME BaseInv, ListInv, NEW t \in Threads, Pushing(thread[t]), NEW l, Go(t, l),
           Pushing(l), NEW c \in Descs, thread[t].dst = c, l.dst = c,
           \A d \in Descs : d # c => next'[d] = next[d], next'[c] # 0,
           l.pc = "push" => next'[c] = Encode(l.head),
           UNCHANGED <<dirty_list_head, vk_sets_mutex, writers>>
    PROVE  ListInv'
<1>1. thread'[t] = l /\ \A u \in Threads : u # t => thread'[u] = thread[u]
  BY Stepped
<1>2. vk_sets_mutex # t
  BY Pusher DEF Pushing
<1>3. PICK f, n, g, m : Parts(f, n, g, m)
  BY DEF ListInv
<1>4. ~ On(f, n, c) /\ ~ On(g, m, c)
  BY <1>3 DEF Parts, PushersFit
<1>5. Chain(next', f, n) /\ Chain(next', g, m)
  BY <1>3, <1>4, ChainOff DEF Parts, ListsFit
<1>6. ListsFit(f, n, g, m)'
  BY <1>1, <1>2, <1>3, <1>5 DEF Parts, ListsFit
<1>7. \A u \in Threads : u # t /\ Pushing(thread[u]) => thread[u].dst \in Descs /\ thread[u].dst # c
  BY <1>3, Pusher DEF Parts, PushersFit, Pushing
<1>8. PushersFit(f, n, g, m)'
  <2> SUFFICES ASSUME NEW u \in Threads, Pushing(thread'[u])
               PROVE  /\ next'[thread'[u].dst] # 0
                      /\ ~ On(f, n, thread'[u].dst) /\ ~ On(g, m, thread'[u].dst)
                      /\ thread'[u].pc = "push" =>
                             next'[thread'[u].dst] = Encode(thread'[u].head)
                      /\ \A w \in Threads :
                             Pushing(thread'[w]) /\ thread'[w].dst = thread'[u].dst => w = u
    BY DEF PushersFit
  <2>1. CASE u = t
    BY <1>1, <1>4, <1>7, <2>1
  <2>2. CASE u # t
    <3>1. thread'[u] = thread[u] /\ thread[u].dst \in Descs /\ thread[u].dst # c
      BY <1>1, <1>7, <2>2
    <3>2. next'[thread[u].dst] = next[thread[u].dst]
      BY <3>1
    <3>3. \A w \in Threads : thread'[w].dst = thread[u].dst => w # t
      BY <1>1, <3>1
    <3> QED BY <1>1, <1>3, <3>1, <3>2, <3>3 DEF Parts, PushersFit
  <2> QED BY <2>1, <2>2
<1>9. Covered(f, n, g, m)'
  <2> SUFFICES ASSUME NEW d \in Descs, next'[d] # 0, ~ On(f, n, d), ~ On(g, m, d)
               PROVE  \E u \in Threads : Pushing(thread'[u]) /\ thread'[u].dst = d
    BY DEF Covered
  <2>1. CASE d = c
    BY <1>1, <2>1
  <2>2. CASE d # c
    <3>1. PICK u \in Threads : Pushing(thread[u]) /\ thread[u].dst = d
      BY <1>3, <2>2 DEF Parts, Covered
    <3>2. thread'[u] = thread[u]
      BY <1>1, <2>2, <3>1
    <3> QED BY <3>1, <3>2
  <2> QED BY <2>1, <2>2
<1>10. OwnFits(f, n)'
  BY <1>1, <1>2, <1>3 DEF Parts, OwnFits
<1>11. MarksOwn'
  BY OwnKept DEF Pushing, MarkPcs
<1> QED BY <1>6, <1>8, <1>9, <1>10, <1>11 DEF ListInv, Parts

LEMMA ListsRelinkDesc ==
    ASSUME BaseInv, ListInv, NEW t \in Threads, RelinkDesc(t)
    PROVE  ListInv'
<1>1. PICK l0 \in Local : thread[t] = l0 /\ l0.pc = "relink"
  BY DEF BaseInv, TypeOK, RelinkDesc, At
<1>2. PICK c \in Descs : l0.dst = c
  BY <1>1, Pusher
<1> DEFINE l == [l0 EXCEPT !.pc = "push"]
<1>3. Go(t, l) /\ next' = [next EXCEPT ![c] = Encode(l0.head)]
  BY <1>1, <1>2 DEF RelinkDesc, Goto
<1>4. l.pc = "push" /\ l.dst = c /\ l.head = l0.head
  BY <1>2 DEF Local
<1> HIDE DEF l
<1>5. /\ next'[c] = Encode(l0.head) /\ next'[c] # 0
      /\ \A d \in Descs : d # c => next'[d] = next[d]
  BY <1>1, <1>3, Pusher DEF BaseInv, TypeOK
<1>6. UNCHANGED <<dirty_list_head, vk_sets_mutex, writers>>
  BY DEF RelinkDesc, historyVars
<1>7. Pushing(l0) /\ Pushing(l)
  BY <1>1, <1>4 DEF Pushing
<1> QED BY <1>1, <1>2, <1>3, <1>4, <1>5, <1>6, <1>7, ListsStillPushes

LEMMA ListsPushDesc ==
    ASSUME BaseInv, ListInv, NEW t \in Threads, PushDesc(t)
    PROVE  ListInv'
<1>1. PICK l0 \in Local : thread[t] = l0 /\ l0.pc = "push" /\ Pushing(l0)
  BY DEF BaseInv, TypeOK, PushDesc, At, Pushing
<1>2. vk_sets_mutex # t /\ t \in writers[l0.dst]
  BY <1>1, Pusher
<1>3. PICK c \in Descs : l0.dst = c
  BY <1>1, Pusher
<1>4. UNCHANGED <<next, vk_sets_mutex, writers>>
  BY DEF PushDesc, historyVars
<1>5. PICK f, n, g, m : Parts(f, n, g, m)
  BY DEF ListInv
<1>6. /\ next[c] # 0 /\ next[c] = Encode(l0.head) /\ ~ On(f, n, c) /\ ~ On(g, m, c)
      /\ \A u \in Threads : Pushing(thread[u]) /\ thread[u].dst = c => u = t
  BY <1>1, <1>3, <1>5 DEF Parts, PushersFit
<1>7. CASE dirty_list_head # l0.head
  <2> DEFINE l == [l0 EXCEPT !.pc = "relink", !.head = dirty_list_head]
  <2>1. Go(t, l) /\ UNCHANGED dirty_list_head
    BY <1>1, <1>7 DEF PushDesc
  <2>2. l.pc = "relink" /\ l.dst = c
    BY <1>3 DEF Local
  <2> HIDE DEF l
  <2>3. Pushing(l)
    BY <2>2 DEF Pushing
  <2> QED BY <1>1, <1>3, <1>4, <1>6, <2>1, <2>2, <2>3, ListsStillPushes
<1>8. CASE dirty_list_head = l0.head
  <2>1. Go(t, Start) /\ dirty_list_head' = c
    BY <1>1, <1>3, <1>8 DEF PushDesc, Return
  <2>2. ~ Pushing(Start) /\ Start.pc \notin MarkPcs \cup {"decref"}
    BY DEF Start, Pushing, MarkPcs
  <2>3. thread'[t] = Start /\ \A u \in Threads : u # t => thread'[u] = thread[u]
    BY <2>1, Stepped
  <2>4. PICK f2 : /\ Chain(next, f2, n + 1) /\ f2[n + 1] = c
                  /\ \A e : On(f2, n + 1, e) <=> On(f, n, e) \/ e = c
    <3>1. Chain(next, f, n) /\ next[c] = Encode(f[n])
      BY <1>5, <1>6, <1>8 DEF Parts, ListsFit
    <3> QED BY <1>6, <3>1, ChainPush
  <2>5. ListsFit(f2, n + 1, g, m)'
    BY <1>2, <1>4, <1>5, <1>6, <2>1, <2>3, <2>4 DEF Parts, ListsFit
  <2>6. \A u \in Threads : Pushing(thread'[u]) =>
            u # t /\ thread'[u] = thread[u] /\ thread[u].dst # c
    BY <1>6, <2>2, <2>3
  <2>7. PushersFit(f2, n + 1, g, m)'
    BY <1>4, <1>5, <2>4, <2>6 DEF Parts, PushersFit
  <2>8. Covered(f2, n + 1, g, m)'
    <3> SUFFICES ASSUME NEW d \in Descs, next[d] # 0, ~ On(f2, n + 1, d), ~ On(g, m, d)
                 PROVE  \E u \in Threads : Pushing(thread'[u]) /\ thread'[u].dst = d
      BY <1>4 DEF Covered
    <3>1. ~ On(f, n, d) /\ d # c
      BY <2>4
    <3>2. PICK u \in Threads : Pushing(thread[u]) /\ thread[u].dst = d
      BY <1>5, <3>1 DEF Parts, Covered
    <3>3. thread'[u] = thread[u]
      BY <1>1, <1>3, <2>3, <3>1, <3>2
    <3> QED BY <3>2, <3>3
  <2>9. OwnFits(f2, n + 1)'
    <3> SUFFICES ASSUME NEW u \in Threads, NEW d \in Descs, vk_sets_mutex = u,
                        thread'[u].pc # "take", writers[d] = {u}
                 PROVE  ~ On(f2, n + 1, d)
      BY <1>4 DEF OwnFits
    <3>1. u # t /\ thread'[u] = thread[u] /\ d # c
      BY <1>2, <1>3, <2>3
    <3> QED BY <1>5, <2>4, <3>1 DEF Parts, OwnFits
  <2>10. MarksOwn'
    BY <1>4, <2>1, <2>2, OwnKept
  <2> QED BY <2>5, <2>7, <2>8, <2>9, <2>10 DEF ListInv, Parts
<1> QED BY <1>7, <1>8

LEMMA ListsTakeList ==
    ASSUME BaseInv, ListInv, NEW t \in Threads, TakeList(t)
    PROVE  ListInv'
<1>1. PICK l0 \in Local : /\ thread[t] = l0 /\ l0.pc = "take"
                          /\ LocalFits(t, l0, vk_sets_mutex)
  BY DEF BaseInv, TypeOK, ControlFits, TakeList, At
<1>2. vk_sets_mutex = t /\ l0.i = UINT_MAX /\ vk_sets_mutex # NULL
  BY <1>1, HeapAssumption DEF LocalFits, FlushPcs
<1> DEFINE l == [l0 EXCEPT !.pc = "walk", !.i = dirty_list_head]
<1>3. /\ Go(t, l) /\ dirty_list_head' = UINT_MAX
      /\ UNCHANGED <<next, vk_sets_mutex, writers>>
  BY <1>1 DEF TakeList, historyVars
<1>4. l.pc = "walk" /\ l.i = dirty_list_head
  BY <1>1 DEF Local
<1> HIDE DEF l
<1>5. ~ Pushing(l) /\ ~ Pushing(l0) /\ l.pc \notin MarkPcs \cup {"decref"}
  BY <1>1, <1>4 DEF Pushing, MarkPcs
<1>6. thread'[t] = l /\ \A u \in Threads : u # t => thread'[u] = thread[u]
  BY <1>3, Stepped
<1>7. PICK f, n, g, m : Parts(f, n, g, m)
  BY DEF ListInv
<1>8. m = 0 /\ \A d : ~ On(g, m, d)
  BY <1>1, <1>2, <1>7, ChainCut DEF Parts, ListsFit
<1>9. f[0] = UINT_MAX /\ Chain(next, f, 0) /\ \A d : ~ On(f, 0, d)
  BY <1>7, ChainCut DEF Parts, ListsFit, Chain
<1>10. ListsFit(f, 0, f, n)'
  BY <1>2, <1>3, <1>4, <1>6, <1>7, <1>9 DEF Parts, ListsFit
<1>11. \A u \in Threads : Pushing(thread'[u]) => u # t /\ thread'[u] = thread[u]
  BY <1>5, <1>6
<1>12. PushersFit(f, 0, f, n)'
  BY <1>3, <1>7, <1>9, <1>11 DEF Parts, PushersFit
<1>13. Covered(f, 0, f, n)'
  <2> SUFFICES ASSUME NEW d \in Descs, next[d] # 0, ~ On(f, n, d)
               PROVE  \E u \in Threads : Pushing(thread'[u]) /\ thread'[u].dst = d
    BY <1>3 DEF Covered
  <2>1. PICK u \in Threads : Pushing(thread[u]) /\ thread[u].dst = d
    BY <1>7, <1>8 DEF Parts, Covered
  <2>2. thread'[u] = thread[u]
    BY <1>1, <1>5, <1>6, <2>1
  <2> QED BY <2>1, <2>2
<1>14. OwnFits(f, 0)'
  BY <1>9 DEF OwnFits
<1>15. MarksOwn'
  BY <1>3, <1>5, OwnKept
<1> QED BY <1>10, <1>12, <1>13, <1>14, <1>15 DEF ListInv, Parts

LEMMA ListsWalkList ==
    ASSUME BaseInv, ListInv, NEW t \in Threads, WalkList(t)
    PROVE  ListInv'
<1>1. PICK l0 \in Local : /\ thread[t] = l0 /\ l0.pc = "walk" /\ l0.i # UINT_MAX
                          /\ LocalFits(t, l0, vk_sets_mutex)
  BY DEF BaseInv, TypeOK, ControlFits, WalkList, At
<1>2. vk_sets_mutex = t /\ vk_sets_mutex # NULL
  BY <1>1, HeapAssumption DEF LocalFits, FlushPcs
<1>3. PICK d \in Descs : l0.i = d
  BY <1>1 DEF Local, Index
<1> DEFINE i == Decode(next[d])
           l == [l0 EXCEPT !.pc = "read", !.src = d, !.i = i]
<1>4. /\ Go(t, l) /\ next' = [next EXCEPT ![d] = 0]
      /\ UNCHANGED <<dirty_list_head, vk_sets_mutex, writers>>
  BY <1>1, <1>3 DEF WalkList, historyVars
<1>5. l.pc = "read" /\ l.i = i
  BY <1>1 DEF Local
<1> HIDE DEF l
<1>6. ~ Pushing(l) /\ ~ Pushing(l0) /\ l.pc \notin MarkPcs \cup {"decref"}
  BY <1>1, <1>5 DEF Pushing, MarkPcs
<1>7. thread'[t] = l /\ \A u \in Threads : u # t => thread'[u] = thread[u]
  BY <1>4, Stepped
<1>8. next'[d] = 0 /\ \A e \in Descs : e # d => next'[e] = next[e]
  BY <1>4 DEF BaseInv, TypeOK
<1>9. PICK f, n, g, m : Parts(f, n, g, m)
  BY DEF ListInv
<1>10. g[m] = d /\ m # 0 /\ Chain(next, g, m)
  BY <1>1, <1>2, <1>3, <1>9, ChainCut DEF Parts, ListsFit
<1>11. /\ Chain(next', g, m - 1) /\ i = g[m - 1]
       /\ On(g, m, d) /\ ~ On(g, m - 1, d)
       /\ \A e : On(g, m, e) <=> On(g, m - 1, e) \/ e = d
  <2>1. \A e \in Descs : e # g[m] => next'[e] = next[e]
    BY <1>8, <1>10
  <2>2. Chain(next', g, m - 1) /\ Decode(next[g[m]]) = g[m - 1]
    BY <1>10, <2>1, ChainPop
  <2>3. /\ On(g, m, g[m]) /\ ~ On(g, m - 1, g[m])
        /\ \A e : On(g, m, e) <=> On(g, m - 1, e) \/ e = g[m]
    BY <1>10, OnPop
  <2> QED BY <1>10, <2>2, <2>3
<1> HIDE DEF i
<1>12. ~ On(f, n, d) /\ Chain(next', f, n)
  BY <1>8, <1>9, <1>11, ChainOff DEF Parts, ListsFit
<1>13. ListsFit(f, n, g, m - 1)'
  BY <1>2, <1>4, <1>5, <1>7, <1>9, <1>11, <1>12 DEF Parts, ListsFit
<1>14. \A u \in Threads : Pushing(thread'[u]) =>
           /\ u # t /\ thread'[u] = thread[u]
           /\ next'[thread[u].dst] = next[thread[u].dst]
           /\ ~ On(g, m - 1, thread[u].dst)
  <2>1. \A u \in Threads : Pushing(thread'[u]) => u # t /\ thread'[u] = thread[u]
    BY <1>6, <1>7
  <2>2. \A u \in Threads : Pushing(thread[u]) =>
            thread[u].dst \in Descs /\ ~ On(g, m, thread[u].dst)
    BY <1>9, Pusher DEF Pushing, Parts, PushersFit
  <2> QED BY <1>8, <1>11, <2>1, <2>2
<1>15. PushersFit(f, n, g, m - 1)'
  BY <1>9, <1>14 DEF Parts, PushersFit
<1>16. Covered(f, n, g, m - 1)'
  <2> SUFFICES ASSUME NEW e \in Descs, next'[e] # 0, ~ On(f, n, e), ~ On(g, m - 1, e)
               PROVE  \E u \in Threads : Pushing(thread'[u]) /\ thread'[u].dst = e
    BY DEF Covered
  <2>1. next[e] # 0 /\ ~ On(g, m, e)
    BY <1>8, <1>11
  <2>2. PICK u \in Threads : Pushing(thread[u]) /\ thread[u].dst = e
    BY <1>9, <2>1 DEF Parts, Covered
  <2>3. thread'[u] = thread[u]
    BY <1>1, <1>6, <1>7, <2>2
  <2> QED BY <2>2, <2>3
<1>17. OwnFits(f, n)'
  BY <1>1, <1>4, <1>7, <1>9 DEF Parts, OwnFits
<1>18. MarksOwn'
  BY <1>4, <1>6, OwnKept
<1> QED BY <1>13, <1>15, <1>16, <1>17, <1>18 DEF ListInv, Parts

LEMMA ListInit == Init => ListInv
<1> SUFFICES ASSUME Init PROVE ListInv
  OBVIOUS
<1>1. (\A t \in Threads : thread[t] = Start) /\ \A d \in Descs : next[d] = 0
  BY DEF Init
<1>2. Start.pc = "idle" /\ Start.i = UINT_MAX
  BY DEF Start
<1>3. dirty_list_head = UINT_MAX /\ vk_sets_mutex = NULL
  BY DEF Init
<1>4. PICK f : Chain(next, f, 0)
  BY ChainEmpty
<1>5. f[0] = UINT_MAX /\ \A d : ~ On(f, 0, d)
  BY <1>4, ChainCut DEF Chain
<1>6. ListsFit(f, 0, f, 0) /\ OwnFits(f, 0)
  BY <1>3, <1>4, <1>5, HeapAssumption DEF ListsFit, OwnFits
<1>7. \A t \in Threads : ~ Pushing(thread[t]) /\ thread[t].pc \notin MarkPcs \cup {"decref"}
  BY <1>1, <1>2 DEF Pushing, MarkPcs
<1>8. PushersFit(f, 0, f, 0) /\ MarksOwn
  BY <1>7 DEF PushersFit, MarksOwn
<1>9. Covered(f, 0, f, 0)
  BY <1>1 DEF Covered
<1> QED BY <1>6, <1>8, <1>9 DEF ListInv, Parts

LEMMA ListsStutter ==
    ASSUME ListInv, UNCHANGED vars
    PROVE  ListInv'
<1>1. UNCHANGED <<next, dirty_list_head, thread, vk_sets_mutex, writers>>
  BY DEF vars, heapVars, historyVars
<1>2. PICK f, n, g, m : Parts(f, n, g, m)
  BY DEF ListInv
<1>3. Parts(f, n, g, m)'
  BY <1>1, <1>2 DEF Parts, ListsFit, PushersFit, Covered, OwnFits
<1>4. MarksOwn'
  BY <1>1 DEF ListInv, MarksOwn
<1> QED BY <1>3, <1>4 DEF ListInv

LEMMA ListNext == BaseInv /\ ListInv /\ [Next]_vars => ListInv'
<1> SUFFICES ASSUME BaseInv, ListInv, [Next]_vars PROVE ListInv'
  OBVIOUS
<1>1. CASE UNCHANGED vars
  BY <1>1, ListsStutter
<1>2. ASSUME NEW t \in Threads, Call(t) PROVE ListInv'
  BY <1>2, ListsCalls DEF Call
<1>3. ASSUME NEW t \in Threads, Step(t) PROVE ListInv'
  <2>1. CASE ReadObject(t) \/ IncRef(t) \/ CheckObject(t) \/ UndoRef(t)
    BY <2>1, ListsRefs
  <2>2. CASE ReplaceObject(t) \/ DecRefOld(t) \/ TestNext(t)
    BY <2>2, ListsReplaceObject, ListsMarks
  <2>3. CASE ReadHead(t) \/ MarkDesc(t) \/ PushDesc(t) \/ RelinkDesc(t)
    BY <2>3, ListsMarks, ListsMarkDesc, ListsPushDesc, ListsRelinkDesc
  <2>4. CASE LockSets(t) \/ TakeList(t) \/ WalkList(t) \/ EndOfList(t)
    BY <2>4, ListsLocks, ListsTakeList, ListsWalkList, ListsUpdates
  <2>5. CASE UpdateSets(t) \/ FreeRef(t) \/ UnlockSets(t)
    BY <2>5, ListsUpdates, ListsLocks
  <2> QED BY <1>3, <2>1, <2>2, <2>3, <2>4, <2>5 DEF Step
<1> QED BY <1>1, <1>2, <1>3 DEF Next

----------------------------------------------------------------------------
(* A queue sees what it wrote.                                             *)

\* When the flush is done, only a descriptor that others write may have a link.
LEMMA OwnIsClean ==
    ASSUME BaseInv, ListInv, NEW t \in Threads, thread[t].pc = "unlock",
           NEW d \in Descs, writers[d] = {t}
    PROVE  next[d] = 0
<1>1. vk_sets_mutex = t /\ thread[t].i = UINT_MAX
  BY DEF BaseInv, ControlFits, LocalFits, FlushPcs
<1>2. PICK f, n, g, m : Parts(f, n, g, m)
  BY DEF ListInv
<1>3. ~ On(f, n, d)
  BY <1>1, <1>2 DEF Parts, OwnFits
<1>4. ~ On(g, m, d)
  BY <1>1, <1>2, ChainCut DEF Parts, ListsFit
<1>5. ASSUME NEW u \in Threads, Pushing(thread[u]), thread[u].dst = d PROVE FALSE
  BY <1>5 DEF ListInv, MarksOwn, MarkPcs, Pushing
<1> QED BY <1>2, <1>3, <1>4, <1>5 DEF Parts, Covered

\* d3d12_command_queue_execute(): when a queue has flushed a heap, and before it
\* executes the command lists, Vulkan shows the last view that its thread wrote to
\* a descriptor no other thread wrote, even if the device worker was half way
\* through that descriptor when the queue waited for the mutex.
THEOREM QueueSeesItsWrites == Spec => []FlushShowsOwnWrites
<1>1. BaseInv /\ AllSettled /\ ListInv => FlushShowsOwnWrites
  <2> SUFFICES ASSUME BaseInv, AllSettled, ListInv, NEW t \in Threads,
                      thread[t].pc = "unlock", NEW d \in Descs, writers[d] = {t},
                      object[d] # NULL
               PROVE  vk_set[d] = version[object[d]]
    BY DEF FlushShowsOwnWrites, At
  <2>1. next[d] = 0
    BY OwnIsClean
  <2>2. vk_sets_mutex = t /\ thread[t].held = <<>>
    BY DEF BaseInv, ControlFits, LocalFits, FlushPcs
  <2>3. ASSUME NEW u \in Threads, Marks(thread[u], d, object[d]) PROVE FALSE
    <3>1. u \in {t}
      BY <2>3 DEF Marks, ListInv, MarksOwn, MarkPcs
    <3> QED BY <2>3, <3>1 DEF Marks
  <2>4. ASSUME NEW u \in Threads, vk_sets_mutex = u, Reads(thread[u], d) PROVE FALSE
    BY <2>2, <2>4 DEF Reads, RefPcs
  <2>5. ASSUME NEW u \in Threads, ToWrite(thread[u], d, object[d]) PROVE FALSE
    <3>1. thread[u].held = <<>>
      BY <2>2 DEF BaseInv, ControlFits, LocalFits
    <3> QED BY <2>5, <3>1 DEF ToWrite, Buffers, Has, ToSet
  <2> QED BY <2>1, <2>3, <2>4, <2>5 DEF AllSettled, Settled
<1> QED BY <1>1, BaseInit, BaseNext, SettledInit, SettledNext, ListInit, ListNext, PTL DEF Spec

----------------------------------------------------------------------------
(* The lists as the flush walks them.                                      *)

\* A list has no element twice, and so no more elements than there are descriptors.
LEMMA ChainShort ==
    ASSUME NEW nx, NEW f, NEW n, Chain(nx, f, n)
    PROVE  n <= NumDescs
<1> SUFFICES ASSUME NumDescs < n PROVE FALSE
  BY HeapAssumption DEF Chain
<1> DEFINE h == [k \in 1 .. n |-> f[k]]
<1>1. NumDescs \in Nat /\ n \in Nat
  BY HeapAssumption DEF Chain
<1>2. IsFiniteSet(1 .. n) /\ Cardinality(1 .. n) = n
  BY <1>1, FS_Interval
<1>3. h \in [1 .. n -> Descs]
  BY DEF Chain
<1>4. \A j, k \in 1 .. n : h[j] = h[k] => j = k
  BY DEF Chain
<1> HIDE DEF h
<1>5. PICK j \in 1 .. n, k \in 1 .. n : j # k /\ h[j] = h[k]
  BY <1>2, <1>3, DescsFinite, FS_PigeonHole
<1> QED BY <1>4, <1>5

\* ListFrom() from the first element has the whole list, and the end, in it.
LEMMA Walked ==
    ASSUME NEW f, NEW n, Chain(next, f, n)
    PROVE  ListFrom(f[n]) = {f[k] : k \in 0 .. n}
<1> DEFINE step(h) == [k \in 0 .. NumDescs |->
              IF k = 0 THEN f[n]
              ELSE IF h[k - 1] = UINT_MAX THEN UINT_MAX ELSE Decode(next[h[k - 1]])]
           nth == CHOOSE h : h = step(h)
           g == [k \in 0 .. NumDescs |-> IF k <= n THEN f[n - k] ELSE UINT_MAX]
<1>0. NumDescs \in Nat /\ n \in Nat /\ n <= NumDescs /\ f[0] = UINT_MAX
  BY HeapAssumption, ChainShort DEF Chain
<1>1. ASSUME NEW k \in 1 .. n PROVE f[k] # UINT_MAX /\ Decode(next[f[k]]) = f[k - 1]
  <2>1. f[k] \in Descs /\ f[k - 1] \in Index /\ next[f[k]] = Encode(f[k - 1])
    BY DEF Chain
  <2> QED BY <2>1, Encoding
<1>2. g = step(g)
  <2>1. ASSUME NEW k \in 0 .. NumDescs PROVE g[k] = step(g)[k]
    <3>1. CASE k = 0
      BY <1>0, <3>1
    <3>2. CASE k # 0 /\ k <= n
      <4>1. g[k - 1] = f[n - k + 1] /\ g[k] = f[n - k]
        BY <1>0, <3>2
      <4>2. n - k + 1 \in 1 .. n /\ n - k = (n - k + 1) - 1
        BY <1>0, <3>2
      <4>3. f[n - k + 1] # UINT_MAX /\ Decode(next[f[n - k + 1]]) = f[n - k]
        BY <1>1, <4>2
      <4> QED BY <3>2, <4>1, <4>3
    <3>3. CASE k > n
      <4>1. g[k - 1] = UINT_MAX
        BY <1>0, <3>3
      <4> QED BY <1>0, <3>3, <4>1
    <3> QED BY <1>0, <3>1, <3>2, <3>3
  <2> QED BY <2>1
<1>3. nth = step(nth)
  <2>1. \E h : h = step(h)
    BY <1>2
  <2> HIDE DEF step
  <2> QED BY <2>1
<1>4. ListFrom(f[n]) = {nth[k] : k \in 0 .. NumDescs}
  BY DEF ListFrom
<1>5. ASSUME NEW k \in 0 .. NumDescs PROVE nth[k] = g[k]
  <2> DEFINE S == {j \in 0 .. NumDescs : nth[j] # g[j]}
  <2>1. SUFFICES S = {}
    BY <2>1
  <2>2. SUFFICES ASSUME S # {} PROVE FALSE
    OBVIOUS
  <2>3. PICK j \in S : \A i \in S : j <= i
    <3>1. S \in SUBSET Nat
      BY <1>0
    <3> QED BY <2>2, <3>1, Least
  <2>4. j \in 0 .. NumDescs /\ nth[j] # g[j]
    OBVIOUS
  <2>5. j # 0 => nth[j - 1] = g[j - 1]
    <3>1. j # 0 => j - 1 \in 0 .. NumDescs /\ ~ j <= j - 1
      BY <1>0, <2>4
    <3> QED BY <2>3, <3>1
  <2> HIDE DEF nth, g, S
  <2>6. nth[j] = step(nth)[j] /\ g[j] = step(g)[j]
    BY <1>2, <1>3
  <2>7. step(nth)[j] = step(g)[j]
    BY <2>4, <2>5
  <2> QED BY <2>4, <2>6, <2>7
<1> HIDE DEF nth
<1>6. ListFrom(f[n]) = {g[k] : k \in 0 .. NumDescs}
  BY <1>4, <1>5
<1>7. ASSUME NEW k \in 0 .. NumDescs PROVE g[k] \in {f[j] : j \in 0 .. n}
  <2>1. CASE k <= n
    <3>1. n - k \in 0 .. n
      BY <1>0, <2>1
    <3> QED BY <2>1, <3>1
  <2>2. CASE k > n
    <3>1. 0 \in 0 .. n /\ g[k] = f[0]
      BY <1>0, <2>2
    <3> QED BY <3>1
  <2> QED BY <1>0, <2>1, <2>2
<1>8. ASSUME NEW j \in 0 .. n PROVE f[j] \in {g[k] : k \in 0 .. NumDescs}
  <2>1. n - j \in 0 .. NumDescs /\ n - (n - j) = j /\ n - j <= n
    BY <1>0
  <2>2. g[n - j] = f[j]
    BY <2>1
  <2> QED BY <2>1, <2>2
<1> QED BY <1>6, <1>7, <1>8

LEMMA OnList ==
    ASSUME NEW f, NEW n, Chain(next, f, n)
    PROVE  /\ UINT_MAX \in ListFrom(f[n])
           /\ \A d \in Descs : d \in ListFrom(f[n]) <=> On(f, n, d)
<1>1. ListFrom(f[n]) = {f[k] : k \in 0 .. n}
  BY Walked
<1>2. n \in Nat /\ f[0] = UINT_MAX /\ UINT_MAX \notin Descs
  BY Encoding DEF Chain, Index
<1>3. 0 \in 0 .. n /\ \A k \in 0 .. n : k = 0 \/ k \in 1 .. n
  BY <1>2
<1>4. \A k \in 1 .. n : k \in 0 .. n
  BY <1>2
<1> QED BY <1>1, <1>2, <1>3, <1>4 DEF On

LEMMA AtMostOne ==
    ASSUME NEW S, \A x, y \in S : x = y
    PROVE  Cardinality(S) = IF S = {} THEN 0 ELSE 1
<1>1. CASE S = {}
  BY <1>1, FS_EmptySet
<1>2. CASE S # {}
  <2>1. PICK x : S = {x}
    BY <1>2
  <2> QED BY <1>2, <2>1, FS_Singleton
<1> QED BY <1>1, <1>2

\* d3d12_desc_mark_as_modified() against d3d12_desc_flush_vk_heap_updates_locked():
\* whatever threads push descriptors while flushes take the list, a descriptor that
\* has a link is in one place, once, and no list is circular: the flush ends.
THEOREM ListsAreSound == Spec => []DirtyListSound
<1>1. BaseInv /\ ListInv => DirtyListSound
  <2> SUFFICES ASSUME BaseInv, ListInv PROVE DirtyListSound
    OBVIOUS
  <2>1. PICK f, n, g, m : Parts(f, n, g, m)
    BY DEF ListInv
  <2>2. /\ UINT_MAX \in ListFrom(dirty_list_head)
        /\ \A d \in Descs : d \in ListFrom(dirty_list_head) <=> On(f, n, d)
    BY <2>1, OnList DEF Parts, ListsFit
  <2>3. ASSUME NEW t \in Threads
        PROVE  /\ UINT_MAX \in ListFrom(thread[t].i)
               /\ \A d \in Descs : d \in ListFrom(thread[t].i) <=>
                      vk_sets_mutex = t /\ On(g, m, d)
    <3>1. CASE vk_sets_mutex = t
      BY <2>1, <3>1, OnList DEF Parts, ListsFit
    <3>2. CASE vk_sets_mutex # t
      <4>1. thread[t].i = UINT_MAX
        BY <3>2 DEF BaseInv, ControlFits, LocalFits
      <4>2. Chain(next, f, 0) /\ f[0] = UINT_MAX /\ \A d : ~ On(f, 0, d)
        BY <2>1, ChainCut DEF Parts, ListsFit, Chain
      <4> QED BY <3>2, <4>1, <4>2, OnList
    <3> QED BY <3>1, <3>2
  <2>4. ASSUME NEW d \in Descs
        PROVE  LET lists == {x \in {dirty_list_head} : d \in ListFrom(x)}
                   taken == {t \in Threads : d \in ListFrom(thread[t].i)}
                   pushed == {t \in Threads :
                                  thread[t].dst = d /\ thread[t].pc \in {"push", "relink"}}
               IN  Cardinality(lists) + Cardinality(taken) + Cardinality(pushed)
                       = IF next[d] = 0 THEN 0 ELSE 1
    <3> DEFINE lists == {x \in {dirty_list_head} : d \in ListFrom(x)}
               taken == {t \in Threads : d \in ListFrom(thread[t].i)}
               pushed == {t \in Threads :
                              thread[t].dst = d /\ thread[t].pc \in {"push", "relink"}}
               pushes == \E t \in Threads : Pushing(thread[t]) /\ thread[t].dst = d
    <3>1. (\A x, y \in lists : x = y) /\ (lists # {} <=> On(f, n, d))
      BY <2>2
    <3>2. (\A x, y \in taken : x = y) /\ (taken # {} <=> On(g, m, d))
      <4>1. \A t \in Threads : t \in taken <=> vk_sets_mutex = t /\ On(g, m, d)
        BY <2>3
      <4>2. On(g, m, d) => vk_sets_mutex \in Threads
        BY <2>1, ChainCut DEF Parts, ListsFit, BaseInv, TypeOK
      <4> QED BY <4>1, <4>2
    <3>3. (\A x, y \in pushed : x = y) /\ (pushed # {} <=> pushes)
      BY <2>1 DEF Parts, PushersFit, Pushing
    <3> HIDE DEF lists, taken, pushed
    <3>4. /\ Cardinality(lists) = IF On(f, n, d) THEN 1 ELSE 0
          /\ Cardinality(taken) = IF On(g, m, d) THEN 1 ELSE 0
          /\ Cardinality(pushed) = IF pushes THEN 1 ELSE 0
      BY <3>1, <3>2, <3>3, AtMostOne
    <3>5. /\ ~ (On(f, n, d) /\ On(g, m, d)) /\ (pushes => ~ On(f, n, d) /\ ~ On(g, m, d))
          /\ next[d] # 0 <=> On(f, n, d) \/ On(g, m, d) \/ pushes
      <4>1. ~ (On(f, n, d) /\ On(g, m, d))
        BY <2>1 DEF Parts, ListsFit
      <4>2. pushes => next[d] # 0 /\ ~ On(f, n, d) /\ ~ On(g, m, d)
        BY <2>1 DEF Parts, PushersFit
      <4>3. On(f, n, d) \/ On(g, m, d) => next[d] # 0
        BY <2>1, ChainCut DEF Parts, ListsFit
      <4>4. next[d] # 0 => On(f, n, d) \/ On(g, m, d) \/ pushes
        BY <2>1 DEF Parts, Covered
      <4> QED BY <4>1, <4>2, <4>3, <4>4
    <3> HIDE DEF pushes
    <3>6. Cardinality(lists) + Cardinality(taken) + Cardinality(pushed)
              = IF next[d] = 0 THEN 0 ELSE 1
      BY <3>4, <3>5
    <3> QED BY <3>6 DEF lists, taken, pushed
  <2> QED BY <2>2, <2>3, <2>4 DEF DirtyListSound
<1> QED BY <1>1, BaseInit, BaseNext, ListInit, ListNext, PTL DEF Spec
=============================================================================
