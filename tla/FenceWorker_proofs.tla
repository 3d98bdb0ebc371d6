------------------------ MODULE FenceWorker_proofs ------------------------
(***************************************************************************)
(* The references to fences, for any finite number of command queues and   *)
(* any number of fences: each one that somebody holds is counted, none is  *)
(* counted twice, and a fence that an operation or a worker refers to is   *)
(* not freed.                                                              *)
(*                                                                         *)
(* The count goes up and down with one element of one sequence at a time,  *)
(* or with all of a queue's at once; the inductive invariant adds what     *)
(* this needs of the control: an operation or a job is there when it is    *)
(* taken, and the array that a worker takes replaces an empty one.         *)
(*                                                                         *)
(* Then the refinement: a worker with its two arrays is a queue of reports *)
(* (ReportQueue).  The jobs of the array that it works on come before      *)
(* those of the array that others append to, so each step moves the front  *)
(* of one sequence, or appends to it, or is a stutter.                     *)
(***************************************************************************)
EXTENDS FenceWorker, FiniteSetTheorems, SequenceTheorems, TLAPS

\* Where the threads are and what is then in the sequences.
ControlFits ==
    \A w \in Workers :
        /\ flush[w] = "destroy_op" => ops[w] # <<>> /\ ~should_exit[w]
        /\ pc[w] = "exited" => should_exit[w]
        /\ pc[w] = "decref" => cur_fences[w] # <<>>
        /\ pc[w] \in {"lock", "wait", "woken", "exited"} => cur_fences[w] = <<>>

WorkerInv == TypeOK /\ ControlFits /\ ReferencesAccounted

----------------------------------------------------------------------------
(* Counting the places of a sequence.                                      *)

\* The places of a sequence behind the first one, moved down by one.
LEMMA ShiftedPlaces ==
    ASSUME NEW n \in Nat, NEW I \in SUBSET (1 .. n + 1)
    PROVE  LET J == {i \in 1 .. n : i + 1 \in I} IN
           /\ IsFiniteSet(I) /\ IsFiniteSet(J)
           /\ Cardinality(I) \in Nat /\ Cardinality(J) \in Nat
           /\ Cardinality(J) = Cardinality(I) - (IF 1 \in I THEN 1 ELSE 0)
<1> DEFINE J == {i \in 1 .. n : i + 1 \in I}
           K == I \ {1}
           down == [i \in K |-> i - 1]
<1>1. IsFiniteSet(1 .. n + 1)
  BY FS_Interval
<1>2. IsFiniteSet(I) /\ Cardinality(I) \in Nat
  BY <1>1, FS_Subset, FS_CardinalityType
<1>3. IsFiniteSet(K) /\ Cardinality(K) = Cardinality(I) - (IF 1 \in I THEN 1 ELSE 0)
  BY <1>2, FS_RemoveElement
<1>4. down \in Bijection(K, J)
  <2>1. \A i \in K : i \in 1 .. n + 1 /\ i # 1 /\ i - 1 \in J
    OBVIOUS
  <2>2. down \in [K -> J]
    BY <2>1
  <2>3. \A i, k \in K : down[i] = down[k] => i = k
    BY <2>1
  <2>4. \A j \in J : j + 1 \in K /\ down[j + 1] = j
    OBVIOUS
  <2> QED BY <2>2, <2>3, <2>4 DEF Bijection, Injection, Surjection, IsInjective
<1>5. ExistsBijection(K, J)
  BY <1>4 DEF ExistsBijection
<1>6. IsFiniteSet(J) /\ Cardinality(J) = Cardinality(K)
  BY <1>3, <1>5, FS_Bijection
<1>7. Cardinality(J) \in Nat
  BY <1>6, FS_CardinalityType
<1> QED BY <1>2, <1>3, <1>6, <1>7

\* One more place at the end.
LEMMA GrownPlaces ==
    ASSUME NEW n \in Nat, NEW I \in SUBSET (1 .. n), NEW J, NEW hit \in BOOLEAN,
           J = IF hit THEN I \cup {n + 1} ELSE I
    PROVE  Cardinality(J) = Cardinality(I) + (IF hit THEN 1 ELSE 0)
<1>1. n + 1 \notin I
  OBVIOUS
<1>2. IsFiniteSet(1 .. n)
  BY FS_Interval
<1>3. IsFiniteSet(I) /\ Cardinality(I) \in Nat
  BY <1>2, FS_Subset, FS_CardinalityType
<1>4. CASE hit
  BY <1>1, <1>3, <1>4, FS_AddElement
<1>5. CASE ~hit
  BY <1>3, <1>5
<1> QED BY <1>4, <1>5

\* The places of a fence in a sequence of operations.
FencesAt(o, f) == {i \in DOMAIN o : o[i] = f}

LEMMA FencesCount ==
    ASSUME NEW o \in Seq(WorkerFences), NEW f
    PROVE  IsFiniteSet(FencesAt(o, f)) /\ Cardinality(FencesAt(o, f)) \in Nat
<1>1. IsFiniteSet(1 .. Len(o)) /\ DOMAIN o = 1 .. Len(o)
  BY FS_Interval, LenProperties
<1> QED BY <1>1, FS_Subset, FS_CardinalityType DEF FencesAt

LEMMA FencesOfAppend ==
    ASSUME NEW o \in Seq(WorkerFences), NEW f, NEW g \in WorkerFences
    PROVE  Cardinality(FencesAt(Append(o, g), f)) =
               Cardinality(FencesAt(o, f)) + (IF g = f THEN 1 ELSE 0)
<1>1. PICK n \in Nat : Len(o) = n
  OBVIOUS
<1>2. PICK p \in Seq(WorkerFences) : p = Append(o, g)
  BY AppendProperties
<1>3. Len(p) = n + 1 /\ p[n + 1] = g /\ \A i \in 1 .. n : p[i] = o[i]
  BY <1>1, <1>2, AppendProperties
<1>4. DOMAIN o = 1 .. n /\ DOMAIN p = 1 .. n + 1
  BY <1>1, <1>3, LenProperties
<1>5. \A i : i \in 1 .. n + 1 <=> i \in 1 .. n \/ i = n + 1
  OBVIOUS
<1>6. PICK hit \in BOOLEAN : hit <=> g = f
  OBVIOUS
<1>7. FencesAt(p, f) = IF hit THEN FencesAt(o, f) \cup {n + 1} ELSE FencesAt(o, f)
  BY <1>3, <1>4, <1>5, <1>6 DEF FencesAt
<1>8. FencesAt(o, f) \in SUBSET (1 .. n)
  BY <1>4 DEF FencesAt
<1>9. Cardinality(FencesAt(p, f)) = Cardinality(FencesAt(o, f)) + (IF hit THEN 1 ELSE 0)
  <2>1. PICK I, J : I = FencesAt(o, f) /\ J = FencesAt(p, f)
    OBVIOUS
  <2>2. I \in SUBSET (1 .. n) /\ J = IF hit THEN I \cup {n + 1} ELSE I
    BY <1>7, <1>8, <2>1
  <2>3. Cardinality(J) = Cardinality(I) + (IF hit THEN 1 ELSE 0)
    BY <2>2, GrownPlaces
  <2> QED BY <2>1, <2>3
<1> QED BY <1>2, <1>6, <1>9

LEMMA FencesOfTail ==
    ASSUME NEW o \in Seq(WorkerFences), NEW f, o # <<>>
    PROVE  Cardinality(FencesAt(Tail(o), f)) =
               Cardinality(FencesAt(o, f)) - (IF Head(o) = f THEN 1 ELSE 0)
<1>1. PICK n \in Nat : Len(o) = n + 1
  <2>1. PICK m \in Nat : Len(o) = m /\ m # 0
    BY EmptySeq
  <2>2. m - 1 \in Nat /\ m = (m - 1) + 1
    BY <2>1
  <2> QED BY <2>1, <2>2
<1>2. PICK p \in Seq(WorkerFences) : p = Tail(o)
  BY HeadTailProperties
<1>3. Len(p) = n /\ o[1] = Head(o) /\ \A i \in 1 .. n : p[i] = o[i + 1]
  BY <1>1, <1>2, HeadTailProperties
<1>4. DOMAIN o = 1 .. n + 1 /\ DOMAIN p = 1 .. n
  BY <1>1, <1>3, LenProperties
<1> DEFINE I == FencesAt(o, f)
<1>5. I \in SUBSET (1 .. n + 1) /\ (1 \in I <=> Head(o) = f)
  BY <1>3, <1>4 DEF FencesAt
<1>6. FencesAt(p, f) = {i \in 1 .. n : i + 1 \in I}
  BY <1>3, <1>4 DEF FencesAt
<1> HIDE DEF I
<1>7. Cardinality(FencesAt(p, f)) = Cardinality(I) - (IF 1 \in I THEN 1 ELSE 0)
  BY <1>5, <1>6, ShiftedPlaces
<1> QED BY <1>2, <1>5, <1>7 DEF I

\* The same for a sequence of jobs.
LEMMA JobsCount ==
    ASSUME NEW s \in Seq(Job), NEW f
    PROVE  IsFiniteSet(JobsAt(s, f)) /\ Cardinality(JobsAt(s, f)) \in Nat
<1>1. IsFiniteSet(1 .. Len(s)) /\ DOMAIN s = 1 .. Len(s)
  BY FS_Interval, LenProperties
<1> QED BY <1>1, FS_Subset, FS_CardinalityType DEF JobsAt

LEMMA JobsOfAppend ==
    ASSUME NEW s \in Seq(Job), NEW f, NEW j \in Job
    PROVE  Cardinality(JobsAt(Append(s, j), f)) =
               Cardinality(JobsAt(s, f)) + (IF j.fence = f THEN 1 ELSE 0)
<1>1. PICK n \in Nat : Len(s) = n
  OBVIOUS
<1>2. PICK p \in Seq(Job) : p = Append(s, j)
  BY AppendProperties
<1>3. Len(p) = n + 1 /\ p[n + 1] = j /\ \A i \in 1 .. n : p[i] = s[i]
  BY <1>1, <1>2, AppendProperties
<1>4. DOMAIN s = 1 .. n /\ DOMAIN p = 1 .. n + 1
  BY <1>1, <1>3, LenProperties
<1>5. \A i : i \in 1 .. n + 1 <=> i \in 1 .. n \/ i = n + 1
  OBVIOUS
<1>6. PICK hit \in BOOLEAN : hit <=> j.fence = f
  OBVIOUS
<1>7. JobsAt(p, f) = IF hit THEN JobsAt(s, f) \cup {n + 1} ELSE JobsAt(s, f)
  BY <1>3, <1>4, <1>5, <1>6 DEF JobsAt
<1>8. JobsAt(s, f) \in SUBSET (1 .. n)
  BY <1>4 DEF JobsAt
<1>9. Cardinality(JobsAt(p, f)) = Cardinality(JobsAt(s, f)) + (IF hit THEN 1 ELSE 0)
  <2>1. PICK I, J : I = JobsAt(s, f) /\ J = JobsAt(p, f)
    OBVIOUS
  <2>2. I \in SUBSET (1 .. n) /\ J = IF hit THEN I \cup {n + 1} ELSE I
    BY <1>7, <1>8, <2>1
  <2>3. Cardinality(J) = Cardinality(I) + (IF hit THEN 1 ELSE 0)
    BY <2>2, GrownPlaces
  <2> QED BY <2>1, <2>3
<1> QED BY <1>2, <1>6, <1>9

LEMMA JobsOfTail ==
    ASSUME NEW s \in Seq(Job), NEW f, s # <<>>
    PROVE  Cardinality(JobsAt(Tail(s), f)) =
               Cardinality(JobsAt(s, f)) - (IF Head(s).fence = f THEN 1 ELSE 0)
<1>1. PICK n \in Nat : Len(s) = n + 1
  <2>1. PICK m \in Nat : Len(s) = m /\ m # 0
    BY EmptySeq
  <2>2. m - 1 \in Nat /\ m = (m - 1) + 1
    BY <2>1
  <2> QED BY <2>1, <2>2
<1>2. PICK p \in Seq(Job) : p = Tail(s)
  BY HeadTailProperties
<1>3. Len(p) = n /\ s[1] = Head(s) /\ \A i \in 1 .. n : p[i] = s[i + 1]
  BY <1>1, <1>2, HeadTailProperties
<1>4. DOMAIN s = 1 .. n + 1 /\ DOMAIN p = 1 .. n
  BY <1>1, <1>3, LenProperties
<1> DEFINE I == JobsAt(s, f)
<1>5. I \in SUBSET (1 .. n + 1) /\ (1 \in I <=> Head(s).fence = f)
  BY <1>3, <1>4 DEF JobsAt
<1>6. JobsAt(p, f) = {i \in 1 .. n : i + 1 \in I}
  BY <1>3, <1>4 DEF JobsAt
<1> HIDE DEF I
<1>7. Cardinality(JobsAt(p, f)) = Cardinality(I) - (IF 1 \in I THEN 1 ELSE 0)
  BY <1>5, <1>6, ShiftedPlaces
<1> QED BY <1>2, <1>5, <1>7 DEF I

LEMMA NothingCounted ==
    ASSUME NEW f
    PROVE  /\ FencesAt(<<>>, f) = {} /\ JobsAt(<<>>, f) = {}
           /\ Cardinality(FencesAt(<<>>, f)) = 0 /\ Cardinality(JobsAt(<<>>, f)) = 0
<1>1. FencesAt(<<>>, f) = {} /\ JobsAt(<<>>, f) = {}
  BY DEF FencesAt, JobsAt
<1> QED BY <1>1, FS_EmptySet

----------------------------------------------------------------------------
(* The references of all workers.                                          *)

\* The references of one worker, given its three sequences.
Refs(w, o, q, c, f) ==
    ({<<"op", w>>} \X FencesAt(o, f)) \cup ({<<"waiting", w>>} \X JobsAt(q, f))
        \cup ({<<"current", w>>} \X JobsAt(c, f))

Count(o, q, c, f) ==
    Cardinality(FencesAt(o, f)) + Cardinality(JobsAt(q, f)) + Cardinality(JobsAt(c, f))

LEMMA Tagged ==
    ASSUME NEW tag, NEW S, IsFiniteSet(S)
    PROVE  IsFiniteSet({tag} \X S) /\ Cardinality({tag} \X S) = Cardinality(S)
<1>1. IsFiniteSet({tag}) /\ Cardinality({tag}) = 1
  BY FS_Singleton
<1>2. IsFiniteSet({tag} \X S) /\ Cardinality({tag} \X S) = Cardinality({tag}) * Cardinality(S)
  BY <1>1, FS_Product
<1>3. Cardinality(S) \in Nat
  BY FS_CardinalityType
<1> QED BY <1>1, <1>2, <1>3

LEMMA DisjointUnion ==
    ASSUME NEW S, IsFiniteSet(S), NEW T, IsFiniteSet(T), \A x \in S : x \notin T
    PROVE  /\ IsFiniteSet(S \cup T)
           /\ Cardinality(S) \in Nat /\ Cardinality(T) \in Nat
           /\ Cardinality(S \cup T) = Cardinality(S) + Cardinality(T)
<1>1. S \cap T = {}
  OBVIOUS
<1>2. Cardinality(S) \in Nat /\ Cardinality(T) \in Nat
  BY FS_CardinalityType
<1>3. /\ IsFiniteSet(S \cup T)
      /\ Cardinality(S \cup T) = Cardinality(S) + Cardinality(T) - Cardinality(S \cap T)
  BY FS_Union
<1>4. Cardinality(S \cap T) = 0
  BY <1>1, FS_EmptySet
<1> QED BY <1>2, <1>3, <1>4

LEMMA RefsCount ==
    ASSUME NEW w, NEW o \in Seq(WorkerFences), NEW q \in Seq(Job), NEW c \in Seq(Job), NEW f
    PROVE  /\ IsFiniteSet(Refs(w, o, q, c, f))
           /\ Cardinality(Refs(w, o, q, c, f)) = Count(o, q, c, f)
           /\ Count(o, q, c, f) \in Nat
<1> DEFINE A == {<<"op", w>>} \X FencesAt(o, f)
           B == {<<"waiting", w>>} \X JobsAt(q, f)
           C == {<<"current", w>>} \X JobsAt(c, f)
<1>1. /\ IsFiniteSet(A) /\ Cardinality(A) = Cardinality(FencesAt(o, f))
      /\ IsFiniteSet(B) /\ Cardinality(B) = Cardinality(JobsAt(q, f))
      /\ IsFiniteSet(C) /\ Cardinality(C) = Cardinality(JobsAt(c, f))
  BY FencesCount, JobsCount, Tagged
<1>2. /\ \A x \in A : x[1][1] = "op"
      /\ \A x \in B : x[1][1] = "waiting"
      /\ \A x \in C : x[1][1] = "current"
  OBVIOUS
<1>3. Refs(w, o, q, c, f) = (A \cup B) \cup C
  BY DEF Refs
<1>4. /\ Cardinality(FencesAt(o, f)) \in Nat /\ Cardinality(JobsAt(q, f)) \in Nat
      /\ Cardinality(JobsAt(c, f)) \in Nat
  BY FencesCount, JobsCount
<1> HIDE DEF A, B, C
<1>5. (\A x \in A : x \notin B) /\ (\A x \in A \cup B : x \notin C)
  BY <1>2
<1>6. IsFiniteSet(A \cup B) /\ Cardinality(A \cup B) = Cardinality(A) + Cardinality(B)
  BY <1>1, <1>5, DisjointUnion
<1>7. /\ IsFiniteSet((A \cup B) \cup C)
      /\ Cardinality((A \cup B) \cup C) = Cardinality(A \cup B) + Cardinality(C)
  BY <1>1, <1>5, <1>6, DisjointUnion
<1> QED BY <1>1, <1>3, <1>4, <1>6, <1>7 DEF Count

\* One worker's references change: the number of all changes as much.
Whole(A) == UNION {A[u] : u \in Workers}

\* Each worker has its own finite set, and the two are the same but for one.
OneDiffers(A, B, w) ==
    /\ \A u \in Workers : IsFiniteSet(A[u]) /\ IsFiniteSet(B[u])
    /\ \A u \in Workers : (\A x \in A[u] : x[1][2] = u) /\ (\A x \in B[u] : x[1][2] = u)
    /\ \A u \in Workers : u # w => A[u] = B[u]

\* The workers' finite sets make a finite set.
LEMMA FiniteWhole ==
    ASSUME NEW A, \A u \in Workers : IsFiniteSet(A[u])
    PROVE  IsFiniteSet(Whole(A))
<1> DEFINE sets == {A[u] : u \in Workers}
           image == [u \in Workers |-> A[u]]
<1>1. image \in Surjection(Workers, sets)
  BY DEF Surjection
<1>2. IsFiniteSet(sets)
  BY <1>1, FS_Surjection, WorkerAssumption
<1>3. \A S \in sets : IsFiniteSet(S)
  OBVIOUS
<1>4. Whole(A) = UNION sets
  BY DEF Whole
<1> HIDE DEF sets
<1> QED BY <1>2, <1>3, <1>4, FS_UNION

LEMMA OneWorkerChanges ==
    ASSUME NEW A, NEW B, NEW w \in Workers, OneDiffers(A, B, w)
    PROVE  /\ Cardinality(Whole(A)) \in Nat /\ Cardinality(Whole(B)) \in Nat
           /\ Cardinality(Whole(B)) = Cardinality(Whole(A)) - Cardinality(A[w]) + Cardinality(B[w])
<1> DEFINE rest == Whole(A) \ A[w]
<1>1. /\ IsFiniteSet(A[w]) /\ IsFiniteSet(B[w]) /\ \A u \in Workers : IsFiniteSet(A[u])
  BY DEF OneDiffers
<1>2. IsFiniteSet(Whole(A))
  BY <1>1, FiniteWhole
<1>3. IsFiniteSet(rest)
  BY <1>2, FS_Difference
<1>4. Whole(A) = rest \cup A[w] /\ Whole(B) = rest \cup B[w]
  BY DEF Whole, OneDiffers
<1>5. \A x \in rest : x \notin A[w] /\ x \notin B[w]
  BY DEF Whole, OneDiffers
<1> HIDE DEF rest
<1>6. /\ IsFiniteSet(rest \cup A[w]) /\ Cardinality(rest) \in Nat /\ Cardinality(A[w]) \in Nat
      /\ Cardinality(rest \cup A[w]) = Cardinality(rest) + Cardinality(A[w])
  BY <1>1, <1>3, <1>5, DisjointUnion
<1>7. /\ Cardinality(B[w]) \in Nat
      /\ Cardinality(rest \cup B[w]) = Cardinality(rest) + Cardinality(B[w])
  BY <1>1, <1>3, <1>5, DisjointUnion
<1>8. PICK l, m, n \in Nat : /\ Cardinality(rest) = l
                            /\ Cardinality(A[w]) = m /\ Cardinality(B[w]) = n
  BY <1>6, <1>7, Zenon
<1>9. Cardinality(Whole(A)) = l + m /\ Cardinality(Whole(B)) = l + n
  BY <1>4, <1>6, <1>7, <1>8, Zenon
<1> QED BY <1>8, <1>9

\* Who a reference belongs to.
LEMMA RefsOwner == \A w, o, q, c, f : \A x \in Refs(w, o, q, c, f) : x[1][2] = w
BY DEF Refs

LEMMA ReferencesAre ==
    ASSUME NEW f
    PROVE  References(f) =
               UNION {Refs(u, ops[u], fences[u], cur_fences[u], f) : u \in Workers}
BY DEF References, Refs, OpsAt, FencesAt

SequencesTyped(o, q, c) ==
    /\ o \in [Workers -> Seq(WorkerFences)]
    /\ q \in [Workers -> Seq(Job)] /\ c \in [Workers -> Seq(Job)]

Total(o, q, c, f) == Cardinality(UNION {Refs(u, o[u], q[u], c[u], f) : u \in Workers})

LEMMA TotalChanges ==
    ASSUME NEW o, NEW q, NEW c, SequencesTyped(o, q, c),
           NEW p, NEW r, NEW d, SequencesTyped(p, r, d), NEW w \in Workers,
           \A u \in Workers : u # w => p[u] = o[u] /\ r[u] = q[u] /\ d[u] = c[u],
           NEW f
    PROVE  /\ Total(o, q, c, f) \in Nat /\ Total(p, r, d, f) \in Nat
           /\ Count(o[w], q[w], c[w], f) \in Nat /\ Count(p[w], r[w], d[w], f) \in Nat
           /\ Total(p, r, d, f) = Total(o, q, c, f) - Count(o[w], q[w], c[w], f)
                                  + Count(p[w], r[w], d[w], f)
<1> DEFINE A == [u \in Workers |-> Refs(u, o[u], q[u], c[u], f)]
           B == [u \in Workers |-> Refs(u, p[u], r[u], d[u], f)]
<1>1. \A u \in Workers : /\ IsFiniteSet(Refs(u, o[u], q[u], c[u], f))
                         /\ IsFiniteSet(Refs(u, p[u], r[u], d[u], f))
  BY RefsCount DEF SequencesTyped
<1>2. \A u \in Workers : IsFiniteSet(A[u]) /\ IsFiniteSet(B[u])
  BY <1>1
<1>3. \A u \in Workers : (\A x \in A[u] : x[1][2] = u) /\ (\A x \in B[u] : x[1][2] = u)
  BY RefsOwner
<1>4. \A u \in Workers : u # w => A[u] = B[u]
  OBVIOUS
<1>5. /\ Cardinality(A[w]) = Count(o[w], q[w], c[w], f) /\ Count(o[w], q[w], c[w], f) \in Nat
      /\ Cardinality(B[w]) = Count(p[w], r[w], d[w], f) /\ Count(p[w], r[w], d[w], f) \in Nat
  <2>1. /\ o[w] \in Seq(WorkerFences) /\ q[w] \in Seq(Job) /\ c[w] \in Seq(Job)
        /\ p[w] \in Seq(WorkerFences) /\ r[w] \in Seq(Job) /\ d[w] \in Seq(Job)
    BY DEF SequencesTyped
  <2>2. A[w] = Refs(w, o[w], q[w], c[w], f) /\ B[w] = Refs(w, p[w], r[w], d[w], f)
    OBVIOUS
  <2> HIDE DEF A, B
  <2> QED BY <2>1, <2>2, RefsCount
<1>6. /\ Total(o, q, c, f) = Cardinality(Whole(A))
      /\ Total(p, r, d, f) = Cardinality(Whole(B))
  BY DEF Total, Whole
<1> HIDE DEF A, B
<1>7. /\ Cardinality(Whole(A)) \in Nat /\ Cardinality(Whole(B)) \in Nat
      /\ Cardinality(Whole(B)) = Cardinality(Whole(A)) - Cardinality(A[w]) + Cardinality(B[w])
  <2>1. OneDiffers(A, B, w)
    BY <1>2, <1>3, <1>4 DEF OneDiffers
  <2> QED BY <2>1, OneWorkerChanges
<1> QED BY <1>5, <1>6, <1>7

----------------------------------------------------------------------------
(* The invariant is inductive.                                             *)

Application(f) == IF refcount[f] > 0 THEN 1 ELSE 0

CountOf(w, f) == Count(ops[w], fences[w], cur_fences[w], f)

LEMMA Accounts ==
    ReferencesAccounted <=>
        \A f \in WorkerFences :
            internal_refcount[f] = Application(f) + failed[f] + Total(ops, fences, cur_fences, f)
BY ReferencesAre DEF ReferencesAccounted, Application, Total

LEMMA AccountsPrimed ==
    (\A f \in WorkerFences :
        internal_refcount'[f] = Application(f)' + failed'[f] + Total(ops', fences', cur_fences', f))
    => ReferencesAccounted'
<1>1. \A f : References(f)' =
          UNION {Refs(u, ops'[u], fences'[u], cur_fences'[u], f) : u \in Workers}
  BY DEF References, Refs, OpsAt, FencesAt
<1> QED BY <1>1 DEF ReferencesAccounted, Application, Total

\* What a step of one worker does to a count, it does to the references.
LEMMA StillAccounted ==
    ASSUME TypeOK, ReferencesAccounted, NEW w \in Workers,
           SequencesTyped(ops', fences', cur_fences'), failed' \in [WorkerFences -> Nat],
           \A u \in Workers : u # w =>
               ops'[u] = ops[u] /\ fences'[u] = fences[u] /\ cur_fences'[u] = cur_fences[u],
           \A f \in WorkerFences :
               internal_refcount'[f] =
                   internal_refcount[f] + (Application(f)' - Application(f))
                   + (failed'[f] - failed[f]) + (CountOf(w, f)' - CountOf(w, f))
    PROVE  ReferencesAccounted' /\ \A f \in WorkerFences : internal_refcount'[f] \in Nat
<1> SUFFICES ASSUME NEW f \in WorkerFences
             PROVE  /\ internal_refcount'[f] = Application(f)' + failed'[f]
                                                + Total(ops', fences', cur_fences', f)
                    /\ internal_refcount'[f] \in Nat
  BY AccountsPrimed
<1>1. SequencesTyped(ops, fences, cur_fences)
  BY DEF TypeOK, SequencesTyped
<1>2. /\ Total(ops, fences, cur_fences, f) \in Nat
      /\ Total(ops', fences', cur_fences', f) \in Nat
      /\ CountOf(w, f) \in Nat /\ CountOf(w, f)' \in Nat
      /\ Total(ops', fences', cur_fences', f) =
             Total(ops, fences, cur_fences, f) - CountOf(w, f) + CountOf(w, f)'
  BY <1>1, TotalChanges DEF CountOf
<1>3. internal_refcount[f] = Application(f) + failed[f] + Total(ops, fences, cur_fences, f)
  BY Accounts
<1>4. /\ Application(f) \in Nat /\ Application(f)' \in Nat /\ failed[f] \in Nat
      /\ failed'[f] \in Nat /\ internal_refcount[f] \in Nat
  BY DEF Application, TypeOK
<1>5. internal_refcount'[f] =
          internal_refcount[f] + (Application(f)' - Application(f))
          + (failed'[f] - failed[f]) + (CountOf(w, f)' - CountOf(w, f))
  OBVIOUS
<1> QED BY <1>2, <1>3, <1>4, <1>5

\* Nobody's references change.
LEMMA SameReferences ==
    ASSUME TypeOK, ReferencesAccounted, UNCHANGED <<ops, fences, cur_fences, failed>>,
           \A f \in WorkerFences :
               internal_refcount'[f] = internal_refcount[f] + (Application(f)' - Application(f))
    PROVE  ReferencesAccounted' /\ \A f \in WorkerFences : internal_refcount'[f] \in Nat
<1> SUFFICES ASSUME NEW f \in WorkerFences
             PROVE  /\ internal_refcount'[f] = Application(f)' + failed'[f]
                                                + Total(ops', fences', cur_fences', f)
                    /\ internal_refcount'[f] \in Nat
  BY AccountsPrimed
<1>1. \A u \in Workers : /\ ops[u] \in Seq(WorkerFences) /\ fences[u] \in Seq(Job)
                         /\ cur_fences[u] \in Seq(Job)
  BY DEF TypeOK
<1>2. \A u \in Workers : IsFiniteSet(Refs(u, ops[u], fences[u], cur_fences[u], f))
  BY <1>1, RefsCount
<1>3. Total(ops, fences, cur_fences, f) \in Nat
  <2> DEFINE A == [u \in Workers |-> Refs(u, ops[u], fences[u], cur_fences[u], f)]
  <2>1. \A u \in Workers : IsFiniteSet(A[u])
    BY <1>2
  <2>2. Total(ops, fences, cur_fences, f) = Cardinality(Whole(A))
    BY DEF Total, Whole
  <2> HIDE DEF A
  <2>3. IsFiniteSet(Whole(A))
    BY <2>1, FiniteWhole
  <2> QED BY <2>2, <2>3, FS_CardinalityType
<1>4. internal_refcount[f] = Application(f) + failed[f] + Total(ops, fences, cur_fences, f)
  BY Accounts
<1>5. Total(ops', fences', cur_fences', f) = Total(ops, fences, cur_fences, f)
  OBVIOUS
<1>6. /\ Application(f) \in Nat /\ Application(f)' \in Nat /\ failed[f] \in Nat
      /\ failed'[f] = failed[f]
  BY DEF Application, TypeOK
<1>7. internal_refcount'[f] = internal_refcount[f] + (Application(f)' - Application(f))
  OBVIOUS
<1> QED BY <1>3, <1>4, <1>5, <1>6, <1>7

LEMMA SequencesOf ==
    ASSUME TypeOK, NEW w \in Workers
    PROVE  /\ ops[w] \in Seq(WorkerFences) /\ fences[w] \in Seq(Job) /\ cur_fences[w] \in Seq(Job)
           /\ \A f : CountOf(w, f) \in Nat
<1>1. /\ ops[w] \in Seq(WorkerFences) /\ fences[w] \in Seq(Job) /\ cur_fences[w] \in Seq(Job)
  BY DEF TypeOK
<1> QED BY <1>1, RefsCount DEF CountOf

\* Only the last reference of the application counts.
LEMMA Releases ==
    ASSUME WorkerInv, NEW f \in WorkerFences, FenceRelease(f)
    PROVE  WorkerInv'
<1>1. TypeOK /\ ControlFits /\ ReferencesAccounted
  BY DEF WorkerInv
<1>2. refcount \in [WorkerFences -> Nat] /\ internal_refcount \in [WorkerFences -> Nat]
  BY <1>1 DEF TypeOK
<1>3. UNCHANGED <<failed, queueVars, workerVars, semaphore>>
  BY DEF FenceRelease
<1>4. refcount[f] > 0 /\ refcount' = [refcount EXCEPT ![f] = @ - 1]
  BY DEF FenceRelease
<1>5. refcount' \in [WorkerFences -> Nat]
  BY <1>2, <1>4
<1>6. /\ internal_refcount' = [g \in WorkerFences |-> internal_refcount'[g]]
      /\ \A g \in WorkerFences :
             internal_refcount'[g] = internal_refcount[g] + (Application(g)' - Application(g))
  <2>1. /\ internal_refcount' = [g \in WorkerFences |-> internal_refcount'[g]]
        /\ \A g \in WorkerFences : internal_refcount'[g] =
              IF g = f /\ refcount[f] = 1 THEN internal_refcount[g] - 1 ELSE internal_refcount[g]
    BY <1>2 DEF FenceRelease, DecRef
  <2>2. ASSUME NEW g \in WorkerFences
        PROVE  Application(g)' - Application(g) = IF g = f /\ refcount[f] = 1 THEN -1 ELSE 0
    BY <1>2, <1>4 DEF Application
  <2>3. ASSUME NEW g \in WorkerFences
        PROVE  internal_refcount'[g] = internal_refcount[g] + (Application(g)' - Application(g))
    <3>1. CASE g = f /\ refcount[f] = 1
      BY <1>2, <2>1, <2>2, <3>1
    <3>2. CASE ~(g = f /\ refcount[f] = 1)
      BY <1>2, <2>1, <2>2, <3>2
    <3> QED BY <3>1, <3>2
  <2> QED BY <2>1, <2>3
<1>7. ReferencesAccounted' /\ \A g \in WorkerFences : internal_refcount'[g] \in Nat
  BY <1>1, <1>3, <1>6, SameReferences DEF queueVars, workerVars
<1>8. TypeOK'
  BY <1>1, <1>3, <1>5, <1>6, <1>7 DEF TypeOK, queueVars, workerVars
<1>9. ControlFits'
  BY <1>1, <1>3 DEF ControlFits, queueVars, workerVars
<1> QED BY <1>7, <1>8, <1>9 DEF WorkerInv

One(f, g) == IF f = g THEN 1 ELSE 0

\* IncRef() and DecRef().
LEMMA RefChanges ==
    ASSUME TypeOK, NEW f \in WorkerFences
    PROVE  /\ IncRef(f) => /\ internal_refcount' = [g \in WorkerFences |-> internal_refcount'[g]]
                           /\ \A g \in WorkerFences :
                                  internal_refcount'[g] = internal_refcount[g] + One(f, g)
           /\ DecRef(f) => /\ internal_refcount' = [g \in WorkerFences |-> internal_refcount'[g]]
                           /\ \A g \in WorkerFences :
                                  internal_refcount'[g] = internal_refcount[g] - One(f, g)
<1>1. internal_refcount \in [WorkerFences -> Nat]
  BY DEF TypeOK
<1>2. IncRef(f) => /\ internal_refcount' = [g \in WorkerFences |-> internal_refcount'[g]]
                   /\ \A g \in WorkerFences :
                          internal_refcount'[g] = internal_refcount[g] + One(f, g)
  <2> SUFFICES ASSUME internal_refcount' = [internal_refcount EXCEPT ![f] = @ + 1]
               PROVE  /\ internal_refcount' = [g \in WorkerFences |-> internal_refcount'[g]]
                      /\ \A g \in WorkerFences :
                             internal_refcount'[g] = internal_refcount[g] + One(f, g)
    BY DEF IncRef
  <2>1. internal_refcount' = [g \in WorkerFences |-> internal_refcount'[g]]
    BY <1>1
  <2>2. ASSUME NEW g \in WorkerFences
        PROVE  internal_refcount'[g] = internal_refcount[g] + One(f, g)
    <3>1. CASE g = f
      BY <1>1, <3>1 DEF One
    <3>2. CASE g # f
      BY <1>1, <3>2 DEF One
    <3> QED BY <3>1, <3>2
  <2> QED BY <2>1, <2>2
<1>3. DecRef(f) => /\ internal_refcount' = [g \in WorkerFences |-> internal_refcount'[g]]
                   /\ \A g \in WorkerFences :
                          internal_refcount'[g] = internal_refcount[g] - One(f, g)
  <2> SUFFICES ASSUME internal_refcount' = [internal_refcount EXCEPT ![f] = @ - 1]
               PROVE  /\ internal_refcount' = [g \in WorkerFences |-> internal_refcount'[g]]
                      /\ \A g \in WorkerFences :
                             internal_refcount'[g] = internal_refcount[g] - One(f, g)
    BY DEF DecRef
  <2>1. internal_refcount' = [g \in WorkerFences |-> internal_refcount'[g]]
    BY <1>1
  <2>2. ASSUME NEW g \in WorkerFences
        PROVE  internal_refcount'[g] = internal_refcount[g] - One(f, g)
    <3>1. CASE g = f
      BY <1>1, <3>1 DEF One
    <3>2. CASE g # f
      BY <1>1, <3>2 DEF One
    <3> QED BY <3>1, <3>2
  <2> QED BY <2>1, <2>2
<1> QED BY <1>2, <1>3

\* What a worker's own step does to the count of its references, it does to
\* the fences.
LEMMA WorkerAccounted ==
    ASSUME TypeOK, ReferencesAccounted, NEW w \in Workers,
           SequencesTyped(ops', fences', cur_fences'), UNCHANGED <<refcount, failed>>,
           \A u \in Workers : u # w =>
               ops'[u] = ops[u] /\ fences'[u] = fences[u] /\ cur_fences'[u] = cur_fences[u],
           \A f \in WorkerFences :
               internal_refcount'[f] = internal_refcount[f] + (CountOf(w, f)' - CountOf(w, f))
    PROVE  ReferencesAccounted' /\ \A f \in WorkerFences : internal_refcount'[f] \in Nat
<1>1. failed' \in [WorkerFences -> Nat]
  BY DEF TypeOK
<1>2. ASSUME NEW f \in WorkerFences
      PROVE  internal_refcount'[f] =
                 internal_refcount[f] + (Application(f)' - Application(f))
                 + (failed'[f] - failed[f]) + (CountOf(w, f)' - CountOf(w, f))
  <2>1. Application(f)' = Application(f) /\ Application(f) \in Nat
    BY DEF Application
  <2>2. failed'[f] = failed[f] /\ failed[f] \in Nat /\ internal_refcount[f] \in Nat
    BY DEF TypeOK
  <2>3. CountOf(w, f) \in Nat
    BY SequencesOf
  <2>4. CountOf(w, f)' \in Nat
    <3>1. ops'[w] \in Seq(WorkerFences) /\ fences'[w] \in Seq(Job) /\ cur_fences'[w] \in Seq(Job)
      BY DEF SequencesTyped
    <3> QED BY <3>1, RefsCount DEF CountOf
  <2> QED BY <2>1, <2>2, <2>3, <2>4
<1> QED BY <1>1, <1>2, StillAccounted

\* An operation is queued and takes a reference.
LEMMA Queues ==
    ASSUME WorkerInv, NEW w \in Workers, NEW f \in WorkerFences, QueueSignal(w, f)
    PROVE  WorkerInv'
<1>1. TypeOK /\ ControlFits /\ ReferencesAccounted
  BY DEF WorkerInv
<1>2. /\ ops' = [ops EXCEPT ![w] = Append(@, f)]
      /\ UNCHANGED <<refcount, failed, flush, alive, submitted, workerVars, semaphore>>
      /\ IncRef(f) /\ ~should_exit[w] /\ queued' = [queued EXCEPT ![f] = @ + 1]
  BY DEF QueueSignal
<1>3. UNCHANGED <<fences, cur_fences, should_exit, pc, reported>>
  BY <1>2 DEF workerVars
<1>4. /\ ops[w] \in Seq(WorkerFences) /\ fences[w] \in Seq(Job) /\ cur_fences[w] \in Seq(Job)
      /\ \A g : CountOf(w, g) \in Nat
  BY <1>1, SequencesOf
<1>5. PICK p \in Seq(WorkerFences) : p = Append(ops[w], f)
  BY <1>4, AppendProperties
<1>6. ops' = [ops EXCEPT ![w] = p] /\ ops \in [Workers -> Seq(WorkerFences)]
  BY <1>1, <1>2, <1>5 DEF TypeOK
<1>7. /\ ops' \in [Workers -> Seq(WorkerFences)] /\ ops'[w] = p
      /\ \A u \in Workers : u # w => ops'[u] = ops[u]
  BY <1>6
<1>8. SequencesTyped(ops', fences', cur_fences')
  BY <1>1, <1>3, <1>7 DEF TypeOK, SequencesTyped
<1>9. /\ internal_refcount' = [g \in WorkerFences |-> internal_refcount'[g]]
      /\ \A g \in WorkerFences : internal_refcount'[g] = internal_refcount[g] + One(f, g)
  BY <1>1, <1>2, RefChanges
<1>10. ASSUME NEW g \in WorkerFences
       PROVE  internal_refcount'[g] = internal_refcount[g] + (CountOf(w, g)' - CountOf(w, g))
  <2>1. Cardinality(FencesAt(p, g)) = Cardinality(FencesAt(ops[w], g)) + One(f, g)
    BY <1>4, <1>5, FencesOfAppend DEF One
  <2>2. /\ Cardinality(FencesAt(ops[w], g)) \in Nat /\ Cardinality(JobsAt(fences[w], g)) \in Nat
        /\ Cardinality(JobsAt(cur_fences[w], g)) \in Nat
    BY <1>4, FencesCount, JobsCount
  <2>3. CountOf(w, g)' = CountOf(w, g) + One(f, g)
    BY <1>3, <1>7, <2>1, <2>2 DEF CountOf, Count, One
  <2> QED BY <1>4, <1>9, <2>3 DEF One
<1>11. ReferencesAccounted' /\ \A g \in WorkerFences : internal_refcount'[g] \in Nat
  BY <1>1, <1>2, <1>3, <1>7, <1>8, <1>10, WorkerAccounted
<1>12. TypeOK'
  <2>1. internal_refcount' \in [WorkerFences -> Nat]
    BY <1>9, <1>11
  <2>2. queued' \in [WorkerFences -> Nat]
    BY <1>1, <1>2 DEF TypeOK
  <2> QED BY <1>1, <1>2, <1>3, <1>7, <2>1, <2>2 DEF TypeOK
<1>13. p # <<>>
  BY <1>4, <1>5, AppendProperties, EmptySeq
<1>14. ControlFits'
  BY <1>1, <1>2, <1>3, <1>7, <1>13 DEF ControlFits
<1> QED BY <1>11, <1>12, <1>14 DEF WorkerInv

\* Waking a worker moves it from "wait" to "woken" and nowhere else.
LEMMA Wakes ==
    ASSUME TypeOK, NEW w \in Workers, Wake(w)
    PROVE  /\ pc' \in [Workers -> {"lock", "wait", "woken", "run", "decref", "exited"}]
           /\ \A u \in Workers : pc'[u] = pc[u] \/ (pc[u] = "wait" /\ pc'[u] = "woken")
BY DEF TypeOK, Wake

\* The worker gets a job, with a reference of its own.
LEMMA Enqueues ==
    ASSUME WorkerInv, NEW w \in Workers, EnqueueTimelineSemaphore(w)
    PROVE  WorkerInv'
<1>1. TypeOK /\ ControlFits /\ ReferencesAccounted
  BY DEF WorkerInv
<1>2. /\ ops[w] \in Seq(WorkerFences) /\ fences[w] \in Seq(Job) /\ cur_fences[w] \in Seq(Job)
      /\ \A g : CountOf(w, g) \in Nat
  BY <1>1, SequencesOf
<1>3. ops[w] # <<>>
  BY DEF EnqueueTimelineSemaphore
<1>4. PICK f \in WorkerFences : f = Head(ops[w])
  BY <1>2, <1>3, HeadTailProperties
<1>5. PICK job \in Job : job = [fence |-> f, value |-> submitted[f] + 1]
  <2>1. submitted[f] + 1 \in Nat
    BY <1>1 DEF TypeOK
  <2> QED BY <2>1 DEF Job
<1>6. /\ submitted' = [submitted EXCEPT ![f] = @ + 1]
      /\ fences' = [fences EXCEPT ![w] = Append(@, job)]
      /\ IncRef(f) /\ Wake(w) /\ ~should_exit[w]
      /\ flush' = [flush EXCEPT ![w] = "destroy_op"]
      /\ UNCHANGED <<refcount, failed, ops, alive, queued, cur_fences, should_exit,
                     reported, semaphore>>
  BY <1>4, <1>5 DEF EnqueueTimelineSemaphore
<1>7. PICK p \in Seq(Job) : p = Append(fences[w], job)
  BY <1>2, AppendProperties
<1>8. fences' = [fences EXCEPT ![w] = p] /\ fences \in [Workers -> Seq(Job)]
  BY <1>1, <1>6, <1>7 DEF TypeOK
<1>9. /\ fences' \in [Workers -> Seq(Job)] /\ fences'[w] = p
      /\ \A u \in Workers : u # w => fences'[u] = fences[u]
  BY <1>8
<1>10. SequencesTyped(ops', fences', cur_fences')
  BY <1>1, <1>6, <1>9 DEF TypeOK, SequencesTyped
<1>11. /\ internal_refcount' = [g \in WorkerFences |-> internal_refcount'[g]]
       /\ \A g \in WorkerFences : internal_refcount'[g] = internal_refcount[g] + One(f, g)
  BY <1>1, <1>6, RefChanges
<1>12. ASSUME NEW g \in WorkerFences
       PROVE  internal_refcount'[g] = internal_refcount[g] + (CountOf(w, g)' - CountOf(w, g))
  <2>1. job.fence = f
    BY <1>5
  <2>2. Cardinality(JobsAt(p, g)) = Cardinality(JobsAt(fences[w], g)) + One(f, g)
    BY <1>2, <1>7, <2>1, JobsOfAppend DEF One
  <2>3. /\ Cardinality(FencesAt(ops[w], g)) \in Nat /\ Cardinality(JobsAt(fences[w], g)) \in Nat
        /\ Cardinality(JobsAt(cur_fences[w], g)) \in Nat
    BY <1>2, FencesCount, JobsCount
  <2>4. CountOf(w, g)' = Cardinality(FencesAt(ops[w], g)) + Cardinality(JobsAt(p, g))
                        + Cardinality(JobsAt(cur_fences[w], g))
    BY <1>6, <1>9 DEF CountOf, Count
  <2>5. CountOf(w, g)' = CountOf(w, g) + One(f, g)
    BY <2>2, <2>3, <2>4 DEF CountOf, Count, One
  <2> QED BY <1>2, <1>11, <2>5 DEF One
<1>13. ReferencesAccounted' /\ \A g \in WorkerFences : internal_refcount'[g] \in Nat
  BY <1>1, <1>6, <1>9, <1>10, <1>12, WorkerAccounted
<1>14. /\ pc' \in [Workers -> {"lock", "wait", "woken", "run", "decref", "exited"}]
       /\ \A u \in Workers : pc'[u] = pc[u] \/ (pc[u] = "wait" /\ pc'[u] = "woken")
  BY <1>1, <1>6, Wakes
<1>15. TypeOK'
  <2>1. internal_refcount' \in [WorkerFences -> Nat]
    BY <1>11, <1>13
  <2>2. submitted' \in [WorkerFences -> Nat] /\ flush' \in [Workers -> {"idle", "destroy_op"}]
    BY <1>1, <1>6 DEF TypeOK
  <2> QED BY <1>1, <1>6, <1>9, <1>14, <2>1, <2>2 DEF TypeOK
<1>16. ControlFits'
  BY <1>1, <1>3, <1>6, <1>14 DEF ControlFits, TypeOK
<1> QED BY <1>13, <1>15, <1>16 DEF WorkerInv

\* The operation goes, and its reference.
LEMMA DestroysOp ==
    ASSUME WorkerInv, NEW w \in Workers, DestroyOp(w)
    PROVE  WorkerInv'
<1>1. TypeOK /\ ControlFits /\ ReferencesAccounted
  BY DEF WorkerInv
<1>2. /\ ops[w] \in Seq(WorkerFences) /\ fences[w] \in Seq(Job) /\ cur_fences[w] \in Seq(Job)
      /\ \A g : CountOf(w, g) \in Nat
  BY <1>1, SequencesOf
<1>3. ops[w] # <<>>
  BY <1>1 DEF DestroyOp, ControlFits
<1>4. PICK f \in WorkerFences : f = Head(ops[w])
  BY <1>2, <1>3, HeadTailProperties
<1>5. /\ DecRef(f) /\ ops' = [ops EXCEPT ![w] = Tail(@)]
      /\ flush' = [flush EXCEPT ![w] = "idle"]
      /\ UNCHANGED <<refcount, failed, alive, queued, submitted, workerVars, semaphore>>
  BY <1>4 DEF DestroyOp
<1>6. UNCHANGED <<fences, cur_fences, should_exit, pc, reported>>
  BY <1>5 DEF workerVars
<1>7. PICK p \in Seq(WorkerFences) : p = Tail(ops[w])
  BY <1>2, <1>3, HeadTailProperties
<1>8. ops' = [ops EXCEPT ![w] = p] /\ ops \in [Workers -> Seq(WorkerFences)]
  BY <1>1, <1>5, <1>7 DEF TypeOK
<1>9. /\ ops' \in [Workers -> Seq(WorkerFences)] /\ ops'[w] = p
      /\ \A u \in Workers : u # w => ops'[u] = ops[u]
  BY <1>8
<1>10. SequencesTyped(ops', fences', cur_fences')
  BY <1>1, <1>6, <1>9 DEF TypeOK, SequencesTyped
<1>11. /\ internal_refcount' = [g \in WorkerFences |-> internal_refcount'[g]]
       /\ \A g \in WorkerFences : internal_refcount'[g] = internal_refcount[g] - One(f, g)
  BY <1>1, <1>5, RefChanges
<1>12. ASSUME NEW g \in WorkerFences
       PROVE  internal_refcount'[g] = internal_refcount[g] + (CountOf(w, g)' - CountOf(w, g))
  <2>1. Cardinality(FencesAt(p, g)) = Cardinality(FencesAt(ops[w], g)) - One(f, g)
    BY <1>2, <1>3, <1>4, <1>7, FencesOfTail DEF One
  <2>2. /\ Cardinality(FencesAt(ops[w], g)) \in Nat /\ Cardinality(JobsAt(fences[w], g)) \in Nat
        /\ Cardinality(JobsAt(cur_fences[w], g)) \in Nat
    BY <1>2, FencesCount, JobsCount
  <2>3. CountOf(w, g)' = CountOf(w, g) - One(f, g)
    BY <1>6, <1>9, <2>1, <2>2 DEF CountOf, Count, One
  <2>4. internal_refcount[g] \in Nat
    BY <1>1 DEF TypeOK
  <2> QED BY <1>2, <1>11, <2>3, <2>4 DEF One
<1>13. ReferencesAccounted' /\ \A g \in WorkerFences : internal_refcount'[g] \in Nat
  BY <1>1, <1>5, <1>6, <1>9, <1>10, <1>12, WorkerAccounted
<1>14. TypeOK'
  BY <1>1, <1>5, <1>6, <1>9, <1>11, <1>13 DEF TypeOK
<1>15. ControlFits'
  BY <1>1, <1>5, <1>6, <1>9 DEF ControlFits, TypeOK
<1> QED BY <1>13, <1>14, <1>15 DEF WorkerInv

\* Nothing that counts changes.
LEMMA CountsKept ==
    ASSUME TypeOK, ReferencesAccounted,
           UNCHANGED <<refcount, internal_refcount, failed, ops, fences, cur_fences>>
    PROVE  ReferencesAccounted'
<1>1. ASSUME NEW f \in WorkerFences
      PROVE  internal_refcount'[f] = internal_refcount[f] + (Application(f)' - Application(f))
  BY DEF Application, TypeOK
<1> QED BY <1>1, SameReferences

\* The queue's worker is asked to exit.
LEMMA Stops ==
    ASSUME WorkerInv, NEW w \in Workers, StopWorker(w)
    PROVE  WorkerInv'
<1>1. TypeOK /\ ControlFits /\ ReferencesAccounted
  BY DEF WorkerInv
<1>2. /\ flush[w] = "idle" /\ should_exit' = [should_exit EXCEPT ![w] = TRUE] /\ Wake(w)
      /\ UNCHANGED <<refVars, queueVars, fences, cur_fences, reported, semaphore>>
  BY DEF StopWorker
<1>3. /\ pc' \in [Workers -> {"lock", "wait", "woken", "run", "decref", "exited"}]
      /\ \A u \in Workers : pc'[u] = pc[u] \/ (pc[u] = "wait" /\ pc'[u] = "woken")
  BY <1>1, <1>2, Wakes
<1>4. ReferencesAccounted'
  BY <1>1, <1>2, CountsKept DEF refVars, queueVars
<1>5. TypeOK'
  <2>1. should_exit' \in [Workers -> BOOLEAN]
    BY <1>1, <1>2 DEF TypeOK
  <2> QED BY <1>1, <1>2, <1>3, <2>1 DEF TypeOK, refVars, queueVars
<1>6. ControlFits'
  BY <1>1, <1>2, <1>3 DEF ControlFits, TypeOK, queueVars
<1> QED BY <1>4, <1>5, <1>6 DEF WorkerInv

\* What is left of the queue's work goes with its references.
LEMMA DestroysQueue ==
    ASSUME WorkerInv, NEW w \in Workers, DestroyQueue(w)
    PROVE  WorkerInv'
<1>1. TypeOK /\ ControlFits /\ ReferencesAccounted
  BY DEF WorkerInv
<1>2. /\ pc[w] = "exited" /\ fences' = [fences EXCEPT ![w] = <<>>]
      /\ ops' = [ops EXCEPT ![w] = <<>>] /\ alive' = [alive EXCEPT ![w] = FALSE]
      /\ internal_refcount' = [f \in WorkerFences |->
             internal_refcount[f] - JobsOf(fences[w], f) - OpsOf(w, f)]
      /\ UNCHANGED <<refcount, failed, flush, queued, submitted, cur_fences, should_exit, pc,
                     reported, semaphore>>
  BY DEF DestroyQueue
<1>3. /\ ops[w] \in Seq(WorkerFences) /\ fences[w] \in Seq(Job) /\ cur_fences[w] \in Seq(Job)
      /\ \A g : CountOf(w, g) \in Nat
  BY <1>1, SequencesOf
<1>4. cur_fences[w] = <<>> /\ flush[w] # "destroy_op"
  BY <1>1, <1>2 DEF ControlFits
<1>5. /\ <<>> \in Seq(Job) /\ <<>> \in Seq(WorkerFences)
  OBVIOUS
<1>6. /\ ops' \in [Workers -> Seq(WorkerFences)] /\ ops'[w] = <<>>
      /\ \A u \in Workers : u # w => ops'[u] = ops[u]
  BY <1>1, <1>2, <1>5 DEF TypeOK
<1>7. /\ fences' \in [Workers -> Seq(Job)] /\ fences'[w] = <<>>
      /\ \A u \in Workers : u # w => fences'[u] = fences[u]
  BY <1>1, <1>2, <1>5 DEF TypeOK
<1>8. SequencesTyped(ops', fences', cur_fences')
  BY <1>1, <1>2, <1>6, <1>7 DEF TypeOK, SequencesTyped
<1>9. ASSUME NEW g \in WorkerFences
      PROVE  internal_refcount'[g] = internal_refcount[g] + (CountOf(w, g)' - CountOf(w, g))
  <2>1. OpsOf(w, g) = Cardinality(FencesAt(ops[w], g))
    BY DEF OpsOf, OpsAt, FencesAt
  <2>2. JobsOf(fences[w], g) = Cardinality(JobsAt(fences[w], g))
    BY DEF JobsOf
  <2>3. /\ Cardinality(FencesAt(ops[w], g)) \in Nat /\ Cardinality(JobsAt(fences[w], g)) \in Nat
    BY <1>3, FencesCount, JobsCount
  <2>4. CountOf(w, g) = Cardinality(FencesAt(ops[w], g)) + Cardinality(JobsAt(fences[w], g))
    BY <1>4, <2>3, NothingCounted DEF CountOf, Count
  <2>5. CountOf(w, g)' = 0
    BY <1>2, <1>4, <1>6, <1>7, NothingCounted DEF CountOf, Count
  <2>6. internal_refcount[g] \in Nat
    BY <1>1 DEF TypeOK
  <2>7. internal_refcount'[g] = internal_refcount[g] - JobsOf(fences[w], g) - OpsOf(w, g)
    BY <1>2
  <2> QED BY <2>1, <2>2, <2>3, <2>4, <2>5, <2>6, <2>7
<1>10. ReferencesAccounted' /\ \A g \in WorkerFences : internal_refcount'[g] \in Nat
  BY <1>1, <1>2, <1>6, <1>7, <1>8, <1>9, WorkerAccounted
<1>11. TypeOK'
  <2>1. internal_refcount' \in [WorkerFences -> Nat]
    BY <1>2, <1>10
  <2>2. alive' \in [Workers -> BOOLEAN]
    BY <1>1, <1>2 DEF TypeOK
  <2> QED BY <1>1, <1>2, <1>6, <1>7, <2>1, <2>2 DEF TypeOK
<1>12. ControlFits'
  BY <1>1, <1>2, <1>4, <1>6 DEF ControlFits
<1> QED BY <1>10, <1>11, <1>12 DEF WorkerInv

\* The worker takes the whole array, or exits.
LEMMA Takes ==
    ASSUME WorkerInv, NEW w \in Workers, pc[w] \in {"lock", "woken"}, TakeOrExit(w)
    PROVE  WorkerInv'
<1>1. TypeOK /\ ControlFits /\ ReferencesAccounted
  BY DEF WorkerInv
<1>2. UNCHANGED <<refVars, queueVars, should_exit, reported, semaphore>>
  BY DEF TakeOrExit
<1>3. UNCHANGED <<refcount, internal_refcount, failed, ops, flush, alive, queued, submitted>>
  BY <1>2 DEF refVars, queueVars
<1>4. cur_fences[w] = <<>>
  BY <1>1 DEF ControlFits
<1>5. CASE should_exit[w]
  <2>1. pc' = [pc EXCEPT ![w] = "exited"] /\ UNCHANGED <<fences, cur_fences>>
    BY <1>5 DEF TakeOrExit
  <2>2. ReferencesAccounted'
    BY <1>1, <1>3, <2>1, CountsKept
  <2>3. TypeOK'
    <3>1. pc' \in [Workers -> {"lock", "wait", "woken", "run", "decref", "exited"}]
      BY <1>1, <2>1 DEF TypeOK
    <3> QED BY <1>1, <1>2, <1>3, <2>1, <3>1 DEF TypeOK
  <2>4. ControlFits'
    BY <1>1, <1>2, <1>3, <1>4, <1>5, <2>1 DEF ControlFits, TypeOK
  <2> QED BY <2>2, <2>3, <2>4 DEF WorkerInv
<1>6. CASE ~should_exit[w]
  <2>1. /\ pc' = [pc EXCEPT ![w] = "run"] /\ cur_fences' = [cur_fences EXCEPT ![w] = fences[w]]
        /\ fences' = [fences EXCEPT ![w] = <<>>]
    BY <1>6 DEF TakeOrExit
  <2>2. <<>> \in Seq(Job) /\ fences[w] \in Seq(Job)
    BY <1>1, SequencesOf
  <2>3. /\ fences' \in [Workers -> Seq(Job)] /\ fences'[w] = <<>>
        /\ cur_fences' \in [Workers -> Seq(Job)] /\ cur_fences'[w] = fences[w]
        /\ \A u \in Workers : u # w => fences'[u] = fences[u] /\ cur_fences'[u] = cur_fences[u]
    BY <1>1, <2>1, <2>2 DEF TypeOK
  <2>4. SequencesTyped(ops', fences', cur_fences')
    BY <1>1, <1>3, <2>3 DEF TypeOK, SequencesTyped
  <2>5. ASSUME NEW g \in WorkerFences
        PROVE  internal_refcount'[g] = internal_refcount[g] + (CountOf(w, g)' - CountOf(w, g))
    <3>1. CountOf(w, g) = Cardinality(FencesAt(ops[w], g)) + Cardinality(JobsAt(fences[w], g)) + 0
      BY <1>4, NothingCounted DEF CountOf, Count
    <3>2. CountOf(w, g)' =
              Cardinality(FencesAt(ops[w], g)) + 0 + Cardinality(JobsAt(fences[w], g))
      BY <1>3, <2>3, NothingCounted DEF CountOf, Count
    <3>3. /\ Cardinality(FencesAt(ops[w], g)) \in Nat /\ Cardinality(JobsAt(fences[w], g)) \in Nat
          /\ internal_refcount[g] \in Nat /\ internal_refcount'[g] = internal_refcount[g]
      <4>1. ops[w] \in Seq(WorkerFences)
        BY <1>1, SequencesOf
      <4> QED BY <1>1, <1>3, <2>2, <4>1, FencesCount, JobsCount DEF TypeOK
    <3> QED BY <3>1, <3>2, <3>3
  <2>6. ReferencesAccounted'
    BY <1>1, <1>3, <2>3, <2>4, <2>5, WorkerAccounted
  <2>7. TypeOK'
    <3>1. pc' \in [Workers -> {"lock", "wait", "woken", "run", "decref", "exited"}]
      BY <1>1, <2>1 DEF TypeOK
    <3> QED BY <1>1, <1>2, <1>3, <2>3, <3>1 DEF TypeOK
  <2>8. ControlFits'
    BY <1>1, <1>2, <1>3, <1>6, <2>1, <2>3 DEF ControlFits, TypeOK
  <2> QED BY <2>6, <2>7, <2>8 DEF WorkerInv
<1> QED BY <1>5, <1>6

\* The worker's other steps with its array as it is.
LEMMA Works ==
    ASSUME WorkerInv, NEW w \in Workers,
           WorkerSleep(w) \/ WorkerSignal(w) \/ WorkerLoop(w) \/ SpuriousWakeup(w)
    PROVE  WorkerInv'
<1>1. TypeOK /\ ControlFits /\ ReferencesAccounted
  BY DEF WorkerInv
<1>2. /\ UNCHANGED <<refVars, queueVars, fences, cur_fences, should_exit, semaphore>>
  BY DEF WorkerSleep, WorkerSignal, WorkerLoop, SpuriousWakeup
<1>3. /\ UNCHANGED <<refcount, internal_refcount, failed, ops, flush, alive, queued, submitted>>
  BY <1>2 DEF refVars, queueVars
<1>4. ReferencesAccounted'
  BY <1>1, <1>2, <1>3, CountsKept
<1>5. /\ pc' \in [Workers -> {"lock", "wait", "woken", "run", "decref", "exited"}]
      /\ \A u \in Workers : u # w => pc'[u] = pc[u]
      /\ pc'[w] = "exited" => pc[w] = "exited"
      /\ pc'[w] = "decref" => cur_fences[w] # <<>>
      /\ pc'[w] \in {"lock", "wait", "woken", "exited"} => cur_fences[w] = <<>>
  <2>1. pc \in [Workers -> {"lock", "wait", "woken", "run", "decref", "exited"}]
    BY <1>1 DEF TypeOK
  <2>2. CASE WorkerSleep(w)
    BY <1>1, <2>1, <2>2 DEF WorkerSleep, ControlFits
  <2>3. CASE WorkerSignal(w)
    BY <1>1, <2>1, <2>3 DEF WorkerSignal, ControlFits
  <2>4. CASE WorkerLoop(w)
    BY <1>1, <2>1, <2>4 DEF WorkerLoop, ControlFits
  <2>5. CASE SpuriousWakeup(w)
    BY <1>1, <2>1, <2>5 DEF SpuriousWakeup, Wake, ControlFits
  <2> QED BY <2>2, <2>3, <2>4, <2>5
<1>6. reported' \in [Workers -> Seq(Job)]
  <2>1. reported \in [Workers -> Seq(Job)] /\ cur_fences[w] \in Seq(Job)
    BY <1>1 DEF TypeOK
  <2>2. CASE WorkerSignal(w)
    <3>1. PICK job \in Job : job = Head(cur_fences[w])
      BY <2>1, <2>2, HeadTailProperties DEF WorkerSignal
    <3>2. reported' = [reported EXCEPT ![w] = Append(@, job)]
      BY <2>2, <3>1 DEF WorkerSignal
    <3>3. Append(reported[w], job) \in Seq(Job)
      BY <2>1, <3>1, AppendProperties
    <3> QED BY <2>1, <3>2, <3>3
  <2>3. CASE ~WorkerSignal(w)
    BY <2>1, <2>3 DEF WorkerSleep, WorkerLoop, SpuriousWakeup
  <2> QED BY <2>2, <2>3
<1>7. TypeOK'
  BY <1>1, <1>2, <1>3, <1>5, <1>6 DEF TypeOK
<1>8. ControlFits'
  BY <1>1, <1>2, <1>3, <1>5 DEF ControlFits
<1> QED BY <1>4, <1>7, <1>8 DEF WorkerInv

\* A job goes from the array that the worker goes through.
LEMMA Pops ==
    ASSUME TypeOK, NEW w \in Workers, cur_fences[w] # <<>>, PopJob(w)
    PROVE  /\ Head(cur_fences[w]) \in Job /\ Head(cur_fences[w]).fence \in WorkerFences
           /\ cur_fences' \in [Workers -> Seq(Job)]
           /\ \A u \in Workers : u # w => cur_fences'[u] = cur_fences[u]
           /\ \A g : Cardinality(JobsAt(cur_fences'[w], g)) =
                         Cardinality(JobsAt(cur_fences[w], g)) - One(Head(cur_fences[w]).fence, g)
<1>1. cur_fences \in [Workers -> Seq(Job)]
  BY DEF TypeOK
<1>2. cur_fences[w] \in Seq(Job)
  BY <1>1
<1>3. PICK s \in Seq(Job) : s = Tail(cur_fences[w])
  BY <1>2, HeadTailProperties
<1>4. PICK job \in Job : job = Head(cur_fences[w])
  BY <1>2, HeadTailProperties
<1>5. job.fence \in WorkerFences
  BY DEF Job
<1>6. cur_fences' = [cur_fences EXCEPT ![w] = s]
  BY <1>3 DEF PopJob
<1>7. /\ cur_fences' \in [Workers -> Seq(Job)] /\ cur_fences'[w] = s
      /\ \A u \in Workers : u # w => cur_fences'[u] = cur_fences[u]
  BY <1>1, <1>6
<1>8. \A g : Cardinality(JobsAt(s, g)) = Cardinality(JobsAt(cur_fences[w], g)) - One(job.fence, g)
  BY <1>2, <1>3, <1>4, JobsOfTail DEF One
<1> QED BY <1>4, <1>5, <1>7, <1>8

\* The job goes, and its reference.
LEMMA DropsJob ==
    ASSUME WorkerInv, NEW w \in Workers, WorkerDecRef(w)
    PROVE  WorkerInv'
<1>1. TypeOK /\ ControlFits /\ ReferencesAccounted
  BY DEF WorkerInv
<1>2. pc[w] = "decref" /\ cur_fences[w] # <<>>
  BY <1>1 DEF WorkerDecRef, ControlFits
<1>3. PICK f : f = Head(cur_fences[w]).fence
  OBVIOUS
<1>4. /\ DecRef(f) /\ PopJob(w) /\ pc' = [pc EXCEPT ![w] = "run"]
      /\ UNCHANGED <<refcount, failed, queueVars, fences, should_exit, reported, semaphore>>
  BY <1>3 DEF WorkerDecRef
<1>5. UNCHANGED <<ops, flush, alive, queued, submitted>>
  BY <1>4 DEF queueVars
<1>6. /\ f \in WorkerFences /\ cur_fences' \in [Workers -> Seq(Job)]
      /\ \A u \in Workers : u # w => cur_fences'[u] = cur_fences[u]
      /\ \A g : Cardinality(JobsAt(cur_fences'[w], g)) =
                    Cardinality(JobsAt(cur_fences[w], g)) - One(f, g)
  BY <1>1, <1>2, <1>3, <1>4, Pops
<1>7. SequencesTyped(ops', fences', cur_fences')
  BY <1>1, <1>4, <1>5, <1>6 DEF TypeOK, SequencesTyped
<1>8. /\ internal_refcount' = [g \in WorkerFences |-> internal_refcount'[g]]
      /\ \A g \in WorkerFences : internal_refcount'[g] = internal_refcount[g] - One(f, g)
  BY <1>1, <1>4, <1>6, RefChanges
<1>9. ASSUME NEW g \in WorkerFences
      PROVE  internal_refcount'[g] = internal_refcount[g] + (CountOf(w, g)' - CountOf(w, g))
  <2>1. /\ ops[w] \in Seq(WorkerFences) /\ fences[w] \in Seq(Job) /\ cur_fences[w] \in Seq(Job)
    BY <1>1, SequencesOf
  <2>2. PICK a, b, c \in Nat :
            /\ Cardinality(FencesAt(ops[w], g)) = a /\ Cardinality(JobsAt(fences[w], g)) = b
            /\ Cardinality(JobsAt(cur_fences[w], g)) = c
    BY <2>1, FencesCount, JobsCount, Zenon
  <2>3. CountOf(w, g) = a + b + c
    BY <2>2 DEF CountOf, Count
  <2>4. CountOf(w, g)' = a + b + (c - One(f, g))
    BY <1>4, <1>5, <1>6, <2>2 DEF CountOf, Count
  <2>5. internal_refcount[g] \in Nat
    BY <1>1 DEF TypeOK
  <2> QED BY <1>8, <2>3, <2>4, <2>5 DEF One
<1>10. ReferencesAccounted' /\ \A g \in WorkerFences : internal_refcount'[g] \in Nat
  BY <1>1, <1>4, <1>5, <1>6, <1>7, <1>9, WorkerAccounted
<1>11. TypeOK'
  <2>1. internal_refcount' \in [WorkerFences -> Nat]
    BY <1>8, <1>10
  <2>2. pc' \in [Workers -> {"lock", "wait", "woken", "run", "decref", "exited"}]
    BY <1>1, <1>4 DEF TypeOK
  <2> QED BY <1>1, <1>4, <1>5, <1>6, <2>1, <2>2 DEF TypeOK
<1>12. ControlFits'
  BY <1>1, <1>4, <1>5, <1>6 DEF ControlFits, TypeOK
<1> QED BY <1>10, <1>11, <1>12 DEF WorkerInv

\* The job goes and its reference stays behind.
LEMMA Fails ==
    ASSUME WorkerInv, NEW w \in Workers, WorkerWaitFails(w)
    PROVE  WorkerInv'
<1>1. TypeOK /\ ControlFits /\ ReferencesAccounted
  BY DEF WorkerInv
<1>2. PICK f : f = Head(cur_fences[w]).fence
  OBVIOUS
<1>3. /\ pc[w] = "run" /\ cur_fences[w] # <<>> /\ PopJob(w)
      /\ failed' = [failed EXCEPT ![f] = @ + 1]
      /\ UNCHANGED <<refcount, internal_refcount, queueVars, fences, should_exit, pc,
                     reported, semaphore>>
  BY <1>2 DEF WorkerWaitFails
<1>4. UNCHANGED <<ops, flush, alive, queued, submitted>>
  BY <1>3 DEF queueVars
<1>5. /\ f \in WorkerFences /\ cur_fences' \in [Workers -> Seq(Job)]
      /\ \A u \in Workers : u # w => cur_fences'[u] = cur_fences[u]
      /\ \A g : Cardinality(JobsAt(cur_fences'[w], g)) =
                    Cardinality(JobsAt(cur_fences[w], g)) - One(f, g)
  BY <1>1, <1>2, <1>3, Pops
<1>6. SequencesTyped(ops', fences', cur_fences')
  BY <1>1, <1>3, <1>4, <1>5 DEF TypeOK, SequencesTyped
<1>7. failed' \in [WorkerFences -> Nat]
  <2>1. failed \in [WorkerFences -> Nat]
    BY <1>1 DEF TypeOK
  <2> QED BY <1>3, <1>5, <2>1
<1>8. ASSUME NEW g \in WorkerFences
      PROVE  internal_refcount'[g] =
                 internal_refcount[g] + (Application(g)' - Application(g))
                 + (failed'[g] - failed[g]) + (CountOf(w, g)' - CountOf(w, g))
  <2>1. /\ ops[w] \in Seq(WorkerFences) /\ fences[w] \in Seq(Job) /\ cur_fences[w] \in Seq(Job)
    BY <1>1, SequencesOf
  <2>2. PICK a, b, c \in Nat :
            /\ Cardinality(FencesAt(ops[w], g)) = a /\ Cardinality(JobsAt(fences[w], g)) = b
            /\ Cardinality(JobsAt(cur_fences[w], g)) = c
    BY <2>1, FencesCount, JobsCount, Zenon
  <2>3. CountOf(w, g) = a + b + c
    BY <2>2 DEF CountOf, Count
  <2>4. CountOf(w, g)' = a + b + (c - One(f, g))
    BY <1>3, <1>4, <1>5, <2>2 DEF CountOf, Count
  <2>5. internal_refcount[g] \in Nat /\ internal_refcount'[g] = internal_refcount[g]
    BY <1>1, <1>3 DEF TypeOK
  <2>6. failed \in [WorkerFences -> Nat]
    BY <1>1 DEF TypeOK
  <2>7. failed'[g] - failed[g] = One(f, g)
    <3>1. CASE g = f
      BY <1>3, <2>6, <3>1 DEF One
    <3>2. CASE g # f
      BY <1>3, <2>6, <3>2 DEF One
    <3> QED BY <3>1, <3>2
  <2>8. Application(g)' = Application(g) /\ Application(g) \in Nat /\ One(f, g) \in Nat
    BY <1>3 DEF Application, One
  <2> QED BY <2>3, <2>4, <2>5, <2>7, <2>8
<1>9. ReferencesAccounted'
  BY <1>1, <1>3, <1>4, <1>5, <1>6, <1>7, <1>8, StillAccounted
<1>10. TypeOK'
  BY <1>1, <1>3, <1>4, <1>5, <1>7 DEF TypeOK
<1>11. ControlFits'
  BY <1>1, <1>3, <1>4, <1>5 DEF ControlFits
<1> QED BY <1>9, <1>10, <1>11 DEF WorkerInv

\* The GPU holds no reference.
LEMMA GpuSteps ==
    ASSUME WorkerInv, NEW f \in WorkerFences, Gpu(f)
    PROVE  WorkerInv'
<1>1. TypeOK /\ ControlFits /\ ReferencesAccounted
  BY DEF WorkerInv
<1>2. UNCHANGED <<refVars, queueVars, workerVars>>
  BY DEF Gpu
<1>3. ReferencesAccounted'
  BY <1>1, <1>2, CountsKept DEF refVars, queueVars, workerVars
<1>4. semaphore' \in [WorkerFences -> Nat]
  BY <1>1 DEF Gpu, TypeOK
<1>5. TypeOK' /\ ControlFits'
  BY <1>1, <1>2, <1>4 DEF TypeOK, ControlFits, refVars, queueVars, workerVars
<1> QED BY <1>3, <1>5 DEF WorkerInv

LEMMA WorkerStarts == Init => WorkerInv
<1> SUFFICES ASSUME Init PROVE WorkerInv
  OBVIOUS
<1>1. <<>> \in Seq(Job) /\ <<>> \in Seq(WorkerFences)
  OBVIOUS
<1>2. TypeOK
  BY <1>1 DEF Init, TypeOK
<1>3. ControlFits
  BY DEF Init, ControlFits
<1>4. ASSUME NEW f \in WorkerFences
      PROVE  Cardinality(References(f)) = 0
  <2>1. \A w \in Workers : ops[w] = <<>> /\ fences[w] = <<>> /\ cur_fences[w] = <<>>
    BY DEF Init
  <2>2. \A w \in Workers : Refs(w, <<>>, <<>>, <<>>, f) = {}
    BY NothingCounted DEF Refs
  <2>3. References(f) = {}
    BY <2>1, <2>2, ReferencesAre
  <2> QED BY <2>3, FS_EmptySet
<1>5. ReferencesAccounted
  BY <1>4 DEF Init, ReferencesAccounted
<1> QED BY <1>2, <1>3, <1>5 DEF WorkerInv

LEMMA WorkerSteps == WorkerInv /\ [Next]_vars => WorkerInv'
<1> SUFFICES ASSUME WorkerInv, [Next]_vars PROVE WorkerInv'
  OBVIOUS
<1>1. ASSUME NEW f \in WorkerFences, FenceRelease(f) PROVE WorkerInv'
  BY <1>1, Releases
<1>2. ASSUME NEW f \in WorkerFences, Gpu(f) PROVE WorkerInv'
  BY <1>2, GpuSteps
<1>3. ASSUME NEW f \in WorkerFences, NEW w \in Workers, QueueSignal(w, f) PROVE WorkerInv'
  BY <1>3, Queues
<1>4. ASSUME NEW w \in Workers, Caller(w) PROVE WorkerInv'
  BY <1>4, Enqueues, DestroysOp, DestroysQueue DEF Caller
<1>5. ASSUME NEW w \in Workers, StopWorker(w) PROVE WorkerInv'
  BY <1>5, Stops
<1>6. ASSUME NEW w \in Workers, WorkerThread(w) PROVE WorkerInv'
  <2>1. CASE WorkerCheck(w) \/ WorkerWoken(w)
    BY <2>1, Takes DEF WorkerCheck, WorkerWoken
  <2>2. CASE WorkerSleep(w) \/ WorkerSignal(w) \/ WorkerLoop(w)
    BY <2>2, Works
  <2>3. CASE WorkerDecRef(w)
    BY <2>3, DropsJob
  <2>4. CASE WorkerWaitFails(w)
    BY <2>4, Fails
  <2> QED BY <1>6, <2>1, <2>2, <2>3, <2>4 DEF WorkerThread
<1>7. ASSUME NEW w \in Workers, SpuriousWakeup(w) PROVE WorkerInv'
  BY <1>7, Works
<1>8. CASE UNCHANGED vars
  <2>1. TypeOK /\ ControlFits /\ ReferencesAccounted
    BY DEF WorkerInv
  <2>2. UNCHANGED <<refVars, queueVars, workerVars, semaphore>>
    BY <1>8 DEF vars
  <2>3. ReferencesAccounted'
    BY <2>1, <2>2, CountsKept DEF refVars, queueVars, workerVars
  <2>4. TypeOK' /\ ControlFits'
    BY <2>1, <2>2 DEF TypeOK, ControlFits, refVars, queueVars, workerVars
  <2> QED BY <2>3, <2>4 DEF WorkerInv
<1> QED BY <1>1, <1>2, <1>3, <1>4, <1>5, <1>6, <1>7, <1>8 DEF Next

LEMMA WorkerInvHolds == Spec => []WorkerInv
<1>1. Init => WorkerInv
  BY WorkerStarts
<1>2. WorkerInv /\ [Next]_vars => WorkerInv'
  BY WorkerSteps
<1> QED BY <1>1, <1>2, PTL DEF Spec

----------------------------------------------------------------------------
(* What the applications of a worker rely on.                              *)

\* Every counter of the model keeps its type: no count of references passes
\* below zero, though the code drops them in three threads.
THEOREM WorkerTypeCorrect == Spec => []TypeOK
<1>1. WorkerInv => TypeOK
  BY DEF WorkerInv
<1> QED BY <1>1, WorkerInvHolds, PTL

\* d3d12_fence_incref() and d3d12_fence_decref() are called in pairs: a fence
\* is referred to as often as its internal reference count says, whatever
\* the order of releases, reports and queues that go away.
THEOREM ReferencesAreAccounted == Spec => []ReferencesAccounted
<1>1. WorkerInv => ReferencesAccounted
  BY DEF WorkerInv
<1> QED BY <1>1, WorkerInvHolds, PTL

\* A place that names a fence is one of its references.
LEMMA HeldIsCounted ==
    ASSUME WorkerInv, NEW f \in WorkerFences, NEW x, x \in References(f)
    PROVE  internal_refcount[f] > 0
<1>1. TypeOK /\ ReferencesAccounted
  BY DEF WorkerInv
<1> DEFINE A == [u \in Workers |-> Refs(u, ops[u], fences[u], cur_fences[u], f)]
<1>2. \A u \in Workers : IsFiniteSet(Refs(u, ops[u], fences[u], cur_fences[u], f))
  <2>1. \A u \in Workers : /\ ops[u] \in Seq(WorkerFences) /\ fences[u] \in Seq(Job)
                           /\ cur_fences[u] \in Seq(Job)
    BY <1>1 DEF TypeOK
  <2> QED BY <2>1, RefsCount
<1>3. \A u \in Workers : IsFiniteSet(A[u])
  BY <1>2
<1>4. References(f) = Whole(A)
  BY ReferencesAre DEF Whole
<1> HIDE DEF A
<1>5. IsFiniteSet(References(f))
  BY <1>3, <1>4, FiniteWhole
<1>6. Cardinality(References(f)) \in Nat /\ Cardinality(References(f)) # 0
  BY <1>5, FS_CardinalityType, FS_EmptySet
<1>7. failed[f] \in Nat /\ internal_refcount[f] \in Nat
  BY <1>1 DEF TypeOK
<1>8. internal_refcount[f] = Application(f) + failed[f] + Cardinality(References(f))
  BY <1>1 DEF ReferencesAccounted, Application
<1>9. Application(f) \in Nat
  BY DEF Application
<1> QED BY <1>6, <1>7, <1>8, <1>9

\* A fence that an operation, a job that waits or a job in work refers to was
\* not freed by the release that dropped the last other reference.
THEOREM NoFreedFence == Spec => []NoFreedFenceHeld
<1>1. WorkerInv => NoFreedFenceHeld
  <2> SUFFICES ASSUME WorkerInv, NEW w \in Workers
               PROVE  /\ \A i \in DOMAIN ops[w] : internal_refcount[ops[w][i]] > 0
                      /\ \A i \in DOMAIN fences[w] : internal_refcount[fences[w][i].fence] > 0
                      /\ \A i \in DOMAIN cur_fences[w] :
                             internal_refcount[cur_fences[w][i].fence] > 0
    BY DEF NoFreedFenceHeld
  <2>1. /\ ops[w] \in Seq(WorkerFences) /\ fences[w] \in Seq(Job) /\ cur_fences[w] \in Seq(Job)
    BY SequencesOf DEF WorkerInv
  <2>2. ASSUME NEW i \in DOMAIN ops[w]
        PROVE  internal_refcount[ops[w][i]] > 0
    <3>1. ops[w][i] \in WorkerFences
      BY <2>1, ElementOfSeq, LenProperties
    <3>2. <<<<"op", w>>, i>> \in References(ops[w][i])
      BY DEF References, OpsAt
    <3> QED BY <3>1, <3>2, HeldIsCounted
  <2>3. ASSUME NEW i \in DOMAIN fences[w]
        PROVE  internal_refcount[fences[w][i].fence] > 0
    <3>1. fences[w][i].fence \in WorkerFences
      <4>1. fences[w][i] \in Job
        BY <2>1, ElementOfSeq, LenProperties
      <4> QED BY <4>1 DEF Job
    <3>2. <<<<"waiting", w>>, i>> \in References(fences[w][i].fence)
      BY DEF References, JobsAt
    <3> QED BY <3>1, <3>2, HeldIsCounted
  <2>4. ASSUME NEW i \in DOMAIN cur_fences[w]
        PROVE  internal_refcount[cur_fences[w][i].fence] > 0
    <3>1. cur_fences[w][i].fence \in WorkerFences
      <4>1. cur_fences[w][i] \in Job
        BY <2>1, ElementOfSeq, LenProperties
      <4> QED BY <4>1 DEF Job
    <3>2. <<<<"current", w>>, i>> \in References(cur_fences[w][i].fence)
      BY DEF References, JobsAt
    <3> QED BY <3>1, <3>2, HeldIsCounted
  <2> QED BY <2>2, <2>3, <2>4
<1> QED BY <1>1, WorkerInvHolds, PTL

----------------------------------------------------------------------------
(* The signals that were queued and not submitted.                         *)

\* The fences of the signals that a queue has still to submit: between the
\* submission and d3d12_command_queue_destroy_op() the first one is done.
ToSubmit(w) == IF flush[w] = "destroy_op" THEN Tail(ops[w]) ELSE ops[w]

Backlog == [w \in Workers |-> ToSubmit(w)]

NoJobs == [w \in Workers |-> <<>>]

\* No more is submitted, and left to be, than was queued.
SubmissionsCovered ==
    \A f \in WorkerFences :
        /\ queued[f] <= MaxSignals
        /\ submitted[f] + Total(Backlog, NoJobs, NoJobs, f) <= queued[f]

LEMMA RestTyped ==
    ASSUME NEW o \in Seq(WorkerFences), NEW b, b => o # <<>>
    PROVE  (IF b THEN Tail(o) ELSE o) \in Seq(WorkerFences)
BY HeadTailProperties

LEMMA BacklogTyped ==
    ASSUME TypeOK, ControlFits
    PROVE  SequencesTyped(Backlog, NoJobs, NoJobs)
<1>1. <<>> \in Seq(Job)
  OBVIOUS
<1>2. ASSUME NEW w \in Workers PROVE ToSubmit(w) \in Seq(WorkerFences)
  <2>1. ops[w] \in Seq(WorkerFences) /\ (flush[w] = "destroy_op" => ops[w] # <<>>)
    BY DEF TypeOK, ControlFits
  <2> QED BY <2>1, RestTyped DEF ToSubmit
<1> QED BY <1>1, <1>2 DEF SequencesTyped, Backlog, NoJobs

LEMMA BacklogTypedPrimed ==
    ASSUME TypeOK', ControlFits'
    PROVE  Backlog' \in [Workers -> Seq(WorkerFences)]
<1>1. ASSUME NEW w \in Workers PROVE ToSubmit(w)' \in Seq(WorkerFences)
  <2>1. ops'[w] \in Seq(WorkerFences) /\ (flush'[w] = "destroy_op" => ops'[w] # <<>>)
    BY DEF TypeOK, ControlFits
  <2> QED BY <2>1, RestTyped DEF ToSubmit
<1> QED BY <1>1 DEF Backlog

\* One queue's backlog changes: so does the number of all.
LEMMA BacklogChanges ==
    ASSUME TypeOK, ControlFits, NEW b, b \in [Workers -> Seq(WorkerFences)], NEW w \in Workers,
           \A u \in Workers : u # w => b[u] = Backlog[u], NEW f
    PROVE  /\ Total(Backlog, NoJobs, NoJobs, f) \in Nat /\ Total(b, NoJobs, NoJobs, f) \in Nat
           /\ Total(b, NoJobs, NoJobs, f) =
                  Total(Backlog, NoJobs, NoJobs, f) - Cardinality(FencesAt(ToSubmit(w), f))
                  + Cardinality(FencesAt(b[w], f))
<1>1. SequencesTyped(Backlog, NoJobs, NoJobs)
  BY BacklogTyped
<1>2. SequencesTyped(b, NoJobs, NoJobs)
  BY <1>1 DEF SequencesTyped
<1>3. PICK a : a = Backlog
  OBVIOUS
<1>4. PICK e : e = NoJobs
  OBVIOUS
<1>5. /\ Total(a, e, e, f) \in Nat /\ Total(b, e, e, f) \in Nat
      /\ Count(a[w], e[w], e[w], f) \in Nat /\ Count(b[w], e[w], e[w], f) \in Nat
      /\ Total(b, e, e, f) = Total(a, e, e, f) - Count(a[w], e[w], e[w], f)
                             + Count(b[w], e[w], e[w], f)
  BY <1>1, <1>2, <1>3, <1>4, TotalChanges
<1>6. a[w] = ToSubmit(w) /\ e[w] = <<>>
  BY <1>3, <1>4 DEF Backlog, NoJobs
<1>7. /\ Cardinality(FencesAt(a[w], f)) \in Nat /\ Cardinality(FencesAt(b[w], f)) \in Nat
      /\ Cardinality(JobsAt(e[w], f)) = 0
  <2>1. a[w] \in Seq(WorkerFences) /\ b[w] \in Seq(WorkerFences)
    BY <1>1, <1>3 DEF SequencesTyped
  <2> QED BY <1>6, <2>1, FencesCount, NothingCounted
<1>8. /\ Count(a[w], e[w], e[w], f) = Cardinality(FencesAt(a[w], f))
      /\ Count(b[w], e[w], e[w], f) = Cardinality(FencesAt(b[w], f))
  BY <1>7 DEF Count
<1> QED BY <1>3, <1>4, <1>5, <1>6, <1>7, <1>8

\* What a step of one queue does to its backlog is covered.
LEMMA StillCovered ==
    ASSUME TypeOK, ControlFits, SubmissionsCovered, NEW w \in Workers,
           TypeOK', ControlFits',
           \A u \in Workers : u # w => ops'[u] = ops[u] /\ flush'[u] = flush[u],
           \A f \in WorkerFences :
               /\ queued'[f] <= MaxSignals
               /\ submitted'[f] + Cardinality(FencesAt(ToSubmit(w)', f)) - queued'[f]
                      <= submitted[f] + Cardinality(FencesAt(ToSubmit(w), f)) - queued[f]
    PROVE  SubmissionsCovered'
<1> SUFFICES ASSUME NEW f \in WorkerFences
             PROVE  submitted'[f] + Total(Backlog', NoJobs, NoJobs, f) <= queued'[f]
  BY DEF SubmissionsCovered, NoJobs
<1>1. PICK b : b = Backlog'
  OBVIOUS
<1>3. b \in [Workers -> Seq(WorkerFences)]
  BY <1>1, BacklogTypedPrimed
<1>4. /\ \A u \in Workers : u # w => b[u] = Backlog[u]
      /\ b[w] = ToSubmit(w)'
  BY <1>1 DEF Backlog, ToSubmit
<1>5. /\ Total(Backlog, NoJobs, NoJobs, f) \in Nat /\ Total(b, NoJobs, NoJobs, f) \in Nat
      /\ Total(b, NoJobs, NoJobs, f) =
             Total(Backlog, NoJobs, NoJobs, f) - Cardinality(FencesAt(ToSubmit(w), f))
             + Cardinality(FencesAt(b[w], f))
  BY <1>3, <1>4, BacklogChanges
<1>6. /\ Cardinality(FencesAt(ToSubmit(w), f)) \in Nat /\ Cardinality(FencesAt(b[w], f)) \in Nat
  <2>1. b[w] \in Seq(WorkerFences)
    BY <1>3
  <2>2. SequencesTyped(Backlog, NoJobs, NoJobs) /\ Backlog[w] = ToSubmit(w)
    BY BacklogTyped DEF Backlog
  <2>3. ToSubmit(w) \in Seq(WorkerFences)
    BY <2>2 DEF SequencesTyped
  <2> QED BY <2>1, <2>3, FencesCount
<1>7. /\ queued[f] \in Nat /\ submitted[f] \in Nat /\ queued'[f] \in Nat /\ submitted'[f] \in Nat
  BY DEF TypeOK
<1>8. submitted[f] + Total(Backlog, NoJobs, NoJobs, f) <= queued[f]
  BY DEF SubmissionsCovered
<1>9. submitted'[f] + Cardinality(FencesAt(b[w], f)) - queued'[f]
          <= submitted[f] + Cardinality(FencesAt(ToSubmit(w), f)) - queued[f]
  BY <1>4
<1>10. submitted'[f] + Total(b, NoJobs, NoJobs, f) <= queued'[f]
  BY <1>5, <1>6, <1>7, <1>8, <1>9
<1> QED BY <1>1, <1>10

LEMMA NothingChanges ==
    ASSUME SubmissionsCovered, UNCHANGED <<ops, flush, queued, submitted>>
    PROVE  SubmissionsCovered'
<1>1. Backlog' = Backlog
  BY DEF Backlog, ToSubmit
<1> QED BY <1>1 DEF SubmissionsCovered, NoJobs

\* The submission of the first one.
LEMMA CoversEnqueue ==
    ASSUME WorkerInv, SubmissionsCovered, WorkerInv', NEW w \in Workers,
           EnqueueTimelineSemaphore(w)
    PROVE  SubmissionsCovered'
<1>1. TypeOK /\ ControlFits /\ TypeOK' /\ ControlFits'
  BY DEF WorkerInv
<1>2. /\ ops[w] # <<>> /\ flush[w] = "idle" /\ ops' = ops /\ queued' = queued
      /\ flush' = [flush EXCEPT ![w] = "destroy_op"]
      /\ submitted' = [submitted EXCEPT ![Head(ops[w])] = @ + 1]
  BY DEF EnqueueTimelineSemaphore
<1>3. ToSubmit(w) = ops[w] /\ ToSubmit(w)' = Tail(ops[w])
  BY <1>1, <1>2 DEF ToSubmit, TypeOK
<1>4. ASSUME NEW f \in WorkerFences
      PROVE  /\ queued'[f] <= MaxSignals
             /\ submitted'[f] + Cardinality(FencesAt(ToSubmit(w)', f)) - queued'[f]
                    <= submitted[f] + Cardinality(FencesAt(ToSubmit(w), f)) - queued[f]
  <2>1. PICK o \in Seq(WorkerFences) : o = ops[w]
    BY <1>1 DEF TypeOK
  <2>2. Head(o) \in WorkerFences
    BY <1>2, <2>1, HeadTailProperties
  <2>3. Cardinality(FencesAt(Tail(o), f)) =
            Cardinality(FencesAt(o, f)) - (IF Head(o) = f THEN 1 ELSE 0)
    BY <1>2, <2>1, FencesOfTail
  <2>4. submitted'[f] = submitted[f] + (IF Head(o) = f THEN 1 ELSE 0)
    <3>1. submitted \in [WorkerFences -> Nat]
      BY <1>1 DEF TypeOK
    <3>2. submitted[f] \in Nat /\ submitted' = [submitted EXCEPT ![Head(o)] = @ + 1]
      BY <1>2, <2>1, <3>1
    <3>3. PICK g \in WorkerFences : g = Head(o)
      BY <2>2
    <3>4. submitted'[f] = IF g = f THEN submitted[f] + 1 ELSE submitted[f]
      BY <3>1, <3>2, <3>3
    <3> QED BY <3>2, <3>3, <3>4
  <2>5. Cardinality(FencesAt(o, f)) \in Nat /\ submitted[f] \in Nat /\ queued[f] \in Nat
    BY <1>1, FencesCount DEF TypeOK
  <2>6. PICK hit \in {0, 1} : hit = IF Head(o) = f THEN 1 ELSE 0
    OBVIOUS
  <2>7. Cardinality(FencesAt(ToSubmit(w)', f)) = Cardinality(FencesAt(ToSubmit(w), f)) - hit
    BY <1>3, <2>1, <2>3, <2>6
  <2>8. submitted'[f] = submitted[f] + hit /\ queued'[f] = queued[f]
    BY <1>2, <2>4, <2>6
  <2>9. Cardinality(FencesAt(ToSubmit(w), f)) \in Nat
    BY <1>3, <2>1, <2>5
  <2>10. queued[f] <= MaxSignals
    BY DEF SubmissionsCovered
  <2> QED BY <2>5, <2>7, <2>8, <2>9, <2>10
<1> QED BY <1>1, <1>2, <1>4, StillCovered DEF TypeOK

LEMMA CoversQueue ==
    ASSUME WorkerInv, SubmissionsCovered, WorkerInv', NEW w \in Workers,
           NEW g \in WorkerFences, QueueSignal(w, g)
    PROVE  SubmissionsCovered'
<1>1. TypeOK /\ ControlFits /\ TypeOK' /\ ControlFits'
  BY DEF WorkerInv
<1>2. /\ ops' = [ops EXCEPT ![w] = Append(@, g)] /\ flush' = flush /\ submitted' = submitted
      /\ queued[g] < MaxSignals /\ queued' = [queued EXCEPT ![g] = @ + 1]
  BY DEF QueueSignal
<1>3. PICK o \in Seq(WorkerFences) : o = ops[w]
  BY <1>1 DEF TypeOK
<1>4. ops'[w] = Append(o, g)
  BY <1>1, <1>2, <1>3 DEF TypeOK
<1>5. PICK t \in Seq(WorkerFences) : t = ToSubmit(w)
  <2>1. flush[w] = "destroy_op" => o # <<>>
    BY <1>1, <1>3 DEF ControlFits
  <2>2. (IF flush[w] = "destroy_op" THEN Tail(o) ELSE o) \in Seq(WorkerFences)
    BY <2>1, RestTyped
  <2> QED BY <1>3, <2>2 DEF ToSubmit
<1>6. ToSubmit(w)' = Append(t, g)
  <2>1. CASE flush[w] = "destroy_op"
    <3>1. o # <<>>
      BY <1>1, <1>3, <2>1 DEF ControlFits
    <3>2. Tail(Append(o, g)) = Append(Tail(o), g)
      BY <3>1, HeadTailAppend
    <3> QED BY <1>2, <1>3, <1>4, <1>5, <2>1, <3>2 DEF ToSubmit
  <2>2. CASE flush[w] # "destroy_op"
    BY <1>2, <1>3, <1>4, <1>5, <2>2 DEF ToSubmit
  <2> QED BY <2>1, <2>2
<1>7. ASSUME NEW f \in WorkerFences
      PROVE  /\ queued'[f] <= MaxSignals
             /\ submitted'[f] + Cardinality(FencesAt(ToSubmit(w)', f)) - queued'[f]
                    <= submitted[f] + Cardinality(FencesAt(ToSubmit(w), f)) - queued[f]
  <2>1. Cardinality(FencesAt(Append(t, g), f)) =
            Cardinality(FencesAt(t, f)) + (IF g = f THEN 1 ELSE 0)
    BY FencesOfAppend
  <2>2. PICK hit \in {0, 1} : hit = IF g = f THEN 1 ELSE 0
    OBVIOUS
  <2>3. /\ queued[f] \in Nat /\ submitted[f] \in Nat /\ MaxSignals \in Nat
        /\ Cardinality(FencesAt(t, f)) \in Nat
    BY <1>1, FencesCount, WorkerAssumption DEF TypeOK
  <2>4. queued'[f] = queued[f] + hit
    <3>1. queued \in [WorkerFences -> Nat]
      BY <1>1 DEF TypeOK
    <3> QED BY <1>2, <2>2, <3>1
  <2>5. queued[f] <= MaxSignals /\ (hit = 1 => queued[f] < MaxSignals)
    BY <1>2, <2>2 DEF SubmissionsCovered
  <2> QED BY <1>2, <1>5, <1>6, <2>1, <2>2, <2>3, <2>4, <2>5
<1> QED BY <1>1, <1>2, <1>7, StillCovered DEF TypeOK

LEMMA CoversDestroyOp ==
    ASSUME WorkerInv, SubmissionsCovered, WorkerInv', NEW w \in Workers, DestroyOp(w)
    PROVE  SubmissionsCovered'
<1>1. TypeOK /\ ControlFits /\ TypeOK' /\ ControlFits'
  BY DEF WorkerInv
<1>2. /\ flush[w] = "destroy_op" /\ ops' = [ops EXCEPT ![w] = Tail(@)]
      /\ flush' = [flush EXCEPT ![w] = "idle"] /\ queued' = queued /\ submitted' = submitted
  BY DEF DestroyOp
<1>3. ToSubmit(w)' = ToSubmit(w)
  BY <1>1, <1>2 DEF ToSubmit, TypeOK
<1>4. \A u \in Workers : ToSubmit(u)' = ToSubmit(u)
  BY <1>1, <1>2, <1>3 DEF ToSubmit, TypeOK
<1>5. Backlog' = Backlog
  BY <1>4 DEF Backlog
<1> QED BY <1>2, <1>5 DEF SubmissionsCovered, NoJobs

LEMMA CoversDestroyQueue ==
    ASSUME WorkerInv, SubmissionsCovered, WorkerInv', NEW w \in Workers, DestroyQueue(w)
    PROVE  SubmissionsCovered'
<1>1. TypeOK /\ ControlFits /\ TypeOK' /\ ControlFits'
  BY DEF WorkerInv
<1>2. /\ pc[w] = "exited" /\ ops' = [ops EXCEPT ![w] = <<>>] /\ flush' = flush
      /\ queued' = queued /\ submitted' = submitted
  BY DEF DestroyQueue
<1>3. flush[w] # "destroy_op"
  BY <1>1, <1>2 DEF ControlFits
<1>4. ToSubmit(w) = ops[w] /\ ToSubmit(w)' = <<>>
  BY <1>1, <1>2, <1>3 DEF ToSubmit, TypeOK
<1>5. ASSUME NEW f \in WorkerFences
      PROVE  /\ queued'[f] <= MaxSignals
             /\ submitted'[f] + Cardinality(FencesAt(ToSubmit(w)', f)) - queued'[f]
                    <= submitted[f] + Cardinality(FencesAt(ToSubmit(w), f)) - queued[f]
  <2>1. ops[w] \in Seq(WorkerFences) /\ queued[f] \in Nat /\ submitted[f] \in Nat
    BY <1>1 DEF TypeOK
  <2>2. Cardinality(FencesAt(ToSubmit(w), f)) \in Nat
    BY <1>4, <2>1, FencesCount
  <2>3. Cardinality(FencesAt(ToSubmit(w)', f)) = 0
    BY <1>4, NothingCounted
  <2>4. queued[f] <= MaxSignals
    BY DEF SubmissionsCovered
  <2> QED BY <1>2, <2>1, <2>2, <2>3, <2>4
<1> QED BY <1>1, <1>2, <1>5, StillCovered DEF TypeOK

LEMMA CoverSteps ==
    WorkerInv /\ SubmissionsCovered /\ [Next]_vars => SubmissionsCovered'
<1> SUFFICES ASSUME WorkerInv, SubmissionsCovered, [Next]_vars PROVE SubmissionsCovered'
  OBVIOUS
<1>1. WorkerInv'
  BY WorkerSteps
<1>2. ASSUME NEW f \in WorkerFences, FenceRelease(f) \/ Gpu(f) PROVE SubmissionsCovered'
  BY <1>2, NothingChanges DEF FenceRelease, Gpu, queueVars
<1>3. ASSUME NEW f \in WorkerFences, NEW w \in Workers, QueueSignal(w, f)
      PROVE  SubmissionsCovered'
  BY <1>1, <1>3, CoversQueue
<1>4. ASSUME NEW w \in Workers, Caller(w) PROVE SubmissionsCovered'
  BY <1>1, <1>4, CoversEnqueue, CoversDestroyOp, CoversDestroyQueue DEF Caller
<1>5. ASSUME NEW w \in Workers, StopWorker(w) \/ SpuriousWakeup(w) PROVE SubmissionsCovered'
  BY <1>5, NothingChanges DEF StopWorker, SpuriousWakeup, queueVars
<1>6. ASSUME NEW w \in Workers, WorkerThread(w) PROVE SubmissionsCovered'
  <2>1. UNCHANGED queueVars
    BY <1>6 DEF WorkerThread, WorkerCheck, WorkerSleep, WorkerWoken, TakeOrExit,
       WorkerSignal, WorkerDecRef, WorkerWaitFails, WorkerLoop
  <2> QED BY <2>1, NothingChanges DEF queueVars
<1>7. ASSUME UNCHANGED vars PROVE SubmissionsCovered'
  <2>1. UNCHANGED queueVars
    BY <1>7 DEF vars
  <2> QED BY <2>1, NothingChanges DEF queueVars
<1> QED BY <1>2, <1>3, <1>4, <1>5, <1>6, <1>7 DEF Next

LEMMA CoverStarts == Init => SubmissionsCovered
<1> SUFFICES ASSUME Init, NEW f \in WorkerFences
             PROVE  /\ queued[f] <= MaxSignals
                    /\ submitted[f] + Total(Backlog, NoJobs, NoJobs, f) <= queued[f]
  BY DEF SubmissionsCovered
<1>1. queued[f] = 0 /\ submitted[f] = 0 /\ MaxSignals \in Nat
  BY WorkerAssumption DEF Init
<1>2. \A w \in Workers : Backlog[w] = <<>> /\ NoJobs[w] = <<>>
  BY DEF Init, Backlog, ToSubmit, NoJobs
<1>3. \A w \in Workers : Refs(w, <<>>, <<>>, <<>>, f) = {}
  BY NothingCounted DEF Refs
<1>4. UNION {Refs(u, Backlog[u], NoJobs[u], NoJobs[u], f) : u \in Workers} = {}
  BY <1>2, <1>3
<1>5. Total(Backlog, NoJobs, NoJobs, f) = 0
  BY <1>4, FS_EmptySet DEF Total
<1> QED BY <1>1, <1>5

LEMMA CoverInvHolds == Spec => [](WorkerInv /\ SubmissionsCovered)
<1>1. Init => WorkerInv /\ SubmissionsCovered
  BY WorkerStarts, CoverStarts
<1>2. WorkerInv /\ SubmissionsCovered /\ [Next]_vars => (WorkerInv /\ SubmissionsCovered)'
  BY WorkerSteps, CoverSteps
<1> QED BY <1>1, <1>2, PTL DEF Spec

----------------------------------------------------------------------------
(* The worker implements a queue of reports.                               *)

\* AsReports() goes with the operators on sequences.
LEMMA ReportsTyped ==
    ASSUME NEW s \in Seq(Job)
    PROVE  /\ AsReports(s) \in Seq(WorkerFences \X Nat)
           /\ Len(AsReports(s)) = Len(s)
           /\ \A i \in 1 .. Len(s) : AsReports(s)[i] = <<s[i].fence, s[i].value>>
<1>1. PICK n \in Nat : Len(s) = n
  OBVIOUS
<1>2. DOMAIN s = 1 .. n
  BY <1>1, LenProperties
<1>3. \A i \in 1 .. n : s[i] \in Job
  BY <1>1, ElementOfSeq
<1>4. \A i \in 1 .. n : <<s[i].fence, s[i].value>> \in WorkerFences \X Nat
  BY <1>3 DEF Job
<1>5. AsReports(s) = [i \in 1 .. n |-> <<s[i].fence, s[i].value>>]
  BY <1>2 DEF AsReports
<1>6. AsReports(s) \in [1 .. n -> WorkerFences \X Nat]
  BY <1>4, <1>5
<1>7. AsReports(s) \in Seq(WorkerFences \X Nat) /\ Len(AsReports(s)) = n
  BY <1>6, SeqDef, LenProperties
<1> QED BY <1>1, <1>5, <1>7

LEMMA ReportsOfAppend ==
    ASSUME NEW s \in Seq(Job), NEW j \in Job
    PROVE  AsReports(Append(s, j)) = Append(AsReports(s), <<j.fence, j.value>>)
<1>1. PICK n \in Nat : Len(s) = n
  OBVIOUS
<1>2. PICK p \in Seq(Job) : p = Append(s, j)
  BY AppendProperties
<1>3. Len(p) = n + 1 /\ p[n + 1] = j /\ \A i \in 1 .. n : p[i] = s[i]
  BY <1>1, <1>2, AppendProperties
<1>4. PICK a \in Seq(WorkerFences \X Nat) : a = AsReports(s)
  BY ReportsTyped
<1>5. PICK b \in Seq(WorkerFences \X Nat) : b = AsReports(p)
  BY ReportsTyped
<1>6. PICK e \in WorkerFences \X Nat : e = <<j.fence, j.value>>
  BY DEF Job
<1>7. PICK c \in Seq(WorkerFences \X Nat) : c = Append(a, e)
  BY AppendProperties
<1>8. Len(a) = n /\ \A i \in 1 .. n : a[i] = <<s[i].fence, s[i].value>>
  BY <1>1, <1>4, ReportsTyped
<1>9. Len(b) = n + 1 /\ \A i \in 1 .. n + 1 : b[i] = <<p[i].fence, p[i].value>>
  BY <1>3, <1>5, ReportsTyped
<1>10. Len(c) = n + 1 /\ c[n + 1] = e /\ \A i \in 1 .. n : c[i] = a[i]
  <2>1. /\ Len(c) = Len(a) + 1 /\ c[Len(c)] = e
        /\ \A i \in 1 .. Len(a) : c[i] = a[i]
    BY <1>7, AppendProperties
  <2>2. Len(a) = n
    BY <1>8
  <2> QED BY <2>1, <2>2, Zenon
<1>11. \A i \in 1 .. n + 1 : b[i] = c[i]
  <2> SUFFICES ASSUME NEW i \in 1 .. n + 1 PROVE b[i] = c[i]
    OBVIOUS
  <2>1. CASE i \in 1 .. n
    <3>1. p[i] = s[i] /\ b[i] = <<p[i].fence, p[i].value>>
      BY <1>3, <1>9, <2>1
    <3>2. a[i] = <<s[i].fence, s[i].value>> /\ c[i] = a[i]
      BY <1>8, <1>10, <2>1
    <3> QED BY <3>1, <3>2
  <2>2. CASE i = n + 1
    BY <1>3, <1>6, <1>9, <1>10, <2>2
  <2> QED BY <2>1, <2>2
<1>12. b = c
  BY <1>9, <1>10, <1>11, SeqEqual
<1> QED BY <1>2, <1>4, <1>5, <1>6, <1>7, <1>12

LEMMA ReportsOfTail ==
    ASSUME NEW s \in Seq(Job), s # <<>>
    PROVE  /\ AsReports(s) # <<>>
           /\ AsReports(Tail(s)) = Tail(AsReports(s))
           /\ Head(AsReports(s)) = <<Head(s).fence, Head(s).value>>
<1>1. PICK n \in Nat : Len(s) = n + 1
  <2>1. PICK m \in Nat : Len(s) = m /\ m # 0
    BY EmptySeq
  <2>2. m - 1 \in Nat /\ m = (m - 1) + 1
    BY <2>1
  <2> QED BY <2>1, <2>2
<1>2. PICK p \in Seq(Job) : p = Tail(s)
  BY HeadTailProperties
<1>3. Len(p) = n /\ s[1] = Head(s) /\ \A i \in 1 .. n : p[i] = s[i + 1]
  BY <1>1, <1>2, HeadTailProperties
<1>4. PICK a \in Seq(WorkerFences \X Nat) : a = AsReports(s)
  BY ReportsTyped
<1>5. PICK b \in Seq(WorkerFences \X Nat) : b = AsReports(p)
  BY ReportsTyped
<1>6. Len(a) = n + 1 /\ \A i \in 1 .. n + 1 : a[i] = <<s[i].fence, s[i].value>>
  BY <1>1, <1>4, ReportsTyped
<1>7. Len(b) = n /\ \A i \in 1 .. n : b[i] = <<p[i].fence, p[i].value>>
  BY <1>3, <1>5, ReportsTyped
<1>8. a # <<>>
  BY <1>6, EmptySeq
<1>9. PICK c \in Seq(WorkerFences \X Nat) : c = Tail(a)
  BY <1>8, HeadTailProperties
<1>10. Len(c) = n /\ a[1] = Head(a) /\ \A i \in 1 .. n : c[i] = a[i + 1]
  BY <1>6, <1>8, <1>9, HeadTailProperties
<1>11. \A i \in 1 .. n : i + 1 \in 1 .. n + 1
  OBVIOUS
<1>12. b = c
  <2>1. ASSUME NEW i \in 1 .. n PROVE b[i] = c[i]
    <3>1. p[i] = s[i + 1] /\ b[i] = <<p[i].fence, p[i].value>>
      BY <1>3, <1>7
    <3>2. a[i + 1] = <<s[i + 1].fence, s[i + 1].value>> /\ c[i] = a[i + 1]
      BY <1>6, <1>10, <1>11
    <3> QED BY <3>1, <3>2
  <2> QED BY <1>7, <1>10, <2>1, SeqEqual
<1>13. a[1] = <<Head(s).fence, Head(s).value>>
  BY <1>3, <1>6
<1> QED BY <1>2, <1>4, <1>5, <1>8, <1>9, <1>10, <1>12, <1>13

\* And concatenation with them.
LEMMA ConcatAppend ==
    ASSUME NEW s \in Seq(Job), NEW t \in Seq(Job), NEW j \in Job
    PROVE  /\ s \o t \in Seq(Job)
           /\ s \o Append(t, j) = Append(s \o t, j)
<1>1. s \o t \in Seq(Job) /\ <<j>> \in Seq(Job)
  BY ConcatProperties
<1>2. Append(t, j) = t \o <<j>> /\ Append(s \o t, j) = (s \o t) \o <<j>>
  BY <1>1, AppendIsConcat
<1>3. (s \o t) \o <<j>> = s \o (t \o <<j>>)
  BY <1>1, ConcatAssociative
<1> QED BY <1>1, <1>2, <1>3

LEMMA ConcatTail ==
    ASSUME NEW s \in Seq(Job), NEW t \in Seq(Job), s # <<>>
    PROVE  /\ s \o t \in Seq(Job) /\ s \o t # <<>>
           /\ Head(s \o t) = Head(s) /\ Tail(s \o t) = Tail(s) \o t
<1>1. PICK n \in Nat : Len(s) = n + 1
  <2>1. PICK m \in Nat : Len(s) = m /\ m # 0
    BY EmptySeq
  <2>2. m - 1 \in Nat /\ m = (m - 1) + 1
    BY <2>1
  <2> QED BY <2>1, <2>2
<1>2. PICK m \in Nat : Len(t) = m
  OBVIOUS
<1>3. PICK a \in Seq(Job) : a = s \o t
  BY ConcatProperties
<1>4. /\ Len(a) = n + 1 + m
      /\ \A i \in 1 .. n + 1 + m : a[i] = IF i <= n + 1 THEN s[i] ELSE t[i - (n + 1)]
  <2>1. /\ Len(a) = Len(s) + Len(t)
        /\ \A i \in 1 .. Len(s) + Len(t) : a[i] = IF i <= Len(s) THEN s[i] ELSE t[i - Len(s)]
    BY <1>3, ConcatProperties
  <2> QED BY <1>1, <1>2, <2>1, Zenon
<1>5. a # <<>> /\ Head(a) = Head(s)
  <2>1. a # <<>>
    BY <1>4, EmptySeq
  <2>2. Head(a) = a[1] /\ Head(s) = s[1] /\ a[1] = s[1]
    BY <1>4, <2>1
  <2> QED BY <2>1, <2>2
<1>6. PICK p \in Seq(Job) : p = Tail(s)
  BY HeadTailProperties
<1>7. Len(p) = n /\ \A i \in 1 .. n : p[i] = s[i + 1]
  BY <1>1, <1>6, HeadTailProperties
<1>8. PICK b \in Seq(Job) : b = Tail(a)
  BY <1>5, HeadTailProperties
<1>9. Len(b) = n + m /\ \A i \in 1 .. n + m : b[i] = a[i + 1]
  BY <1>4, <1>5, <1>8, HeadTailProperties
<1>10. PICK c \in Seq(Job) : c = p \o t
  BY ConcatProperties
<1>11. /\ Len(c) = n + m
       /\ \A i \in 1 .. n + m : c[i] = IF i <= n THEN p[i] ELSE t[i - n]
  <2>1. /\ Len(c) = Len(p) + Len(t)
        /\ \A i \in 1 .. Len(p) + Len(t) : c[i] = IF i <= Len(p) THEN p[i] ELSE t[i - Len(p)]
    BY <1>10, ConcatProperties
  <2>2. Len(p) = n /\ Len(t) = m
    BY <1>2, <1>7
  <2> QED BY <2>1, <2>2, Zenon
<1>12. \A i \in 1 .. n + m : b[i] = c[i]
  <2> SUFFICES ASSUME NEW i \in 1 .. n + m PROVE b[i] = c[i]
    OBVIOUS
  <2>1. i + 1 \in 1 .. n + 1 + m /\ (i + 1) - (n + 1) = i - n
    OBVIOUS
  <2>2. CASE i <= n
    <3>1. i \in 1 .. n /\ i + 1 <= n + 1
      BY <2>2
    <3>2. b[i] = s[i + 1]
      BY <1>4, <1>9, <2>1, <3>1
    <3>3. c[i] = s[i + 1]
      BY <1>7, <1>11, <2>2, <3>1
    <3> QED BY <3>2, <3>3
  <2>3. CASE ~(i <= n)
    <3>1. ~ i + 1 <= n + 1 /\ i + 1 \in 1 .. n + 1 + m
      BY <2>1, <2>3
    <3>2. b[i] = t[i - n]
      BY <1>4, <1>9, <2>1, <3>1
    <3>3. c[i] = t[i - n]
      BY <1>11, <2>3
    <3> QED BY <3>2, <3>3
  <2> QED BY <2>2, <2>3
<1>13. b = c
  BY <1>9, <1>11, <1>12, SeqEqual
<1> QED BY <1>3, <1>5, <1>6, <1>8, <1>10, <1>13

reportVars == <<ReportsPending, ReportsMade>>

LEMMA ReportsKept ==
    ASSUME \A u \in Workers : ToReport(u)' = ToReport(u), reported' = reported
    PROVE  UNCHANGED reportVars
BY DEF reportVars, ReportsPending, ReportsMade, AsReports

\* One worker's jobs change.
LEMMA PendingChanges ==
    ASSUME NEW w \in Workers, \A u \in Workers : u # w => ToReport(u)' = ToReport(u), NEW x,
           AsReports(ToReport(w)') = x
    PROVE  ReportsPending' = [ReportsPending EXCEPT ![w] = x]
BY DEF ReportsPending, AsReports

LEMMA ToReportTyped ==
    ASSUME TypeOK, ControlFits, NEW w \in Workers
    PROVE  ToReport(w) \in Seq(Job)
<1>1. PICK s \in Seq(Job) : s = cur_fences[w]
  BY DEF TypeOK
<1>2. PICK t \in Seq(Job) : t = fences[w]
  BY DEF TypeOK
<1>3. pc[w] = "decref" => s # <<>>
  BY <1>1 DEF ControlFits
<1>4. PICK h \in Seq(Job) : h = IF pc[w] = "decref" THEN Tail(s) ELSE s
  BY <1>3, HeadTailProperties
<1>5. h \o t \in Seq(Job)
  BY ConcatProperties
<1> QED BY <1>1, <1>2, <1>4, <1>5 DEF ToReport

\* No more signals of a fence are submitted than MaxSignals.
LEMMA SubmittedInBounds ==
    ASSUME TypeOK', ControlFits', SubmissionsCovered', NEW w \in Workers,
           NEW f \in WorkerFences
    PROVE  submitted'[f] <= MaxSignals
<1>1. PICK b \in [Workers -> Seq(WorkerFences)] : b = Backlog'
  BY BacklogTypedPrimed
<1>2. PICK e : e = NoJobs
  OBVIOUS
<1>3. <<>> \in Seq(Job)
  OBVIOUS
<1>4. SequencesTyped(b, e, e)
  BY <1>1, <1>2, <1>3 DEF SequencesTyped, NoJobs
<1>5. Total(b, e, e, f) \in Nat
  BY <1>4, TotalChanges
<1>6. submitted'[f] + Total(b, e, e, f) <= queued'[f] /\ queued'[f] <= MaxSignals
  BY <1>1, <1>2 DEF SubmissionsCovered, NoJobs
<1>7. submitted'[f] \in Nat /\ queued'[f] \in Nat /\ MaxSignals \in Nat
  BY WorkerAssumption DEF TypeOK
<1> QED BY <1>5, <1>6, <1>7

LEMMA ImplementsHandOver ==
    ASSUME WorkerInv, WorkerInv', SubmissionsCovered', NEW w \in Workers,
           EnqueueTimelineSemaphore(w)
    PROVE  \E job \in WorkerFences \X (1 .. MaxSignals) : Reports!HandOver(w, job)
<1>1. TypeOK /\ ControlFits /\ TypeOK' /\ ControlFits'
  BY DEF WorkerInv
<1>2. PICK f \in WorkerFences : f = Head(ops[w])
  <2>1. PICK o \in Seq(WorkerFences) : o = ops[w]
    BY <1>1 DEF TypeOK
  <2>2. o # <<>>
    BY <2>1 DEF EnqueueTimelineSemaphore
  <2> QED BY <2>1, <2>2, HeadTailProperties
<1>3. PICK j : j = [fence |-> f, value |-> submitted[f] + 1]
  OBVIOUS
<1>4. j \in Job /\ j.fence = f /\ j.value = submitted[f] + 1 /\ submitted[f] \in Nat
  <2>1. submitted[f] \in Nat
    BY <1>1 DEF TypeOK
  <2>2. submitted[f] + 1 \in Nat
    BY <2>1
  <2> QED BY <1>3, <2>1, <2>2 DEF Job
<1>5. /\ fences' = [fences EXCEPT ![w] = Append(@, j)]
      /\ submitted' = [submitted EXCEPT ![f] = @ + 1]
      /\ cur_fences' = cur_fences /\ reported' = reported /\ Wake(w)
  BY <1>2, <1>3 DEF EnqueueTimelineSemaphore
<1>6. submitted'[f] = submitted[f] + 1
  BY <1>1, <1>5 DEF TypeOK
<1>7. j.value \in 1 .. MaxSignals
  <2>1. submitted'[f] <= MaxSignals
    BY <1>1, SubmittedInBounds
  <2> QED BY <1>4, <1>6, <2>1, WorkerAssumption
<1>8. \A u \in Workers : (pc'[u] = "decref") = (pc[u] = "decref")
  BY <1>1, <1>5 DEF Wake, TypeOK
<1>9. \A u \in Workers : u # w => ToReport(u)' = ToReport(u)
  BY <1>1, <1>5, <1>8 DEF ToReport, TypeOK
<1>10. ToReport(w)' = Append(ToReport(w), j) /\ ToReport(w) \in Seq(Job)
  <2>1. PICK s \in Seq(Job) : s = cur_fences[w]
    BY <1>1 DEF TypeOK
  <2>2. PICK t \in Seq(Job) : t = fences[w]
    BY <1>1 DEF TypeOK
  <2>3. pc[w] = "decref" => s # <<>>
    BY <1>1, <2>1 DEF ControlFits
  <2>4. PICK h \in Seq(Job) : h = IF pc[w] = "decref" THEN Tail(s) ELSE s
    BY <2>3, HeadTailProperties
  <2>5. fences'[w] = Append(t, j)
    BY <1>1, <1>5, <2>2 DEF TypeOK
  <2>6. ToReport(w) = h \o t /\ ToReport(w)' = h \o Append(t, j)
    BY <1>5, <1>8, <2>1, <2>2, <2>4, <2>5 DEF ToReport
  <2> QED BY <1>4, <2>6, ConcatAppend
<1>11. AsReports(ToReport(w)') = Append(AsReports(ToReport(w)), <<f, j.value>>)
  BY <1>4, <1>10, ReportsOfAppend
<1>12. ReportsPending' = [ReportsPending EXCEPT ![w] = Append(@, <<f, j.value>>)]
  <2>1. ReportsPending[w] = AsReports(ToReport(w))
    BY DEF ReportsPending
  <2>2. ReportsPending' =
            [ReportsPending EXCEPT ![w] = Append(AsReports(ToReport(w)), <<f, j.value>>)]
    BY <1>9, <1>11, PendingChanges
  <2> QED BY <2>1, <2>2
<1>13. ReportsMade' = ReportsMade
  BY <1>5 DEF ReportsMade, AsReports
<1>14. <<f, j.value>> \in WorkerFences \X (1 .. MaxSignals)
  BY <1>7
<1>15. Reports!HandOver(w, <<f, j.value>>)
  BY <1>12, <1>13 DEF Reports!HandOver
<1> QED BY <1>14, <1>15

LEMMA ImplementsReport ==
    ASSUME WorkerInv, NEW w \in Workers, WorkerSignal(w)
    PROVE  Reports!Report(w)
<1>1. TypeOK
  BY DEF WorkerInv
<1>2. PICK s \in Seq(Job) : s = cur_fences[w]
  BY <1>1 DEF TypeOK
<1>3. PICK t \in Seq(Job) : t = fences[w]
  BY <1>1 DEF TypeOK
<1>4. PICK j : j = Head(s)
  OBVIOUS
<1>5. /\ pc[w] = "run" /\ s # <<>> /\ pc' = [pc EXCEPT ![w] = "decref"]
      /\ reported' = [reported EXCEPT ![w] = Append(@, j)]
      /\ cur_fences' = cur_fences /\ fences' = fences
  BY <1>2, <1>4 DEF WorkerSignal, queueVars
<1>6. ToReport(w) = s \o t /\ ToReport(w)' = Tail(s) \o t
  BY <1>1, <1>2, <1>3, <1>5 DEF ToReport, TypeOK
<1>7. \A u \in Workers : u # w => ToReport(u)' = ToReport(u)
  BY <1>1, <1>5 DEF ToReport, TypeOK
<1>8. /\ ToReport(w) \in Seq(Job) /\ ToReport(w) # <<>>
      /\ Head(ToReport(w)) = j /\ ToReport(w)' = Tail(ToReport(w))
  <2>1. /\ s \o t \in Seq(Job) /\ s \o t # <<>>
        /\ Head(s \o t) = Head(s) /\ Tail(s \o t) = Tail(s) \o t
    BY <1>5, ConcatTail
  <2> QED BY <1>4, <1>6, <2>1, Zenon
<1>9. /\ AsReports(ToReport(w)) # <<>>
      /\ AsReports(ToReport(w)') = Tail(AsReports(ToReport(w)))
      /\ Head(AsReports(ToReport(w))) = <<j.fence, j.value>>
  BY <1>8, ReportsOfTail
<1>10. ReportsPending[w] = AsReports(ToReport(w))
  BY DEF ReportsPending
<1>11. ReportsPending' = [ReportsPending EXCEPT ![w] = Tail(@)]
  <2>1. ReportsPending' = [ReportsPending EXCEPT ![w] = Tail(AsReports(ToReport(w)))]
    BY <1>7, <1>9, PendingChanges
  <2> QED BY <1>10, <2>1
<1>12. ReportsMade' = [ReportsMade EXCEPT ![w] = Append(@, <<j.fence, j.value>>)]
  <2>1. reported \in [Workers -> Seq(Job)]
    BY <1>1 DEF TypeOK
  <2>2. j \in Job
    BY <1>4, <1>5, HeadTailProperties
  <2>3. /\ reported'[w] = Append(reported[w], j)
        /\ \A u \in Workers : u # w => reported'[u] = reported[u]
    BY <1>5, <2>1
  <2>4. AsReports(reported'[w]) = Append(AsReports(reported[w]), <<j.fence, j.value>>)
    BY <2>1, <2>2, <2>3, ReportsOfAppend
  <2>5. ReportsMade[w] = AsReports(reported[w])
    BY DEF ReportsMade
  <2>6. ReportsMade' = [u \in Workers |-> AsReports(reported'[u])]
    BY DEF ReportsMade, AsReports
  <2>7. ReportsMade' =
            [ReportsMade EXCEPT ![w] = Append(AsReports(reported[w]), <<j.fence, j.value>>)]
    BY <2>3, <2>4, <2>6 DEF ReportsMade
  <2> QED BY <2>5, <2>7
<1> QED BY <1>9, <1>10, <1>11, <1>12 DEF Reports!Report

LEMMA ImplementsSkip ==
    ASSUME WorkerInv, NEW w \in Workers, WorkerWaitFails(w)
    PROVE  Reports!Skip(w)
<1>1. TypeOK
  BY DEF WorkerInv
<1>2. PICK s \in Seq(Job) : s = cur_fences[w]
  BY <1>1 DEF TypeOK
<1>3. PICK t \in Seq(Job) : t = fences[w]
  BY <1>1 DEF TypeOK
<1>4. /\ pc[w] = "run" /\ s # <<>> /\ cur_fences' = [cur_fences EXCEPT ![w] = Tail(s)]
      /\ pc' = pc /\ fences' = fences /\ reported' = reported
  BY <1>2 DEF WorkerWaitFails, PopJob
<1>5. ToReport(w) = s \o t /\ ToReport(w)' = Tail(s) \o t
  BY <1>1, <1>2, <1>3, <1>4 DEF ToReport, TypeOK
<1>6. \A u \in Workers : u # w => ToReport(u)' = ToReport(u)
  BY <1>1, <1>4 DEF ToReport, TypeOK
<1>7. /\ ToReport(w) \in Seq(Job) /\ ToReport(w) # <<>>
      /\ ToReport(w)' = Tail(ToReport(w))
  BY <1>4, <1>5, ConcatTail
<1>8. /\ AsReports(ToReport(w)) # <<>>
      /\ AsReports(ToReport(w)') = Tail(AsReports(ToReport(w)))
  BY <1>7, ReportsOfTail
<1>9. ReportsPending[w] = AsReports(ToReport(w))
  BY DEF ReportsPending
<1>10. ReportsPending' = [ReportsPending EXCEPT ![w] = Tail(@)]
  <2>1. ReportsPending' = [ReportsPending EXCEPT ![w] = Tail(AsReports(ToReport(w)))]
    BY <1>6, <1>8, PendingChanges
  <2> QED BY <1>9, <2>1
<1>11. ReportsMade' = ReportsMade
  BY <1>4 DEF ReportsMade, AsReports
<1> QED BY <1>8, <1>9, <1>10, <1>11 DEF Reports!Skip

LEMMA ImplementsDrop ==
    ASSUME WorkerInv, NEW w \in Workers, DestroyQueue(w)
    PROVE  Reports!Drop(w)
<1>1. TypeOK /\ ControlFits
  BY DEF WorkerInv
<1>2. /\ pc[w] = "exited" /\ fences' = [fences EXCEPT ![w] = <<>>]
      /\ cur_fences' = cur_fences /\ pc' = pc /\ reported' = reported
  BY DEF DestroyQueue
<1>3. cur_fences[w] = <<>>
  BY <1>1, <1>2 DEF ControlFits
<1>4. ToReport(w)' = <<>>
  <2>1. ToReport(w)' = <<>> \o <<>>
    BY <1>1, <1>2, <1>3 DEF ToReport, TypeOK
  <2> QED BY <2>1, ConcatEmptySeq
<1>5. \A u \in Workers : u # w => ToReport(u)' = ToReport(u)
  BY <1>1, <1>2 DEF ToReport, TypeOK
<1>6. AsReports(ToReport(w)') = <<>>
  <2>1. <<>> \in Seq(Job)
    OBVIOUS
  <2>2. AsReports(<<>>) \in Seq(WorkerFences \X Nat) /\ Len(AsReports(<<>>)) = 0
    BY <2>1, ReportsTyped
  <2> QED BY <1>4, <2>2, EmptySeq
<1>7. ReportsPending' = [ReportsPending EXCEPT ![w] = <<>>]
  BY <1>5, <1>6, PendingChanges
<1>8. ReportsMade' = ReportsMade
  BY <1>2 DEF ReportsMade, AsReports
<1> QED BY <1>7, <1>8 DEF Reports!Drop

\* The arrays are swapped: the jobs stay in their order.
LEMMA KeepsTaken ==
    ASSUME WorkerInv, NEW w \in Workers, pc[w] \in {"lock", "woken"}, TakeOrExit(w)
    PROVE  UNCHANGED reportVars
<1>1. TypeOK /\ ControlFits
  BY DEF WorkerInv
<1>2. cur_fences[w] = <<>>
  BY <1>1 DEF ControlFits
<1>3. PICK t \in Seq(Job) : t = fences[w]
  BY <1>1 DEF TypeOK
<1>4. t \o <<>> = t /\ <<>> \o t = t
  BY ConcatEmptySeq
<1>5. ToReport(w) = t
  BY <1>2, <1>3, <1>4 DEF ToReport
<1>6. ToReport(w)' = t
  <2>1. CASE should_exit[w]
    <3>1. pc'[w] = "exited" /\ fences' = fences /\ cur_fences' = cur_fences
      BY <1>1, <2>1 DEF TakeOrExit, TypeOK
    <3> QED BY <1>2, <1>3, <1>4, <3>1 DEF ToReport
  <2>2. CASE ~should_exit[w]
    <3>1. pc'[w] = "run" /\ fences'[w] = <<>> /\ cur_fences'[w] = t
      BY <1>1, <1>3, <2>2 DEF TakeOrExit, TypeOK
    <3> QED BY <1>4, <3>1 DEF ToReport
  <2> QED BY <2>1, <2>2
<1>7. ASSUME NEW u \in Workers, u # w PROVE ToReport(u)' = ToReport(u)
  <2>1. pc'[u] = pc[u] /\ fences'[u] = fences[u] /\ cur_fences'[u] = cur_fences[u]
    BY <1>1, <1>7 DEF TakeOrExit, TypeOK
  <2> QED BY <2>1 DEF ToReport
<1>8. reported' = reported
  BY DEF TakeOrExit
<1> QED BY <1>5, <1>6, <1>7, <1>8, ReportsKept

LEMMA KeepsReported ==
    ASSUME WorkerInv, NEW w \in Workers, WorkerDecRef(w)
    PROVE  UNCHANGED reportVars
<1>1. TypeOK
  BY DEF WorkerInv
<1>2. /\ pc[w] = "decref" /\ pc' = [pc EXCEPT ![w] = "run"] /\ fences' = fences
      /\ cur_fences' = [cur_fences EXCEPT ![w] = Tail(@)] /\ reported' = reported
  BY DEF WorkerDecRef, PopJob
<1>3. \A u \in Workers : ToReport(u)' = ToReport(u)
  BY <1>1, <1>2 DEF ToReport, TypeOK
<1> QED BY <1>2, <1>3, ReportsKept

\* The worker sleeps, is woken or looks again.
LEMMA KeepsMoved ==
    ASSUME WorkerInv, NEW w \in Workers,
           WorkerSleep(w) \/ WorkerLoop(w) \/ SpuriousWakeup(w) \/ StopWorker(w)
    PROVE  UNCHANGED reportVars
<1>1. TypeOK
  BY DEF WorkerInv
<1>2. fences' = fences /\ cur_fences' = cur_fences /\ reported' = reported
  BY DEF WorkerSleep, WorkerLoop, SpuriousWakeup, StopWorker
<1>3. \A u \in Workers : (pc'[u] = "decref") = (pc[u] = "decref")
  BY <1>1 DEF WorkerSleep, WorkerLoop, SpuriousWakeup, StopWorker, Wake, TypeOK
<1>4. \A u \in Workers : ToReport(u)' = ToReport(u)
  BY <1>2, <1>3 DEF ToReport
<1> QED BY <1>2, <1>4, ReportsKept

LEMMA KeepsQuiet ==
    ASSUME UNCHANGED workerVars
    PROVE  UNCHANGED reportVars
<1>1. fences' = fences /\ cur_fences' = cur_fences /\ pc' = pc /\ reported' = reported
  BY DEF workerVars
<1> QED BY <1>1, ReportsKept DEF ToReport

LEMMA ImplementsReportQueue ==
    ASSUME WorkerInv, SubmissionsCovered, WorkerInv', SubmissionsCovered', [Next]_vars
    PROVE  Reports!Next \/ UNCHANGED reportVars
<1>1. ASSUME NEW f \in WorkerFences, FenceRelease(f) \/ Gpu(f) PROVE UNCHANGED reportVars
  <2>1. UNCHANGED workerVars
    BY <1>1 DEF FenceRelease, Gpu
  <2> QED BY <2>1, KeepsQuiet
<1>2. ASSUME NEW f \in WorkerFences, NEW w \in Workers, QueueSignal(w, f)
      PROVE  UNCHANGED reportVars
  <2>1. UNCHANGED workerVars
    BY <1>2 DEF QueueSignal
  <2> QED BY <2>1, KeepsQuiet
<1>3. ASSUME NEW w \in Workers, Caller(w) PROVE Reports!Next \/ UNCHANGED reportVars
  <2>1. CASE EnqueueTimelineSemaphore(w)
    BY <2>1, ImplementsHandOver DEF Reports!Next
  <2>2. CASE DestroyOp(w)
    <3>1. UNCHANGED workerVars
      BY <2>2 DEF DestroyOp
    <3> QED BY <3>1, KeepsQuiet
  <2>3. CASE DestroyQueue(w)
    BY <2>3, ImplementsDrop DEF Reports!Next
  <2> QED BY <1>3, <2>1, <2>2, <2>3 DEF Caller
<1>4. ASSUME NEW w \in Workers, StopWorker(w) \/ SpuriousWakeup(w)
      PROVE  UNCHANGED reportVars
  BY <1>4, KeepsMoved
<1>5. ASSUME NEW w \in Workers, WorkerThread(w) PROVE Reports!Next \/ UNCHANGED reportVars
  <2>1. CASE WorkerCheck(w) \/ WorkerWoken(w)
    BY <2>1, KeepsTaken DEF WorkerCheck, WorkerWoken
  <2>2. CASE WorkerSleep(w) \/ WorkerLoop(w)
    BY <2>2, KeepsMoved
  <2>3. CASE WorkerSignal(w)
    BY <2>3, ImplementsReport DEF Reports!Next
  <2>4. CASE WorkerDecRef(w)
    BY <2>4, KeepsReported
  <2>5. CASE WorkerWaitFails(w)
    BY <2>5, ImplementsSkip DEF Reports!Next
  <2> QED BY <1>5, <2>1, <2>2, <2>3, <2>4, <2>5 DEF WorkerThread
<1>6. ASSUME UNCHANGED vars PROVE UNCHANGED reportVars
  <2>1. UNCHANGED workerVars
    BY <1>6 DEF vars
  <2> QED BY <2>1, KeepsQuiet
<1> QED BY <1>1, <1>2, <1>3, <1>4, <1>5, <1>6 DEF Next

LEMMA ReportQueueStarts == Init => Reports!Init
<1> SUFFICES ASSUME Init
             PROVE  /\ ReportsPending = [w \in Workers |-> <<>>]
                    /\ ReportsMade = [w \in Workers |-> <<>>]
  BY DEF Reports!Init
<1>1. AsReports(<<>>) = <<>>
  <2>1. <<>> \in Seq(Job)
    OBVIOUS
  <2>2. AsReports(<<>>) \in Seq(WorkerFences \X Nat) /\ Len(AsReports(<<>>)) = 0
    BY <2>1, ReportsTyped
  <2> QED BY <2>2, EmptySeq
<1>2. \A w \in Workers : ToReport(w) = <<>>
  <2>1. <<>> \o <<>> = <<>>
    BY ConcatEmptySeq
  <2> QED BY <2>1 DEF Init, ToReport
<1> QED BY <1>1, <1>2 DEF Init, ReportsPending, ReportsMade

\* The worker, with its two arrays, its condition variable and the thread
\* that stops it, is a queue of reports: what a command queue submits is
\* reported in that order and no job is reported twice, for any number of
\* queues and fences.
THEOREM WorkerImplementsReportQueue == Spec => ReportsInOrder
<1> DEFINE I == WorkerInv /\ SubmissionsCovered
<1>1. I /\ I' /\ [Next]_vars => [Reports!Next]_reportVars
  BY ImplementsReportQueue
<1>2. Init => Reports!Init
  BY ReportQueueStarts
<1>3. Spec => []I
  BY CoverInvHolds
<1> QED BY <1>1, <1>2, <1>3, PTL DEF Spec, ReportsInOrder, Reports!Spec, reportVars
=============================================================================
