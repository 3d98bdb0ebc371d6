--------------------------- MODULE Memory_proofs ---------------------------
(***************************************************************************)
(* The addresses of buffers, for every range, slab size, number of slabs,  *)
(* set of buffers and set of alignments: they are disjoint and non-zero,   *)
(* and each address leads back to the buffer that it was given to.  Then   *)
(* the memory of descriptor objects, for every number of threads, lists    *)
(* and objects.                                                            *)
(*                                                                         *)
(* GpuVaSound speaks of the buffers' addresses, the operations of slabs,   *)
(* of a free list that is threaded through them, and of an array that is   *)
(* searched.  The inductive invariant says how the two belong together:    *)
(* each slab in use has one buffer, each entry of the array has one, and   *)
(* every buffer has one or the other; the free list visits no slab twice.  *)
(*                                                                         *)
(* DescObjectCacheSound: there are sequences of objects, one for each      *)
(* head, linked by header_next (CacheLists), the objects that are in none  *)
(* belong to one thread, and free_count is their number but for the steps  *)
(* that are under way (CountFits).                                         *)
(***************************************************************************)
EXTENDS GpuVaAllocator, DescObjectCache, FiniteSetTheorems, SequenceTheorems,
        WellFoundedInduction, TLAPS

(* Addresses.                                                              *)
SlabAddress(i) == SlabBase + i * SlabSize

Extent(base, size) == [base |-> base, size |-> size]

Slab == [size : 0 .. SlabSize, ptr : Buffers \cup Slabs \cup {NoBuffer}]

Allocation == [base : Addresses, size : Addresses \ {0}, ptr : Buffers]

\* The types of the variables.
GpuVaTypeOK ==
    /\ slabs \in [Slabs -> Slab]
    /\ free_slab \in Slabs \cup {NoBuffer}
    /\ fallback \in Seq(Allocation)
    /\ fallback_floor \in FallbackBase .. AddressRange - 1
    /\ AllocatedBuffers \subseteq Buffers
    /\ gpu_address \in [AllocatedBuffers -> [base : Addresses, size : Addresses \ {0}]]

IsFree(i) == slabs[i].size = 0

\* From free_slab on, a free slab leads to a free one, and to each leads at
\* most one: taking the first one leaves a list of the same kind.
FreeList ==
    /\ free_slab # NoBuffer => IsFree(free_slab)
    /\ \A i \in Slabs : IsFree(i) /\ slabs[i].ptr # NoBuffer =>
           /\ slabs[i].ptr \in Slabs /\ IsFree(slabs[i].ptr)
           /\ slabs[i].ptr # free_slab
    /\ \A i, j \in Slabs :
           IsFree(i) /\ IsFree(j) /\ slabs[i].ptr = slabs[j].ptr /\ slabs[i].ptr # NoBuffer
               => i = j

\* A slab in use has a buffer, which has the slab's address.
SlabsOwned ==
    \A i \in Slabs : ~IsFree(i) =>
        /\ slabs[i].ptr \in AllocatedBuffers
        /\ gpu_address[slabs[i].ptr] = Extent(SlabAddress(i), slabs[i].size)

\* An entry of the array has a buffer, which has the entry's address.
FallbackOwned ==
    \A k \in 1 .. Len(fallback) :
        /\ fallback[k].ptr \in AllocatedBuffers
        /\ gpu_address[fallback[k].ptr] = Extent(fallback[k].base, fallback[k].size)
        /\ FallbackBase <= fallback[k].base
        /\ fallback[k].base + fallback[k].size <= fallback_floor

Ascending ==
    \A j, k \in 1 .. Len(fallback) :
        j < k => fallback[j].base + fallback[j].size <= fallback[k].base

InSlab(b) == \E i \in Slabs : ~IsFree(i) /\ slabs[i].ptr = b
InFallback(b) == \E k \in 1 .. Len(fallback) : fallback[k].ptr = b

\* Each buffer has its slab or its entry.
Placed == \A b \in AllocatedBuffers : InSlab(b) \/ InFallback(b)

GpuVaInv == GpuVaTypeOK /\ FreeList /\ SlabsOwned /\ FallbackOwned /\ Ascending /\ Placed

----------------------------------------------------------------------------
\* Arithmetic.

LEMMA Constants ==
    /\ AddressRange \in Nat /\ AddressRange > 0
    /\ SlabSize \in Nat /\ SlabSize > 0 /\ SlabCount \in Nat /\ SlabCount > 0
    /\ SlabBase \in Nat /\ SlabBase > 0 /\ SlabBase < AddressRange
    /\ FallbackBase \in Nat /\ FallbackBase < AddressRange
    /\ SlabCount * SlabSize \in Nat /\ SlabBase + SlabCount * SlabSize <= FallbackBase
BY GpuVaAssumption DEF Addresses

LEMMA Quotient ==
    ASSUME NEW d \in Nat \ {0}, NEW q \in Nat, NEW r \in 0 .. d - 1
    PROVE  (q * d + r) \div d = q
OBVIOUS

LEMMA Division ==
    ASSUME NEW n \in Nat, NEW d \in Nat \ {0}
    PROVE  /\ n \div d \in Nat
           /\ (n \div d) * d <= n /\ n <= (n \div d) * d + d - 1
OBVIOUS

LEMMA Multiples ==
    ASSUME NEW d \in Nat \ {0}, NEW m \in Int, NEW n \in Int, m < n
    PROVE  m * d + d <= n * d
OBVIOUS

\* align() does not wrap around where the code's guards hold.
LEMMA Aligned ==
    ASSUME NEW n \in Nat, NEW a \in Alignments, n <= AddressRange - 1 - (a - 1)
    PROVE  Align(n, a) \in Nat /\ n <= Align(n, a) /\ Align(n, a) <= n + (a - 1)
<1>1. a \in Nat \ {0}
  BY Constants, GpuVaAssumption
<1>2. n + a - 1 \in Nat /\ n + a - 1 <= AddressRange - 1
  BY <1>1, Constants
<1>3. (n + a - 1) % AddressRange = n + a - 1
  BY <1>2, Constants
<1> DEFINE m == n + a - 1
<1>4. m \in Nat /\ Align(n, a) = (m \div a) * a
  BY <1>2, <1>3 DEF Align
<1>5. (m \div a) * a <= m /\ m <= (m \div a) * a + a - 1 /\ m \div a \in Nat
  BY <1>1, <1>4, Division
<1>6. (m \div a) * a \in Nat
  BY <1>1, <1>5
<1> QED BY <1>1, <1>4, <1>5, <1>6

\* The slabs are disjoint and below the fallback range.
LEMMA SlabAddresses ==
    ASSUME NEW i \in Slabs
    PROVE  /\ SlabAddress(i) \in Nat /\ SlabAddress(i) > 0
           /\ SlabAddress(i) + SlabSize <= FallbackBase
           /\ \A j \in Slabs : j < i => SlabAddress(j) + SlabSize <= SlabAddress(i)
<1>1. i \in Nat /\ i < SlabCount
  BY Constants DEF Slabs
<1>2. i * SlabSize \in Nat /\ i * SlabSize + SlabSize <= SlabCount * SlabSize
  BY <1>1, Constants, Multiples
<1>3. \A j \in Slabs : j < i => j * SlabSize \in Nat /\ j * SlabSize + SlabSize <= i * SlabSize
  BY <1>1, Constants, Multiples DEF Slabs
<1> QED BY <1>2, <1>3, Constants DEF SlabAddress

\* An address in a slab has the slab's index.
LEMMA IndexOfSlab ==
    ASSUME NEW i \in Slabs, NEW address \in Nat,
           SlabAddress(i) <= address, address < SlabAddress(i) + SlabSize
    PROVE  /\ SlabIndex(address) = i
           /\ ((address - SlabBase) % AddressRange) - i * SlabSize = address - SlabAddress(i)
<1>1. i \in Nat /\ i * SlabSize \in Nat
  BY Constants DEF Slabs
<1> DEFINE r == address - SlabAddress(i)
<1>2. r \in 0 .. SlabSize - 1 /\ address - SlabBase = i * SlabSize + r
  BY <1>1, SlabAddresses, Constants DEF SlabAddress
<1>3. address - SlabBase \in Nat /\ address - SlabBase < AddressRange
  BY <1>1, <1>2, SlabAddresses, Constants
<1>4. (address - SlabBase) % AddressRange = i * SlabSize + r
  BY <1>2, <1>3, Constants
<1> HIDE DEF r
<1>5. (i * SlabSize + r) \div SlabSize = i
  BY <1>1, <1>2, Constants, Quotient
<1> QED BY <1>1, <1>2, <1>4, <1>5 DEF SlabIndex, r

\* An address below the fallback range whose index is a slab's is in the slab.
LEMMA SlabOfIndex ==
    ASSUME NEW address \in Nat, address < FallbackBase, SlabIndex(address) \in Slabs
    PROVE  LET i == SlabIndex(address) IN
           /\ SlabAddress(i) <= address
           /\ ((address - SlabBase) % AddressRange) - i * SlabSize = address - SlabAddress(i)
<1> DEFINE i == SlabIndex(address)
           o == (address - SlabBase) % AddressRange
<1>1. o \in Nat /\ (address >= SlabBase => o = address - SlabBase)
               /\ (address < SlabBase => o = address - SlabBase + AddressRange)
  BY Constants
<1>2. i = o \div SlabSize
  BY DEF SlabIndex
<1> HIDE DEF o, i
<1>3. i \in Nat /\ i * SlabSize <= o /\ o <= i * SlabSize + SlabSize - 1
  <2>1. SlabSize \in Nat \ {0}
    BY Constants
  <2> QED BY <1>1, <1>2, <2>1, Division
<1>4. i * SlabSize \in Nat /\ i * SlabSize + SlabSize <= SlabCount * SlabSize
  <2>1. i \in Slabs
    BY DEF i
  <2> QED BY <1>3, <2>1, Constants, Multiples DEF Slabs
<1>5. address >= SlabBase
  BY <1>1, <1>3, <1>4, Constants
<1>6. SlabAddress(i) <= address /\ o - i * SlabSize = address - SlabAddress(i)
  BY <1>1, <1>3, <1>4, <1>5, Constants DEF SlabAddress
<1> QED BY <1>6 DEF i, o

LEMMA ExtentFields ==
    ASSUME NEW base, NEW size
    PROVE  Extent(base, size).base = base /\ Extent(base, size).size = size
BY DEF Extent

----------------------------------------------------------------------------
\* The search in the array.

\* An address is in at most one entry of an ascending array.
LEMMA OneEntry ==
    ASSUME GpuVaTypeOK, Ascending, NEW address \in Nat,
           NEW j \in 1 .. Len(fallback), NEW k \in 1 .. Len(fallback),
           Equal(address, fallback[j]), Equal(address, fallback[k])
    PROVE  j = k
<1>1. fallback[j] \in Allocation /\ fallback[k] \in Allocation
  BY ElementOfSeq DEF GpuVaTypeOK
<1>2. j \in Nat /\ k \in Nat
  OBVIOUS
<1>3. /\ fallback[j].base \in Nat /\ fallback[j].size \in Nat
      /\ fallback[k].base \in Nat /\ fallback[k].size \in Nat
  BY <1>1, Constants DEF Allocation, Addresses
<1>4. /\ fallback[j].base <= address /\ address - fallback[j].base < fallback[j].size
      /\ fallback[k].base <= address /\ address - fallback[k].base < fallback[k].size
  BY <1>3 DEF Equal
<1>5. /\ j < k => fallback[j].base + fallback[j].size <= fallback[k].base
      /\ k < j => fallback[k].base + fallback[k].size <= fallback[j].base
  BY DEF Ascending
<1>6. PICK bj, sj, bk, sk \in Nat : /\ bj = fallback[j].base /\ sj = fallback[j].size
                                    /\ bk = fallback[k].base /\ sk = fallback[k].size
  BY <1>3
<1>7. /\ bj <= address /\ address - bj < sj
      /\ bk <= address /\ address - bk < sk
  BY <1>4, <1>6
<1>8. (j < k => bj + sj <= bk) /\ (k < j => bk + sk <= bj)
  BY <1>5, <1>6
<1>9. ~ bj + sj <= bk /\ ~ bk + sk <= bj
  BY <1>7
<1>10. ~ j < k /\ ~ k < j
  BY <1>8, <1>9
<1> QED BY <1>2, <1>10

\* bsearch() finds the entry that an address is in.
LEMMA Found ==
    ASSUME GpuVaTypeOK, Ascending, NEW address \in Nat,
           NEW k \in 1 .. Len(fallback), Equal(address, fallback[k])
    PROVE  Search(address) = k
<1> DEFINE I == {i \in 1 .. Len(fallback) : Equal(address, fallback[i])}
<1>1. I = {k}
  BY OneEntry
<1>2. Search(address) = IF I # {} THEN Min(I) ELSE 0
  BY DEF Search, SelectInSeq
<1> HIDE DEF I
<1>3. Min({k}) = k
  BY DEF Min
<1> QED BY <1>1, <1>2, <1>3

\* What bsearch() finds is an entry that the address is in.
LEMMA OnlyFound ==
    ASSUME GpuVaTypeOK, Ascending, NEW address \in Nat, Search(address) # 0
    PROVE  /\ Search(address) \in 1 .. Len(fallback)
           /\ Equal(address, fallback[Search(address)])
<1> DEFINE I == {i \in 1 .. Len(fallback) : Equal(address, fallback[i])}
<1>1. Search(address) = IF I # {} THEN Min(I) ELSE 0
  BY DEF Search, SelectInSeq
<1>2. PICK k \in 1 .. Len(fallback) : Equal(address, fallback[k])
  BY <1>1
<1>3. Search(address) = k
  BY <1>2, Found
<1> QED BY <1>2, <1>3

----------------------------------------------------------------------------
\* The invariant implies what the run checks.

\* Where a buffer is.
LEMMA BufferInSlab ==
    ASSUME GpuVaInv, NEW i \in Slabs, ~IsFree(i)
    PROVE  /\ slabs[i].ptr \in AllocatedBuffers
           /\ Address(slabs[i].ptr) = SlabAddress(i)
           /\ gpu_address[slabs[i].ptr].size = slabs[i].size
           /\ slabs[i].size \in 1 .. SlabSize
<1>1. slabs[i].size \in 0 .. SlabSize
  BY DEF GpuVaInv, GpuVaTypeOK, Slab
<1>2. slabs[i].size \in 1 .. SlabSize
  BY <1>1, Constants DEF IsFree
<1>3. /\ slabs[i].ptr \in AllocatedBuffers
      /\ gpu_address[slabs[i].ptr] = Extent(SlabAddress(i), slabs[i].size)
  BY DEF GpuVaInv, SlabsOwned
<1> QED BY <1>2, <1>3, ExtentFields DEF Address

LEMMA BufferInFallback ==
    ASSUME GpuVaInv, NEW k \in 1 .. Len(fallback)
    PROVE  /\ fallback[k].ptr \in AllocatedBuffers
           /\ Address(fallback[k].ptr) = fallback[k].base
           /\ gpu_address[fallback[k].ptr].size = fallback[k].size
           /\ fallback[k].base \in Nat /\ fallback[k].size \in Nat \ {0}
           /\ FallbackBase <= fallback[k].base
           /\ fallback[k].base + fallback[k].size <= AddressRange
<1>1. fallback[k] \in Allocation
  BY ElementOfSeq DEF GpuVaInv, GpuVaTypeOK
<1>2. fallback[k].base \in Nat /\ fallback[k].size \in Nat \ {0}
  BY <1>1, Constants DEF Allocation, Addresses
<1>3. fallback_floor \in Nat /\ fallback_floor <= AddressRange
  BY Constants DEF GpuVaInv, GpuVaTypeOK
<1>4. /\ fallback[k].ptr \in AllocatedBuffers
      /\ gpu_address[fallback[k].ptr] = Extent(fallback[k].base, fallback[k].size)
      /\ FallbackBase <= fallback[k].base
      /\ fallback[k].base + fallback[k].size <= fallback_floor
  BY DEF GpuVaInv, FallbackOwned
<1>5. fallback[k].base + fallback[k].size <= AddressRange
  BY <1>2, <1>3, <1>4, Constants
<1> QED BY <1>2, <1>4, <1>5, ExtentFields DEF Address

\* A buffer has an extent, in the range of its kind.
LEMMA ExtentOfBuffer ==
    ASSUME GpuVaInv, NEW b \in AllocatedBuffers
    PROVE  /\ Address(b) \in Nat /\ gpu_address[b].size \in Nat \ {0} /\ Address(b) > 0
           /\ Address(b) + gpu_address[b].size <= AddressRange
           /\ InSlab(b) <=> Address(b) < FallbackBase
           /\ InSlab(b) => Address(b) + gpu_address[b].size <= FallbackBase
<1>1. InSlab(b) \/ InFallback(b)
  BY DEF GpuVaInv, Placed
<1>2. ASSUME InSlab(b)
      PROVE  /\ Address(b) \in Nat /\ gpu_address[b].size \in Nat \ {0} /\ Address(b) > 0
             /\ Address(b) + gpu_address[b].size <= FallbackBase
  <2>1. PICK i \in Slabs : ~IsFree(i) /\ slabs[i].ptr = b
    BY <1>2 DEF InSlab
  <2> QED BY <2>1, BufferInSlab, SlabAddresses, Constants
<1>3. ASSUME InFallback(b)
      PROVE  /\ Address(b) \in Nat /\ gpu_address[b].size \in Nat \ {0}
             /\ FallbackBase <= Address(b) /\ Address(b) + gpu_address[b].size <= AddressRange
  <2>1. PICK k \in 1 .. Len(fallback) : fallback[k].ptr = b
    BY <1>3 DEF InFallback
  <2> QED BY <2>1, BufferInFallback
<1> QED BY <1>1, <1>2, <1>3, Constants

\* Two buffers are in two slabs, in two entries, or in different ranges.
LEMMA Disjoint == ASSUME GpuVaInv PROVE BuffersDisjoint
<1>1. ASSUME NEW b \in AllocatedBuffers
      PROVE  Address(b) # 0 /\ Address(b) + gpu_address[b].size <= AddressRange
  BY ExtentOfBuffer
<1>2. ASSUME NEW b \in AllocatedBuffers, NEW c \in AllocatedBuffers, b # c
      PROVE  \/ Address(b) + gpu_address[b].size <= Address(c)
             \/ Address(c) + gpu_address[c].size <= Address(b)
  <2>1. CASE InSlab(b) /\ InSlab(c)
    <3>1. PICK i \in Slabs : ~IsFree(i) /\ slabs[i].ptr = b
      BY <2>1 DEF InSlab
    <3>2. PICK j \in Slabs : ~IsFree(j) /\ slabs[j].ptr = c
      BY <2>1 DEF InSlab
    <3>3. i \in Nat /\ j \in Nat /\ (i < j \/ j < i)
      BY <1>2, <3>1, <3>2 DEF Slabs
    <3>4. /\ Address(b) = SlabAddress(i) /\ gpu_address[b].size \in 1 .. SlabSize
          /\ Address(c) = SlabAddress(j) /\ gpu_address[c].size \in 1 .. SlabSize
      BY <3>1, <3>2, BufferInSlab
    <3>5. /\ SlabAddress(i) \in Nat /\ SlabAddress(j) \in Nat
          /\ \/ SlabAddress(i) + SlabSize <= SlabAddress(j)
             \/ SlabAddress(j) + SlabSize <= SlabAddress(i)
      BY <3>3, SlabAddresses
    <3> QED BY <3>4, <3>5, Constants
  <2>2. CASE ~InSlab(b) /\ ~InSlab(c)
    <3>1. InFallback(b) /\ InFallback(c)
      BY <2>2 DEF GpuVaInv, Placed
    <3>2. PICK j \in 1 .. Len(fallback) : fallback[j].ptr = b
      BY <3>1 DEF InFallback
    <3>3. PICK k \in 1 .. Len(fallback) : fallback[k].ptr = c
      BY <3>1 DEF InFallback
    <3>4. j < k \/ k < j
      BY <1>2, <3>2, <3>3
    <3> QED BY <3>2, <3>3, <3>4, BufferInFallback DEF GpuVaInv, Ascending
  <2>3. CASE InSlab(b) /\ ~InSlab(c)
    <3>1. Address(b) + gpu_address[b].size <= FallbackBase /\ FallbackBase <= Address(c)
      BY <2>3, ExtentOfBuffer, Constants
    <3> QED BY <3>1, ExtentOfBuffer, Constants
  <2>4. CASE ~InSlab(b) /\ InSlab(c)
    <3>1. Address(c) + gpu_address[c].size <= FallbackBase /\ FallbackBase <= Address(b)
      BY <2>4, ExtentOfBuffer, Constants
    <3> QED BY <3>1, ExtentOfBuffer, Constants
  <2> QED BY <2>1, <2>2, <2>3, <2>4
<1> QED BY <1>1, <1>2 DEF BuffersDisjoint

\* The address of a buffer leads to it.
LEMMA LeadsToOwner ==
    ASSUME GpuVaInv, NEW b \in AllocatedBuffers, NEW address \in Addresses, Covers(b, address)
    PROVE  Dereference(address) = b
<1>1. address \in Nat
  BY Constants DEF Addresses
<1>2. Address(b) <= address /\ address < Address(b) + gpu_address[b].size
  BY <1>1, ExtentOfBuffer DEF Covers
<1>3. CASE InSlab(b)
  <2>1. address < FallbackBase
    BY <1>1, <1>2, <1>3, ExtentOfBuffer, Constants
  <2>2. PICK i \in Slabs : ~IsFree(i) /\ slabs[i].ptr = b
    BY <1>3 DEF InSlab
  <2>3. /\ Address(b) = SlabAddress(i) /\ gpu_address[b].size = slabs[i].size
        /\ slabs[i].size \in 1 .. SlabSize
    BY <2>2, BufferInSlab
  <2>4. SlabAddress(i) \in Nat
    BY SlabAddresses
  <2>5. SlabAddress(i) <= address /\ address < SlabAddress(i) + SlabSize
    BY <1>1, <1>2, <2>3, <2>4, Constants
  <2>6. /\ SlabIndex(address) = i
        /\ ((address - SlabBase) % AddressRange) - i * SlabSize = address - SlabAddress(i)
    BY <1>1, <2>5, IndexOfSlab
  <2>7. address - SlabAddress(i) < slabs[i].size
    BY <1>1, <1>2, <2>3, <2>4, Constants
  <2>8. ~(address - SlabAddress(i) >= slabs[i].size)
    BY <1>1, <2>3, <2>4, <2>7, Constants
  <2>9. DereferenceSlab(address) = slabs[i].ptr
    BY <2>6, <2>8 DEF DereferenceSlab
  <2> QED BY <2>1, <2>2, <2>9 DEF Dereference
<1>4. CASE ~InSlab(b)
  <2>1. ~(address < FallbackBase)
    BY <1>1, <1>2, <1>4, ExtentOfBuffer, Constants
  <2>2. PICK k \in 1 .. Len(fallback) : fallback[k].ptr = b
    BY <1>4 DEF GpuVaInv, Placed, InFallback
  <2>3. Equal(address, fallback[k])
    BY <1>1, <1>2, <2>2, BufferInFallback DEF Equal
  <2>4. Search(address) = k
    BY <1>1, <2>3, Found DEF GpuVaInv
  <2> QED BY <2>1, <2>2, <2>4 DEF Dereference
<1> QED BY <1>3, <1>4

\* An address that leads to a buffer is the buffer's.
LEMMA OwnerCovers ==
    ASSUME GpuVaInv, NEW address \in Addresses, Dereference(address) # NoBuffer
    PROVE  /\ Dereference(address) \in AllocatedBuffers
           /\ Covers(Dereference(address), address)
<1>1. address \in Nat
  BY Constants DEF Addresses
<1>2. CASE address < FallbackBase
  <2>1. PICK i : i = SlabIndex(address)
    OBVIOUS
  <2>2. Dereference(address) = DereferenceSlab(address)
    BY <1>2 DEF Dereference
  <2>3. /\ i \in Slabs /\ Dereference(address) = slabs[i].ptr
        /\ ~(((address - SlabBase) % AddressRange) - i * SlabSize >= slabs[i].size)
    BY <2>1, <2>2 DEF DereferenceSlab
  <2>4. /\ SlabAddress(i) <= address
        /\ ((address - SlabBase) % AddressRange) - i * SlabSize = address - SlabAddress(i)
    BY <1>1, <1>2, <2>1, <2>3, SlabOfIndex
  <2>5. slabs[i].size \in 0 .. SlabSize /\ SlabAddress(i) \in Nat
    BY <2>3, SlabAddresses DEF GpuVaInv, GpuVaTypeOK, Slab
  <2>6. address < SlabAddress(i) + slabs[i].size /\ slabs[i].size # 0
    BY <1>1, <2>3, <2>4, <2>5, Constants
  <2>7. ~IsFree(i)
    BY <2>6 DEF IsFree
  <2> QED BY <2>3, <2>4, <2>6, <2>7, BufferInSlab DEF Covers
<1>3. CASE ~(address < FallbackBase)
  <2>1. PICK k : k = Search(address)
    OBVIOUS
  <2>2. k # 0 /\ Dereference(address) = fallback[k].ptr
    BY <1>3, <2>1 DEF Dereference
  <2>3. k \in 1 .. Len(fallback) /\ Equal(address, fallback[k])
    BY <1>1, <2>1, <2>2, OnlyFound DEF GpuVaInv
  <2>4. fallback[k].base <= address /\ address < fallback[k].base + fallback[k].size
    BY <1>1, <2>3, BufferInFallback DEF Equal
  <2> QED BY <2>2, <2>3, <2>4, BufferInFallback DEF Covers
<1> QED BY <1>2, <1>3

LEMMA LeadBack == ASSUME GpuVaInv PROVE AddressesLeadBack
<1> SUFFICES ASSUME NEW address \in Addresses
             PROVE  LET owners == {b \in AllocatedBuffers : Covers(b, address)} IN
                    IF owners = {} THEN Dereference(address) = NoBuffer
                    ELSE owners = {Dereference(address)}
  BY DEF AddressesLeadBack
<1>1. \A b \in AllocatedBuffers : Covers(b, address) => Dereference(address) = b
  BY LeadsToOwner
<1>2. Dereference(address) # NoBuffer =>
          Dereference(address) \in AllocatedBuffers /\ Covers(Dereference(address), address)
  BY OwnerCovers
<1> QED BY <1>1, <1>2

LEMMA Freeable == ASSUME GpuVaInv PROVE CanBeFreed
<1>1. DOMAIN fallback = 1 .. Len(fallback)
  BY LenProperties DEF GpuVaInv, GpuVaTypeOK
<1>2. ASSUME NEW b \in AllocatedBuffers, Address(b) >= FallbackBase
      PROVE  \E k \in 1 .. Len(fallback) : fallback[k].base = Address(b) /\ fallback[k].ptr = b
  <2>1. ~InSlab(b)
    BY <1>2, ExtentOfBuffer, Constants
  <2>2. PICK k \in 1 .. Len(fallback) : fallback[k].ptr = b
    BY <2>1 DEF GpuVaInv, Placed, InFallback
  <2> QED BY <2>2, BufferInFallback
<1> QED BY <1>1, <1>2 DEF CanBeFreed, GpuVaInv, Ascending

LEMMA GpuVaInvImplies == ASSUME GpuVaInv PROVE GpuVaSound
BY Disjoint, LeadBack, Freeable DEF GpuVaSound

----------------------------------------------------------------------------
\* The invariant is inductive.

LEMMA GpuVaStart == ASSUME GpuVaInit PROVE GpuVaInv
<1>1. 0 \in Slabs
  BY Constants DEF Slabs
<1>2. GpuVaTypeOK
  <2>1. slabs \in [Slabs -> Slab]
    BY Constants DEF GpuVaInit, Slab
  <2>2. fallback \in Seq(Allocation) /\ fallback_floor \in FallbackBase .. AddressRange - 1
    BY Constants DEF GpuVaInit
  <2>3. AllocatedBuffers = {} /\ gpu_address \in [AllocatedBuffers ->
            [base : Addresses, size : Addresses \ {0}]]
    BY DEF GpuVaInit, AllocatedBuffers
  <2> QED BY <1>1, <2>1, <2>2, <2>3 DEF GpuVaTypeOK, GpuVaInit
<1>3. FreeList
  <2>1. NoBuffer \notin Slabs /\ \A i \in Slabs : i \in Int
    BY GpuVaAssumption DEF Slabs
  <2>2. \A i \in Slabs : IsFree(i) /\ (slabs[i].ptr # NoBuffer =>
                                 slabs[i].ptr = i + 1 /\ i + 1 \in Slabs /\ i + 1 # 0)
    BY DEF GpuVaInit, IsFree, Slabs
  <2> QED BY <1>1, <2>1, <2>2 DEF FreeList, GpuVaInit
<1>4. SlabsOwned
  BY DEF SlabsOwned, GpuVaInit, IsFree
<1>5. FallbackOwned /\ Ascending /\ Placed
  BY DEF FallbackOwned, Ascending, Placed, GpuVaInit, AllocatedBuffers
<1> QED BY <1>2, <1>3, <1>4, <1>5 DEF GpuVaInv

\* What Owns() and Forget() do to the history.
LEMMA OwnsEffect ==
    ASSUME NEW b, NEW base, NEW size, Owns(b, base, size)
    PROVE  /\ AllocatedBuffers' = AllocatedBuffers \cup {b}
           /\ gpu_address'[b] = Extent(base, size)
           /\ \A c \in AllocatedBuffers : c # b => gpu_address'[c] = gpu_address[c]
           /\ gpu_address' = [c \in AllocatedBuffers' |-> gpu_address'[c]]
BY DEF Owns, AllocatedBuffers, Extent

LEMMA ForgetEffect ==
    ASSUME NEW b, Forget(b)
    PROVE  /\ AllocatedBuffers' = AllocatedBuffers \ {b}
           /\ \A c \in AllocatedBuffers \ {b} : gpu_address'[c] = gpu_address[c]
           /\ gpu_address' = [c \in AllocatedBuffers' |-> gpu_address'[c]]
BY DEF Forget, AllocatedBuffers

\* The types of the history after a buffer has been given an address.
LEMMA OwnsType ==
    ASSUME GpuVaTypeOK, NEW b \in Buffers, NEW base \in Addresses,
           NEW size \in Addresses \ {0}, Owns(b, base, size)
    PROVE  /\ AllocatedBuffers' \subseteq Buffers
           /\ gpu_address' \in [AllocatedBuffers' -> [base : Addresses, size : Addresses \ {0}]]
<1>1. Extent(base, size) \in [base : Addresses, size : Addresses \ {0}]
  BY DEF Extent
<1>2. \A c \in AllocatedBuffers' :
          gpu_address'[c] \in [base : Addresses, size : Addresses \ {0}]
  BY <1>1, OwnsEffect DEF GpuVaTypeOK
<1> QED BY <1>2, OwnsEffect DEF GpuVaTypeOK

LEMMA ForgetType ==
    ASSUME GpuVaTypeOK, NEW b, Forget(b)
    PROVE  /\ AllocatedBuffers' \subseteq Buffers
           /\ gpu_address' \in [AllocatedBuffers' -> [base : Addresses, size : Addresses \ {0}]]
<1>1. \A c \in AllocatedBuffers' :
          gpu_address'[c] \in [base : Addresses, size : Addresses \ {0}]
  BY ForgetEffect DEF GpuVaTypeOK
<1> QED BY <1>1, ForgetEffect DEF GpuVaTypeOK

LEMMA AlignedSize ==
    ASSUME NEW size \in Sizes, NEW a \in Alignments, size <= AddressRange - 1 - (a - 1)
    PROVE  Align(size, a) \in Addresses \ {0}
<1>1. size \in Nat \ {0}
  BY GpuVaAssumption, Constants DEF Addresses
<1>2. /\ Align(size, a) \in Nat /\ size <= Align(size, a)
      /\ Align(size, a) <= size + (a - 1) /\ a \in Nat
  BY <1>1, Aligned, GpuVaAssumption, Constants
<1> QED BY <1>1, <1>2, Constants DEF Addresses

\* The first free slab is taken off the list.
LEMMA SlabAllocated ==
    ASSUME GpuVaInv, NEW b \in Buffers, b \notin AllocatedBuffers, NEW a \in Alignments,
           NEW size \in Sizes, AllocateSlab(b, a, size)
    PROVE  GpuVaInv'
<1>1. PICK s \in Addresses \ {0} : s = Align(size, a)
  BY AlignedSize DEF AllocateSlab
<1>2. s \in 1 .. SlabSize
  BY <1>1, Constants DEF AllocateSlab, Addresses
<1>3. PICK h \in Slabs : h = free_slab
  BY DEF AllocateSlab, GpuVaInv, GpuVaTypeOK
<1>4. IsFree(h)
  BY <1>3 DEF AllocateSlab, GpuVaInv, FreeList
<1>5. (SlabBase + h * SlabSize) % AddressRange = SlabAddress(h) /\ SlabAddress(h) \in Addresses
  <2>1. SlabAddress(h) \in Addresses
    BY SlabAddresses, Constants DEF Addresses
  <2> QED BY <2>1, Constants DEF SlabAddress, Addresses
<1>6. /\ Owns(b, SlabAddress(h), s)
      /\ slabs' = [slabs EXCEPT ![h] = [size |-> s, ptr |-> b]]
      /\ free_slab' = slabs[h].ptr
      /\ UNCHANGED <<fallback, fallback_floor>>
  BY <1>1, <1>3, <1>5 DEF AllocateSlab
<1>7. slabs \in [Slabs -> Slab]
  BY DEF GpuVaInv, GpuVaTypeOK
<1>8. /\ slabs'[h].size = s /\ slabs'[h].ptr = b
      /\ \A i \in Slabs : i # h => slabs'[i] = slabs[i]
  BY <1>6, <1>7
<1>9. slabs[h].ptr # NoBuffer =>
          /\ slabs[h].ptr \in Slabs /\ IsFree(slabs[h].ptr) /\ slabs[h].ptr # h
  BY <1>3, <1>4 DEF GpuVaInv, FreeList
<1>10. s # 0 /\ 0 \in Nat
  BY <1>1
<1>11. ~IsFree(h)' /\ \A i \in Slabs : i # h => (IsFree(i)' <=> IsFree(i))
  BY <1>8, <1>10 DEF IsFree
<1>12. GpuVaTypeOK'
  <2>1. slabs' \in [Slabs -> Slab]
    <3>1. [size |-> s, ptr |-> b] \in Slab
      BY <1>2 DEF Slab
    <3> QED BY <1>6, <1>7, <3>1
  <2>2. free_slab' \in Slabs \cup {NoBuffer}
    BY <1>6, <1>9
  <2>3. /\ AllocatedBuffers' \subseteq Buffers
        /\ gpu_address' \in [AllocatedBuffers' -> [base : Addresses, size : Addresses \ {0}]]
    BY <1>5, <1>6, OwnsType DEF GpuVaInv
  <2>4. fallback' \in Seq(Allocation) /\ fallback_floor' \in FallbackBase .. AddressRange - 1
    BY <1>6 DEF GpuVaInv, GpuVaTypeOK
  <2> QED BY <2>1, <2>2, <2>3, <2>4 DEF GpuVaTypeOK
<1>13. FreeList'
  <2>1. free_slab' # NoBuffer => IsFree(free_slab)'
    BY <1>6, <1>9, <1>11
  <2>2. ASSUME NEW i \in Slabs, IsFree(i)', slabs'[i].ptr # NoBuffer
        PROVE  slabs'[i].ptr \in Slabs /\ IsFree(slabs[i].ptr)' /\ slabs'[i].ptr # free_slab'
    <3>1. i # h /\ IsFree(i) /\ slabs'[i].ptr = slabs[i].ptr
      BY <1>8, <1>11, <2>2
    <3>2. slabs[i].ptr \in Slabs /\ IsFree(slabs[i].ptr) /\ slabs[i].ptr # h
      BY <1>3, <2>2, <3>1 DEF GpuVaInv, FreeList
    <3>3. slabs[i].ptr # slabs[h].ptr
      BY <1>4, <2>2, <3>1 DEF GpuVaInv, FreeList
    <3> QED BY <1>6, <1>8, <1>10, <3>1, <3>2, <3>3 DEF IsFree
  <2>3. ASSUME NEW i \in Slabs, NEW j \in Slabs, IsFree(i)', IsFree(j)',
               slabs'[i].ptr = slabs'[j].ptr, slabs'[i].ptr # NoBuffer
        PROVE  i = j
    BY <1>8, <1>11, <2>3 DEF GpuVaInv, FreeList
  <2> QED BY <2>1, <2>2, <2>3 DEF FreeList
<1>14. \A c \in AllocatedBuffers : c \in AllocatedBuffers' /\ gpu_address'[c] = gpu_address[c]
  BY <1>6, OwnsEffect
<1>15. SlabsOwned'
  <2> SUFFICES ASSUME NEW i \in Slabs, ~IsFree(i)'
               PROVE  /\ slabs'[i].ptr \in AllocatedBuffers'
                      /\ gpu_address'[slabs'[i].ptr] = Extent(SlabAddress(i), slabs'[i].size)
    BY DEF SlabsOwned, SlabAddress
  <2>1. CASE i = h
    BY <1>6, <1>8, <2>1, OwnsEffect
  <2>2. CASE i # h
    BY <1>8, <1>11, <1>14, <2>2 DEF GpuVaInv, SlabsOwned
  <2> QED BY <2>1, <2>2
<1>16. FallbackOwned' /\ Ascending'
  BY <1>6, <1>14 DEF GpuVaInv, FallbackOwned, Ascending
<1>17. Placed'
  <2> SUFFICES ASSUME NEW c \in AllocatedBuffers' PROVE InSlab(c)' \/ InFallback(c)'
    BY DEF Placed
  <2>1. CASE c = b
    BY <1>8, <1>11, <2>1 DEF InSlab
  <2>2. CASE c # b
    <3>1. c \in AllocatedBuffers
      BY <1>6, <2>2, OwnsEffect
    <3>2. CASE InSlab(c)
      BY <1>4, <1>8, <1>11, <3>2 DEF InSlab
    <3>3. CASE InFallback(c)
      BY <1>6, <3>3 DEF InFallback
    <3> QED BY <3>1, <3>2, <3>3 DEF GpuVaInv, Placed
  <2> QED BY <2>1, <2>2
<1> QED BY <1>12, <1>13, <1>15, <1>16, <1>17 DEF GpuVaInv

\* A freed slab becomes the head of the list.
LEMMA SlabFreed ==
    ASSUME GpuVaInv, NEW b \in AllocatedBuffers, FreeSlab(b)
    PROVE  GpuVaInv'
<1>1. InSlab(b)
  BY ExtentOfBuffer DEF FreeSlab
<1>2. PICK h \in Slabs : ~IsFree(h) /\ slabs[h].ptr = b
  BY <1>1 DEF InSlab
<1>3. SlabIndex(Address(b)) = h
  <2>1. /\ Address(b) = SlabAddress(h) /\ SlabAddress(h) \in Nat
        /\ SlabAddress(h) < SlabAddress(h) + SlabSize
    BY <1>2, BufferInSlab, SlabAddresses, Constants
  <2> QED BY <2>1, IndexOfSlab
<1>4. /\ Forget(b) /\ free_slab' = h
      /\ slabs' = [slabs EXCEPT ![h] = [size |-> 0, ptr |-> free_slab]]
      /\ UNCHANGED <<fallback, fallback_floor>>
  BY <1>3 DEF FreeSlab
<1>5. slabs \in [Slabs -> Slab] /\ free_slab \in Slabs \cup {NoBuffer}
  BY DEF GpuVaInv, GpuVaTypeOK
<1>6. /\ slabs'[h].size = 0 /\ slabs'[h].ptr = free_slab
      /\ \A i \in Slabs : i # h => slabs'[i] = slabs[i]
  BY <1>4, <1>5
<1>7. IsFree(h)' /\ \A i \in Slabs : i # h => (IsFree(i)' <=> IsFree(i))
  BY <1>6 DEF IsFree
<1>8. GpuVaTypeOK'
  <2>1. slabs' \in [Slabs -> Slab]
    <3>1. [size |-> 0, ptr |-> free_slab] \in Slab
      BY <1>5, Constants DEF Slab
    <3> QED BY <1>4, <1>5, <3>1
  <2>2. /\ AllocatedBuffers' \subseteq Buffers
        /\ gpu_address' \in [AllocatedBuffers' -> [base : Addresses, size : Addresses \ {0}]]
    BY <1>4, ForgetType DEF GpuVaInv
  <2>3. fallback' \in Seq(Allocation) /\ fallback_floor' \in FallbackBase .. AddressRange - 1
    BY <1>4 DEF GpuVaInv, GpuVaTypeOK
  <2> QED BY <1>4, <2>1, <2>2, <2>3 DEF GpuVaTypeOK
<1>9. FreeList'
  <2>1. \A i \in Slabs : IsFree(i) => i # h /\ slabs[i].ptr # h
    BY <1>2, GpuVaAssumption DEF GpuVaInv, FreeList
  <2>2. free_slab # NoBuffer => free_slab \in Slabs /\ IsFree(free_slab) /\ free_slab # h
    BY <1>2, <1>5 DEF GpuVaInv, FreeList
  <2>3. ASSUME NEW i \in Slabs, IsFree(i)', slabs'[i].ptr # NoBuffer
        PROVE  slabs'[i].ptr \in Slabs /\ IsFree(slabs[i].ptr)' /\ slabs'[i].ptr # free_slab'
    <3>1. CASE i = h
      <4>1. slabs'[i].ptr = free_slab /\ free_slab # NoBuffer
        BY <1>6, <2>3, <3>1
      <4> QED BY <1>4, <1>6, <2>2, <4>1 DEF IsFree
    <3>2. CASE i # h
      <4>1. IsFree(i) /\ slabs'[i].ptr = slabs[i].ptr
        BY <1>6, <1>7, <2>3, <3>2
      <4>2. slabs[i].ptr \in Slabs /\ IsFree(slabs[i].ptr) /\ slabs[i].ptr # h
        BY <2>1, <2>3, <4>1 DEF GpuVaInv, FreeList
      <4> QED BY <1>4, <1>6, <4>1, <4>2 DEF IsFree
    <3> QED BY <3>1, <3>2
  <2>4. ASSUME NEW i \in Slabs, NEW j \in Slabs, IsFree(i)', IsFree(j)',
               slabs'[i].ptr = slabs'[j].ptr, slabs'[i].ptr # NoBuffer
        PROVE  i = j
    BY <1>6, <1>7, <2>4 DEF GpuVaInv, FreeList
  <2> QED BY <1>4, <1>7, <2>3, <2>4 DEF FreeList
<1>10. \A c \in AllocatedBuffers \ {b} :
           c \in AllocatedBuffers' /\ gpu_address'[c] = gpu_address[c]
  BY <1>4, ForgetEffect
<1>11. \A i \in Slabs : ~IsFree(i) /\ i # h => slabs[i].ptr # b
  <2> SUFFICES ASSUME NEW i \in Slabs, ~IsFree(i), i # h, slabs[i].ptr = b PROVE FALSE
    OBVIOUS
  <2>1. SlabAddress(i) = SlabAddress(h)
    BY <1>2, BufferInSlab
  <2>2. /\ SlabAddress(i) \in Nat /\ SlabAddress(h) \in Nat /\ i \in Int /\ h \in Int
        /\ i < h => SlabAddress(i) + SlabSize <= SlabAddress(h)
        /\ h < i => SlabAddress(h) + SlabSize <= SlabAddress(i)
    BY SlabAddresses DEF Slabs
  <2> QED BY <2>1, <2>2, Constants
<1>12. SlabsOwned'
  <2> SUFFICES ASSUME NEW i \in Slabs, ~IsFree(i)'
               PROVE  /\ slabs'[i].ptr \in AllocatedBuffers'
                      /\ gpu_address'[slabs'[i].ptr] = Extent(SlabAddress(i), slabs'[i].size)
    BY DEF SlabsOwned, SlabAddress
  <2>1. i # h /\ ~IsFree(i) /\ slabs'[i] = slabs[i]
    BY <1>6, <1>7
  <2> QED BY <1>10, <1>11, <2>1 DEF GpuVaInv, SlabsOwned
<1>13. \A k \in 1 .. Len(fallback) : fallback[k].ptr # b
  BY BufferInFallback, Constants DEF FreeSlab, Addresses
<1>14. FallbackOwned' /\ Ascending'
  BY <1>4, <1>10, <1>13 DEF GpuVaInv, FallbackOwned, Ascending
<1>15. Placed'
  <2> SUFFICES ASSUME NEW c \in AllocatedBuffers' PROVE InSlab(c)' \/ InFallback(c)'
    BY DEF Placed
  <2>1. c \in AllocatedBuffers \ {b}
    BY <1>4, ForgetEffect
  <2>2. CASE InSlab(c)
    BY <1>2, <1>6, <1>7, <2>1, <2>2 DEF InSlab
  <2>3. CASE InFallback(c)
    BY <1>4, <2>3 DEF InFallback
  <2> QED BY <2>1, <2>2, <2>3 DEF GpuVaInv, Placed
<1> QED BY <1>8, <1>9, <1>12, <1>14, <1>15 DEF GpuVaInv

\* A fallback allocation goes behind the last one.
LEMMA FallbackAllocated ==
    ASSUME GpuVaInv, NEW b \in Buffers, b \notin AllocatedBuffers, NEW a \in Alignments,
           NEW size \in Sizes, AllocateFallback(b, a, size)
    PROVE  GpuVaInv'
<1>1. PICK s \in Addresses \ {0} : s = Align(size, a)
  BY AlignedSize DEF AllocateFallback
<1>2. /\ s \in Nat \ {0} /\ a \in Nat \ {0} /\ fallback_floor \in Nat
      /\ FallbackBase <= fallback_floor
  BY Constants, GpuVaAssumption DEF Addresses, GpuVaInv, GpuVaTypeOK
<1>3. AddressRange - 1 - (a - 1) - s >= fallback_floor
  BY <1>1 DEF AllocateFallback
<1>4. fallback_floor <= AddressRange - 1 - (a - 1)
  BY <1>2, <1>3, Constants
<1>5. PICK base \in Nat : base = Align(fallback_floor, a)
  BY <1>2, <1>4, Aligned
<1>6. fallback_floor <= base /\ base <= fallback_floor + (a - 1)
  BY <1>2, <1>4, <1>5, Aligned
<1>7. /\ base \in Addresses /\ base + s \in FallbackBase .. AddressRange - 1
      /\ (base + s) % AddressRange = base + s
  <2>1. base \in 0 .. AddressRange - 1 /\ base + s \in FallbackBase .. AddressRange - 1
    BY <1>2, <1>3, <1>6, Constants
  <2>2. (base + s) % AddressRange = base + s
    BY <1>2, <2>1, Constants
  <2> QED BY <2>1, <2>2 DEF Addresses
<1> DEFINE entry == [base |-> base, size |-> s, ptr |-> b]
<1>8. /\ entry \in Allocation /\ entry.base = base /\ entry.size = s /\ entry.ptr = b
  BY <1>7 DEF Allocation
<1>9. /\ Owns(b, base, s) /\ fallback' = Append(fallback, entry)
      /\ fallback_floor' = base + s /\ UNCHANGED <<slabs, free_slab>>
  BY <1>1, <1>5, <1>7 DEF AllocateFallback
<1> HIDE DEF entry
<1>10. fallback \in Seq(Allocation)
  BY DEF GpuVaInv, GpuVaTypeOK
<1>11. PICK n \in Nat : Len(fallback) = n
  BY <1>10
<1>12. /\ fallback' \in Seq(Allocation) /\ Len(fallback') = n + 1 /\ fallback'[n + 1] = entry
       /\ \A k \in 1 .. n : fallback'[k] = fallback[k]
  BY <1>8, <1>9, <1>10, <1>11, AppendProperties
<1>13. \A k \in 1 .. n + 1 : k \in 1 .. n \/ k = n + 1
  OBVIOUS
<1>14. GpuVaTypeOK'
  <2>1. /\ AllocatedBuffers' \subseteq Buffers
        /\ gpu_address' \in [AllocatedBuffers' -> [base : Addresses, size : Addresses \ {0}]]
    BY <1>7, <1>9, OwnsType DEF GpuVaInv
  <2>2. slabs' \in [Slabs -> Slab] /\ free_slab' \in Slabs \cup {NoBuffer}
    BY <1>9 DEF GpuVaInv, GpuVaTypeOK
  <2> QED BY <1>7, <1>9, <1>12, <2>1, <2>2 DEF GpuVaTypeOK
<1>15. \A c \in AllocatedBuffers : c \in AllocatedBuffers' /\ gpu_address'[c] = gpu_address[c]
  BY <1>9, OwnsEffect
<1>16. FreeList' /\ SlabsOwned'
  <2>1. FreeList'
    BY <1>9 DEF GpuVaInv, FreeList, IsFree
  <2> QED BY <1>9, <1>15, <2>1 DEF GpuVaInv, SlabsOwned, IsFree, SlabAddress
<1>17. \A k \in 1 .. n :
           /\ fallback[k].ptr \in AllocatedBuffers
           /\ gpu_address[fallback[k].ptr] = Extent(fallback[k].base, fallback[k].size)
           /\ fallback[k].base \in Nat /\ fallback[k].size \in Nat
           /\ FallbackBase <= fallback[k].base
           /\ fallback[k].base + fallback[k].size <= fallback_floor
  BY <1>11, BufferInFallback DEF GpuVaInv, FallbackOwned
<1>18. FallbackOwned'
  <2> SUFFICES ASSUME NEW k \in 1 .. n + 1
               PROVE  /\ fallback'[k].ptr \in AllocatedBuffers'
                      /\ gpu_address'[fallback'[k].ptr] =
                             Extent(fallback'[k].base, fallback'[k].size)
                      /\ FallbackBase <= fallback'[k].base
                      /\ fallback'[k].base + fallback'[k].size <= fallback_floor'
    BY <1>12 DEF FallbackOwned
  <2>1. CASE k \in 1 .. n
    <3>1. fallback[k].base + fallback[k].size <= base + s
      BY <1>2, <1>6, <1>17, <2>1, Constants
    <3> QED BY <1>9, <1>12, <1>15, <1>17, <2>1, <3>1
  <2>2. CASE k = n + 1
    <3>1. FallbackBase <= base /\ base + s <= base + s
      BY <1>2, <1>6, Constants
    <3>2. b \in AllocatedBuffers' /\ gpu_address'[b] = Extent(base, s)
      BY <1>9, OwnsEffect
    <3> QED BY <1>8, <1>9, <1>12, <2>2, <3>1, <3>2
  <2> QED BY <1>13, <2>1, <2>2
<1>19. Ascending'
  <2> SUFFICES ASSUME NEW j \in 1 .. n + 1, NEW k \in 1 .. n + 1, j < k
               PROVE  fallback'[j].base + fallback'[j].size <= fallback'[k].base
    BY <1>12 DEF Ascending
  <2>1. j \in 1 .. n
    OBVIOUS
  <2>2. CASE k \in 1 .. n
    BY <1>11, <1>12, <2>1, <2>2 DEF GpuVaInv, Ascending
  <2>3. CASE k = n + 1
    <3>1. fallback[j].base + fallback[j].size <= base
      BY <1>2, <1>6, <1>17, <2>1, Constants
    <3> QED BY <1>8, <1>12, <2>1, <2>3, <3>1
  <2> QED BY <1>13, <2>2, <2>3
<1>20. Placed'
  <2> SUFFICES ASSUME NEW c \in AllocatedBuffers' PROVE InSlab(c)' \/ InFallback(c)'
    BY DEF Placed
  <2>1. CASE c = b
    <3>1. n + 1 \in 1 .. Len(fallback') /\ fallback'[n + 1].ptr = b
      BY <1>8, <1>12
    <3> QED BY <2>1, <3>1 DEF InFallback
  <2>2. CASE c # b
    <3>1. c \in AllocatedBuffers
      BY <1>9, <2>2, OwnsEffect
    <3>2. CASE InSlab(c)
      BY <1>9, <3>2 DEF InSlab, IsFree
    <3>3. CASE InFallback(c)
      <4>1. PICK k \in 1 .. n : fallback[k].ptr = c
        BY <1>11, <3>3 DEF InFallback
      <4>2. k \in 1 .. Len(fallback') /\ fallback'[k].ptr = c
        BY <1>12, <4>1
      <4> QED BY <4>2 DEF InFallback
    <3> QED BY <3>1, <3>2, <3>3 DEF GpuVaInv, Placed
  <2> QED BY <2>1, <2>2
<1> QED BY <1>14, <1>16, <1>18, <1>19, <1>20 DEF GpuVaInv

\* memmove(): the entries behind the freed one move down by one.
LEMMA Removed ==
    ASSUME NEW S, NEW s \in Seq(S), NEW i \in 1 .. Len(s), NEW n \in Nat, Len(s) = n
    PROVE  /\ RemoveAt(s, i) \in Seq(S) /\ Len(RemoveAt(s, i)) = n - 1
           /\ \A k \in 1 .. i - 1 : RemoveAt(s, i)[k] = s[k]
           /\ \A k \in i .. n - 1 : RemoveAt(s, i)[k] = s[k + 1]
<1> DEFINE p == SubSeq(s, 1, i - 1)
           q == SubSeq(s, i + 1, Len(s))
<1>1. i \in Nat /\ i >= 1 /\ i <= n
  OBVIOUS
<1>2. p \in Seq(S) /\ Len(p) = i - 1 /\ \A k \in 1 .. i - 1 : p[k] = s[k]
  BY <1>1, SubSeqProperties, Z3
<1>3. q \in Seq(S) /\ Len(q) = n - i /\ \A k \in 1 .. n - i : q[k] = s[i + k]
  BY <1>1, SubSeqProperties, Z3
<1>4. RemoveAt(s, i) = p \o q
  BY DEF RemoveAt
<1> HIDE DEF p, q
<1>5. /\ p \o q \in Seq(S) /\ Len(p \o q) = n - 1
      /\ \A k \in 1 .. n - 1 : (p \o q)[k] = IF k <= i - 1 THEN p[k] ELSE q[k - (i - 1)]
  BY <1>1, <1>2, <1>3, ConcatProperties
<1>6. \A k \in 1 .. i - 1 : (p \o q)[k] = s[k]
  BY <1>1, <1>2, <1>5
<1>7. \A k \in i .. n - 1 : (p \o q)[k] = s[k + 1]
  <2> SUFFICES ASSUME NEW k \in i .. n - 1 PROVE (p \o q)[k] = s[k + 1]
    OBVIOUS
  <2>1. k \in 1 .. n - 1 /\ ~(k <= i - 1) /\ k - (i - 1) \in 1 .. n - i
        /\ i + (k - (i - 1)) = k + 1
    BY <1>1
  <2> QED BY <1>3, <1>5, <2>1
<1> QED BY <1>4, <1>5, <1>6, <1>7

LEMMA FallbackFreed ==
    ASSUME GpuVaInv, NEW b \in AllocatedBuffers, FreeFallback(b)
    PROVE  GpuVaInv'
<1>1. InFallback(b) /\ ~InSlab(b)
  BY ExtentOfBuffer, Constants DEF FreeFallback, GpuVaInv, Placed
<1>2. PICK m \in 1 .. Len(fallback) : fallback[m].ptr = b
  BY <1>1 DEF InFallback
<1>3. /\ Search(Address(b)) = m
      /\ Equal(Address(b), fallback[m]) /\ Address(b) \in Nat
  <2>1. Equal(Address(b), fallback[m]) /\ Address(b) \in Nat
    BY <1>2, BufferInFallback DEF Equal
  <2> QED BY <2>1, Found DEF GpuVaInv
<1>4. Forget(b) /\ fallback' = RemoveAt(fallback, m)
      /\ UNCHANGED <<slabs, free_slab, fallback_floor>>
  BY <1>3 DEF FreeFallback
<1>5. fallback \in Seq(Allocation)
  BY DEF GpuVaInv, GpuVaTypeOK
<1>6. PICK n \in Nat : Len(fallback) = n
  BY <1>5
<1>7. /\ fallback' \in Seq(Allocation) /\ Len(fallback') = n - 1
      /\ \A k \in 1 .. m - 1 : fallback'[k] = fallback[k]
      /\ \A k \in m .. n - 1 : fallback'[k] = fallback[k + 1]
  BY <1>4, <1>5, <1>6, Removed
<1>8. m \in Nat /\ n - 1 \in Nat /\ 1 <= m /\ m <= n
  BY <1>6
<1>9. PICK old \in [1 .. n - 1 -> 1 .. n] :
          \A k \in 1 .. n - 1 : old[k] = IF k < m THEN k ELSE k + 1
  <2>1. [k \in 1 .. n - 1 |-> IF k < m THEN k ELSE k + 1] \in [1 .. n - 1 -> 1 .. n]
    BY <1>8
  <2> QED BY <2>1
<1>10. \A k \in 1 .. n - 1 : old[k] \in 1 .. n /\ old[k] # m /\ fallback'[k] = fallback[old[k]]
  <2> SUFFICES ASSUME NEW k \in 1 .. n - 1
               PROVE  old[k] \in 1 .. n /\ old[k] # m /\ fallback'[k] = fallback[old[k]]
    OBVIOUS
  <2>1. old[k] \in 1 .. n
    OBVIOUS
  <2>2. CASE k < m
    <3>1. old[k] = k /\ k \in 1 .. m - 1
      BY <1>8, <1>9, <2>2
    <3>2. fallback'[k] = fallback[k]
      BY <1>7, <3>1
    <3> QED BY <1>8, <2>1, <2>2, <3>1, <3>2
  <2>3. CASE ~(k < m)
    <3>1. old[k] = k + 1 /\ k \in m .. n - 1
      BY <1>8, <1>9, <2>3
    <3>2. fallback'[k] = fallback[k + 1]
      BY <1>7, <3>1
    <3> QED BY <1>8, <2>1, <2>3, <3>1, <3>2
  <2> QED BY <2>2, <2>3
<1>11. \A j, k \in 1 .. n - 1 : j < k => old[j] < old[k]
  BY <1>8, <1>9
<1>12. \A l \in 1 .. n : l # m => \E k \in 1 .. n - 1 : old[k] = l
  <2> SUFFICES ASSUME NEW l \in 1 .. n, l # m PROVE \E k \in 1 .. n - 1 : old[k] = l
    OBVIOUS
  <2>1. CASE l < m
    BY <1>8, <1>9, <2>1
  <2>2. CASE l > m
    <3>1. l - 1 \in 1 .. n - 1 /\ ~(l - 1 < m)
      BY <1>8, <2>2
    <3>2. old[l - 1] = l
      BY <1>9, <3>1
    <3> QED BY <3>1, <3>2
  <2> QED BY <1>8, <2>1, <2>2
<1>13. \A c \in AllocatedBuffers \ {b} :
           c \in AllocatedBuffers' /\ gpu_address'[c] = gpu_address[c]
  BY <1>4, ForgetEffect
<1>14. GpuVaTypeOK'
  <2>1. /\ AllocatedBuffers' \subseteq Buffers
        /\ gpu_address' \in [AllocatedBuffers' -> [base : Addresses, size : Addresses \ {0}]]
    BY <1>4, ForgetType DEF GpuVaInv
  <2>2. /\ slabs' \in [Slabs -> Slab] /\ free_slab' \in Slabs \cup {NoBuffer}
        /\ fallback_floor' \in FallbackBase .. AddressRange - 1
    BY <1>4 DEF GpuVaInv, GpuVaTypeOK
  <2> QED BY <1>7, <2>1, <2>2 DEF GpuVaTypeOK
<1>15. FreeList'
  BY <1>4 DEF GpuVaInv, FreeList, IsFree
<1>16. SlabsOwned'
  <2>1. \A i \in Slabs : ~IsFree(i) => slabs[i].ptr # b
    BY <1>1 DEF InSlab
  <2> QED BY <1>4, <1>13, <2>1 DEF GpuVaInv, SlabsOwned, IsFree, SlabAddress
<1>17. Ascending'
  <2> SUFFICES ASSUME NEW j \in 1 .. n - 1, NEW k \in 1 .. n - 1, j < k
               PROVE  fallback'[j].base + fallback'[j].size <= fallback'[k].base
    BY <1>7 DEF Ascending
  <2>1. old[j] \in 1 .. n /\ old[k] \in 1 .. n /\ old[j] < old[k]
    BY <1>10, <1>11
  <2>2. fallback[old[j]].base + fallback[old[j]].size <= fallback[old[k]].base
    BY <1>6, <2>1 DEF GpuVaInv, Ascending
  <2> QED BY <1>10, <2>2
<1>18. \A l \in 1 .. n : l # m => fallback[l].ptr # b
  <2> SUFFICES ASSUME NEW l \in 1 .. n, l # m, fallback[l].ptr = b PROVE FALSE
    OBVIOUS
  <2>1. Equal(Address(b), fallback[l]) /\ Equal(Address(b), fallback[m]) /\ Address(b) \in Nat
    <3>1. /\ Address(b) = fallback[l].base /\ fallback[l].base \in Nat
          /\ fallback[l].size \in Nat \ {0}
      BY <1>6, BufferInFallback
    <3>2. Equal(Address(b), fallback[l])
      BY <3>1 DEF Equal
    <3> QED BY <1>3, <3>2
  <2> QED BY <1>6, <2>1, OneEntry DEF GpuVaInv
<1>19. FallbackOwned'
  <2> SUFFICES ASSUME NEW k \in 1 .. n - 1
               PROVE  /\ fallback'[k].ptr \in AllocatedBuffers'
                      /\ gpu_address'[fallback'[k].ptr] =
                             Extent(fallback'[k].base, fallback'[k].size)
                      /\ FallbackBase <= fallback'[k].base
                      /\ fallback'[k].base + fallback'[k].size <= fallback_floor'
    BY <1>7 DEF FallbackOwned
  <2>1. PICK l \in 1 .. n : l = old[k] /\ l # m /\ fallback'[k] = fallback[l]
    BY <1>10
  <2> QED BY <1>4, <1>6, <1>13, <1>18, <2>1 DEF GpuVaInv, FallbackOwned
<1>20. Placed'
  <2> SUFFICES ASSUME NEW c \in AllocatedBuffers' PROVE InSlab(c)' \/ InFallback(c)'
    BY DEF Placed
  <2>1. c \in AllocatedBuffers \ {b}
    BY <1>4, ForgetEffect
  <2>2. CASE InSlab(c)
    BY <1>4, <2>2 DEF InSlab, IsFree
  <2>3. CASE InFallback(c)
    <3>1. PICK l \in 1 .. n : fallback[l].ptr = c /\ l # m
      BY <1>2, <1>6, <2>1, <2>3 DEF InFallback
    <3>2. PICK k \in 1 .. n - 1 : old[k] = l
      BY <1>12, <3>1
    <3> QED BY <1>7, <1>10, <3>1, <3>2 DEF InFallback
  <2> QED BY <2>1, <2>2, <2>3 DEF GpuVaInv, Placed
<1> QED BY <1>14, <1>15, <1>16, <1>17, <1>19, <1>20 DEF GpuVaInv

LEMMA GpuVaStep == ASSUME GpuVaInv, [GpuVaNext]_gpuVaVars PROVE GpuVaInv'
<1>1. CASE GpuVaNext
  BY <1>1, GpuVaAssumption, SlabAllocated, FallbackAllocated, SlabFreed, FallbackFreed
     DEF GpuVaNext
<1>2. CASE UNCHANGED gpuVaVars
  BY <1>2 DEF gpuVaVars, GpuVaInv, GpuVaTypeOK, FreeList, SlabsOwned, FallbackOwned,
     Ascending, Placed, InSlab, InFallback, IsFree, AllocatedBuffers, SlabAddress
<1> QED BY <1>1, <1>2

(***************************************************************************)
(* vkd3d_gpu_va_allocator_allocate() and _free() in any order, with any    *)
(* sizes: the buffers' addresses are disjoint and below the end of the     *)
(* range, vkd3d_gpu_va_allocator_dereference() of an address gives the     *)
(* buffer that owns it or NULL, and what is freed is found.                *)
(***************************************************************************)
THEOREM GpuVaCorrect == GpuVaSpec => []GpuVaSound
<1>1. GpuVaInit => GpuVaInv
  BY GpuVaStart
<1>2. GpuVaInv /\ [GpuVaNext]_gpuVaVars => GpuVaInv'
  BY GpuVaStep
<1>3. GpuVaInv => GpuVaSound
  BY GpuVaInvImplies
<1> QED BY <1>1, <1>2, <1>3, PTL DEF GpuVaSpec

----------------------------------------------------------------------------
(* The cache of descriptor objects.                                        *)
CacheSteps == {"outside", "get", "count", "unlink", "empty", "check", "malloc",
          "push", "link", "linked"}

\* The steps at which a thread has the spinlock of its list.
LockSteps == {"count", "unlink", "empty", "link"}

CacheStep == [at : CacheSteps, i : Heads, object : CacheObjects \cup {NoObject}]

CacheTyped ==
    /\ cache_head \in [Heads -> CacheObjects \cup {NoObject}]
    /\ spinlock \in [Heads -> {0, 1}]
    /\ header_next \in [CacheObjects -> CacheObjects \cup {NoObject}]
    /\ next_index \in Heads
    /\ free_count \in 0 .. CountRange - 1
    /\ cache_step \in [CacheThreads -> CacheStep]
    /\ in_use \in [CacheThreads -> SUBSET CacheObjects]
    /\ allocated \in 0 .. MemoryLimit

\* A spinlock is taken by the one thread that is at such a step, the object
\* to unlink stays the first of its list, and no thread uses too many.
StepFits(t) ==
    LET s == cache_step[t] IN
    /\ s.at \in LockSteps => spinlock[s.i] = 1
    /\ s.at \in {"count", "unlink"} => s.object = cache_head[s.i] /\ s.object # NoObject
    /\ s.at \in {"push", "link"} => s.object # NoObject /\ s.object \notin in_use[t]
    /\ Cardinality(in_use[t]) <= MaxHeld
    /\ s.at # "outside" => Cardinality(in_use[t]) < MaxHeld

LocksFit ==
    \A t, u \in CacheThreads :
        /\ cache_step[t].at \in LockSteps /\ cache_step[u].at \in LockSteps
        /\ cache_step[t].i = cache_step[u].i
        => t = u

CacheControl == LocksFit /\ \A t \in CacheThreads : StepFits(t)

LEMMA CacheConstants ==
    /\ HeadCount \in Nat \ {0} /\ 0 \in Heads
    /\ \A i \in Heads : (i + 1) % HeadCount \in Heads
    /\ MaxHeld \in Nat /\ MemoryLimit \in Nat /\ CountRange \in Nat \ {0}
    /\ \A n \in Int : n % CountRange \in 0 .. CountRange - 1
    /\ IsFiniteSet(CacheObjects) /\ IsFiniteSet(CacheThreads)
<1>1. /\ HeadCount \in Nat \ {0} /\ MaxHeld \in Nat /\ MemoryLimit \in Nat /\ CountRange \in Nat
      /\ IsFiniteSet(CacheThreads) /\ CountRange > MemoryLimit + HeadCount + Cardinality(CacheThreads)
  BY CacheAssumption
<1>2. Cardinality(CacheThreads) \in Nat
  BY <1>1, FS_CardinalityType
<1>3. CountRange \in Nat \ {0}
  BY <1>1, <1>2
<1>4. \A n \in Int : n % CountRange \in 0 .. CountRange - 1
  BY <1>3
<1>5. IsFiniteSet(CacheObjects)
  BY <1>1, FS_Interval DEF CacheObjects
<1>6. 0 \in Heads /\ \A i \in Heads : (i + 1) % HeadCount \in Heads
  BY <1>1 DEF Heads
<1> QED BY <1>1, <1>3, <1>4, <1>5, <1>6

\* Adding to what a thread uses, and taking from it.
LEMMA HeldCounts ==
    ASSUME NEW S \in SUBSET CacheObjects, NEW o \in CacheObjects
    PROVE  /\ IsFiniteSet(S) /\ Cardinality(S) \in Nat
           /\ Cardinality(S \cup {o}) <= Cardinality(S) + 1
           /\ o \in S => Cardinality(S \ {o}) = Cardinality(S) - 1
<1>1. IsFiniteSet(S)
  BY CacheConstants, FS_Subset
<1>2. Cardinality(S) \in Nat
  BY <1>1, FS_CardinalityType
<1>3. o \notin S => Cardinality(S \cup {o}) = Cardinality(S) + 1
  BY <1>1, FS_AddElement
<1>4. o \in S => S \cup {o} = S
  OBVIOUS
<1>5. o \in S => Cardinality(S \ {o}) = Cardinality(S) - 1
  BY <1>1, FS_RemoveElement
<1> QED BY <1>1, <1>2, <1>3, <1>4, <1>5

\* The thread t goes to step s, and the others stay where they are.
Goes(t, s) == s \in CacheStep /\ cache_step' = [cache_step EXCEPT ![t] = s]

To(t, at, i, o) == Goes(t, [at |-> at, i |-> i, object |-> o])

LEMMA StepGoes ==
    ASSUME CacheTyped, NEW t \in CacheThreads, NEW at \in CacheSteps
    PROVE  /\ StepOf(t, at) => To(t, at, cache_step[t].i, cache_step[t].object)
           /\ \A o \in CacheObjects \cup {NoObject} :
                  cache_step' = [cache_step EXCEPT ![t].at = at, ![t].object = o]
                  => To(t, at, cache_step[t].i, o)
           /\ cache_step' = [cache_step EXCEPT ![t].at = at, ![t].i = (@ + 1) % HeadCount]
              => To(t, at, (cache_step[t].i + 1) % HeadCount, cache_step[t].object)
<1>1. PICK s \in CacheStep : s = cache_step[t]
  BY DEF CacheTyped
<1>2. s = [at |-> s.at, i |-> s.i, object |-> s.object] /\ s.i \in Heads
      /\ s.object \in CacheObjects \cup {NoObject}
  BY DEF CacheStep
<1>3. (s.i + 1) % HeadCount \in Heads
  BY <1>2, CacheConstants
<1>4. StepOf(t, at) => To(t, at, s.i, s.object)
  <2>1. StepOf(t, at) => cache_step' = [cache_step EXCEPT ![t] = [s EXCEPT !.at = at]]
    BY <1>1 DEF StepOf
  <2>2. [s EXCEPT !.at = at] = [at |-> at, i |-> s.i, object |-> s.object]
    BY <1>2
  <2> QED BY <1>2, <2>1, <2>2 DEF To, Goes, CacheStep
<1>5. ASSUME NEW o \in CacheObjects \cup {NoObject},
             cache_step' = [cache_step EXCEPT ![t].at = at, ![t].object = o]
      PROVE  To(t, at, s.i, o)
  <2>1. cache_step' = [cache_step EXCEPT ![t] = [[s EXCEPT !.at = at] EXCEPT !.object = o]]
    BY <1>1, <1>5 DEF CacheTyped
  <2>2. [[s EXCEPT !.at = at] EXCEPT !.object = o] = [at |-> at, i |-> s.i, object |-> o]
    <3>1. PICK r : r = [at |-> at, i |-> s.i, object |-> s.object]
      OBVIOUS
    <3>2. [s EXCEPT !.at = at] = r
      BY <1>2, <3>1
    <3>3. [r EXCEPT !.object = o] = [at |-> at, i |-> s.i, object |-> o]
      BY <3>1
    <3> QED BY <3>2, <3>3
  <2> QED BY <1>2, <2>1, <2>2 DEF To, Goes, CacheStep
<1>6. ASSUME cache_step' = [cache_step EXCEPT ![t].at = at, ![t].i = (@ + 1) % HeadCount]
      PROVE  To(t, at, (s.i + 1) % HeadCount, s.object)
  <2>1. PICK k \in Heads : k = (s.i + 1) % HeadCount
    BY <1>3
  <2>2. cache_step' = [cache_step EXCEPT ![t] = [[s EXCEPT !.at = at] EXCEPT !.i = k]]
    BY <1>1, <1>6, <2>1 DEF CacheTyped
  <2>3. [[s EXCEPT !.at = at] EXCEPT !.i = k] = [at |-> at, i |-> k, object |-> s.object]
    <3>1. PICK r : r = [at |-> at, i |-> s.i, object |-> s.object]
      OBVIOUS
    <3>2. [s EXCEPT !.at = at] = r
      BY <1>2, <3>1
    <3>3. [r EXCEPT !.i = k] = [at |-> at, i |-> k, object |-> s.object]
      BY <3>1
    <3> QED BY <3>2, <3>3
  <2> QED BY <1>2, <2>1, <2>2, <2>3 DEF To, Goes, CacheStep
<1> QED BY <1>1, <1>4, <1>5, <1>6

\* Where the steps of a thread go, what they do to the spinlocks, and which
\* steps they are.
LEMMA Moves ==
    ASSUME CacheTyped, CacheControl, NEW t \in CacheThreads
    PROVE  LET s == cache_step[t] IN
           /\ GetStart(t) => s.at = "outside" /\ To(t, "get", next_index', NoObject)
           /\ GetLock(t) => To(t, "count", s.i, cache_head[s.i])
           /\ GetCount(t) => s.at = "count" /\ To(t, "unlink", s.i, s.object)
           /\ GetUnlink(t) => s.at = "unlink" /\ To(t, "outside", 0, NoObject)
           /\ GetMiss(t) => s.at = "get" /\ To(t, IF spinlock[s.i] = 0 THEN "empty" ELSE "check",
                                              s.i, s.object)
           /\ GetUnlock(t) => s.at = "empty" /\ To(t, "check", s.i, s.object)
           /\ GetCheck(t) => /\ s.at = "check"
                             /\ \/ free_count < HeadCount /\ To(t, "malloc", s.i, s.object)
                                \/ To(t, "get", (s.i + 1) % HeadCount, s.object)
           /\ GetMalloc(t) => s.at = "malloc" /\ To(t, "outside", 0, NoObject)
<1> DEFINE s == cache_step[t]
<1>1. s \in CacheStep /\ s.i \in Heads /\ s.object \in CacheObjects \cup {NoObject}
  BY DEF CacheTyped, CacheStep
<1>2. OutsideCache \in CacheStep
  BY CacheConstants DEF OutsideCache, CacheStep, CacheSteps
<1>3. GetStart(t) => s.at = "outside" /\ To(t, "get", next_index', NoObject)
  <2> SUFFICES ASSUME GetStart(t) PROVE s.at = "outside" /\ To(t, "get", next_index', NoObject)
    OBVIOUS
  <2>1. next_index' \in Heads
    BY CacheConstants DEF GetStart, TakeIndex, CacheTyped
  <2> QED BY <2>1 DEF GetStart, TakeIndex, To, Goes, CacheStep, CacheSteps
<1>4. GetLock(t) => To(t, "count", s.i, cache_head[s.i])
  <2>1. cache_head[s.i] \in CacheObjects \cup {NoObject}
    BY <1>1 DEF CacheTyped
  <2>2. "count" \in CacheSteps
    BY DEF CacheSteps
  <2> QED BY <2>1, <2>2, StepGoes DEF GetLock
<1>5. GetCount(t) => s.at = "count" /\ To(t, "unlink", s.i, s.object)
  <2>1. "unlink" \in CacheSteps
    BY DEF CacheSteps
  <2> QED BY <2>1, StepGoes DEF GetCount
<1>6. GetUnlink(t) => s.at = "unlink" /\ To(t, "outside", 0, NoObject)
  BY <1>2 DEF GetUnlink, To, Goes, OutsideCache
<1>7. GetMiss(t) => s.at = "get" /\ To(t, IF spinlock[s.i] = 0 THEN "empty" ELSE "check", s.i, s.object)
  <2>1. (IF spinlock[s.i] = 0 THEN "empty" ELSE "check") \in CacheSteps
    BY DEF CacheSteps
  <2> QED BY <2>1, StepGoes DEF GetMiss
<1>8. GetUnlock(t) => s.at = "empty" /\ To(t, "check", s.i, s.object)
  <2>1. "check" \in CacheSteps
    BY DEF CacheSteps
  <2> QED BY <2>1, StepGoes DEF GetUnlock
<1>9. GetCheck(t) => /\ s.at = "check"
                     /\ \/ free_count < HeadCount /\ To(t, "malloc", s.i, s.object)
                        \/ To(t, "get", (s.i + 1) % HeadCount, s.object)
  <2>1. "malloc" \in CacheSteps /\ "get" \in CacheSteps
    BY DEF CacheSteps
  <2> QED BY <2>1, StepGoes DEF GetCheck
<1>10. GetMalloc(t) => s.at = "malloc" /\ To(t, "outside", 0, NoObject)
  BY <1>2 DEF GetMalloc, To, Goes, OutsideCache
<1> QED BY <1>3, <1>4, <1>5, <1>6, <1>7, <1>8, <1>9, <1>10

LEMMA PushMoves ==
    ASSUME CacheTyped, CacheControl, NEW t \in CacheThreads
    PROVE  LET s == cache_step[t] IN
           /\ PushStart(t) => \E o \in in_use[t] : /\ s.at = "outside" /\ To(t, "push", next_index', o)
                                                   /\ in_use' = [in_use EXCEPT ![t] = @ \ {o}]
           /\ PushSpin(t) => s.at = "push" /\ To(t, "push", (s.i + 1) % HeadCount, s.object)
           /\ PushLock(t) => s.at = "push" /\ To(t, "link", s.i, s.object)
           /\ PushLink(t) => s.at = "link" /\ To(t, "linked", s.i, s.object)
           /\ PushCount(t) => s.at = "linked" /\ To(t, "outside", 0, NoObject)
<1> DEFINE s == cache_step[t]
<1>1. s \in CacheStep /\ s.i \in Heads /\ s.object \in CacheObjects \cup {NoObject}
  BY DEF CacheTyped, CacheStep
<1>2. OutsideCache \in CacheStep
  BY CacheConstants DEF OutsideCache, CacheStep, CacheSteps
<1>3. PushStart(t) => \E o \in in_use[t] : /\ s.at = "outside" /\ To(t, "push", next_index', o)
                                           /\ in_use' = [in_use EXCEPT ![t] = @ \ {o}]
  <2> SUFFICES ASSUME PushStart(t)
               PROVE  \E o \in in_use[t] : /\ s.at = "outside" /\ To(t, "push", next_index', o)
                                           /\ in_use' = [in_use EXCEPT ![t] = @ \ {o}]
    OBVIOUS
  <2>1. PICK o \in in_use[t] : /\ s.at = "outside" /\ TakeIndex(t, "push", o)
                               /\ in_use' = [in_use EXCEPT ![t] = @ \ {o}]
    BY DEF PushStart
  <2>2. next_index' \in Heads /\ o \in CacheObjects
    BY <2>1, CacheConstants DEF TakeIndex, CacheTyped
  <2>3. To(t, "push", next_index', o)
    BY <2>1, <2>2 DEF TakeIndex, To, Goes, CacheStep, CacheSteps
  <2> QED BY <2>1, <2>3
<1>4. PushSpin(t) => s.at = "push" /\ To(t, "push", (s.i + 1) % HeadCount, s.object)
  <2> SUFFICES ASSUME PushSpin(t) PROVE s.at = "push" /\ To(t, "push", (s.i + 1) % HeadCount, s.object)
    OBVIOUS
  <2>1. PICK k \in Heads : k = (s.i + 1) % HeadCount
    BY <1>1, CacheConstants
  <2>2. cache_step' = [cache_step EXCEPT ![t] = [s EXCEPT !.i = k]]
    BY <2>1 DEF PushSpin
  <2>3. s.at = "push" /\ s = [at |-> "push", i |-> s.i, object |-> s.object]
    BY <1>1 DEF PushSpin, CacheStep
  <2>4. [s EXCEPT !.i = k] = [at |-> "push", i |-> k, object |-> s.object]
    BY <2>3
  <2> QED BY <1>1, <2>1, <2>2, <2>3, <2>4 DEF To, Goes, CacheStep, CacheSteps
<1>5. PushLock(t) => s.at = "push" /\ To(t, "link", s.i, s.object)
  <2>1. "link" \in CacheSteps
    BY DEF CacheSteps
  <2> QED BY <2>1, StepGoes DEF PushLock
<1>6. PushLink(t) => s.at = "link" /\ To(t, "linked", s.i, s.object)
  <2>1. "linked" \in CacheSteps
    BY DEF CacheSteps
  <2> QED BY <2>1, StepGoes DEF PushLink
<1>7. PushCount(t) => s.at = "linked" /\ To(t, "outside", 0, NoObject)
  BY <1>2 DEF PushCount, To, Goes, OutsideCache
<1> QED BY <1>3, <1>4, <1>5, <1>6, <1>7

CacheBase == CacheTyped /\ CacheControl

\* The threads that have a spinlock, other than t.
OthersLock(t) == {u \in CacheThreads \ {t} : cache_step[u].at \in LockSteps}

LEMMA ControlAfter ==
    ASSUME CacheTyped, CacheControl, NEW t \in CacheThreads, NEW s, Goes(t, s),
           s.at \in LockSteps =>
               spinlock'[s.i] = 1 /\ \A u \in OthersLock(t) : cache_step[u].i # s.i,
           \A u \in OthersLock(t) : /\ spinlock'[cache_step[u].i] = spinlock[cache_step[u].i]
                                    /\ cache_head'[cache_step[u].i] = cache_head[cache_step[u].i],
           s.at \in {"count", "unlink"} => s.object = cache_head'[s.i] /\ s.object # NoObject,
           s.at \in {"push", "link"} => s.object # NoObject /\ s.object \notin in_use'[t],
           \A u \in CacheThreads : u # t => in_use'[u] = in_use[u],
           Cardinality(in_use'[t]) <= MaxHeld,
           s.at # "outside" => Cardinality(in_use'[t]) < MaxHeld
    PROVE  CacheControl'
<1>1. cache_step'[t] = s /\ \A u \in CacheThreads : u # t => cache_step'[u] = cache_step[u]
  BY DEF Goes, CacheTyped
<1>2. StepFits(t)'
  BY <1>1 DEF StepFits
<1>3. ASSUME NEW u \in CacheThreads, u # t PROVE StepFits(u)'
  <2>1. StepFits(u)
    BY DEF CacheControl
  <2>2. cache_step'[u] = cache_step[u] /\ in_use'[u] = in_use[u]
    BY <1>1, <1>3
  <2>3. CASE cache_step[u].at \in LockSteps
    <3>1. /\ spinlock'[cache_step[u].i] = spinlock[cache_step[u].i]
          /\ cache_head'[cache_step[u].i] = cache_head[cache_step[u].i]
      BY <1>3, <2>3 DEF OthersLock
    <3> QED BY <2>1, <2>2, <3>1 DEF StepFits
  <2>4. CASE cache_step[u].at \notin LockSteps
    <3>1. cache_step[u].at \notin {"count", "unlink"}
      BY <2>4 DEF LockSteps
    <3> QED BY <2>1, <2>2, <2>4, <3>1 DEF StepFits
  <2> QED BY <2>3, <2>4
<1>4. LocksFit'
  <2>1. LocksFit
    BY DEF CacheControl
  <2>2. ASSUME NEW u \in CacheThreads, NEW v \in CacheThreads,
               cache_step'[u].at \in LockSteps, cache_step'[v].at \in LockSteps,
               cache_step'[u].i = cache_step'[v].i
        PROVE  u = v
    <3>1. CASE u # t /\ v # t
      BY <1>1, <2>1, <2>2, <3>1 DEF LocksFit
    <3>2. CASE u = t /\ v # t
      <4>1. v \in OthersLock(t) /\ cache_step[v].i = s.i /\ s.at \in LockSteps
        BY <1>1, <2>2, <3>2 DEF OthersLock
      <4> QED BY <4>1
    <3>3. CASE u # t /\ v = t
      <4>1. u \in OthersLock(t) /\ cache_step[u].i = s.i /\ s.at \in LockSteps
        BY <1>1, <2>2, <3>3 DEF OthersLock
      <4> QED BY <4>1
    <3> QED BY <3>1, <3>2, <3>3
  <2> QED BY <2>2 DEF LocksFit
<1> QED BY <1>2, <1>3, <1>4 DEF CacheControl

\* Nobody else has the spinlock that t has, or that is free.
LEMMA OthersElsewhere ==
    ASSUME CacheTyped, CacheControl, NEW t \in CacheThreads,
           cache_step[t].at \in LockSteps \/ spinlock[cache_step[t].i] = 0
    PROVE  \A u \in OthersLock(t) : cache_step[u].i # cache_step[t].i
BY DEF CacheControl, LocksFit, StepFits, OthersLock

LEMMA HeldNow ==
    ASSUME CacheTyped, CacheControl, NEW t \in CacheThreads
    PROVE  /\ cache_step[t] \in CacheStep /\ cache_step[t].i \in Heads
           /\ in_use[t] \in SUBSET CacheObjects /\ Cardinality(in_use[t]) \in Nat
           /\ Cardinality(in_use[t]) <= MaxHeld
           /\ cache_step[t].at # "outside" => Cardinality(in_use[t]) < MaxHeld
           /\ cache_step[t].at \in LockSteps => spinlock[cache_step[t].i] = 1
<1>1. /\ cache_step[t] \in CacheStep /\ cache_step[t].i \in Heads
      /\ in_use[t] \in SUBSET CacheObjects
  BY DEF CacheTyped, CacheStep
<1>2. IsFiniteSet(in_use[t])
  BY <1>1, CacheConstants, FS_Subset
<1>3. Cardinality(in_use[t]) \in Nat
  BY <1>2, FS_CardinalityType
<1> QED BY <1>1, <1>3 DEF CacheControl, StepFits

\* CacheSteps that leave lists, links and what the threads use alone.
LEMMA BaseLooks ==
    ASSUME CacheBase, NEW t \in CacheThreads,
           GetStart(t) \/ GetLock(t) \/ GetCount(t) \/ GetMiss(t) \/ GetUnlock(t) \/ GetCheck(t)
    PROVE  CacheBase'
<1> DEFINE s == cache_step[t]
<1>0. CacheTyped /\ CacheControl
  BY DEF CacheBase
<1>1. UNCHANGED <<cache_head, header_next, in_use, allocated>>
  BY DEF GetStart, GetLock, GetCount, GetMiss, GetUnlock, GetCheck
<1>2. /\ s \in CacheStep /\ s.i \in Heads /\ in_use[t] \in SUBSET CacheObjects
      /\ Cardinality(in_use[t]) \in Nat /\ Cardinality(in_use[t]) <= MaxHeld
      /\ s.at # "outside" => Cardinality(in_use[t]) < MaxHeld
      /\ s.at \in LockSteps => spinlock[s.i] = 1
  BY <1>0, HeldNow
<1>3. spinlock' \in [Heads -> {0, 1}] /\ next_index' \in Heads /\ free_count' \in 0 .. CountRange - 1
  <2>1. spinlock' \in [Heads -> {0, 1}]
    BY <1>0, <1>2 DEF GetStart, GetLock, GetCount, GetMiss, GetUnlock, GetCheck, CacheTyped
  <2>2. next_index' \in Heads
    BY <1>0, CacheConstants
       DEF GetStart, GetLock, GetCount, GetMiss, GetUnlock, GetCheck, TakeIndex, CacheTyped
  <2>3. free_count' \in 0 .. CountRange - 1
    <3>1. free_count \in 0 .. CountRange - 1 /\ (free_count - 1) % CountRange \in 0 .. CountRange - 1
      <4>1. free_count \in 0 .. CountRange - 1 /\ CountRange \in Nat
        BY <1>0, CacheConstants DEF CacheTyped
      <4>2. free_count - 1 \in Int
        BY <4>1
      <4> QED BY <4>1, <4>2, CacheConstants
    <3> QED BY <3>1 DEF GetStart, GetLock, GetCount, GetMiss, GetUnlock, GetCheck
  <2> QED BY <2>1, <2>2, <2>3
<1>4. ASSUME NEW r, Goes(t, r) PROVE CacheTyped'
  <2>1. cache_step' \in [CacheThreads -> CacheStep]
    BY <1>0, <1>4 DEF Goes, CacheTyped
  <2> QED BY <1>0, <1>1, <1>3, <2>1 DEF CacheTyped
<1>5. ASSUME NEW r, Goes(t, r), r.at \in {"get", "check", "malloc"},
             s.at = "outside" => Cardinality(in_use[t]) < MaxHeld,
             \A u \in OthersLock(t) : spinlock'[cache_step[u].i] = spinlock[cache_step[u].i]
      PROVE  CacheBase'
  <2>1. r.at \notin LockSteps /\ r.at \notin {"count", "unlink"} /\ r.at \notin {"push", "link"}
    BY <1>5 DEF LockSteps
  <2>2. CacheControl'
    BY <1>0, <1>1, <1>2, <1>5, <2>1, ControlAfter
  <2> QED BY <1>4, <1>5, <2>2 DEF CacheBase
<1>6. ASSUME NEW r, Goes(t, r), r.i = s.i, s.at # "outside", r.at \in LockSteps,
             s.at \in LockSteps \/ spinlock[s.i] = 0, spinlock'[s.i] = 1,
             \A u \in Heads : u # s.i => spinlock'[u] = spinlock[u],
             r.at \in {"count", "unlink", "empty"},
             r.at \in {"count", "unlink"} => r.object = cache_head[s.i] /\ r.object # NoObject
      PROVE  CacheBase'
  <2>1. \A u \in OthersLock(t) : cache_step[u].i # s.i
    BY <1>0, <1>6, OthersElsewhere
  <2>2. \A u \in OthersLock(t) : spinlock'[cache_step[u].i] = spinlock[cache_step[u].i]
    BY <1>0, <1>6, <2>1 DEF OthersLock, CacheTyped, CacheStep
  <2>3. CacheControl'
    BY <1>0, <1>1, <1>2, <1>6, <2>1, <2>2, ControlAfter
  <2> QED BY <1>4, <1>6, <2>3 DEF CacheBase
<1>7. CASE GetStart(t)
  <2>1. To(t, "get", next_index', NoObject) /\ spinlock' = spinlock
        /\ Cardinality(in_use[t]) < MaxHeld
    BY <1>0, <1>7, Moves DEF GetStart
  <2> QED BY <1>5, <2>1 DEF To
<1>8. CASE GetLock(t)
  <2>1. /\ To(t, "count", s.i, cache_head[s.i]) /\ s.at = "get" /\ spinlock[s.i] = 0
        /\ cache_head[s.i] # NoObject /\ spinlock' = [spinlock EXCEPT ![s.i] = 1]
    BY <1>0, <1>8, Moves DEF GetLock
  <2>2. spinlock'[s.i] = 1 /\ \A u \in Heads : u # s.i => spinlock'[u] = spinlock[u]
    BY <1>0, <1>2, <2>1 DEF CacheTyped
  <2>3. "count" \in LockSteps
    BY DEF LockSteps
  <2> QED BY <1>6, <2>1, <2>2, <2>3 DEF To
<1>9. CASE GetCount(t)
  <2>1. s.at = "count" /\ To(t, "unlink", s.i, s.object) /\ spinlock' = spinlock
    BY <1>0, <1>9, Moves DEF GetCount
  <2>2. s.at \in LockSteps /\ "unlink" \in LockSteps
    BY <2>1 DEF LockSteps
  <2>3. s.object = cache_head[s.i] /\ s.object # NoObject
    BY <1>0, <2>1 DEF CacheControl, StepFits
  <2> QED BY <1>2, <1>6, <2>1, <2>2, <2>3 DEF To
<1>10. CASE GetMiss(t)
  <2>1. /\ s.at = "get" /\ To(t, IF spinlock[s.i] = 0 THEN "empty" ELSE "check", s.i, s.object)
        /\ spinlock' = IF spinlock[s.i] = 0 THEN [spinlock EXCEPT ![s.i] = 1] ELSE spinlock
    BY <1>0, <1>10, Moves DEF GetMiss
  <2>2. CASE spinlock[s.i] = 0
    <3>1. /\ To(t, "empty", s.i, s.object)
          /\ spinlock'[s.i] = 1 /\ \A u \in Heads : u # s.i => spinlock'[u] = spinlock[u]
      BY <1>0, <1>2, <2>1, <2>2 DEF CacheTyped
    <3>2. "empty" \in LockSteps
      BY DEF LockSteps
    <3> QED BY <1>6, <2>1, <2>2, <3>1, <3>2 DEF To
  <2>3. CASE spinlock[s.i] # 0
    <3>1. To(t, "check", s.i, s.object) /\ spinlock' = spinlock
      BY <2>1, <2>3
    <3> QED BY <1>5, <2>1, <3>1 DEF To
  <2> QED BY <2>2, <2>3
<1>11. CASE GetUnlock(t)
  <2>1. /\ s.at = "empty" /\ To(t, "check", s.i, s.object)
        /\ spinlock' = [spinlock EXCEPT ![s.i] = 0]
    BY <1>0, <1>11, Moves DEF GetUnlock
  <2>2. \A u \in OthersLock(t) : cache_step[u].i # s.i
    BY <1>0, <2>1, OthersElsewhere DEF LockSteps
  <2>3. \A u \in OthersLock(t) : spinlock'[cache_step[u].i] = spinlock[cache_step[u].i]
    BY <1>0, <2>1, <2>2 DEF OthersLock, CacheTyped, CacheStep
  <2> QED BY <1>5, <2>1, <2>3 DEF To
<1>12. CASE GetCheck(t)
  <2>1. /\ s.at = "check" /\ spinlock' = spinlock
        /\ \/ To(t, "malloc", s.i, s.object)
           \/ To(t, "get", (s.i + 1) % HeadCount, s.object)
    BY <1>0, <1>12, Moves DEF GetCheck
  <2> QED BY <1>5, <2>1 DEF To
<1> QED BY <1>7, <1>8, <1>9, <1>10, <1>11, <1>12

LEMMA BaseUnlink ==
    ASSUME CacheBase, NEW t \in CacheThreads, GetUnlink(t)
    PROVE  CacheBase'
<1> DEFINE s == cache_step[t]
<1>0. CacheTyped /\ CacheControl
  BY DEF CacheBase
<1>1. /\ s \in CacheStep /\ s.i \in Heads /\ in_use[t] \in SUBSET CacheObjects
      /\ Cardinality(in_use[t]) \in Nat
      /\ s.at # "outside" => Cardinality(in_use[t]) < MaxHeld
  BY <1>0, HeldNow
<1>2. s.at = "unlink" /\ To(t, "outside", 0, NoObject)
  BY <1>0, Moves
<1>3. s.object \in CacheObjects
  BY <1>0, <1>1, <1>2 DEF CacheControl, StepFits, CacheStep
<1>4. /\ cache_head' = [cache_head EXCEPT ![s.i] = header_next[s.object]]
      /\ header_next' = [header_next EXCEPT ![s.object] = NoObject]
      /\ spinlock' = [spinlock EXCEPT ![s.i] = 0]
      /\ in_use' = [in_use EXCEPT ![t] = @ \cup {s.object}]
      /\ UNCHANGED <<next_index, free_count, allocated>>
  BY DEF GetUnlink
<1>5. /\ in_use'[t] = in_use[t] \cup {s.object}
      /\ \A u \in CacheThreads : u # t => in_use'[u] = in_use[u]
  BY <1>0, <1>4 DEF CacheTyped
<1>6. Cardinality(in_use'[t]) <= MaxHeld
  <2>1. /\ Cardinality(in_use[t] \cup {s.object}) <= Cardinality(in_use[t]) + 1
    BY <1>1, <1>3, HeldCounts
  <2>2. in_use'[t] \in SUBSET CacheObjects
    BY <1>1, <1>3, <1>5
  <2>3. Cardinality(in_use'[t]) \in Nat
    BY <1>3, <2>2, HeldCounts
  <2> QED BY <1>1, <1>2, <1>5, <2>1, <2>3, CacheConstants
<1>7. CacheTyped'
  <2>1. /\ header_next[s.object] \in CacheObjects \cup {NoObject}
    BY <1>0, <1>3 DEF CacheTyped
  <2>2. cache_head' \in [Heads -> CacheObjects \cup {NoObject}]
        /\ spinlock' \in [Heads -> {0, 1}]
        /\ header_next' \in [CacheObjects -> CacheObjects \cup {NoObject}]
    BY <1>0, <1>4, <2>1 DEF CacheTyped
  <2>3. in_use' \in [CacheThreads -> SUBSET CacheObjects]
    BY <1>0, <1>1, <1>3, <1>4 DEF CacheTyped
  <2>4. cache_step' \in [CacheThreads -> CacheStep]
    BY <1>0, <1>2 DEF To, Goes, CacheTyped
  <2> QED BY <1>0, <1>4, <2>2, <2>3, <2>4 DEF CacheTyped
<1>8. \A u \in OthersLock(t) : cache_step[u].i # s.i
  BY <1>0, <1>2, OthersElsewhere DEF LockSteps
<1>9. \A u \in OthersLock(t) : /\ spinlock'[cache_step[u].i] = spinlock[cache_step[u].i]
                               /\ cache_head'[cache_step[u].i] = cache_head[cache_step[u].i]
  BY <1>0, <1>4, <1>8 DEF OthersLock, CacheTyped, CacheStep
<1>10. CacheControl'
  <2>1. PICK r : r = [at |-> "outside", i |-> 0, object |-> NoObject]
    OBVIOUS
  <2>2. Goes(t, r) /\ r.at = "outside"
    BY <1>2, <2>1 DEF To
  <2>3. r.at \notin LockSteps
    BY <2>2 DEF LockSteps
  <2> QED BY <1>0, <1>5, <1>6, <1>9, <2>2, <2>3, ControlAfter
<1> QED BY <1>7, <1>10 DEF CacheBase

LEMMA BaseMalloc ==
    ASSUME CacheBase, NEW t \in CacheThreads, GetMalloc(t)
    PROVE  CacheBase'
<1> DEFINE s == cache_step[t]
<1>0. CacheTyped /\ CacheControl
  BY DEF CacheBase
<1>1. /\ s \in CacheStep /\ s.i \in Heads /\ in_use[t] \in SUBSET CacheObjects
      /\ Cardinality(in_use[t]) \in Nat
      /\ s.at # "outside" => Cardinality(in_use[t]) < MaxHeld
  BY <1>0, HeldNow
<1>2. s.at = "malloc" /\ To(t, "outside", 0, NoObject)
  BY <1>0, Moves
<1>3. /\ allocated' = allocated + 1 /\ allocated' \in 1 .. MemoryLimit
      /\ in_use' = [in_use EXCEPT ![t] = @ \cup {allocated'}]
      /\ UNCHANGED <<cache_head, spinlock, header_next, next_index, free_count>>
  BY <1>0, CacheConstants DEF GetMalloc, CacheTyped
<1>4. PICK o \in CacheObjects : o = allocated'
  BY <1>3 DEF CacheObjects
<1>5. /\ in_use'[t] = in_use[t] \cup {o}
      /\ \A u \in CacheThreads : u # t => in_use'[u] = in_use[u]
  BY <1>0, <1>3, <1>4 DEF CacheTyped
<1>6. Cardinality(in_use'[t]) <= MaxHeld
  <2>1. /\ Cardinality(in_use[t] \cup {o}) <= Cardinality(in_use[t]) + 1
    BY <1>1, HeldCounts
  <2>2. in_use'[t] \in SUBSET CacheObjects
    BY <1>1, <1>5
  <2>3. Cardinality(in_use'[t]) \in Nat
    BY <2>2, HeldCounts
  <2> QED BY <1>1, <1>2, <1>5, <2>1, <2>3, CacheConstants
<1>7. CacheTyped'
  <2>1. in_use' \in [CacheThreads -> SUBSET CacheObjects]
    BY <1>0, <1>1, <1>3, <1>4 DEF CacheTyped
  <2>2. cache_step' \in [CacheThreads -> CacheStep]
    BY <1>0, <1>2 DEF To, Goes, CacheTyped
  <2>3. allocated' \in 0 .. MemoryLimit
    BY <1>3, CacheConstants
  <2> QED BY <1>0, <1>3, <2>1, <2>2, <2>3 DEF CacheTyped
<1>8. CacheControl'
  <2>1. PICK r : r = [at |-> "outside", i |-> 0, object |-> NoObject]
    OBVIOUS
  <2>2. Goes(t, r) /\ r.at = "outside"
    BY <1>2, <2>1 DEF To
  <2>3. r.at \notin LockSteps
    BY <2>2 DEF LockSteps
  <2> QED BY <1>0, <1>3, <1>5, <1>6, <2>2, <2>3, ControlAfter
<1> QED BY <1>7, <1>8 DEF CacheBase

LEMMA BasePush ==
    ASSUME CacheBase, NEW t \in CacheThreads,
           PushStart(t) \/ PushSpin(t) \/ PushLock(t) \/ PushLink(t) \/ PushCount(t)
    PROVE  CacheBase'
<1> DEFINE s == cache_step[t]
<1>0. CacheTyped /\ CacheControl
  BY DEF CacheBase
<1>1. allocated' = allocated
  BY DEF PushStart, PushSpin, PushLock, PushLink, PushCount
<1>2. /\ s \in CacheStep /\ s.i \in Heads /\ in_use[t] \in SUBSET CacheObjects
      /\ Cardinality(in_use[t]) \in Nat /\ Cardinality(in_use[t]) <= MaxHeld
      /\ s.at # "outside" => Cardinality(in_use[t]) < MaxHeld
      /\ s.at \in LockSteps => spinlock[s.i] = 1
  BY <1>0, HeldNow
<1>3. CASE PushStart(t)
  <2>1. PICK o \in in_use[t] : /\ s.at = "outside" /\ To(t, "push", next_index', o)
                               /\ in_use' = [in_use EXCEPT ![t] = @ \ {o}]
    BY <1>0, <1>3, PushMoves
  <2>2. UNCHANGED <<cache_head, spinlock, header_next, free_count, allocated>>
        /\ next_index' \in Heads
    BY <1>0, <1>3, CacheConstants DEF PushStart, TakeIndex, CacheTyped
  <2>3. in_use'[t] = in_use[t] \ {o} /\ \A u \in CacheThreads : u # t => in_use'[u] = in_use[u]
    BY <1>0, <2>1 DEF CacheTyped
  <2>4. Cardinality(in_use'[t]) = Cardinality(in_use[t]) - 1
    BY <1>2, <2>3, HeldCounts
  <2>5. Cardinality(in_use'[t]) < MaxHeld /\ Cardinality(in_use'[t]) <= MaxHeld
    BY <1>2, <2>4, CacheConstants
  <2>6. CacheTyped'
    <3>1. in_use' \in [CacheThreads -> SUBSET CacheObjects] /\ cache_step' \in [CacheThreads -> CacheStep]
      BY <1>0, <2>1 DEF CacheTyped, To, Goes
    <3> QED BY <1>0, <2>2, <3>1 DEF CacheTyped
  <2>7. CacheControl'
    <3>1. PICK r : r = [at |-> "push", i |-> next_index', object |-> o]
      OBVIOUS
    <3>2. Goes(t, r) /\ r.at = "push" /\ r.object = o
      BY <2>1, <3>1 DEF To
    <3>3. o # NoObject /\ o \notin in_use'[t]
      BY <1>2, <2>3, CacheAssumption
    <3>4. r.at \notin LockSteps
      BY <3>2 DEF LockSteps
    <3> QED BY <1>0, <2>2, <2>3, <2>5, <3>2, <3>3, <3>4, ControlAfter
  <2> QED BY <2>6, <2>7 DEF CacheBase
<1>4. ASSUME in_use' = in_use, s.at # "outside", NEW r, Goes(t, r), r.object = s.object \/ r.at = "outside",
             r.at \in {"push", "link", "linked", "outside"}, s.at \in {"push", "link", "linked"},
             r.at \in {"push", "link"} => s.at \in {"push", "link"},
             r.at \in LockSteps =>
                 spinlock'[r.i] = 1 /\ \A u \in OthersLock(t) : cache_step[u].i # r.i,
             \A u \in OthersLock(t) : /\ spinlock'[cache_step[u].i] = spinlock[cache_step[u].i]
                                      /\ cache_head'[cache_step[u].i] = cache_head[cache_step[u].i]
      PROVE  CacheControl'
  <2>1. r.at \in {"push", "link"} => r.object # NoObject /\ r.object \notin in_use'[t]
    BY <1>0, <1>4 DEF CacheControl, StepFits
  <2>2. r.at \notin {"count", "unlink"}
    BY <1>4
  <2> QED BY <1>0, <1>2, <1>4, <2>1, <2>2, ControlAfter
<1>5. CASE PushSpin(t)
  <2>1. s.at = "push" /\ To(t, "push", (s.i + 1) % HeadCount, s.object)
        /\ UNCHANGED <<cache_head, spinlock, header_next, next_index, free_count, in_use>>
    BY <1>0, <1>5, PushMoves DEF PushSpin
  <2>2. CacheTyped'
    <3>1. cache_step' \in [CacheThreads -> CacheStep]
      BY <1>0, <2>1 DEF CacheTyped, To, Goes
    <3> QED BY <1>0, <1>1, <2>1, <3>1 DEF CacheTyped
  <2>3. CacheControl'
    <3>1. "push" \notin LockSteps
      BY DEF LockSteps
    <3> QED BY <1>4, <2>1, <3>1 DEF To
  <2> QED BY <2>2, <2>3 DEF CacheBase
<1>6. CASE PushLock(t)
  <2>1. /\ s.at = "push" /\ To(t, "link", s.i, s.object) /\ spinlock[s.i] = 0
        /\ spinlock' = [spinlock EXCEPT ![s.i] = 1]
        /\ UNCHANGED <<cache_head, header_next, next_index, free_count, in_use>>
    BY <1>0, <1>6, PushMoves DEF PushLock
  <2>2. CacheTyped'
    <3>1. cache_step' \in [CacheThreads -> CacheStep] /\ spinlock' \in [Heads -> {0, 1}]
      BY <1>0, <2>1 DEF CacheTyped, To, Goes
    <3> QED BY <1>0, <1>1, <2>1, <3>1 DEF CacheTyped
  <2>3. CacheControl'
    <3>1. \A u \in OthersLock(t) : cache_step[u].i # s.i
      BY <1>0, <2>1, OthersElsewhere
    <3>2. \A u \in OthersLock(t) : spinlock'[cache_step[u].i] = spinlock[cache_step[u].i]
      BY <1>0, <2>1, <3>1 DEF OthersLock, CacheTyped, CacheStep
    <3>3. spinlock'[s.i] = 1
      BY <1>0, <1>2, <2>1 DEF CacheTyped
    <3> QED BY <1>4, <2>1, <3>1, <3>2, <3>3 DEF To
  <2> QED BY <2>2, <2>3 DEF CacheBase
<1>7. CASE PushLink(t)
  <2>1. /\ s.at = "link" /\ To(t, "linked", s.i, s.object)
        /\ header_next' = [header_next EXCEPT ![s.object] = cache_head[s.i]]
        /\ cache_head' = [cache_head EXCEPT ![s.i] = s.object]
        /\ spinlock' = [spinlock EXCEPT ![s.i] = 0]
        /\ UNCHANGED <<next_index, free_count, in_use>>
    BY <1>0, <1>7, PushMoves DEF PushLink
  <2>2. CacheTyped'
    <3>1. cache_step' \in [CacheThreads -> CacheStep] /\ spinlock' \in [Heads -> {0, 1}]
      BY <1>0, <2>1 DEF CacheTyped, To, Goes
    <3>2. s.object \in CacheObjects \cup {NoObject} /\ cache_head[s.i] \in CacheObjects \cup {NoObject}
      BY <1>0, <1>2 DEF CacheTyped, CacheStep
    <3>3. /\ header_next' \in [CacheObjects -> CacheObjects \cup {NoObject}]
          /\ cache_head' \in [Heads -> CacheObjects \cup {NoObject}]
      BY <1>0, <2>1, <3>2 DEF CacheTyped
    <3> QED BY <1>0, <1>1, <2>1, <3>1, <3>3 DEF CacheTyped
  <2>3. CacheControl'
    <3>1. \A u \in OthersLock(t) : cache_step[u].i # s.i
      BY <1>0, <2>1, OthersElsewhere DEF LockSteps
    <3>2. \A u \in OthersLock(t) : /\ spinlock'[cache_step[u].i] = spinlock[cache_step[u].i]
                                   /\ cache_head'[cache_step[u].i] = cache_head[cache_step[u].i]
      BY <1>0, <2>1, <3>1 DEF OthersLock, CacheTyped, CacheStep
    <3>3. "linked" \notin LockSteps
      BY DEF LockSteps
    <3> QED BY <1>4, <2>1, <3>2, <3>3 DEF To
  <2> QED BY <2>2, <2>3 DEF CacheBase
<1>8. CASE PushCount(t)
  <2>1. /\ s.at = "linked" /\ To(t, "outside", 0, NoObject)
        /\ free_count' = (free_count + 1) % CountRange
        /\ UNCHANGED <<cache_head, spinlock, header_next, next_index, in_use>>
    BY <1>0, <1>8, PushMoves DEF PushCount
  <2>2. CacheTyped'
    <3>1. cache_step' \in [CacheThreads -> CacheStep]
      BY <1>0, <2>1 DEF CacheTyped, To, Goes
    <3>2. free_count + 1 \in Int
      BY <1>0, CacheConstants DEF CacheTyped
    <3>3. free_count' \in 0 .. CountRange - 1
      BY <2>1, <3>2, CacheConstants
    <3> QED BY <1>0, <1>1, <2>1, <3>1, <3>3 DEF CacheTyped
  <2>3. CacheControl'
    <3>1. "outside" \notin LockSteps
      BY DEF LockSteps
    <3> QED BY <1>4, <2>1, <3>1 DEF To
  <2> QED BY <2>2, <2>3 DEF CacheBase
<1> QED BY <1>3, <1>5, <1>6, <1>7, <1>8

LEMMA BaseStarts == CacheInit => CacheBase
<1> SUFFICES ASSUME CacheInit PROVE CacheBase
  OBVIOUS
<1>1. OutsideCache \in CacheStep /\ OutsideCache.at = "outside"
  BY CacheConstants DEF OutsideCache, CacheStep, CacheSteps
<1>2. CacheTyped
  <2>1. 0 \in 0 .. CountRange - 1 /\ 0 \in 0 .. MemoryLimit /\ 0 \in Heads
    BY CacheConstants
  <2> QED BY <1>1, <2>1 DEF CacheInit, CacheTyped
<1>3. \A t \in CacheThreads : Cardinality(in_use[t]) = 0 /\ cache_step[t].at = "outside"
  BY <1>1, FS_EmptySet DEF CacheInit
<1>4. CacheControl
  BY <1>3, CacheConstants DEF CacheControl, LocksFit, StepFits, LockSteps
<1> QED BY <1>2, <1>4 DEF CacheBase

LEMMA BaseSteps == CacheBase /\ [CacheNext]_cacheVars => CacheBase'
<1> SUFFICES ASSUME CacheBase, [CacheNext]_cacheVars PROVE CacheBase'
  OBVIOUS
<1>1. CASE CacheNext
  BY <1>1, BaseLooks, BaseUnlink, BaseMalloc, BasePush DEF CacheNext
<1>2. CASE UNCHANGED cacheVars
  BY <1>2 DEF cacheVars, CacheBase, CacheTyped, CacheControl, LocksFit, StepFits
<1> QED BY <1>1, <1>2

----------------------------------------------------------------------------
(* The lists and who has the objects that are in none.                     *)

\* f[n], ..., f[1] is a list that is linked by header_next and ends in NULL,
\* f[0]: to push is to extend f, to take the first element is to use less of it.
Chain(nx, f, n) ==
    /\ n \in Nat /\ f \in [Nat -> CacheObjects \cup {NoObject}] /\ f[0] = NoObject
    /\ \A k \in 1 .. n : f[k] \in CacheObjects /\ nx[f[k]] = f[k - 1]
    /\ \A j, k \in 1 .. n : f[j] = f[k] => j = k

On(f, n, o) == \E k \in 1 .. n : f[k] = o

LEMMA ChainEmpty == \E f : \A nx : Chain(nx, f, 0) /\ f[0] = NoObject
<1> DEFINE f == [k \in Nat |-> NoObject]
<1>1. f \in [Nat -> CacheObjects \cup {NoObject}] /\ f[0] = NoObject
  OBVIOUS
<1> HIDE DEF f
<1> QED BY <1>1 DEF Chain

LEMMA ChainEnds ==
    ASSUME NEW nx, NEW f, NEW n, Chain(nx, f, n)
    PROVE  /\ \A o : ~ On(f, 0, o)
           /\ f[n] \in CacheObjects \cup {NoObject} /\ (f[n] = NoObject <=> n = 0)
           /\ \A o : On(f, n, o) => o \in CacheObjects
<1>1. f[n] \in CacheObjects \cup {NoObject} /\ \A o : ~ On(f, 0, o)
  BY DEF Chain, On
<1>2. n # 0 => n \in 1 .. n /\ f[n] \in CacheObjects
  BY DEF Chain
<1>3. NoObject \notin CacheObjects
  BY CacheAssumption
<1> QED BY <1>1, <1>2, <1>3 DEF Chain, On

\* A change elsewhere does not disturb a list.
LEMMA ChainOff ==
    ASSUME NEW nx, NEW nx2, NEW f, NEW n, Chain(nx, f, n), NEW d, ~ On(f, n, d),
           \A e \in CacheObjects : e # d => nx2[e] = nx[e]
    PROVE  Chain(nx2, f, n)
BY DEF Chain, On

LEMMA ChainPush ==
    ASSUME NEW nx, NEW f, NEW n, Chain(nx, f, n), NEW d \in CacheObjects, ~ On(f, n, d),
           nx[d] = f[n]
    PROVE  \E f2 : /\ Chain(nx, f2, n + 1) /\ f2[n + 1] = d
                   /\ \A e : On(f2, n + 1, e) <=> On(f, n, e) \/ e = d
<1> DEFINE f2 == [f EXCEPT ![n + 1] = d]
<1>1. n \in Nat /\ f \in [Nat -> CacheObjects \cup {NoObject}]
  BY DEF Chain
<1>2. /\ f2 \in [Nat -> CacheObjects \cup {NoObject}] /\ f2[n + 1] = d
      /\ \A k \in 0 .. n : f2[k] = f[k]
  BY <1>1
<1> HIDE DEF f2
<1>3. \A k : k \in 1 .. n + 1 <=> k \in 1 .. n \/ k = n + 1
  BY <1>1
<1>4. \A k \in 1 .. n : f2[k] = f[k] /\ f2[k - 1] = f[k - 1]
  BY <1>1, <1>2
<1>5. f2[0] = NoObject /\ (n + 1) - 1 = n /\ f2[n] = f[n]
  BY <1>1, <1>2 DEF Chain
<1>6. ASSUME NEW k \in 1 .. n + 1 PROVE f2[k] \in CacheObjects /\ nx[f2[k]] = f2[k - 1]
  <2>1. CASE k = n + 1
    BY <1>2, <1>5, <2>1
  <2>2. CASE k \in 1 .. n
    BY <1>4, <2>2 DEF Chain
  <2> QED BY <1>3, <2>1, <2>2
<1>7. ASSUME NEW j \in 1 .. n + 1, NEW k \in 1 .. n + 1, f2[j] = f2[k] PROVE j = k
  <2>1. CASE j \in 1 .. n /\ k \in 1 .. n
    BY <1>4, <1>7, <2>1 DEF Chain
  <2>2. CASE j = n + 1 /\ k \in 1 .. n
    BY <1>2, <1>4, <1>7, <2>2 DEF On
  <2>3. CASE j \in 1 .. n /\ k = n + 1
    BY <1>2, <1>4, <1>7, <2>3 DEF On
  <2>4. CASE j = n + 1 /\ k = n + 1
    BY <2>4
  <2> QED BY <1>3, <2>1, <2>2, <2>3, <2>4
<1>8. Chain(nx, f2, n + 1)
  BY <1>1, <1>2, <1>5, <1>6, <1>7 DEF Chain
<1>9. \A e : On(f2, n + 1, e) <=> On(f, n, e) \/ e = d
  BY <1>2, <1>3, <1>4 DEF On
<1> QED BY <1>2, <1>8, <1>9

LEMMA ChainPop ==
    ASSUME NEW nx, NEW g, NEW m, Chain(nx, g, m), m # 0
    PROVE  /\ m - 1 \in Nat /\ Chain(nx, g, m - 1) /\ nx[g[m]] = g[m - 1]
           /\ On(g, m, g[m]) /\ ~ On(g, m - 1, g[m])
           /\ \A e : On(g, m, e) <=> On(g, m - 1, e) \/ e = g[m]
<1>1. m \in Nat \ {0} /\ g \in [Nat -> CacheObjects \cup {NoObject}]
  BY DEF Chain
<1>2. m - 1 \in Nat /\ m \in 1 .. m
      /\ \A k : k \in 1 .. m <=> k \in 1 .. m - 1 \/ k = m
  BY <1>1
<1>3. nx[g[m]] = g[m - 1]
  BY <1>2 DEF Chain
<1>4. \A k \in 1 .. m - 1 : k # m /\ g[k] # g[m]
  BY <1>1, <1>2 DEF Chain
<1>5. Chain(nx, g, m - 1)
  BY <1>1, <1>2, <1>4 DEF Chain
<1>6. On(g, m, g[m]) /\ ~ On(g, m - 1, g[m])
      /\ \A e : On(g, m, e) <=> On(g, m - 1, e) \/ e = g[m]
  BY <1>2, <1>4 DEF On
<1> QED BY <1>2, <1>3, <1>5, <1>6

\* A list has no element twice, and so no more than there are objects.
LEMMA ChainShort ==
    ASSUME NEW nx, NEW f, NEW n, Chain(nx, f, n)
    PROVE  n <= MemoryLimit
<1> SUFFICES ASSUME MemoryLimit < n PROVE FALSE
  BY CacheConstants DEF Chain
<1> DEFINE h == [k \in 1 .. n |-> f[k]]
<1>1. MemoryLimit \in Nat /\ n \in Nat
  BY CacheConstants DEF Chain
<1>2. IsFiniteSet(1 .. n) /\ Cardinality(1 .. n) = n
  BY <1>1, FS_Interval
<1>3. IsFiniteSet(CacheObjects) /\ Cardinality(CacheObjects) = MemoryLimit
  BY <1>1, FS_Interval DEF CacheObjects
<1>4. h \in [1 .. n -> CacheObjects]
  BY DEF Chain
<1>5. \A j, k \in 1 .. n : h[j] = h[k] => j = k
  BY DEF Chain
<1> HIDE DEF h
<1>6. PICK j \in 1 .. n, k \in 1 .. n : j # k /\ h[j] = h[k]
  BY <1>2, <1>3, <1>4, FS_PigeonHole
<1> QED BY <1>5, <1>6

\* The thread has the object, in use or on its way into a list.
Has(t, o) ==
    \/ o \in in_use[t]
    \/ cache_step[t].at \in {"push", "link"} /\ cache_step[t].object = o

Lists(F, N) ==
    /\ \A i \in Heads : Chain(header_next, F[i], N[i]) /\ cache_head[i] = F[i][N[i]]
    /\ \A i, j \in Heads, o \in CacheObjects : On(F[i], N[i], o) /\ On(F[j], N[j], o) => i = j

Places(F, N) ==
    /\ \A t, u \in CacheThreads, o \in CacheObjects : Has(t, o) /\ Has(u, o) => t = u
    /\ \A i \in Heads, t \in CacheThreads, o \in CacheObjects : ~ (On(F[i], N[i], o) /\ Has(t, o))
    /\ \A o \in CacheObjects : o <= allocated <=> \/ \E i \in Heads : On(F[i], N[i], o)
                                                  \/ \E t \in CacheThreads : Has(t, o)

CacheLists == \E F, N : Lists(F, N) /\ Places(F, N)

\* Who owns what after a step of t.
LEMMA HasAfter ==
    ASSUME CacheTyped, NEW t \in CacheThreads, NEW at, NEW i, NEW o, To(t, at, i, o),
           \A u \in CacheThreads : u # t => in_use'[u] = in_use[u]
    PROVE  /\ \A u \in CacheThreads, x \in CacheObjects : u # t => (Has(u, x)' <=> Has(u, x))
           /\ \A x : Has(t, x)' <=> x \in in_use'[t] \/ (at \in {"push", "link"} /\ x = o)
<1>1. /\ cache_step'[t] = [at |-> at, i |-> i, object |-> o]
      /\ \A u \in CacheThreads : u # t => cache_step'[u] = cache_step[u]
  BY DEF To, Goes, CacheTyped
<1>2. cache_step'[t].at = at /\ cache_step'[t].object = o
  BY <1>1
<1>3. ASSUME NEW u \in CacheThreads, NEW x, u # t PROVE Has(u, x)' <=> Has(u, x)
  BY <1>1, <1>3 DEF Has
<1>4. ASSUME NEW x PROVE Has(t, x)' <=> x \in in_use'[t] \/ (at \in {"push", "link"} /\ x = o)
  BY <1>2 DEF Has
<1> QED BY <1>3, <1>4

\* Neither the lists nor their owners change.
LEMMA ListsQuiet ==
    ASSUME CacheLists, UNCHANGED <<cache_head, header_next, allocated>>,
           \A t \in CacheThreads, o \in CacheObjects : Has(t, o)' <=> Has(t, o)
    PROVE  CacheLists'
<1>1. PICK F, N : Lists(F, N) /\ Places(F, N)
  BY DEF CacheLists
<1>2. Lists(F, N)'
  BY <1>1 DEF Lists
<1>3. Places(F, N)'
  BY <1>1 DEF Places
<1> QED BY <1>2, <1>3 DEF CacheLists

\* CacheSteps that neither link nor unlink nor allocate.
LEMMA ListsMoves ==
    ASSUME CacheBase, CacheLists, NEW t \in CacheThreads,
           \/ GetStart(t) \/ GetLock(t) \/ GetCount(t) \/ GetMiss(t) \/ GetUnlock(t)
           \/ GetCheck(t) \/ PushSpin(t) \/ PushLock(t) \/ PushCount(t)
    PROVE  CacheLists' /\ \A u \in CacheThreads, o \in CacheObjects : Has(u, o)' <=> Has(u, o)
<1> DEFINE s == cache_step[t]
<1>0. CacheTyped /\ CacheControl
  BY DEF CacheBase
<1>1. UNCHANGED <<cache_head, header_next, allocated, in_use>>
  BY DEF GetStart, GetLock, GetCount, GetMiss, GetUnlock, GetCheck, PushSpin, PushLock, PushCount
<1>2. PICK at, i, o : /\ To(t, at, i, o)
                      /\ at \in {"push", "link"} <=> s.at \in {"push", "link"}
                      /\ at \in {"push", "link"} => o = s.object
  <2>1. CASE GetStart(t) \/ GetCount(t) \/ GetMiss(t) \/ GetUnlock(t) \/ GetCheck(t)
    BY <1>0, <2>1, Moves
  <2>2. CASE GetLock(t)
    <3>1. s.at = "get" /\ To(t, "count", s.i, cache_head[s.i])
      BY <1>0, <2>2, Moves DEF GetLock
    <3> QED BY <3>1
  <2>3. CASE PushSpin(t) \/ PushLock(t) \/ PushCount(t)
    BY <1>0, <2>3, PushMoves
  <2> QED BY <2>1, <2>2, <2>3
<1>3. /\ \A u \in CacheThreads, x \in CacheObjects : u # t => (Has(u, x)' <=> Has(u, x))
      /\ \A x : Has(t, x)' <=> x \in in_use'[t] \/ (at \in {"push", "link"} /\ x = o)
  BY <1>0, <1>1, <1>2, HasAfter
<1>4. \A x : Has(t, x)' <=> Has(t, x)
  BY <1>1, <1>2, <1>3 DEF Has
<1>5. \A u \in CacheThreads, x \in CacheObjects : Has(u, x)' <=> Has(u, x)
  BY <1>3, <1>4
<1> QED BY <1>1, <1>5, ListsQuiet

\* The object goes from what the thread uses to what it pushes.
LEMMA ListsPushStart ==
    ASSUME CacheBase, CacheLists, NEW t \in CacheThreads, PushStart(t)
    PROVE  CacheLists' /\ \A u \in CacheThreads, o \in CacheObjects : Has(u, o)' <=> Has(u, o)
<1> DEFINE s == cache_step[t]
<1>0. CacheTyped /\ CacheControl
  BY DEF CacheBase
<1>1. UNCHANGED <<cache_head, header_next, allocated>>
  BY DEF PushStart
<1>2. PICK o \in in_use[t] : /\ s.at = "outside" /\ To(t, "push", next_index', o)
                             /\ in_use' = [in_use EXCEPT ![t] = @ \ {o}]
  BY <1>0, PushMoves
<1>3. in_use'[t] = in_use[t] \ {o} /\ \A u \in CacheThreads : u # t => in_use'[u] = in_use[u]
  BY <1>0, <1>2 DEF CacheTyped
<1>4. /\ \A u \in CacheThreads, x \in CacheObjects : u # t => (Has(u, x)' <=> Has(u, x))
      /\ \A x : Has(t, x)' <=> x \in in_use'[t] \/ ("push" \in {"push", "link"} /\ x = o)
  BY <1>0, <1>2, <1>3, HasAfter
<1>5. \A x : Has(t, x)' <=> Has(t, x)
  BY <1>2, <1>3, <1>4 DEF Has
<1>6. \A u \in CacheThreads, x \in CacheObjects : Has(u, x)' <=> Has(u, x)
  BY <1>4, <1>5
<1> QED BY <1>1, <1>6, ListsQuiet

\* What the thread owns is one object more, that nobody had.
Gains(t, d) ==
    /\ \A u \in CacheThreads, o \in CacheObjects : u # t => (Has(u, o)' <=> Has(u, o))
    /\ \A o \in CacheObjects : Has(t, o)' <=> Has(t, o) \/ o = d
    /\ \A u \in CacheThreads : ~ Has(u, d)

Loses(t, d) ==
    /\ \A u \in CacheThreads, o \in CacheObjects : u # t => (Has(u, o)' <=> Has(u, o))
    /\ \A o \in CacheObjects : Has(t, o)' <=> Has(t, o) /\ o # d
    /\ Has(t, d)

\* malloc() provides an object that was nowhere.
LEMMA ListsMalloc ==
    ASSUME CacheBase, CacheLists, NEW t \in CacheThreads, GetMalloc(t)
    PROVE  /\ CacheLists' /\ allocated' \in CacheObjects /\ allocated' = allocated + 1
           /\ Gains(t, allocated')
<1> DEFINE s == cache_step[t]
<1>0. CacheTyped /\ CacheControl
  BY DEF CacheBase
<1>1. s.at = "malloc" /\ To(t, "outside", 0, NoObject)
  BY <1>0, Moves
<1>2. /\ allocated \in Nat /\ allocated' = allocated + 1 /\ allocated' \in 1 .. MemoryLimit
      /\ in_use' = [in_use EXCEPT ![t] = @ \cup {allocated'}]
      /\ UNCHANGED <<cache_head, header_next>>
  BY <1>0, CacheConstants DEF GetMalloc, CacheTyped
<1>3. PICK d \in CacheObjects : d = allocated'
  BY <1>2 DEF CacheObjects
<1>4. in_use'[t] = in_use[t] \cup {d} /\ \A u \in CacheThreads : u # t => in_use'[u] = in_use[u]
  BY <1>0, <1>2, <1>3 DEF CacheTyped
<1>5. /\ \A u \in CacheThreads, x \in CacheObjects : u # t => (Has(u, x)' <=> Has(u, x))
      /\ \A x : Has(t, x)' <=> x \in in_use'[t] \/ ("outside" \in {"push", "link"} /\ x = NoObject)
  BY <1>0, <1>1, <1>4, HasAfter
<1>6. \A x : Has(t, x)' <=> Has(t, x) \/ x = d
  BY <1>1, <1>4, <1>5 DEF Has
<1>7. PICK F, N : Lists(F, N) /\ Places(F, N)
  BY DEF CacheLists
<1>8. ~ d <= allocated
  BY <1>2, <1>3
<1>9. (\A i \in Heads : ~ On(F[i], N[i], d)) /\ (\A u \in CacheThreads : ~ Has(u, d))
  BY <1>7, <1>8 DEF Places
<1>10. Gains(t, d)
  BY <1>5, <1>6, <1>9 DEF Gains
<1>11. Lists(F, N)'
  BY <1>2, <1>7 DEF Lists
<1>12. Places(F, N)'
  <2>1. ASSUME NEW u \in CacheThreads, NEW v \in CacheThreads, NEW o \in CacheObjects,
               Has(u, o)', Has(v, o)'
        PROVE  u = v
    BY <1>7, <1>10, <2>1 DEF Gains, Places
  <2>2. ASSUME NEW i \in Heads, NEW u \in CacheThreads, NEW o \in CacheObjects
        PROVE  ~ (On(F[i], N[i], o) /\ Has(u, o)')
    BY <1>7, <1>9, <1>10 DEF Gains, Places
  <2>3. ASSUME NEW o \in CacheObjects
        PROVE  o <= allocated' <=> \/ \E i \in Heads : On(F[i], N[i], o)
                                   \/ \E u \in CacheThreads : Has(u, o)'
    <3>1. o <= allocated' <=> o <= allocated \/ o = d
      <4>1. o \in Nat
        BY DEF CacheObjects
      <4> QED BY <1>2, <1>3, <4>1
    <3>2. (\E u \in CacheThreads : Has(u, o)') <=> (\E u \in CacheThreads : Has(u, o)) \/ o = d
      BY <1>10 DEF Gains
    <3> QED BY <1>7, <3>1, <3>2 DEF Places
  <2> QED BY <2>1, <2>2, <2>3 DEF Places
<1> QED BY <1>2, <1>3, <1>10, <1>11, <1>12 DEF CacheLists

\* The first object of a list goes to the thread that has the spinlock.
LEMMA ListsUnlink ==
    ASSUME CacheBase, CacheLists, NEW t \in CacheThreads, GetUnlink(t)
    PROVE  /\ CacheLists' /\ cache_step[t].object \in CacheObjects
           /\ cache_step[t].object <= allocated /\ allocated' = allocated
           /\ Gains(t, cache_step[t].object)
<1> DEFINE s == cache_step[t]
<1>0. CacheTyped /\ CacheControl
  BY DEF CacheBase
<1>1. s.at = "unlink" /\ To(t, "outside", 0, NoObject) /\ s.i \in Heads
  BY <1>0, Moves, HeldNow
<1>2. PICK d \in CacheObjects : d = s.object /\ d = cache_head[s.i]
  <2>1. s.object = cache_head[s.i] /\ s.object # NoObject
    BY <1>0, <1>1 DEF CacheControl, StepFits
  <2>2. cache_head[s.i] \in CacheObjects \cup {NoObject}
    BY <1>0, <1>1 DEF CacheTyped
  <2> QED BY <2>1, <2>2
<1>3. /\ cache_head' = [cache_head EXCEPT ![s.i] = header_next[d]]
      /\ header_next' = [header_next EXCEPT ![d] = NoObject]
      /\ in_use' = [in_use EXCEPT ![t] = @ \cup {d}]
      /\ allocated' = allocated
  BY <1>2 DEF GetUnlink
<1>4. in_use'[t] = in_use[t] \cup {d} /\ \A u \in CacheThreads : u # t => in_use'[u] = in_use[u]
  BY <1>0, <1>3 DEF CacheTyped
<1>5. /\ \A u \in CacheThreads, x \in CacheObjects : u # t => (Has(u, x)' <=> Has(u, x))
      /\ \A x : Has(t, x)' <=> x \in in_use'[t] \/ ("outside" \in {"push", "link"} /\ x = NoObject)
  BY <1>0, <1>1, <1>4, HasAfter
<1>6. \A x : Has(t, x)' <=> Has(t, x) \/ x = d
  BY <1>1, <1>4, <1>5 DEF Has
<1>7. PICK F, N : Lists(F, N) /\ Places(F, N)
  BY DEF CacheLists
<1>8. PICK h \in Heads : h = s.i
  BY <1>1
<1>9. Chain(header_next, F[h], N[h]) /\ d = F[h][N[h]]
  BY <1>2, <1>7, <1>8 DEF Lists
<1>10. N[h] # 0
  <2>1. d # NoObject
    BY CacheAssumption
  <2> QED BY <1>9, <2>1, ChainEnds
<1>11. \A e \in CacheObjects : e # d => header_next'[e] = header_next[e]
  BY <1>0, <1>3 DEF CacheTyped
<1>12. PICK m \in Nat : m = N[h] - 1
  BY <1>9, <1>10, ChainPop
<1>13. /\ Chain(header_next', F[h], m) /\ header_next[d] = F[h][m]
       /\ On(F[h], N[h], d) /\ ~ On(F[h], m, d)
       /\ \A e : On(F[h], N[h], e) <=> On(F[h], m, e) \/ e = d
  <2>1. /\ Chain(header_next, F[h], m) /\ header_next[d] = F[h][m]
        /\ On(F[h], N[h], d) /\ ~ On(F[h], m, d)
        /\ \A e : On(F[h], N[h], e) <=> On(F[h], m, e) \/ e = d
    <3>1. PICK f, n, nx : f = F[h] /\ n = N[h] /\ nx = header_next
      OBVIOUS
    <3>2. Chain(nx, f, n) /\ n # 0
      BY <1>9, <1>10, <3>1
    <3>3. /\ Chain(nx, f, n - 1) /\ nx[f[n]] = f[n - 1]
          /\ On(f, n, f[n]) /\ ~ On(f, n - 1, f[n])
      BY <3>2, ChainPop
    <3>4. \A e : On(f, n, e) <=> On(f, n - 1, e) \/ e = f[n]
      BY <3>2, ChainPop
    <3>5. d = f[n] /\ m = n - 1
      BY <1>9, <1>12, <3>1
    <3> QED BY <3>1, <3>3, <3>4, <3>5
  <2>2. Chain(header_next', F[h], m)
    BY <1>11, <2>1, ChainOff
  <2> QED BY <2>1, <2>2
<1>14. d <= allocated /\ (\A u \in CacheThreads : ~ Has(u, d))
       /\ \A i \in Heads : On(F[i], N[i], d) => i = h
  BY <1>7, <1>13 DEF Places, Lists
<1>15. Gains(t, d)
  BY <1>5, <1>6, <1>14 DEF Gains
<1> DEFINE M == [i \in Heads |-> IF i = h THEN m ELSE N[i]]
<1>16. M[h] = m /\ \A i \in Heads : i # h => M[i] = N[i]
  OBVIOUS
<1>17. \A i \in Heads : \A o : On(F[i], M[i], o) <=> On(F[i], N[i], o) /\ o # d
  BY <1>13, <1>14, <1>16
<1> HIDE DEF M
<1>18. Lists(F, M)'
  <2>1. ASSUME NEW i \in Heads
        PROVE  Chain(header_next', F[i], M[i]) /\ cache_head'[i] = F[i][M[i]]
    <3>1. CASE i = h
      <4>1. cache_head'[i] = header_next[d]
        BY <1>0, <1>3, <1>8, <3>1 DEF CacheTyped
      <4> QED BY <1>13, <1>16, <3>1, <4>1
    <3>2. CASE i # h
      <4>1. Chain(header_next, F[i], N[i]) /\ cache_head[i] = F[i][N[i]] /\ ~ On(F[i], N[i], d)
        BY <1>7, <1>14, <3>2 DEF Lists
      <4>2. Chain(header_next', F[i], N[i])
        BY <1>11, <4>1, ChainOff
      <4>3. cache_head'[i] = cache_head[i]
        BY <1>0, <1>3, <1>8, <3>2 DEF CacheTyped
      <4> QED BY <1>16, <3>2, <4>1, <4>2, <4>3
    <3> QED BY <3>1, <3>2
  <2>2. \A i, j \in Heads, o \in CacheObjects : On(F[i], M[i], o) /\ On(F[j], M[j], o) => i = j
    BY <1>7, <1>17 DEF Lists
  <2> QED BY <2>1, <2>2 DEF Lists
<1>19. Places(F, M)'
  <2>1. ASSUME NEW u \in CacheThreads, NEW v \in CacheThreads, NEW o \in CacheObjects,
               Has(u, o)', Has(v, o)'
        PROVE  u = v
    BY <1>7, <1>15, <2>1 DEF Gains, Places
  <2>2. ASSUME NEW i \in Heads, NEW u \in CacheThreads, NEW o \in CacheObjects
        PROVE  ~ (On(F[i], M[i], o) /\ Has(u, o)')
    BY <1>7, <1>15, <1>17 DEF Gains, Places
  <2>3. ASSUME NEW o \in CacheObjects
        PROVE  o <= allocated' <=> \/ \E i \in Heads : On(F[i], M[i], o)
                                   \/ \E u \in CacheThreads : Has(u, o)'
    <3>1. (\E u \in CacheThreads : Has(u, o)') <=> (\E u \in CacheThreads : Has(u, o)) \/ o = d
      BY <1>15 DEF Gains
    <3>2. (\E i \in Heads : On(F[i], M[i], o)) <=> (\E i \in Heads : On(F[i], N[i], o)) /\ o # d
      BY <1>17
    <3> QED BY <1>3, <1>7, <1>14, <3>1, <3>2 DEF Places
  <2> QED BY <2>1, <2>2, <2>3 DEF Places
<1> QED BY <1>2, <1>3, <1>14, <1>15, <1>18, <1>19 DEF CacheLists

\* An object goes to the front of the list whose spinlock the thread has.
LEMMA ListsLink ==
    ASSUME CacheBase, CacheLists, NEW t \in CacheThreads, PushLink(t)
    PROVE  /\ CacheLists' /\ cache_step[t].object \in CacheObjects
           /\ cache_step[t].object <= allocated /\ allocated' = allocated
           /\ Loses(t, cache_step[t].object)
<1> DEFINE s == cache_step[t]
<1>0. CacheTyped /\ CacheControl
  BY DEF CacheBase
<1>1. s.at = "link" /\ To(t, "linked", s.i, s.object) /\ s.i \in Heads
  BY <1>0, PushMoves, HeldNow
<1>2. PICK d \in CacheObjects : d = s.object
  <2>1. s.object # NoObject /\ s \in CacheStep
    BY <1>0, <1>1, HeldNow DEF CacheControl, StepFits
  <2> QED BY <2>1 DEF CacheStep
<1>3. /\ cache_head' = [cache_head EXCEPT ![s.i] = d]
      /\ header_next' = [header_next EXCEPT ![d] = cache_head[s.i]]
      /\ UNCHANGED <<in_use, allocated>>
  BY <1>2 DEF PushLink
<1>5. /\ \A u \in CacheThreads, x \in CacheObjects : u # t => (Has(u, x)' <=> Has(u, x))
      /\ \A x : Has(t, x)' <=> x \in in_use'[t] \/ ("linked" \in {"push", "link"} /\ x = s.object)
  BY <1>0, <1>1, <1>3, HasAfter
<1>6. Has(t, d) /\ \A x : Has(t, x) <=> x \in in_use[t] \/ x = d
  BY <1>1, <1>2 DEF Has
<1>7. d \notin in_use[t]
  BY <1>0, <1>1, <1>2 DEF CacheControl, StepFits
<1>8. \A x : Has(t, x)' <=> Has(t, x) /\ x # d
  BY <1>3, <1>5, <1>6, <1>7
<1>9. Loses(t, d)
  BY <1>5, <1>6, <1>8 DEF Loses
<1>10. PICK F, N : Lists(F, N) /\ Places(F, N)
  BY DEF CacheLists
<1>11. PICK h \in Heads : h = s.i
  BY <1>1
<1>12. d <= allocated /\ \A i \in Heads : ~ On(F[i], N[i], d)
  BY <1>6, <1>10 DEF Places
<1>13. \A e \in CacheObjects : e # d => header_next'[e] = header_next[e]
  BY <1>0, <1>3 DEF CacheTyped
<1>14. \A i \in Heads : Chain(header_next', F[i], N[i])
  BY <1>10, <1>12, <1>13, ChainOff DEF Lists
<1>15. header_next'[d] = F[h][N[h]]
  BY <1>0, <1>3, <1>10, <1>11 DEF CacheTyped, Lists
<1>16. PICK f2 : /\ Chain(header_next', f2, N[h] + 1) /\ f2[N[h] + 1] = d
                 /\ \A e : On(f2, N[h] + 1, e) <=> On(F[h], N[h], e) \/ e = d
  BY <1>12, <1>14, <1>15, ChainPush
<1> DEFINE F2 == [i \in Heads |-> IF i = h THEN f2 ELSE F[i]]
           M == [i \in Heads |-> IF i = h THEN N[h] + 1 ELSE N[i]]
<1>17. F2[h] = f2 /\ M[h] = N[h] + 1 /\ \A i \in Heads : i # h => F2[i] = F[i] /\ M[i] = N[i]
  OBVIOUS
<1> HIDE DEF F2, M
<1>18. \A i \in Heads : \A o : On(F2[i], M[i], o) <=> On(F[i], N[i], o) \/ (i = h /\ o = d)
  BY <1>16, <1>17
<1>19. Lists(F2, M)'
  <2>1. ASSUME NEW i \in Heads
        PROVE  Chain(header_next', F2[i], M[i]) /\ cache_head'[i] = F2[i][M[i]]
    <3>1. CASE i = h
      <4>1. cache_head'[i] = d
        BY <1>0, <1>3, <1>11, <3>1 DEF CacheTyped
      <4> QED BY <1>16, <1>17, <3>1, <4>1
    <3>2. CASE i # h
      <4>1. Chain(header_next', F[i], N[i]) /\ cache_head[i] = F[i][N[i]]
        BY <1>10, <1>14 DEF Lists
      <4>2. cache_head'[i] = cache_head[i]
        BY <1>0, <1>3, <1>11, <3>2 DEF CacheTyped
      <4> QED BY <1>17, <3>2, <4>1, <4>2
    <3> QED BY <3>1, <3>2
  <2>2. \A i, j \in Heads, o \in CacheObjects : On(F2[i], M[i], o) /\ On(F2[j], M[j], o) => i = j
    BY <1>10, <1>12, <1>18 DEF Lists
  <2> QED BY <2>1, <2>2 DEF Lists
<1>20. Places(F2, M)'
  <2>1. ASSUME NEW u \in CacheThreads, NEW v \in CacheThreads, NEW o \in CacheObjects,
               Has(u, o)', Has(v, o)'
        PROVE  u = v
    BY <1>9, <1>10, <2>1 DEF Loses, Places
  <2>2. ASSUME NEW i \in Heads, NEW u \in CacheThreads, NEW o \in CacheObjects,
               On(F2[i], M[i], o), Has(u, o)'
        PROVE  FALSE
    <3>1. Has(u, o) /\ (u = t => o # d)
      BY <1>9, <2>2 DEF Loses
    <3>2. o # d
      BY <1>6, <1>10, <3>1 DEF Places
    <3> QED BY <1>10, <1>18, <2>2, <3>1, <3>2 DEF Places
  <2>3. ASSUME NEW o \in CacheObjects
        PROVE  o <= allocated' <=> \/ \E i \in Heads : On(F2[i], M[i], o)
                                   \/ \E u \in CacheThreads : Has(u, o)'
    <3>1. CASE o = d
      <4>1. On(F2[h], M[h], o)
        BY <1>18, <3>1
      <4> QED BY <1>3, <1>12, <3>1, <4>1
    <3>2. CASE o # d
      <4>1. \A u \in CacheThreads : Has(u, o)' <=> Has(u, o)
        BY <1>9, <3>2 DEF Loses
      <4>2. \A i \in Heads : On(F2[i], M[i], o) <=> On(F[i], N[i], o)
        BY <1>18, <3>2
      <4> QED BY <1>3, <1>10, <4>1, <4>2 DEF Places
    <3> QED BY <3>1, <3>2
  <2> QED BY <2>1, <2>2, <2>3 DEF Places
<1> QED BY <1>2, <1>3, <1>9, <1>12, <1>19, <1>20 DEF CacheLists

LEMMA ListsStart == CacheInit => CacheLists
<1> SUFFICES ASSUME CacheInit PROVE CacheLists
  OBVIOUS
<1>1. PICK f : \A nx : Chain(nx, f, 0) /\ f[0] = NoObject
  BY ChainEmpty
<1> DEFINE F == [i \in Heads |-> f]
           N == [i \in Heads |-> 0]
<1>2. \A i \in Heads : F[i] = f /\ N[i] = 0
  OBVIOUS
<1> HIDE DEF F, N
<1>3. \A i \in Heads : \A o : ~ On(F[i], N[i], o)
  BY <1>2 DEF On
<1>4. \A i \in Heads : cache_head[i] = NoObject
  BY DEF CacheInit
<1>5. Lists(F, N)
  BY <1>1, <1>2, <1>3, <1>4 DEF Lists
<1>6. \A t \in CacheThreads, o \in CacheObjects : ~ Has(t, o)
  BY DEF CacheInit, Has, OutsideCache
<1>7. \A o \in CacheObjects : ~ o <= allocated
  BY DEF CacheInit, CacheObjects
<1>8. Places(F, N)
  BY <1>3, <1>6, <1>7 DEF Places
<1> QED BY <1>5, <1>8 DEF CacheLists

LEMMA ListsSteps == CacheBase /\ CacheLists /\ [CacheNext]_cacheVars => CacheLists'
<1> SUFFICES ASSUME CacheBase, CacheLists, [CacheNext]_cacheVars PROVE CacheLists'
  OBVIOUS
<1>1. CASE CacheNext
  BY <1>1, ListsMoves, ListsPushStart, ListsMalloc, ListsUnlink, ListsLink DEF CacheNext
<1>2. CASE UNCHANGED cacheVars
  <2>1. \A t \in CacheThreads, o \in CacheObjects : Has(t, o)' <=> Has(t, o)
    BY <1>2 DEF cacheVars, Has
  <2>2. UNCHANGED <<cache_head, header_next, allocated>>
    BY <1>2 DEF cacheVars
  <2> QED BY <2>1, <2>2, ListsQuiet
<1> QED BY <1>1, <1>2

----------------------------------------------------------------------------
(* free_count.                                                             *)

\* The objects that are in a list.
Cached == {o \in CacheObjects : o <= allocated /\ \A t \in CacheThreads : ~ Has(t, o)}

At(step) == {t \in CacheThreads : cache_step[t].at = step}

\* What free_count is when the steps that are under way are counted: it wraps
\* below zero when objects are counted down before they were counted up.
Free == Cardinality(Cached) - Cardinality(At("linked")) - Cardinality(At("unlink"))

CountFits == free_count = IF Free >= 0 THEN Free ELSE Free + CountRange

LEMMA ModSmall ==
    ASSUME NEW n \in Int, NEW k \in Nat \ {0}, -k <= n, n < k
    PROVE  n % k = IF n >= 0 THEN n ELSE n + k
<1>1. CASE n >= 0
  BY <1>1
<1>2. CASE n < 0
  BY <1>2
<1> QED BY <1>1, <1>2

\* What changes in the threads that are at a step.
LEMMA AtAfter ==
    ASSUME CacheTyped, NEW t \in CacheThreads, NEW at, NEW i, NEW o, To(t, at, i, o), NEW step
    PROVE  /\ Cardinality(At(step)) \in Nat /\ Cardinality(At(step)') \in Nat
           /\ at # step /\ cache_step[t].at # step => Cardinality(At(step)') = Cardinality(At(step))
           /\ at = step /\ cache_step[t].at # step => Cardinality(At(step)') = Cardinality(At(step)) + 1
           /\ at # step /\ cache_step[t].at = step => Cardinality(At(step)') = Cardinality(At(step)) - 1
<1> DEFINE A == At(step)
<1>1. /\ cache_step'[t] = [at |-> at, i |-> i, object |-> o]
      /\ \A u \in CacheThreads : u # t => cache_step'[u] = cache_step[u]
  BY DEF To, Goes, CacheTyped
<1>2. cache_step'[t].at = at
  BY <1>1
<1>3. IsFiniteSet(A) /\ Cardinality(A) \in Nat
  <2>1. A \in SUBSET CacheThreads
    BY DEF At
  <2> QED BY <2>1, CacheConstants, FS_Subset, FS_CardinalityType
<1>4. t \in A <=> cache_step[t].at = step
  BY DEF At
<1>5. A' = IF at = step THEN A \cup {t} ELSE A \ {t}
  BY <1>1, <1>2 DEF At
<1> HIDE DEF A
<1>6. /\ Cardinality(A \cup {t}) = IF t \in A THEN Cardinality(A) ELSE Cardinality(A) + 1
      /\ Cardinality(A \ {t}) = IF t \in A THEN Cardinality(A) - 1 ELSE Cardinality(A)
      /\ IsFiniteSet(A \cup {t}) /\ IsFiniteSet(A \ {t})
  BY <1>3, FS_AddElement, FS_RemoveElement
<1>7. Cardinality(A') \in Nat
  <2>1. IsFiniteSet(A')
    BY <1>5, <1>6
  <2> QED BY <2>1, FS_CardinalityType
<1>8. /\ at # step /\ cache_step[t].at # step => Cardinality(A') = Cardinality(A)
      /\ at = step /\ cache_step[t].at # step => Cardinality(A') = Cardinality(A) + 1
      /\ at # step /\ cache_step[t].at = step => Cardinality(A') = Cardinality(A) - 1
  BY <1>4, <1>5, <1>6
<1> QED BY <1>3, <1>7, <1>8 DEF A

LEMMA CachedCounts ==
    /\ IsFiniteSet(Cached) /\ Cardinality(Cached) \in 0 .. MemoryLimit
<1>1. Cached \in SUBSET CacheObjects
  BY DEF Cached
<1>2. IsFiniteSet(CacheObjects) /\ Cardinality(CacheObjects) = MemoryLimit
  BY CacheConstants, FS_Interval DEF CacheObjects
<1>3. IsFiniteSet(Cached) /\ Cardinality(Cached) <= MemoryLimit
  BY <1>1, <1>2, FS_Subset
<1> QED BY <1>3, FS_CardinalityType, CacheConstants

\* The count wraps at most once.
LEMMA CountBounds ==
    ASSUME NEW C \in SUBSET CacheObjects, NEW L \in SUBSET CacheThreads,
           NEW U \in SUBSET CacheThreads, L \cap U = {}
    PROVE  LET x == Cardinality(C) - Cardinality(L) - Cardinality(U) IN
           /\ x \in Int /\ -CountRange < x /\ x < CountRange
           /\ Cardinality(C) \in Nat /\ Cardinality(L) \in Nat /\ Cardinality(U) \in Nat
<1>1. L \cup U \in SUBSET CacheThreads
  OBVIOUS
<1>2. IsFiniteSet(CacheThreads) /\ IsFiniteSet(CacheObjects) /\ Cardinality(CacheObjects) = MemoryLimit
  BY CacheConstants, FS_Interval DEF CacheObjects
<1>3. /\ IsFiniteSet(L) /\ IsFiniteSet(U) /\ IsFiniteSet(C) /\ Cardinality(C) <= MemoryLimit
      /\ Cardinality(L \cup U) <= Cardinality(CacheThreads)
  BY <1>1, <1>2, FS_Subset
<1>4. /\ Cardinality(L) \in Nat /\ Cardinality(U) \in Nat /\ Cardinality(CacheThreads) \in Nat
      /\ Cardinality(C) \in Nat
  BY <1>2, <1>3, FS_CardinalityType
<1>5. Cardinality(L \cup U) = Cardinality(L) + Cardinality(U)
  BY <1>3, <1>4, FS_Union, FS_EmptySet
<1>6. CountRange > MemoryLimit + HeadCount + Cardinality(CacheThreads)
      /\ CountRange \in Nat /\ HeadCount \in Nat /\ MemoryLimit \in Nat
  BY CacheAssumption
<1> QED BY <1>3, <1>4, <1>5, <1>6

LEMMA FreeBounds ==
    /\ Free \in Int /\ -CountRange < Free /\ Free < CountRange
    /\ Cardinality(At("linked")) \in Nat /\ Cardinality(At("unlink")) \in Nat
<1>1. /\ At("linked") \in SUBSET CacheThreads /\ At("unlink") \in SUBSET CacheThreads
      /\ At("linked") \cap At("unlink") = {} /\ Cached \in SUBSET CacheObjects
  BY DEF At, Cached
<1> QED BY <1>1, CountBounds DEF Free

LEMMA FreeBoundsNext == Free' \in Int /\ -CountRange < Free' /\ Free' < CountRange
<1>1. /\ At("linked")' \in SUBSET CacheThreads /\ At("unlink")' \in SUBSET CacheThreads
      /\ At("linked")' \cap At("unlink")' = {} /\ Cached' \in SUBSET CacheObjects
  BY DEF At, Cached
<1> QED BY <1>1, CountBounds DEF Free

LEMMA CachedGained ==
    ASSUME NEW t \in CacheThreads, NEW d \in CacheObjects, d <= allocated, allocated' = allocated,
           Gains(t, d)
    PROVE  Cardinality(Cached') = Cardinality(Cached) - 1
<1>1. d \in Cached /\ Cached' = Cached \ {d}
  BY DEF Gains, Cached
<1> QED BY <1>1, CachedCounts, FS_RemoveElement

LEMMA CachedLost ==
    ASSUME CacheLists, NEW t \in CacheThreads, NEW d \in CacheObjects, d <= allocated,
           allocated' = allocated, Loses(t, d)
    PROVE  Cardinality(Cached') = Cardinality(Cached) + 1
<1>1. \A u \in CacheThreads : Has(u, d) => u = t
  BY DEF Loses, CacheLists, Places
<1>2. d \notin Cached /\ Cached' = Cached \cup {d}
  BY <1>1 DEF Loses, Cached
<1> QED BY <1>2, CachedCounts, FS_AddElement

LEMMA CachedKept ==
    ASSUME allocated' = allocated,
           \A u \in CacheThreads, o \in CacheObjects : Has(u, o)' <=> Has(u, o)
    PROVE  Cached' = Cached
BY DEF Cached

LEMMA CachedAllocated ==
    ASSUME CacheTyped, NEW t \in CacheThreads, allocated' = allocated + 1, Gains(t, allocated')
    PROVE  Cached' = Cached
<1>0. allocated \in Nat /\ CacheObjects \subseteq Nat
  BY CacheConstants DEF CacheTyped, CacheObjects
<1>1. \A o \in CacheObjects : o <= allocated' <=> o <= allocated \/ o = allocated'
  BY <1>0
<1>2. \A o \in CacheObjects : o <= allocated => o # allocated'
  BY <1>0
<1> QED BY <1>1, <1>2 DEF Gains, Cached

\* One step of the count, down or up.
LEMMA CountDown ==
    ASSUME NEW x \in Int, NEW r \in Nat \ {0}, -r < x - 1, x < r,
           NEW f, f = IF x >= 0 THEN x ELSE x + r
    PROVE  (f - 1) % r = IF x - 1 >= 0 THEN x - 1 ELSE x - 1 + r
<1>1. PICK n \in Int : n = f - 1 /\ -r <= n /\ n < r
  OBVIOUS
<1>2. n % r = IF n >= 0 THEN n ELSE n + r
  BY <1>1, ModSmall
<1> QED BY <1>1, <1>2

LEMMA CountUp ==
    ASSUME NEW x \in Int, NEW r \in Nat \ {0}, -r < x, x + 1 < r,
           NEW f, f = IF x >= 0 THEN x ELSE x + r
    PROVE  (f + 1) % r = IF x + 1 >= 0 THEN x + 1 ELSE x + 1 + r
<1>1. CASE f + 1 < r
  BY <1>1
<1>2. CASE f + 1 = r
  <2>1. r % r = 0
    OBVIOUS
  <2> QED BY <1>2, <2>1
<1> QED BY <1>1, <1>2

\* A step that leaves what is counted as it is.
LEMMA CountQuiet ==
    ASSUME CountFits, free_count' = free_count, Free' = Free
    PROVE  CountFits'
BY DEF CountFits

LEMMA CountMoves ==
    ASSUME CacheBase, CacheLists, CountFits, NEW t \in CacheThreads, CacheBase',
           \/ GetStart(t) \/ GetLock(t) \/ GetMiss(t) \/ GetUnlock(t) \/ GetCheck(t) \/ GetMalloc(t)
           \/ PushStart(t) \/ PushSpin(t) \/ PushLock(t)
    PROVE  CountFits'
<1> DEFINE s == cache_step[t]
<1>0. CacheTyped /\ CacheControl
  BY DEF CacheBase
<1>1. free_count' = free_count
  BY DEF GetStart, GetLock, GetMiss, GetUnlock, GetCheck, GetMalloc, PushStart, PushSpin, PushLock,
         TakeIndex
<1>2. Cached' = Cached
  <2>1. CASE GetMalloc(t)
    BY <1>0, <2>1, ListsMalloc, CachedAllocated
  <2>2. CASE PushStart(t)
    <3>1. allocated' = allocated
      BY <2>2 DEF PushStart
    <3> QED BY <2>2, <3>1, ListsPushStart, CachedKept
  <2>3. CASE \/ GetStart(t) \/ GetLock(t) \/ GetMiss(t) \/ GetUnlock(t) \/ GetCheck(t)
             \/ PushSpin(t) \/ PushLock(t)
    <3>1. allocated' = allocated
      BY <2>3 DEF GetStart, GetLock, GetMiss, GetUnlock, GetCheck, PushSpin, PushLock, TakeIndex
    <3> QED BY <2>3, <3>1, ListsMoves, CachedKept
  <2> QED BY <2>1, <2>2, <2>3
<1>3. PICK at, i, o : /\ To(t, at, i, o) /\ at \notin {"linked", "unlink"}
                      /\ s.at \notin {"linked", "unlink"}
  <2>1. CASE GetStart(t) \/ GetMiss(t) \/ GetUnlock(t) \/ GetCheck(t) \/ GetMalloc(t)
    BY <1>0, <2>1, Moves
  <2>2. CASE GetLock(t)
    <3>1. s.at = "get" /\ To(t, "count", s.i, cache_head[s.i])
      BY <1>0, <2>2, Moves DEF GetLock
    <3> QED BY <3>1
  <2>3. CASE PushStart(t) \/ PushSpin(t) \/ PushLock(t)
    BY <1>0, <2>3, PushMoves
  <2> QED BY <2>1, <2>2, <2>3
<1>4. /\ Cardinality(At("linked")') = Cardinality(At("linked"))
      /\ Cardinality(At("unlink")') = Cardinality(At("unlink"))
  BY <1>0, <1>3, AtAfter
<1>5. Free' = Free
  BY <1>2, <1>4 DEF Free
<1> QED BY <1>1, <1>5, CountQuiet

LEMMA CountCounts ==
    ASSUME CacheBase, CacheLists, CountFits, NEW t \in CacheThreads, CacheBase',
           GetCount(t) \/ PushCount(t)
    PROVE  CountFits'
<1> DEFINE s == cache_step[t]
<1>0. CacheTyped /\ CacheControl
  BY DEF CacheBase
<1>1. allocated' = allocated
  BY DEF GetCount, PushCount
<1>2. Cached' = Cached
  BY <1>1, ListsMoves, CachedKept
<1>3. PICK c, l, u \in Int : /\ c = Cardinality(Cached) /\ l = Cardinality(At("linked"))
                             /\ u = Cardinality(At("unlink"))
  BY CachedCounts, FreeBounds
<1>4. Free = c - l - u /\ -CountRange < Free /\ Free < CountRange /\ CountRange \in Nat \ {0}
  BY <1>3, FreeBounds, CacheConstants DEF Free
<1>5. -CountRange < Free' /\ Free' < CountRange /\ Free' \in Int
  BY FreeBoundsNext
<1>6. CASE GetCount(t)
  <2>1. s.at = "count" /\ To(t, "unlink", s.i, s.object) /\ free_count' = (free_count - 1) % CountRange
    BY <1>0, <1>6, Moves DEF GetCount
  <2>2. Cardinality(At("linked")') = l /\ Cardinality(At("unlink")') = u + 1
    BY <1>0, <1>3, <2>1, AtAfter
  <2>3. Free' = Free - 1
    <3>1. Free' = c - l - (u + 1)
      BY <1>2, <1>3, <2>2 DEF Free
    <3> QED BY <1>3, <1>4, <3>1
  <2>4. PICK x, y \in Int : x = Free /\ y = Free'
    BY <1>5, FreeBounds
  <2>5. -CountRange < x - 1 /\ x < CountRange /\ y = x - 1
    BY <1>4, <1>5, <2>3, <2>4
  <2>6. (free_count - 1) % CountRange = IF x - 1 >= 0 THEN x - 1 ELSE x - 1 + CountRange
    <3>1. free_count = IF x >= 0 THEN x ELSE x + CountRange
      BY <2>4 DEF CountFits
    <3> QED BY <1>4, <2>5, <3>1, CountDown
  <2> QED BY <2>1, <2>4, <2>5, <2>6 DEF CountFits
<1>7. CASE PushCount(t)
  <2>1. s.at = "linked" /\ To(t, "outside", 0, NoObject) /\ free_count' = (free_count + 1) % CountRange
    BY <1>0, <1>7, PushMoves DEF PushCount
  <2>2. Cardinality(At("linked")') = l - 1 /\ Cardinality(At("unlink")') = u
    BY <1>0, <1>3, <2>1, AtAfter
  <2>3. Free' = Free + 1
    <3>1. Free' = c - (l - 1) - u
      BY <1>2, <1>3, <2>2 DEF Free
    <3> QED BY <1>3, <1>4, <3>1
  <2>4. PICK x, y \in Int : x = Free /\ y = Free'
    BY <1>5, FreeBounds
  <2>5. -CountRange < x /\ x + 1 < CountRange /\ y = x + 1
    BY <1>4, <1>5, <2>3, <2>4
  <2>6. (free_count + 1) % CountRange = IF x + 1 >= 0 THEN x + 1 ELSE x + 1 + CountRange
    <3>1. free_count = IF x >= 0 THEN x ELSE x + CountRange
      BY <2>4 DEF CountFits
    <3> QED BY <1>4, <2>5, <3>1, CountUp
  <2> QED BY <2>1, <2>4, <2>5, <2>6 DEF CountFits
<1> QED BY <1>6, <1>7

LEMMA CountLinks ==
    ASSUME CacheBase, CacheLists, CountFits, NEW t \in CacheThreads, CacheBase',
           GetUnlink(t) \/ PushLink(t)
    PROVE  CountFits'
<1> DEFINE s == cache_step[t]
<1>0. CacheTyped /\ CacheControl
  BY DEF CacheBase
<1>1. free_count' = free_count
  BY DEF GetUnlink, PushLink
<1>2. PICK c, l, u \in Int : /\ c = Cardinality(Cached) /\ l = Cardinality(At("linked"))
                             /\ u = Cardinality(At("unlink"))
  BY CachedCounts, FreeBounds
<1>3. Free = c - l - u
  BY <1>2 DEF Free
<1>4. CASE GetUnlink(t)
  <2>1. s.at = "unlink" /\ To(t, "outside", 0, NoObject)
    BY <1>0, <1>4, Moves
  <2>2. Cardinality(At("linked")') = l /\ Cardinality(At("unlink")') = u - 1
    BY <1>0, <1>2, <2>1, AtAfter
  <2>3. Cardinality(Cached') = c - 1
    BY <1>2, <1>4, ListsUnlink, CachedGained
  <2>4. Free' = (c - 1) - l - (u - 1)
    BY <2>2, <2>3 DEF Free
  <2>5. Free' = Free
    BY <1>2, <1>3, <2>4
  <2> QED BY <1>1, <2>5, CountQuiet
<1>5. CASE PushLink(t)
  <2>1. s.at = "link" /\ To(t, "linked", s.i, s.object)
    BY <1>0, <1>5, PushMoves
  <2>2. Cardinality(At("linked")') = l + 1 /\ Cardinality(At("unlink")') = u
    BY <1>0, <1>2, <2>1, AtAfter
  <2>3. Cardinality(Cached') = c + 1
    BY <1>2, <1>5, ListsLink, CachedLost
  <2>4. Free' = (c + 1) - (l + 1) - u
    BY <2>2, <2>3 DEF Free
  <2>5. Free' = Free
    BY <1>2, <1>3, <2>4
  <2> QED BY <1>1, <2>5, CountQuiet
<1> QED BY <1>4, <1>5

LEMMA CountStarts == CacheInit => CountFits
<1> SUFFICES ASSUME CacheInit PROVE CountFits
  OBVIOUS
<1>1. At("linked") = {} /\ At("unlink") = {} /\ Cached = {} /\ free_count = 0
  BY DEF At, Cached, CacheInit, OutsideCache, CacheObjects
<1> QED BY <1>1, FS_EmptySet DEF CountFits, Free

LEMMA CountSteps ==
    ASSUME CacheBase, CacheLists, CountFits, [CacheNext]_cacheVars
    PROVE  CountFits'
<1>0. CacheBase'
  BY BaseSteps
<1>1. CASE CacheNext
  BY <1>0, <1>1, CountMoves, CountCounts, CountLinks DEF CacheNext
<1>2. CASE UNCHANGED cacheVars
  <2>1. Cached' = Cached /\ At("linked")' = At("linked") /\ At("unlink")' = At("unlink")
    BY <1>2 DEF cacheVars, Cached, Has, At
  <2>2. free_count' = free_count
    BY <1>2 DEF cacheVars
  <2> QED BY <2>1, <2>2, CountQuiet DEF Free
<1> QED BY <1>1, <1>2

----------------------------------------------------------------------------
(* What was ever allocated: each thread holds at most MaxHeld objects, and *)
(* one less while it is at a step that the count does not see.             *)

LEMMA InjectionFits ==
    ASSUME NEW A, NEW B, IsFiniteSet(A), IsFiniteSet(B), NEW f \in [A -> B],
           \A a, b \in A : f[a] = f[b] => a = b
    PROVE  Cardinality(A) <= Cardinality(B)
<1>1. f \in Injection(A, B)
  BY DEF Injection, IsInjective
<1> QED BY <1>1, FS_Injection

\* A finite set can be numbered.
LEMMA Numbered ==
    ASSUME NEW A, IsFiniteSet(A), NEW k \in Nat, Cardinality(A) <= k
    PROVE  \E f \in [A -> 1 .. k] : \A a, b \in A : f[a] = f[b] => a = b
<1>1. PICK n \in Nat : n = Cardinality(A) /\ n <= k
  BY FS_CardinalityType
<1>2. PICK g \in Bijection(1 .. n, A) : TRUE
  BY <1>1, FS_CardinalityType DEF ExistsBijection
<1>3. g \in [1 .. n -> A] /\ \A a \in A : \E i \in 1 .. n : g[i] = a
  BY <1>2 DEF Bijection, Surjection
<1> DEFINE f == [a \in A |-> CHOOSE i \in 1 .. n : g[i] = a]
<1>4. \A a \in A : f[a] \in 1 .. n /\ g[f[a]] = a
  BY <1>3
<1>5. f \in [A -> 1 .. k]
  <2>1. \A i \in 1 .. n : i \in 1 .. k
    BY <1>1
  <2> QED BY <1>4, <2>1
<1> HIDE DEF f
<1> QED BY <1>4, <1>5

LEMMA UnionBound ==
    ASSUME NEW T, NEW A, IsFiniteSet(T), IsFiniteSet(A), NEW X \in [T -> SUBSET A], NEW k \in Nat,
           \A t \in T : Cardinality(X[t]) <= k
    PROVE  LET P == {p \in T \X A : p[2] \in X[p[1]]} IN
           IsFiniteSet(P) /\ Cardinality(P) <= Cardinality(T) * k
<1> DEFINE P == {p \in T \X A : p[2] \in X[p[1]]}
           g == [t \in T |-> CHOOSE f \in [X[t] -> 1 .. k] : \A a, b \in X[t] : f[a] = f[b] => a = b]
           h == [p \in P |-> <<p[1], g[p[1]][p[2]]>>]
<1>1. IsFiniteSet(P)
  <2>1. IsFiniteSet(T \X A)
    BY FS_Product
  <2> QED BY <2>1, FS_Subset
<1>2. IsFiniteSet(1 .. k) /\ Cardinality(1 .. k) = k
  BY FS_Interval
<1>3. IsFiniteSet(T \X (1 .. k)) /\ Cardinality(T \X (1 .. k)) = Cardinality(T) * k
  BY <1>2, FS_Product
<1>4. ASSUME NEW t \in T
      PROVE  g[t] \in [X[t] -> 1 .. k] /\ \A a, b \in X[t] : g[t][a] = g[t][b] => a = b
  <2>1. IsFiniteSet(X[t])
    BY FS_Subset
  <2>2. \E f \in [X[t] -> 1 .. k] : \A a, b \in X[t] : f[a] = f[b] => a = b
    BY <2>1, Numbered
  <2> QED BY <2>2
<1> HIDE DEF g
<1>5. ASSUME NEW p \in P
      PROVE  h[p] \in T \X (1 .. k) /\ h[p][1] = p[1] /\ h[p][2] = g[p[1]][p[2]]
             /\ p = <<p[1], p[2]>> /\ p[1] \in T /\ p[2] \in X[p[1]]
  <2>1. p[1] \in T /\ p[2] \in X[p[1]] /\ p = <<p[1], p[2]>>
    OBVIOUS
  <2> QED BY <1>4, <2>1
<1>6. h \in [P -> T \X (1 .. k)]
  BY <1>5
<1> HIDE DEF P, h
<1>7. ASSUME NEW p \in P, NEW q \in P, h[p] = h[q] PROVE p = q
  <2>1. p[1] = q[1] /\ g[p[1]][p[2]] = g[p[1]][q[2]] /\ q[2] \in X[p[1]]
    BY <1>5, <1>7
  <2>2. p[2] = q[2]
    BY <1>4, <1>5, <2>1
  <2> QED BY <1>5, <2>1, <2>2
<1>8. Cardinality(P) <= Cardinality(T \X (1 .. k))
  BY <1>1, <1>3, <1>6, <1>7, InjectionFits
<1> QED BY <1>1, <1>3, <1>8 DEF P

\* What a thread holds, with a place for what it has not counted yet.
Late == {"linked", "unlink", "malloc", "check"}

Holds(t) == {o \in CacheObjects : Has(t, o)} \cup {z \in {0} : cache_step[t].at \in Late}

LEMMA HoldsFew ==
    ASSUME CacheBase, NEW t \in CacheThreads
    PROVE  Holds(t) \in SUBSET (0 .. MemoryLimit) /\ Cardinality(Holds(t)) <= MaxHeld
<1> DEFINE s == cache_step[t]
           S == in_use[t]
<1>0. CacheTyped /\ CacheControl
  BY DEF CacheBase
<1>1. /\ S \in SUBSET CacheObjects /\ Cardinality(S) <= MaxHeld
      /\ s.at # "outside" => Cardinality(S) < MaxHeld
      /\ s.object \in CacheObjects \cup {NoObject}
  BY <1>0, HeldNow DEF CacheStep
<1>2. IsFiniteSet(S) /\ Cardinality(S) \in Nat /\ MaxHeld \in Nat
  BY <1>1, CacheConstants, FS_Subset, FS_CardinalityType
<1>3. CacheObjects \in SUBSET (0 .. MemoryLimit) /\ 0 \in 0 .. MemoryLimit
  BY CacheConstants DEF CacheObjects
<1>4. Holds(t) \in SUBSET (0 .. MemoryLimit)
  BY <1>3 DEF Holds
<1>5. CASE s.at \in Late
  <2>1. Holds(t) = S \cup {0}
    BY <1>1, <1>5 DEF Holds, Has, Late
  <2>2. Cardinality(S \cup {0}) <= Cardinality(S) + 1
    BY <1>2, FS_AddElement
  <2>3. Cardinality(S) < MaxHeld
    BY <1>1, <1>5 DEF Late
  <2>4. IsFiniteSet(S \cup {0})
    BY <1>2, FS_AddElement
  <2>5. Cardinality(S \cup {0}) \in Nat
    BY <2>4, FS_CardinalityType
  <2> QED BY <1>2, <1>4, <2>1, <2>2, <2>3, <2>5
<1>6. CASE s.at \in {"push", "link"}
  <2>1. Holds(t) = S \cup {s.object}
    <3>1. s.object \in CacheObjects
      BY <1>0, <1>1, <1>6 DEF CacheControl, StepFits
    <3> QED BY <1>1, <1>6, <3>1 DEF Holds, Has, Late
  <2>2. Cardinality(S \cup {s.object}) <= Cardinality(S) + 1
    BY <1>2, FS_AddElement
  <2>3. Cardinality(S) < MaxHeld
    BY <1>1, <1>6
  <2>4. IsFiniteSet(S \cup {s.object})
    BY <1>2, FS_AddElement
  <2>5. Cardinality(S \cup {s.object}) \in Nat
    BY <2>4, FS_CardinalityType
  <2> QED BY <1>2, <1>4, <2>1, <2>2, <2>3, <2>5
<1>7. CASE s.at \notin Late /\ s.at \notin {"push", "link"}
  <2>1. Holds(t) = S
    BY <1>1, <1>7 DEF Holds, Has
  <2> QED BY <1>1, <1>4, <2>1
<1> QED BY <1>5, <1>6, <1>7

LEMMA DisjointUnion ==
    ASSUME NEW A, NEW B, IsFiniteSet(A), IsFiniteSet(B), A \cap B = {}
    PROVE  /\ IsFiniteSet(A \cup B)
           /\ Cardinality(A \cup B) = Cardinality(A) + Cardinality(B)
<1>1. Cardinality(A) \in Nat /\ Cardinality(B) \in Nat
  BY FS_CardinalityType
<1>2. Cardinality(A \cap B) = 0
  BY FS_EmptySet
<1>3. IsFiniteSet(A \cup B)
      /\ Cardinality(A \cup B) = Cardinality(A) + Cardinality(B) - Cardinality(A \cap B)
  BY FS_Union
<1> QED BY <1>1, <1>2, <1>3

LEMMA LateCounts ==
    LET L == {t \in CacheThreads : cache_step[t].at \in Late} IN
    /\ IsFiniteSet(L)
    /\ Cardinality(L) = Cardinality(At("linked")) + Cardinality(At("unlink"))
                            + Cardinality(At("malloc")) + Cardinality(At("check"))
    /\ \A step : Cardinality(At(step)) \in Nat
    /\ \A t \in CacheThreads : cache_step[t].at = "check" => Cardinality(At("check")) >= 1
<1> DEFINE L == {t \in CacheThreads : cache_step[t].at \in Late}
           A == At("linked")
           B == At("unlink")
           C == At("malloc")
           D == At("check")
<1>1. IsFiniteSet(CacheThreads)
  BY CacheConstants
<1>2. \A step : IsFiniteSet(At(step)) /\ Cardinality(At(step)) \in Nat
  <2> SUFFICES ASSUME NEW step PROVE IsFiniteSet(At(step)) /\ Cardinality(At(step)) \in Nat
    OBVIOUS
  <2>1. At(step) \in SUBSET CacheThreads
    BY DEF At
  <2> QED BY <1>1, <2>1, FS_Subset, FS_CardinalityType
<1>3. L \in SUBSET CacheThreads
  OBVIOUS
<1>4. IsFiniteSet(L)
  BY <1>1, <1>3, FS_Subset
<1>5. /\ L = ((A \cup B) \cup C) \cup D
      /\ A \cap B = {} /\ (A \cup B) \cap C = {} /\ ((A \cup B) \cup C) \cap D = {}
  BY DEF At, Late
<1>6. \A t \in CacheThreads : cache_step[t].at = "check" => D # {}
  BY DEF At
<1>7. /\ IsFiniteSet(A) /\ IsFiniteSet(B) /\ IsFiniteSet(C) /\ IsFiniteSet(D)
      /\ Cardinality(A) \in Nat /\ Cardinality(B) \in Nat
      /\ Cardinality(C) \in Nat /\ Cardinality(D) \in Nat
  BY <1>2
<1> HIDE DEF L, A, B, C, D
<1>8. Cardinality(A \cup B) = Cardinality(A) + Cardinality(B) /\ IsFiniteSet(A \cup B)
  BY <1>5, <1>7, DisjointUnion
<1>9. /\ Cardinality((A \cup B) \cup C) = Cardinality(A) + Cardinality(B) + Cardinality(C)
      /\ IsFiniteSet((A \cup B) \cup C)
  BY <1>5, <1>7, <1>8, DisjointUnion
<1>10. Cardinality(L) = Cardinality(A) + Cardinality(B) + Cardinality(C) + Cardinality(D)
  BY <1>5, <1>7, <1>9, DisjointUnion
<1>11. D # {} => Cardinality(D) >= 1
  <2>1. Cardinality(D) = 0 <=> D = {}
    BY <1>7, FS_EmptySet
  <2> QED BY <1>7, <2>1
<1> QED BY <1>2, <1>4, <1>6, <1>10, <1>11 DEF L, A, B, C, D

\* What was allocated is in a list or held.
LEMMA AllocatedFits ==
    ASSUME CacheBase, CacheLists
    PROVE  allocated + Cardinality(At("malloc")) + Cardinality(At("check"))
               <= Free + MaxHeld * Cardinality(CacheThreads)
<1> DEFINE T == CacheThreads
           A == 0 .. MemoryLimit
           X == [t \in T |-> Holds(t)]
           P == {p \in T \X A : p[2] \in X[p[1]]}
           P1 == {p \in P : p[2] \in CacheObjects}
           P2 == {p \in P : p[2] = 0}
           D == {o \in CacheObjects : \E t \in T : Has(t, o)}
           L == {t \in T : cache_step[t].at \in Late}
           all == 1 .. allocated
<1>0. CacheTyped /\ allocated \in Nat /\ allocated <= MemoryLimit /\ MemoryLimit \in Nat
      /\ MaxHeld \in Nat /\ IsFiniteSet(T) /\ IsFiniteSet(CacheObjects)
  BY CacheConstants DEF CacheBase, CacheTyped
<1>1. IsFiniteSet(A)
  BY <1>0, FS_Interval
<1>2. X \in [T -> SUBSET A] /\ \A t \in T : Cardinality(X[t]) <= MaxHeld
  BY HoldsFew
<1>3. IsFiniteSet(P) /\ Cardinality(P) <= Cardinality(T) * MaxHeld
  <2> HIDE DEF X, A
  <2> QED BY <1>0, <1>1, <1>2, UnionBound
<1>4. CacheObjects \in SUBSET A /\ 0 \in A /\ 0 \notin CacheObjects
  BY <1>0 DEF CacheObjects
<1>5. ASSUME NEW t \in T, NEW o \in CacheObjects, Has(t, o) PROVE <<t, o>> \in P1
  BY <1>4, <1>5 DEF Holds
<1>6. ASSUME NEW t \in L PROVE <<t, 0>> \in P2
  BY <1>4, <1>6 DEF Holds
<1>7. P1 \in SUBSET P /\ P2 \in SUBSET P /\ P1 \cap P2 = {} /\ P1 \cup P2 \in SUBSET P
  BY <1>4
<1> HIDE DEF A, X, P, P1, P2
<1>8. /\ IsFiniteSet(P1) /\ IsFiniteSet(P2) /\ Cardinality(P1) \in Nat /\ Cardinality(P2) \in Nat
      /\ Cardinality(P1 \cup P2) <= Cardinality(P) /\ Cardinality(P) \in Nat
  BY <1>3, <1>7, FS_Subset, FS_CardinalityType
<1>9. Cardinality(P1 \cup P2) = Cardinality(P1) + Cardinality(P2)
  BY <1>7, <1>8, DisjointUnion
<1>10. IsFiniteSet(D) /\ Cardinality(D) <= Cardinality(P1)
  <2>1. IsFiniteSet(D)
    BY <1>0, FS_Subset
  <2> DEFINE f == [o \in D |-> <<CHOOSE t \in T : Has(t, o), o>>]
  <2>2. ASSUME NEW o \in D PROVE f[o] \in P1 /\ f[o][2] = o
    BY <1>5
  <2>3. f \in [D -> P1]
    BY <2>2
  <2> HIDE DEF f, D
  <2>4. \A a, b \in D : f[a] = f[b] => a = b
    BY <2>2
  <2> QED BY <1>8, <2>1, <2>3, <2>4, InjectionFits
<1>11. Cardinality(L) <= Cardinality(P2)
  <2>1. IsFiniteSet(L)
    BY LateCounts
  <2> DEFINE f == [t \in L |-> <<t, 0>>]
  <2>2. f \in [L -> P2]
    BY <1>6
  <2>3. \A a, b \in L : f[a] = f[b] => a = b
    OBVIOUS
  <2> HIDE DEF f, L
  <2> QED BY <1>8, <2>1, <2>2, <2>3, InjectionFits
<1>12. all = Cached \cup D /\ Cached \cap D = {}
  <2>1. \A o \in CacheObjects : (\E t \in T : Has(t, o)) => o <= allocated
    BY DEF CacheLists, Places
  <2>2. \A o : o \in all <=> o \in CacheObjects /\ o <= allocated
    BY <1>0 DEF CacheObjects
  <2> HIDE DEF all
  <2> QED BY <2>1, <2>2 DEF Cached
<1>13. Cardinality(all) = allocated
  BY <1>0, FS_Interval
<1>14. IsFiniteSet(Cached) /\ Cardinality(Cached) \in Nat /\ Cardinality(D) \in Nat
  BY <1>10, CachedCounts, FS_CardinalityType, CacheConstants
<1> HIDE DEF all, D
<1>15. allocated = Cardinality(Cached) + Cardinality(D)
  BY <1>10, <1>12, <1>13, <1>14, DisjointUnion
<1>16. PICK l, u, m, c \in Nat : /\ l = Cardinality(At("linked")) /\ u = Cardinality(At("unlink"))
                                 /\ m = Cardinality(At("malloc")) /\ c = Cardinality(At("check"))
  BY LateCounts
<1>17. Cardinality(L) = l + u + m + c
  BY <1>16, LateCounts
<1>18. PICK x \in Int : x = Free /\ x = Cardinality(Cached) - l - u
  BY <1>16, FreeBounds DEF Free
<1>19. PICK k \in Nat : k = Cardinality(T) * MaxHeld /\ k = MaxHeld * Cardinality(T)
  BY <1>0, FS_CardinalityType
<1> HIDE DEF L, T
<1>20. allocated + m + c <= x + k
  BY <1>0, <1>3, <1>8, <1>9, <1>10, <1>11, <1>14, <1>15, <1>17, <1>18, <1>19
<1> QED BY <1>16, <1>18, <1>19, <1>20 DEF T

LEMMA AllocatedAfter ==
    ASSUME CacheBase, CacheLists, CountFits, AllocationsBounded, NEW t \in CacheThreads,
           \/ GetStart(t) \/ GetLock(t) \/ GetCount(t) \/ GetUnlink(t) \/ GetMiss(t)
           \/ GetUnlock(t) \/ GetCheck(t) \/ GetMalloc(t)
           \/ PushStart(t) \/ PushSpin(t) \/ PushLock(t) \/ PushLink(t) \/ PushCount(t)
    PROVE  AllocationsBounded'
<1> DEFINE s == cache_step[t]
<1>0. CacheTyped /\ CacheControl /\ allocated \in Nat
  BY CacheConstants DEF CacheBase, CacheTyped
<1>1. ThreadsAt({"malloc"}) = At("malloc") /\ ThreadsAt({"malloc"})' = At("malloc")'
  BY DEF ThreadsAt, At
<1>2. PICK k \in Nat : k = MaxHeld * Cardinality(CacheThreads)
  <2>1. PICK a, b \in Nat : a = MaxHeld /\ b = Cardinality(CacheThreads)
    BY CacheConstants, FS_CardinalityType
  <2>2. a * b \in Nat
    BY <2>1
  <2> QED BY <2>1, <2>2
<1>3. PICK m \in Nat : m = Cardinality(At("malloc"))
  BY LateCounts
<1>4. HeadCount \in Nat /\ CountRange \in Nat /\ HeadCount < CountRange
  <2>1. Cardinality(CacheThreads) \in Nat
    BY CacheConstants, FS_CardinalityType
  <2> QED BY <2>1, CacheAssumption
<1>5. allocated + m <= k + HeadCount - 1
  BY <1>1, <1>2, <1>3 DEF AllocationsBounded
<1>6. ASSUME allocated' + Cardinality(At("malloc")') <= k + HeadCount - 1
      PROVE  AllocationsBounded'
  BY <1>1, <1>2, <1>6 DEF AllocationsBounded
<1>7. CASE GetMalloc(t)
  <2>1. s.at = "malloc" /\ To(t, "outside", 0, NoObject) /\ allocated' = allocated + 1
    BY <1>0, <1>7, Moves DEF GetMalloc
  <2>2. Cardinality(At("malloc")') = m - 1
    BY <1>0, <1>3, <2>1, AtAfter
  <2> QED BY <1>0, <1>2, <1>3, <1>4, <1>5, <1>6, <2>1, <2>2
<1>8. CASE GetCheck(t) /\ To(t, "malloc", s.i, s.object) /\ free_count < HeadCount
  <2>1. s.at = "check" /\ allocated' = allocated
    BY <1>8 DEF GetCheck
  <2>2. Cardinality(At("malloc")') = m + 1
    BY <1>0, <1>3, <1>8, <2>1, AtAfter
  <2>3. PICK c \in Nat : c = Cardinality(At("check")) /\ c >= 1
    BY <2>1, LateCounts
  <2>4. PICK x \in Int : x = Free /\ -CountRange < x
    BY FreeBounds
  <2>5. x < HeadCount
    BY <1>4, <1>8, <2>4, CacheConstants DEF CountFits
  <2>6. allocated + m + c <= x + k
    BY <1>2, <1>3, <2>3, <2>4, AllocatedFits
  <2>7. allocated + (m + 1) <= k + HeadCount - 1
    BY <1>0, <1>2, <1>3, <1>4, <2>3, <2>5, <2>6
  <2> QED BY <1>6, <2>1, <2>2, <2>7
<1>9. CASE ~ GetMalloc(t) /\ ~ (GetCheck(t) /\ To(t, "malloc", s.i, s.object) /\ free_count < HeadCount)
  <2>1. allocated' = allocated
    BY <1>9 DEF GetStart, GetLock, GetCount, GetUnlink, GetMiss, GetUnlock, GetCheck, GetMalloc,
                PushStart, PushSpin, PushLock, PushLink, PushCount, TakeIndex
  <2>2. PICK at, i, o : To(t, at, i, o) /\ at # "malloc" /\ s.at # "malloc"
    <3>1. CASE \/ GetStart(t) \/ GetCount(t) \/ GetUnlink(t) \/ GetMiss(t) \/ GetUnlock(t) \/ GetCheck(t)
      BY <1>0, <1>9, <3>1, Moves
    <3>2. CASE GetLock(t)
      <4>1. s.at = "get" /\ To(t, "count", s.i, cache_head[s.i])
        BY <1>0, <3>2, Moves DEF GetLock
      <4> QED BY <4>1
    <3>3. CASE PushStart(t) \/ PushSpin(t) \/ PushLock(t) \/ PushLink(t) \/ PushCount(t)
      BY <1>0, <3>3, PushMoves
    <3> QED BY <1>9, <3>1, <3>2, <3>3
  <2>3. Cardinality(At("malloc")') = m
    BY <1>0, <1>3, <2>2, AtAfter
  <2> QED BY <1>5, <1>6, <2>1, <2>3
<1> QED BY <1>7, <1>8, <1>9

----------------------------------------------------------------------------
(* The lists as they are walked through.                                   *)

\* A set of natural numbers has a least element.
LEMMA Least ==
    ASSUME NEW S \in SUBSET Nat, S # {}
    PROVE  \E x \in S : \A y \in S : x <= y
<1> DEFINE R == {p \in Nat \X Nat : p[1] < p[2]}
<1>1. IsWellFoundedOn(R, Nat)
  BY NatLessThanWellFounded DEF OpToRel
<1>2. PICK x \in S : \A y \in S : <<y, x>> \notin R
  BY <1>1, WFMin
<1>3. \A y \in S : y \in Nat /\ x \in Nat /\ ~ y < x
  BY <1>2
<1> QED BY <1>3

LEMMA Walked ==
    ASSUME NEW i, NEW f, NEW n, Chain(header_next, f, n), cache_head[i] = f[n]
    PROVE  \A k \in 0 .. MemoryLimit : NthOf(i)[k] = IF k <= n THEN f[n - k] ELSE NoObject
<1> DEFINE step(h) == [k \in 0 .. MemoryLimit |->
              IF k = 0 THEN cache_head[i]
              ELSE IF h[k - 1] = NoObject THEN NoObject ELSE header_next[h[k - 1]]]
           nth == CHOOSE h : h = step(h)
           g == [k \in 0 .. MemoryLimit |-> IF k <= n THEN f[n - k] ELSE NoObject]
<1>0. MemoryLimit \in Nat /\ n \in Nat /\ n <= MemoryLimit /\ f[0] = NoObject
  BY CacheConstants, ChainShort DEF Chain
<1>1. ASSUME NEW k \in 1 .. n PROVE f[k] # NoObject /\ header_next[f[k]] = f[k - 1]
  BY CacheAssumption DEF Chain
<1>2. g = step(g)
  <2>1. ASSUME NEW k \in 0 .. MemoryLimit PROVE g[k] = step(g)[k]
    <3>1. CASE k = 0
      BY <1>0, <3>1
    <3>2. CASE k # 0 /\ k <= n
      <4>1. g[k - 1] = f[n - k + 1] /\ g[k] = f[n - k]
        BY <1>0, <3>2
      <4>2. n - k + 1 \in 1 .. n /\ n - k = (n - k + 1) - 1
        BY <1>0, <3>2
      <4>3. f[n - k + 1] # NoObject /\ header_next[f[n - k + 1]] = f[n - k]
        BY <1>1, <4>2
      <4> QED BY <3>2, <4>1, <4>3
    <3>3. CASE k > n
      <4>1. g[k - 1] = NoObject
        BY <1>0, <3>3
      <4> QED BY <1>0, <3>3, <4>1
    <3> QED BY <1>0, <3>1, <3>2, <3>3
  <2> QED BY <2>1
<1>3. nth = step(nth)
  <2>1. \E h : h = step(h)
    BY <1>2
  <2> HIDE DEF step
  <2> QED BY <2>1
<1>4. NthOf(i) = nth
  BY DEF NthOf
<1>5. ASSUME NEW k \in 0 .. MemoryLimit PROVE nth[k] = g[k]
  <2> DEFINE S == {j \in 0 .. MemoryLimit : nth[j] # g[j]}
  <2>1. SUFFICES S = {}
    BY <2>1
  <2>2. SUFFICES ASSUME S # {} PROVE FALSE
    OBVIOUS
  <2>3. PICK j \in S : \A m \in S : j <= m
    <3>1. S \in SUBSET Nat
      BY <1>0
    <3> QED BY <2>2, <3>1, Least
  <2>4. j \in 0 .. MemoryLimit /\ nth[j] # g[j]
    OBVIOUS
  <2>5. j # 0 => nth[j - 1] = g[j - 1]
    <3>1. j # 0 => j - 1 \in 0 .. MemoryLimit /\ ~ j <= j - 1
      BY <1>0, <2>4
    <3> QED BY <2>3, <3>1
  <2> HIDE DEF nth, g, S
  <2>6. nth[j] = step(nth)[j] /\ g[j] = step(g)[j]
    BY <1>2, <1>3
  <2>7. step(nth)[j] = step(g)[j]
    BY <2>4, <2>5
  <2> QED BY <2>4, <2>6, <2>7
<1> HIDE DEF nth
<1> QED BY <1>4, <1>5

\* The walk shows the list, and then its end.
LEMMA ListedIs ==
    ASSUME NEW i, NEW f, NEW n, Chain(header_next, f, n), cache_head[i] = f[n]
    PROVE  /\ NthOf(i)[MemoryLimit] = NoObject
           /\ \A o \in CacheObjects : o \in Listed(i) <=> On(f, n, o)
           /\ Listed(i) \in SUBSET CacheObjects
<1>0. MemoryLimit \in Nat /\ n \in Nat /\ n <= MemoryLimit /\ f[0] = NoObject
      /\ NoObject \notin CacheObjects
  <2>1. MemoryLimit \in Nat /\ n \in Nat /\ n <= MemoryLimit /\ f[0] = NoObject
    BY CacheConstants, ChainShort DEF Chain
  <2> QED BY <2>1, CacheAssumption
<1>1. PICK g : g = NthOf(i)
  OBVIOUS
<1>2. \A k \in 0 .. MemoryLimit : g[k] = IF k <= n THEN f[n - k] ELSE NoObject
  BY <1>1, Walked
<1>3. Listed(i) = {g[k] : k \in 0 .. MemoryLimit} \ {NoObject}
  BY <1>1 DEF Listed
<1>4. g[MemoryLimit] = NoObject
  <2>1. n = MemoryLimit => n - MemoryLimit = 0
    BY <1>0
  <2>2. MemoryLimit \in 0 .. MemoryLimit /\ (MemoryLimit <= n <=> n = MemoryLimit)
    BY <1>0
  <2> QED BY <1>0, <1>2, <2>1, <2>2
<1>5. ASSUME NEW o \in Listed(i) PROVE o \in CacheObjects /\ On(f, n, o)
  <2>1. PICK k \in 0 .. MemoryLimit : o = g[k] /\ o # NoObject
    BY <1>3
  <2>2. k <= n /\ o = f[n - k]
    BY <1>2, <2>1
  <2>3. n - k # 0
    BY <1>0, <2>1, <2>2
  <2>4. n - k \in 1 .. n
    BY <1>0, <2>2, <2>3
  <2> QED BY <2>2, <2>4 DEF On, Chain
<1>6. ASSUME NEW o \in CacheObjects, On(f, n, o) PROVE o \in Listed(i)
  <2>1. PICK k \in 1 .. n : f[k] = o
    BY <1>6 DEF On
  <2>2. n - k \in 0 .. MemoryLimit /\ n - k <= n /\ n - (n - k) = k
    BY <1>0
  <2>3. g[n - k] = o
    BY <1>2, <2>1, <2>2
  <2> QED BY <1>0, <1>3, <2>2, <2>3
<1> QED BY <1>1, <1>4, <1>5, <1>6

LEMMA OnceEach ==
    ASSUME CacheBase, CacheLists
    PROVE  EachObjectOnce /\ UNION {Listed(i) : i \in Heads} = Cached
<1>0. CacheTyped
  BY DEF CacheBase
<1>1. PICK F, N : Lists(F, N) /\ Places(F, N)
  BY DEF CacheLists
<1>2. \A i \in Heads : /\ NthOf(i)[MemoryLimit] = NoObject
                       /\ \A o \in CacheObjects : o \in Listed(i) <=> On(F[i], N[i], o)
                       /\ Listed(i) \in SUBSET CacheObjects
  BY <1>1, ListedIs DEF Lists
<1>3. \A t \in CacheThreads : \A o \in CacheObjects : o \in Owned(t) <=> Has(t, o)
  BY DEF Owned, Has, ThreadsAt
<1>4. CacheThreads \cap Heads = {}
  BY CacheAssumption
<1> DEFINE places == [p \in Heads \cup CacheThreads |->
                         IF p \in CacheThreads THEN Owned(p) ELSE Listed(p)]
<1>5. ASSUME NEW o \in CacheObjects
      PROVE  Cardinality({p \in DOMAIN places : o \in places[p]}) = IF o <= allocated THEN 1 ELSE 0
  <2> DEFINE P == {p \in Heads \cup CacheThreads : o \in places[p]}
  <2>1. \A p : p \in P <=> \/ p \in Heads /\ On(F[p], N[p], o)
                           \/ p \in CacheThreads /\ Has(p, o)
    BY <1>2, <1>3, <1>4
  <2>2. DOMAIN places = Heads \cup CacheThreads
    OBVIOUS
  <2> HIDE DEF P, places
  <2>3. \A p, q \in P : p = q
    BY <1>1, <2>1 DEF Lists, Places
  <2>4. P # {} <=> o <= allocated
    BY <1>1, <2>1 DEF Places
  <2>5. CASE o <= allocated
    <3>1. PICK p \in P : TRUE
      BY <2>4, <2>5
    <3>2. P = {p}
      BY <2>3
    <3>3. Cardinality(P) = 1
      BY <3>2, FS_Singleton
    <3> QED BY <2>2, <2>5, <3>3 DEF P
  <2>6. CASE ~ o <= allocated
    <3>1. P = {}
      BY <2>4, <2>6
    <3>2. Cardinality(P) = 0
      BY <3>1, FS_EmptySet
    <3> QED BY <2>2, <2>6, <3>2 DEF P
  <2> QED BY <2>5, <2>6
<1>6. EachObjectOnce
  BY <1>2, <1>5 DEF EachObjectOnce
<1>7. UNION {Listed(i) : i \in Heads} = Cached
  <2>1. ASSUME NEW o \in CacheObjects
        PROVE  (\E i \in Heads : o \in Listed(i)) <=> o \in Cached
    BY <1>1, <1>2 DEF Places, Cached
  <2>2. \A o : (\E i \in Heads : o \in Listed(i)) => o \in CacheObjects
    BY <1>2
  <2>3. \A o \in Cached : o \in CacheObjects
    BY DEF Cached
  <2> QED BY <2>1, <2>2, <2>3
<1> QED BY <1>6, <1>7

LEMMA CountOff ==
    ASSUME CacheBase, CacheLists, CountFits
    PROVE  FreeCountOff
<1>1. UNION {Listed(i) : i \in Heads} = Cached
  BY OnceEach
<1>2. ThreadsAt({"linked"}) = At("linked") /\ ThreadsAt({"unlink"}) = At("unlink")
  BY DEF ThreadsAt, At
<1>3. PICK x \in Int : x = Free /\ -CountRange < x /\ x < CountRange
  BY FreeBounds
<1>4. CountRange \in Nat \ {0}
  BY CacheConstants
<1>5. x % CountRange = IF x >= 0 THEN x ELSE x + CountRange
  <2>1. -CountRange <= x /\ x < CountRange
    BY <1>3, <1>4
  <2> QED BY <1>4, <2>1, ModSmall
<1>6. free_count = x % CountRange
  BY <1>3, <1>5 DEF CountFits
<1> QED BY <1>1, <1>2, <1>3, <1>6 DEF FreeCountOff, Free

CacheInv == CacheBase /\ CacheLists /\ CountFits /\ AllocationsBounded

(***************************************************************************)
(* Every object that malloc() ever provided is in one list or with one     *)
(* thread, free_count is off by the steps under way, also after it wrapped *)
(* below zero, and the memory is bounded: for any number of threads, lists *)
(* and objects (vkd3d_desc_object_cache_get() and _push()).                *)
(***************************************************************************)
THEOREM DescObjectCacheCorrect == CacheSpec => []DescObjectCacheSound
<1>1. CacheInit => CacheInv
  <2> SUFFICES ASSUME CacheInit PROVE CacheInv
    OBVIOUS
  <2>1. ThreadsAt({"malloc"}) = {} /\ allocated = 0
    BY DEF CacheInit, ThreadsAt, OutsideCache
  <2>2. Cardinality(ThreadsAt({"malloc"})) = 0
    BY <2>1, FS_EmptySet
  <2>3. PICK a, b \in Nat : a = MaxHeld /\ b = Cardinality(CacheThreads)
    BY CacheConstants, FS_CardinalityType
  <2>4. a * b >= 0 /\ a * b \in Nat
    BY <2>3
  <2>5. AllocationsBounded
    <3>1. PICK k \in Nat : k = MaxHeld * Cardinality(CacheThreads)
      BY <2>3, <2>4
    <3>2. 0 + 0 <= k + HeadCount - 1
      BY <3>1, CacheConstants
    <3> QED BY <2>1, <2>2, <3>1, <3>2 DEF AllocationsBounded
  <2> QED BY <2>5, BaseStarts, ListsStart, CountStarts DEF CacheInv
<1>2. CacheInv /\ [CacheNext]_cacheVars => CacheInv'
  <2> SUFFICES ASSUME CacheInv, [CacheNext]_cacheVars PROVE CacheInv'
    OBVIOUS
  <2>1. CacheBase' /\ CacheLists' /\ CountFits'
    BY BaseSteps, ListsSteps, CountSteps DEF CacheInv
  <2>2. AllocationsBounded'
    <3>1. CASE CacheNext
      BY <3>1, AllocatedAfter DEF CacheInv, CacheNext
    <3>2. CASE UNCHANGED cacheVars
      BY <3>2 DEF CacheInv, AllocationsBounded, ThreadsAt, cacheVars
    <3> QED BY <3>1, <3>2
  <2> QED BY <2>1, <2>2 DEF CacheInv
<1>3. CacheInv => DescObjectCacheSound
  BY OnceEach, CountOff DEF CacheInv, DescObjectCacheSound
<1> QED BY <1>1, <1>2, <1>3, PTL DEF CacheSpec
=============================================================================
