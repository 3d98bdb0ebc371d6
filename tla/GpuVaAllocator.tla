--------------------------- MODULE GpuVaAllocator ---------------------------
(***************************************************************************)
(* vkd3d_gpu_va_allocator (libs/vkd3d/device.c): the GPU virtual addresses *)
(* of buffers.  An address space of 2^64 bytes: slabs of 2^32 bytes from   *)
(* 2^36, one for each small buffer, and from 2^63 on the fallback range,   *)
(* where addresses are given out in ascending order and never again.  The  *)
(* numbers are parameters here and keep their order and their divisibility.*)
(* Each operation runs under the allocator's mutex; a lookup in a slab     *)
(* takes no lock, but only looks at a slab that its caller's buffer owns.  *)
(***************************************************************************)
EXTENDS Integers, Sequences, FiniteSets, SequencesExt

CONSTANTS
    AddressRange,   \* 2^64
    SlabBase,       \* VKD3D_VA_SLAB_BASE
    SlabSize,       \* VKD3D_VA_SLAB_SIZE
    SlabCount,      \* VKD3D_VA_SLAB_COUNT
    FallbackBase,   \* VKD3D_VA_FALLBACK_BASE
    Buffers,        \* the objects that addresses are given to
    Sizes,          \* the sizes of buffers
    Alignments,     \* their alignments: powers of two up to SlabSize
    NoBuffer        \* NULL

Addresses == 0 .. AddressRange - 1
Slabs == 0 .. SlabCount - 1

ASSUME GpuVaAssumption ==
    /\ AddressRange \in Nat /\ SlabSize \in Nat \ {0} /\ SlabCount \in Nat \ {0}
    /\ SlabBase \in Addresses /\ FallbackBase \in Addresses
    /\ SlabBase # 0 /\ SlabBase + SlabCount * SlabSize <= FallbackBase
    /\ Sizes \subseteq Addresses \ {0} /\ Alignments \subseteq 1 .. SlabSize
    /\ \A a \in Alignments : SlabSize % a = 0 /\ SlabBase % a = 0 /\ AddressRange % a = 0
    /\ NoBuffer \notin Buffers \cup Slabs

VARIABLES
    slabs,          \* of each slab: [size, ptr]
    free_slab,      \* the first free slab, or NoBuffer; slabs[i].ptr is the next one
    fallback,       \* fallback_allocations: [base, size, ptr], in ascending order
    fallback_floor,
    gpu_address     \* history: the buffers' addresses and aligned sizes

gpuVaVars == <<slabs, free_slab, fallback, fallback_floor, gpu_address>>

GpuVaInit ==
    /\ slabs = [i \in Slabs |-> [size |-> 0, ptr |-> IF i + 1 \in Slabs THEN i + 1 ELSE NoBuffer]]
    /\ free_slab = 0
    /\ fallback = <<>> /\ fallback_floor = FallbackBase
    /\ gpu_address = [b \in {} |-> 0]

\* align(), in a 64-bit integer.
Align(n, alignment) == (((n + alignment - 1) % AddressRange) \div alignment) * alignment

Address(b) == gpu_address[b].base
AllocatedBuffers == DOMAIN gpu_address

Owns(b, base, size) ==
    gpu_address' = [c \in AllocatedBuffers \cup {b} |->
                       IF c = b THEN [base |-> base, size |-> size] ELSE gpu_address[c]]

AllocateSlab(b, alignment, size) ==
    LET aligned_size == Align(size, alignment) IN
    /\ size <= AddressRange - 1 - (alignment - 1)
    /\ aligned_size <= SlabSize /\ free_slab # NoBuffer
    /\ slabs' = [slabs EXCEPT ![free_slab] = [size |-> aligned_size, ptr |-> b]]
    /\ free_slab' = slabs[free_slab].ptr
    /\ Owns(b, (SlabBase + free_slab * SlabSize) % AddressRange, aligned_size)
    /\ UNCHANGED <<fallback, fallback_floor>>

AllocateFallback(b, alignment, size) ==
    LET aligned_size == Align(size, alignment)
        ceiling == AddressRange - 1 - (alignment - 1)
        base == Align(fallback_floor, alignment) IN
    /\ size <= AddressRange - 1 - (alignment - 1)
    /\ aligned_size > SlabSize \/ free_slab = NoBuffer
    /\ aligned_size <= ceiling /\ ceiling - aligned_size >= fallback_floor
    /\ fallback' = Append(fallback, [base |-> base, size |-> aligned_size, ptr |-> b])
    /\ fallback_floor' = (base + aligned_size) % AddressRange
    /\ Owns(b, base, aligned_size)
    /\ UNCHANGED <<slabs, free_slab>>

\* vkd3d_gpu_va_allocation_compare() finds an allocation equal to an address.
Equal(address, allocation) ==
    address >= allocation.base /\ address - allocation.base < allocation.size

\* bsearch(): in an ascending array, the element that compares equal.
Search(address) == SelectInSeq(fallback, LAMBDA a : Equal(address, a))

SlabIndex(address) == ((address - SlabBase) % AddressRange) \div SlabSize

DereferenceSlab(address) ==
    LET offset == (address - SlabBase) % AddressRange
        i == SlabIndex(address) IN
    IF i \notin Slabs \/ offset - i * SlabSize >= slabs[i].size THEN NoBuffer ELSE slabs[i].ptr

Dereference(address) ==
    IF address < FallbackBase THEN DereferenceSlab(address)
    ELSE IF Search(address) = 0 THEN NoBuffer ELSE fallback[Search(address)].ptr

Forget(b) == gpu_address' = [c \in AllocatedBuffers \ {b} |-> gpu_address[c]]

\* Mutant: a slab that is freed keeps its size.
FreeSlabKeepsSize(b) ==
    LET i == SlabIndex(Address(b)) IN
    /\ Address(b) < FallbackBase /\ i \in Slabs
    /\ slabs' = [slabs EXCEPT ![i].ptr = free_slab]
    /\ free_slab' = i
    /\ Forget(b) /\ UNCHANGED <<fallback, fallback_floor>>

FreeSlab(b) ==
    LET i == SlabIndex(Address(b)) IN
    /\ Address(b) < FallbackBase /\ i \in Slabs
    /\ slabs' = [slabs EXCEPT ![i] = [size |-> 0, ptr |-> free_slab]]
    /\ free_slab' = i
    /\ Forget(b) /\ UNCHANGED <<fallback, fallback_floor>>

FreeFallback(b) ==
    LET i == Search(Address(b)) IN
    /\ Address(b) >= FallbackBase
    /\ i # 0 /\ fallback[i].base = Address(b)
    /\ fallback' = RemoveAt(fallback, i)
    /\ Forget(b) /\ UNCHANGED <<slabs, free_slab, fallback_floor>>

GpuVaNext ==
    \E b \in Buffers :
        \/ /\ b \notin AllocatedBuffers
           /\ \E alignment \in Alignments, size \in Sizes :
                  AllocateSlab(b, alignment, size) \/ AllocateFallback(b, alignment, size)
        \/ b \in AllocatedBuffers /\ (FreeSlab(b) \/ FreeFallback(b))

GpuVaSpec == GpuVaInit /\ [][GpuVaNext]_gpuVaVars

----------------------------------------------------------------------------
Covers(b, address) == address >= Address(b) /\ address < Address(b) + gpu_address[b].size

\* No buffer ends beyond the address space, none overlaps another one, and
\* zero, which stands for a failed allocation, is no address.
BuffersDisjoint ==
    /\ \A b \in AllocatedBuffers :
           Address(b) # 0 /\ Address(b) + gpu_address[b].size <= AddressRange
    /\ \A b, c \in AllocatedBuffers :
           b # c => \/ Address(b) + gpu_address[b].size <= Address(c)
                    \/ Address(c) + gpu_address[c].size <= Address(b)

\* Every address leads to the buffer it is in, and to none if it is in none.
AddressesLeadBack ==
    \A address \in Addresses :
        LET owners == {b \in AllocatedBuffers : Covers(b, address)} IN
        IF owners = {} THEN Dereference(address) = NoBuffer
        ELSE owners = {Dereference(address)}

\* What bsearch() needs, and that what is given back can be found.
CanBeFreed ==
    /\ \A i, j \in DOMAIN fallback :
           i < j => fallback[i].base + fallback[i].size <= fallback[j].base
    /\ \A b \in AllocatedBuffers : Address(b) >= FallbackBase =>
           \E i \in DOMAIN fallback : fallback[i].base = Address(b) /\ fallback[i].ptr = b

(***************************************************************************)
(* After any sequence of vkd3d_gpu_va_allocator_allocate() and _free(),    *)
(* also with sizes at the end of the range of 64 bits and with no slab     *)
(* left: addresses are disjoint, and vkd3d_gpu_va_allocator_dereference()  *)
(* of any address gives the buffer that owns it.                           *)
(***************************************************************************)
GpuVaSound == BuffersDisjoint /\ AddressesLeadBack /\ CanBeFreed
=============================================================================
