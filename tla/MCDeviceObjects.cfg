SPECIFICATION Spec
CONSTANTS
    FenceCount = 3
    CacheThreads = {t1, t2, t3}
    HeadCount = 2
    CountRange = 16
    MaxHeld = 1
    MemoryLimit = 5
    NoObject = NoObject
    HeapThreads = {w1, w2}
    Heaps = {h1}
    Resources = {x1, x2}
    NoHeap = NoHeap
    AddressRange = 64
    SlabBase = 8
    SlabSize = 4
    SlabCount = 2
    FallbackBase = 32
    Buffers = {t1, t2, t3}
    Sizes = {1, 3, 6, 16, 63}
    Alignments = {1, 4}
    NoBuffer = NoBuffer
    Allocators = {w1, w2}
    Lists = {x1, x2}
    CommandBuffers = {x1, x2}
    DescriptorPools = {w1, w2}
    PoolLimit = 5
    InitialPoolSize = 1
    Requests = {3, 6}
    NoneSuch = NoneSuch
    Recorders = {w1, w2}
    States = {1, 2}
    Keys = {1, 2}
    PassKeys = {"fixed", "dynamic"}
    PassKeyOf <- PassKeys2
    Pipelines = {t1, t2, t3}
    Passes = {x1, x2}
    NoHandle = NoHandle
SYMMETRY Symmetry
INVARIANTS
    MultiFenceEventSound
    DescObjectCacheSound
    HeapsOutliveResources
    GpuVaSound
    CommandAllocatorSound
    PipelinesShared
CHECK_DEADLOCK FALSE
