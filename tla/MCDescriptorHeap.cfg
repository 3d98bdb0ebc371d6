SPECIFICATION Spec
CONSTANTS
    t1 = t1
    t2 = t2
    worker = worker
    o1 = o1
    o2 = o2
    o3 = o3
    NULL = NULL
    Threads = {t1, t2, worker}
    DeviceWorker = worker
    NumDescs = 2
    QuarterRange = 2
    Objects = {o1, o2, o3}
    WriteBufferSize = 3
    MaxWrites = 3
SYMMETRY Symmetry
INVARIANTS
    TypeOK
    RefcountsExact
    DirtyListSound
    UpdateNotLost
    WrittenWasThere
    FlushShowsOwnWrites
