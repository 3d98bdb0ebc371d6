SPECIFICATION Spec
CONSTANTS
    q1 = q1
    q2 = q2
    q3 = q3
    f1 = f1
    f2 = f2
    vq1 = vq1
    vq2 = vq2
    Fences = {f1}
    Values <- TwoValues
    Events = {}
    MaxTimelineValue = 3
    MaxRegistrations = 0
    VkQueues = {vq1, vq2}
    Queues = {q1, q2}
    VkQueueOf <- Separate
    Threads = {t1, t2}
    AppOps <- ThreadsOps
    AppSignals <- ThreadsSignals
    MaxOps = 2
    MaxCpuSignals = 1
    MaxBlocked = 2
    SubmitMayFail = FALSE
INVARIANTS
    TypeOK
    AtMostOneHolder
    NeverOrphaned
    CompletedValueIsReal
PROPERTIES
    WaitsHonoured
    SemaphoreRises
CHECK_DEADLOCK FALSE
