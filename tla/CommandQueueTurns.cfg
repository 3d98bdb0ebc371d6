SPECIFICATION FairSpec
CONSTANTS
    q1 = q1
    q2 = q2
    q3 = q3
    f1 = f1
    f2 = f2
    vq1 = vq1
    vq2 = vq2
    Fences = {f1, f2}
    Values <- OneValue
    Events = {}
    MaxTimelineValue = 2
    MaxRegistrations = 0
    VkQueues = {vq1}
    Queues = {q1, q2}
    VkQueueOf <- Shared
    Threads = {t1}
    AppOps <- TurnsOps
    AppSignals <- TurnsSignals
    MaxOps = 2
    MaxCpuSignals = 1
    MaxBlocked = 2
    SubmitMayFail = FALSE
INVARIANTS
    NoStrandedQueue
    NoWaitBeforeItsSignal
PROPERTIES
    ReadyQueueMoves
    SignalsComplete
CHECK_DEADLOCK FALSE
