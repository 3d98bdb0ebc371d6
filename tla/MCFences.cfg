SPECIFICATION FencesSpec
CONSTANTS
    Fences = {f1}
    Values <- MCValues
    Events = {e1, e2}
    MaxTimelineValue = 3
    MaxRegistrations = 2
    WorkerFences = {f1}
    Workers = {w1, w2}
    MaxSignals = 2
    WaitMayFail = TRUE
INVARIANTS
    FenceTypeOK
    QueuedSignalsKept
    MaxPendingBacked
    ZeroWaitIsReached
    NoReadyEventWaits
    EventsConserved
    TypeOK
    NoFreedFenceHeld
    ReferencesAccounted
PROPERTIES
    ImplementsContract
    ReportsFinish
    StopFinishes
    ReportsInOrder
CHECK_DEADLOCK FALSE
