SPECIFICATION Spec
CONSTANTS
    Waiters = {q1, q2}
    FenceValues = {1, 2}
    Capacity = 4
    MaxSyncObjects = 4
    VkFences = {f1, f2, f3}
    VkSemaphores = {s1, s2, s3}
    NULL = NULL
INVARIANT AcquiredEntryIsThere
CHECK_DEADLOCK FALSE
