SPECIFICATION Spec
CHECK_DEADLOCK FALSE
CONSTANTS
    None = None
    Interval = 1
    TotalBuckets = 4
    MinFree = 1
    MaxFree = 1
    CacheInterval = 2
    CacheBuckets = 2
    Ctx = {c1}
    QueueKeys = {10, 11}
    Ttls = {1, 4}
    CacheKeys = {1, 2}
    CacheTtls = {2, 3, 0}
    MaxPush = 3
    MaxInsert = 3
    MaxTick = 5
    MaxPosted = 1
INVARIANTS EntryKept  DgramWakeup CacheNotEarly
