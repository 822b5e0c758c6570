\* What accrued before an eviction is credited again at restore.
CONSTANTS
    k1 = k1
    k2 = k2
    Keys = {k1}
    Shards = {1}
    ShardOf <- OneShard
    Requests = {r1}
    Evictors = {}
    Configs <- Stored
    StoreFails = FALSE
    Sweeps = TRUE
    IdleExpiry = 1
    Stall = 0
    MaxRequests = 4
    MaxTime = 8
    Burst = 4
    Refills = TRUE
    NoState = NoState
SPECIFICATION Spec
SYMMETRY Interchangeable
INVARIANT RestoredExactly
CHECK_DEADLOCK FALSE
