\* Two keys on two shards, swept and evicted at once; the store may fail.
CONSTANTS
    k1 = k1
    k2 = k2
    Keys = {k1, k2}
    Shards = {1, 2}
    ShardOf <- TwoShards
    Requests = {r1, r2}
    Evictors = {v1}
    Configs <- TwoKinds
    StoreFails = TRUE
    Sweeps = TRUE
    IdleExpiry = 1
    Stall = 0
    MaxRequests = 2
    MaxTime = 2
    Burst = 1
    Refills = FALSE
    NoState = NoState
SPECIFICATION FairSpec
INVARIANTS EveryEntryAccounted OneLiveEntry
PROPERTY IdleKeysLeave
CHECK_DEADLOCK FALSE
