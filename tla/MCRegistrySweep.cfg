\* Requests race the sweep; the store answers.
CONSTANTS
    k1 = k1
    k2 = k2
    Keys = {k1}
    Shards = {1}
    ShardOf <- OneShard
    Requests = {r1, r2}
    Evictors = {}
    Configs <- Stored
    StoreFails = FALSE
    Sweeps = TRUE
    IdleExpiry = 2
    Stall = 1
    MaxRequests = 4
    MaxTime = 6
    Burst = 3
    Refills = FALSE
    NoState = NoState
SPECIFICATION Spec
SYMMETRY Interchangeable
  
PROPERTY SweepDeletesWhatItSaved
CHECK_DEADLOCK FALSE
