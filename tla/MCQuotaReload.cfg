\* Texts and configurations resolved; a full reload and a reload of one key race
\* requests, two creations and an eviction while the hook changes its answers.
CONSTANTS
    Keys = {k1}
    Shards = {1, 2}
    ShardOf <- Last
    Makers = {m1, m2}
    Wholes = {w1}
    Singles = {w2}
    Drafts <- Varied
    Written <- Spelled
    Plain <- Simple
    Answers <- Graded
    HookStall = 1
    MaxSwaps = 1
    MaxEntries = 1
    MaxTime = 2
    maxShards = 8
    DefaultShards = 4
    NaN = NaN
    PosInf = PosInf
    NegInf = NegInf
    Inf = Inf
    Tiny = Tiny
    Refused = Refused
SPECIFICATION Spec
SYMMETRY Interchangeable
INVARIANTS QuotaInv UsableBuckets ReportIsEnforced
PROPERTIES AcceptedOnce ReloadReaches ReloadKeepsTokens
CHECK_DEADLOCK FALSE
