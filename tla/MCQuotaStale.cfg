\* A creation that asked the hook, and a reload that passes before it inserts.
CONSTANTS
    Keys = {k1}
    Shards = {1, 2}
    ShardOf <- Last
    Makers = {m1}
    Wholes = {w1}
    Singles = {}
    Drafts <- Varied
    Written <- Spelled
    Plain <- Simple
    Answers <- Graded
    HookStall = 1
    MaxSwaps = 1
    MaxEntries = 1
    MaxTime = 0
    maxShards = 8
    DefaultShards = 4
    NaN = NaN
    PosInf = PosInf
    NegInf = NegInf
    Inf = Inf
    Tiny = Tiny
    Refused = Refused
SPECIFICATION Spec
INVARIANTS NobodyLeftBehind
CHECK_DEADLOCK FALSE
