\* Two replicas, one request at a time in each, over a backend that may fail.
CONSTANTS
    c1 = c1
    c2 = c2
    r1 = r1
    r2 = r2
    Replicas = {r1, r2}
    Callers = {c1, c2}
    Home <- OnePerReplica
    Modes = {"allow", "acquire"}
    Configs <- Failing
    Burst = 2
    Refills = TRUE
    Cost = 2
    Timeout = 1
    MinPoll = 1
    MaxPoll = 3
    MaxRequests = 3
    MaxTime = 3
SPECIFICATION Spec
INVARIANTS GateInv ShadowIsUpperBound DenyKeepsFleetQuota
CHECK_DEADLOCK FALSE
