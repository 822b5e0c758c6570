\* Every policy, with and without a Waiter: who leaves is let go.
CONSTANTS
    c1 = c1
    c2 = c2
    r1 = r1
    r2 = r2
    Replicas = {r1}
    Callers = {c1, c2}
    Home <- AllTogether
    Modes = {"allow", "acquire", "reserve"}
    Configs <- Faulty
    Burst = 2
    Refills = TRUE
    Cost = 2
    Timeout = 1
    MinPoll = 1
    MaxPoll = 3
    MaxRequests = 2
    MaxTime = 2
SPECIFICATION FairSpec
INVARIANT FallbackKeepsReplicaRate
PROPERTY LeaversReturn
CHECK_DEADLOCK FALSE
