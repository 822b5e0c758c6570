\* One replica, overlapping requests, a backend that always answers.
CONSTANTS
    c1 = c1
    c2 = c2
    r1 = r1
    r2 = r2
    Replicas = {r1}
    Callers = {c1, c2}
    Home <- AllTogether
    Modes = {"allow"}
    Configs <- Reliable
    Burst = 4
    Refills = TRUE
    Cost = 2
    Timeout = 3
    MinPoll = 1
    MaxPoll = 3
    MaxRequests = 4
    MaxTime = 6
SPECIFICATION Spec
PROPERTY ShadowRefusalIsProof
CHECK_DEADLOCK FALSE
