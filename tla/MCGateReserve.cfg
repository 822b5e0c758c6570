\* A reservation for later, over a backend that always answers.
CONSTANTS
    c1 = c1
    c2 = c2
    r1 = r1
    r2 = r2
    Replicas = {r1}
    Callers = {c1}
    Home <- AllTogether
    Modes = {"reserve"}
    Configs <- Reliable
    Burst = 2
    Refills = TRUE
    Cost = 2
    Timeout = 3
    MinPoll = 1
    MaxPoll = 3
    MaxRequests = 2
    MaxTime = 6
SPECIFICATION Spec
INVARIANT ShadowOnlyRefuses
CHECK_DEADLOCK FALSE
