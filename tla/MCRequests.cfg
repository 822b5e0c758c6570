\* Every door, with the transport, the callers' contexts and a closing limiter.
CONSTANTS
    c1 = c1
    c2 = c2
    c3 = c3
    Callers = {c1, c2, c3}
    Doors <- Mixed
    Base <- Site
    Paths <- Named
    Sizes <- Bodies
    Start = 0
    Deadlines = {1, 3}
    RequestTimeout = 1
    Lag = 1
    MaxTime = 2
    Burst = 1
    Cost = 1
    Refills = TRUE
    maxBytes = 2
SPECIFICATION FairSpec
INVARIANTS RequestsInv AnyWindow NothingLeaks RegisteredOnce StatsAddUp NothingElsewhere
PROPERTIES ClosedMeansClosing WholeTimeout CutCallersReturn
CHECK_DEADLOCK FALSE
