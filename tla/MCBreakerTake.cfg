\* gate.Take: every call ends within its timeout, a tenth of the cooldown.
CONSTANTS
    Calls = {c1, c2, c3}
    Threshold = 2
    Cooldown = 3
    MaxCall = 1
    Parking = FALSE
    MaxTime = 6
SPECIFICATION FairSpec
INVARIANTS BreakerInv ProbeIsAlone ProbeIsOwed
PROPERTY ProbeResolves
CHECK_DEADLOCK FALSE
