\* Two Close or Shutdown calls race three operations and the sweep.
CONSTANTS
    Ops = {o1, o2, o3}
    Streams = {o1}
    Evicts = {o3}
    Closers = {shut, close}
    Graceful = {shut}
    Persists = TRUE
SPECIFICATION FairSpec
INVARIANTS
    TypeOK
    LifecycleInv
    StoreUsedOnlyWhileOpen
    ReturnMeansClosed
    NoChargeLost
    GracefulUntilForced
    SameAnswer
PROPERTIES
    NoAddDuringWait
    DrainsThenCloses
    ClosersReturn
CHECK_DEADLOCK FALSE
