CONSTANTS
    c1 = c1
    Stopper = {c1}
    Backoff = 1
    MaxRestarts = 2
    MaxSessions = 3
SPECIFICATION FairCallerSpec
INVARIANTS
    OneAtATime
PROPERTIES
    StopsHonoured
    NeverStale
    GoneIsTold
    ImplementsLifecycle
    StopReturns
CHECK_DEADLOCK FALSE
