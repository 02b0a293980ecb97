\* A call ends for good, and a forward may end for good: the runs are finite.
SPECIFICATION MCSpec
CONSTANTS
    r1 = r1
    r2 = r2
    Run = {r1, r2}
    f1 = f1
    p1 = p1
    Forward <- Forwards
    Page <- OnePage
    MAX_ATTEMPTS = 3
    MaxQueue = 3
    MaxReloads = 2
INVARIANTS
    OneKeeper
    ResultsStand
    EndIsFinal
    HeldIsShown
PROPERTIES
    ScansEnd
    GivesUpAtLast
CHECK_DEADLOCK FALSE
