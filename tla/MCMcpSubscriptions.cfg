SPECIFICATION Spec
CONSTANTS
    u1 = u1
    u2 = u2
    Uri <- Uris
    MAX_SUBSCRIPTIONS = 1
    MaxWatches = 2
    MaxStreams = 2
INVARIANTS
    WatchesMatch
PROPERTIES
    PriorKept
    Notified
CHECK_DEADLOCK FALSE
