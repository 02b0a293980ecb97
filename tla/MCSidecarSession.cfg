CONSTANTS
    t1 = t1
    t2 = t2
    Task = {t1, t2}
    MaxRequests = 1
    MaxStreams = 1
    StreamBuffer = 2
    MaxId = 2
    MaxStreamId = 2
SPECIFICATION FairSpec
INVARIANTS
    NoLeak
    AnsweredOrCancelled
    GivenUpIsCancelled
    StreamsEndOnce
PROPERTIES
    EndWakesWaiters
