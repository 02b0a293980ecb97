SPECIFICATION Spec
CONSTANTS
    s1 = s1
    s2 = s2
    main = main
    Stream <- Streams
    Poll <- Polling
    Window <- Windows
    Through <- OpenedThrough
    Limit = 1
    MaxData = 1
    MaxWrites = 1
    MaxEpoch = 1
INVARIANTS
    WindowsOwnTheirStreams
    StaleOnlyByLateOpen
PROPERTIES
    FramesContract
    EndsForGood
CHECK_DEADLOCK FALSE
