CONSTANTS
    t1 = t1
    t2 = t2
    r1 = r1
    Reader = {r1}
    Target = {t1, t2}
    MaxBytes = 6
    SegmentBytes = 2
    MaxReadLines = 3
    MaxReadBytes = 4
    ReadLimit = {1, 4}
    FrameMaxLines = 2
    FrameMaxBytes = 3
    Size = {1, 3}
    MaxLines = 4
SPECIFICATION TailSpec
SYMMETRY Symmetry
INVARIANTS
    SegmentsJoin
    ReadsWhole
PROPERTIES
    SentInOrder
CHECK_DEADLOCK FALSE
