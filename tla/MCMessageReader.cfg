SPECIFICATION ReaderSpec
CONSTANTS
    Frames <- MCFrames
    MaxFrames = 2
    Limit = 2
    SignedMax = 3
    UnsignedMax = 4
    MaxInterrupts = 1
INVARIANTS
    AbortsExplained
    StaysToTheEnd
PROPERTIES
    ReadsFrames
    ReaderStops
CHECK_DEADLOCK FALSE
