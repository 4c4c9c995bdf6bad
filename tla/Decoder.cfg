SPECIFICATION Spec
CONSTANTS
    PipeSize = 2
    MaxOutput = 3
    LineSize = 2
    Collected = {"stderr"}
    ReadSizes = {1, 2, 4}
    DrainSize = 2
INVARIANTS
    TypeOK
    ShortReadMeansEof
    NothingLeft
    StaysAlive
    SignalsReachTheChild
PROPERTIES
    Teardown
