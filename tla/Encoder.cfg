SPECIFICATION Spec
CONSTANTS
    Rate = 75
    NChannels = 2
    NanoScale = 100
    TsModulus = 1024
    MaxFeed = 7
    MaxFed = 13
INVARIANTS
    TypeOK
    FramesFollowTheInput
    NothingLeftBehind
    OneFrameOfPadding
    TimestampsRise
PROPERTIES
    ClosedForGood
    CallsReturn
