SPECIFICATION Spec
CONSTANTS
    PipeSize = 1
    MaxOutput = 1
    LineSize = 2
    Collected = {"stderr"}
    ReadSizes = {1}
    DrainSize = 1
INVARIANT OnlyTheChildIsSignalled
