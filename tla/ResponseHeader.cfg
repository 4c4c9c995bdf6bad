SPECIFICATION Spec
CONSTANTS
    BufSize = 3
    ErrorChunks = 1
    ErrorRest = 2
    MaxBody = 12
    Kinds = {"failing data"}
INVARIANT HeaderSentOnce
