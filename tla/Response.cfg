SPECIFICATION Spec
CONSTANTS
    BufSize = 3
    ErrorChunks = 1
    ErrorRest = 2
    MaxBody = 12
    Kinds = {"message", "data", "page", "failing data", "failing request", "none"}
INVARIANTS
    TypeOK
    AnswerIsFramed
    BodyArrives
