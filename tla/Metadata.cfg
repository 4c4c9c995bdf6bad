SPECIFICATION Spec
CONSTANTS
    PipeSize = 1
    MaxOutput = 2
    LineSize = 2
    Collected = {"stdout", "stderr"}
    MaxInput = 2
    Queries <- MCQueries
    Integral = {"track"}
    Textual = {"title"}
    Keys <- MCKeys
    Values <- MCValues
INVARIANTS
    TypeOK
    OutputComplete
    ResultIsTheChilds
    TagsAreFound
    ThrowsForNumbersOnly
PROPERTIES
    ExecReturns
