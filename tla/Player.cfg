SPECIFICATION Spec
CONSTANTS
    Lines <- MCLines
    ChunkUnits = 2
    BufferSize = 4
    MaxChains = 2
    MaxPlays = 2
    MaxFaults = 1
INVARIANTS
    TypeOK
    PlaylistInOrder
    ChunksInOrder
    BufferBounded
    TitleIsHeard
PROPERTIES
    PlaysToTheEnd
CHECK_DEADLOCK FALSE
