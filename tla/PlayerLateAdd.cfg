SPECIFICATION Spec
CONSTANTS
    Lines <- MCLines
    ChunkUnits = 2
    BufferSize = 4
    MaxChains = 1
    MaxPlays = 1
    MaxFaults = 0
INVARIANT AddedWhilePlayingIsHeard
CHECK_DEADLOCK FALSE
