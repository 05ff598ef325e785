SPECIFICATION HlsSpec
CONSTANTS
    Clients = {}
    Cap = 2
    MaxRead = 2
    MaxBurst = 2
    MaxEmpty = 0
    MaxHead = 3
    MaxGen = 2
    Window = 2
    NoChannel = NoChannel
INVARIANTS WindowInOrder GapsAreMarked
PROPERTIES GapIsNoticed ResetNoticed StopEnds
CHECK_DEADLOCK FALSE
