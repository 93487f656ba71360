SPECIFICATION Spec
CONSTANTS
    SEND_BUFFER_SIZE = 2
    MaxLen = 3
    Rooms = {1, 3}
    MaxPkts = 2
    MaxLosses = 1
    UseFec = TRUE
    MayShutdown = TRUE
    MayStop = TRUE
    TightPackets = TRUE
    MaxData <- TwoLimits
INVARIANTS
    ChunksInOrder
    FinalSizeStable
    FlushableQueued
PROPERTIES
    ImplementsQueue
CHECK_DEADLOCK FALSE
