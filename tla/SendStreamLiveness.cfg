SPECIFICATION FairSpec
CONSTANTS
    SEND_BUFFER_SIZE = 2
    MaxLen = 2
    Rooms = {1, 3}
    MaxPkts = 2
    MaxLosses = 2
    UseFec = FALSE
    MayShutdown = FALSE
    MayStop = FALSE
    TightPackets = FALSE
    MaxData <- OneLimit
PROPERTIES
    AllReceived
    Completes
CHECK_DEADLOCK FALSE
