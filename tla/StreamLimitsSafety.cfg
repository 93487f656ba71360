SPECIFICATION LimitFairSpec
CONSTANTS
    InitMaxStreams = 3
    StreamCount = 7
    MaxLimitLosses = 1
INVARIANTS
    NoStreamLimitError
    ConcurrentBound
PROPERTIES
    OpenedUnlessLost
CHECK_DEADLOCK FALSE
