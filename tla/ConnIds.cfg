SPECIFICATION IdsSpec
CONSTANTS
    Limit = 2
    MaxSeq = 3
    MaxPaths = 2
    MaxResends = 2
INVARIANTS
    TablesBounded
    PathsLinked
    DroppedIsReleased
CHECK_DEADLOCK FALSE
