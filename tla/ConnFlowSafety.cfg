SPECIFICATION Spec
CONSTANTS
    s1 = s1
    s2 = s2
    Streams <- TwoStreams
    ResetStreams <- OneStream
    AppLen <- TwoLengths
    InitMaxData = 2
    InitMaxStreamData = 2
    DefaultStreamWindow = 2
    DefaultConnWindow = 2
    MaxStreamWindow = 2
    MaxConnWindow = 3
    EmptyFrames = 2
    MaxLosses = 1
INVARIANTS
    TypeOK
    NoFlowControlError
    StreamCredit
    ConnCredit
    CountersAreSums
CHECK_DEADLOCK FALSE
