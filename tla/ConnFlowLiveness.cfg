SPECIFICATION FairSpec
CONSTANTS
    s1 = s1
    s2 = s2
    Streams <- OneStream
    ResetStreams = {}
    AppLen <- LongStream
    InitMaxData = 8
    InitMaxStreamData = 2
    DefaultStreamWindow = 2
    DefaultConnWindow = 12
    MaxStreamWindow = 3
    MaxConnWindow = 14
    EmptyFrames = 1
    MaxLosses = 2
PROPERTIES
    LimitsNeverShrink
    AllRead
CHECK_DEADLOCK FALSE
