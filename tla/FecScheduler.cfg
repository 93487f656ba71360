SPECIFICATION FairSpec
CONSTANTS
    s1 = s1
    s2 = s2
    Streams = {s1, s2}
    AppLen = 1
    ResetStreams = {s1}
    DgramsNegotiated = FALSE
    Algorithms = {"background", "bursts"}
    SymbolSize = 5
    BurstSize = 5
    SmallFlight = 15
    Losses <- LossInfo
    Cwnd = 3
    MaxLosses = 1
    MaxProbes = 1
INVARIANTS
    RepairsCounted
    BurstSizeExact
PROPERTIES
    RepairProtects
    TailProtected
CHECK_DEADLOCK FALSE
