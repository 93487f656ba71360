SPECIFICATION Spec
CONSTANTS
    Roles = {TRUE, FALSE}
    AppPkts = 3
    MaxPkts <- Pkts
    Kinds <- SpaceKinds
    Rtts <- Estimates
    Longest <- LongestEstimate
    MaxAckDelay = 0
    InitThresh = 1
    MaxThresh = 2
    MaxOutstanding = 1
    MaxBackoff = 1
    MaxChanges = 1
INVARIANTS
    Accounting
    TimerInTime
PROPERTIES
    TimeoutActs
CHECK_DEADLOCK FALSE
