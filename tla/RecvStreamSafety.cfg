SPECIFICATION Spec
CONSTANTS
    MaxLen = 6
    Bidi = TRUE
    MayReset = TRUE
    MayShutdown = TRUE
INVARIANTS
    StoredIsUnread
    NotStuck
    FinMeansAll
    EndReported
CHECK_DEADLOCK FALSE
