SPECIFICATION Spec
CONSTANTS
    Roles = {TRUE, FALSE}
    Pids = {0, 1}
    MIN_CLIENT_INITIAL_LEN = 4
    MIN_PROBING_SIZE = 1
    ProbeLen = 3
    MAX_PROBING_TIMEOUTS = 2
    MaxAmplification = 3
    MaxQueue = 1
    Lens = {1, 2}
    MaxReceived = 2
    MaxFlight = 1
INVARIANTS
    AmplificationBound
    MigrationReported
    ValidationPursued
CHECK_DEADLOCK FALSE
