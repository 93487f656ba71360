SPECIFICATION Spec
CONSTANTS
    MAX_INLINE_CAPACITY = 3
    MIN_TO_INLINE = 1
    BYTE = 2
    WINDOW = 4
    MAX_ACK_RANGES = 3
    Bounds <- MCBounds
INVARIANTS
    AcceptsExactly
    AcksNewest
    KeysFollow
