SPECIFICATION Spec
CONSTANTS
    Ids <- MCIds
    Scenarios <- MCScenarios
    MaxStreamsBidi = 2
    MaxStateBuf = 4
    BufSizes = {1, 8}
INVARIANTS
    NothingForgotten
    DeliveredInOrder
    Verdict
PROPERTIES
    EndIsLast
