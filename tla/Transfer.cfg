SPECIFICATION TransferSpec
CONSTANTS
    Cap = 2
    MaxBytes = 5
    Old = Old
    Files = 2
    Reads = {1, 4}
    Window = 2
    Keys = {k1, k2}
    None = None
INVARIANTS
    Typing
    BytesInOrder
    PartSizes
    AcknowledgedIsIntact
    RefusedForCause
    SignedByOneKey
PROPERTIES
    ImplementsPut
    CloseEnds
    TransferEnds
CHECK_DEADLOCK FALSE
