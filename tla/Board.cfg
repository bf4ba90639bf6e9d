SPECIFICATION Spec
CONSTANTS
    Wallets <- Registrants
    RegisteredAt <- Registrations
    MaxBlock = 2
    Chunk = 2
    MinChunk = 1
INVARIANTS
    FieldComplete
    BaselineStands
PROPERTIES
    ScanProgresses
CHECK_DEADLOCK FALSE
