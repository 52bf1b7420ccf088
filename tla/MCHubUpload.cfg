SPECIFICATION FairSpec
CONSTANTS
    NumOps = 3
    BatchSize = 2
    MaxAttempts = 3
INVARIANTS
    TypeOK
    NoDanglingPointer
PROPERTIES
    CancelStopsHub
    Returns
    UploadsInOrder
CHECK_DEADLOCK FALSE
