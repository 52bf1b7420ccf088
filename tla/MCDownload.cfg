SPECIFICATION FairSpec
CONSTANTS
    NumPieces = 6
    Patience <- MCPatience
    MaxCalls = 2
INVARIANTS
    TypeOK
    WholeAtDest
PROPERTIES
    KeepsPieces
    KeepsWhole
    Returns
CHECK_DEADLOCK FALSE
