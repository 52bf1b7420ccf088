\* A file at the root of its torrent, and a call after one that gave up.
SPECIFICATION Spec
CONSTANTS
    NumPieces = 6
    Patience <- MCPatience
    MaxCalls = 2
INVARIANT
    AcceptedIsWhole
CHECK_DEADLOCK FALSE
