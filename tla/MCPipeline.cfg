SPECIFICATION Spec
CONSTANTS
    d1 = d1
    d2 = d2
    p1 = p1
    p2 = p2
    Committer = c
    Solo = solo
    Free = Free
    N = 3
    Modes <- FourModes
    Downloaders <- TwoDownloaders
    Processors <- TwoProcessors
    MaxDecodes = 1
    DiskRoom = 1
    StallTicks = 1
    MaxFaults = 1
INVARIANTS
    TypeOK
    NoSendOnClosed
    OneOwner
    GateBalanced
    DiskOvershoot
    CleanReturn
PROPERTIES
    Terminates
CHECK_DEADLOCK FALSE
