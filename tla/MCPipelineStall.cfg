\* A stall in a sequential run, and what the run returns.
SPECIFICATION Spec
CONSTANTS
    d1 = d1
    d2 = d2
    p1 = p1
    p2 = p2
    Committer = c
    Solo = solo
    Free = Free
    N = 2
    Modes <- SequentialCommit
    Downloaders = {d1}
    Processors = {p1}
    MaxDecodes = 1
    DiskRoom = 2
    StallTicks = 1
    MaxFaults = 0
INVARIANT
    StallReported
CHECK_DEADLOCK FALSE
