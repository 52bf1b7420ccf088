\* A dry run, then committing runs.
SPECIFICATION Spec
CONSTANTS
    feb = feb
    mar = mar
    go2 = go2
    go3 = go3
    duck2 = duck2
    Months <- MCMonths
    Layouts = {go2}
    EngineOf <- MCEngineOf
    ShardCount <- MCShardCount
    RowsBefore <- MCRowsBefore
    MaxShards = 3
    Options <- RehearseThenCommit
    CommitEvery = 2
    HubBatch = 1
    MaxFaults = 0
    NoRun = NoRun
    Absent = Absent
    NoEngine = NoEngine
    Free = Free
INVARIANT
    LedgerTrue
CHECK_DEADLOCK FALSE
