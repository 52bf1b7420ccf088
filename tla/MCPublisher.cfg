\* Committing runs, one layout, two months of 3 and 1 shards.
SPECIFICATION FairSpec
CONSTANTS
    feb = feb
    mar = mar
    go2 = go2
    go3 = go3
    duck2 = duck2
    Months <- MCMonths
    Layouts = {go2}
    EngineOf <- MCEngineOf
    ShardCount <- MCShardCount
    RowsBefore <- MCRowsBefore
    MaxShards = 3
    Options <- CommitRuns
    CommitEvery = 2
    HubBatch = 1
    MaxFaults = 3
    NoRun = NoRun
    Absent = Absent
    NoEngine = NoEngine
    Free = Free
INVARIANTS
    TypeOK
    LedgerTrue
    ProgressBacked
    BatchOnDisk
PROPERTIES
    DropsOnlyPublished
    LedgerKeepsRows
    CleanRunPublishes
CHECK_DEADLOCK FALSE
