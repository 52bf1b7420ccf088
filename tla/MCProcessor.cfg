SPECIFICATION FairSpec
CONSTANTS
    Absent = Absent
    Torn = Torn
    Longest = 4
    Widest = 3
    MaxCalls = 3
    Jobs <- MCJobs
INVARIANTS
    TypeOK
    ShardsExact
    ReportedOnDisk
PROPERTIES
    Streams
    AllRowsLand
CHECK_DEADLOCK FALSE
