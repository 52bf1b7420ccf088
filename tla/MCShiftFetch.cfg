SPECIFICATION FairSpec
CONSTANTS
    Archives <- MCArchives
    Spans <- MCSpans
    MonthStart <- MCMonthStart
    MinEpoch = 1
    Now = 7
    PageSize = 2
    Workers = 2
    MaxRetries = 1
    Longest = 3
INVARIANTS
    TypeOK
    EachRecordOnce
    AllOrNothing
    OnlyBoundariesLost
PROPERTIES
    Returns
CHECK_DEADLOCK FALSE
