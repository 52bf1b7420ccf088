SPECIFICATION Spec
CONSTANTS
    Start = 1
    BundleEnd = 1
    LastMonth = 4
    Builtin <- MCBuiltin
    PageSize = 1
    Types <- MCTypes
    Unreadable = Unreadable
    Other = Other
    Dirs <- MCDirs
    Files <- MCFiles
    MaxShards = 2
    Absent = Absent
    Torn = Torn
    Partial = Partial
    EntityKinds <- BothKinds
    PullKinds <- OneKind
    PullArgs <- MCPullArgs
    Mixes <- MCMixes
    MaxReleases = 3
    NoReport = NoReport
INVARIANTS
    BlockedDataImported
CHECK_DEADLOCK FALSE
