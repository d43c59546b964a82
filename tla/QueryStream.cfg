SPECIFICATION Spec
CONSTANTS
    Capacity = 2
    Drivers = {"sqlx", "duckdb", "clickhouse"}
    MaxRows = 6
    None = None
    DefaultLimit = 7
    DefaultBatch = 3
    LimitArgs <- MCLimitArgs
    BatchArgs <- MCBatchArgs
INVARIANTS
    InOrder
    CleanEndIsComplete
    ErrorSeenIsRecorded
    BatchShape
    SilentStream
    CountOvershoot
PROPERTIES
    CancelReleases
    ReaderSettles
    ImplementsRowStream
