SPECIFICATION Spec
CONSTANTS
    Capacity = 2
    Drivers = {"sqlx", "clickhouse"}
    MaxRows = 9
    None = None
    DefaultLimit = 7
    DefaultBatch = 2
INVARIANTS
    OkMeansWhole
    ErrorNotSwallowed
    SealedIsWhole
    ErrorIsHonest
PROPERTIES
    SaveReturns
    ImplementsAtomicSave
