SPECIFICATION Spec
CONSTANTS
    BatchSize = 2
    MaxRows = 4
INVARIANTS
    FirstBatchWhole
    NarrowestType
    LostOnlyIfWider
    StableIsExact
