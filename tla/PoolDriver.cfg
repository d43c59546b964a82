SPECIFICATION Spec
CONSTANTS
    Calls = {c1, c2}
    Closers = {k1, k2}
    MaxConnections = 1
INVARIANTS
    NoHoldAndWait
    CloseIsFinal
    LateCallRefused
PROPERTIES
    CallsSettle
    CloseReturns
