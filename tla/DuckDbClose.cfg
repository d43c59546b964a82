SPECIFICATION ReadingSpec
CONSTANTS
    Streams = {s1}
    MaxBatches = 4
    Capacity = 2
    MaxCalls = 1
    Js = Js
    Nobody = Nobody
CHECK_DEADLOCK FALSE
PROPERTIES
    CloseReturns
