SPECIFICATION Spec
CONSTANTS
    Streams = {s1, s2}
    MaxBatches = 3
    Capacity = 2
    MaxCalls = 2
    Js = Js
    Nobody = Nobody
CHECK_DEADLOCK FALSE
INVARIANTS
    UsedWhileOpen
PROPERTIES
    PoisonBarsEveryone
    CancelFreesLock
    CallAnswered
