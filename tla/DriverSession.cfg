SPECIFICATION DriverSpec
CONSTANTS
    Calls = {c1, c2}
    None = None
    Names = {None}
    MaxWaits = 2
    Faults = {"create", "write", "rename", "crash"}
INVARIANTS
    FileParses
    AckedIsOnDisk
    AutoNamesDistinct
    SessionIsHonest
    RealTimeOrder
PROPERTIES
    EveryCallTold
