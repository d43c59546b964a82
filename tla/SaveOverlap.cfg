SPECIFICATION Spec
CONSTANTS
    Saves = {s1, s2}
    Formats = {"csv"}
    Modes = {"append"}
    BatchSize = 2
    MaxRows = 2
    Overlap = TRUE
    Faults = {"cut"}
INVARIANTS
    AppendsLoseNothing
