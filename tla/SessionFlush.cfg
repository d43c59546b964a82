SPECIFICATION Spec
CONSTANTS
    Calls = {c1, c2}
    None = None
    Names <- MCNames
    Faults = {"flush"}
INVARIANTS
    AckedFileParses
