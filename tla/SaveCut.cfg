SPECIFICATION Spec
CONSTANTS
    Saves = {s1, s2}
    Formats = {"json"}
    Modes = {"overwrite", "append"}
    BatchSize = 2
    MaxRows = 2
    Overlap = FALSE
    Faults = {"cut", "nested"}
PROPERTIES
    OkIsValidJson
