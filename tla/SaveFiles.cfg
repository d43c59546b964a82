SPECIFICATION Spec
CONSTANTS
    Saves = {s1, s2, s3}
    Formats = {"csv", "excel", "json", "orc", "parquet"}
    Modes = {"overwrite", "append"}
    BatchSize = 2
    MaxRows = 2
    Overlap = FALSE
    Faults = {"cut", "nested"}
SYMMETRY AnyOrder
PROPERTIES
    OkIsReadable
    AppendKeepsContent
    ImplementsExportFile
