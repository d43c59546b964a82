SPECIFICATION ParserSpec
CONSTANTS
    Limits = {0, 1, 2, 6}
    Widths = {1, 2}
    MaxLines = 5
    None = None
INVARIANTS
    QueryIsExact
    StreamIsExact
