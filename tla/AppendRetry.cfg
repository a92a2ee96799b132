SPECIFICATION Spec
CONSTANTS
    MaxRowsPerBlock = 2
    MaxBytesPerBlock = 3
    MaxStreamBlocks = 2
    MaxCalls = 6
    MaxDamages = 0
    Retries = TRUE
    Truncates = TRUE
    NoLine = NoLine
    Shapes = {"r1", "r2"}
    Lines <- MCLines
INVARIANTS
    FinishedIsAllThere
