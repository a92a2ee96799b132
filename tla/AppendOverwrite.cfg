SPECIFICATION Spec
CONSTANTS
    MaxRowsPerBlock = 2
    MaxBytesPerBlock = 3
    MaxStreamBlocks = 8
    MaxCalls = 6
    MaxDamages = 1
    Retries = FALSE
    Truncates = FALSE
    NoLine = NoLine
    Shapes = {"r1", "r2"}
    Lines <- MCLines
INVARIANTS
    FinishedIsAllThere
