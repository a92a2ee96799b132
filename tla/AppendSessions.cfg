SPECIFICATION Spec
CONSTANTS
    MaxRowsPerBlock = 2
    MaxBytesPerBlock = 3
    MaxStreamBlocks = 2
    MaxCalls = 6
    MaxDamages = 1
    Retries = FALSE
    Truncates = TRUE
    NoLine = NoLine
    Shapes = {"r1", "r2", "bad", "blank"}
    Lines <- MCLines
INVARIANTS
    SessionInSync
    IInv
    FinishedIsAllThere
    ReplayReadsRecovered
PROPERTIES
    RecoveredBlocksGrow
    LogSpec
