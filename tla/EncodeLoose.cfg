SPECIFICATION Spec
CONSTANTS
    MaxRowsPerBlock = 2
    MaxBytesPerBlock = 4
    MaxStreamBlocks = 8
    Workers = 2
    MaxWorkers = 256
    NoBlock = NoBlock
    Faults = {}
    MinLines = 3
    MaxLines = 3
    Shapes = {"r1", "loose"}
    Inputs <- MCInputs
INVARIANTS
    SealedStreamsDecode
