SPECIFICATION Spec
CONSTANTS
    MaxRowsPerBlock = 1
    MaxBytesPerBlock = 2
    MaxStreamBlocks = 8
    Workers = 2
    MaxWorkers = 256
    NoBlock = NoBlock
    Faults = {}
    MinLines = 4
    MaxLines = 4
    Shapes = {"r1", "bad"}
    Inputs <- MCInputs
INVARIANTS
    WorkerErrorSurfaces
