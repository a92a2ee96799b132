SPECIFICATION Spec
CONSTANTS
    MaxRowsPerBlock = 1
    MaxBytesPerBlock = 2
    MaxStreamBlocks = 2
    Workers = 2
    MaxWorkers = 256
    NoBlock = NoBlock
    Faults = {}
    MinLines = 3
    MaxLines = 3
    Shapes = {"r1"}
    Inputs <- MCInputs
INVARIANTS
    SealedStreamsInspect
