SPECIFICATION Spec
CONSTANTS
    MaxRowsPerBlock = 1
    MaxBytesPerBlock = 2
    MaxStreamBlocks = 16
    Workers = 2
    MaxWorkers = 256
    NoBlock = NoBlock
    Faults = {}
    MinLines = 11
    MaxLines = 11
    Shapes = {"r1"}
    Inputs <- MCFullInputs
INVARIANTS
    BlocksConserved
    CleanInputSucceeds
PROPERTIES
    CallReturns
