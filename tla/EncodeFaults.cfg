SPECIFICATION Spec
CONSTANTS
    MaxRowsPerBlock = 2
    MaxBytesPerBlock = 3
    MaxStreamBlocks = 8
    Workers = 2
    MaxWorkers = 256
    NoBlock = NoBlock
    Faults = {"write", "spawn", "panic"}
    MinLines = 4
    MaxLines = 4
    Shapes = {"r1", "r2", "bad", "reject"}
    Inputs <- MCInputs
INVARIANTS
    IInv
    OutputInOrder
    FooterMatchesFrames
    SuccessIsComplete
    SuccessIsGreedyCut
    FooterAfterAllThreads
    PanicSurfaces
PROPERTIES
    QuietAfterError
    StreamSpec
    CallReturns
