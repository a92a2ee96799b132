SPECIFICATION Spec
CONSTANTS
    MaxRowsPerBlock = 2
    MaxBytesPerBlock = 2
    MaxStreamBlocks = 3
    Workers = 2
    MaxWorkers = 256
    NoBlock = NoBlock
    Faults = {"write", "spawn", "panic"}
    Damages = {"none", "loose", "drop", "double", "swap", "corrupt", "cut", "torn", "shift", "long", "tail"}
    Files <- MCFiles
INVARIANTS
    IInv
    RowsInPlace
    SuccessIsWhole
    AgreesWithSequential
PROPERTIES
    QuietAfterError
    DecoderSpec
    CallReturns
