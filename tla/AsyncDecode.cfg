SPECIFICATION Spec
CONSTANTS
    MaxRowsPerBlock = 2
    MaxBytesPerBlock = 2
    MaxStreamBlocks = 5
    Workers = 2
    Faults = {"sink", "spawn", "panic"}
    Sizes <- MCSizes
    Files <- MCFiles
INVARIANTS
    AgreesWithSequential
    FailureKeepsWholeBatches
    ReadAheadIsOneBatch
PROPERTIES
    DecoderSpec
