SPECIFICATION Spec
CONSTANTS
    MaxRowsPerBlock = 2
    MaxBytesPerBlock = 4
    MaxStreamBlocks = 4
    MaxSegmentBytes = 6
    MaxBlocksPerSegment = 1
    WordBits = 8
    ByteBits = 4
    MaxDictionary = 2
    MaxDecodedBytes = 20
    MaxDecodedValues = 3
    MaxCollectionEntries = 2
    Null = Null
    Wrong = Wrong
    Err = Err
    Absent = Absent
    Procs = {1, 2, 3}
    MaxSegments = 5
    MaxPowerLosses = 1
    Commands <- MCCommands
    Starts <- MCStarts
INVARIANTS
    LogIsWhole
    LostRowsMeanOverlap
    RepairedIsWhole
    SegmentsConserveRows
PROPERTIES
    OutputsStay
