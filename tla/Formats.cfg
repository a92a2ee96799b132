SPECIFICATION Spec
CONSTANTS
    WordBits = 8
    ByteBits = 4
    Err = Err
    Null = Null
    Wrong = Wrong
    MaxDictionary = 2
    MaxDecodedBytes = 20
    MaxDecodedValues = 3
    MaxCollectionEntries = 3
    NumberLists <- MCNumberLists
    ByteLists <- MCByteLists
    StringLists <- MCStringLists
    NumberColumns <- MCNumberColumns
    StringColumns <- MCStringColumns
    FlagColumns <- MCFlagColumns
    Tables <- MCTables
    Queries <- MCQueries
    Evolutions <- MCEvolutions
    Migrations <- MCMigrations
    Indexes <- MCIndexes
INVARIANTS
    CodecsRoundTrip
    ScanIsRightOrRefused
    RecoveryKeepsPrefix
    EvolutionKeepsIdentity
    SeeksAgree
