SPECIFICATION AnySpec
CONSTANTS
    Bits = 4
    WordLimit = 16
    PcLimit = 16
    IntLimit = 16
    Fold <- FoldWord
    AluOps = {"add", "iszero"}
    Pushes <- MCPushes
    Depths <- MCDepths
    HighOps <- MCHighOps
    MaxOps = 5
    MaxPc = 6
    StackSize = 4
    CountLimit = 1024
INVARIANTS
    TypeOK
    CacheContiguous
    NoNilSource
    DefinedBeforeUse
    LoadsMatchHeap
    ChecksIncrease
    BatchExact
    OverflowsCaught
    ChargedOnce
    TargetsLabelled
CHECK_DEADLOCK FALSE
