SPECIFICATION BatchSpec
CONSTANTS
    Bits = 4
    WordLimit = 16
    PcLimit = 16
    IntLimit = 16
    Fold <- FoldWord
    AluOps = {"add"}
    Pushes <- MCPushes
    Depths = {1}
    HighOps <- MCBatchOps
    MaxOps = 5
    MaxPc = 6
    StackSize = 5
    CountLimit = 1024
INVARIANTS
    EveryOverflowCaught
CHECK_DEADLOCK FALSE
