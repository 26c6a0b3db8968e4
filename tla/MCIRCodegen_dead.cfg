SPECIFICATION FlowSpec
CONSTANTS
    Bits = 4
    WordLimit = 16
    PcLimit = 16
    IntLimit = 16
    Fold <- FoldWord
    AluOps = {}
    Pushes <- MCPushes
    Depths = {}
    HighOps = {}
    MaxOps = 3
    MaxPc = 6
    StackSize = 6
    CountLimit = 1024
INVARIANTS
    LiveBranchesKept
CHECK_DEADLOCK FALSE
