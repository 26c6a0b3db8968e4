SPECIFICATION FoldSpec
CONSTANTS
    Bits = 4
    WordLimit = 16
    PcLimit = 16
    IntLimit = 16
    Fold <- FoldWord
    AluOps = {"add"}
    Pushes <- MCOnePush
    Depths = {}
    HighOps = {}
    MaxOps = 6
    MaxPc = 11
    StackSize = 6
    CountLimit = 1024
INVARIANTS
    FoldedCharged
CHECK_DEADLOCK FALSE
