SPECIFICATION JitSpec
CONSTANTS
    Bits = 6
    ByteBits = 2
    WordLimit = 64
    PcLimit = 64
    IntLimit = 64
    Fold <- FoldWord
    Apply <- Template
    Meaning <- EvmWord
    AluOps = {}
    Pushes = {}
    Depths = {}
    HighOps = {}
    MaxOps = 12
    MaxPc = 12
    StackSize = 4
    CountLimit = 1024
    Codes <- MCReturn
    GasLimits = {7, 40}
    Stacks <- MCStacks
    Outs = {1}
    Rets <- MCRets
    Uses = {0, 1}
    ExitRets <- MCExitRets
    JumpLimit = 64
PROPERTIES
    ImplementsEvm
CHECK_DEADLOCK FALSE
