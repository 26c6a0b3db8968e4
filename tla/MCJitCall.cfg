SPECIFICATION CalledSpec
CONSTANTS
    Bits = 9
    ByteBits = 3
    WordLimit = 512
    PcLimit = 64
    IntLimit = 128
    Fold <- FoldWord
    Apply <- Template
    Meaning <- EvmWord
    AluOps = {}
    Pushes = {}
    Depths = {}
    HighOps = {}
    MaxOps = 12
    MaxPc = 12
    StackSize = 4
    CountLimit = 1024
    Codes <- MCCodes
    GasLimits = {7, 40}
    Stacks <- MCStacks
    Outs = {1}
    Rets <- MCRets
    Uses = {0, 1}
    ExitRets <- MCExitRets
    JumpLimit = 256
INVARIANTS
    TargetsAreJumpDests
    PcIsOffset
PROPERTIES
    ImplementsEvm
    CallReturns
CHECK_DEADLOCK FALSE
