SPECIFICATION WordSpec
CONSTANTS
    Bits = 6
    ByteBits = 2
    Operations <- AllOperations
    Gas <- MCGas
INVARIANTS
    ComputesEvm
    BindingsComputeEvm
CHECK_DEADLOCK FALSE
