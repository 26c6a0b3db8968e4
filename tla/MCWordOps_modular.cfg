SPECIFICATION WordSpec
CONSTANTS
    Bits = 6
    ByteBits = 2
    Operations = {"addmod", "mulmod"}
    Gas = {}
INVARIANTS
    ModularExact
CHECK_DEADLOCK FALSE
