SPECIFICATION EofSpec
CONSTANTS
    ByteBase = 16
    Magic = 224
    Version1 = 1
    KindTypes = 1
    KindCode = 2
    KindContainer = 3
    KindData = 15
    Terminator = 0
    MaxTypesSize = 8
    MaxCodeSections = 2
    MaxContainerSections = 2
    MaxInitCodeSize = 44
    MaxInputs = 7
    MaxOutputs = 8
    MaxStackIncrease = 63
    Bytecodes <- MCBytecodes
INVARIANTS
    AcceptsExactly
    SectionsAreTheBytes
    ExtraneousIsNamed
    TruncatedIsShort
    NeverPanics
CHECK_DEADLOCK FALSE
