CONSTANTS
    WordBits = 2
    Word <- Words
    MAX_STACK = 4
    VERBOSE = FALSE
    BinaryOps <- AllBinaryOps
    UnaryOps <- AllUnaryOps
    BinaryResults <- Binary
    UnaryResults <- Unary
    ByteBits = 1
    SizeMax = 63
    Var <- ToggleVar
    InitValue <- ToggleInitValue
    Memories <- ToggleMemories
    InitialMemories <- ToggleInitialMemories
    Load <- ToggleLoad
    Store <- ToggleStore
    Outside <- ToggleOutside
    Programs <- TogglePrograms
SPECIFICATION ToggleSpec
INVARIANT TogglesOnRisingEdge
