CONSTANTS
    WordBits = 2
    Word <- Words
    MAX_STACK = 2
    VERBOSE = TRUE
    BinaryOps <- AllBinaryOps
    UnaryOps <- AllUnaryOps
    BinaryResults <- Binary
    UnaryResults <- Unary
    ByteBits = 2
    SizeMax = 63
    Var <- MCVar
    InitValue <- MCInitValue
    Memories <- MCMemories
    InitialMemories <- MCInitialMemories
    Load <- MCLoad
    Store <- MCStore
    Outside <- MCOutside
    Programs <- MCPrograms
SPECIFICATION Spec
PROPERTY JumpsUnconditionally
