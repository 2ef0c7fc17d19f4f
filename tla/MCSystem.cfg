CONSTANTS
    WordBits = 2
    Word <- Words
    MAX_STACK = 2
    VERBOSE = FALSE
    BinaryOps <- AllBinaryOps
    UnaryOps <- AllUnaryOps
    BinaryResults <- Binary
    UnaryResults <- Unary
    ByteBits = 1
    SizeMax = 63
    Var <- MCVar
    InitValue <- MCInitValue
    Memories <- MCMemories
    InitialMemories <- MCInitialMemories
    Load <- MCLoad
    Store <- MCStore
    Outside <- MCOutside
    Programs <- MCPrograms
    CycleSettings = {0, 2}
    CounterMax = 2
    RunCap = 3
SPECIFICATION FairSystemSpec
INVARIANT CyclesAreWhole
PROPERTIES ImplementsProcess ForwardProgramsAreFair
