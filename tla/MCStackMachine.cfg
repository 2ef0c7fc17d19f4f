CONSTANTS
    WordBits = 2
    Word <- Words
    MAX_STACK = 4
    VERBOSE = TRUE
    BinaryOps <- AllBinaryOps
    UnaryOps <- AllUnaryOps
    BinaryResults <- Binary
    UnaryResults <- Unary
SPECIFICATION StackSpec
INVARIANT StackTypeOK
PROPERTIES ThrowKeepsStack ImplementsBoundedStack
CHECK_DEADLOCK FALSE
