CONSTANTS
    ByteBits = 2
    SizeMax = 63
    Proc <- Processes
    Data <- MCData
    Configs <- MCConfigs
    WithWide = FALSE
SPECIFICATION Spec
INVARIANTS SharedTypeOK WrappedOnlyLeaves LostOnlyInOverlap
PROPERTY ImplementsRegisters
CHECK_DEADLOCK FALSE
