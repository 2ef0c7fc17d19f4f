CONSTANTS
    ByteBits = 2
    SizeMax = 63
    Proc <- Processes
    Data <- MCData
    Configs <- MCConfigs
    WithWide = TRUE
SPECIFICATION Spec
PROPERTY StoredReadsBack
CHECK_DEADLOCK FALSE
