CONSTANTS
    Text <- MCText
    Files <- MCFiles
    Word <- MCWord
    BinaryOps <- MCBinaryOps
    UnaryOps <- MCUnaryOps
    Numeral <- MCNumeral
    Negative <- MCNegative
    AtParts <- MCAtParts
    DotParts <- MCDotParts
    Label <- MCLabel
SPECIFICATION Spec
INVARIANTS LoaderTypeOK LoadedIsWellFormed SectionsAreBlocks SettingsApplied NamesUnambiguous ConstantsGivenOnce OnlyUnknownLinesMissing
