SPECIFICATION Spec
CONSTANTS
    Texts <- AllTexts
    Opcodes = {0}
    MaxBytes = 4
    MaxFunctions = 2
INVARIANTS
    TypeOK
    TokensTrue
    LinesTrue
    DecodeEnds
PROPERTY
    TokensAdvance
