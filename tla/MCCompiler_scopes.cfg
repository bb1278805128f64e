SPECIFICATION Spec
CONSTANTS
    Name = {x, y}
    LOCALS_LIMIT = 3
    UPVALUES_LIMIT = 2
    MaxNesting = 5
    MaxFunctions = 3
    MaxParams = 1
    BlocksAnywhere = FALSE
    Continues = FALSE
    Operands = FALSE
SYMMETRY Symmetry
INVARIANTS
    TypeOK
    SlotsAgree
    NamesResolve
    Balanced
    CapturesSound
