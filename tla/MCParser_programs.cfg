SPECIFICATION Spec
CONSTANTS
    Programs <- Checked
    LOCALS_LIMIT = 5
    UPVALUES_LIMIT = 2
    GLOBALS_LIMIT = 5
    CONST_LIMIT = 4
    PARAMS_LIMIT = 4
    ARRAY_LIMIT = 5
    MAP_LIMIT = 5
    COND_LIMIT = 3
    UINT8_MAX = 3
    UINT16_MAX = 100
CHECK_DEADLOCK FALSE
INVARIANTS
    TypeOK
    Verified
    Intact
    MeansWhatIsWritten
    LinesTrue
