SPECIFICATION Spec
CONSTANTS
    Programs <- Operands
    LOCALS_LIMIT = 256
    UPVALUES_LIMIT = 256
    GLOBALS_LIMIT = 256
    CONST_LIMIT = 256
    PARAMS_LIMIT = 256
    ARRAY_LIMIT = 65536
    MAP_LIMIT = 65536
    COND_LIMIT = 256
    UINT8_MAX = 255
    UINT16_MAX = 65535
CHECK_DEADLOCK FALSE
INVARIANTS
    Verified
