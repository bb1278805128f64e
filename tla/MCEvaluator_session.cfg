CONSTANTS
    Lines <- Sessions
    Fuel = 4
    InnerErrors = FALSE
SPECIFICATION Spec
INVARIANTS TypeOK AtTopLevel ModesClear
PROPERTY ImplementsLanguage
CHECK_DEADLOCK FALSE
