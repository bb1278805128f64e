SPECIFICATION Spec
CONSTANTS
    Plain = {v1}
    Closure = {k1, k2}
    Script = Script
    Upvalue = {u1, u2}
    Cell = {c1, c2, c3, c4, c5, c6}
    Empty = Empty
    Closed = Closed
    StackSize = 4
    FramesLimit = 2
    MaxCaptures = 2
    MaxErrors = 1
SYMMETRY Symmetry
INVARIANTS
    TypeOK
    OpenListSorted
PROPERTY
    ImplementsVariables
