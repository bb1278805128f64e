SPECIFICATION Spec
CONSTANTS
    Object = {o1, o2, o3, o4}
    Nil = Nil
    Void = Void
    Global = {g1}
    Itself = Itself
    StackSize = 4
    FramesLimit = 2
    Collections = {"array"}
    MaxElements = 1
    UnrootedCons = FALSE
    UnrootedX = FALSE
    UnrootedSlots = FALSE
SYMMETRY Symmetry
INVARIANTS
    TypeOK
    NoDangling
CONSTRAINT LastForUpvalues
