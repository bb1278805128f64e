SPECIFICATION Spec
CONSTANTS
    Object = {o1, o2, o3}
    Nil = Nil
    Void = Void
    Global = {g1}
    Itself = Itself
    StackSize = 4
    FramesLimit = 2
    Collections = {"array", "map"}
    MaxElements = 2
    UnrootedCons = TRUE
    UnrootedX = FALSE
    UnrootedSlots = FALSE
SYMMETRY Symmetry
INVARIANT
    NoDangling
