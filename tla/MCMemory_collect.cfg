\* The ordinary build: a collection starts when the threshold is crossed.
SPECIFICATION FairSpec
CONSTANTS
    Objects = {o1, o2, o3}
    RootGroups = {stack}
    Kinds = {"string", "array"}
    NoKind = NoKind
    InitialNextGc = 3
    GrowthFactor = 2
    StressGc = FALSE
INVARIANTS
    TypeOK
    NoDangling
    TriColour
    CleanMarks
    Accounting
PROPERTIES
    ImplementsHeap
    CollectionEnds
