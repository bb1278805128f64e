---------------------------- MODULE Memory_proofs ----------------------------
(***************************************************************************)
(* Proofs about Memory, for any set of addresses, any root tables and any  *)
(* collection threshold: the types, the absence of dangling pointers, the  *)
(* tri-colour invariant, and that the collector implements Heap.           *)
(***************************************************************************)
EXTENDS Memory, Reachability_proofs, FiniteSetTheorems

-----------------------------------------------------------------------------
\* The inductive invariant, in parts

Marking == phase \in {"mark_roots", "trace_references"}

\* Nothing is known of an address that holds no object.
Blank ==
    /\ \A o \in Objects : o \notin heap => refs[o] = {} /\ kind[o] = NoKind
    /\ \A o \in pinned : refs[o] = {} /\ kind[o] = making
    /\ \A o \in heap : kind[o] = "string" => refs[o] = {}

\* The sets of the collector are made of objects.
Contained ==
    /\ marked \subseteq heap
    /\ gray \subseteq marked
    /\ unswept \subseteq heap
    /\ pinned \subseteq heap

\* Where the constructor in progress stands in each phase.
Control ==
    /\ phase = "client" => making = NoKind /\ pinned = {}
    /\ phase # "client" => making \in Kinds
    /\ pinned # {} => making \in HeaderFirst /\ call = 2 /\ \E o \in Objects : pinned = {o}
    /\ making \in HeaderFirst /\ call = 2 => pinned # {}
    /\ phase # "mark_roots" => rootsLeft = {}
    /\ phase # "sweep" => unswept = {}
    /\ phase \in {"mark_roots", "trace_references", "sweep"} => ~gc_off

\* What has been marked, and why.
Colours ==
    /\ Marking =>
        /\ pinned \subseteq marked
        /\ \A g \in RootGroups \ rootsLeft : roots[g] \subseteq marked
        /\ \A o \in marked \ gray : refs[o] \subseteq marked
        /\ marked \subseteq Reachable \cup pinned
        /\ \A o \in gray : kind[o] # "string"
    /\ phase = "sweep" => Live = Reachable \cup pinned

IInv ==
    /\ TypeOK
    /\ Blank
    /\ Contained
    /\ Control
    /\ CleanMarks
    /\ NoDangling
    /\ Colours

-----------------------------------------------------------------------------
\* Facts that follow from the invariant in one state

\* The roots are objects' addresses.
LEMMA RootSetType ==
    ASSUME TypeOK
    PROVE  RootSet \subseteq Objects
BY DEF TypeOK, RootSet

\* Outside a sweep, whatever the client may store is an object.
LEMMA UsableInHeap ==
    ASSUME TypeOK, NoDangling, phase # "sweep", heap \subseteq Objects
    PROVE  Usable \subseteq heap
<1>1. RootSet \subseteq heap /\ strings \subseteq heap /\ Closed(heap, refs)
    BY DEF NoDangling, Live
<1>2. refs \in [Objects -> SUBSET Objects]
    BY DEF TypeOK
<1>3. Reachable \subseteq heap
    BY <1>1, <1>2, ReachableIsLeast DEF Reachable
<1> QED
    BY <1>1, <1>3 DEF Usable

\* When everything gray has been blackened, what is marked is what has to be
\* kept: the two inclusions are what a collector must not get wrong.
LEMMA MarkedIsReachable ==
    ASSUME IInv, phase = "trace_references", gray = {}
    PROVE  marked = Reachable \cup pinned
<1>1. refs \in [Objects -> SUBSET Objects] /\ marked \in SUBSET Objects
    BY DEF IInv, TypeOK
<1>2. RootSet \subseteq marked
    BY DEF IInv, Control, Colours, Marking, RootSet
<1>3. Closed(marked, refs)
    BY DEF IInv, Colours, Marking, Closed
<1>4. Reachable \subseteq marked
    BY <1>1, <1>2, <1>3, ReachableIsLeast DEF Reachable
<1>5. pinned \subseteq marked /\ marked \subseteq Reachable \cup pinned
    BY DEF IInv, Colours, Marking
<1> QED
    BY <1>4, <1>5

-----------------------------------------------------------------------------
\* The initial states

LEMMA InitIInv == Init => IInv
<1> SUFFICES ASSUME Init PROVE IInv
    OBVIOUS
<1> USE DEF Init
<1>1. TypeOK
    <2>1. InitialNextGc \in Int /\ 0 \in Int /\ 1 \in 1..2
        BY SizesAssumption
    <2> QED
        BY <2>1 DEF TypeOK
<1>2. Blank /\ Contained /\ Control /\ CleanMarks /\ Colours
    BY DEF Blank, Contained, Control, CleanMarks, Colours, Marking
<1>3. NoDangling
    BY DEF NoDangling, Live, RootSet, Closed
<1> QED
    BY <1>1, <1>2, <1>3 DEF IInv

-----------------------------------------------------------------------------
\* allocate() and the constructors

LEMMA NewIInv ==
    ASSUME IInv, NEW k \in Kinds, New(k)
    PROVE  IInv'
<1> USE DEF IInv, New, Allocate
<1>1. TypeOK'
    BY DEF TypeOK
<1>2. Blank' /\ Contained' /\ CleanMarks'
    BY DEF Blank, Contained, CleanMarks, Control
<1>3. Control'
    BY DEF Control, Contained
<1>4. NoDangling'
    BY DEF NoDangling, Live, RootSet
<1>5. Colours'
    BY DEF Colours, Marking, CleanMarks, Control, Contained
<1> QED
    BY <1>1, <1>2, <1>3, <1>4, <1>5

LEMMA NewHeaderIInv ==
    ASSUME IInv, NewHeader
    PROVE  IInv'
<1> USE DEF IInv, NewHeader, Allocate
<1>1. TypeOK'
    BY DEF TypeOK
<1>2. pinned = {}
    BY DEF Control, PayloadFirst, HeaderFirst
<1>3. Blank' /\ Contained' /\ CleanMarks'
    BY DEF Blank, Contained, CleanMarks, Control
<1>4. Control'
    BY <1>2 DEF Control, Contained, PayloadFirst, HeaderFirst
<1>5. NoDangling'
    BY DEF NoDangling, Live, RootSet
<1>6. Colours'
    BY <1>2 DEF Colours, Marking, CleanMarks, Control, Contained
<1> QED
    BY <1>1, <1>3, <1>4, <1>5, <1>6

LEMMA NewBufferIInv ==
    ASSUME IInv, NEW o \in Objects, NewBuffer(o)
    PROVE  IInv'
<1> USE DEF IInv, NewBuffer, Allocate
<1>1. making \in Kinds /\ making = "array" /\ pinned = {}
    BY DEF Control, HeaderFirst
<1>2. TypeOK'
    BY <1>1 DEF TypeOK
<1>3. Blank'
    BY <1>1 DEF Blank, TypeOK
<1>4. Contained'
    BY DEF Contained
<1>5. Control'
    BY <1>1 DEF Control, Contained, HeaderFirst
<1>6. CleanMarks'
    BY <1>1 DEF CleanMarks
<1>7. NoDangling'
    BY DEF NoDangling, Live, RootSet, Closed, Blank
<1>8. Colours'
    <2>1. gray = {} /\ marked' = {o} /\ pinned' = {o} /\ refs'[o] = {}
        BY <1>1 DEF CleanMarks, Blank, Contained
    <2>2. phase' = "mark_roots" => rootsLeft' = RootGroups
        OBVIOUS
    <2> QED
        BY <2>1, <2>2 DEF Colours, Marking
<1> QED
    BY <1>2, <1>3, <1>4, <1>5, <1>6, <1>7, <1>8

\* Both constructors end the same way: an object that has just become complete,
\* whose fields the client may store, is added to the heap.
LEMMA ReturnNoDangling ==
    ASSUME TypeOK, NoDangling, phase = "allocated", NEW o \in Objects,
           NEW S \in SUBSET Objects, Return(o, S), heap' = heap \cup {o}
    PROVE  NoDangling'
<1>1. Usable \subseteq heap
    BY UsableInHeap DEF TypeOK
<1>2. Live = heap /\ Live' = heap'
    BY DEF Live, Return
<1>3. RootSet' \subseteq heap'
    <2>1. ASSUME NEW g \in RootGroups
          PROVE  roots'[g] \subseteq roots[g] \cup {o}
        BY DEF Return, TypeOK
    <2>2. ASSUME NEW g \in RootGroups
          PROVE  roots[g] \subseteq heap
        BY <1>2 DEF NoDangling, RootSet
    <2> QED
        BY <2>1, <2>2 DEF RootSet
<1>4. strings' \subseteq heap'
    BY <1>2 DEF Return, NoDangling
<1>5. Closed(heap', refs')
    BY <1>1, <1>2 DEF Return, NoDangling, Closed, TypeOK
<1> QED
    BY <1>2, <1>3, <1>4, <1>5 DEF NoDangling

LEMMA FinishHeaderIInv ==
    ASSUME IInv, NEW o \in Objects, NEW S \in SUBSET Objects, FinishHeader(o, S)
    PROVE  IInv'
<1> USE DEF IInv, FinishHeader, sizeVars
<1>1. pinned = {} /\ making \in Kinds /\ phase' = "client" /\ call' = 1
    BY DEF Control, PayloadFirst, HeaderFirst, Return
<1>2. TypeOK'
    BY <1>1 DEF TypeOK, Return
<1>3. Blank'
    BY <1>1, KindsAssumption DEF Blank, TypeOK, Return
<1>4. Contained' /\ CleanMarks'
    BY <1>1 DEF Contained, CleanMarks
<1>5. Control'
    BY <1>1 DEF Control, Return
<1>6. NoDangling'
    BY ReturnNoDangling
<1>7. Colours'
    BY <1>1 DEF Colours, Marking
<1> QED
    BY <1>2, <1>3, <1>4, <1>5, <1>6, <1>7

LEMMA FinishArrayIInv ==
    ASSUME IInv, NEW o \in Objects, NEW S \in SUBSET Objects, FinishArray(o, S)
    PROVE  IInv'
<1> USE DEF IInv, FinishArray, sizeVars
<1>1. o \in heap /\ kind[o] = "array" /\ making = "array"
    BY DEF Contained, Blank, HeaderFirst
<1>2. pinned' = {} /\ phase' = "client" /\ call' = 1 /\ making' = NoKind
    BY DEF Return
<1>3. TypeOK'
    BY <1>2 DEF TypeOK, Return
<1>4. Blank'
    BY <1>1, <1>2 DEF Blank, TypeOK, Return
<1>5. Contained' /\ CleanMarks'
    BY <1>2 DEF Contained, CleanMarks
<1>6. Control'
    BY <1>2 DEF Control
<1>7. NoDangling'
    BY <1>1, ReturnNoDangling
<1>8. Colours'
    BY <1>2 DEF Colours, Marking
<1> QED
    BY <1>3, <1>4, <1>5, <1>6, <1>7, <1>8

-----------------------------------------------------------------------------
\* run_gc()

\* The collector does not touch the graph while it marks.
LEMMA MarkingKeepsGraph ==
    ASSUME refs' = refs, roots' = roots
    PROVE  RootSet' = RootSet /\ Reachable' = Reachable
BY DEF RootSet, Reachable

LEMMA MarkRootsIInv ==
    ASSUME IInv, NEW g \in RootGroups, MarkRoots(g)
    PROVE  IInv'
<1> USE DEF IInv, MarkRoots, Mark, sizeVars
<1>1. RootSet' = RootSet /\ Reachable' = Reachable
    BY MarkingKeepsGraph
<1>2. roots[g] \subseteq heap /\ roots[g] \subseteq RootSet
    BY DEF NoDangling, Live, RootSet
<1>3. roots[g] \subseteq Reachable
    BY <1>2, RootSetType, RootsAreReachable DEF Reachable, TypeOK
<1>4. TypeOK'
    BY DEF TypeOK
<1>5. Blank' /\ CleanMarks'
    BY DEF Blank, CleanMarks
<1>6. Contained'
    BY <1>2 DEF Contained
<1>7. Control'
    BY DEF Control
<1>8. NoDangling'
    BY <1>1 DEF NoDangling, Live
<1>9. Colours'
    <2>1. \A p \in marked' \ gray' : refs[p] \subseteq marked'
        BY <1>2 DEF Colours, Marking, Blank
    <2>2. \A h \in RootGroups \ rootsLeft' : roots[h] \subseteq marked'
        BY DEF Colours, Marking
    <2>3. marked' \subseteq Reachable \cup pinned
        BY <1>3 DEF Colours, Marking
    <2>4. \A p \in gray' : kind[p] # "string"
        BY DEF Colours, Marking
    <2> QED
        BY <1>1, <2>1, <2>2, <2>3, <2>4 DEF Colours, Marking
<1> QED
    BY <1>4, <1>5, <1>6, <1>7, <1>8, <1>9

LEMMA BlackenIInv ==
    ASSUME IInv, NEW o \in Objects, Blacken(o)
    PROVE  IInv'
<1> USE DEF IInv, Blacken, Mark, sizeVars
<1>1. RootSet' = RootSet /\ Reachable' = Reachable
    BY MarkingKeepsGraph
<1>2. o \in heap /\ refs[o] \subseteq heap
    BY DEF Contained, NoDangling, Live, Closed
<1>3. refs[o] \subseteq Reachable
    <2>1. Closed(Reachable, refs)
        BY ReachableIsClosed DEF Reachable, TypeOK
    <2>2. o \in Reachable \/ refs[o] = {}
        BY DEF Colours, Marking, Contained, Blank
    <2> QED
        BY <2>1, <2>2 DEF Closed
<1>4. TypeOK'
    BY DEF TypeOK
<1>5. Blank' /\ CleanMarks'
    BY DEF Blank, CleanMarks
<1>6. Contained'
    BY <1>2 DEF Contained
<1>7. Control'
    BY DEF Control
<1>8. NoDangling'
    BY <1>1 DEF NoDangling, Live
<1>9. Colours'
    <2>1. \A p \in marked' \ gray' : refs[p] \subseteq marked'
        BY <1>2 DEF Colours, Marking, Blank
    <2>2. marked' \subseteq Reachable \cup pinned
        BY <1>3 DEF Colours, Marking
    <2>3. \A p \in gray' : kind[p] # "string"
        BY DEF Colours, Marking
    <2> QED
        BY <1>1, <2>1, <2>2, <2>3 DEF Colours, Marking
<1> QED
    BY <1>4, <1>5, <1>6, <1>7, <1>8, <1>9

LEMMA RemoveWeakIInv ==
    ASSUME IInv, RemoveWeak
    PROVE  IInv'
<1> USE DEF IInv, RemoveWeak, sizeVars
<1>1. RootSet' = RootSet /\ Reachable' = Reachable
    BY MarkingKeepsGraph
<1>2. marked = Reachable \cup pinned
    BY MarkedIsReachable
<1>3. Live' = marked
    BY DEF Live, Contained
<1>4. TypeOK'
    BY DEF TypeOK
<1>5. Blank' /\ Contained' /\ CleanMarks'
    BY DEF Blank, Contained, CleanMarks
<1>6. Control'
    BY DEF Control
<1>7. NoDangling'
    <2>1. RootSet \subseteq Reachable
        BY RootSetType, RootsAreReachable DEF Reachable, TypeOK
    <2>2. Closed(marked, refs)
        BY DEF Colours, Marking, Closed
    <2> QED
        BY <1>1, <1>2, <1>3, <2>1, <2>2 DEF NoDangling
<1>8. Colours'
    BY <1>1, <1>2, <1>3 DEF Colours, Marking
<1> QED
    BY <1>4, <1>5, <1>6, <1>7, <1>8

LEMMA KeepIInv ==
    ASSUME IInv, NEW o \in Objects, Keep(o)
    PROVE  IInv'
<1> USE DEF IInv, Keep, sizeVars
<1>1. RootSet' = RootSet /\ Reachable' = Reachable
    BY MarkingKeepsGraph
<1>2. Live' = Live
    BY DEF Live
<1>3. TypeOK' /\ Blank' /\ Contained' /\ CleanMarks' /\ Control'
    <2>1. TypeOK'
        BY DEF TypeOK
    <2>2. Blank' /\ Contained' /\ CleanMarks' /\ Control'
        BY DEF Blank, Contained, CleanMarks, Control
    <2> QED
        BY <2>1, <2>2
<1>4. NoDangling'
    BY <1>1, <1>2 DEF NoDangling
<1>5. Colours'
    BY <1>1, <1>2 DEF Colours, Marking
<1> QED
    BY <1>3, <1>4, <1>5

\* Freeing an object forgets its pointers, which no reachable object is
\* concerned by.
LEMMA FreeKeepsReachable ==
    ASSUME IInv, NEW o \in Objects, Free(o)
    PROVE  /\ Live' = Live
           /\ o \notin Live
           /\ RootSet' = RootSet
           /\ Reachable' = Reachable
<1> USE DEF IInv, Free
<1>1. Live' = Live /\ o \notin Live
    BY DEF Live
<1>2. RootSet' = RootSet
    BY DEF RootSet
<1>3. o \notin Reachable
    BY <1>1 DEF Colours
<1>4. /\ refs \in [Objects -> SUBSET Objects]
      /\ refs' \in [Objects -> SUBSET Objects]
      /\ \A p \in Reachable : refs'[p] = refs[p]
    BY <1>3 DEF TypeOK
<1>5. ReachableFrom(RootSet, refs') = ReachableFrom(RootSet, refs)
    <2>1. RootSet \in SUBSET Objects
        BY RootSetType
    <2>2. \A p \in ReachableFrom(RootSet, refs) : refs'[p] = refs[p]
        BY <1>4 DEF Reachable
    <2> HIDE DEF IInv, Free
    <2> QED
        BY <1>4, <2>1, <2>2, ReachableDependsOnItself
<1> QED
    BY <1>1, <1>2, <1>5 DEF Reachable

LEMMA FreeIInv ==
    ASSUME IInv, NEW o \in Objects, Free(o)
    PROVE  IInv'
<1> USE DEF IInv, Free
<1>1. Live' = Live /\ o \notin Live /\ RootSet' = RootSet /\ Reachable' = Reachable
    BY FreeKeepsReachable
<1>2. TypeOK'
    BY DEF TypeOK, Size
<1>3. o \notin pinned
    BY <1>1 DEF Colours
<1>4. Blank'
    BY <1>3 DEF Blank, TypeOK
<1>5. Contained' /\ CleanMarks' /\ Control'
    BY <1>3 DEF Contained, CleanMarks, Control
<1>6. NoDangling'
    BY <1>1 DEF NoDangling, Closed, TypeOK
<1>7. Colours'
    BY <1>1 DEF Colours, Marking
<1> QED
    BY <1>2, <1>4, <1>5, <1>6, <1>7

LEMMA FinishGcIInv ==
    ASSUME IInv, FinishGc
    PROVE  IInv'
<1> USE DEF IInv, FinishGc, gcVars
<1>1. Live = heap /\ Live' = heap /\ RootSet' = RootSet
    BY DEF Live, RootSet
<1>2. TypeOK'
    BY SizesAssumption DEF TypeOK
<1>3. Blank' /\ Contained' /\ CleanMarks' /\ Control'
    BY DEF Blank, Contained, CleanMarks, Control
<1>4. NoDangling'
    BY <1>1 DEF NoDangling
<1>5. Colours'
    BY DEF Colours, Marking
<1> QED
    BY <1>2, <1>3, <1>4, <1>5

-----------------------------------------------------------------------------
\* The client

LEMMA AssignIInv ==
    ASSUME IInv, NEW g \in RootGroups, NEW S \in SUBSET Objects, Assign(g, S)
    PROVE  IInv'
<1> USE DEF IInv, Assign, gcVars, sizeVars
<1>1. Usable \subseteq heap
    BY UsableInHeap DEF TypeOK
<1>2. TypeOK'
    BY DEF TypeOK
<1>3. Blank' /\ Contained' /\ CleanMarks' /\ Control'
    BY DEF Blank, Contained, CleanMarks, Control
<1>4. NoDangling'
    <2>1. Live = heap /\ Live' = heap
        BY DEF Live
    <2>2. \A h \in RootGroups : roots'[h] \subseteq heap
        BY <1>1, <2>1 DEF NoDangling, RootSet, TypeOK
    <2> QED
        BY <2>1, <2>2 DEF NoDangling, RootSet
<1>5. Colours'
    BY DEF Colours, Marking
<1> QED
    BY <1>2, <1>3, <1>4, <1>5

LEMMA StoreIInv ==
    ASSUME IInv, NEW o \in Objects, NEW S \in SUBSET Objects, Store(o, S)
    PROVE  IInv'
<1> USE DEF IInv, Store, gcVars, sizeVars
<1>1. Usable \subseteq heap
    BY UsableInHeap DEF TypeOK
<1>2. TypeOK'
    BY DEF TypeOK
<1>3. Blank'
    BY <1>1 DEF Blank, Control, TypeOK
<1>4. Contained' /\ CleanMarks' /\ Control'
    BY DEF Contained, CleanMarks, Control
<1>5. NoDangling'
    <2>1. Live = heap /\ Live' = heap /\ RootSet' = RootSet
        BY DEF Live, RootSet
    <2> QED
        BY <1>1, <2>1 DEF NoDangling, Closed, TypeOK
<1>6. Colours'
    BY DEF Colours, Marking
<1> QED
    BY <1>2, <1>3, <1>4, <1>5, <1>6

LEMMA SwitchIInv ==
    ASSUME IInv, Switch
    PROVE  IInv'
<1> USE DEF IInv, Switch, gcVars, sizeVars
<1>1. TypeOK'
    BY DEF TypeOK
<1>2. Blank' /\ Contained' /\ CleanMarks' /\ Control' /\ Colours'
    BY DEF Blank, Contained, CleanMarks, Control, Colours, Marking
<1>3. NoDangling'
    BY DEF NoDangling, Live, RootSet
<1> QED
    BY <1>1, <1>2, <1>3

LEMMA StutterIInv ==
    ASSUME IInv, UNCHANGED vars
    PROVE  IInv'
BY DEF IInv, vars, TypeOK, Blank, Contained, Control, CleanMarks, NoDangling,
       Colours, Marking, Live, RootSet, Reachable

-----------------------------------------------------------------------------
\* The theorems

LEMMA NextIInv == IInv /\ [Next]_vars => IInv'
<1> SUFFICES ASSUME IInv, [Next]_vars PROVE IInv'
    OBVIOUS
<1>1. CASE Constructor
    BY <1>1, NewIInv, NewHeaderIInv, NewBufferIInv, FinishHeaderIInv,
       FinishArrayIInv DEF Constructor
<1>2. CASE Collector
    BY <1>2, MarkRootsIInv, BlackenIInv, RemoveWeakIInv, KeepIInv, FreeIInv,
       FinishGcIInv DEF Collector
<1>3. CASE Client
    BY <1>3, AssignIInv, StoreIInv, SwitchIInv DEF Client
<1>4. CASE UNCHANGED vars
    BY <1>4, StutterIInv
<1> QED
    BY <1>1, <1>2, <1>3, <1>4 DEF Next

LEMMA Invariance == Spec => []IInv
BY InitIInv, NextIInv, PTL DEF Spec

\* Every variable of the allocator keeps its type.
THEOREM TypeCorrect == Spec => []TypeOK
<1>1. IInv => TypeOK
    BY DEF IInv
<1> QED
    BY <1>1, Invariance, PTL

\* No live object, root or interned string ever points to freed memory,
\* whatever the client does within its contract and whenever a collection
\* starts.
THEOREM NothingDangles == Spec => []NoDangling
<1>1. IInv => NoDangling
    BY DEF IInv
<1> QED
    BY <1>1, Invariance, PTL

\* While a collection marks, no black object points to a white one.
THEOREM TriColourHolds == Spec => []TriColour
<1>1. IInv => TriColour
    BY DEF IInv, TriColour, Contained, Colours, Marking, CleanMarks, Closed,
           TypeOK
<1> QED
    BY <1>1, Invariance, PTL

\* No mark outlives the collection, or the constructor, that set it.
THEOREM MarksAreClean == Spec => []CleanMarks
<1>1. IInv => CleanMarks
    BY DEF IInv
<1> QED
    BY <1>1, Invariance, PTL

-----------------------------------------------------------------------------
\* The accounting of sizes

\* Besides IInv: the heap is finite, and only a type that has a payload is built by
\* two calls of allocate().
Accounted ==
    /\ IsFiniteSet(heap)
    /\ making # NoKind /\ call = 2 => making \in PayloadFirst \cup HeaderFirst
    /\ Accounting

\* Two assignments of types give the same types to the objects of S.
Agree(S, k, l) == \A p \in S : l[p] = k[p]

\* The size of a heap depends on the types of the objects in it only, and an object
\* more adds its own.
LEMMA UnitsProps ==
    ASSUME NEW S, IsFiniteSet(S), NEW k, NEW l, Agree(S, k, l), NEW o, o \notin S
    PROVE  /\ Units(S, k) \in Nat
           /\ Units(S, l) = Units(S, k)
           /\ Units(S \cup {o}, l) = Units(S, k) + Size(l[o])
<1> DEFINE P == { p \in S : Size(k[p]) = 2 }
           Q == { p \in S \cup {o} : Size(l[p]) = 2 }
<1>1. { p \in S : Size(l[p]) = 2 } = P
    BY DEF Agree
<1>2. Q = IF Size(l[o]) = 2 THEN P \cup {o} ELSE P
    BY <1>1 DEF Agree
<1>3. IsFiniteSet(P) /\ o \notin P
    BY FS_Subset
<1>4. Cardinality(S) \in Nat /\ Cardinality(P) \in Nat
    BY <1>3, FS_CardinalityType
<1>5. Cardinality(S \cup {o}) = Cardinality(S) + 1 /\ Cardinality(P \cup {o}) = Cardinality(P) + 1
    BY <1>3, FS_AddElement
<1>6. Size(l[o]) = 1 \/ Size(l[o]) = 2
    BY DEF Size
<1>7. Cardinality(Q) = Cardinality(P) + Size(l[o]) - 1
    <2> HIDE DEF P, Q
    <2> QED
        BY <1>2, <1>4, <1>5, <1>6
<1>8. Units(S, k) = Cardinality(S) + Cardinality(P) /\ Units(S, l) = Cardinality(S) + Cardinality(P)
    BY <1>1 DEF Units
<1>9. Units(S \cup {o}, l) = Cardinality(S \cup {o}) + Cardinality(Q)
    BY DEF Units
<1> HIDE DEF P, Q
<1> QED
    BY <1>4, <1>5, <1>6, <1>7, <1>8, <1>9

\* The size of finitely many objects is a number.
LEMMA UnitsType ==
    ASSUME NEW S, IsFiniteSet(S), NEW k
    PROVE  Units(S, k) \in Nat
<1>1. IsFiniteSet({ p \in S : Size(k[p]) = 2 })
    BY FS_Subset
<1> QED
    BY <1>1, FS_CardinalityType DEF Units

\* What the constructor in progress has asked for.
Asked == IF making = NoKind THEN 0 ELSE call

\* An allocator that has allocated nothing.
LEMMA InitAccounted == Init => Accounted
<1> SUFFICES ASSUME Init PROVE Accounted
    OBVIOUS
<1>1. IsFiniteSet({}) /\ Cardinality({}) = 0
    BY FS_EmptySet
<1>2. heap \ pinned = {} /\ { o \in {} : Size(kind[o]) = 2 } = {}
    BY DEF Init
<1>3. Units(heap \ pinned, kind) = 0
    BY <1>1, <1>2 DEF Units
<1> QED
    BY <1>1, <1>3 DEF Init, Accounted, Accounting

\* A step that leaves the objects alone accounts for what it asks.
LEMMA SameUnits ==
    ASSUME Accounted, UNCHANGED <<heap, kind, pinned>>,
           bytes_allocated' - bytes_allocated = Asked' - Asked, bytes_allocated \in Int,
           bytes_allocated' \in Int, call \in 1..2, call' \in 1..2,
           making' # NoKind /\ call' = 2 => making' \in PayloadFirst \cup HeaderFirst
    PROVE  Accounted'
<1>1. IsFiniteSet(heap \ pinned)
    BY FS_Subset DEF Accounted
<1>2. Units(heap \ pinned, kind) \in Nat
    BY <1>1, UnitsType
<1>3. bytes_allocated = Units(heap \ pinned, kind) + Asked /\ Asked \in 0..2 /\ Asked' \in 0..2
    BY DEF Accounted, Accounting, Asked
<1>4. bytes_allocated' = Units(heap \ pinned, kind) + Asked'
    BY <1>2, <1>3
<1> QED
    BY <1>4 DEF Accounted, Accounting, Asked

\* The steps of a constructor: each allocate() is asked for, then becomes an object's.
LEMMA ConstructorAccounted ==
    ASSUME IInv, IInv', Accounted, Constructor
    PROVE  Accounted'
<1>1. /\ bytes_allocated \in Int /\ bytes_allocated' \in Int /\ call \in 1..2 /\ call' \in 1..2
      /\ NoKind \notin Kinds /\ NoKind \notin PayloadFirst \cup HeaderFirst
    BY KindsAssumption DEF IInv, TypeOK, PayloadFirst, HeaderFirst, ObjectType
<1>2. ASSUME NEW k \in Kinds, New(k)
      PROVE  Accounted'
    <2>1. making = NoKind /\ making' # NoKind /\ call' = 1
        BY <1>1, <1>2 DEF New, IInv, Control
    <2>2. UNCHANGED <<heap, kind, pinned>> /\ bytes_allocated' = bytes_allocated + 1
        BY <1>2 DEF New, Allocate
    <2>3. Asked' = 1 /\ Asked = 0
        BY <2>1 DEF Asked
    <2> QED
        BY <1>1, <2>1, <2>2, <2>3, SameUnits
<1>3. CASE NewHeader
    <2>1. making \in PayloadFirst /\ making' = making /\ call = 1 /\ call' = 2
        BY <1>3 DEF NewHeader
    <2>2. UNCHANGED <<heap, kind, pinned>> /\ bytes_allocated' = bytes_allocated + 1
        BY <1>3 DEF NewHeader, Allocate
    <2>3. Asked' = 2 /\ Asked = 1
        BY <1>1, <2>1 DEF Asked
    <2> QED
        BY <1>1, <2>1, <2>2, <2>3, SameUnits
<1>4. ASSUME NEW o \in Objects, NewBuffer(o)
      PROVE  Accounted'
    <2>1. /\ making \in HeaderFirst /\ making' = making /\ call = 1 /\ call' = 2
          /\ o \notin heap /\ heap' = heap \cup {o} /\ pinned' = {o}
          /\ kind' = [kind EXCEPT ![o] = making] /\ bytes_allocated' = bytes_allocated + 1
        BY <1>4 DEF NewBuffer, Allocate
    <2>2. pinned = {} /\ kind \in [Objects -> Kinds \cup {NoKind}]
        BY <2>1 DEF IInv, Control, TypeOK
    <2>3. heap \ pinned = heap /\ heap' \ pinned' = heap /\ IsFiniteSet(heap)
        BY <2>1, <2>2 DEF Accounted
    <2>4. Agree(heap, kind, kind')
        BY <2>1, <2>2 DEF Agree
    <2>5. Units(heap, kind) \in Nat /\ Units(heap, kind') = Units(heap, kind)
        <3>1. o \notin heap
            BY <2>1
        <3> QED
            BY ONLY <2>3, <2>4, <3>1, UnitsProps
    <2>6. bytes_allocated = Units(heap, kind) + 1
        BY <1>1, <2>1, <2>3 DEF Accounted, Accounting
    <2>7. bytes_allocated' = Units(heap' \ pinned', kind') + (IF making' = NoKind THEN 0 ELSE call')
        <3>1. bytes_allocated' = Units(heap, kind') + 2
            BY <2>1, <2>5, <2>6
        <3> QED
            BY <1>1, <2>1, <2>3, <3>1
    <2>8. IsFiniteSet(heap')
        BY <2>1, <2>3, FS_AddElement
    <2> QED
        BY <2>1, <2>7, <2>8 DEF Accounted, Accounting
<1>5. ASSUME NEW o \in Objects, NEW S \in SUBSET Objects, FinishHeader(o, S)
      PROVE  Accounted'
    <2>1. /\ making' = NoKind /\ o \notin heap /\ heap' = heap \cup {o} /\ pinned' = pinned
          /\ kind' = [kind EXCEPT ![o] = making] /\ bytes_allocated' = bytes_allocated
          /\ (IF making \in PayloadFirst THEN call = 2 ELSE making \notin HeaderFirst)
        BY <1>5 DEF FinishHeader, Return, sizeVars
    <2>2. pinned = {} /\ kind \in [Objects -> Kinds \cup {NoKind}] /\ making # NoKind
        BY <1>1, <1>5 DEF FinishHeader, IInv, Control, TypeOK, PayloadFirst, HeaderFirst
    <2>3. heap \ pinned = heap /\ heap' \ pinned' = heap \cup {o} /\ IsFiniteSet(heap)
        BY <2>1, <2>2 DEF Accounted
    <2>4. kind'[o] = making /\ Agree(heap, kind, kind')
        BY <2>1, <2>2 DEF Agree
    <2>5. call = Size(making)
        BY <1>1, <2>1, <2>2 DEF Size, Accounted
    <2>6. Units(heap, kind) \in Nat /\ Units(heap \cup {o}, kind') = Units(heap, kind) + Size(kind'[o])
        <3>1. o \notin heap /\ IsFiniteSet(heap) /\ Agree(heap, kind, kind')
            BY <2>1, <2>3, <2>4
        <3> QED
            BY ONLY <3>1, UnitsProps
    <2>7. bytes_allocated = Units(heap, kind) + call
        BY <2>2, <2>3 DEF Accounted, Accounting
    <2>8. bytes_allocated' = Units(heap' \ pinned', kind') + (IF making' = NoKind THEN 0 ELSE call')
        <3>1. bytes_allocated' = Units(heap \cup {o}, kind')
            BY <2>1, <2>4, <2>5, <2>6, <2>7
        <3>2. \A n \in Int : n = n + 0
            OBVIOUS
        <3>3. bytes_allocated' = bytes_allocated' + 0
            BY ONLY <1>1, <3>2
        <3>4. (IF making' = NoKind THEN 0 ELSE call') = 0
            BY <2>1
        <3> QED
            BY ONLY <2>3, <3>1, <3>3, <3>4
    <2>9. IsFiniteSet(heap')
        BY <2>1, <2>3, FS_AddElement
    <2> QED
        BY <2>1, <2>8, <2>9 DEF Accounted, Accounting
<1>6. ASSUME NEW o \in Objects, NEW S \in SUBSET Objects, FinishArray(o, S)
      PROVE  Accounted'
    <2>1. /\ making' = NoKind /\ heap' = heap /\ pinned = {o} /\ pinned' = {}
          /\ kind' = kind /\ bytes_allocated' = bytes_allocated /\ call = 2 /\ making \in HeaderFirst
        BY <1>6 DEF FinishArray, Return, sizeVars
    <2>2. o \in heap /\ kind[o] = making
        BY <2>1 DEF IInv, Contained, Blank
    <2> DEFINE H == heap \ {o}
    <2>3. IsFiniteSet(H) /\ o \notin H /\ H \cup {o} = heap /\ IsFiniteSet(heap)
        BY <2>2, FS_Subset DEF Accounted
    <2>4. Units(H, kind) \in Nat /\ Units(heap, kind) = Units(H, kind) + Size(kind[o])
        <3> HIDE DEF H
        <3>1. Agree(H, kind, kind)
            BY DEF Agree
        <3>2. Units(H, kind) \in Nat /\ Units(H \cup {o}, kind) = Units(H, kind) + Size(kind[o])
            BY <2>3, <3>1, UnitsProps
        <3> QED
            BY <2>3, <3>2
    <2>5. Size(kind[o]) = 2
        BY <2>1, <2>2 DEF Size
    <2>6. bytes_allocated = Units(H, kind) + 2
        BY <1>1, <2>1 DEF Accounted, Accounting
    <2>7. heap' \ pinned' = heap
        BY <2>1
    <2>8. bytes_allocated' = Units(heap' \ pinned', kind') + (IF making' = NoKind THEN 0 ELSE call')
        <3>1. bytes_allocated' = Units(heap, kind) + 0
            BY <2>1, <2>4, <2>5, <2>6
        <3> QED
            BY <2>1, <2>7, <3>1
    <2> QED
        BY <2>1, <2>3, <2>8 DEF Accounted, Accounting
<1> QED
    BY <1>2, <1>3, <1>4, <1>5, <1>6 DEF Constructor

\* What sweep frees is what it takes off the account.
LEMMA FreeAccounted ==
    ASSUME IInv, Accounted, NEW o \in Objects, Free(o)
    PROVE  Accounted'
<1>1. /\ o \in heap /\ heap' = heap \ {o} /\ pinned' = pinned /\ kind' = [kind EXCEPT ![o] = NoKind]
      /\ bytes_allocated' = bytes_allocated - Size(kind[o]) /\ making' = making /\ call' = call
    BY DEF Free, IInv, Contained
<1>2. o \notin pinned
    BY FreeKeepsReachable DEF Free, IInv, Colours
<1> DEFINE H == (heap \ pinned) \ {o}
<1>3. heap \ pinned = H \cup {o} /\ heap' \ pinned' = H /\ o \notin H
    BY <1>1, <1>2
<1>4. IsFiniteSet(H) /\ IsFiniteSet(heap')
    BY <1>1, FS_Subset DEF Accounted
<1>5. Agree(H, kind', kind)
    BY <1>1 DEF IInv, TypeOK, Agree
<1> HIDE DEF H
<1>6. Units(H, kind') \in Nat /\ Units(H \cup {o}, kind) = Units(H, kind') + Size(kind[o])
    BY <1>3, <1>4, <1>5, UnitsProps
<1>7. bytes_allocated = Units(H \cup {o}, kind) + Asked /\ Asked \in Int /\ Asked' = Asked
    <2>1. bytes_allocated = Units(heap \ pinned, kind) + Asked
        BY DEF Accounted, Accounting, Asked
    <2>2. call \in 1..2
        BY DEF IInv, TypeOK
    <2>3. Asked \in Int
        BY <2>2 DEF Asked
    <2>4. Asked' = Asked
        BY <1>1 DEF Asked
    <2> QED
        BY <1>3, <2>1, <2>3, <2>4
<1>8. Size(kind[o]) \in Int
    BY DEF Size
<1>9. bytes_allocated' = Units(heap' \ pinned', kind') + Asked'
    <2>1. bytes_allocated' = Units(H, kind') + Asked
        BY <1>1, <1>6, <1>7, <1>8
    <2> QED
        BY <1>3, <1>7, <2>1
<1> QED
    BY <1>1, <1>4, <1>9 DEF Accounted, Accounting, Asked

\* No step puts the account wrong; most do not touch it.
LEMMA NextAccounted == IInv /\ IInv' /\ Accounted /\ [Next]_vars => Accounted'
<1> SUFFICES ASSUME IInv, IInv', Accounted, [Next]_vars PROVE Accounted'
    OBVIOUS
<1>1. ASSUME UNCHANGED <<heap, kind, pinned, bytes_allocated, making, call>>
      PROVE  Accounted'
    <2>1. Asked' = Asked /\ bytes_allocated \in Int /\ call \in 1..2
        BY <1>1 DEF Asked, IInv, TypeOK
    <2>2. Asked \in Int
        BY <2>1 DEF Asked
    <2> QED
        BY <1>1, <2>1, <2>2, SameUnits DEF Accounted
<1>2. CASE Constructor
    BY <1>2, ConstructorAccounted
<1>3. CASE Collector
    <2>1. ASSUME NEW g \in RootGroups, MarkRoots(g)
          PROVE  Accounted'
        BY <1>1, <2>1 DEF MarkRoots, sizeVars
    <2>2. ASSUME NEW o \in Objects, Blacken(o) \/ Keep(o)
          PROVE  Accounted'
        BY <1>1, <2>2 DEF Blacken, Keep, sizeVars
    <2>3. CASE RemoveWeak \/ FinishGc
        BY <1>1, <2>3 DEF RemoveWeak, FinishGc, sizeVars
    <2> QED
        BY <1>3, <2>1, <2>2, <2>3, FreeAccounted DEF Collector
<1>4. CASE Client
    BY <1>1, <1>4 DEF Client, Assign, Store, Switch, sizeVars
<1>5. CASE UNCHANGED vars
    BY <1>1, <1>5 DEF vars
<1> QED
    BY <1>2, <1>3, <1>4, <1>5 DEF Next

\* Every byte the allocator accounts for is that of an object on its list, or has been
\* asked for by the constructor in progress: whatever collections interrupt it.
THEOREM SizesAccounted == Spec => []Accounting
<1>1. Accounted => Accounting
    BY DEF Accounted
<1> QED
    BY <1>1, InitAccounted, NextAccounted, Invariance, PTL DEF Spec

-----------------------------------------------------------------------------
\* The collector implements Heap

\* The abstract pointers: those of the objects a client can count on.
refsBar == [o \in Objects |-> IF o \in Live THEN refs[o] ELSE {}]

\* Outside a sweep the abstract heap is the concrete one.
LEMMA SameGraph ==
    ASSUME IInv, phase # "sweep"
    PROVE  /\ Live = heap
           /\ refsBar = refs
           /\ Abstract!Reachable = Reachable
           /\ Abstract!Usable = Usable
<1>1. Live = heap
    BY DEF Live
<1>2. refsBar = refs
    BY <1>1 DEF refsBar, IInv, TypeOK, Blank
<1>3. Abstract!Reachable = Reachable
    <2>1. Abstract!RootSet = RootSet
        BY DEF RootSet, Abstract!RootSet
    <2>2. Abstract!Reachable = ReachableFrom(Abstract!RootSet, refsBar)
        BY DEF Abstract!Reachable, Abstract!ReachableFrom, Abstract!Closed,
               ReachableFrom, Closed, refsBar
    <2> QED
        BY <1>2, <2>1, <2>2 DEF Reachable
<1>4. Abstract!Usable = Usable
    BY <1>1, <1>3 DEF Usable, Abstract!Usable
<1> QED
    BY <1>1, <1>2, <1>3, <1>4

\* The steps a client does not see.
LEMMA InvisibleStep ==
    ASSUME Live' = Live, refsBar' = refsBar,
           UNCHANGED <<roots, strings, pinned, gc_off>>
    PROVE  UNCHANGED Abstract!vars
BY DEF refsBar, Abstract!vars

\* While nothing is swept, a step that leaves the graph alone is invisible.
LEMMA GraphUnchanged ==
    ASSUME phase # "sweep", phase' # "sweep",
           UNCHANGED <<heap, refs, roots, strings, pinned, gc_off>>
    PROVE  UNCHANGED Abstract!vars
<1>1. Live' = Live
    BY DEF Live
<1> QED
    BY <1>1, InvisibleStep DEF refsBar

LEMMA InitRefines == Init => Abstract!Init
BY DEF Init, Abstract!Init, Live

LEMMA ConstructorRefines ==
    ASSUME IInv, IInv', Constructor
    PROVE  Abstract!Next \/ UNCHANGED Abstract!vars
<1>1. ASSUME NEW k \in Kinds, New(k)
      PROVE  UNCHANGED Abstract!vars
    BY <1>1, GraphUnchanged DEF New, Allocate
<1>2. CASE NewHeader
    BY <1>2, GraphUnchanged DEF NewHeader, Allocate
<1>3. ASSUME NEW o \in Objects, NewBuffer(o)
      PROVE  Abstract!Reserve(o)
    <2>1. pinned = {} /\ phase # "sweep" /\ phase' # "sweep"
        BY <1>3 DEF NewBuffer, Allocate, IInv, Control
    <2>2. refsBar = refs /\ refsBar' = refs' /\ Live = heap /\ Live' = heap'
        BY <2>1, SameGraph DEF refsBar, Live, IInv, TypeOK, Blank
    <2> QED
        BY <1>3, <2>1, <2>2 DEF NewBuffer, Abstract!Reserve, refsBar
<1>4. ASSUME NEW o \in Objects, NEW S \in SUBSET Objects,
             NEW interned \in BOOLEAN, interned <=> making = "string",
             FinishHeader(o, S) \/ FinishArray(o, S)
      PROVE  Abstract!Publish(o, S, interned)
    <2>1. /\ phase # "sweep" /\ phase' # "sweep"
          /\ pinned' = {} /\ heap' = heap \cup {o} /\ gc_off' = gc_off
          /\ (o \notin heap /\ pinned = {}) \/ pinned = {o}
          /\ Return(o, S)
        BY <1>4 DEF FinishHeader, FinishArray, Return, IInv, Control,
                    Contained, PayloadFirst, HeaderFirst
    <2>2. refsBar = refs /\ refsBar' = refs' /\ Live = heap /\ Live' = heap'
        BY <2>1, SameGraph DEF refsBar, Live, IInv, TypeOK, Blank
    <2>3. Abstract!Usable = Usable
        BY <2>1, SameGraph
    <2>4. strings' = IF interned THEN strings \cup {o} ELSE strings
        BY <1>4, <2>1 DEF Return
    <2> QED
        BY <2>1, <2>2, <2>3, <2>4 DEF Return, Abstract!Publish, refsBar
<1>5. ASSUME NEW o \in Objects, NEW S \in SUBSET Objects,
             FinishHeader(o, S) \/ FinishArray(o, S)
      PROVE  Abstract!Next
    <2>1. PICK interned \in BOOLEAN : interned <=> making = "string"
        BY Zenon
    <2>2. Abstract!Publish(o, S, interned)
        BY <1>4, <1>5, <2>1
    <2> QED
        BY <2>2 DEF Abstract!Next
<1>6. ASSUME NEW o \in Objects, NewBuffer(o)
      PROVE  Abstract!Next
    BY <1>3, <1>6 DEF Abstract!Next
<1> QED
    BY <1>1, <1>2, <1>5, <1>6 DEF Constructor

\* The whole collection is the step that purges the strings table: what has
\* been marked by then is what the abstract collection keeps.
LEMMA RemoveWeakRefines ==
    ASSUME IInv, IInv', RemoveWeak
    PROVE  Abstract!Collect
<1>1. phase = "trace_references" /\ gray = {} /\ ~gc_off
    BY DEF RemoveWeak, IInv, Control
<1>2. Live' = marked /\ marked = Reachable \cup pinned
    BY <1>1, MarkedIsReachable DEF Live, RemoveWeak, IInv, Contained
<1>3. refsBar = refs /\ Abstract!Reachable = Reachable /\ Live = heap
    BY <1>1, SameGraph
<1>4. refsBar' = [o \in Objects |-> IF o \in Live' THEN refsBar[o] ELSE {}]
    BY <1>3 DEF refsBar, RemoveWeak
<1> QED
    BY <1>1, <1>2, <1>3, <1>4 DEF RemoveWeak, Abstract!Collect, refsBar

LEMMA CollectorRefines ==
    ASSUME IInv, IInv', Collector
    PROVE  Abstract!Next \/ UNCHANGED Abstract!vars
<1>1. ASSUME NEW g \in RootGroups, MarkRoots(g)
      PROVE  UNCHANGED Abstract!vars
    BY <1>1, GraphUnchanged DEF MarkRoots
<1>2. ASSUME NEW o \in Objects, Blacken(o)
      PROVE  UNCHANGED Abstract!vars
    BY <1>2, GraphUnchanged DEF Blacken
<1>3. CASE RemoveWeak
    BY <1>3, RemoveWeakRefines DEF Abstract!Next
<1>4. ASSUME NEW o \in Objects, Keep(o)
      PROVE  UNCHANGED Abstract!vars
    <2>1. Live' = Live /\ refsBar' = refsBar
        BY <1>4 DEF Keep, Live, refsBar
    <2> QED
        BY <1>4, <2>1, InvisibleStep DEF Keep
<1>5. ASSUME NEW o \in Objects, Free(o)
      PROVE  UNCHANGED Abstract!vars
    <2>1. Live' = Live /\ o \notin Live
        BY <1>5, FreeKeepsReachable
    <2>2. refsBar' = refsBar
        BY <1>5, <2>1 DEF Free, refsBar, IInv, TypeOK
    <2> QED
        BY <1>5, <2>1, <2>2, InvisibleStep DEF Free
<1>6. CASE FinishGc
    <2>1. Live' = Live /\ refsBar' = refsBar
        BY <1>6 DEF FinishGc, Live, refsBar
    <2> QED
        BY <1>6, <2>1, InvisibleStep DEF FinishGc
<1> QED
    BY <1>1, <1>2, <1>3, <1>4, <1>5, <1>6 DEF Collector

LEMMA ClientRefines ==
    ASSUME IInv, IInv', Client
    PROVE  Abstract!Next \/ UNCHANGED Abstract!vars
<1>1. phase = "client" /\ phase' = "client"
    BY DEF Client, Assign, Store, Switch
<1>2. /\ Live = heap /\ Live' = heap'
      /\ refsBar = refs /\ refsBar' = refs'
      /\ Abstract!Usable = Usable
    BY <1>1, SameGraph DEF Live, refsBar, IInv, TypeOK, Blank
<1>3. ASSUME NEW g \in RootGroups, NEW S \in SUBSET Objects, Assign(g, S)
      PROVE  Abstract!Assign(g, S)
    BY <1>2, <1>3 DEF Assign, Abstract!Assign, refsBar
<1>4. ASSUME NEW o \in Objects, NEW S \in SUBSET Objects, Store(o, S)
      PROVE  Abstract!Store(o, S)
    BY <1>2, <1>4 DEF Store, Abstract!Store, refsBar
<1>5. CASE Switch
    <2>1. gc_off' \in BOOLEAN
        BY DEF IInv, TypeOK
    <2>2. pinned = {}
        BY <1>1 DEF IInv, Control
    <2>3. Abstract!Switch
        BY <1>2, <1>5, <2>1, <2>2 DEF Switch, Abstract!Switch, refsBar
    <2> QED
        BY <2>3 DEF Abstract!Next
<1> QED
    BY <1>3, <1>4, <1>5 DEF Client, Abstract!Next

\* The detailed collector implements the abstract heap: initial states map to
\* initial states and every step to a step or to none.
THEOREM RefinesHeap == Spec => ImplementsHeap
<1>1. IInv /\ IInv' /\ [Next]_vars => [Abstract!Next]_(Abstract!vars)
    <2> SUFFICES ASSUME IInv, IInv', [Next]_vars
                 PROVE  Abstract!Next \/ UNCHANGED Abstract!vars
        OBVIOUS
    <2>1. CASE UNCHANGED vars
        BY <2>1 DEF vars, Abstract!vars, Live
    <2> QED
        BY <2>1, ConstructorRefines, CollectorRefines, ClientRefines DEF Next
<1> QED
    BY <1>1, InitRefines, Invariance, PTL DEF Spec, ImplementsHeap, Abstract!Spec

=============================================================================
