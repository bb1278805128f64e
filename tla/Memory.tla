------------------------------- MODULE Memory -------------------------------
(***************************************************************************)
(* The raven allocator and its mark-sweep collector (src/mem.c), with the  *)
(* object constructors that drive it (src/object.c).                       *)
(*                                                                         *)
(* The program is sequential: a collection runs inside a call of           *)
(* allocate(), in the middle of a constructor, and the constructor goes on *)
(* when it returns.  `phase' says which C function is running.  The client *)
(* (compiler and virtual machine) acts only between constructor calls and  *)
(* keeps the contract stated as Usable; whether the virtual machine really *)
(* keeps it is the subject of Machine.tla.                                 *)
(*                                                                         *)
(* Abstractions: the intrusive object list is the set `heap' and the gray  *)
(* stack the set `gray', so that marking and sweeping go through them in   *)
(* any order; an object is what blacken_object follows from it (refs) and  *)
(* the number of allocate() calls that build it; sizes are counted in      *)
(* units, one per allocate() call.                                         *)
(***************************************************************************)
EXTENDS Integers, FiniteSets, Reachability

CONSTANTS
    Objects,          \* addresses
    RootGroups,       \* stack, frames, globals, global names, open upvalues
    Kinds,            \* the object types in use
    NoKind,           \* the type of no object
    InitialNextGc,    \* GC_INITIAL_NEXT
    GrowthFactor,     \* GC_GROWTH_FACTOR
    StressGc          \* built with DEBUG_STRESS_GC

ObjectType ==
    {"string", "pair", "array", "map", "function", "upvalue", "closure"}

ASSUME KindsAssumption == Kinds \subseteq ObjectType /\ NoKind \notin ObjectType
ASSUME SizesAssumption == InitialNextGc \in Nat /\ GrowthFactor \in Nat
ASSUME GroupsAssumption == RootGroups # {}
ASSUME StressAssumption == StressGc \in BOOLEAN

VARIABLES
    heap,         \* Allocator.objects
    kind,         \* Object.type
    refs,         \* the pointers an object holds
    marked,       \* the objects whose marked flag is set
    gray,         \* Allocator.gray_stack
    strings,      \* keys of Allocator.strings
    roots,        \* the pointers in each root table of the VM
    bytes_allocated, next_gc, gc_off,
    phase,        \* the function that is running
    rootsLeft,    \* root tables mark_roots has not walked yet
    unswept,      \* the rest of the list sweep walks
    making,       \* the type under construction, or NoKind
    call,         \* which allocate() call of the constructor is running
    pinned        \* new_array: header allocated, buffer not yet

gcVars   == <<marked, gray, rootsLeft, unswept>>
sizeVars == <<bytes_allocated, next_gc>>
vars == <<heap, kind, refs, marked, gray, strings, roots, bytes_allocated,
          next_gc, gc_off, phase, rootsLeft, unswept, making, call, pinned>>

RootSet == UNION { roots[g] : g \in RootGroups }

Reachable == ReachableFrom(RootSet, refs)

\* The pointers the client may store; see Heap.
Usable == IF gc_off THEN heap ELSE Reachable \cup strings

\* Strings and closures allocate their payload before the header, arrays
\* after it, the other types allocate nothing but the header here.
PayloadFirst == {"string", "closure"}
HeaderFirst  == {"array"}

\* The units an object occupies.
Size(k) == IF k \in PayloadFirst \cup HeaderFirst THEN 2 ELSE 1

\* The units some objects occupy together, k being their types: one each, and one
\* more for each that has a payload.
Units(S, k) == Cardinality(S) + Cardinality({ o \in S : Size(k[o]) = 2 })

-----------------------------------------------------------------------------
\* allocate() and the constructors

Init ==
    /\ heap = {}
    /\ kind = [o \in Objects |-> NoKind]
    /\ refs = [o \in Objects |-> {}]
    /\ marked = {} /\ gray = {} /\ rootsLeft = {} /\ unswept = {}
    /\ strings = {}
    /\ roots = [g \in RootGroups |-> {}]
    /\ bytes_allocated = 0 /\ next_gc = InitialNextGc
    /\ gc_off = FALSE
    /\ phase = "client"
    /\ making = NoKind /\ call = 1 /\ pinned = {}

\* allocate() up to its call of realloc: the size is accounted for first, and
\* the collection it may start is finished before the memory exists.
Allocate ==
    /\ bytes_allocated' = bytes_allocated + 1
    /\ IF ~gc_off /\ (StressGc \/ bytes_allocated' >= next_gc)
       THEN phase' = "mark_roots" /\ rootsLeft' = RootGroups
       ELSE phase' = "allocated" /\ UNCHANGED rootsLeft

\* The client calls new_string, new_pair, new_array, ...
New(k) ==
    /\ phase = "client"
    /\ heap # Objects          \* the bound of the model: an address is left
    /\ making' = k /\ call' = 1
    /\ Allocate
    /\ UNCHANGED <<heap, kind, refs, marked, gray, strings, roots, next_gc,
                   gc_off, unswept, pinned>>

\* Fault: the constructor does not remember that it has the header.
NewHeader_Repeats ==
    /\ phase = "allocated"
    /\ making \in PayloadFirst
    /\ call' = call + 1
    /\ Allocate
    /\ UNCHANGED <<heap, kind, refs, marked, gray, strings, roots, next_gc,
                   gc_off, unswept, making, pinned>>

\* The payload of a string or a closure has come back: ask for the header.
NewHeader ==
    /\ phase = "allocated"
    /\ making \in PayloadFirst /\ call = 1
    /\ call' = 2
    /\ Allocate
    /\ UNCHANGED <<heap, kind, refs, marked, gray, strings, roots, next_gc,
                   gc_off, unswept, making, pinned>>

\* Fault: new_array does not mark the header.
NewBuffer_Unmarked(o) ==
    /\ phase = "allocated"
    /\ making \in HeaderFirst /\ call = 1
    /\ o \notin heap
    /\ heap' = heap \cup {o}
    /\ kind' = [kind EXCEPT ![o] = making]
    /\ pinned' = {o}
    /\ call' = 2
    /\ Allocate
    /\ UNCHANGED <<refs, marked, gray, strings, roots, next_gc, gc_off, unswept,
                   making>>

\* new_array: alloc_object links the header, which is marked so that the
\* collection its buffer may start does not free it.
NewBuffer(o) ==
    /\ phase = "allocated"
    /\ making \in HeaderFirst /\ call = 1
    /\ o \notin heap
    /\ heap' = heap \cup {o}
    /\ kind' = [kind EXCEPT ![o] = making]
    /\ marked' = marked \cup {o}
    /\ pinned' = {o}
    /\ call' = 2
    /\ Allocate
    /\ UNCHANGED <<refs, gray, strings, roots, next_gc, gc_off, unswept, making>>

\* What the constructor returns: its fields are initialised, an interned
\* string enters the weak table, and the client stores the pointer.
Return(o, S) ==
    /\ S \subseteq Usable
    /\ making = "string" => S = {}
    /\ refs' = [refs EXCEPT ![o] = S]
    /\ strings' = IF making = "string" THEN strings \cup {o} ELSE strings
    /\ \/ \E g \in RootGroups : roots' = [roots EXCEPT ![g] = @ \cup {o}]
       \/ gc_off /\ UNCHANGED roots
    /\ phase' = "client" /\ making' = NoKind /\ call' = 1

\* The last allocate() was the header's.
FinishHeader(o, S) ==
    /\ phase = "allocated"
    /\ IF making \in PayloadFirst THEN call = 2 ELSE making \notin HeaderFirst
    /\ o \notin heap
    /\ heap' = heap \cup {o}
    /\ kind' = [kind EXCEPT ![o] = making]
    /\ marked' = marked \ {o}
    /\ Return(o, S)
    /\ UNCHANGED <<gray, rootsLeft, unswept, sizeVars, gc_off, pinned>>

\* The last allocate() was the array buffer's.
FinishArray(o, S) ==
    /\ phase = "allocated"
    /\ making \in HeaderFirst /\ call = 2
    /\ pinned = {o}
    /\ marked' = marked \ {o}
    /\ pinned' = {}
    /\ Return(o, S)
    /\ UNCHANGED <<heap, kind, gray, rootsLeft, unswept, sizeVars, gc_off>>

-----------------------------------------------------------------------------
\* run_gc()

\* Fault: of several pointers only one is followed.
Mark_One(S, rest) ==
    \E T \in SUBSET S :
        /\ Cardinality(T) <= 1
        /\ marked' = marked \cup T
        /\ gray' = rest \cup { o \in T \ marked : kind[o] # "string" }

\* Fault: an object that is marked already is pushed again.
Mark_Again(S, rest) ==
    /\ marked' = marked \cup S
    /\ gray' = rest \cup { o \in S : kind[o] # "string" }

\* mark_object on every element of S, with `rest' on the gray stack: an object
\* is marked once, and a string has no pointers to follow.
Mark(S, rest) ==
    LET new == S \ marked
    IN  /\ marked' = marked \cup new
        /\ gray' = rest \cup { o \in new : kind[o] # "string" }

\* mark_roots walks one of the tables.
MarkRoots(g) ==
    /\ phase = "mark_roots"
    /\ g \in rootsLeft
    /\ Mark(roots[g], gray)
    /\ rootsLeft' = rootsLeft \ {g}
    /\ phase' = IF rootsLeft = {g} THEN "trace_references" ELSE phase
    /\ UNCHANGED <<heap, kind, refs, strings, roots, sizeVars, gc_off,
                   unswept, making, call, pinned>>

\* blacken_object on an object popped from the gray stack.
Blacken(o) ==
    /\ phase = "trace_references"
    /\ o \in gray
    /\ Mark(refs[o], gray \ {o})
    /\ UNCHANGED <<heap, kind, refs, strings, roots, sizeVars, gc_off, phase,
                   rootsLeft, unswept, making, call, pinned>>

\* Fault: run_gc does not purge the strings table.
RemoveWeak_Forgotten ==
    /\ phase = "trace_references"
    /\ gray = {}
    /\ phase' = "sweep"
    /\ unswept' = heap
    /\ UNCHANGED <<heap, kind, refs, marked, gray, strings, roots, sizeVars,
                   gc_off, rootsLeft, making, call, pinned>>

\* The gray stack is empty; table_remove_weak forgets the strings that are
\* about to be freed.
RemoveWeak ==
    /\ phase = "trace_references"
    /\ gray = {}
    /\ strings' = strings \cap marked
    /\ phase' = "sweep"
    /\ unswept' = heap
    /\ UNCHANGED <<heap, kind, refs, marked, gray, roots, sizeVars, gc_off,
                   rootsLeft, making, call, pinned>>

\* Fault: sweep leaves the mark on.
Keep_Marked(o) ==
    /\ phase = "sweep"
    /\ o \in unswept \cap marked
    /\ unswept' = unswept \ {o}
    /\ UNCHANGED <<heap, kind, refs, marked, gray, strings, roots, sizeVars,
                   gc_off, phase, rootsLeft, making, call, pinned>>

\* sweep clears the mark of an object it keeps ...
Keep(o) ==
    /\ phase = "sweep"
    /\ o \in unswept \cap marked
    /\ marked' = marked \ {o}
    /\ unswept' = unswept \ {o}
    /\ UNCHANGED <<heap, kind, refs, gray, strings, roots, sizeVars, gc_off,
                   phase, rootsLeft, making, call, pinned>>

\* Fault: free_object releases the header and not the payload.
Free_HeaderOnly(o) ==
    /\ phase = "sweep"
    /\ o \in unswept \ marked
    /\ heap' = heap \ {o}
    /\ unswept' = unswept \ {o}
    /\ bytes_allocated' = bytes_allocated - 1
    /\ kind' = [kind EXCEPT ![o] = NoKind]
    /\ refs' = [refs EXCEPT ![o] = {}]
    /\ UNCHANGED <<marked, gray, strings, roots, next_gc, gc_off, phase,
                   rootsLeft, making, call, pinned>>

\* ... and frees an object that is not marked.
Free(o) ==
    /\ phase = "sweep"
    /\ o \in unswept \ marked
    /\ heap' = heap \ {o}
    /\ unswept' = unswept \ {o}
    /\ bytes_allocated' = bytes_allocated - Size(kind[o])
    /\ kind' = [kind EXCEPT ![o] = NoKind]
    /\ refs' = [refs EXCEPT ![o] = {}]
    /\ UNCHANGED <<marked, gray, strings, roots, next_gc, gc_off, phase,
                   rootsLeft, making, call, pinned>>

\* The end of run_gc; allocate() goes on to realloc.
FinishGc ==
    /\ phase = "sweep"
    /\ unswept = {}
    /\ next_gc' = bytes_allocated * GrowthFactor
    /\ phase' = "allocated"
    /\ UNCHANGED <<heap, kind, refs, gcVars, strings, roots, bytes_allocated,
                   gc_off, making, call, pinned>>

-----------------------------------------------------------------------------
\* The client: the compiler and the virtual machine, between constructor calls

\* Push, pop, define a global, open an upvalue, reset_stack, ...
Assign(g, S) ==
    /\ phase = "client"
    /\ S \subseteq Usable
    /\ roots' = [roots EXCEPT ![g] = S]
    /\ UNCHANGED <<heap, kind, refs, gcVars, strings, sizeVars, gc_off, phase,
                   making, call, pinned>>

\* Set an array element, close an upvalue, add a constant to a chunk, ...
Store(o, S) ==
    /\ phase = "client"
    /\ o \in Usable /\ kind[o] # "string"
    /\ S \subseteq Usable
    /\ refs' = [refs EXCEPT ![o] = S]
    /\ UNCHANGED <<heap, kind, gcVars, strings, roots, sizeVars, gc_off, phase,
                   making, call, pinned>>

\* interpret() sets gc_off before it compiles and clears it before it runs.
Switch ==
    /\ phase = "client"
    /\ gc_off' = ~gc_off
    /\ UNCHANGED <<heap, kind, refs, gcVars, strings, roots, sizeVars, phase,
                   making, call, pinned>>

-----------------------------------------------------------------------------

Constructor ==
    \/ \E k \in Kinds : New(k)
    \/ NewHeader
    \/ \E o \in Objects : NewBuffer(o)
    \/ \E o \in Objects, S \in SUBSET Objects :
            FinishHeader(o, S) \/ FinishArray(o, S)

Collector ==
    \/ \E g \in RootGroups : MarkRoots(g)
    \/ \E o \in Objects : Blacken(o)
    \/ RemoveWeak
    \/ \E o \in Objects : Keep(o) \/ Free(o)
    \/ FinishGc

Client ==
    \/ \E g \in RootGroups, S \in SUBSET Objects : Assign(g, S)
    \/ \E o \in Objects, S \in SUBSET Objects : Store(o, S)
    \/ Switch

Next == Constructor \/ Collector \/ Client

Spec == Init /\ [][Next]_vars

\* A collection that has started is executed to its end: nothing else runs.
Fairness == WF_vars(Collector)

FairSpec == Spec /\ Fairness

-----------------------------------------------------------------------------
\* Properties

\* Every variable has its type; at most two allocate() calls build an object.
TypeOK ==
    /\ heap \subseteq Objects
    /\ kind \in [Objects -> Kinds \cup {NoKind}]
    /\ refs \in [Objects -> SUBSET Objects]
    /\ marked \subseteq Objects
    /\ gray \subseteq Objects
    /\ strings \subseteq Objects
    /\ roots \in [RootGroups -> SUBSET Objects]
    /\ bytes_allocated \in Int
    /\ next_gc \in Int
    /\ gc_off \in BOOLEAN
    /\ phase \in {"client", "allocated", "mark_roots", "trace_references", "sweep"}
    /\ rootsLeft \subseteq RootGroups
    /\ unswept \subseteq Objects
    /\ making \in Kinds \cup {NoKind}
    /\ call \in 1..2
    /\ pinned \subseteq Objects

\* The objects a client can count on: all, or those the sweep will not free.
Live == IF phase = "sweep" THEN heap \ (unswept \ marked) ELSE heap

(***************************************************************************)
(* No root, no interned string and no field of a live object is left       *)
(* pointing to an address that was freed: free_object (mem.c:23) is only   *)
(* ever called on an object that nothing live refers to, whatever the      *)
(* collection interrupted.                                                 *)
(***************************************************************************)
NoDangling ==
    /\ RootSet \subseteq Live
    /\ strings \subseteq Live
    /\ Closed(Live, refs)

(***************************************************************************)
(* The tri-colour states of mem.h: gray objects are marked and are not     *)
(* strings, and while a collection marks, a black object (marked, not on   *)
(* the gray stack) points to no white one.                                 *)
(***************************************************************************)
TriColour ==
    /\ gray \subseteq marked
    /\ \A o \in gray : kind[o] # "string"
    /\ phase \in {"mark_roots", "trace_references"} =>
            Closed(marked \ gray, [o \in Objects |-> refs[o] \cap (Objects \ marked)])

(***************************************************************************)
(* Between collections every object is white, but for the array header     *)
(* that new_array pins (object.c:97), and that one only until new_array    *)
(* returns: a mark that outlived its collection would hide the pointers of *)
(* its object from the next one.                                           *)
(***************************************************************************)
CleanMarks ==
    /\ phase \in {"client", "allocated"} => marked \subseteq pinned
    /\ phase = "client" => pinned = {}
    /\ phase = "sweep" => marked \subseteq unswept
    /\ phase \notin {"mark_roots", "trace_references"} => gray = {}

(***************************************************************************)
(* bytes_allocated is the size of the objects on the list and of what the  *)
(* constructor in progress has asked for: every allocate() is undone by    *)
(* the free of the same size (mem.c:23-80, 98), so that the threshold of   *)
(* the next collection follows the live heap.                              *)
(***************************************************************************)
Accounting ==
    bytes_allocated =
        Units(heap \ pinned, kind) + (IF making = NoKind THEN 0 ELSE call)

(***************************************************************************)
(* The collector implements Heap: a collection is one step that keeps      *)
(* exactly what is reachable, taken when the strings table is purged; the  *)
(* sweep after it, like the marking before it, is invisible.               *)
(***************************************************************************)
Abstract == INSTANCE Heap WITH
    heap <- Live,
    refs <- [o \in Objects |-> IF o \in Live THEN refs[o] ELSE {}]

\* The refinement: each step of the collector is a step of Heap, or invisible.
ImplementsHeap == Abstract!Spec

(***************************************************************************)
(* A collection ends and the allocation it interrupted gets its memory:    *)
(* the gray stack drains even when objects point to one another in cycles  *)
(* (mem.c:256), and the list is swept to its end (mem.c:263).              *)
(***************************************************************************)
CollectionEnds == phase = "mark_roots" ~> phase = "allocated"

=============================================================================
