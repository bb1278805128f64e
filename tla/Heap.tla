-------------------------------- MODULE Heap --------------------------------
(***************************************************************************)
(* What the allocator of src/mem.c and the constructors of src/object.c    *)
(* promise the rest of raven, with no word of how: a set of objects that   *)
(* point to one another, the places the collector takes as roots, the weak *)
(* table of interned strings, and a collection that happens in ONE step    *)
(* and keeps exactly what is reachable.                                    *)
(*                                                                         *)
(* Memory.tla is the collector as it is written (mark, trace, clear weak   *)
(* references, sweep); it implements this module.                          *)
(***************************************************************************)
EXTENDS Reachability

CONSTANTS
    Objects,        \* addresses
    RootGroups      \* the tables of the VM that mark_roots walks

VARIABLES
    heap,       \* addresses that hold an object
    refs,       \* what each object points to
    roots,      \* what each root table points to
    strings,    \* the interned strings (weak references)
    pinned,     \* the array whose element buffer is being allocated, if any
    gc_off      \* collection is disabled while the compiler runs

vars == <<heap, refs, roots, strings, pinned, gc_off>>

RootSet == UNION { roots[g] : g \in RootGroups }

Reachable == ReachableFrom(RootSet, refs)

(***************************************************************************)
(* The pointers a client may legitimately store: what it can reach, or an  *)
(* interned string it has just looked up.  While the compiler runs nothing *)
(* is collected, and it may hold anything it has built.                    *)
(***************************************************************************)
Usable == IF gc_off THEN heap ELSE Reachable \cup strings

-----------------------------------------------------------------------------

Init ==
    /\ heap = {}
    /\ refs = [o \in Objects |-> {}]
    /\ roots = [g \in RootGroups |-> {}]
    /\ strings = {}
    /\ pinned = {}
    /\ gc_off = FALSE

\* A client rewrites a root table.
Assign(g, S) ==
    /\ S \subseteq Usable
    /\ roots' = [roots EXCEPT ![g] = S]
    /\ UNCHANGED <<heap, refs, strings, pinned, gc_off>>

\* A client rewrites the fields of an object.
Store(o, S) ==
    /\ o \in Usable
    /\ S \subseteq Usable
    /\ refs' = [refs EXCEPT ![o] = S]
    /\ UNCHANGED <<heap, roots, strings, pinned, gc_off>>

\* An array header exists before its buffer does.
Reserve(o) ==
    /\ o \notin heap
    /\ pinned = {}
    /\ heap' = heap \cup {o}
    /\ pinned' = {o}
    /\ UNCHANGED <<refs, roots, strings, gc_off>>

\* A constructor returns a complete object: it becomes a root, unless the
\* compiler holds it, and an interned string enters the weak table.
Publish(o, S, interned) ==
    /\ \/ o \notin heap /\ pinned = {}
       \/ pinned = {o}
    /\ S \subseteq Usable
    /\ heap' = heap \cup {o}
    /\ pinned' = {}
    /\ refs' = [refs EXCEPT ![o] = S]
    /\ strings' = IF interned THEN strings \cup {o} ELSE strings
    /\ \/ \E g \in RootGroups : roots' = [roots EXCEPT ![g] = @ \cup {o}]
       \/ gc_off /\ UNCHANGED roots
    /\ UNCHANGED gc_off

\* A collection, all at once.
Collect ==
    /\ ~gc_off
    /\ heap' = Reachable \cup pinned
    /\ refs' = [o \in Objects |-> IF o \in heap' THEN refs[o] ELSE {}]
    /\ strings' = strings \cap heap'
    /\ UNCHANGED <<roots, pinned, gc_off>>

\* interpret() switches the collector off to compile and back on to run.
Switch ==
    /\ pinned = {}
    /\ gc_off' \in BOOLEAN
    /\ UNCHANGED <<heap, refs, roots, strings, pinned>>

Next ==
    \/ \E g \in RootGroups, S \in SUBSET Objects : Assign(g, S)
    \/ \E o \in Objects, S \in SUBSET Objects : Store(o, S)
    \/ \E o \in Objects : Reserve(o)
    \/ \E o \in Objects, S \in SUBSET Objects, interned \in BOOLEAN :
            Publish(o, S, interned)
    \/ Collect
    \/ Switch

Spec == Init /\ [][Next]_vars

=============================================================================
