--------------------------------- MODULE Map ---------------------------------
(***************************************************************************)
(* What src/table.h promises: a map from string objects to values, and,    *)
(* for the table of interned strings, a set of strings no two of which     *)
(* have the same characters.  Every operation says what it returns.        *)
(*                                                                         *)
(* Table.tla is the open-addressing table of src/table.c, which implements *)
(* this module.                                                            *)
(***************************************************************************)

CONSTANTS
    Key,        \* string objects
    Content,    \* sequences of characters
    chars,      \* the characters of each string object
    Value, Nil  \* what a map holds, of which Nil is one

VARIABLES
    map,        \* a function whose domain is the set of keys
    returned    \* what the last operation returned

vars == <<map, returned>>

Keys == DOMAIN map

\* The keys of one map are told apart by their characters.
Interned(k) == \A d \in Keys : chars[d] = chars[k] => d = k

Init == map = [k \in {} |-> Nil] /\ returned = [done |-> TRUE]

Update(k, v) == map' = [d \in Keys \cup {k} |-> IF d = k THEN v ELSE map[d]]

Restrict(K) == map' = [k \in Keys \cap K |-> map[k]]

Get(k) ==
    /\ returned' = [value |-> IF k \in Keys THEN {map[k]} ELSE {}]
    /\ UNCHANGED map

Set(k, v) ==
    /\ Interned(k)
    /\ Update(k, v)
    /\ returned' = [isNew |-> k \notin Keys]

Delete(k) ==
    /\ Restrict(Key \ {k})
    /\ returned' = [removed |-> k \in Keys]

\* The string with these characters, a new object if there was none.
Intern(c) ==
    \E k \in Key :
        /\ chars[k] = c /\ Interned(k)
        /\ IF k \in Keys THEN UNCHANGED map ELSE Update(k, Nil)
        /\ returned' = [string |-> k]

\* Only marked strings survive a collection.
RemoveWeak(marked) ==
    /\ Restrict(marked)
    /\ returned' = [done |-> TRUE]

\* A copy is the same map.
Copy == UNCHANGED map /\ returned' = [done |-> TRUE]

Next ==
    \/ \E k \in Key : Get(k) \/ Delete(k)
    \/ \E k \in Key, v \in Value : Set(k, v)
    \/ \E c \in Content : Intern(c)
    \/ \E marked \in SUBSET Key : RemoveWeak(marked)
    \/ Copy

Spec == Init /\ [][Next]_vars

=============================================================================
