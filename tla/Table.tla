-------------------------------- MODULE Table --------------------------------
(***************************************************************************)
(* The hash table of raven (src/table.c): open addressing, linear probing, *)
(* tombstones.  It holds the globals, the maps of the language and, as a   *)
(* set of weak references, every interned string; `hash & hash_mask' is    *)
(* the hash modulo the capacity, which is a power of two.                  *)
(*                                                                         *)
(* A table is a value here, and each function of table.c an operator on    *)
(* it; the state machine calls them in any order.  The keys a client uses  *)
(* are interned: two keys of one table never have the same characters.     *)
(***************************************************************************)
EXTENDS Naturals, FiniteSets

CONSTANTS
    Key,            \* string objects
    Content,        \* sequences of characters
    chars,          \* the characters of each string object
    hash,           \* the hash of each sequence of characters
    Value, Nil,     \* values, of which Nil is one
    False,          \* the value of a tombstone, any but Nil
    NULL,           \* no key
    MinCapacity,    \* what Grow_Capacity makes of 0
    MaxCapacity     \* the bound of the model

ASSUME KeyAssumption ==
    /\ NULL \notin Key
    /\ chars \in [Key -> Content] /\ hash \in [Content -> Nat]
ASSUME ValueAssumption == Nil \in Value /\ False # Nil
\* What hash_mask needs: a number without odd divisors.
PowerOfTwo(n) == \A d, e \in 1..n : d * e = n => d = 1 \/ d % 2 = 0

ASSUME CapacityAssumption ==
    /\ MinCapacity \in Nat /\ MaxCapacity \in Nat
    /\ MinCapacity >= 4 \* with 1 or 2 the load factor lets a table fill up
    /\ PowerOfTwo(MinCapacity)

VARIABLES
    table,      \* a Table: its entries, its count, its hash_mask + 1
    returned    \* what the last operation returned

vars == <<table, returned>>

Empty     == [key |-> NULL, value |-> Nil]
Tombstone == [key |-> NULL, value |-> False]

Blank(capacity) == [i \in 0..(capacity - 1) |-> Empty]

\* init_table
EmptyTable == [entries |-> Blank(0), count |-> 0, capacity |-> 0]

-----------------------------------------------------------------------------
\* Probing

\* The index d probes after the first one for a hash h.
Probe(h, d, capacity) == (h + d) % capacity

\* The least of some distances.
Nearest(D) == CHOOSE d \in D : \A e \in D : d <= e

\* Fault: the first tombstone on the way is taken for the key's entry.
FindEntry_AtTombstone(entries, key, capacity) ==
    LET h == hash[chars[key]]
        D == { d \in 0..(capacity - 1) :
                    entries[Probe(h, d, capacity)].key \in {NULL, key} }
    IN  Probe(h, Nearest(D), capacity)

\* find_entry: the entry of the key, or else the first tombstone on the way to
\* the first empty entry, or else that empty entry.
FindEntry(entries, key, capacity) ==
    LET h     == hash[chars[key]]
        At(d) == entries[Probe(h, d, capacity)]
        last  == Nearest({ d \in 0..(capacity - 1) : At(d) = Empty \/ At(d).key = key })
        tombs == { d \in 0..last : At(d) = Tombstone }
    IN  Probe(h, IF At(last).key = key \/ tombs = {} THEN last ELSE Nearest(tombs),
              capacity)

\* table_interned: the key with these characters, if there is one.
TableInterned(t, c) ==
    IF t.count = 0 THEN NULL
    ELSE LET At(d) == t.entries[Probe(hash[c], d, t.capacity)]
             Hit(d) == At(d) = Empty \/ (At(d).key # NULL /\ chars[At(d).key] = c)
         IN  At(Nearest({ d \in 0..(t.capacity - 1) : Hit(d) })).key

-----------------------------------------------------------------------------
\* Operations

GrowCapacity(capacity) == IF capacity < MinCapacity THEN MinCapacity ELSE 2 * capacity

\* A live entry is written where find_entry says.
Enter(entries, entry, capacity) ==
    IF entry.key = NULL THEN entries
    ELSE [entries EXCEPT ![FindEntry(entries, entry.key, capacity)] = entry]

\* adjust_capacity: the entries are moved one by one into a new array.
AdjustCapacity(t, capacity) ==
    LET moved[n \in 0..t.capacity] ==
            IF n = 0 THEN Blank(capacity)
            ELSE Enter(moved[n - 1], t.entries[n - 1], capacity)
    IN  [entries |-> moved[t.capacity],
         count |-> Cardinality({ i \in DOMAIN t.entries : t.entries[i].key # NULL }),
         capacity |-> capacity]

\* TABLE_MAX_LOAD is 0.75.
Overloaded(t) == 4 * t.count >= 3 * t.capacity

\* Fault: the mask of the new capacity is passed on as if it were the capacity.
Grown_ToMask(t) ==
    IF Overloaded(t) THEN AdjustCapacity(t, GrowCapacity(t.capacity) - 1) ELSE t

Grown(t) == IF Overloaded(t) THEN AdjustCapacity(t, GrowCapacity(t.capacity)) ELSE t

\* table_set
TableSet(t, key, value) ==
    LET g == Grown(t)
        i == FindEntry(g.entries, key, g.capacity)
    IN  [g EXCEPT !.entries[i] = [key |-> key, value |-> value],
                  !.count = IF g.entries[i] = Empty THEN @ + 1 ELSE @]

TableHas(t, key) ==
    t.count # 0 /\ t.entries[FindEntry(t.entries, key, t.capacity)].key # NULL

\* Fault: the count goes down when a key is removed, though a tombstone is left.
TableRemove_Uncounted(t, key) ==
    IF TableHas(t, key)
    THEN [t EXCEPT !.entries[FindEntry(t.entries, key, t.capacity)] = Tombstone,
                   !.count = @ - 1]
    ELSE t

\* table_remove
TableRemove(t, key) ==
    IF TableHas(t, key)
    THEN [t EXCEPT !.entries[FindEntry(t.entries, key, t.capacity)] = Tombstone]
    ELSE t

Purge(t, i, marked) ==
    IF t.entries[i].key \in Key \ marked THEN TableRemove(t, t.entries[i].key) ELSE t

\* table_remove_weak: each entry is looked at when the ones before it are done.
TableRemoveWeak(t, marked) ==
    LET purged[n \in 0..t.capacity] ==
            IF n = 0 THEN t ELSE Purge(purged[n - 1], n - 1, marked)
    IN  purged[t.capacity]

Put(t, entry) == IF entry.key = NULL THEN t ELSE TableSet(t, entry.key, entry.value)

\* table_copy
TableCopy(from, to) ==
    LET copied[n \in 0..from.capacity] ==
            IF n = 0 THEN to ELSE Put(copied[n - 1], from.entries[n - 1])
    IN  copied[from.capacity]

-----------------------------------------------------------------------------
\* The state machine

KeysOf(t) == { t.entries[i].key : i \in DOMAIN t.entries } \ {NULL}

Keys == KeysOf(table)

InternedKey(k) == \A d \in Keys : chars[d] = chars[k] => d = k

\* The bound of the model.
Bounded(t) == t.capacity <= MaxCapacity

Init == table = EmptyTable /\ returned = [done |-> TRUE]

\* table_get
Get(k) ==
    /\ returned' = [value |->
            IF TableHas(table, k)
            THEN {table.entries[FindEntry(table.entries, k, table.capacity)].value}
            ELSE {}]
    /\ UNCHANGED table

Set(k, v) ==
    /\ InternedKey(k)
    /\ Bounded(Grown(table))
    /\ table' = TableSet(table, k, v)
    /\ returned' = [isNew |-> ~TableHas(table, k)]

Delete(k) ==
    /\ table' = TableRemove(table, k)
    /\ returned' = [removed |-> TableHas(table, k)]

\* new_string and box_string: look the characters up, or make a string object
\* and enter it.
Intern(c) ==
    /\ Bounded(Grown(table))
    /\ LET found == TableInterned(table, c)
       IN  IF found # NULL
           THEN UNCHANGED table /\ returned' = [string |-> found]
           ELSE \E k \in Key \ Keys :
                    /\ chars[k] = c
                    /\ table' = TableSet(table, k, Nil)
                    /\ returned' = [string |-> k]

\* A collection marked these strings.
RemoveWeak(marked) ==
    /\ table' = TableRemoveWeak(table, marked)
    /\ returned' = [done |-> TRUE]

\* The table is replaced by a copy of it.
Copy ==
    /\ table' = TableCopy(table, EmptyTable)
    /\ returned' = [done |-> TRUE]

Next ==
    \/ \E k \in Key : Get(k) \/ Delete(k)
    \/ \E k \in Key, v \in Value : Set(k, v)
    \/ \E c \in Content : Intern(c)
    \/ \E marked \in SUBSET Key : RemoveWeak(marked)
    \/ Copy

Spec == Init /\ [][Next]_vars

-----------------------------------------------------------------------------
\* Properties

\* Every variable has its type: the capacity is a power of two, so that hash_mask
\* is a mask, and the count does not exceed it.
TypeOK ==
    /\ \/ table.capacity = 0
       \/ table.capacity >= MinCapacity /\ PowerOfTwo(table.capacity)
    /\ table.entries \in
            [0..(table.capacity - 1) -> [key : Key \cup {NULL}, value : Value \cup {False}]]
    /\ table.count \in 0..table.capacity

(***************************************************************************)
(* The loops of find_entry (table.c:26) and table_interned (table.c:122)   *)
(* have no bound: they end because no table is ever full.  The count that  *)
(* decides when to grow includes the tombstones, however many keys were    *)
(* entered and removed since the last growth.                              *)
(***************************************************************************)
ProbesEnd ==
    /\ table.count = Cardinality({ i \in DOMAIN table.entries : table.entries[i] # Empty })
    /\ table.capacity > 0 => table.count < table.capacity

\* The map a table stands for.
Contents(t) ==
    [k \in KeysOf(t) |->
        t.entries[CHOOSE i \in DOMAIN t.entries : t.entries[i].key = k].value]

(***************************************************************************)
(* The table implements Map: growth keeps every key, a removal hides no    *)
(* other key of its chain, a reused tombstone duplicates none, and the     *)
(* strings table never has two objects for the same characters.            *)
(***************************************************************************)
Abstract == INSTANCE Map WITH map <- Contents(table)

\* The refinement: each call returns what Map says, and does to the map what it says.
ImplementsMap == Abstract!Spec

=============================================================================
