----------------------------- MODULE Table_proofs -----------------------------
(***************************************************************************)
(* Table never fills up and implements Map, for any keys, hashes and       *)
(* capacities.                                                             *)
(***************************************************************************)
EXTENDS Table, Lists_proofs, FiniteSetTheorems, TLAPS

-----------------------------------------------------------------------------
\* The inductive invariant

Entry == [key : Key, value : Value] \cup {Empty, Tombstone}

\* A key that d probes lead to is found only if no probe before meets an entry that
\* was never used, or the key.
Way(entries, n, k, d) ==
    \A e \in 0..(d - 1) :
        /\ entries[Probe(hash[chars[k]], e, n)] # Empty
        /\ entries[Probe(hash[chars[k]], e, n)].key # k

\* The key is at i, where find_entry looks for it.
Found(entries, n, k, i) ==
    /\ entries[i].key = k
    /\ \E d \in 0..(n - 1) : Probe(hash[chars[k]], d, n) = i /\ Way(entries, n, k, d)

Chained(entries, n) ==
    \A i \in 0..(n - 1) : entries[i].key # NULL => Found(entries, n, entries[i].key, i)

Used(entries) == { i \in DOMAIN entries : entries[i] # Empty }

Live(entries) == { entries[i] : i \in { j \in DOMAIN entries : entries[j].key # NULL } }

Capacity(n) == n = 0 \/ (n >= MinCapacity /\ PowerOfTwo(n))

\* What every function of table.c is given and gives back.
Good(t) ==
    /\ t \in [entries : [0..(t.capacity - 1) -> Entry], count : Nat, capacity : Nat]
    /\ Capacity(t.capacity)
    /\ t.count = Cardinality(Used(t.entries))
    /\ t.capacity > 0 => t.count < t.capacity
    /\ Chained(t.entries, t.capacity)

Interned(L) == \A e, f \in L : chars[e.key] = chars[f.key] => e.key = f.key

IInv == Good(table) /\ Interned(Live(table.entries))

-----------------------------------------------------------------------------
\* Probes

\* A probe meets an entry of the array.
LEMMA ProbeIn ==
    ASSUME NEW n \in Nat \ {0}, NEW h \in Nat, NEW d \in Nat
    PROVE  Probe(h, d, n) \in 0..(n - 1)
<1>1. h + d \in Nat
    OBVIOUS
<1> QED
    BY <1>1 DEF Probe

\* n probes meet every entry.
LEMMA ProbeOnto ==
    ASSUME NEW n \in Nat \ {0}, NEW h \in Nat, NEW i \in 0..(n - 1)
    PROVE  \E d \in 0..(n - 1) : Probe(h, d, n) = i
<1> DEFINE q == h \div n
           r == h % n
<1>1. q \in Nat /\ r \in 0..(n - 1) /\ h = q * n + r
    OBVIOUS
<1>2. ASSUME NEW p \in Nat PROVE (p * n + i) % n = i
    OBVIOUS
<1> HIDE DEF q, r
<1>3. CASE i >= r
    <2>1. i - r \in 0..(n - 1) /\ h + (i - r) = q * n + i
        BY <1>1, <1>3
    <2> QED
        BY <1>1, <1>2, <2>1 DEF Probe
<1>4. CASE i < r
    <2>1. i - r + n \in 0..(n - 1) /\ h + (i - r + n) = (q + 1) * n + i /\ q + 1 \in Nat
        BY <1>1, <1>4
    <2> QED
        BY <1>2, <2>1 DEF Probe
<1> QED
    BY <1>1, <1>3, <1>4

\* The hash of a key is a number.
LEMMA HashType == \A k \in Key : chars[k] \in Content /\ hash[chars[k]] \in Nat
BY KeyAssumption

\* The nearest of some distances.
LEMMA NearestProps ==
    ASSUME NEW D \in SUBSET Nat, D # {}
    PROVE  Nearest(D) \in D /\ \A e \in D : Nearest(D) <= e
BY LeastNat DEF Nearest

\* Free to take: an entry without a key, for a key that is nowhere.
Fresh(entries, n, k, i) ==
    /\ entries[i] \in {Empty, Tombstone}
    /\ \E d \in 0..(n - 1) :
        /\ Probe(hash[chars[k]], d, n) = i
        /\ Way(entries, n, k, d)
    /\ \E d \in 0..(n - 1) :
        /\ entries[Probe(hash[chars[k]], d, n)] = Empty
        /\ Way(entries, n, k, d)

\* What find_entry returns, when there is an entry that was never used.
LEMMA FindEntryProps ==
    ASSUME NEW n \in Nat \ {0}, NEW entries \in [0..(n - 1) -> Entry], NEW k \in Key,
           \E i \in 0..(n - 1) : entries[i] = Empty
    PROVE  /\ FindEntry(entries, k, n) \in 0..(n - 1)
           /\ \/ Found(entries, n, k, FindEntry(entries, k, n))
              \/ Fresh(entries, n, k, FindEntry(entries, k, n))
<1> DEFINE h     == hash[chars[k]]
           At(d) == entries[Probe(h, d, n)]
           D     == { d \in 0..(n - 1) : At(d) = Empty \/ At(d).key = k }
           last  == Nearest(D)
           T     == { d \in 0..last : At(d) = Tombstone }
           f     == FindEntry(entries, k, n)
<1>1. h \in Nat
    BY HashType
<1>2. \A d \in Nat : Probe(h, d, n) \in 0..(n - 1) /\ At(d) \in Entry
    BY <1>1, ProbeIn
<1>3. D # {} /\ D \in SUBSET Nat
    <2>1. PICK i \in 0..(n - 1) : entries[i] = Empty
        OBVIOUS
    <2>2. PICK d \in 0..(n - 1) : Probe(h, d, n) = i
        BY <1>1, ProbeOnto
    <2> QED
        BY <2>1, <2>2
<1>4. last \in D /\ \A e \in D : last <= e
    <2> HIDE DEF D
    <2> QED
        BY <1>3, NearestProps
<1>5. last \in 0..(n - 1) /\ (At(last) = Empty \/ At(last).key = k)
    <2> HIDE DEF last
    <2> QED
        BY <1>4
<1>6. ASSUME NEW d \in 0..last PROVE Way(entries, n, k, d)
    <2>1. ASSUME NEW e \in 0..(d - 1) PROVE At(e) # Empty /\ At(e).key # k
        <3> HIDE DEF last
        <3>1. e \in 0..(n - 1) /\ ~(last <= e)
            BY <1>5
        <3> QED
            BY <1>4, <3>1
    <2> QED
        BY <2>1 DEF Way
<1>7. f = Probe(h, IF At(last).key = k \/ T = {} THEN last ELSE Nearest(T), n)
    BY DEF FindEntry
<1>8. ASSUME T # {} PROVE Nearest(T) \in 0..last /\ At(Nearest(T)) = Tombstone
    <2>1. T \in SUBSET Nat
        <3> HIDE DEF last
        <3> QED
            BY <1>5
    <2>2. Nearest(T) \in T
        <3> HIDE DEF T
        <3> QED
            BY <1>8, <2>1, NearestProps
    <2> QED
        BY <2>2
<1>9. Probe(h, last, n) \in 0..(n - 1) /\ Way(entries, n, k, last)
    <2> HIDE DEF last
    <2> QED
        BY <1>2, <1>5, <1>6
<1>10. CASE At(last).key = k
    <2>1. f = Probe(h, last, n)
        BY <1>7, <1>10
    <2> HIDE DEF last, D
    <2> QED
        BY <2>1, <1>5, <1>9, <1>10 DEF Found
<1>11. CASE At(last) = Empty /\ At(last).key # k /\ T = {}
    <2>1. f = Probe(h, last, n)
        BY <1>7, <1>11
    <2> HIDE DEF last, D, T
    <2> QED
        BY <2>1, <1>5, <1>9, <1>11 DEF Fresh
<1>12. CASE At(last) = Empty /\ At(last).key # k /\ T # {}
    <2> DEFINE t == Nearest(T)
    <2>1. f = Probe(h, t, n)
        BY <1>7, <1>12
    <2>2. t \in 0..last /\ At(t) = Tombstone
        BY <1>8, <1>12
    <2> HIDE DEF last, D, T, t
    <2>3. t \in 0..(n - 1) /\ Probe(h, t, n) \in 0..(n - 1) /\ Way(entries, n, k, t)
        BY <1>2, <1>5, <1>6, <2>2
    <2> QED
        BY <2>1, <2>2, <2>3, <1>5, <1>9, <1>12 DEF Fresh
<1> QED
    BY <1>5, <1>10, <1>11, <1>12

\* A key is found at one index only.
LEMMA FoundUnique ==
    ASSUME NEW n, NEW entries, NEW k, NEW i, NEW j,
           Found(entries, n, k, i), Found(entries, n, k, j)
    PROVE  i = j
<1> DEFINE P(d) == Probe(hash[chars[k]], d, n)
<1>1. PICK c \in 0..(n - 1) : P(c) = i /\ Way(entries, n, k, c)
    BY DEF Found
<1>2. PICK d \in 0..(n - 1) : P(d) = j /\ Way(entries, n, k, d)
    BY DEF Found
<1>3. entries[P(c)].key = k /\ entries[P(d)].key = k
    BY <1>1, <1>2 DEF Found
<1>4. ~(c < d) /\ ~(d < c)
    BY <1>1, <1>2, <1>3 DEF Way
<1> QED
    BY <1>1, <1>2, <1>4

\* A key that has no entry where it would be looked for has none.
LEMMA FreshAbsent ==
    ASSUME NEW n, NEW entries, Chained(entries, n), NEW k \in Key, NEW i,
           Fresh(entries, n, k, i), NEW j \in 0..(n - 1)
    PROVE  entries[j].key # k
<1> DEFINE P(d) == Probe(hash[chars[k]], d, n)
<1> SUFFICES ASSUME entries[j].key = k PROVE FALSE
    OBVIOUS
<1>1. Found(entries, n, k, j)
    BY KeyAssumption DEF Chained
<1>2. PICK c \in 0..(n - 1) : P(c) = j /\ Way(entries, n, k, c)
    BY <1>1 DEF Found
<1>3. PICK d \in 0..(n - 1) : entries[P(d)] = Empty /\ Way(entries, n, k, d)
    BY DEF Fresh
<1>4. entries[P(c)].key = k /\ entries[P(d)].key # k
    BY <1>2, <1>3, KeyAssumption DEF Empty
<1>5. ~(c < d) /\ ~(d < c)
    BY <1>2, <1>3, <1>4 DEF Way
<1> QED
    BY <1>4, <1>5

\* A table with a key, or without some.
With(L, k, v) == { e \in L : e.key # k } \cup {[key |-> k, value |-> v]}

\* One index is written: what is looked for elsewhere is still found there, if
\* its way goes on.
LEMMA OthersStay ==
    ASSUME NEW n \in Nat \ {0}, NEW entries \in [0..(n - 1) -> Entry], NEW i \in 0..(n - 1),
           NEW e \in Entry, e # Empty,
           NEW k \in Key, e.key # k, NEW j \in 0..(n - 1), j # i, Found(entries, n, k, j)
    PROVE  Found([entries EXCEPT ![i] = e], n, k, j)
<1> DEFINE P(d) == Probe(hash[chars[k]], d, n)
           new  == [entries EXCEPT ![i] = e]
<1>1. PICK d \in 0..(n - 1) : P(d) = j /\ Way(entries, n, k, d)
    BY DEF Found
<1>2. \A c \in Nat : P(c) \in 0..(n - 1)
    BY HashType, ProbeIn
<1>3. \A m \in 0..(n - 1) : new[m] = IF m = i THEN e ELSE entries[m]
    OBVIOUS
<1> HIDE DEF new
<1>4. Way(new, n, k, d)
    <2>1. ASSUME NEW a \in 0..(d - 1) PROVE new[P(a)] # Empty /\ new[P(a)].key # k
        <3>1. P(a) \in 0..(n - 1) /\ entries[P(a)] # Empty /\ entries[P(a)].key # k
            BY <1>1, <1>2 DEF Way
        <3> QED
            BY <1>3, <3>1
    <2> QED
        BY <2>1 DEF Way
<1>5. new[j].key = k
    BY <1>3 DEF Found
<1> QED
    BY <1>1, <1>4, <1>5 DEF Found, new

\* The key that is written is found where it was looked for.
LEMMA StoredFound ==
    ASSUME NEW n \in Nat \ {0}, NEW entries \in [0..(n - 1) -> Entry], NEW i \in 0..(n - 1),
           NEW k \in Key, NEW e, e.key = k,
           Found(entries, n, k, i) \/ Fresh(entries, n, k, i)
    PROVE  Found([entries EXCEPT ![i] = e], n, k, i)
<1> DEFINE P(d) == Probe(hash[chars[k]], d, n)
           D    == { d \in 0..(n - 1) : P(d) = i }
           new  == [entries EXCEPT ![i] = e]
<1>1. PICK c \in 0..(n - 1) : P(c) = i /\ Way(entries, n, k, c)
    BY DEF Found, Fresh
<1>2. PICK d \in D : \A a \in D : d <= a
    <2>1. D \in SUBSET Nat /\ D # {}
        BY <1>1
    <2> HIDE DEF D
    <2> QED
        BY <2>1, LeastNat
<1>3. d \in 0..c
    BY <1>1, <1>2
<1>4. \A a \in Nat : P(a) \in 0..(n - 1)
    BY HashType, ProbeIn
<1>5. \A m \in 0..(n - 1) : new[m] = IF m = i THEN e ELSE entries[m]
    OBVIOUS
<1> HIDE DEF new
<1>6. Way(new, n, k, d)
    <2>1. ASSUME NEW a \in 0..(d - 1) PROVE new[P(a)] # Empty /\ new[P(a)].key # k
        <3>1. a \in Nat /\ a \in 0..(c - 1) /\ a \in 0..(n - 1) /\ ~(d <= a)
            BY <1>3
        <3>2. P(a) \in 0..(n - 1) /\ P(a) # i
            BY <1>2, <1>4, <3>1
        <3>3. entries[P(a)] # Empty /\ entries[P(a)].key # k
            BY <1>1, <3>1 DEF Way
        <3> QED
            BY <1>5, <3>2, <3>3
    <2> QED
        BY <2>1 DEF Way
<1> QED
    BY <1>2, <1>5, <1>6 DEF Found, new

\* Keys and values are told apart from what entries without a key hold.
LEMMA EntryKinds ==
    \A e \in Entry :
        /\ e.key = NULL <=> e \in {Empty, Tombstone}
        /\ e.key # NULL <=> e.key \in Key
        /\ e.key # NULL => e.value \in Value /\ e = [key |-> e.key, value |-> e.value]
BY KeyAssumption DEF Entry, Empty, Tombstone

\* What the array is after the key was written at i.
Stored(new, entries, n, k, v, i) ==
    /\ new \in [0..(n - 1) -> Entry]
    /\ Chained(new, n)
    /\ Used(new) = Used(entries) \cup {i}
    /\ Live(new) = With(Live(entries), k, v)

\* A key and its value are written where find_entry says: nothing else is lost, and
\* the key is there once.
LEMMA StoreEntry ==
    ASSUME NEW n \in Nat \ {0}, NEW entries \in [0..(n - 1) -> Entry], Chained(entries, n),
           NEW k \in Key, NEW v \in Value, NEW i \in 0..(n - 1),
           Found(entries, n, k, i) \/ Fresh(entries, n, k, i),
           NEW e, e = [key |-> k, value |-> v]
    PROVE  Stored([entries EXCEPT ![i] = e], entries, n, k, v, i)
<1> DEFINE new == [entries EXCEPT ![i] = e]
<1>1. e \in Entry /\ e # Empty /\ e.key = k /\ k # NULL /\ e.key # NULL
    BY KeyAssumption DEF Entry, Empty
<1>3. With(Live(entries), k, v) = { f \in Live(entries) : f.key # k } \cup {e}
    BY DEF With
<1>4. \A m \in 0..(n - 1) : new[m] = IF m = i THEN e ELSE entries[m]
    OBVIOUS
<1>5. new \in [0..(n - 1) -> Entry] /\ DOMAIN new = 0..(n - 1) /\ DOMAIN entries = 0..(n - 1)
    BY <1>1
<1> HIDE DEF new
<1>6. \A j \in 0..(n - 1) : entries[j].key = k => j = i
    <2> SUFFICES ASSUME NEW j \in 0..(n - 1), entries[j].key = k PROVE j = i
        OBVIOUS
    <2>1. ~Fresh(entries, n, k, i)
        BY FreshAbsent
    <2>2. Found(entries, n, k, j)
        BY <1>1 DEF Chained
    <2> QED
        BY ONLY <2>1, <2>2, Found(entries, n, k, i) \/ Fresh(entries, n, k, i), FoundUnique
<1>7. Chained(new, n)
    <2> SUFFICES ASSUME NEW j \in 0..(n - 1), new[j].key # NULL
                 PROVE  Found(new, n, new[j].key, j)
        BY DEF Chained
    <2>1. CASE j = i
        <3>1. Found([entries EXCEPT ![i] = e], n, k, i)
            BY <1>1, StoredFound
        <3>2. new[j].key = k
            BY <1>1, <1>4, <2>1
        <3> QED
            BY <2>1, <3>1, <3>2 DEF new
    <2>2. CASE j # i
        <3>1. new[j] = entries[j] /\ entries[j] \in Entry
            BY <1>4, <2>2
        <3>2. entries[j].key \in Key /\ e.key # entries[j].key
            BY <1>1, <1>6, <2>2, <3>1, EntryKinds
        <3>3. Found(entries, n, entries[j].key, j)
            BY <3>1 DEF Chained
        <3>4. Found([entries EXCEPT ![i] = e], n, entries[j].key, j)
            BY <1>1, <2>2, <3>2, <3>3, OthersStay
        <3> QED
            BY <3>1, <3>4 DEF new
    <2> QED
        BY <2>1, <2>2
<1>8. Used(new) = Used(entries) \cup {i}
    BY <1>1, <1>4, <1>5 DEF Used
<1>9. Live(new) = { f \in Live(entries) : f.key # k } \cup {e}
    <2>1. ASSUME NEW f \in Live(new) PROVE f = e \/ (f \in Live(entries) /\ f.key # k)
        <3>1. PICK j \in 0..(n - 1) : f = new[j] /\ new[j].key # NULL
            BY <1>5 DEF Live
        <3>2. j = i \/ (f = entries[j] /\ entries[j].key # NULL /\ entries[j].key # k)
            BY <1>4, <1>6, <3>1
        <3> QED
            BY <1>4, <1>5, <3>1, <3>2 DEF Live
    <2>2. ASSUME NEW f \in Live(entries), f.key # k PROVE f \in Live(new)
        <3>1. PICK j \in 0..(n - 1) : f = entries[j] /\ entries[j].key # NULL
            BY <1>5 DEF Live
        <3>2. CASE j = i
            <4>1. Fresh(entries, n, k, i)
                BY <2>2, <3>1, <3>2 DEF Found
            <4>2. entries[i].key = NULL
                BY <4>1 DEF Fresh, Empty, Tombstone
            <4> QED
                BY <3>1, <3>2, <4>2
        <3>3. CASE j # i
            BY <1>4, <1>5, <3>1, <3>3 DEF Live
        <3> QED
            BY <3>2, <3>3
    <2>3. e \in Live(new)
        BY <1>1, <1>4, <1>5 DEF Live
    <2> QED
        BY <2>1, <2>2, <2>3
<1> QED
    BY <1>3, <1>5, <1>7, <1>8, <1>9 DEF Stored, new

\* The entry of a key becomes a tombstone: the ways through it go on.
LEMMA EraseEntry ==
    ASSUME NEW n \in Nat \ {0}, NEW entries \in [0..(n - 1) -> Entry], Chained(entries, n),
           NEW k \in Key, NEW i \in 0..(n - 1), Found(entries, n, k, i),
           NEW new, new = [entries EXCEPT ![i] = Tombstone]
    PROVE  /\ new \in [0..(n - 1) -> Entry]
           /\ Chained(new, n)
           /\ Used(new) = Used(entries)
           /\ Live(new) = { e \in Live(entries) : e.key # k }
<1>1. Tombstone \in Entry /\ Tombstone # Empty /\ Tombstone.key = NULL /\ k # NULL
    BY KeyAssumption, ValueAssumption DEF Entry, Empty, Tombstone
<1>2. \A m \in 0..(n - 1) : new[m] = IF m = i THEN Tombstone ELSE entries[m]
    OBVIOUS
<1>3. new \in [0..(n - 1) -> Entry] /\ DOMAIN new = 0..(n - 1) /\ DOMAIN entries = 0..(n - 1)
    BY <1>1
<1>4. entries[i].key = k /\ entries[i] # Empty
    BY <1>1 DEF Found, Empty
<1>5. \A j \in 0..(n - 1) : entries[j].key = k => j = i
    <2> SUFFICES ASSUME NEW j \in 0..(n - 1), entries[j].key = k PROVE j = i
        OBVIOUS
    <2>1. Found(entries, n, k, j)
        BY <1>1 DEF Chained
    <2> QED
        BY ONLY <2>1, Found(entries, n, k, i), FoundUnique
<1>6. Chained(new, n)
    <2> SUFFICES ASSUME NEW j \in 0..(n - 1), new[j].key # NULL
                 PROVE  Found(new, n, new[j].key, j)
        BY DEF Chained
    <2>1. j # i /\ new[j] = entries[j] /\ entries[j] \in Entry
        BY <1>1, <1>2
    <2>2. entries[j].key \in Key /\ Tombstone.key # entries[j].key
        BY <1>1, <2>1, EntryKinds
    <2>3. Found(entries, n, entries[j].key, j)
        BY <2>1 DEF Chained
    <2>4. Found([entries EXCEPT ![i] = Tombstone], n, entries[j].key, j)
        BY <1>1, <2>1, <2>2, <2>3, OthersStay
    <2> QED
        BY <2>1, <2>4
<1>7. Used(new) = Used(entries)
    BY <1>1, <1>2, <1>3, <1>4 DEF Used
<1>8. Live(new) = { e \in Live(entries) : e.key # k }
    <2>1. ASSUME NEW e \in Live(new) PROVE e \in Live(entries) /\ e.key # k
        <3>1. PICK j \in 0..(n - 1) : e = new[j] /\ new[j].key # NULL
            BY <1>3 DEF Live
        <3>2. e = entries[j] /\ entries[j].key # NULL /\ entries[j].key # k
            BY <1>1, <1>2, <1>5, <3>1
        <3> QED
            BY <1>3, <3>1, <3>2 DEF Live
    <2>2. ASSUME NEW e \in Live(entries), e.key # k PROVE e \in Live(new)
        <3>1. PICK j \in 0..(n - 1) : e = entries[j] /\ entries[j].key # NULL
            BY <1>3 DEF Live
        <3>2. j # i
            BY <1>4, <2>2, <3>1
        <3> QED
            BY <1>2, <1>3, <3>1, <3>2 DEF Live
    <2> QED
        BY <2>1, <2>2
<1> QED
    BY <1>3, <1>6, <1>7, <1>8

-----------------------------------------------------------------------------
\* Capacities and counts

\* Twice a number without odd divisors has none.
LEMMA DoublePower ==
    ASSUME NEW n \in Nat, PowerOfTwo(n)
    PROVE  PowerOfTwo(2 * n)
<1> SUFFICES ASSUME NEW d \in 1..(2 * n), NEW e \in 1..(2 * n), d * e = 2 * n, d % 2 # 0
             PROVE  d = 1
    BY DEF PowerOfTwo
<1>1. PICK c \in Nat : d = 2 * c + 1
    OBVIOUS
<1>2. c * e \in Nat /\ d * e = 2 * (c * e) + e
    BY <1>1
<1> DEFINE f == n - c * e
<1>3. e = 2 * f /\ f \in Int
    BY <1>2
<1>4. d * f = n
    <2>1. d * e = 2 * (d * f)
        BY <1>3
    <2>2. d * f \in Int
        BY <1>3
    <2> QED
        BY <2>1, <2>2
<1>5. f \in 1..n
    BY <1>3, <1>2
<1>6. d \in 1..n
    <2>1. d <= d * f
        BY <1>5
    <2> QED
        BY <1>4, <2>1
<1> QED
    BY <1>4, <1>5, <1>6 DEF PowerOfTwo

\* A table grows, to a capacity that a mask can stand for.
LEMMA GrowProps ==
    ASSUME NEW n \in Nat, Capacity(n)
    PROVE  /\ GrowCapacity(n) \in Nat
           /\ Capacity(GrowCapacity(n))
           /\ GrowCapacity(n) >= 4
           /\ GrowCapacity(n) >= 2 * n
BY CapacityAssumption, DoublePower DEF Capacity, GrowCapacity

\* The indices of an array are finitely many.
LEMMA IndicesFinite ==
    ASSUME NEW n \in Nat, NEW I \in SUBSET (0..(n - 1))
    PROVE  /\ IsFiniteSet(I)
           /\ Cardinality(I) \in 0..n
           /\ Cardinality(I) = n => I = 0..(n - 1)
<1>1. IsFiniteSet(0..(n - 1)) /\ Cardinality(0..(n - 1)) = n
    BY FS_Interval
<1>2. /\ IsFiniteSet(I) /\ Cardinality(I) <= n
      /\ Cardinality(I) = n => I = 0..(n - 1)
    BY <1>1, FS_Subset
<1>3. Cardinality(I) \in Nat
    BY <1>2, FS_CardinalityType
<1> QED
    BY <1>2, <1>3

\* A table whose count is below its capacity has an entry that was never used.
LEMMA Room ==
    ASSUME NEW n \in Nat \ {0}, NEW entries \in [0..(n - 1) -> Entry],
           Cardinality(Used(entries)) < n
    PROVE  \E i \in 0..(n - 1) : entries[i] = Empty
<1>1. Cardinality(0..(n - 1)) = n
    BY FS_Interval
<1>2. Used(entries) # 0..(n - 1)
    BY <1>1
<1> QED
    BY <1>2 DEF Used

\* The parts of what the functions are given.
LEMMA GoodParts ==
    ASSUME NEW t, Good(t)
    PROVE  /\ t.capacity \in Nat
           /\ t.count \in 0..t.capacity
           /\ t.entries \in [0..(t.capacity - 1) -> Entry]
           /\ DOMAIN t.entries = 0..(t.capacity - 1)
           /\ Used(t.entries) \in SUBSET (0..(t.capacity - 1))
           /\ t.capacity > 0 =>
                /\ t.capacity >= 4
                /\ t.count < t.capacity
                /\ \E i \in 0..(t.capacity - 1) : t.entries[i] = Empty
<1>1. t.capacity \in Nat /\ t.count \in Nat /\ t.entries \in [0..(t.capacity - 1) -> Entry]
    BY DEF Good
<1>2. Used(t.entries) \in SUBSET (0..(t.capacity - 1))
    BY <1>1 DEF Used
<1>3. t.count = Cardinality(Used(t.entries))
    BY DEF Good
<1>4. t.count \in 0..t.capacity
    BY <1>1, <1>2, <1>3, IndicesFinite
<1>5. t.capacity > 0 => t.capacity >= 4 /\ t.count < t.capacity
    BY <1>1, CapacityAssumption DEF Good, Capacity
<1>6. ASSUME t.capacity > 0 PROVE \E i \in 0..(t.capacity - 1) : t.entries[i] = Empty
    <2>1. t.capacity \in Nat \ {0} /\ Cardinality(Used(t.entries)) < t.capacity
        BY <1>1, <1>3, <1>5, <1>6
    <2> QED
        BY ONLY <1>1, <2>1, Room
<1> QED
    BY <1>1, <1>2, <1>4, <1>5, <1>6

\* table_get
LEMMA HasProps ==
    ASSUME NEW t, Good(t), NEW k \in Key
    PROVE  LET f == FindEntry(t.entries, k, t.capacity)
           IN  /\ TableHas(t, k) => /\ t.capacity > 0
                                    /\ f \in 0..(t.capacity - 1)
                                    /\ Found(t.entries, t.capacity, k, f)
                                    /\ t.entries[f] \in Live(t.entries)
               /\ \A e \in Live(t.entries) : e.key = k => TableHas(t, k) /\ e = t.entries[f]
<1> DEFINE n == t.capacity
           f == FindEntry(t.entries, k, n)
<1>1. /\ n \in Nat /\ t.entries \in [0..(n - 1) -> Entry]
      /\ t.count \in Nat /\ DOMAIN t.entries = 0..(n - 1)
      /\ n > 0 => \E i \in 0..(n - 1) : t.entries[i] = Empty
    BY GoodParts
<1>2. Chained(t.entries, n) /\ k # NULL
    BY KeyAssumption DEF Good
<1>3. ASSUME n > 0
      PROVE  f \in 0..(n - 1) /\ (Found(t.entries, n, k, f) \/ Fresh(t.entries, n, k, f))
    BY <1>1, <1>3, FindEntryProps
<1>4. ASSUME TableHas(t, k)
      PROVE  /\ n > 0 /\ f \in 0..(n - 1)
             /\ Found(t.entries, n, k, f)
             /\ t.entries[f] \in Live(t.entries)
    <2>1. t.count # 0 /\ t.entries[f].key # NULL
        BY <1>4 DEF TableHas
    <2>2. n > 0
        BY <1>1, <2>1, GoodParts
    <2>3. ~Fresh(t.entries, n, k, f)
        BY <2>1 DEF Fresh, Empty, Tombstone
    <2> QED
        BY <1>1, <1>3, <2>1, <2>2, <2>3 DEF Live
<1>5. ASSUME NEW e \in Live(t.entries), e.key = k
      PROVE  TableHas(t, k) /\ e = t.entries[f]
    <2>1. PICK j \in 0..(n - 1) : e = t.entries[j]
        BY <1>1 DEF Live
    <2>2. Found(t.entries, n, k, j)
        BY <1>2, <1>5, <2>1 DEF Chained
    <2>3. n > 0 /\ ~Fresh(t.entries, n, k, f)
        BY <1>1, <1>2, <1>5, <2>1, FreshAbsent
    <2>4. Found(t.entries, n, k, f)
        BY <1>3, <2>3
    <2>5. j = f
        BY <2>2, <2>4, FoundUnique
    <2>6. t.count # 0
        <3>1. j \in Used(t.entries)
            BY <1>1, <1>2, <1>5, <2>1 DEF Used, Empty
        <3>2. IsFiniteSet(Used(t.entries))
            BY <1>1, GoodParts, IndicesFinite
        <3>3. Cardinality(Used(t.entries)) # 0
            BY <3>1, <3>2, FS_EmptySet
        <3> QED
            BY <3>3 DEF Good
    <2> QED
        BY <1>2, <1>5, <2>1, <2>5, <2>6 DEF TableHas
<1> QED
    BY <1>4, <1>5

-----------------------------------------------------------------------------
\* Loops over the entries

\* The loop of adjust_capacity.
IsMove(f, t, n, m) ==
    f = [i \in 0..m |->
            IF i = 0 THEN Blank(n) ELSE Enter(f[i - 1], t.entries[i - 1], n)]

Moves(t, n) == CHOOSE f : IsMove(f, t, n, t.capacity)

\* There is such a function, and AdjustCapacity returns its last value.
LEMMA MovesProps ==
    ASSUME NEW t, t.capacity \in Nat, NEW n
    PROVE  /\ AdjustCapacity(t, n) =
                [entries |-> Moves(t, n)[t.capacity],
                 count |-> Cardinality({ i \in DOMAIN t.entries : t.entries[i].key # NULL }),
                 capacity |-> n]
           /\ Moves(t, n)[0] = Blank(n)
           /\ \A m \in 0..(t.capacity - 1) :
                Moves(t, n)[m + 1] = Enter(Moves(t, n)[m], t.entries[m], n)
<1> DEFINE S == { m \in Nat : \E f : IsMove(f, t, n, m) }
<1>1. 0 \in S
    <2>1. IsMove([i \in 0..0 |-> Blank(n)], t, n, 0)
        BY DEF IsMove
    <2> QED
        BY <2>1
<1>2. ASSUME NEW m \in Nat, m \in S PROVE m + 1 \in S
    <2>1. PICK f : IsMove(f, t, n, m)
        BY <1>2
    <2> DEFINE g == [i \in 0..(m + 1) |->
                        IF i <= m THEN f[i] ELSE Enter(f[m], t.entries[m], n)]
    <2>2. \A i \in 0..m : f[i] = IF i = 0 THEN Blank(n) ELSE Enter(f[i - 1], t.entries[i - 1], n)
        BY <2>1 DEF IsMove
    <2>3. \A i \in 0..(m + 1) :
            g[i] = IF i = 0 THEN Blank(n) ELSE Enter(g[i - 1], t.entries[i - 1], n)
        <3> SUFFICES ASSUME NEW i \in 0..(m + 1)
                     PROVE  g[i] = IF i = 0 THEN Blank(n)
                                   ELSE Enter(g[i - 1], t.entries[i - 1], n)
            OBVIOUS
        <3>1. CASE i <= m
            <4>1. i = 0 \/ (i - 1 \in 0..m /\ i - 1 <= m)
                BY <3>1
            <4> QED
                BY <2>2, <3>1, <4>1
        <3>2. CASE i = m + 1
            <4>1. i - 1 = m /\ ~(i <= m) /\ i # 0 /\ m \in 0..(m + 1)
                BY <3>2
            <4> QED
                BY <4>1
        <3> QED
            BY <3>1, <3>2
    <2>4. IsMove(g, t, n, m + 1)
        <3>1. g = [i \in 0..(m + 1) |-> g[i]]
            OBVIOUS
        <3> HIDE DEF g
        <3> QED
            BY <2>3, <3>1 DEF IsMove
    <2> QED
        BY <2>4
<1>3. t.capacity \in S
    <2> HIDE DEF S
    <2>1. \A m \in 0..(t.capacity - 1) : m \in S => m + 1 \in S
        BY <1>2
    <2>2. \A m \in 0..t.capacity : m \in S
        BY <1>1, <2>1, Steps
    <2> QED
        BY <2>2
<1>4. IsMove(Moves(t, n), t, n, t.capacity)
    BY <1>3 DEF Moves
<1>5. \A i \in 0..t.capacity :
        Moves(t, n)[i] = IF i = 0 THEN Blank(n)
                         ELSE Enter(Moves(t, n)[i - 1], t.entries[i - 1], n)
    BY <1>4 DEF IsMove
<1>6. \A m \in 0..(t.capacity - 1) : m + 1 \in 0..t.capacity /\ m + 1 # 0 /\ (m + 1) - 1 = m
    OBVIOUS
<1>7. AdjustCapacity(t, n) =
        [entries |-> Moves(t, n)[t.capacity],
         count |-> Cardinality({ i \in DOMAIN t.entries : t.entries[i].key # NULL }),
         capacity |-> n]
    BY DEF AdjustCapacity, Moves, IsMove
<1> QED
    BY <1>5, <1>6, <1>7

\* The entries of the first m of an array that have a key.
ChainStart(entries, m) == { j \in DOMAIN entries : j < m /\ entries[j].key # NULL }

\* What the new array is while its m-th entry is moved.
Moving(new, t, n, m) ==
    /\ new \in [0..(n - 1) -> Entry]
    /\ Chained(new, n)
    /\ \A i \in 0..(n - 1) : new[i] = Empty \/ new[i].key # NULL
    /\ Live(new) = { t.entries[j] : j \in ChainStart(t.entries, m) }
    /\ Cardinality(Used(new)) = Cardinality(ChainStart(t.entries, m))

\* A fresh array.
LEMMA BlankMoving ==
    ASSUME NEW t, NEW n \in Nat, Good(t)
    PROVE  Moving(Blank(n), t, n, 0)
<1>1. ChainStart(t.entries, 0) = {}
    BY GoodParts DEF ChainStart
<1>2. Empty \in Entry /\ Empty.key = NULL
    BY DEF Entry, Empty
<1>3. /\ Blank(n) \in [0..(n - 1) -> Entry]
      /\ DOMAIN Blank(n) = 0..(n - 1)
      /\ \A i \in 0..(n - 1) : Blank(n)[i] = Empty
    BY <1>2 DEF Blank
<1>4. Used(Blank(n)) = {} /\ Live(Blank(n)) = {}
    BY <1>2, <1>3 DEF Used, Live
<1> QED
    BY <1>1, <1>2, <1>3, <1>4 DEF Moving, Chained

\* One more entry is moved.
LEMMA EnterMoving ==
    ASSUME NEW t, NEW n \in Nat, Good(t), n > t.capacity,
           NEW m \in 0..(t.capacity - 1), NEW new, Moving(new, t, n, m)
    PROVE  Moving(Enter(new, t.entries[m], n), t, n, m + 1)
<1> DEFINE e == t.entries[m]
           H == ChainStart(t.entries, m)
<1>1. /\ t.capacity \in Nat /\ t.entries \in [0..(t.capacity - 1) -> Entry]
      /\ DOMAIN t.entries = 0..(t.capacity - 1)
    BY GoodParts
<1>2. e \in Entry
    BY <1>1
<1>3. ChainStart(t.entries, m + 1) = IF e.key = NULL THEN H ELSE H \cup {m}
    BY <1>1 DEF ChainStart
<1>4. IsFiniteSet(H) /\ Cardinality(H) \in 0..t.capacity /\ m \notin H
    BY <1>1, IndicesFinite DEF ChainStart
<1>5. CASE e.key = NULL
    BY <1>3, <1>5 DEF Enter, Moving
<1>6. CASE e.key # NULL
    <2> DEFINE k == e.key
               v == e.value
               i == FindEntry(new, k, n)
               after == [new EXCEPT ![i] = e]
    <2>1. k \in Key /\ v \in Value /\ e = [key |-> k, value |-> v] /\ k # NULL
        BY <1>2, <1>6, EntryKinds
    <2>2. n \in Nat \ {0} /\ new \in [0..(n - 1) -> Entry] /\ Chained(new, n)
        BY <1>1 DEF Moving
    <2>3. Cardinality(Used(new)) < n
        BY <1>1, <1>4 DEF Moving
    <2>4. i \in 0..(n - 1) /\ (Found(new, n, k, i) \/ Fresh(new, n, k, i))
        BY <2>1, <2>2, <2>3, Room, FindEntryProps
    <2>5. \A f \in Live(new) : f.key # k
        <3> SUFFICES ASSUME NEW j \in H, t.entries[j].key = k PROVE FALSE
            BY DEF Moving
        <3>1. j \in 0..(t.capacity - 1) /\ j # m
            BY <1>1 DEF ChainStart
        <3>2. Found(t.entries, t.capacity, k, j) /\ Found(t.entries, t.capacity, k, m)
            BY <1>1, <1>6, <3>1 DEF Good, Chained
        <3> QED
            BY <3>1, <3>2, FoundUnique
    <2>6. DOMAIN new = 0..(n - 1)
        BY <2>2
    <2>7. new[i].key # k
        <3> SUFFICES ASSUME new[i].key = k PROVE FALSE
            OBVIOUS
        <3>1. new[i] \in Live(new)
            BY <2>1, <2>4, <2>6 DEF Live
        <3> QED
            BY <2>5, <3>1
    <2>8. new[i] = Empty
        <3>1. Fresh(new, n, k, i)
            BY <2>4, <2>7 DEF Found
        <3>2. new[i].key = NULL
            BY <3>1 DEF Fresh, Empty, Tombstone
        <3> QED
            BY <2>4, <3>2 DEF Moving
    <2>9. Stored(after, new, n, k, v, i)
        BY <2>1, <2>2, <2>4, StoreEntry
    <2>10. /\ after \in [0..(n - 1) -> Entry]
           /\ Chained(after, n)
           /\ Used(after) = Used(new) \cup {i}
           /\ Live(after) = With(Live(new), k, v)
        BY <2>9 DEF Stored
    <2>11. Live(after) = { t.entries[j] : j \in ChainStart(t.entries, m + 1) }
        <3>1. With(Live(new), k, v) = Live(new) \cup {e}
            BY <2>1, <2>5 DEF With
        <3>2. Live(new) = { t.entries[j] : j \in H }
            BY DEF Moving
        <3>3. { t.entries[j] : j \in H \cup {m} } = { t.entries[j] : j \in H } \cup {e}
            OBVIOUS
        <3> HIDE DEF e, k, v, after, H
        <3> QED
            BY <1>3, <1>6, <2>1, <2>10, <3>1, <3>2, <3>3
    <2>12. Cardinality(Used(after)) = Cardinality(ChainStart(t.entries, m + 1))
        <3>1. i \notin Used(new) /\ IsFiniteSet(Used(new))
            BY <2>2, <2>6, <2>8, IndicesFinite DEF Used
        <3>2. Cardinality(Used(new) \cup {i}) = Cardinality(Used(new)) + 1
            BY <3>1, FS_AddElement
        <3>3. Cardinality(H \cup {m}) = Cardinality(H) + 1
            BY <1>4, FS_AddElement
        <3>4. Cardinality(Used(new)) = Cardinality(H)
            BY DEF Moving
        <3> QED
            BY <1>3, <1>6, <2>10, <3>2, <3>3, <3>4
    <2>13. \A j \in 0..(n - 1) : after[j] = Empty \/ after[j].key # NULL
        BY <1>6, <2>2, <2>4 DEF Moving
    <2>14. Enter(new, e, n) = after
        BY <1>6 DEF Enter
    <2> QED
        BY <2>10, <2>11, <2>12, <2>13, <2>14 DEF Moving
<1> QED
    BY <1>5, <1>6

\* adjust_capacity keeps the keys and their values, and forgets the tombstones.
LEMMA AdjustProps ==
    ASSUME NEW t, Good(t), NEW n \in Nat, Capacity(n), n > t.capacity
    PROVE  LET a == AdjustCapacity(t, n)
           IN  /\ Good(a)
               /\ Live(a.entries) = Live(t.entries)
               /\ a.capacity = n
               /\ a.count <= t.count
<1> DEFINE f == Moves(t, n)
           S == { m \in 0..t.capacity : Moving(f[m], t, n, m) }
           H == ChainStart(t.entries, t.capacity)
           a == AdjustCapacity(t, n)
<1>1. /\ t.capacity \in Nat /\ t.entries \in [0..(t.capacity - 1) -> Entry]
      /\ DOMAIN t.entries = 0..(t.capacity - 1)
      /\ t.count = Cardinality(Used(t.entries)) /\ t.count \in 0..t.capacity
    BY GoodParts DEF Good
<1>2. /\ f[0] = Blank(n)
      /\ \A m \in 0..(t.capacity - 1) : f[m + 1] = Enter(f[m], t.entries[m], n)
    BY <1>1, MovesProps
<1>3. 0 \in S
    BY <1>1, <1>2, BlankMoving
<1>4. ASSUME NEW m \in 0..(t.capacity - 1), m \in S PROVE m + 1 \in S
    <2>1. Moving(Enter(f[m], t.entries[m], n), t, n, m + 1)
        BY <1>4, EnterMoving
    <2> QED
        BY <1>1, <1>2, <2>1
<1>5. Moving(f[t.capacity], t, n, t.capacity)
    <2> HIDE DEF S
    <2>1. \A m \in 0..(t.capacity - 1) : m \in S => m + 1 \in S
        BY <1>4
    <2>2. \A m \in 0..t.capacity : m \in S
        BY ONLY <1>1, <1>3, <2>1, Steps
    <2> QED
        BY <1>1, <2>2 DEF S
<1>6. H = { i \in DOMAIN t.entries : t.entries[i].key # NULL }
    BY <1>1 DEF ChainStart
<1>7. a = [entries |-> f[t.capacity], count |-> Cardinality(H), capacity |-> n]
    BY <1>1, <1>6, MovesProps
<1>8. Live(t.entries) = { t.entries[j] : j \in H }
    BY <1>6 DEF Live
<1>9. IsFiniteSet(H) /\ Cardinality(H) \in Nat /\ Cardinality(H) <= t.count
    <2>1. H \in SUBSET Used(t.entries)
        BY <1>6 DEF Used, Empty
    <2>2. IsFiniteSet(Used(t.entries))
        BY <1>1, IndicesFinite DEF Used
    <2> QED
        BY <1>1, <2>1, <2>2, FS_Subset, FS_CardinalityType
<1> HIDE DEF f, H, a
<1>10. a.entries = f[t.capacity] /\ a.count = Cardinality(H) /\ a.capacity = n
    BY <1>7
<1>11. a \in [entries : [0..(n - 1) -> Entry], count : Nat, capacity : Nat]
    BY <1>5, <1>7, <1>9 DEF Moving
<1>12. Good(a)
    BY <1>1, <1>5, <1>9, <1>10, <1>11 DEF Good, Moving, H
<1> QED
    BY <1>5, <1>8, <1>9, <1>10, <1>12 DEF Moving, H, a

-----------------------------------------------------------------------------
\* The functions of table.c

\* Growth changes no key, and leaves more than a quarter of the entries unused.
LEMMA GrownProps ==
    ASSUME NEW t, Good(t)
    PROVE  LET g == Grown(t)
           IN  /\ Good(g)
               /\ Live(g.entries) = Live(t.entries)
               /\ 4 * g.count < 3 * g.capacity
               /\ g.capacity >= 4
<1>1. t.capacity \in Nat /\ t.count \in 0..t.capacity
    BY GoodParts
<1>2. CASE Overloaded(t)
    <2> DEFINE n == GrowCapacity(t.capacity)
               a == AdjustCapacity(t, n)
    <2>1. n \in Nat /\ Capacity(n) /\ n >= 4 /\ n >= 2 * t.capacity
        BY <1>1, GrowProps DEF Good
    <2>2. n > t.capacity
        BY <1>1, <2>1
    <2> HIDE DEF n
    <2>3. Good(a) /\ Live(a.entries) = Live(t.entries) /\ a.capacity = n /\ a.count <= t.count
        BY <2>1, <2>2, AdjustProps
    <2>4. a.count \in Nat
        BY <2>3 DEF Good
    <2>5. 4 * a.count < 3 * n
        <3>1. t.capacity > 0 => t.count < t.capacity
            BY GoodParts
        <3> QED
            BY <1>1, <2>1, <2>3, <2>4, <3>1
    <2>6. Grown(t) = a
        BY <1>2 DEF Grown, n
    <2> QED
        BY <2>1, <2>3, <2>5, <2>6
<1>3. CASE ~Overloaded(t)
    <2>1. Grown(t) = t /\ 4 * t.count < 3 * t.capacity
        BY <1>1, <1>3 DEF Grown, Overloaded
    <2>2. t.capacity >= 4
        BY <1>1, <2>1, GoodParts
    <2> QED
        BY <2>1, <2>2
<1> QED
    BY <1>2, <1>3

\* table_set
LEMMA SetProps ==
    ASSUME NEW t, Good(t), NEW k \in Key, NEW v \in Value
    PROVE  /\ Good(TableSet(t, k, v))
           /\ Live(TableSet(t, k, v).entries) = With(Live(t.entries), k, v)
<1> DEFINE g == Grown(t)
           n == g.capacity
           i == FindEntry(g.entries, k, n)
           e == [key |-> k, value |-> v]
           new == [g.entries EXCEPT ![i] = e]
           count == IF g.entries[i] = Empty THEN g.count + 1 ELSE g.count
           s == TableSet(t, k, v)
<1>1. /\ Good(g)
      /\ Live(g.entries) = Live(t.entries)
      /\ 4 * g.count < 3 * g.capacity
      /\ g.capacity >= 4
    BY GrownProps
<1> HIDE DEF g
<1>2. /\ n \in Nat \ {0} /\ g.entries \in [0..(n - 1) -> Entry]
      /\ DOMAIN g.entries = 0..(n - 1)
      /\ g.count \in Nat
      /\ \E j \in 0..(n - 1) : g.entries[j] = Empty
    BY <1>1, GoodParts
<1>3. Chained(g.entries, n) /\ g.count = Cardinality(Used(g.entries)) /\ Capacity(n)
    BY <1>1 DEF Good
<1>4. i \in 0..(n - 1) /\ (Found(g.entries, n, k, i) \/ Fresh(g.entries, n, k, i))
    BY <1>2, FindEntryProps
<1>5. Stored(new, g.entries, n, k, v, i)
    BY <1>2, <1>3, <1>4, StoreEntry
<1>6. s = [g EXCEPT !.entries = new, !.count = count]
    BY DEF TableSet, g
<1>7. g \in [entries : [0..(n - 1) -> Entry], count : Nat, capacity : Nat]
    BY <1>1 DEF Good
<1>8. count \in Nat
    BY <1>2
<1>9. s.entries = new /\ s.count = count /\ s.capacity = n
    BY <1>6, <1>7
<1>10. s \in [entries : [0..(n - 1) -> Entry], count : Nat, capacity : Nat]
    BY <1>5, <1>6, <1>7, <1>8 DEF Stored
<1>11. count = Cardinality(Used(new))
    <2>1. IsFiniteSet(Used(g.entries))
        BY <1>2, IndicesFinite DEF Used
    <2>2. Cardinality(Used(g.entries) \cup {i}) =
            IF i \in Used(g.entries) THEN Cardinality(Used(g.entries))
            ELSE Cardinality(Used(g.entries)) + 1
        BY <2>1, FS_AddElement
    <2>3. i \in Used(g.entries) <=> g.entries[i] # Empty
        BY <1>2, <1>4 DEF Used
    <2>4. Used(new) = Used(g.entries) \cup {i}
        BY <1>5 DEF Stored
    <2> QED
        BY <1>3, <2>2, <2>3, <2>4
<1>12. count < n
    <2> HIDE DEF i
    <2> QED
        BY <1>1, <1>2
<1> HIDE DEF new, count, s, i
<1>13. Good(s)
    BY <1>3, <1>5, <1>9, <1>10, <1>11, <1>12 DEF Good, Stored
<1>14. Live(s.entries) = With(Live(t.entries), k, v)
    BY <1>1, <1>5, <1>9 DEF Stored
<1> QED
    BY <1>13, <1>14 DEF s

\* table_remove
LEMMA RemoveProps ==
    ASSUME NEW t, Good(t), NEW k \in Key
    PROVE  LET r == TableRemove(t, k)
           IN  /\ Good(r)
               /\ r.capacity = t.capacity
               /\ Live(r.entries) = { e \in Live(t.entries) : e.key # k }
               /\ \A j \in 0..(t.capacity - 1) :
                    r.entries[j] = IF t.entries[j].key = k THEN Tombstone ELSE t.entries[j]
<1> DEFINE n == t.capacity
           i == FindEntry(t.entries, k, n)
           new == [t.entries EXCEPT ![i] = Tombstone]
           r == TableRemove(t, k)
<1>1. /\ n \in Nat /\ t.entries \in [0..(n - 1) -> Entry]
      /\ DOMAIN t.entries = 0..(n - 1)
      /\ t \in [entries : [0..(n - 1) -> Entry], count : Nat, capacity : Nat]
      /\ Chained(t.entries, n)
      /\ k # NULL
    BY GoodParts, KeyAssumption DEF Good
<1>2. CASE TableHas(t, k)
    <2>1. n > 0 /\ i \in 0..(n - 1) /\ Found(t.entries, n, k, i)
        BY <1>2, HasProps
    <2>2. n \in Nat \ {0}
        BY <1>1, <2>1
    <2> HIDE DEF i
    <2>3. /\ new \in [0..(n - 1) -> Entry]
          /\ Chained(new, n)
          /\ Used(new) = Used(t.entries)
          /\ Live(new) = { e \in Live(t.entries) : e.key # k }
        BY <1>1, <2>1, <2>2, EraseEntry
    <2>4. r = [t EXCEPT !.entries = new]
        BY <1>2 DEF TableRemove, i
    <2>5. r.entries = new /\ r.count = t.count /\ r.capacity = n
        BY <1>1, <2>4
    <2>6. r \in [entries : [0..(n - 1) -> Entry], count : Nat, capacity : Nat]
        BY <1>1, <2>3, <2>4
    <2>7. \A j \in 0..(n - 1) : t.entries[j].key = k <=> j = i
        <3>1. t.entries[i].key = k
            BY <2>1 DEF Found
        <3>2. ASSUME NEW j \in 0..(n - 1), t.entries[j].key = k PROVE j = i
            <4>1. Found(t.entries, n, k, j)
                BY <1>1, <3>2 DEF Chained
            <4> QED
                BY <2>1, <4>1, FoundUnique
        <3> QED
            BY <3>1, <3>2
    <2>8. \A j \in 0..(n - 1) :
            new[j] = IF t.entries[j].key = k THEN Tombstone ELSE t.entries[j]
        BY <1>1, <2>7
    <2> HIDE DEF new, r
    <2>9. Good(r)
        BY <2>3, <2>5, <2>6 DEF Good
    <2> QED
        BY <2>3, <2>5, <2>8, <2>9 DEF r
<1>3. CASE ~TableHas(t, k)
    <2>1. r = t
        BY <1>3 DEF TableRemove
    <2>2. \A e \in Live(t.entries) : e.key # k
        BY <1>3, HasProps
    <2>3. \A j \in 0..(n - 1) : t.entries[j].key # k
        BY <1>1, <2>2 DEF Live
    <2> QED
        BY <1>1, <2>1, <2>2, <2>3
<1> QED
    BY <1>2, <1>3

\* The loop of table_remove_weak.
IsPurge(f, t, marked, m) ==
    f = [i \in 0..m |-> IF i = 0 THEN t ELSE Purge(f[i - 1], i - 1, marked)]

Purges(t, marked) == CHOOSE f : IsPurge(f, t, marked, t.capacity)

\* There is such a function, and TableRemoveWeak returns its last value.
LEMMA PurgesProps ==
    ASSUME NEW t, NEW marked, t.capacity \in Nat
    PROVE  /\ TableRemoveWeak(t, marked) = Purges(t, marked)[t.capacity]
           /\ Purges(t, marked)[0] = t
           /\ \A m \in 0..(t.capacity - 1) :
                Purges(t, marked)[m + 1] = Purge(Purges(t, marked)[m], m, marked)
<1> DEFINE S == { m \in Nat : \E f : IsPurge(f, t, marked, m) }
<1>1. 0 \in S
    <2>1. IsPurge([i \in 0..0 |-> t], t, marked, 0)
        BY DEF IsPurge
    <2> QED
        BY <2>1
<1>2. ASSUME NEW m \in Nat, m \in S PROVE m + 1 \in S
    <2>1. PICK f : IsPurge(f, t, marked, m)
        BY <1>2
    <2> DEFINE g == [i \in 0..(m + 1) |-> IF i <= m THEN f[i] ELSE Purge(f[m], m, marked)]
    <2>2. \A i \in 0..m : f[i] = IF i = 0 THEN t ELSE Purge(f[i - 1], i - 1, marked)
        BY <2>1 DEF IsPurge
    <2>3. \A i \in 0..(m + 1) :
            g[i] = IF i = 0 THEN t ELSE Purge(g[i - 1], i - 1, marked)
        <3> SUFFICES ASSUME NEW i \in 0..(m + 1)
                     PROVE  g[i] = IF i = 0 THEN t
                                   ELSE Purge(g[i - 1], i - 1, marked)
            OBVIOUS
        <3>1. CASE i <= m
            <4>1. i = 0 \/ (i - 1 \in 0..m /\ i - 1 <= m)
                BY <3>1
            <4> QED
                BY <2>2, <3>1, <4>1
        <3>2. CASE i = m + 1
            <4>1. i - 1 = m /\ ~(i <= m) /\ i # 0 /\ m \in 0..(m + 1)
                BY <3>2
            <4> QED
                BY <4>1
        <3> QED
            BY <3>1, <3>2
    <2>4. IsPurge(g, t, marked, m + 1)
        <3>1. g = [i \in 0..(m + 1) |-> g[i]]
            OBVIOUS
        <3> HIDE DEF g
        <3> QED
            BY <2>3, <3>1 DEF IsPurge
    <2> QED
        BY <2>4
<1>3. t.capacity \in S
    <2> HIDE DEF S
    <2>1. \A m \in 0..(t.capacity - 1) : m \in S => m + 1 \in S
        BY <1>2
    <2>2. \A m \in 0..t.capacity : m \in S
        BY <1>1, <2>1, Steps
    <2> QED
        BY <2>2
<1>4. IsPurge(Purges(t, marked), t, marked, t.capacity)
    BY <1>3 DEF Purges
<1>5. \A i \in 0..t.capacity :
        Purges(t, marked)[i] = IF i = 0 THEN t
            ELSE Purge(Purges(t, marked)[i - 1], i - 1, marked)
    BY <1>4 DEF IsPurge
<1>6. \A m \in 0..(t.capacity - 1) : m + 1 \in 0..t.capacity /\ m + 1 # 0 /\ (m + 1) - 1 = m
    OBVIOUS
<1>7. TableRemoveWeak(t, marked) = Purges(t, marked)[t.capacity]
    BY DEF TableRemoveWeak, Purges, IsPurge
<1> QED
    BY <1>5, <1>6, <1>7

\* What table_remove_weak has done before it looks at the m-th entry.
Purging(s, t, marked, m) ==
    /\ Good(s)
    /\ s.capacity = t.capacity
    /\ \A j \in 0..(t.capacity - 1) :
        s.entries[j] = IF j < m /\ t.entries[j].key \in Key \ marked
                       THEN Tombstone ELSE t.entries[j]

\* One more entry is looked at.
LEMMA PurgePurging ==
    ASSUME NEW t, Good(t), NEW marked, NEW m \in 0..(t.capacity - 1), NEW s,
           Purging(s, t, marked, m)
    PROVE  Purging(Purge(s, m, marked), t, marked, m + 1)
<1>1. /\ t.capacity \in Nat
      /\ \A j \in 0..(t.capacity - 1) : t.entries[j] \in Entry
      /\ Chained(t.entries, t.capacity)
    BY GoodParts DEF Good
<1>2. /\ Good(s)
      /\ s.capacity = t.capacity
      /\ \A j \in 0..(t.capacity - 1) :
            s.entries[j] = IF j < m /\ t.entries[j].key \in Key \ marked
                           THEN Tombstone ELSE t.entries[j]
    BY DEF Purging
<1>3. s.entries[m] = t.entries[m]
    BY <1>2
<1>4. CASE t.entries[m].key \in Key \ marked
    <2> DEFINE k == t.entries[m].key
               r == TableRemove(s, k)
    <2>1. Purge(s, m, marked) = r
        BY <1>3, <1>4 DEF Purge
    <2>2. /\ Good(r)
          /\ r.capacity = t.capacity
          /\ \A j \in 0..(t.capacity - 1) :
                r.entries[j] = IF s.entries[j].key = k THEN Tombstone ELSE s.entries[j]
        <3>1. k \in Key
            BY <1>4
        <3> HIDE DEF k
        <3>2. /\ Good(r)
              /\ r.capacity = s.capacity
              /\ \A j \in 0..(s.capacity - 1) :
                    r.entries[j] = IF s.entries[j].key = k THEN Tombstone ELSE s.entries[j]
            BY <1>2, <3>1, RemoveProps
        <3> QED
            BY <1>2, <3>2
    <2>3. \A j \in 0..(t.capacity - 1) : t.entries[j].key = k => j = m
        <3> SUFFICES ASSUME NEW j \in 0..(t.capacity - 1), t.entries[j].key = k PROVE j = m
            OBVIOUS
        <3>1. Found(t.entries, t.capacity, k, j) /\ Found(t.entries, t.capacity, k, m)
            BY <1>1, <1>4, KeyAssumption DEF Chained
        <3> QED
            BY <3>1, FoundUnique
    <2>4. ASSUME NEW j \in 0..(t.capacity - 1)
          PROVE  r.entries[j] = IF j < m + 1 /\ t.entries[j].key \in Key \ marked
                                THEN Tombstone ELSE t.entries[j]
        <3>1. CASE j = m
            BY <1>3, <1>4, <2>2, <3>1
        <3>2. CASE j # m
            <4>1. j < m + 1 <=> j < m
                BY <3>2
            <4>2. t.entries[j].key # k
                BY <2>3, <3>2
            <4>3. Tombstone.key # k
                BY <1>4, KeyAssumption DEF Tombstone
            <4> QED
                BY <1>2, <2>2, <4>1, <4>2, <4>3
        <3> QED
            BY <3>1, <3>2
    <2> QED
        BY <2>1, <2>2, <2>4 DEF Purging
<1>5. CASE t.entries[m].key \notin Key \ marked
    <2>1. Purge(s, m, marked) = s
        BY <1>3, <1>5 DEF Purge
    <2>2. ASSUME NEW j \in 0..(t.capacity - 1)
          PROVE  s.entries[j] = IF j < m + 1 /\ t.entries[j].key \in Key \ marked
                                THEN Tombstone ELSE t.entries[j]
        <3>1. j = m \/ (j < m + 1 <=> j < m)
            OBVIOUS
        <3> QED
            BY <1>2, <1>3, <1>5, <3>1
    <2> QED
        BY <1>2, <2>1, <2>2 DEF Purging
<1> QED
    BY <1>4, <1>5

\* table_remove_weak removes the keys that are not marked.
LEMMA RemoveWeakProps ==
    ASSUME NEW t, Good(t), NEW marked
    PROVE  LET r == TableRemoveWeak(t, marked)
           IN  /\ Good(r)
               /\ Live(r.entries) = { e \in Live(t.entries) : e.key \in marked }
<1> DEFINE f == Purges(t, marked)
           S == { m \in 0..t.capacity : Purging(f[m], t, marked, m) }
           r == TableRemoveWeak(t, marked)
           n == t.capacity
<1>1. /\ n \in Nat
      /\ \A j \in 0..(n - 1) : t.entries[j] \in Entry
      /\ DOMAIN t.entries = 0..(n - 1)
    BY GoodParts
<1>2. /\ r = f[n]
      /\ f[0] = t
      /\ \A m \in 0..(n - 1) : f[m + 1] = Purge(f[m], m, marked)
    BY <1>1, PurgesProps
<1>3. 0 \in S
    BY <1>1, <1>2 DEF Purging
<1>4. ASSUME NEW m \in 0..(n - 1), m \in S PROVE m + 1 \in S
    <2>1. Purging(Purge(f[m], m, marked), t, marked, m + 1)
        BY <1>4, PurgePurging
    <2> QED
        BY <1>1, <1>2, <2>1
<1>5. Purging(r, t, marked, n)
    <2> HIDE DEF S
    <2>1. \A m \in 0..(n - 1) : m \in S => m + 1 \in S
        BY <1>4
    <2>2. \A m \in 0..n : m \in S
        BY ONLY <1>1, <1>3, <2>1, Steps
    <2> QED
        BY <1>1, <1>2, <2>2 DEF S
<1>6. /\ Good(r)
      /\ \A j \in 0..(n - 1) :
            r.entries[j] = IF t.entries[j].key \in Key \ marked
                           THEN Tombstone ELSE t.entries[j]
    BY <1>1, <1>5 DEF Purging
<1>7. DOMAIN r.entries = 0..(n - 1)
    BY <1>5, GoodParts DEF Purging
<1>8. ASSUME NEW e \in Live(r.entries) PROVE e \in Live(t.entries) /\ e.key \in marked
    <2>1. PICK j \in 0..(n - 1) : e = r.entries[j] /\ r.entries[j].key # NULL
        BY <1>7 DEF Live
    <2>2. e = t.entries[j] /\ t.entries[j].key \notin Key \ marked
        BY <1>6, <2>1 DEF Tombstone
    <2>3. t.entries[j].key \in Key
        BY <1>1, <2>1, <2>2, EntryKinds
    <2> QED
        BY <1>1, <2>1, <2>2, <2>3 DEF Live
<1>9. ASSUME NEW e \in Live(t.entries), e.key \in marked PROVE e \in Live(r.entries)
    <2>1. PICK j \in 0..(n - 1) : e = t.entries[j] /\ t.entries[j].key # NULL
        BY <1>1 DEF Live
    <2> QED
        BY <1>6, <1>7, <1>9, <2>1 DEF Live
<1> HIDE DEF r
<1>10. Live(r.entries) = { e \in Live(t.entries) : e.key \in marked }
    BY <1>8, <1>9
<1> QED
    BY <1>6, <1>10 DEF r

\* The loop of table_copy.
IsCopy(f, from, to, m) ==
    f = [i \in 0..m |-> IF i = 0 THEN to ELSE Put(f[i - 1], from.entries[i - 1])]

Copies(from, to) == CHOOSE f : IsCopy(f, from, to, from.capacity)

\* There is such a function, and TableCopy returns its last value.
LEMMA CopiesProps ==
    ASSUME NEW from, NEW to, from.capacity \in Nat
    PROVE  /\ TableCopy(from, to) = Copies(from, to)[from.capacity]
           /\ Copies(from, to)[0] = to
           /\ \A m \in 0..(from.capacity - 1) :
                Copies(from, to)[m + 1] = Put(Copies(from, to)[m], from.entries[m])
<1> DEFINE S == { m \in Nat : \E f : IsCopy(f, from, to, m) }
<1>1. 0 \in S
    <2>1. IsCopy([i \in 0..0 |-> to], from, to, 0)
        BY DEF IsCopy
    <2> QED
        BY <2>1
<1>2. ASSUME NEW m \in Nat, m \in S PROVE m + 1 \in S
    <2>1. PICK f : IsCopy(f, from, to, m)
        BY <1>2
    <2> DEFINE g == [i \in 0..(m + 1) |-> IF i <= m THEN f[i] ELSE Put(f[m], from.entries[m])]
    <2>2. \A i \in 0..m : f[i] = IF i = 0 THEN to ELSE Put(f[i - 1], from.entries[i - 1])
        BY <2>1 DEF IsCopy
    <2>3. \A i \in 0..(m + 1) :
            g[i] = IF i = 0 THEN to ELSE Put(g[i - 1], from.entries[i - 1])
        <3> SUFFICES ASSUME NEW i \in 0..(m + 1)
                     PROVE  g[i] = IF i = 0 THEN to
                                   ELSE Put(g[i - 1], from.entries[i - 1])
            OBVIOUS
        <3>1. CASE i <= m
            <4>1. i = 0 \/ (i - 1 \in 0..m /\ i - 1 <= m)
                BY <3>1
            <4> QED
                BY <2>2, <3>1, <4>1
        <3>2. CASE i = m + 1
            <4>1. i - 1 = m /\ ~(i <= m) /\ i # 0 /\ m \in 0..(m + 1)
                BY <3>2
            <4> QED
                BY <4>1
        <3> QED
            BY <3>1, <3>2
    <2>4. IsCopy(g, from, to, m + 1)
        <3>1. g = [i \in 0..(m + 1) |-> g[i]]
            OBVIOUS
        <3> HIDE DEF g
        <3> QED
            BY <2>3, <3>1 DEF IsCopy
    <2> QED
        BY <2>4
<1>3. from.capacity \in S
    <2> HIDE DEF S
    <2>1. \A m \in 0..(from.capacity - 1) : m \in S => m + 1 \in S
        BY <1>2
    <2>2. \A m \in 0..from.capacity : m \in S
        BY <1>1, <2>1, Steps
    <2> QED
        BY <2>2
<1>4. IsCopy(Copies(from, to), from, to, from.capacity)
    BY <1>3 DEF Copies
<1>5. \A i \in 0..from.capacity :
        Copies(from, to)[i] = IF i = 0 THEN to
            ELSE Put(Copies(from, to)[i - 1], from.entries[i - 1])
    BY <1>4 DEF IsCopy
<1>6. \A m \in 0..(from.capacity - 1) : m + 1 \in 0..from.capacity /\ m + 1 # 0 /\ (m + 1) - 1 = m
    OBVIOUS
<1>7. TableCopy(from, to) = Copies(from, to)[from.capacity]
    BY DEF TableCopy, Copies, IsCopy
<1> QED
    BY <1>5, <1>6, <1>7

\* What has been copied before the m-th entry.
Copying(s, from, m) ==
    /\ Good(s)
    /\ Live(s.entries) = { from.entries[j] : j \in ChainStart(from.entries, m) }

\* One more entry is copied.
LEMMA PutCopying ==
    ASSUME NEW t, Good(t), NEW m \in 0..(t.capacity - 1), NEW s, Copying(s, t, m)
    PROVE  Copying(Put(s, t.entries[m]), t, m + 1)
<1> DEFINE e == t.entries[m]
           k == e.key
           H == ChainStart(t.entries, m)
<1>1. /\ t.capacity \in Nat
      /\ e \in Entry
      /\ DOMAIN t.entries = 0..(t.capacity - 1)
      /\ Chained(t.entries, t.capacity)
    BY GoodParts DEF Good
<1>2. ChainStart(t.entries, m + 1) = IF k = NULL THEN H ELSE H \cup {m}
    BY <1>1 DEF ChainStart
<1>3. CASE k = NULL
    BY <1>2, <1>3 DEF Put, Copying
<1>4. CASE k # NULL
    <2>1. k \in Key /\ e.value \in Value /\ e = [key |-> k, value |-> e.value]
        BY <1>1, <1>4, EntryKinds
    <2>2. \A f \in Live(s.entries) : f.key # k
        <3> SUFFICES ASSUME NEW j \in H, t.entries[j].key = k PROVE FALSE
            BY DEF Copying
        <3>1. j \in 0..(t.capacity - 1) /\ j # m
            BY <1>1 DEF ChainStart
        <3>2. Found(t.entries, t.capacity, k, j) /\ Found(t.entries, t.capacity, k, m)
            BY <1>1, <1>4, <3>1 DEF Chained
        <3> QED
            BY <3>1, <3>2, FoundUnique
    <2> DEFINE r == TableSet(s, k, e.value)
    <2>3. Good(r) /\ Live(r.entries) = With(Live(s.entries), k, e.value)
        BY <2>1, SetProps DEF Copying
    <2>4. With(Live(s.entries), k, e.value) = Live(s.entries) \cup {e}
        BY <2>1, <2>2 DEF With
    <2>5. Live(s.entries) = { t.entries[j] : j \in H }
        BY DEF Copying
    <2>6. { t.entries[j] : j \in H \cup {m} } = { t.entries[j] : j \in H } \cup {e}
        OBVIOUS
    <2>7. Put(s, e) = r
        BY <1>4 DEF Put
    <2>8. Live(r.entries) = { t.entries[j] : j \in ChainStart(t.entries, m + 1) }
        <3> HIDE DEF e, k, r, H
        <3> QED
            BY <1>2, <1>4, <2>3, <2>4, <2>5, <2>6
    <2> QED
        BY <2>3, <2>7, <2>8 DEF Copying
<1> QED
    BY <1>3, <1>4

\* A table without entries.
LEMMA EmptyGood == Good(EmptyTable) /\ Live(EmptyTable.entries) = {}
<1>1. /\ EmptyTable.capacity = 0 /\ EmptyTable.count = 0
      /\ EmptyTable.entries = Blank(0)
      /\ EmptyTable = [entries |-> Blank(0), count |-> 0, capacity |-> 0]
    BY DEF EmptyTable
<1>2. Blank(0) \in [0..(0 - 1) -> Entry] /\ DOMAIN Blank(0) = {}
    BY DEF Blank
<1>3. Used(Blank(0)) = {} /\ Live(Blank(0)) = {} /\ Chained(Blank(0), 0)
    BY <1>2 DEF Used, Live, Chained
<1>4. EmptyTable \in [entries : [0..(0 - 1) -> Entry], count : Nat, capacity : Nat]
    BY <1>1, <1>2
<1>5. Cardinality(Used(Blank(0))) = 0
    BY <1>3, FS_EmptySet
<1> QED
    BY <1>1, <1>3, <1>4, <1>5 DEF Good, Capacity

\* A copy has the same keys and values.
LEMMA CopyProps ==
    ASSUME NEW t, Good(t)
    PROVE  LET r == TableCopy(t, EmptyTable)
           IN  Good(r) /\ Live(r.entries) = Live(t.entries)
<1> DEFINE f == Copies(t, EmptyTable)
           S == { m \in 0..t.capacity : Copying(f[m], t, m) }
           n == t.capacity
<1>1. n \in Nat /\ DOMAIN t.entries = 0..(n - 1)
    BY GoodParts
<1>2. /\ TableCopy(t, EmptyTable) = f[n]
      /\ f[0] = EmptyTable
      /\ \A m \in 0..(n - 1) : f[m + 1] = Put(f[m], t.entries[m])
    BY <1>1, CopiesProps
<1>3. 0 \in S
    <2>1. ChainStart(t.entries, 0) = {}
        BY <1>1 DEF ChainStart
    <2> QED
        BY <1>1, <1>2, <2>1, EmptyGood DEF Copying
<1>4. ASSUME NEW m \in 0..(n - 1), m \in S PROVE m + 1 \in S
    <2>1. Copying(Put(f[m], t.entries[m]), t, m + 1)
        BY <1>4, PutCopying
    <2> QED
        BY <1>1, <1>2, <2>1
<1>5. Copying(f[n], t, n)
    <2> HIDE DEF S
    <2>1. \A m \in 0..(n - 1) : m \in S => m + 1 \in S
        BY <1>4
    <2>2. \A m \in 0..n : m \in S
        BY ONLY <1>1, <1>3, <2>1, Steps
    <2> QED
        BY <1>1, <2>2 DEF S
<1>6. ChainStart(t.entries, n) = { j \in DOMAIN t.entries : t.entries[j].key # NULL }
    BY <1>1 DEF ChainStart
<1> QED
    BY <1>2, <1>5, <1>6 DEF Copying, Live

\* table_interned
LEMMA InternedProps ==
    ASSUME NEW t, Good(t), NEW c \in Content
    PROVE  LET found == TableInterned(t, c)
           IN  /\ found = NULL => \A e \in Live(t.entries) : chars[e.key] # c
               /\ found # NULL => \E e \in Live(t.entries) : e.key = found /\ chars[e.key] = c
<1> DEFINE n      == t.capacity
           h      == hash[c]
           At(d)  == t.entries[Probe(h, d, n)]
           Hit(d) == At(d) = Empty \/ (At(d).key # NULL /\ chars[At(d).key] = c)
           D      == { d \in 0..(n - 1) : Hit(d) }
           last   == Nearest(D)
           found  == TableInterned(t, c)
<1>1. /\ n \in Nat /\ t.count \in 0..n
      /\ t.entries \in [0..(n - 1) -> Entry]
      /\ DOMAIN t.entries = 0..(n - 1)
      /\ Chained(t.entries, n)
      /\ t.count = Cardinality(Used(t.entries))
    BY GoodParts DEF Good
<1>2. h \in Nat
    BY KeyAssumption
<1>3. CASE t.count = 0
    <2>1. Used(t.entries) = {}
        BY <1>1, <1>3, GoodParts, IndicesFinite, FS_EmptySet
    <2>2. Live(t.entries) = {}
        BY <2>1 DEF Live, Used, Empty
    <2>3. found = NULL
        BY <1>3 DEF TableInterned
    <2> QED
        BY <2>2, <2>3
<1>4. CASE t.count # 0
    <2>1. n \in Nat \ {0} /\ \E i \in 0..(n - 1) : t.entries[i] = Empty
        BY <1>1, <1>4, GoodParts
    <2>2. D # {} /\ D \in SUBSET Nat
        <3>1. PICK i \in 0..(n - 1) : t.entries[i] = Empty
            BY <2>1
        <3>2. PICK d \in 0..(n - 1) : Probe(h, d, n) = i
            BY <1>2, <2>1, ProbeOnto
        <3> QED
            BY <3>1, <3>2
    <2>3. last \in D /\ \A e \in D : last <= e
        <3> HIDE DEF D
        <3> QED
            BY <2>2, NearestProps
    <2>4. last \in 0..(n - 1) /\ Hit(last)
        <3> HIDE DEF last
        <3> QED
            BY <2>3
    <2>5. found = At(last).key
        BY <1>4 DEF TableInterned
    <2>6. Probe(h, last, n) \in 0..(n - 1)
        <3> HIDE DEF last, h
        <3>1. last \in Nat
            BY <1>1, <2>4
        <3> QED
            BY <1>2, <2>1, <3>1, ProbeIn
    <2>7. CASE At(last) = Empty
        <3>1. found = NULL
            BY <2>5, <2>7 DEF Empty
        <3>2. ASSUME NEW e \in Live(t.entries), chars[e.key] = c PROVE FALSE
            <4>1. PICK j \in 0..(n - 1) : e = t.entries[j] /\ t.entries[j].key # NULL
                BY <1>1 DEF Live
            <4>2. Found(t.entries, n, e.key, j)
                BY <1>1, <4>1 DEF Chained
            <4>3. PICK d \in 0..(n - 1) : Probe(h, d, n) = j /\ Way(t.entries, n, e.key, d)
                BY <3>2, <4>2 DEF Found
            <4>4. d \in D
                BY <3>2, <4>1, <4>3
            <4>5. last <= d
                BY <2>3, <4>4
            <4>6. last # d
                <5> HIDE DEF last
                <5>1. t.entries[Probe(h, d, n)].key # NULL
                    BY <4>1, <4>3
                <5>2. t.entries[Probe(h, last, n)].key = NULL
                    BY <2>7 DEF Empty
                <5> QED
                    BY <5>1, <5>2
            <4>7. last \in 0..(d - 1)
                <5> HIDE DEF last
                <5> QED
                    BY <2>4, <4>5, <4>6
            <4> QED
                BY <2>7, <3>2, <4>3, <4>7 DEF Way
        <3> QED
            BY <3>1, <3>2
    <2>8. CASE At(last) # Empty
        <3>1. At(last).key # NULL /\ chars[At(last).key] = c
            BY <2>4, <2>8
        <3>2. At(last) \in Live(t.entries)
            BY <1>1, <2>6, <3>1 DEF Live
        <3> QED
            BY <2>5, <3>1, <3>2
    <2> QED
        BY <2>7, <2>8
<1> QED
    BY <1>3, <1>4

-----------------------------------------------------------------------------
\* The invariant

\* The keys of a table.
LEMMA KeysProps ==
    ASSUME NEW t, Good(t)
    PROVE  /\ KeysOf(t) = { e.key : e \in Live(t.entries) }
           /\ KeysOf(t) \subseteq Key
           /\ \A e \in Live(t.entries) : e \in Entry /\ e.key # NULL
<1>1. \A e \in Live(t.entries) : e \in Entry /\ e.key # NULL
    BY GoodParts DEF Live
<1>2. KeysOf(t) = { e.key : e \in Live(t.entries) }
    <2>1. ASSUME NEW k \in KeysOf(t) PROVE k \in { e.key : e \in Live(t.entries) }
        BY DEF KeysOf, Live
    <2>2. ASSUME NEW e \in Live(t.entries) PROVE e.key \in KeysOf(t)
        BY DEF KeysOf, Live
    <2> QED
        BY <2>1, <2>2
<1> QED
    BY <1>1, <1>2, EntryKinds

\* An empty table is good.
LEMMA InitInv == Init => IInv
BY EmptyGood DEF Init, IInv, Interned

\* A key that the client uses: no other has the same characters.
LEMMA WithInterned ==
    ASSUME NEW L, Interned(L), NEW k, NEW v, \A e \in L : chars[e.key] = chars[k] => e.key = k
    PROVE  Interned(With(L, k, v))
BY DEF Interned, With

\* table_set keeps the invariant, for a key no other key has the characters of.
LEMMA SetInv ==
    ASSUME IInv, NEW k \in Key, NEW v \in Value, Set(k, v)
    PROVE  IInv'
<1>1. Good(table) /\ Interned(Live(table.entries)) /\ table' = TableSet(table, k, v)
    BY DEF IInv, Set
<1>2. \A e \in Live(table.entries) : chars[e.key] = chars[k] => e.key = k
    BY <1>1, KeysProps DEF Set, InternedKey, Keys
<1>3. Good(table') /\ Live(table'.entries) = With(Live(table.entries), k, v)
    BY <1>1, SetProps
<1> QED
    BY <1>1, <1>2, <1>3, WithInterned DEF IInv

\* table_remove keeps the invariant.
LEMMA DeleteInv ==
    ASSUME IInv, NEW k \in Key, Delete(k)
    PROVE  IInv'
<1>1. Good(table) /\ Interned(Live(table.entries)) /\ table' = TableRemove(table, k)
    BY DEF IInv, Delete
<1>2. Good(table') /\ Live(table'.entries) = { e \in Live(table.entries) : e.key # k }
    BY <1>1, RemoveProps
<1> QED
    BY <1>1, <1>2 DEF IInv, Interned

\* A string is looked up, or entered when no key has its characters.
LEMMA InternInv ==
    ASSUME IInv, NEW c \in Content, Intern(c)
    PROVE  IInv'
<1>1. Good(table) /\ Interned(Live(table.entries))
    BY DEF IInv
<1>2. CASE table' = table
    BY <1>2 DEF IInv
<1>3. ASSUME TableInterned(table, c) = NULL,
             NEW k \in Key, chars[k] = c, table' = TableSet(table, k, Nil)
      PROVE  IInv'
    <2>1. \A e \in Live(table.entries) : chars[e.key] # c
        BY <1>1, <1>3, InternedProps
    <2>2. Good(table') /\ Live(table'.entries) = With(Live(table.entries), k, Nil)
        BY <1>1, <1>3, SetProps, ValueAssumption
    <2> QED
        BY <1>1, <1>3, <2>1, <2>2, WithInterned DEF IInv
<1> QED
    BY <1>2, <1>3 DEF Intern

\* The purge of the unmarked keys keeps the invariant.
LEMMA RemoveWeakInv ==
    ASSUME IInv, NEW marked, RemoveWeak(marked)
    PROVE  IInv'
<1>1. Good(table) /\ Interned(Live(table.entries)) /\ table' = TableRemoveWeak(table, marked)
    BY DEF IInv, RemoveWeak
<1>2. Good(table') /\ Live(table'.entries) = { e \in Live(table.entries) : e.key \in marked }
    BY <1>1, RemoveWeakProps
<1> QED
    BY <1>1, <1>2 DEF IInv, Interned

\* A copy is as good as the table.
LEMMA CopyInv ==
    ASSUME IInv, Copy
    PROVE  IInv'
<1>1. Good(table) /\ Interned(Live(table.entries)) /\ table' = TableCopy(table, EmptyTable)
    BY DEF IInv, Copy
<1>2. Good(table') /\ Live(table'.entries) = Live(table.entries)
    BY <1>1, CopyProps
<1> QED
    BY <1>1, <1>2 DEF IInv

\* Every step keeps the invariant.
LEMMA NextInv == IInv /\ [Next]_vars => IInv'
<1> SUFFICES ASSUME IInv, [Next]_vars PROVE IInv'
    OBVIOUS
<1>1. ASSUME NEW k \in Key, Get(k) PROVE IInv'
    BY <1>1 DEF Get, IInv
<1>2. ASSUME UNCHANGED vars PROVE IInv'
    BY <1>2 DEF vars, IInv
<1> QED
    BY <1>1, <1>2, SetInv, DeleteInv, InternInv, RemoveWeakInv, CopyInv DEF Next

\* In every state each entry is where find_entry finds it, the count is that of
\* the entries in use, one is free, and no two keys have the same characters.
THEOREM Invariance == Spec => []IInv
<1> QED
    BY InitInv, NextInv, PTL DEF Spec

\* The invariant contains the types.
LEMMA InvTypeOK == IInv => TypeOK
<1> SUFFICES ASSUME IInv PROVE TypeOK
    OBVIOUS
<1>1. Good(table)
    BY DEF IInv
<1>2. Entry \subseteq [key : Key \cup {NULL}, value : Value \cup {False}]
    BY ValueAssumption DEF Entry, Empty, Tombstone
<1>3. /\ table.capacity \in Nat
      /\ table.count \in 0..table.capacity
      /\ table.entries \in [0..(table.capacity - 1) -> Entry]
    BY <1>1, GoodParts
<1>4. table.entries \in
        [0..(table.capacity - 1) -> [key : Key \cup {NULL}, value : Value \cup {False}]]
    BY <1>2, <1>3
<1> QED
    BY <1>1, <1>3, <1>4 DEF TypeOK, Good, Capacity

\* The capacity is 0 or a power of two, every entry is that of a key, of a tombstone or
\* was never used, and the count does not exceed the capacity, whatever the hashes are.
THEOREM TypesCorrect == Spec => []TypeOK
<1> QED
    BY Invariance, InvTypeOK, PTL

\* The invariant contains the count and the room.
LEMMA InvProbesEnd == IInv => ProbesEnd
BY DEF IInv, Good, ProbesEnd, Used

\* The loops of find_entry and table_interned end: no table is ever full, whatever
\* the hashes are and however many tombstones there are.
THEOREM ProbesAlwaysEnd == Spec => []ProbesEnd
<1> QED
    BY Invariance, InvProbesEnd, PTL

-----------------------------------------------------------------------------
\* The refinement

\* A function that holds these keys and values.
IsMap(m, L) ==
    /\ m = [k \in { e.key : e \in L } |-> m[k]]
    /\ \A e \in L : m[e.key] = e.value

\* A key has one entry, so that a table stands for one map.
LEMMA ContentsProps ==
    ASSUME NEW t, Good(t)
    PROVE  /\ IsMap(Contents(t), Live(t.entries))
           /\ DOMAIN Contents(t) = KeysOf(t)
<1> DEFINE n == t.capacity
<1>1. KeysOf(t) = { e.key : e \in Live(t.entries) }
    BY KeysProps
<1>2. /\ DOMAIN Contents(t) = KeysOf(t)
      /\ Contents(t) = [k \in KeysOf(t) |-> Contents(t)[k]]
    BY DEF Contents
<1>3. ASSUME NEW e \in Live(t.entries) PROVE Contents(t)[e.key] = e.value
    <2> DEFINE k == e.key
               i == CHOOSE j \in DOMAIN t.entries : t.entries[j].key = k
    <2>1. DOMAIN t.entries = 0..(n - 1) /\ Chained(t.entries, n)
        BY GoodParts DEF Good
    <2>2. PICK j \in 0..(n - 1) : e = t.entries[j] /\ t.entries[j].key # NULL
        BY <2>1 DEF Live
    <2>3. i \in 0..(n - 1) /\ t.entries[i].key = k
        BY <2>1, <2>2
    <2>4. Contents(t)[k] = t.entries[i].value
        BY <1>1 DEF Contents
    <2> HIDE DEF i
    <2>5. Found(t.entries, n, k, j) /\ Found(t.entries, n, k, i)
        BY <2>1, <2>2, <2>3 DEF Chained
    <2>6. i = j
        BY <2>5, FoundUnique
    <2> QED
        BY <2>2, <2>4, <2>6
<1> QED
    BY <1>1, <1>2, <1>3 DEF IsMap

\* The same keys and values are one map.
LEMMA SameMap ==
    ASSUME NEW L, NEW m, IsMap(m, L), NEW p, IsMap(p, L)
    PROVE  m = p
BY DEF IsMap

\* A key is added, or gets another value.
Updated(m, k, v) == [d \in (DOMAIN m) \cup {k} |-> IF d = k THEN v ELSE m[d]]

\* ... which is what a table with the entry stands for.
LEMMA MapWith ==
    ASSUME NEW L, NEW m, IsMap(m, L), NEW k, NEW v, NEW p, IsMap(p, With(L, k, v))
    PROVE  p = Updated(m, k, v)
<1> DEFINE W == With(L, k, v)
           D == { e.key : e \in W }
           q == [d \in (DOMAIN m) \cup {k} |-> IF d = k THEN v ELSE m[d]]
<1>1. DOMAIN m = { e.key : e \in L } /\ DOMAIN p = D
    BY DEF IsMap
<1>2. D = (DOMAIN m) \cup {k}
    <2>1. [key |-> k, value |-> v].key = k
        OBVIOUS
    <2> QED
        BY <1>1, <2>1 DEF With
<1>3. ASSUME NEW d \in D PROVE p[d] = q[d]
    <2>1. CASE d = k
        <3>1. [key |-> k, value |-> v] \in W
            BY DEF With
        <3>2. p[k] = v
            BY <3>1 DEF IsMap
        <3> QED
            BY <1>2, <2>1, <3>2
    <2>2. CASE d # k
        <3>1. PICK e \in L : e.key = d
            BY <1>1, <1>2, <2>2
        <3>2. e \in W
            BY <2>2, <3>1 DEF With
        <3> QED
            BY <1>2, <2>2, <3>1, <3>2 DEF IsMap
    <2> QED
        BY <2>1, <2>2
<1>4. p = [d \in D |-> p[d]]
    BY DEF IsMap
<1>5. q = [d \in D |-> q[d]]
    BY <1>2
<1> HIDE DEF D, W, q
<1>6. p = q
    BY <1>3, <1>4, <1>5
<1> QED
    BY <1>6 DEF q, Updated

\* Some keys are kept.
Restricted(m, K) == [k \in (DOMAIN m) \cap K |-> m[k]]

\* ... which is what a table of the entries with these keys stands for.
LEMMA MapRestrict ==
    ASSUME NEW L, NEW m, IsMap(m, L), NEW K, NEW p, IsMap(p, { e \in L : e.key \in K })
    PROVE  p = Restricted(m, K)
<1> DEFINE D == { e.key : e \in { f \in L : f.key \in K } }
<1>1. DOMAIN m = { e.key : e \in L } /\ p = [k \in D |-> p[k]]
    BY DEF IsMap
<1>2. D = (DOMAIN m) \cap K
    BY <1>1
<1>3. ASSUME NEW k \in D PROVE p[k] = m[k]
    BY DEF IsMap
<1> HIDE DEF D
<1> QED
    BY <1>1, <1>2, <1>3 DEF Restricted

\* What table_get finds.
LEMMA HasContents ==
    ASSUME NEW t, Good(t), NEW k \in Key
    PROVE  /\ TableHas(t, k) <=> k \in KeysOf(t)
           /\ TableHas(t, k) =>
                t.entries[FindEntry(t.entries, k, t.capacity)].value = Contents(t)[k]
<1> DEFINE e == t.entries[FindEntry(t.entries, k, t.capacity)]
<1>1. KeysOf(t) = { f.key : f \in Live(t.entries) }
    BY KeysProps
<1>2. k \in KeysOf(t) => TableHas(t, k)
    BY <1>1, HasProps
<1>3. TableHas(t, k) => e \in Live(t.entries) /\ e.key = k
    BY HasProps DEF Found
<1>4. \A f \in Live(t.entries) : Contents(t)[f.key] = f.value
    BY ContentsProps DEF IsMap
<1> HIDE DEF e
<1>5. TableHas(t, k) => k \in KeysOf(t) /\ e.value = Contents(t)[k]
    BY <1>1, <1>3, <1>4
<1> QED
    BY <1>2, <1>5 DEF e

\* The keys a client may use.
LEMMA InternedKeyMeans ==
    ASSUME Good(table), NEW k
    PROVE  InternedKey(k) <=> Abstract!Interned(k)
BY ContentsProps DEF InternedKey, Keys, Abstract!Interned, Abstract!Keys

\* A table without entries is the map without keys.
LEMMA InitMaps == Init => Abstract!Init
<1> SUFFICES ASSUME Init PROVE Abstract!Init
    OBVIOUS
<1>1. table = EmptyTable /\ Good(table) /\ Live(table.entries) = {}
    BY EmptyGood DEF Init
<1>2. IsMap(Contents(table), {})
    BY <1>1, ContentsProps
<1>3. Contents(table) = [k \in {} |-> Nil]
    BY <1>2 DEF IsMap
<1> QED
    BY <1>3 DEF Init, Abstract!Init

\* table_get returns the value of the key, if it has one.
LEMMA GetMaps ==
    ASSUME IInv, NEW k \in Key, Get(k)
    PROVE  Abstract!Get(k)
<1>1. Good(table) /\ UNCHANGED table
    BY DEF IInv, Get
<1>2. DOMAIN Contents(table) = KeysOf(table)
    BY <1>1, ContentsProps
<1>3. returned' = [value |-> IF k \in KeysOf(table) THEN {Contents(table)[k]} ELSE {}]
    BY <1>1, HasContents DEF Get
<1> QED
    BY <1>1, <1>2, <1>3 DEF Abstract!Get, Abstract!Keys

\* table_set updates the map and says whether the key is new.
LEMMA SetMaps ==
    ASSUME IInv, NEW k \in Key, NEW v \in Value, Set(k, v)
    PROVE  Abstract!Set(k, v)
<1>1. Good(table) /\ table' = TableSet(table, k, v)
    BY DEF IInv, Set
<1>2. Good(table') /\ Live(table'.entries) = With(Live(table.entries), k, v)
    BY <1>1, SetProps
<1>3. /\ IsMap(Contents(table), Live(table.entries))
      /\ IsMap(Contents(table'), With(Live(table.entries), k, v))
      /\ DOMAIN Contents(table) = KeysOf(table)
    BY <1>1, <1>2, ContentsProps
<1>4. Abstract!Update(k, v)
    <2>1. Contents(table') = Updated(Contents(table), k, v)
        BY <1>3, MapWith
    <2> QED
        BY <2>1 DEF Updated, Abstract!Update, Abstract!Keys
<1>5. returned' = [isNew |-> k \notin KeysOf(table)]
    BY <1>1, HasContents DEF Set
<1>6. Abstract!Interned(k)
    BY <1>1, InternedKeyMeans DEF Set
<1> QED
    BY <1>3, <1>4, <1>5, <1>6 DEF Abstract!Set, Abstract!Keys

\* table_remove takes the key from the map and says whether it was there.
LEMMA DeleteMaps ==
    ASSUME IInv, NEW k \in Key, Delete(k)
    PROVE  Abstract!Delete(k)
<1>1. Good(table) /\ table' = TableRemove(table, k)
    BY DEF IInv, Delete
<1>2. Good(table') /\ Live(table'.entries) = { e \in Live(table.entries) : e.key # k }
    BY <1>1, RemoveProps
<1>3. { e \in Live(table.entries) : e.key # k } =
        { e \in Live(table.entries) : e.key \in Key \ {k} }
    BY <1>1, KeysProps, EntryKinds
<1>4. /\ IsMap(Contents(table), Live(table.entries))
      /\ IsMap(Contents(table'), { e \in Live(table.entries) : e.key \in Key \ {k} })
      /\ DOMAIN Contents(table) = KeysOf(table)
    BY <1>1, <1>2, <1>3, ContentsProps
<1>5. Abstract!Restrict(Key \ {k})
    <2>1. Contents(table') = Restricted(Contents(table), Key \ {k})
        BY <1>4, MapRestrict
    <2> QED
        BY <2>1 DEF Restricted, Abstract!Restrict, Abstract!Keys
<1>6. returned' = [removed |-> k \in KeysOf(table)]
    <2>1. TableHas(table, k) <=> k \in KeysOf(table)
        BY <1>1, HasContents
    <2>2. TableHas(table, k) = (k \in KeysOf(table))
        BY <2>1 DEF TableHas
    <2>3. returned' = [removed |-> TableHas(table, k)]
        BY DEF Delete
    <2> QED
        BY <2>2, <2>3
<1> QED
    BY <1>4, <1>5, <1>6 DEF Abstract!Delete, Abstract!Keys

\* A string is found if and only if the map has a key with its characters.
LEMMA InternMaps ==
    ASSUME IInv, NEW c \in Content, Intern(c)
    PROVE  Abstract!Intern(c)
<1>1. Good(table) /\ Interned(Live(table.entries))
    BY DEF IInv
<1>2. /\ DOMAIN Contents(table) = KeysOf(table)
      /\ KeysOf(table) = { e.key : e \in Live(table.entries) }
      /\ KeysOf(table) \subseteq Key
    BY <1>1, ContentsProps, KeysProps
<1> DEFINE found == TableInterned(table, c)
<1>3. CASE found # NULL
    <2>1. PICK e \in Live(table.entries) : e.key = found /\ chars[e.key] = c
        BY <1>1, <1>3, InternedProps
    <2>2. found \in Key /\ found \in KeysOf(table) /\ chars[found] = c
        BY <1>2, <2>1
    <2>3. Abstract!Interned(found)
        BY <1>1, <1>2, <2>1 DEF Interned, Abstract!Interned, Abstract!Keys
    <2>4. UNCHANGED table /\ returned' = [string |-> found]
        BY <1>3 DEF Intern
    <2> QED
        BY <1>2, <2>2, <2>3, <2>4 DEF Abstract!Intern, Abstract!Keys
<1>4. CASE found = NULL
    <2>1. PICK k \in Key \ Keys :
            chars[k] = c /\ table' = TableSet(table, k, Nil) /\ returned' = [string |-> k]
        BY <1>4 DEF Intern
    <2>2. \A e \in Live(table.entries) : chars[e.key] # c
        BY <1>1, <1>4, InternedProps
    <2>3. Good(table') /\ Live(table'.entries) = With(Live(table.entries), k, Nil)
        BY <1>1, <2>1, ValueAssumption, SetProps
    <2>4. /\ IsMap(Contents(table), Live(table.entries))
          /\ IsMap(Contents(table'), With(Live(table.entries), k, Nil))
        BY <1>1, <2>3, ContentsProps
    <2>5. Abstract!Update(k, Nil)
        <3>1. Contents(table') = Updated(Contents(table), k, Nil)
            BY <2>4, MapWith
        <3> QED
            BY <3>1 DEF Updated, Abstract!Update, Abstract!Keys
    <2>6. Abstract!Interned(k)
        BY <1>2, <2>1, <2>2 DEF Abstract!Interned, Abstract!Keys
    <2>7. k \notin DOMAIN Contents(table)
        BY <1>2, <2>1 DEF Keys
    <2> QED
        BY <2>1, <2>5, <2>6, <2>7 DEF Abstract!Intern, Abstract!Keys
<1> QED
    BY <1>3, <1>4

\* The purge restricts the map to the marked keys.
LEMMA RemoveWeakMaps ==
    ASSUME IInv, NEW marked, RemoveWeak(marked)
    PROVE  Abstract!RemoveWeak(marked)
<1>1. Good(table) /\ table' = TableRemoveWeak(table, marked)
    BY DEF IInv, RemoveWeak
<1>2. Good(table') /\ Live(table'.entries) = { e \in Live(table.entries) : e.key \in marked }
    BY <1>1, RemoveWeakProps
<1>3. /\ IsMap(Contents(table), Live(table.entries))
      /\ IsMap(Contents(table'), { e \in Live(table.entries) : e.key \in marked })
    BY <1>1, <1>2, ContentsProps
<1>4. Abstract!Restrict(marked)
    <2>1. Contents(table') = Restricted(Contents(table), marked)
        BY <1>3, MapRestrict
    <2> QED
        BY <2>1 DEF Restricted, Abstract!Restrict, Abstract!Keys
<1> QED
    BY <1>4 DEF RemoveWeak, Abstract!RemoveWeak

\* A copy is the same map.
LEMMA CopyMaps ==
    ASSUME IInv, Copy
    PROVE  Abstract!Copy
<1>1. Good(table) /\ table' = TableCopy(table, EmptyTable)
    BY DEF IInv, Copy
<1>2. Good(table') /\ Live(table'.entries) = Live(table.entries)
    BY <1>1, CopyProps
<1>3. /\ IsMap(Contents(table), Live(table.entries))
      /\ IsMap(Contents(table'), Live(table.entries))
    BY <1>1, <1>2, ContentsProps
<1>4. Contents(table') = Contents(table)
    BY <1>3, SameMap
<1> QED
    BY <1>4 DEF Copy, Abstract!Copy

\* Every step of the table is one of the map, or none.
LEMMA NextMaps == IInv /\ [Next]_vars => [Abstract!Next]_(Abstract!vars)
<1> SUFFICES ASSUME IInv, [Next]_vars PROVE [Abstract!Next]_(Abstract!vars)
    OBVIOUS
<1>1. CASE UNCHANGED vars
    BY <1>1 DEF vars, Abstract!vars
<1>2. CASE Next
    BY <1>2, GetMaps, SetMaps, DeleteMaps, InternMaps, RemoveWeakMaps, CopyMaps
    DEF Next, Abstract!Next
<1> QED
    BY <1>1, <1>2

\* The table implements Map: every call returns and does what Map says, whatever
\* the hashes of the keys are and however often the table grew, lost keys, was
\* purged by the collector or copied before.
THEOREM TableImplementsMap == Spec => ImplementsMap
<1> QED
    BY InitMaps, NextMaps, Invariance, PTL DEF Spec, ImplementsMap, Abstract!Spec

=============================================================================
