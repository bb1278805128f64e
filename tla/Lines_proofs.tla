---------------------------- MODULE Lines_proofs ----------------------------
(***************************************************************************)
(* Proofs about Lines: the lexer counts every line, and the table of a     *)
(* chunk gives the line of every byte back.                                *)
(***************************************************************************)
EXTENDS Lines, Lists_proofs

-----------------------------------------------------------------------------
(* decode_line                                                               *)

Interval == [start : Int, end : Int]

\* Entry i of the table is that of the offset.
Covers(lines, offset, i) ==
    /\ i \in 1..Len(lines)
    /\ lines[i].offset <= offset
    /\ i < Len(lines) => offset < lines[i + 1].offset

\* The entry is in the interval, which is that entry or has at most n entries.
Within(lines, offset, s, n) ==
    /\ s.start \in 0..(Len(lines) - 1) /\ s.end \in s.start..(Len(lines) - 1)
    /\ lines[s.start + 1].offset <= offset
    /\ s.end < Len(lines) - 1 => offset < lines[s.end + 2].offset
    /\ s.start = s.end \/ s.end - s.start < n

\* The middle of two numbers.
LEMMA Middle ==
    ASSUME NEW b \in Int, NEW e \in Int, b <= e
    PROVE  (b + e) \div 2 \in Int /\ b <= (b + e) \div 2 /\ (b + e) \div 2 <= e
<1>1. PICK x : x = b + e
    OBVIOUS
<1>2. x \in Int /\ 2 * b <= x /\ x <= 2 * e
    BY <1>1
<1>3. x \div 2 \in Int /\ 2 * (x \div 2) <= x /\ x <= 2 * (x \div 2) + 1
    BY ONLY <1>2
<1>4. PICK m : m = x \div 2
    OBVIOUS
<1>5. m \in Int /\ b <= m /\ m <= e
    BY ONLY <1>2, <1>3, <1>4
<1> QED
    BY ONLY <1>1, <1>4, <1>5

\* Each turn of the bisection leaves one entry less, whatever is in the table.
LEMMA BisectNarrows ==
    ASSUME NEW lines \in Seq(Entry), NEW offset \in Nat, NEW s \in Interval,
           NEW n \in Nat \ {0}, Within(lines, offset, s, n)
    PROVE  Within(lines, offset, Bisect(lines, offset, s), n - 1)
<1> DEFINE b == s.start
           e == s.end
           N == Len(lines)
           mid == (b + e) \div 2
           t == Bisect(lines, offset, s)
<1>1. /\ b \in Int /\ e \in Int /\ N \in Nat
      /\ 0 <= b /\ b <= e /\ e <= N - 1
    BY DEF Within, Interval
<1>2. mid \in Int /\ b <= mid /\ mid <= e
    BY ONLY <1>1, Middle
<1>3. \A i \in 1..N : lines[i].offset \in Nat
    <2> TAKE i \in 1..N
    <2>1. lines[i] \in Entry
        OBVIOUS
    <2> QED
        BY <2>1 DEF Entry
<1>4. /\ lines[b + 1].offset <= offset
      /\ e < N - 1 => offset < lines[e + 2].offset
      /\ b = e \/ e - b < n
    BY DEF Within
<1>5. ASSUME offset < lines[mid + 1].offset
      PROVE  Within(lines, offset, t, n - 1)
    <2>1. t = [start |-> b, end |-> mid - 1]
        BY <1>5 DEF Bisect, Interval
    <2>2. mid # b
        <3>1. lines[b + 1].offset \in Nat
            <4> HIDE DEF b, e, N
            <4> QED
                BY <1>1, <1>3
        <3> HIDE DEF b, e, N, mid
        <3> QED
            BY <1>1, <1>4, <1>5, <3>1
    <2>3. t.start = b /\ t.end = mid - 1
        BY <2>1
    <2>4. mid - 1 < N - 1 => offset < lines[(mid - 1) + 2].offset
        <3>1. (mid - 1) + 2 = mid + 1
            <4> HIDE DEF mid
            <4> QED
                BY <1>2
        <3> HIDE DEF mid, N
        <3> QED
            BY <1>5, <3>1
    <2>5. mid - 1 - b < n - 1
        <3> HIDE DEF b, e, N, mid
        <3> QED
            BY <1>1, <1>2, <1>4, <2>2
    <2>6. b \in 0..(N - 1) /\ mid - 1 \in b..(N - 1)
        <3> HIDE DEF b, e, N, mid
        <3> QED
            BY <1>1, <1>2, <2>2
    <2> HIDE DEF b, e, mid, t
    <2> QED
        BY <1>4, <2>3, <2>4, <2>5, <2>6 DEF Within
<1>6. ASSUME ~(offset < lines[mid + 1].offset), mid = N - 1 \/ offset < lines[mid + 2].offset
      PROVE  Within(lines, offset, t, n - 1)
    <2>1. t.start = mid /\ t.end = mid
        BY <1>6 DEF Bisect, Interval
    <2>2. mid \in 0..(N - 1) /\ mid + 1 \in 1..N /\ mid \in mid..(N - 1)
        <3> HIDE DEF b, e, N, mid
        <3> QED
            BY <1>1, <1>2
    <2>3. lines[mid + 1].offset <= offset
        <3>1. lines[mid + 1].offset \in Nat
            <4> HIDE DEF b, e, N, mid
            <4> QED
                BY <1>3, <2>2
        <3> HIDE DEF b, e, N, mid
        <3> QED
            BY <1>6, <3>1
    <2>4. mid < N - 1 => offset < lines[mid + 2].offset
        <3> HIDE DEF b, e, N, mid
        <3> QED
            BY <1>1, <1>2, <1>6
    <2> HIDE DEF b, e, mid, t
    <2> QED
        BY <2>1, <2>2, <2>3, <2>4 DEF Within
<1>7. ASSUME ~(offset < lines[mid + 1].offset), ~(mid = N - 1 \/ offset < lines[mid + 2].offset)
      PROVE  Within(lines, offset, t, n - 1)
    <2>1. t = [start |-> mid + 1, end |-> e]
        BY <1>7 DEF Bisect, Interval
    <2>2. t.start = mid + 1 /\ t.end = e
        BY <2>1
    <2>3. mid # e
        <3> HIDE DEF b, e, N, mid
        <3> QED
            BY <1>1, <1>4, <1>7
    <2>4. mid + 1 \in 0..(N - 1) /\ e \in (mid + 1)..(N - 1) /\ mid + 2 \in 1..N /\ (mid + 1) + 1 = mid + 2
        <3> HIDE DEF b, e, N, mid
        <3> QED
            BY <1>1, <1>2, <2>3
    <2>5. lines[(mid + 1) + 1].offset <= offset
        <3>1. lines[mid + 2].offset \in Nat
            <4> HIDE DEF b, e, N, mid
            <4> QED
                BY <1>3, <2>4
        <3> HIDE DEF b, e, N, mid
        <3> QED
            BY <1>7, <2>4, <3>1
    <2>6. e - (mid + 1) < n - 1
        <3> HIDE DEF b, e, N, mid
        <3> QED
            BY <1>1, <1>2, <1>4, <2>3
    <2> HIDE DEF b, e, mid, t
    <2> QED
        BY <1>4, <2>2, <2>4, <2>5, <2>6 DEF Within
<1> QED
    BY <1>5, <1>6, <1>7

\* A turn of the bisection gives an interval.
LEMMA BisectType ==
    ASSUME NEW lines, NEW offset, NEW s \in Interval
    PROVE  Bisect(lines, offset, s) \in Interval
<1>1. s.start \in Int /\ s.end \in Int /\ s = [start |-> s.start, end |-> s.end]
    BY DEF Interval
<1>2. (s.start + s.end) \div 2 \in Int
    <2>1. PICK x : x = s.start + s.end
        OBVIOUS
    <2>2. x \in Int
        BY <1>1, <2>1
    <2>3. x \div 2 \in Int
        BY ONLY <2>2
    <2> QED
        BY <2>1, <2>3
<1>3. PICK mid \in Int : mid = (s.start + s.end) \div 2
    BY <1>2
<1>4. \/ Bisect(lines, offset, s) = [start |-> s.start, end |-> mid - 1]
      \/ Bisect(lines, offset, s) = [start |-> mid, end |-> mid]
      \/ Bisect(lines, offset, s) = [start |-> mid + 1, end |-> s.end]
    BY <1>1, <1>3 DEF Bisect, Interval
<1> QED
    BY <1>1, <1>4 DEF Interval

\* decode_line ends at an entry that begins at or before the offset while the next
\* does not, if the first one begins there.
LEMMA DecodeFinds ==
    ASSUME NEW chunk, NEW lines \in Seq(Entry), lines = chunk.lines, lines # <<>>,
           NEW offset \in Nat, lines[1].offset <= offset
    PROVE  \E i : Covers(lines, offset, i) /\ decode_line(chunk, offset) = lines[i].line
<1> DEFINE N == Len(lines)
           base == [start |-> 0, end |-> N - 1]
           step == [s \in Interval |-> Bisect(lines, offset, s)]
           Is(g) == g = [k \in 0..N |-> IF k = 0 THEN base ELSE Bisect(lines, offset, g[k - 1])]
           f == CHOOSE g : Is(g)
<1>0. N \in Nat /\ N # 0
    BY EmptySeq
<1>1. base \in Interval
    <2>1. N - 1 \in Int
        BY <1>0
    <2> HIDE DEF N
    <2> QED
        BY <2>1 DEF Interval
<1>2. step \in [Interval -> Interval]
    BY BisectType
<1>3. Is(f)
    <2>0. PICK g : Iterates(g, N, Interval, base, step)
        <3> HIDE DEF N, base, step
        <3> QED
            BY <1>0, <1>1, <1>2, Iteration
    <2>1. g \in [0..N -> Interval] /\ g[0] = base /\ \A k \in 1..N : g[k] = step[g[k - 1]]
        <3> HIDE DEF N, base, step
        <3> QED
            BY <2>0 DEF Iterates
    <2>2. \A k \in 1..N : g[k - 1] \in Interval
        <3> HIDE DEF N, base
        <3> QED
            BY <1>0, <2>1
    <2>3. \A k \in 1..N : g[k] = Bisect(lines, offset, g[k - 1])
        BY <2>1, <2>2
    <2>4. Is(g)
        <3> HIDE DEF N, base, step
        <3>1. \A k \in 0..N : g[k] = IF k = 0 THEN base ELSE Bisect(lines, offset, g[k - 1])
            BY <1>0, <2>1, <2>3
        <3>2. g \in [0..N -> Interval]
            BY <2>1
        <3> QED
            BY <3>1, <3>2
    <2> HIDE DEF Is
    <2> QED
        BY <2>4
<1> DEFINE S == { k \in 0..N : f[k] \in Interval /\ Within(lines, offset, f[k], N - k) }
<1> HIDE DEF f
<1>4. 0 \in S
    <2>1. f[0] = base /\ 0 \in 0..N
        BY <1>0, <1>3
    <2>2. base.start = 0 /\ base.end = N - 1 /\ N - 1 \in 0..(N - 1) /\ 0 \in 0..(N - 1)
        BY <1>0
    <2>3. Within(lines, offset, base, N - 0)
        <3> HIDE DEF base
        <3>2. (N - 1) - 0 < N - 0
            BY <1>0
        <3> QED
            BY <1>0, <2>2, <3>2 DEF Within
    <2> HIDE DEF base, N
    <2> QED
        BY <1>1, <2>1, <2>3
<1>5. \A k \in 0..(N - 1) : k \in S => k + 1 \in S
    <2> HIDE DEF N
    <2> SUFFICES ASSUME NEW k \in 0..(N - 1), k \in S
                 PROVE  k + 1 \in S
        OBVIOUS
    <2>1. k + 1 \in 0..N /\ k + 1 # 0 /\ (k + 1) - 1 = k /\ N - k \in Nat \ {0} /\ (N - k) - 1 = N - (k + 1)
        BY <1>0
    <2>2. f[k + 1] = Bisect(lines, offset, f[k])
        BY <1>3, <2>1
    <2>3. f[k] \in Interval /\ Within(lines, offset, f[k], N - k)
        OBVIOUS
    <2>4. Within(lines, offset, Bisect(lines, offset, f[k]), (N - k) - 1)
        BY <2>1, <2>3, BisectNarrows
    <2>5. f[k + 1] \in Interval
        BY <2>2, <2>3, BisectType
    <2> QED
        BY <2>1, <2>2, <2>4, <2>5
<1>6. N \in S
    <2> HIDE DEF N, S
    <2>1. \A m \in 0..N : m \in S
        BY <1>0, <1>4, <1>5, Steps
    <2> QED
        BY <1>0, <2>1
<1> DEFINE b == f[N].start
           e == f[N].end
<1>7. /\ b \in 0..(N - 1) /\ e \in b..(N - 1)
      /\ lines[b + 1].offset <= offset
      /\ e < N - 1 => offset < lines[e + 2].offset
      /\ b = e \/ e - b < 0
    <2>1. Within(lines, offset, f[N], N - N) /\ N - N = 0
        BY <1>0, <1>6
    <2> QED
        BY <2>1 DEF Within
<1>8. Covers(lines, offset, b + 1)
    <2> HIDE DEF b, e
    <2>1. b = e /\ b + 1 \in 1..N /\ (b + 1 < N => e < N - 1) /\ (b + 1) + 1 = e + 2
        BY <1>0, <1>7
    <2> QED
        BY <1>7, <2>1 DEF Covers
<1>9. decode_line(chunk, offset) = lines[b + 1].line
    BY DEF decode_line, f
<1> HIDE DEF b
<1> QED
    BY <1>8, <1>9

-----------------------------------------------------------------------------
(* The lexer                                                                 *)

\* A lexer that has counted the lines up to where it is.
At(text, c, s) == [text |-> text, current |-> c, start |-> s, line |-> LineAt(text, c)]

Ends(text) == 1..(Len(text) + 1)

\* Behind the text, or at a symbol a token begins with.
Clear(text, p) == p <= Len(text) => text[p] \notin {" ", "\n", "#"}

\* The lines of one position more.
LEMMA LineAtNext ==
    ASSUME NEW text, NEW p \in Nat \ {0}
    PROVE  /\ LineAt(text, 1) = 1
           /\ LineAt(text, p) \in Line
           /\ LineAt(text, p + 1) = LineAt(text, p) + IF text[p] = "\n" THEN 1 ELSE 0
<1> DEFINE before(q) == { n \in 1..(q - 1) : text[n] = "\n" }
<1>1. before(1) = {} /\ Cardinality({}) = 0
    BY FS_EmptySet
<1>2. IsFiniteSet(before(p)) /\ Cardinality(before(p)) \in Nat
    <2>1. IsFiniteSet(1..(p - 1))
        BY FS_Interval
    <2>2. before(p) \subseteq 1..(p - 1)
        OBVIOUS
    <2> HIDE DEF before
    <2> QED
        BY <2>1, <2>2, FS_Subset, FS_CardinalityType
<1>3. CASE text[p] = "\n"
    <2>1. before(p + 1) = before(p) \cup {p} /\ p \notin before(p)
        BY <1>3
    <2>2. Cardinality(before(p + 1)) = Cardinality(before(p)) + 1
        <3> HIDE DEF before
        <3> QED
            BY <1>2, <2>1, FS_AddElement
    <2> QED
        BY <1>1, <1>2, <1>3, <2>2 DEF LineAt, Line
<1>4. CASE text[p] # "\n"
    <2>1. before(p + 1) = before(p)
        BY <1>4
    <2> QED
        BY <1>1, <1>2, <1>4, <2>1 DEF LineAt, Line
<1> QED
    BY <1>3, <1>4

\* Positions with no end of a line between them are on one line.
LEMMA LineAtSame ==
    ASSUME NEW text, NEW p \in Nat \ {0}, NEW q \in Nat, p <= q,
           \A n \in p..(q - 1) : text[n] # "\n"
    PROVE  LineAt(text, q) = LineAt(text, p)
<1>1. { n \in 1..(q - 1) : text[n] = "\n" } = { n \in 1..(p - 1) : text[n] = "\n" }
    OBVIOUS
<1> QED
    BY <1>1 DEF LineAt

\* What the lexer sees, and where it is one symbol further.
LEMMA AdvanceAt ==
    ASSUME NEW text \in Seq(STRING), NEW c \in Ends(text), NEW s
    PROVE  /\ at_end(At(text, c, s)) <=> c = Len(text) + 1
           /\ peek(At(text, c, s)) = Symbol(text, c)
           /\ c <= Len(text) /\ text[c] # "\n" =>
                advance(At(text, c, s)) = At(text, c + 1, s)
           /\ c <= Len(text) /\ text[c] = "\n" =>
                advance([At(text, c, s) EXCEPT !.line = @ + 1]) = At(text, c + 1, s)
           /\ c = Len(text) + 1 => advance(At(text, c, s)) = At(text, c, s)
           /\ c <= Len(text) => c + 1 \in Ends(text)
<1>1. Len(text) \in Nat /\ c \in Nat \ {0} /\ c <= Len(text) + 1
    BY DEF Ends
<1>2. LineAt(text, c + 1) = LineAt(text, c) + IF text[c] = "\n" THEN 1 ELSE 0
    BY <1>1, LineAtNext
<1>3. LineAt(text, c) \in Nat
    BY <1>1, LineAtNext DEF Line
<1>4. at_end(At(text, c, s)) <=> c = Len(text) + 1
    BY <1>1 DEF at_end, At
<1>5. peek(At(text, c, s)) = Symbol(text, c)
    BY <1>4 DEF peek, At, Symbol
<1>6. c <= Len(text) /\ text[c] # "\n" => advance(At(text, c, s)) = At(text, c + 1, s)
    <2>1. c <= Len(text) => ~at_end(At(text, c, s))
        BY <1>1, <1>4
    <2> QED
        BY <1>2, <1>3, <2>1 DEF advance, At
<1>7. c <= Len(text) /\ text[c] = "\n" =>
        advance([At(text, c, s) EXCEPT !.line = @ + 1]) = At(text, c + 1, s)
    <2>1. c <= Len(text) => ~at_end([At(text, c, s) EXCEPT !.line = @ + 1])
        BY <1>1 DEF at_end, At
    <2> QED
        BY <1>2, <1>3, <2>1 DEF advance, At
<1>8. c = Len(text) + 1 => advance(At(text, c, s)) = At(text, c, s)
    BY <1>4 DEF advance
<1>9. c <= Len(text) => c + 1 \in Ends(text)
    BY <1>1 DEF Ends
<1> QED
    BY <1>4, <1>5, <1>6, <1>7, <1>8, <1>9

\* Upto goes to the first of the symbols, or to the end, and over no other one.
LEMMA UptoAt ==
    ASSUME NEW text \in Seq(STRING), NEW c \in Ends(text), NEW s, NEW symbols, "\n" \in symbols
    PROVE  \E d \in Ends(text) :
                /\ c <= d
                /\ Upto(At(text, c, s), symbols) = At(text, d, s)
                /\ d <= Len(text) => text[d] \in symbols
                /\ \A p \in c..(d - 1) : text[p] \notin symbols
<1> DEFINE N == Len(text)
           found == { p \in c..N : text[p] \in symbols }
           d == Min(found \cup {N + 1})
<1>1. N \in Nat /\ c \in Nat \ {0} /\ c <= N + 1
    BY DEF Ends
<1>2. d \in found \cup {N + 1} /\ \A p \in found \cup {N + 1} : d <= p
    <2>1. found \cup {N + 1} \in SUBSET Nat /\ found \cup {N + 1} # {}
        <3> HIDE DEF N
        <3> QED
            BY <1>1
    <2> HIDE DEF found, N
    <2> QED
        BY <2>1, MinProps
<1>3. d \in c..(N + 1) /\ (d <= N => text[d] \in symbols)
    <2> HIDE DEF d, N
    <2> QED
        BY <1>1, <1>2
<1>4. \A p \in c..(d - 1) : text[p] \notin symbols
    <2> SUFFICES ASSUME NEW p \in c..(d - 1), text[p] \in symbols PROVE FALSE
        OBVIOUS
    <2> HIDE DEF d, N
    <2>1. p \in Int /\ p < d /\ p \in c..N
        BY <1>1, <1>3
    <2>2. p \in found
        BY <2>1
    <2>3. d <= p
        BY <1>2, <2>2
    <2> QED
        BY <1>1, <1>3, <2>1, <2>3
<1>5. LineAt(text, d) = LineAt(text, c)
    <2> HIDE DEF d, N
    <2>1. d \in Nat /\ c <= d /\ \A p \in c..(d - 1) : text[p] # "\n"
        BY <1>1, <1>3, <1>4
    <2> QED
        BY <1>1, <2>1, LineAtSame
<1>6. Upto(At(text, c, s), symbols) = [At(text, c, s) EXCEPT !.current = d]
    BY DEF Upto, At
<1> HIDE DEF d, found
<1>7. Upto(At(text, c, s), symbols) = At(text, d, s)
    BY <1>5, <1>6 DEF At
<1>8. d \in Ends(text) /\ c <= d
    BY <1>1, <1>3 DEF Ends
<1> QED
    BY <1>3, <1>4, <1>7, <1>8

\* A turn of skip_whitespace goes on, or there is nothing to skip.
LEMMA SkipAt ==
    ASSUME NEW text \in Seq(STRING), NEW c \in Ends(text), NEW s
    PROVE  \E d \in Ends(text) :
                /\ skip(At(text, c, s)) = At(text, d, s)
                /\ IF Clear(text, c) THEN d = c ELSE c < d
<1> DEFINE l == At(text, c, s)
<1>1. Len(text) \in Nat /\ c \in Nat \ {0} /\ c <= Len(text) + 1
    BY DEF Ends
<1>2. peek(l) = IF c = Len(text) + 1 THEN "" ELSE text[c]
    <2>1. peek(l) = Symbol(text, c)
        BY AdvanceAt
    <2> QED
        BY <2>1, Zenon DEF Symbol
<1>3. CASE Clear(text, c)
    <2>1. peek(l) # " " /\ peek(l) # "\n" /\ peek(l) # "#"
        <3>1. CASE c = Len(text) + 1
            <4>1. peek(l) = ""
                BY <1>2, <3>1
            <4> HIDE DEF l
            <4> QED
                BY <4>1, Zenon
        <3>2. CASE c <= Len(text)
            <4>1. c # Len(text) + 1
                BY <1>1, <3>2
            <4>2. peek(l) = text[c]
                BY <1>2, <4>1, Zenon
            <4>3. text[c] \notin {" ", "\n", "#"}
                BY <1>3, <3>2, Zenon DEF Clear
            <4> HIDE DEF l
            <4> QED
                BY <4>2, <4>3, Zenon
        <3>3. c = Len(text) + 1 \/ c <= Len(text)
            BY <1>1
        <3> QED
            BY <3>1, <3>2, <3>3, Zenon
    <2> HIDE DEF l
    <2>2. skip(l) = l
        BY <2>1, Zenon DEF skip
    <2>3. c \in Ends(text)
        OBVIOUS
    <2> QED
        BY <1>3, <2>2, <2>3 DEF l
<1>4. CASE ~Clear(text, c)
    <2>0. c <= Len(text) /\ text[c] \in {" ", "\n", "#"}
        BY <1>4, Zenon DEF Clear
    <2>1. /\ c <= Len(text) /\ c # Len(text) + 1 /\ peek(l) = text[c]
          /\ text[c] = " " \/ text[c] = "\n" \/ text[c] = "#"
        <3>1. c <= Len(text)
            BY <2>0, Zenon
        <3>2. c # Len(text) + 1
            BY <1>1, <3>1
        <3>3. peek(l) = text[c]
            BY <1>2, <3>2, Zenon
        <3> QED
            BY <2>0, <3>1, <3>2, <3>3, Zenon
    <2>2. c + 1 \in Ends(text) /\ c < c + 1
        <3>1. c <= Len(text)
            BY <2>1
        <3> QED
            BY <1>1, <3>1 DEF Ends
    <2>3. CASE text[c] = " "
        <3>1. skip(l) = advance(l)
            BY <2>1, <2>3 DEF skip
        <3>2. advance(l) = At(text, c + 1, s)
            BY <2>1, <2>3, AdvanceAt
        <3> QED
            BY <1>4, <2>2, <3>1, <3>2
    <2>4. CASE text[c] = "\n"
        <3>1. skip(l) = advance([l EXCEPT !.line = @ + 1])
            BY <2>1, <2>4 DEF skip
        <3>2. advance([l EXCEPT !.line = @ + 1]) = At(text, c + 1, s)
            BY <2>1, <2>4, AdvanceAt
        <3> QED
            BY <1>4, <2>2, <3>1, <3>2
    <2>5. CASE text[c] = "#"
        <3>1. skip(l) = Upto(l, {"\n"})
            BY <2>1, <2>5 DEF skip
        <3>2. PICK d \in Ends(text) :
                /\ c <= d
                /\ Upto(l, {"\n"}) = At(text, d, s)
                /\ d <= Len(text) => text[d] \in {"\n"}
            BY UptoAt
        <3>3. c # d
            BY <2>1, <2>5, <3>2
        <3>4. c < d
            BY <1>1, <3>2, <3>3 DEF Ends
        <3> QED
            BY <1>4, <3>1, <3>2, <3>4
    <2> QED
        BY <2>1, <2>3, <2>4, <2>5
<1> QED
    BY <1>3, <1>4

\* skip_whitespace goes to where a token begins, counting the lines.
LEMMA SkipWhitespaceAt ==
    ASSUME NEW text \in Seq(STRING), NEW c \in Ends(text), NEW s
    PROVE  \E d \in Ends(text) :
                /\ c <= d
                /\ skip_whitespace(At(text, c, s)) = At(text, d, s)
                /\ Clear(text, d)
<1> DEFINE l == At(text, c, s)
           N == Len(text) + 1 - c
           All == { At(text, d, s) : d \in Ends(text) }
           step == [m \in All |-> skip(m)]
           Is(g) == g = [k \in 0..N |-> IF k = 0 THEN l ELSE skip(g[k - 1])]
           f == CHOOSE g : Is(g)
           Far(k, d) == d \in Ends(text) /\ c <= d /\ (Clear(text, d) \/ c + k <= d)
<1>0. N \in Nat /\ c \in Nat /\ c <= Len(text) + 1 /\ Len(text) \in Nat /\ c + N = Len(text) + 1
    BY DEF Ends
<1>1. l \in All
    OBVIOUS
<1>2. \A m \in All : skip(m) \in All
    <2> SUFFICES ASSUME NEW d \in Ends(text) PROVE skip(At(text, d, s)) \in All
        OBVIOUS
    <2> QED
        BY SkipAt
<1>3. Is(f)
    <2>1. step \in [All -> All]
        <3> HIDE DEF All
        <3> QED
            BY <1>2
    <2>2. PICK g : Iterates(g, N, All, l, step)
        <3> HIDE DEF N, l, step, All
        <3> QED
            BY <1>0, <1>1, <2>1, Iteration
    <2> HIDE DEF All
    <2>3. g \in [0..N -> All] /\ g[0] = l /\ \A k \in 1..N : g[k] = step[g[k - 1]]
        <3> HIDE DEF N, l, step
        <3> QED
            BY <2>2 DEF Iterates
    <2>4. \A k \in 1..N : g[k - 1] \in All
        <3> HIDE DEF N, l
        <3> QED
            BY <1>0, <2>3
    <2>5. \A k \in 1..N : g[k] = skip(g[k - 1])
        BY <2>3, <2>4
    <2>6. Is(g)
        <3> HIDE DEF N, l, step
        <3>1. \A k \in 0..N : g[k] = IF k = 0 THEN l ELSE skip(g[k - 1])
            BY <1>0, <2>3, <2>5
        <3>2. g \in [0..N -> All]
            BY <2>3
        <3> QED
            BY <3>1, <3>2
    <2> HIDE DEF Is
    <2> QED
        BY <2>6
<1> DEFINE S == { k \in 0..N : \E d : Far(k, d) /\ f[k] = At(text, d, s) }
<1> HIDE DEF f
<1>4. 0 \in S
    <2>1. f[0] = At(text, c, s) /\ 0 \in 0..N
        BY <1>0, <1>3
    <2>2. Far(0, c)
        BY <1>0
    <2> HIDE DEF Far, N
    <2> QED
        BY <2>1, <2>2
<1>5. \A k \in 0..(N - 1) : k \in S => k + 1 \in S
    <2> HIDE DEF N
    <2> SUFFICES ASSUME NEW k \in 0..(N - 1), k \in S
                 PROVE  k + 1 \in S
        OBVIOUS
    <2>1. k + 1 \in 0..N /\ k + 1 # 0 /\ (k + 1) - 1 = k /\ k \in Nat
        BY <1>0
    <2>2. f[k + 1] = skip(f[k])
        BY <1>3, <2>1
    <2>3. PICK d : Far(k, d) /\ f[k] = At(text, d, s)
        OBVIOUS
    <2>4. PICK e \in Ends(text) : skip(At(text, d, s)) = At(text, e, s) /\ IF Clear(text, d) THEN e = d ELSE d < e
        BY <2>3, SkipAt
    <2>5. d \in Nat /\ e \in Nat
        BY <2>3 DEF Ends
    <2>6. Far(k + 1, e)
        <3>1. c <= d /\ (Clear(text, d) \/ c + k <= d)
            BY <2>3
        <3>2. CASE ~Clear(text, d)
            <4>1. d < e /\ c + k <= d
                BY <2>4, <3>1, <3>2
            <4>2. c <= e /\ c + (k + 1) <= e
                BY <1>0, <2>1, <2>5, <3>1, <4>1
            <4> QED
                BY <4>2
        <3>3. CASE Clear(text, d)
            BY <2>4, <3>1, <3>3
        <3> QED
            BY <3>2, <3>3
    <2>7. f[k + 1] = At(text, e, s)
        BY <2>2, <2>3, <2>4
    <2> HIDE DEF Far
    <2> QED
        BY <2>1, <2>6, <2>7
<1>6. N \in S
    <2> HIDE DEF N, S
    <2>1. \A m \in 0..N : m \in S
        BY <1>0, <1>4, <1>5, Steps
    <2> QED
        BY <1>0, <2>1
<1>7. PICK d : Far(N, d) /\ f[N] = At(text, d, s)
    BY <1>6
<1>8. Clear(text, d)
    <2>1. d \in Nat /\ (Clear(text, d) \/ c + N <= d)
        BY <1>7 DEF Ends
    <2>2. d <= Len(text) => ~(c + N <= d)
        BY <1>0, <2>1
    <2> QED
        BY <2>1, <2>2, Zenon DEF Clear
<1>9. skip_whitespace(At(text, c, s)) = f[N]
    <2>1. Len(l.text) + 1 - l.current = N
        BY DEF At
    <2> HIDE DEF l
    <2> QED
        BY <2>1 DEF skip_whitespace, f, l
<1> QED
    BY <1>7, <1>8, <1>9

\* Behind a symbol of the token that begins at d, on its line.
Behind(text, d, l) ==
    \E e \in Ends(text) : d < e /\ l = At(text, e, d) /\ LineAt(text, e) = LineAt(text, d)

\* A token that begins at d, found with the lexer behind it.
Finds(text, d, found) ==
    /\ IsToken(text, found.token)
    /\ found.token.start = d
    /\ found.token.line = LineAt(text, d)
    /\ \/ Behind(text, d, found.lexer)
       \/ found.token.type = "eof" /\ found.lexer = At(text, d, d)

\* What is found behind a symbol of the token.
LEMMA FoundAt ==
    ASSUME NEW text \in Seq(STRING), NEW d \in 1..Len(text), NEW l, Behind(text, d, l),
           NEW type \in TokenTypes
    PROVE  Finds(text, d, Found(l, type))
<1>1. PICK e \in Ends(text) : d < e /\ l = At(text, e, d) /\ LineAt(text, e) = LineAt(text, d)
    BY DEF Behind
<1>2. LineAt(text, d) \in Line
    BY LineAtNext
<1>3. d # Len(text) + 1 /\ d \in 1..(Len(text) + 1)
    OBVIOUS
<1>4. l.text = text /\ l.start = d /\ l.line = LineAt(text, d)
    BY <1>1 DEF At
<1> DEFINE token == [type |-> type, lexeme |-> text[d], line |-> LineAt(text, d), start |-> d]
<1>5. Found(l, type) = [token |-> token, lexer |-> l]
    BY <1>4 DEF Found
<1>6. /\ token = [type |-> token.type, lexeme |-> token.lexeme, line |-> token.line, start |-> token.start]
      /\ token.type = type /\ token.lexeme = text[d] /\ token.line = LineAt(text, d)
      /\ token.start = d
    OBVIOUS
<1> HIDE DEF token
<1>7. IsToken(text, token)
    <2>1. token.lexeme = Symbol(text, token.start)
        BY <1>3, <1>6, Zenon DEF Symbol
    <2> QED
        BY <1>2, <1>3, <1>6, <2>1, Zenon DEF IsToken
<1>8. Found(l, type).token = token /\ Found(l, type).lexer = l
    BY <1>5
<1> QED
    BY <1>6, <1>7, <1>8, Zenon DEF Finds

\* From behind a symbol the lexer goes on over symbols that end no line.
LEMMA AdvanceBehind ==
    ASSUME NEW text \in Seq(STRING), NEW d \in 1..Len(text), NEW l, Behind(text, d, l),
           peek(l) # "", peek(l) # "\n"
    PROVE  Behind(text, d, advance(l))
<1>1. PICK e \in Ends(text) : d < e /\ l = At(text, e, d) /\ LineAt(text, e) = LineAt(text, d)
    BY DEF Behind
<1>2. peek(l) = Symbol(text, e)
    BY <1>1, AdvanceAt
<1>3. e # Len(text) + 1 /\ text[e] # "\n"
    BY <1>2, Zenon DEF Symbol
<1>4. e \in Nat \ {0} /\ e <= Len(text) /\ d < e + 1 /\ e + 1 \in Ends(text)
    <2>1. e # Len(text) + 1
        BY <1>3, Zenon
    <2>2. d \in Nat \ {0} /\ Len(text) \in Nat
        BY ONLY text \in Seq(STRING), d \in 1..Len(text)
    <2> QED
        BY ONLY <1>1, <2>1, <2>2 DEF Ends
<1>5. advance(l) = At(text, e + 1, d)
    BY <1>1, <1>3, <1>4, AdvanceAt
<1>6. LineAt(text, e + 1) = LineAt(text, e) + 0
    BY <1>3, <1>4, LineAtNext
<1>7. LineAt(text, e + 1) = LineAt(text, d)
    <2>1. LineAt(text, e) \in Nat
        BY <1>4, LineAtNext DEF Line
    <2> QED
        BY ONLY <1>1, <1>6, <2>1
<1> QED
    BY <1>4, <1>5, <1>7 DEF Behind

\* A string is found on its line, whether it ends or not.
LEMMA StringAt ==
    ASSUME NEW text \in Seq(STRING), NEW d \in 1..Len(text), NEW l, Behind(text, d, l)
    PROVE  Finds(text, d, string(l))
<1> DEFINE m == Upto(l, {"'", "\n"})
<1>1. PICK e \in Ends(text) : d < e /\ l = At(text, e, d) /\ LineAt(text, e) = LineAt(text, d)
    BY DEF Behind
<1>2. PICK f \in Ends(text) :
        /\ e <= f
        /\ m = At(text, f, d)
        /\ f <= Len(text) => text[f] \in {"'", "\n"}
        /\ \A p \in e..(f - 1) : text[p] \notin {"'", "\n"}
    BY <1>1, UptoAt
<1>3. e \in Nat \ {0} /\ f \in Nat /\ d < f
    BY <1>1, <1>2 DEF Ends
<1>4. LineAt(text, f) = LineAt(text, d)
    <2>1. \A p \in e..(f - 1) : text[p] # "\n"
        BY <1>2
    <2> QED
        BY <1>1, <1>2, <1>3, <2>1, LineAtSame
<1>5. Behind(text, d, m)
    <2> HIDE DEF m
    <2> QED
        BY <1>2, <1>3, <1>4 DEF Behind
<1>6. "string" \in TokenTypes /\ "error" \in TokenTypes
    BY Zenon DEF TokenTypes
<1>7. CASE peek(m) = "'"
    <2> HIDE DEF m
    <2>1. Behind(text, d, advance(m))
        <3>1. peek(m) # "" /\ peek(m) # "\n"
            BY <1>7, Zenon
        <3> QED
            BY <1>5, <3>1, AdvanceBehind, Zenon
    <2>2. string(l) = Found(advance(m), "string")
        BY <1>7, Zenon DEF string, m
    <2> QED
        BY <1>6, <2>1, <2>2, FoundAt, Zenon
<1>8. CASE peek(m) # "'"
    <2> HIDE DEF m
    <2>1. string(l) = Found(m, "error")
        BY <1>8, Zenon DEF string, m
    <2> QED
        BY <1>5, <1>6, <2>1, FoundAt, Zenon
<1> QED
    BY <1>7, <1>8

\* A number is found, with or without a fraction.
LEMMA NumberAt ==
    ASSUME NEW text \in Seq(STRING), NEW d \in 1..Len(text), NEW l, Behind(text, d, l)
    PROVE  Finds(text, d, number(l))
<1>1. "number" \in TokenTypes
    BY Zenon DEF TokenTypes
<1>2. CASE peek(l) = "." /\ peek_next(l) \in Digits
    <2>1. peek(l) # "" /\ peek(l) # "\n"
        BY <1>2, Zenon
    <2>2. Behind(text, d, advance(l))
        BY <2>1, AdvanceBehind, Zenon
    <2>3. peek(advance(l)) = peek_next(l)
        <3>1. PICK e \in Ends(text) : l = At(text, e, d)
            BY DEF Behind
        <3>2. e # Len(text) + 1 /\ text[e] = "."
            <4>1. peek(l) = Symbol(text, e)
                BY ONLY <3>1, AdvanceAt, text \in Seq(STRING), e \in Ends(text)
            <4> QED
                BY <1>2, <2>1, <4>1, Zenon DEF Symbol
        <3>3. e \in Nat /\ e <= Len(text) /\ Len(text) \in Nat
            BY <3>2 DEF Ends
        <3>4. advance(l) = At(text, e + 1, d) /\ e + 1 \in Ends(text)
            <4>1. text[e] # "\n"
                BY <3>2, Zenon
            <4> QED
                BY <3>1, <3>3, <4>1, AdvanceAt
        <3>5. peek(advance(l)) = Symbol(text, e + 1)
            <4>1. \A c \in Ends(text) : peek(At(text, c, d)) = Symbol(text, c)
                BY AdvanceAt
            <4> QED
                BY <3>4, <4>1, Zenon
        <3>6. l.current = e /\ l.text = text
            BY <3>1 DEF At
        <3>7. (e + 1 = Len(text) + 1) <=> (e >= Len(text))
            BY ONLY <3>3
        <3>8. peek_next(l) = Symbol(text, e + 1)
            BY <3>6, <3>7, Zenon DEF peek_next, Symbol
        <3> QED
            BY <3>5, <3>8, Zenon
    <2>4. peek(advance(l)) # "" /\ peek(advance(l)) # "\n"
        BY <1>2, <2>3, Zenon DEF Digits
    <2>5. Behind(text, d, advance(advance(l)))
        BY <2>2, <2>4, AdvanceBehind, Zenon
    <2>6. number(l) = Found(advance(advance(l)), "number")
        BY <1>2, Zenon DEF number
    <2> QED
        BY <1>1, <2>5, <2>6, FoundAt, Zenon
<1>3. CASE ~(peek(l) = "." /\ peek_next(l) \in Digits)
    <2>1. number(l) = Found(l, "number")
        BY <1>3, Zenon DEF number
    <2> QED
        BY <1>1, <2>1, FoundAt, Zenon
<1> QED
    BY <1>2, <1>3

\* next_token finds a token behind the last one, on the line where it begins, and
\* its lexer has counted the lines.
LEMMA NextTokenAt ==
    ASSUME NEW text \in Seq(STRING), NEW c \in Ends(text), NEW s
    PROVE  \E d \in Ends(text) : c <= d /\ Finds(text, d, next_token(At(text, c, s)))
<1> DEFINE lexer0 == At(text, c, s)
           w == skip_whitespace(lexer0)
           l == [w EXCEPT !.start = w.current]
           a == peek(l)
           m == advance(l)
           b == peek(m)
           found == next_token(lexer0)
<1>1. PICK d \in Ends(text) : c <= d /\ w = At(text, d, s) /\ Clear(text, d)
    BY SkipWhitespaceAt
<1>2. l = At(text, d, d)
    BY <1>1 DEF At
<1>3. (at_end(l) <=> d = Len(text) + 1) /\ a = Symbol(text, d)
    <2> HIDE DEF l
    <2>1. at_end(l) <=> d = Len(text) + 1
        BY <1>2, AdvanceAt
    <2>2. a = Symbol(text, d)
        BY <1>2, AdvanceAt
    <2> QED
        BY <2>1, <2>2, Zenon
<1>4. CASE at_end(l)
    <2>1. found = [token |-> [type |-> "eof", lexeme |-> "", line |-> l.line, start |-> l.start],
                   lexer |-> l]
        BY <1>4, Zenon DEF next_token
    <2>2. l.line = LineAt(text, d) /\ l.start = d
        BY <1>2 DEF At
    <2> DEFINE token == [type |-> "eof", lexeme |-> "", line |-> LineAt(text, d), start |-> d]
    <2>3. found.token = token /\ found.lexer = l
        <3> HIDE DEF l, found
        <3>1. found = [token |-> token, lexer |-> l]
            BY <2>1, <2>2, Zenon
        <3> HIDE DEF token
        <3> QED
            BY <3>1
    <2>4. /\ token = [type |-> token.type, lexeme |-> token.lexeme, line |-> token.line, start |-> token.start]
          /\ token.type = "eof" /\ token.lexeme = "" /\ token.line = LineAt(text, d) /\ token.start = d
        BY Zenon
    <2>5. LineAt(text, d) \in Line
        <3>1. d \in Nat \ {0}
            BY DEF Ends
        <3> QED
            BY <3>1, LineAtNext
    <2>6. "eof" \in TokenTypes
        BY Zenon DEF TokenTypes
    <2>7. d \in 1..(Len(text) + 1)
        BY DEF Ends
    <2> HIDE DEF token
    <2>8. IsToken(text, token)
        BY <1>3, <1>4, <2>4, <2>5, <2>6, <2>7, Zenon DEF IsToken, Symbol
    <2> HIDE DEF l, found
    <2>9. Finds(text, d, found)
        BY <1>2, <2>3, <2>4, <2>8, Zenon DEF Finds
    <2> QED
        BY <1>1, <2>9, Zenon DEF found
<1>5. CASE ~at_end(l)
    <2>1. d \in 1..Len(text) /\ d # Len(text) + 1
        BY <1>3, <1>5 DEF Ends
    <2>2. a = text[d]
        BY <1>3, <2>1, Zenon DEF Symbol
    <2>3. a # "\n"
        <3>1. d <= Len(text)
            BY <2>1
        <3> QED
            BY <1>1, <2>2, <3>1, Zenon DEF Clear
    <2>4. Behind(text, d, m)
        <3>1. m = At(text, d + 1, d)
            <4> HIDE DEF l
            <4>1. d <= Len(text)
                BY <2>1
            <4>2. text[d] # "\n"
                BY <2>2, <2>3, Zenon
            <4>3. advance(At(text, d, d)) = At(text, d + 1, d)
                <5>1. \A e \in Ends(text) : e <= Len(text) /\ text[e] # "\n" =>
                        advance(At(text, e, d)) = At(text, e + 1, d)
                    BY ONLY AdvanceAt, text \in Seq(STRING)
                <5> QED
                    BY ONLY <4>1, <4>2, <5>1, d \in Ends(text), Zenon
            <4> QED
                BY <1>2, <4>3, Zenon
        <3>2. d + 1 \in Ends(text) /\ d < d + 1 /\ d \in Nat \ {0}
            BY <2>1 DEF Ends
        <3>3. LineAt(text, d + 1) = LineAt(text, d)
            <4>1. LineAt(text, d + 1) = LineAt(text, d) + IF text[d] = "\n" THEN 1 ELSE 0
                BY <3>2, LineAtNext
            <4>2. LineAt(text, d) \in Nat
                BY <3>2, LineAtNext DEF Line
            <4>3. text[d] # "\n"
                BY <2>2, <2>3, Zenon
            <4> QED
                BY <4>1, <4>2, <4>3
        <3> HIDE DEF m
        <3> QED
            BY <3>1, <3>2, <3>3 DEF Behind
    <2>5. \/ <<a, b>> \in TwoCharacters /\ found = Found(advance(m), Spelling(a, b))
          \/ a \in OneCharacter /\ found = Found(m, a)
          \/ found = string(m)
          \/ a \in Keywords /\ found = Found(m, a)
          \/ found = number(m)
          \/ found = Found(m, "error")
          \/ found = Found(m, "name")
        <3>1. found = CASE <<a, b>> \in TwoCharacters -> Found(advance(m), Spelling(a, b))
                        [] <<a, b>> \notin TwoCharacters /\ a \in OneCharacter -> Found(m, a)
                        [] a = "'"       -> string(m)
                        [] a \in Keywords -> Found(m, a)
                        [] a \in Digits  -> number(m)
                        [] <<a, b>> \notin TwoCharacters /\ a \in Strange -> Found(m, "error")
                        [] OTHER -> Found(m, "name")
            <4> HIDE DEF lexer0
            <4> QED
                BY <1>5, Zenon DEF next_token
        <3> HIDE DEF lexer0, w, l, a, m, b, found
        <3> QED
            BY <3>1
    <2> HIDE DEF lexer0, w, l, a, m, b, found
    <2>6. ASSUME <<a, b>> \in TwoCharacters /\ found = Found(advance(m), Spelling(a, b))
          PROVE  Finds(text, d, found)
        <3>1. b # "" /\ b # "\n"
            BY <2>6, Zenon DEF TwoCharacters
        <3>2. Behind(text, d, advance(m))
            BY <2>1, <2>4, <3>1, AdvanceBehind, Zenon DEF b
        <3>3. Spelling(a, b) \in TokenTypes
            <4>1. Spelling(a, b) \in { Spelling(p[1], p[2]) : p \in TwoCharacters }
                BY ONLY <2>6
            <4> QED
                BY <4>1, Zenon DEF TokenTypes
        <3> QED
            BY <2>1, <2>6, <3>2, <3>3, FoundAt, Zenon
    <2>7. ASSUME (a \in OneCharacter \/ a \in Keywords) /\ found = Found(m, a)
          PROVE  Finds(text, d, found)
        <3>1. a \in TokenTypes
            BY <2>7, Zenon DEF TokenTypes
        <3> QED
            BY <2>1, <2>4, <2>7, <3>1, FoundAt, Zenon
    <2>8. ASSUME found = string(m)
          PROVE  Finds(text, d, found)
        BY <2>1, <2>4, <2>8, StringAt, Zenon
    <2>9. ASSUME found = number(m)
          PROVE  Finds(text, d, found)
        BY <2>1, <2>4, <2>9, NumberAt, Zenon
    <2>10. ASSUME found = Found(m, "error") \/ found = Found(m, "name")
          PROVE  Finds(text, d, found)
        <3>1. "error" \in TokenTypes /\ "name" \in TokenTypes
            BY Zenon DEF TokenTypes
        <3> QED
            BY <2>1, <2>4, <2>10, <3>1, FoundAt, Zenon
    <2>11. Finds(text, d, found)
        BY <2>5, <2>6, <2>7, <2>8, <2>9, <2>10, Zenon
    <2> QED
        BY <1>1, <2>11, Zenon DEF found, lexer0
<1> QED
    BY <1>4, <1>5, Zenon

-----------------------------------------------------------------------------
(* The table of lines                                                        *)

\* The table has an entry from the first byte on.
Started(chunk) ==
    /\ chunk.lines = <<>> => Count(chunk) = 0
    /\ chunk.lines # <<>> => chunk.lines[1].offset = 0

\* Its entries are in the order of the bytes and begin at most behind the last one,
\* and each has the line of all the bytes it is for.
Registered(text, chunk) ==
    /\ Started(chunk)
    /\ chunk.lines # <<>> => Last(chunk.lines).offset <= Count(chunk)
    /\ \A i, j \in 1..Len(chunk.lines) : i <= j => chunk.lines[i].offset <= chunk.lines[j].offset
    /\ \A o \in 0..(Count(chunk) - 1), i \in 1..Len(chunk.lines) :
        Covers(chunk.lines, o, i) => chunk.lines[i].line = LineAt(text, chunk.at[o + 1])

IsCode(chunk) == chunk \in Code /\ Len(chunk.at) = Count(chunk)

\* What the fields of a chunk are.
LEMMA CodeFields ==
    ASSUME NEW chunk, IsCode(chunk)
    PROVE  /\ chunk.opcodes \in Seq(Opcodes) /\ chunk.lines \in Seq(Entry) /\ chunk.at \in Seq(Line)
           /\ Count(chunk) \in Nat /\ Len(chunk.lines) \in Nat
           /\ Len(chunk.at) = Count(chunk) /\ Len(chunk.opcodes) = Count(chunk)
           /\ \A i \in 1..Len(chunk.lines) : chunk.lines[i].offset \in Nat /\ chunk.lines[i].line \in Line
           /\ chunk.lines # <<>> => Len(chunk.lines) # 0 /\ Last(chunk.lines) = chunk.lines[Len(chunk.lines)]
<1>1. /\ chunk.opcodes \in Seq(Opcodes) /\ chunk.lines \in Seq(Entry) /\ chunk.at \in Seq(Line)
      /\ Len(chunk.at) = Count(chunk)
    BY DEF IsCode, Code
<1>2. Count(chunk) = Len(chunk.opcodes)
    BY DEF Count
<1>3. ASSUME NEW i \in 1..Len(chunk.lines)
      PROVE  chunk.lines[i].offset \in Nat /\ chunk.lines[i].line \in Line
    <2>1. chunk.lines[i] \in Entry
        BY <1>1
    <2> QED
        BY <2>1 DEF Entry
<1>4. chunk.lines # <<>> => Len(chunk.lines) # 0
    BY <1>1, EmptySeq
<1> QED
    BY <1>1, <1>2, <1>3, <1>4 DEF Last

\* In any such table decode_line ends at the entry of the byte.
LEMMA DecodeStarted ==
    ASSUME NEW chunk, IsCode(chunk), Started(chunk), NEW o \in 0..(Count(chunk) - 1)
    PROVE  \E i : Covers(chunk.lines, o, i) /\ decode_line(chunk, o) = chunk.lines[i].line
<1>1. /\ chunk.lines \in Seq(Entry) /\ Count(chunk) \in Nat
      /\ o \in Nat /\ Count(chunk) # 0
    BY CodeFields
<1>2. chunk.lines # <<>> /\ chunk.lines[1].offset = 0
    BY <1>1 DEF Started
<1>3. chunk.lines[1].offset <= o
    BY <1>1, <1>2
<1> QED
    BY <1>1, <1>2, <1>3, DecodeFinds

\* decode_line tells the line of every byte of a chunk whose table is true.
LEMMA DecodeTrue ==
    ASSUME NEW text, NEW chunk, IsCode(chunk), Registered(text, chunk),
           NEW o \in 0..(Count(chunk) - 1)
    PROVE  decode_line(chunk, o) = LineAt(text, chunk.at[o + 1])
<1>1. PICK i : Covers(chunk.lines, o, i) /\ decode_line(chunk, o) = chunk.lines[i].line
    BY DecodeStarted DEF Registered
<1>2. i \in 1..Len(chunk.lines)
    BY <1>1 DEF Covers
<1> QED
    BY <1>1, <1>2 DEF Registered

\* A new chunk has such a table, for there are no bytes in it.
LEMMA InitChunk ==
    ASSUME NEW text
    PROVE  IsCode(init_chunk) /\ Started(init_chunk) /\ Registered(text, init_chunk)
<1>1. init_chunk \in Code
    BY EmptySeq DEF init_chunk, Code
<1>2. /\ Count(init_chunk) = 0 /\ init_chunk.lines = <<>> /\ Len(init_chunk.at) = 0
      /\ Len(init_chunk.lines) = 0
    BY DEF init_chunk, Count
<1>3. IsCode(init_chunk)
    BY <1>1, <1>2 DEF IsCode
<1>4. Started(init_chunk)
    BY <1>2 DEF Started
<1>5. Registered(text, init_chunk)
    BY <1>2, <1>4 DEF Registered
<1> QED
    BY <1>3, <1>4, <1>5

\* Taking bytes back keeps the table, and its truth in a chunk that is settled.
LEMMA WithoutKeeps ==
    ASSUME NEW text, NEW chunk, IsCode(chunk), Started(chunk), NEW n \in 1..Count(chunk)
    PROVE  /\ IsCode(Without(chunk, n)) /\ Started(Without(chunk, n))
           /\ Registered(text, chunk) /\ Settled(chunk, n) => Registered(text, Without(chunk, n))
<1> DEFINE kept == Count(chunk) - n
           w == Without(chunk, n)
<1>1. /\ chunk.opcodes \in Seq(Opcodes) /\ chunk.lines \in Seq(Entry) /\ chunk.at \in Seq(Line)
      /\ Count(chunk) \in Nat /\ Len(chunk.at) = Count(chunk) /\ Len(chunk.opcodes) = Count(chunk)
    BY CodeFields
<1>2. kept \in Nat /\ kept <= Count(chunk) /\ kept \in 0..Len(chunk.opcodes) /\ kept \in 0..Len(chunk.at)
    BY <1>1
<1>3. w.opcodes = SubSeq(chunk.opcodes, 1, kept) /\ w.at = SubSeq(chunk.at, 1, kept) /\ w.lines = chunk.lines
    <2>1. chunk \in Code
        BY DEF IsCode
    <2> HIDE DEF kept
    <2> QED
        BY <2>1 DEF Without, Code, kept
<1>4. /\ w.opcodes \in Seq(Opcodes) /\ Len(w.opcodes) = kept
      /\ w.at \in Seq(Line) /\ Len(w.at) = kept /\ \A p \in 1..kept : w.at[p] = chunk.at[p]
    <2> HIDE DEF kept, w
    <2> QED
        BY <1>1, <1>2, <1>3, PrefixProps
<1>5. IsCode(w) /\ Count(w) = kept
    <2>1. chunk \in Code /\ { s \in chunk.starts : s < kept } \in {{}}
        BY DEF IsCode, Code
    <2>2. SubSeq(chunk.opcodes, 1, kept) \in Seq(Opcodes) /\ SubSeq(chunk.at, 1, kept) \in Seq(Line)
        BY <1>3, <1>4
    <2>3. w \in Code
        BY <2>1, <2>2 DEF Without, Code
    <2> HIDE DEF w
    <2> QED
        BY <1>4, <2>3 DEF IsCode, Count
<1> HIDE DEF kept, w
<1>6. Started(w)
    <2>1. w.lines = <<>> => Count(w) = 0
        BY <1>1, <1>2, <1>3, <1>5 DEF Started
    <2> QED
        BY <1>3, <2>1 DEF Started
<1>7. ASSUME Registered(text, chunk), Settled(chunk, n)
      PROVE  Registered(text, w)
    <2>1. w.lines # <<>> => Last(w.lines).offset <= Count(w)
        BY <1>3, <1>5, <1>7 DEF Settled, kept
    <2>2. ASSUME NEW o \in 0..(Count(w) - 1), NEW i \in 1..Len(w.lines), Covers(w.lines, o, i)
          PROVE  w.lines[i].line = LineAt(text, w.at[o + 1])
        <3>1. o \in 0..(Count(chunk) - 1) /\ o + 1 \in 1..kept
            BY <1>1, <1>2, <1>5
        <3>2. chunk.lines[i].line = LineAt(text, chunk.at[o + 1])
            BY <1>3, <1>7, <2>2, <3>1 DEF Registered
        <3> QED
            BY <1>3, <1>4, <3>1, <3>2
    <2> QED
        BY <1>3, <1>6, <1>7, <2>1, <2>2 DEF Registered
<1> QED
    BY <1>5, <1>6, <1>7 DEF w

\* Writing a byte with the line of its token keeps the table, and its truth.
LEMMA WriteKeeps ==
    ASSUME NEW text, NEW chunk, IsCode(chunk), Started(chunk),
           NEW byte \in Opcodes, NEW token, token.line \in Line, token.start \in Line,
           token.line = LineAt(text, token.start)
    PROVE  /\ IsCode(write_byte(chunk, byte, token)) /\ Started(write_byte(chunk, byte, token))
           /\ Registered(text, chunk) => Registered(text, write_byte(chunk, byte, token))
<1> DEFINE n == Count(chunk)
           N == Len(chunk.lines)
           more == [chunk EXCEPT !.opcodes = Append(@, byte), !.at = Append(@, token.start)]
           w == write_byte(chunk, byte, token)
<1>1. /\ chunk.opcodes \in Seq(Opcodes) /\ chunk.lines \in Seq(Entry) /\ chunk.at \in Seq(Line)
      /\ n \in Nat /\ Len(chunk.at) = n /\ Len(chunk.opcodes) = n /\ N \in Nat
      /\ \A i \in 1..N : chunk.lines[i].offset \in Nat
      /\ chunk.lines # <<>> => N # 0 /\ Last(chunk.lines) = chunk.lines[N]
      /\ chunk.lines = <<>> => N = 0
    BY CodeFields
<1>2. chunk \in Code
    BY DEF IsCode
<1>3. /\ Append(chunk.opcodes, byte) \in Seq(Opcodes) /\ Len(Append(chunk.opcodes, byte)) = n + 1
      /\ Append(chunk.at, token.start) \in Seq(Line) /\ Len(Append(chunk.at, token.start)) = n + 1
    <2> HIDE DEF n
    <2> QED
        BY <1>1
<1>7. /\ more \in Code
      /\ more.opcodes = Append(chunk.opcodes, byte) /\ more.lines = chunk.lines
      /\ more.at = Append(chunk.at, token.start)
    BY <1>2, <1>3 DEF Code
<1>4. \A o \in 1..n : Append(chunk.at, token.start)[o] = chunk.at[o]
    <2> HIDE DEF n
    <2> QED
        BY <1>1
<1>5. Append(chunk.at, token.start)[n + 1] = token.start
    <2> HIDE DEF n
    <2> QED
        BY <1>1
<1> HIDE DEF n, N
<1>6. ASSUME chunk.lines # <<>>, Last(chunk.lines).line = token.line
      PROVE  IsCode(w) /\ Started(w) /\ (Registered(text, chunk) => Registered(text, w))
    <2>1. w = more
        <3> HIDE DEF more
        <3>1. w = write_line(more, token.line)
            BY DEF write_byte, more
        <3> QED
            BY <1>6, <1>7, <3>1 DEF write_line
    <2>2. w.opcodes = Append(chunk.opcodes, byte) /\ w.lines = chunk.lines /\ w.at = Append(chunk.at, token.start)
        BY <1>7, <2>1
    <2>3. w \in Code
        <3> HIDE DEF w, more
        <3> QED
            BY <1>7, <2>1
    <2> HIDE DEF w
    <2>4. IsCode(w) /\ Count(w) = n + 1
        BY <1>3, <2>2, <2>3 DEF IsCode, Count
    <2>5. Started(w)
        BY <1>6, <2>2 DEF Started
    <2>6. SUFFICES ASSUME Registered(text, chunk)
                   PROVE  Registered(text, w)
        BY <2>4, <2>5
    <2>8. chunk.lines[N].offset <= n
        BY <1>1, <1>6, <2>6 DEF Registered, n
    <2>9. w.lines # <<>> => Last(w.lines).offset <= Count(w)
        <3>1. chunk.lines[N].offset <= n + 1
            BY <1>1, <1>6, <2>8
        <3> QED
            BY <1>1, <2>2, <2>4, <3>1
    <2>7. ASSUME NEW o \in 0..(Count(w) - 1), NEW i \in 1..Len(w.lines), Covers(w.lines, o, i)
          PROVE  w.lines[i].line = LineAt(text, w.at[o + 1])
        <3>1. o \in Nat /\ (o \in 0..(n - 1) \/ o = n) /\ i \in 1..N
            BY <1>1, <2>2, <2>4 DEF N
        <3>2. CASE o \in 0..(n - 1)
            <4>1. chunk.lines[i].line = LineAt(text, chunk.at[o + 1])
                BY <2>2, <2>6, <2>7, <3>1, <3>2 DEF Registered, n, N
            <4>2. o + 1 \in 1..n
                BY <1>1, <3>2
            <4> QED
                BY <1>4, <2>2, <4>1, <4>2
        <3>3. CASE o = n
            <4>1. i < N => n < chunk.lines[i + 1].offset
                BY <2>2, <2>7, <3>3 DEF Covers, N
            <4>2. i < N => chunk.lines[i + 1].offset <= chunk.lines[N].offset
                <5>1. i < N => i + 1 \in 1..N /\ N \in 1..N /\ i + 1 <= N
                    BY <1>1, <3>1
                <5> QED
                    BY <2>6, <5>1 DEF Registered, N
            <4>3. i < N => i + 1 \in 1..N /\ N \in 1..N
                BY <1>1, <3>1
            <4>4. i = N
                BY <1>1, <2>8, <3>1, <4>1, <4>2, <4>3
            <4> QED
                BY <1>1, <1>5, <1>6, <2>2, <3>3, <4>4
        <3> QED
            BY <3>1, <3>2, <3>3
    <2> QED
        BY <1>6, <2>2, <2>4, <2>5, <2>6, <2>7, <2>9 DEF Registered
<1>8. ASSUME ~(chunk.lines # <<>> /\ Last(chunk.lines).line = token.line)
      PROVE  IsCode(w) /\ Started(w) /\ (Registered(text, chunk) => Registered(text, w))
    <2> DEFINE entry == [line |-> token.line, offset |-> n]
               lines == Append(chunk.lines, entry)
    <2>1. w = [more EXCEPT !.lines = lines]
        <3>1. Count(more) - 1 = n
            <4> HIDE DEF more
            <4> QED
                BY <1>1, <1>3, <1>7 DEF Count
        <3> HIDE DEF more
        <3>2. w = write_line(more, token.line)
            BY DEF write_byte, more
        <3>3. ~(more.lines # <<>> /\ Last(more.lines).line = token.line)
            BY <1>7, <1>8
        <3>4. w = [more EXCEPT !.lines = Append(@, [line |-> token.line, offset |-> Count(more) - 1])]
            BY <3>2, <3>3, Zenon DEF write_line
        <3> QED
            BY <1>7, <3>1, <3>4
    <2>2. entry \in Entry /\ entry.offset = n /\ entry.line = token.line
        BY <1>1 DEF Entry
    <2> HIDE DEF more, w, entry
    <2>3. /\ lines \in Seq(Entry) /\ Len(lines) = N + 1 /\ lines[N + 1] = entry
          /\ \A i \in 1..N : lines[i] = chunk.lines[i]
          /\ lines # <<>> /\ Last(lines) = entry
        <3>1. lines \in Seq(Entry) /\ Len(lines) = N + 1
            BY <1>1, <2>2 DEF N
        <3>2. lines[N + 1] = entry
            BY <1>1, <2>2 DEF N
        <3>3. \A i \in 1..N : lines[i] = chunk.lines[i]
            BY <1>1, <2>2 DEF N
        <3>4. Last(lines) = entry
            <4> HIDE DEF lines
            <4> QED
                BY <3>1, <3>2 DEF Last
        <3>5. lines # <<>>
            <4> HIDE DEF lines
            <4> QED
                BY <1>1, <3>1, EmptySeq
        <3> HIDE DEF lines
        <3> QED
            BY <3>1, <3>2, <3>3, <3>4, <3>5
    <2> HIDE DEF lines
    <2>4. w \in Code /\ w.lines = lines
        BY <1>7, <2>1, <2>3 DEF Code
    <2>5. w.opcodes = more.opcodes /\ w.at = more.at
        BY <1>7, <2>1 DEF Code
    <2>6. IsCode(w) /\ Count(w) = n + 1
        BY <1>3, <1>7, <2>4, <2>5 DEF IsCode, Count
    <2>7. /\ N # 0 => /\ chunk.lines[1].offset = 0
                      /\ 1 \in 1..N /\ N \in 1..N
          /\ N = 0 => n = 0
        BY <1>1 DEF Started, n
    <2>9. lines[1].offset = 0
        <3>1. CASE N = 0
            BY <2>2, <2>3, <2>7, <3>1
        <3>2. CASE N # 0
            BY <2>3, <2>7, <3>2
        <3> QED
            BY <3>1, <3>2
    <2>14. Started(w)
        BY <2>3, <2>4, <2>9 DEF Started
    <2>15. SUFFICES ASSUME Registered(text, chunk)
                    PROVE  Registered(text, w)
        BY <2>6, <2>14
    <2>16. N # 0 => chunk.lines[N].offset <= n
        BY <1>1, <2>15 DEF Registered, n
    <2>8. \A i, j \in 1..(N + 1) : i <= j => lines[i].offset <= lines[j].offset
        <3> SUFFICES ASSUME NEW i \in 1..(N + 1), NEW j \in 1..(N + 1), i <= j
                     PROVE  lines[i].offset <= lines[j].offset
            OBVIOUS
        <3>1. CASE j = N + 1
            <4>1. CASE i = N + 1
                BY <1>1, <2>2, <2>3, <3>1, <4>1
            <4>2. CASE i \in 1..N
                <5>1. chunk.lines[i].offset <= chunk.lines[N].offset
                    BY <1>1, <2>7, <2>15, <4>2 DEF Registered, N
                <5>2. N # 0 /\ chunk.lines[i].offset \in Nat /\ chunk.lines[N].offset \in Nat
                    BY <1>1, <4>2
                <5>3. chunk.lines[i].offset <= n
                    BY <1>1, <2>16, <5>1, <5>2
                <5> QED
                    BY <2>2, <2>3, <3>1, <4>2, <5>3
            <4> QED
                BY <1>1, <4>1, <4>2
        <3>2. CASE j \in 1..N
            <4>1. i \in 1..N
                BY <1>1, <3>2
            <4>2. chunk.lines[i].offset <= chunk.lines[j].offset
                BY <2>15, <3>2, <4>1 DEF Registered, N
            <4> QED
                BY <2>3, <3>2, <4>1, <4>2
        <3> QED
            BY <1>1, <3>1, <3>2
    <2>10. Last(lines).offset <= n + 1
        BY <1>1, <2>2, <2>3
    <2>11. ASSUME NEW o \in 0..n, NEW i \in 1..(N + 1), Covers(lines, o, i)
           PROVE  lines[i].line = LineAt(text, w.at[o + 1])
        <3>1. CASE o \in 0..(n - 1)
            <4>1. o < n /\ ~(n <= o) /\ o \in 0..(Count(chunk) - 1)
                BY <1>1, <3>1 DEF n
            <4>2. i # N + 1
                BY <2>2, <2>3, <2>11, <4>1 DEF Covers
            <4>3. i \in 1..N
                BY <1>1, <4>2
            <4>4. Covers(chunk.lines, o, i)
                <5>1. chunk.lines[i].offset <= o
                    BY <2>3, <2>11, <4>3 DEF Covers
                <5>2. i < N => o < chunk.lines[i + 1].offset
                    <6>1. i < N => i < N + 1 /\ i + 1 \in 1..N
                        BY <1>1, <4>3
                    <6> QED
                        BY <2>3, <2>11, <6>1 DEF Covers
                <5> QED
                    BY <4>3, <5>1, <5>2 DEF Covers, N
            <4>5. chunk.lines[i].line = LineAt(text, chunk.at[o + 1])
                BY <2>15, <4>1, <4>3, <4>4 DEF Registered, N
            <4>6. o + 1 \in 1..n
                BY <1>1, <3>1
            <4> QED
                BY <1>4, <1>7, <2>3, <2>5, <4>3, <4>5, <4>6
        <3>2. CASE o = n
            <4>1. i < N + 1 => lines[i + 1].offset <= lines[N + 1].offset
                <5>1. i < N + 1 => i + 1 \in 1..(N + 1) /\ N + 1 \in 1..(N + 1) /\ i + 1 <= N + 1
                    BY <1>1
                <5> QED
                    BY <2>8, <5>1
            <4>2. i < N + 1 => n < lines[i + 1].offset
                BY <2>3, <2>11, <3>2 DEF Covers
            <4>3. i < N + 1 => lines[i + 1].offset \in Nat
                <5>1. i < N + 1 => i + 1 \in 1..(N + 1)
                    BY <1>1
                <5>2. \A k \in 1..(N + 1) : lines[k] \in Entry
                    BY <2>3
                <5> QED
                    BY <5>1, <5>2 DEF Entry
            <4>4. i = N + 1
                BY <1>1, <2>2, <2>3, <4>1, <4>2, <4>3
            <4> QED
                BY <1>5, <1>7, <2>2, <2>3, <2>5, <3>2, <4>4
        <3> QED
            BY <1>1, <3>1, <3>2
    <2>12. (n + 1) - 1 = n
        BY <1>1
    <2> QED
        BY <2>3, <2>4, <2>6, <2>8, <2>10, <2>11, <2>12, <2>14 DEF Registered
<1> QED
    BY <1>6, <1>8

-----------------------------------------------------------------------------
(* The invariant                                                             *)

\* The lexer has counted the lines up to where it is, and the tokens' lines are
\* those where they begin.
ReadTrue ==
    /\ lexer.text \in Texts
    /\ \E c, s \in Ends(lexer.text) : lexer = At(lexer.text, c, s)
    /\ \A token \in {current, previous} :
        /\ token = NoToken \/ IsToken(lexer.text, token)
        /\ token.line = LineAt(lexer.text, token.start)

\* Every chunk's table has an entry from the first byte on, and tells the lines
\* of its bytes unless one was left behind.
WrittenTrue ==
    /\ chunks \in Seq(Code) /\ chunks # <<>>
    /\ \A k \in 1..Len(chunks) :
        /\ IsCode(chunks[k]) /\ Started(chunks[k])
        /\ k \notin left => Registered(lexer.text, chunks[k])
    /\ left \subseteq 1..Len(chunks)

IInv == ReadTrue /\ WrittenTrue

\* Reading keeps the text and what is written, and the token that is found is
\* the text's, on its line, behind the last one.
LEMMA ReadKeeps ==
    ASSUME ReadTrue, Read
    PROVE  /\ lexer'.text = lexer.text
           /\ \E c, s \in Ends(lexer.text) : lexer' = At(lexer.text, c, s)
           /\ IsToken(lexer.text, current')
           /\ current'.line = LineAt(lexer.text, current'.start)
           /\ \/ current'.type = "eof"
              \/ lexer.current <= current'.start /\ current'.start < lexer'.current
<1> DEFINE text == lexer.text
           found == next_token(lexer)
<1>1. lexer' = found.lexer /\ current' = found.token
    BY DEF Read
<1>2. text \in Seq(STRING)
    BY TextAssumption DEF ReadTrue
<1>3. PICK c, s \in Ends(text) : lexer = At(text, c, s)
    BY DEF ReadTrue
<1>4. lexer.current = c
    BY <1>3 DEF At
<1> HIDE DEF text
<1>5. PICK d \in Ends(text) : c <= d /\ Finds(text, d, found)
    <2> HIDE DEF found
    <2>1. \E d \in Ends(text) : c <= d /\ Finds(text, d, next_token(At(text, c, s)))
        BY <1>2, <1>3, NextTokenAt
    <2> QED
        BY <1>3, <2>1 DEF found
<1> HIDE DEF found
<1>6. /\ IsToken(text, current') /\ current'.start = d /\ current'.line = LineAt(text, d)
      /\ Behind(text, d, lexer') \/ (current'.type = "eof" /\ lexer' = At(text, d, d))
    BY <1>1, <1>5, Zenon DEF Finds
<1>7. CASE Behind(text, d, lexer')
    <2>1. PICK e \in Ends(text) : d < e /\ lexer' = At(text, e, d)
        BY <1>7 DEF Behind
    <2>2. lexer'.text = text /\ lexer'.current = e
        BY <2>1 DEF At
    <2>3. lexer.current <= current'.start /\ current'.start < lexer'.current
        BY <1>4, <1>5, <1>6, <2>1, <2>2
    <2> QED
        BY <1>6, <2>1, <2>2, <2>3, Zenon DEF text
<1>8. CASE current'.type = "eof" /\ lexer' = At(text, d, d)
    <2>1. lexer'.text = text
        BY <1>8 DEF At
    <2> QED
        BY <1>6, <1>8, <2>1, Zenon DEF text
<1> QED
    BY <1>6, <1>7, <1>8, Zenon

\* The tokens have lines and places that can be written.
LEMMA TokenFields ==
    ASSUME ReadTrue, NEW token \in {current, previous}
    PROVE  token.line \in Line /\ token.start \in Line
<1>1. ASSUME token = NoToken
      PROVE  token.line \in Line /\ token.start \in Line
    <2>1. token.line = 1 /\ token.start = 1
        BY <1>1, Zenon DEF NoToken
    <2> QED
        BY ONLY <2>1 DEF Line
<1>2. ASSUME IsToken(lexer.text, token)
      PROVE  token.line \in Line /\ token.start \in Line
    <2>1. token.line \in Line /\ token.start \in 1..(Len(lexer.text) + 1)
        BY <1>2, Zenon DEF IsToken
    <2> QED
        BY <2>1 DEF Line
<1> QED
    BY <1>1, <1>2, Zenon DEF ReadTrue

\* At the beginning of a text nothing is read or written.
LEMMA InitIInv == Init => IInv
<1> SUFFICES ASSUME Init PROVE IInv
    OBVIOUS
<1>1. PICK text \in Texts : lexer = init_lexer(text)
    BY DEF Init
<1>2. text \in Seq(STRING) /\ 1 \in Ends(text) /\ LineAt(text, 1) = 1
    <2>1. text \in Seq(STRING)
        BY TextAssumption
    <2>2. 1 \in Ends(text)
        BY <2>1 DEF Ends
    <2> QED
        BY <2>1, <2>2, LineAtNext
<1>3. lexer = At(text, 1, 1) /\ lexer.text = text
    BY <1>1, <1>2 DEF init_lexer, At
<1>4. current = NoToken /\ previous = NoToken /\ NoToken.line = 1 /\ NoToken.start = 1
    BY Zenon DEF Init, NoToken
<1>5. ReadTrue
    BY <1>2, <1>3, <1>4, Zenon DEF ReadTrue
<1>6. IsCode(init_chunk) /\ Started(init_chunk) /\ Registered(text, init_chunk)
    BY InitChunk
<1>7. init_chunk \in Code
    BY <1>6 DEF IsCode
<1>8. chunks = <<init_chunk>> /\ left = {}
    BY Zenon DEF Init
<1>9. chunks \in Seq(Code) /\ chunks # <<>> /\ Len(chunks) = 1 /\ chunks[1] = init_chunk
    BY ONLY <1>7, <1>8
<1>10. WrittenTrue
    BY ONLY <1>3, <1>6, <1>8, <1>9 DEF WrittenTrue
<1> QED
    BY <1>5, <1>10, Zenon DEF IInv

\* What replaces the chunk of the innermost function keeps the others.
LEMMA SetHereKeeps ==
    ASSUME WrittenTrue, NEW chunk, IsCode(chunk), Started(chunk), SetHere(chunk), UNCHANGED lexer,
           \/ left' = left /\ (Registered(lexer.text, Here) => Registered(lexer.text, chunk))
           \/ left' = left \cup {Len(chunks)}
    PROVE  WrittenTrue'
<1>1. chunks \in Seq(Code) /\ Len(chunks) \in Nat /\ Len(chunks) # 0
    BY EmptySeq DEF WrittenTrue
<1>2. chunk \in Code
    BY DEF IsCode
<1>3. chunks' = [chunks EXCEPT ![Len(chunks)] = chunk]
    BY DEF SetHere
<1>4. /\ chunks' \in Seq(Code) /\ Len(chunks') = Len(chunks)
      /\ \A k \in 1..Len(chunks) : chunks'[k] = IF k = Len(chunks) THEN chunk ELSE chunks[k]
    BY ONLY <1>1, <1>2, <1>3
<1>5. chunks' # <<>>
    BY <1>1, <1>4, EmptySeq
<1>6. ASSUME NEW k \in 1..Len(chunks)
      PROVE  IsCode(chunks'[k]) /\ Started(chunks'[k])
    BY <1>4 DEF WrittenTrue
<1>7. ASSUME NEW k \in 1..Len(chunks), k \notin left'
      PROVE  Registered(lexer'.text, chunks'[k])
    <2>1. Registered(lexer.text, chunks[k])
        BY <1>7 DEF WrittenTrue
    <2>2. CASE k = Len(chunks)
        <3>1. Here = chunks[k]
            BY <2>2 DEF Here, Last
        <3>2. Registered(lexer.text, chunk)
            BY <1>7, <2>1, <2>2, <3>1
        <3> QED
            BY <1>4, <2>2, <3>2
    <2>3. CASE k # Len(chunks)
        BY <1>4, <2>1, <2>3
    <2> QED
        BY <2>2, <2>3
<1>8. left' \subseteq 1..Len(chunks)
    <2>1. left \subseteq 1..Len(chunks) /\ Len(chunks) \in 1..Len(chunks)
        BY <1>1 DEF WrittenTrue
    <2>2. left' \subseteq left \cup {Len(chunks)}
        OBVIOUS
    <2> QED
        BY ONLY <2>1, <2>2
<1> QED
    BY <1>4, <1>5, <1>6, <1>7, <1>8 DEF WrittenTrue

\* Every step keeps the invariant.
LEMMA StepIInv == IInv /\ [Next]_vars => IInv'
<1> SUFFICES ASSUME ReadTrue, WrittenTrue, [Next]_vars
             PROVE  ReadTrue' /\ WrittenTrue'
    BY Zenon DEF IInv
<1>1. chunks \in Seq(Code) /\ Len(chunks) \in Nat \ {0} /\ Here = chunks[Len(chunks)]
    BY EmptySeq DEF WrittenTrue, Here, Last
<1>2. IsCode(Here) /\ Started(Here)
    BY <1>1 DEF WrittenTrue
<1>3. ASSUME UNCHANGED <<lexer, current, previous>>
      PROVE  ReadTrue'
    BY <1>3, Zenon DEF ReadTrue
<1>4. ASSUME Read, previous' \in {current, previous}, UNCHANGED <<chunks, left>>
      PROVE  ReadTrue' /\ WrittenTrue'
    <2>1. /\ lexer'.text = lexer.text
          /\ \E c, s \in Ends(lexer.text) : lexer' = At(lexer.text, c, s)
          /\ IsToken(lexer.text, current')
          /\ current'.line = LineAt(lexer.text, current'.start)
        BY <1>4, ReadKeeps, Zenon
    <2>2. WrittenTrue'
        BY <1>4, <2>1 DEF WrittenTrue
    <2>3. ASSUME NEW token \in {current', previous'}
          PROVE  /\ token = NoToken \/ IsToken(lexer'.text, token)
                 /\ token.line = LineAt(lexer'.text, token.start)
        BY <1>4, <2>1, <2>3, Zenon DEF ReadTrue
    <2>4. lexer'.text \in Texts
        BY <2>1, Zenon DEF ReadTrue
    <2>5. ReadTrue'
        BY <2>1, <2>3, <2>4, Zenon DEF ReadTrue
    <2> QED
        BY <2>2, <2>5, Zenon
<1>5. ASSUME Advance PROVE ReadTrue' /\ WrittenTrue'
    BY <1>4, <1>5, Zenon DEF Advance
<1>6. ASSUME ReadOver PROVE ReadTrue' /\ WrittenTrue'
    BY <1>4, <1>6, Zenon DEF ReadOver
<1>7. ASSUME NEW byte \in Opcodes, Write(byte)
      PROVE  ReadTrue' /\ WrittenTrue'
    <2>1. /\ SetHere(write_byte(Here, byte, previous)) /\ left' = left
          /\ UNCHANGED <<lexer, current, previous>>
        BY <1>7, Zenon DEF Write
    <2>2. /\ previous.line \in Line /\ previous.start \in Line
          /\ previous.line = LineAt(lexer.text, previous.start)
        BY TokenFields, Zenon DEF ReadTrue
    <2>3. /\ IsCode(write_byte(Here, byte, previous)) /\ Started(write_byte(Here, byte, previous))
          /\ Registered(lexer.text, Here) => Registered(lexer.text, write_byte(Here, byte, previous))
        BY <1>2, <2>2, WriteKeeps
    <2>4. WrittenTrue'
        BY <2>1, <2>3, SetHereKeeps
    <2> QED
        BY <1>3, <2>1, <2>4, Zenon
<1>8. ASSUME NEW n \in 1..MaxBytes, TakeBack(n)
      PROVE  ReadTrue' /\ WrittenTrue'
    <2>1. /\ n <= Count(Here) /\ SetHere(Without(Here, n))
          /\ left' = IF Settled(Here, n) THEN left ELSE left \cup {Len(chunks)}
          /\ UNCHANGED <<lexer, current, previous>>
        BY <1>8, Zenon DEF TakeBack
    <2>2. n \in 1..Count(Here)
        BY <1>2, <2>1, CodeFields
    <2>3. /\ IsCode(Without(Here, n)) /\ Started(Without(Here, n))
          /\ Registered(lexer.text, Here) /\ Settled(Here, n) => Registered(lexer.text, Without(Here, n))
        BY <1>2, <2>2, WithoutKeeps
    <2>4. WrittenTrue'
        BY <2>1, <2>3, SetHereKeeps
    <2> QED
        BY <1>3, <2>1, <2>4, Zenon
<1>9. ASSUME Function PROVE ReadTrue' /\ WrittenTrue'
    <2>1. chunks' = Append(chunks, init_chunk) /\ left' = left /\ UNCHANGED <<lexer, current, previous>>
        BY <1>9, Zenon DEF Function
    <2>2. IsCode(init_chunk) /\ Started(init_chunk) /\ Registered(lexer.text, init_chunk)
        BY InitChunk
    <2>3. init_chunk \in Code
        BY <2>2 DEF IsCode
    <2>4. /\ chunks' \in Seq(Code) /\ Len(chunks') = Len(chunks) + 1
          /\ \A k \in 1..Len(chunks') : chunks'[k] = IF k = Len(chunks) + 1 THEN init_chunk ELSE chunks[k]
        BY ONLY <1>1, <2>1, <2>3
    <2>5. chunks' # <<>>
        BY <1>1, <2>4, EmptySeq
    <2>6. ASSUME NEW k \in 1..Len(chunks')
          PROVE  /\ IsCode(chunks'[k]) /\ Started(chunks'[k])
                 /\ k \notin left' => Registered(lexer'.text, chunks'[k])
        <3>1. CASE k = Len(chunks) + 1
            BY <2>1, <2>2, <2>4, <3>1
        <3>2. CASE k \in 1..Len(chunks)
            <4>1. chunks'[k] = chunks[k]
                BY <1>1, <2>4, <3>2
            <4> QED
                BY <2>1, <3>2, <4>1 DEF WrittenTrue
        <3> QED
            BY <1>1, <2>4, <3>1, <3>2
    <2>7. left' \subseteq 1..Len(chunks')
        BY <1>1, <2>1, <2>4 DEF WrittenTrue
    <2>8. WrittenTrue'
        BY <2>4, <2>5, <2>6, <2>7 DEF WrittenTrue
    <2> QED
        BY <1>3, <2>1, <2>8, Zenon
<1>10. ASSUME EndFunction PROVE ReadTrue' /\ WrittenTrue'
    <2>1. /\ chunks' = Front(chunks) /\ left' = left \ {Len(chunks)} /\ Len(chunks) > 1
          /\ UNCHANGED <<lexer, current, previous>>
        BY <1>10, Zenon DEF EndFunction
    <2>2. /\ chunks' \in Seq(Code) /\ Len(chunks') = Len(chunks) - 1
          /\ \A k \in 1..(Len(chunks) - 1) : chunks'[k] = chunks[k]
        <3>1. chunks # <<>>
            BY DEF WrittenTrue
        <3> QED
            BY <1>1, <2>1, <3>1, FrontProps
    <2>3. chunks' # <<>>
        <3>1. Len(chunks') # 0
            BY <1>1, <2>1, <2>2
        <3> QED
            BY <3>1, EmptySeq
    <2>4. ASSUME NEW k \in 1..Len(chunks')
          PROVE  /\ IsCode(chunks'[k]) /\ Started(chunks'[k])
                 /\ k \notin left' => Registered(lexer'.text, chunks'[k])
        <3>1. k \in 1..Len(chunks) /\ k # Len(chunks) /\ chunks'[k] = chunks[k]
            BY <1>1, <2>2
        <3>2. k \notin left' => k \notin left
            BY <2>1, <3>1
        <3> QED
            BY <2>1, <3>1, <3>2 DEF WrittenTrue
    <2>5. left' \subseteq 1..Len(chunks')
        <3>1. \A k \in 1..Len(chunks) : k # Len(chunks) => k \in 1..(Len(chunks) - 1)
            BY <1>1
        <3> QED
            BY <2>1, <2>2, <3>1 DEF WrittenTrue
    <2>6. WrittenTrue'
        BY <2>2, <2>3, <2>4, <2>5 DEF WrittenTrue
    <2> QED
        BY <1>3, <2>1, <2>6, Zenon
<1>11. ASSUME UNCHANGED vars PROVE ReadTrue' /\ WrittenTrue'
    BY <1>3, <1>11 DEF vars, WrittenTrue
<1> QED
    BY <1>5, <1>6, <1>7, <1>8, <1>9, <1>10, <1>11, Zenon DEF Next

\* The invariant tells the types.
LEMMA IInvTypeOK == IInv => TypeOK
<1> SUFFICES ASSUME ReadTrue, WrittenTrue PROVE TypeOK
    BY Zenon DEF IInv
<1>1. PICK c, s \in Ends(lexer.text) : lexer = At(lexer.text, c, s)
    BY DEF ReadTrue
<1>2. lexer.current = c /\ lexer.start = s /\ lexer.line = LineAt(lexer.text, c)
    BY <1>1 DEF At
<1>3. lexer.line \in Line
    <2>1. c \in Nat \ {0}
        BY DEF Ends
    <2> QED
        BY <1>2, <2>1, LineAtNext
<1>4. {lexer.current, lexer.start} \subseteq 1..(Len(lexer.text) + 1)
    BY <1>2 DEF Ends
<1>5. chunks \in Seq(Code) /\ chunks # <<>> /\ DOMAIN chunks = 1..Len(chunks)
    BY DEF WrittenTrue
<1>6. \A k \in DOMAIN chunks : Len(chunks[k].at) = Count(chunks[k])
    BY <1>5 DEF WrittenTrue, IsCode
<1>7. /\ lexer.text \in Texts
      /\ \A token \in {current, previous} : token = NoToken \/ IsToken(lexer.text, token)
    BY Zenon DEF ReadTrue
<1>8. left \subseteq DOMAIN chunks
    BY <1>5 DEF WrittenTrue
<1> QED
    BY <1>3, <1>4, <1>5, <1>6, <1>7, <1>8, Zenon DEF TypeOK

\* Lines: the type invariant.
THEOREM LinesTypeCorrect == Spec => []TypeOK
<1>1. Init => IInv
    BY InitIInv
<1>2. IInv /\ [Next]_vars => IInv'
    BY StepIInv
<1>3. IInv => TypeOK
    BY IInvTypeOK
<1> QED
    BY <1>1, <1>2, <1>3, PTL DEF Spec

\* Whatever the text, its comments, its unfinished strings and the characters
\* that begin no token, the line of every token is that where it begins.
THEOREM LinesTokensTrue == Spec => []TokensTrue
<1>1. Init => IInv
    BY InitIInv
<1>2. IInv /\ [Next]_vars => IInv'
    BY StepIInv
<1>3. IInv => TokensTrue
    BY Zenon DEF IInv, ReadTrue, TokensTrue
<1> QED
    BY <1>1, <1>2, <1>3, PTL DEF Spec

\* Each token begins behind the one before and ends behind its beginning, until
\* the end of the text.
THEOREM LinesTokensAdvance == Spec => TokensAdvance
<1> DEFINE Forward == lexer' # lexer => \/ current'.type = "eof"
                                        \/ lexer.current <= current'.start /\ current'.start < lexer'.current
<1>1. Init => IInv
    BY InitIInv
<1>2. IInv /\ [Next]_vars => IInv'
    BY StepIInv
<1>3. IInv /\ [Next]_vars => [Forward]_vars
    <2> SUFFICES ASSUME IInv, Next PROVE Forward
        BY Zenon
    <2>1. ASSUME Read PROVE Forward
        BY <2>1, ReadKeeps, Zenon DEF IInv
    <2>2. ASSUME UNCHANGED lexer PROVE Forward
        BY <2>2, Zenon
    <2> HIDE DEF Forward
    <2>3. Read \/ UNCHANGED lexer
        BY Zenon DEF Next, Advance, ReadOver, Write, TakeBack, Function, EndFunction
    <2> QED
        BY <2>1, <2>2, <2>3, Zenon
<1> QED
    BY <1>1, <1>2, <1>3, PTL DEF Spec, TokensAdvance

\* The table of lines of every chunk that has left none behind tells the line of
\* each of its bytes.
THEOREM LinesDecodeTrue == Spec => []LinesTrue
<1>1. Init => IInv
    BY InitIInv
<1>2. IInv /\ [Next]_vars => IInv'
    BY StepIInv
<1>3. IInv => LinesTrue
    <2> SUFFICES ASSUME WrittenTrue, NEW k \in DOMAIN chunks \ left,
                        NEW o \in 0..(Count(chunks[k]) - 1)
                 PROVE  decode_line(chunks[k], o) = LineAt(lexer.text, chunks[k].at[o + 1])
        BY Zenon DEF IInv, LinesTrue
    <2>1. k \in 1..Len(chunks)
        BY DEF WrittenTrue
    <2>2. IsCode(chunks[k]) /\ Registered(lexer.text, chunks[k])
        BY <2>1 DEF WrittenTrue
    <2> QED
        BY <2>2, DecodeTrue
<1> QED
    BY <1>1, <1>2, <1>3, PTL DEF Spec

\* And in every chunk the loop of decode_line ends, at an entry that begins at or
\* before the byte while the next does not.
THEOREM LinesDecodeEnds == Spec => []DecodeEnds
<1>1. Init => IInv
    BY InitIInv
<1>2. IInv /\ [Next]_vars => IInv'
    BY StepIInv
<1>3. IInv => DecodeEnds
    <2> SUFFICES ASSUME WrittenTrue, NEW k \in DOMAIN chunks, NEW o \in 0..(Count(chunks[k]) - 1)
                 PROVE  \E i \in DOMAIN chunks[k].lines :
                            /\ chunks[k].lines[i].offset <= o
                            /\ i < Len(chunks[k].lines) => o < chunks[k].lines[i + 1].offset
                            /\ decode_line(chunks[k], o) = chunks[k].lines[i].line
        BY Zenon DEF IInv, DecodeEnds
    <2>1. k \in 1..Len(chunks)
        BY DEF WrittenTrue
    <2>2. IsCode(chunks[k]) /\ Started(chunks[k])
        BY <2>1 DEF WrittenTrue
    <2>3. PICK i : Covers(chunks[k].lines, o, i) /\ decode_line(chunks[k], o) = chunks[k].lines[i].line
        BY <2>2, DecodeStarted
    <2>4. DOMAIN chunks[k].lines = 1..Len(chunks[k].lines)
        BY <2>2, CodeFields
    <2> QED
        BY <2>3, <2>4 DEF Covers
<1> QED
    BY <1>1, <1>2, <1>3, PTL DEF Spec

=============================================================================
