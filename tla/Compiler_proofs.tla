---------------------------- MODULE Compiler_proofs ----------------------------
(***************************************************************************)
(* Proofs about Compiler, for any names, limits, bounds and programs: with *)
(* blocks and `continue' where they are compiled rightly, the compiler and *)
(* the code it emits agree on slots, names, captures and heights.          *)
(***************************************************************************)
EXTENDS Compiler, Lists_proofs, TLAPS


-----------------------------------------------------------------------------
\* The inductive invariant

Statements  == {"toplevel", "function", "if", "else", "do", "while"}
Expressions == {"let", "statement", "operand", "and", "assign", "store", "lambda"}
Blocks      == {"do", "if", "else", "while"}
Bodies      == {"function", "lambda"}

Kinds   == {"get", "index", "operand", "opcode"}
Endings == {"save_x"} \cup Kinds
Whole   == { <<a>> : a \in Kinds }
Tails   == {<<>>} \cup Whole \cup { <<a, "save_x">> : a \in Kinds }

Context == [locals : Seq(Local), upvalues : Seq(Upvalue), scope_depth : Nat, tail : Tails]
Binding == [name : Name \cup {""}, slot : Nat, captured : BOOLEAN]
Frame   == [height : Int, scope : Seq(Binding)]

Construct ==
    [what : Statements \cup Expressions, loop : Nat \cup {NoLoop}, level : Nat, depth : Nat,
     count : Nat, height : Int, scope : Seq(Binding)]

Typed ==
    /\ contexts \in Seq(Context) /\ runtime \in Seq(Frame) /\ parse \in Seq(Construct)
    /\ Len(contexts) = Len(runtime) /\ Len(parse) \in 1..MaxNesting
    /\ \A k \in Levels : Len(contexts[k].locals) \in 1..LOCALS_LIMIT
    /\ inner_loop_depth \in Nat \cup {NoLoop}
    /\ {compiled, had_error, agrees, damaged} \subseteq BOOLEAN

\* The first c locals that are initialised are the variables of a scope, in its
\* order and in their slots; those that were captured are marked.
Matched(l, c, s) ==
    /\ \A j \in DOMAIN s :
        /\ s[j].slot \in 1..(c - 1)
        /\ l[s[j].slot + 1].name = s[j].name
        /\ l[s[j].slot + 1].depth # Uninit
        /\ s[j].captured => l[s[j].slot + 1].is_captured
    /\ \A i, j \in DOMAIN s : i < j => s[i].slot < s[j].slot
    /\ \A i \in 2..c : l[i].depth # Uninit => \E j \in DOMAIN s : s[j].slot = i - 1

\* The depth of what is declared in a construct; whether it is itself a local.
Inside(p)   == IF p.what \in Blocks THEN p.depth + 1 ELSE p.depth
Declares(p) == IF p.what = "let" /\ p.depth > 0 THEN 1 ELSE 0

\* One scope has more variables than another.
Extends(s, r) ==
    /\ Len(s) <= Len(r)
    /\ \A j \in DOMAIN s : s[j].name = r[j].name /\ s[j].slot = r[j].slot

\* A construct of a function with locals l, of which the first p.count were there before.
Opened(p, l) ==
    /\ p.count \in 1..Len(l)
    /\ Matched(l, p.count, p.scope)
    /\ \A j \in 1..p.count : l[j].depth <= p.depth
    /\ p.what \in Statements => p.height = p.count

\* The construct has got to a scope s and c locals: its own declarations, initialised,
\* or the one whose initialiser it is.
Reached(p, l, s, c) ==
    /\ Extends(p.scope, s)
    /\ IF p.what \in Statements
       THEN /\ c - p.count = Len(s) - Len(p.scope)
            /\ \A j \in (p.count + 1)..c : l[j].depth = Inside(p)
       ELSE /\ Len(s) = Len(p.scope)
            /\ c = p.count + Declares(p)
            /\ Declares(p) = 1 => l[c].depth = Uninit

\* Where the stack is then, and what an assignment or an operator adds to it.
Base(p, s) == p.height + Len(s) - Len(p.scope)

Lift(what) == CASE what = "operand" -> 1 [] what = "store" -> 2 [] OTHER -> 0

\* q is in p, in the same function.
Follows(p, q, l) ==
    /\ q.level = p.level /\ q.depth = Inside(p)
    /\ q.what \in {"statement", "let"} <=> p.what \in Statements
    /\ q.height = Base(p, q.scope) + Lift(q.what)
    /\ Reached(p, l, q.scope, q.count)

\* A function with p as the innermost construct, and `more' on its stack than p needs.
Stands(p, c, r, more) ==
    /\ c.scope_depth = Inside(p)
    /\ r.height = Base(p, r.scope) + more
    /\ Reached(p, c.locals, r.scope, Len(c.locals))

\* q is the body of a function in p.  The closure of a local function is not there
\* before the function ends.
Within(p, q, c, r) ==
    /\ q.level = p.level + 1 /\ q.depth = 1
    /\ q.what = "function" <=> p.what \in Statements
    /\ Stands(p, c, r, IF q.what = "function" /\ Inside(p) > 0 THEN -1 ELSE 0)

Linked(p, q, C, R) ==
    IF q.what \in Bodies THEN Within(p, q, C[p.level], R[p.level])
    ELSE Follows(p, q, C[p.level].locals)

\* The constructs that are open, in functions with contexts C and frames R.
Chain(P, C, R) ==
    /\ P # <<>> /\ P[1].level = 1
    /\ \A i \in DOMAIN P :
        /\ P[i].what = "toplevel" <=> i = 1
        /\ P[i].level \in DOMAIN C
        /\ Opened(P[i], C[P[i].level].locals)
    /\ \A i \in 2..Len(P) : Linked(P[i - 1], P[i], C, R)
    /\ \A i, j \in DOMAIN P :
        i < j => /\ P[i].level <= P[j].level
                 /\ P[i].level = P[j].level => P[i].count <= P[j].count

\* Slot 0, and the variables of a function.
Framed(c, r) ==
    /\ c.locals[1].name = "" /\ c.locals[1].depth = 0
    /\ Matched(c.locals, Len(c.locals), r.scope)

\* What the upvalues of a function refer to in the one around it.
Captures(C, k) ==
    /\ \A i, j \in DOMAIN C[k].upvalues : C[k].upvalues[i] = C[k].upvalues[j] => i = j
    /\ \A i \in DOMAIN C[k].upvalues :
        LET u == C[k].upvalues[i]
        IN  /\ k > 1
            /\ IF u.is_local
               THEN /\ u.index < Len(C[k - 1].locals)
                    /\ C[k - 1].locals[u.index + 1].is_captured
               ELSE u.index < Len(C[k - 1].upvalues)

\* All of it, for any constructs, contexts and frames.
Parts(C, R) == \A k \in DOMAIN C : Framed(C[k], R[k]) /\ Captures(C, k)

Shaped(P, C, R, done) ==
    /\ Chain(P, C, R)
    /\ Last(P).level = Len(C)
    /\ Stands(Last(P), Last(C), Last(R), IF done THEN 1 ELSE 0)
    /\ done => Last(P).what \in Expressions /\ Last(C).tail \in Whole
    /\ Parts(C, R)

IInv == Typed /\ Shaped(parse, contexts, runtime, compiled) /\ agrees = TRUE


-----------------------------------------------------------------------------
\* Sequences

\* t is s with e as its last element.
Sets(s, t, e) ==
    /\ DOMAIN t = DOMAIN s /\ Len(t) = Len(s)
    /\ t[Len(s)] = e
    /\ \A i \in 1..(Len(s) - 1) : t[i] = s[i]

\* The last element is replaced.
LEMMA LastSet ==
    ASSUME NEW S, NEW s \in Seq(S), s # <<>>, NEW e \in S
    PROVE  /\ Append(Front(s), e) \in Seq(S)
           /\ Sets(s, Append(Front(s), e), e)
<1>1. /\ Len(s) \in Nat \ {0}
      /\ Front(s) \in Seq(S)
      /\ Len(Front(s)) = Len(s) - 1
      /\ \A i \in 1..(Len(s) - 1) : Front(s)[i] = s[i]
    BY FrontProps
<1> DEFINE f == Front(s)
           t == Append(f, e)
<1> HIDE DEF f
<1>2. /\ t \in Seq(S)
      /\ Len(t) = Len(f) + 1
      /\ t[Len(f) + 1] = e
      /\ \A i \in 1..Len(f) : t[i] = f[i]
    BY <1>1 DEF f
<1> HIDE DEF t
<1>3. Len(t) = Len(s) /\ t[Len(s)] = e /\ DOMAIN t = DOMAIN s
    BY <1>1, <1>2 DEF f
<1>4. \A i \in 1..(Len(s) - 1) : t[i] = s[i]
    BY <1>1, <1>2 DEF f
<1> QED
    BY <1>2, <1>3, <1>4 DEF Sets, t, f

\* Nothing is set.
LEMMA LastSame ==
    ASSUME NEW S, NEW s \in Seq(S), s # <<>>
    PROVE  Sets(s, s, Last(s)) /\ Last(s) \in S /\ Len(s) \in Nat \ {0}
BY FrontProps DEF Sets, Last

\* One element more.
LEMMA OneMore ==
    ASSUME NEW S, NEW s \in Seq(S), NEW e \in S
    PROVE  /\ Append(s, e) \in Seq(S)
           /\ Len(Append(s, e)) = Len(s) + 1
           /\ Append(s, e)[Len(s) + 1] = e
           /\ \A i \in 1..Len(s) : Append(s, e)[i] = s[i]
           /\ Last(Append(s, e)) = e
           /\ Append(s, e) # <<>>
<1>1. /\ Append(s, e) \in Seq(S)
      /\ Len(Append(s, e)) = Len(s) + 1
      /\ Append(s, e)[Len(s) + 1] = e
      /\ \A i \in 1..Len(s) : Append(s, e)[i] = s[i]
    OBVIOUS
<1>2. Len(s) \in Nat
    OBVIOUS
<1> QED
    BY <1>1, <1>2 DEF Last

-----------------------------------------------------------------------------
\* What stays when the locals of a function change

\* The first n locals are the same, but for marks.
Keeps(l, m, n) ==
    /\ n <= Len(l) /\ n <= Len(m)
    /\ \A j \in 1..n :
        /\ m[j].name = l[j].name /\ m[j].depth = l[j].depth
        /\ l[j].is_captured => m[j].is_captured

\* A function and its frame are the same, but for marks.
SameContext(c, d) ==
    /\ Len(d.locals) = Len(c.locals) /\ Keeps(c.locals, d.locals, Len(c.locals))
    /\ d.scope_depth = c.scope_depth

SameFrame(r, q) ==
    /\ q.height = r.height /\ Len(q.scope) = Len(r.scope)
    /\ Extends(r.scope, q.scope)

\* Fewer locals are kept as well.
LEMMA KeepsFewer ==
    ASSUME NEW l, NEW m, NEW n \in Nat, Keeps(l, m, n), NEW c \in Nat, c <= n,
           Len(l) \in Nat, Len(m) \in Nat
    PROVE  Keeps(l, m, c)
BY DEF Keeps

\* A scope is still the initialised ones of some locals when marks were added.
LEMMA MatchedKept ==
    ASSUME NEW l, NEW m, NEW c \in Nat, Keeps(l, m, c), NEW s \in Seq(Binding), Matched(l, c, s)
    PROVE  Matched(m, c, s)
<1>1. \A j \in DOMAIN s : s[j].slot + 1 \in 1..c /\ s[j].slot \in 1..(c - 1)
    BY DEF Matched
<1>2. \A j \in DOMAIN s :
        /\ m[s[j].slot + 1].name = s[j].name
        /\ m[s[j].slot + 1].depth # Uninit
        /\ s[j].captured => m[s[j].slot + 1].is_captured
    BY <1>1 DEF Matched, Keeps
<1>3. \A i \in 2..c : m[i].depth # Uninit => \E j \in DOMAIN s : s[j].slot = i - 1
    BY SMTT(30) DEF Matched, Keeps
<1> QED
    BY <1>1, <1>2, <1>3 DEF Matched

\* An open construct stays what it is.
LEMMA OpenedKept ==
    ASSUME NEW p \in Construct, NEW l, NEW m, Opened(p, l), Keeps(l, m, p.count),
           Len(l) \in Nat, Len(m) \in Nat
    PROVE  Opened(p, m)
<1>1. p.count \in 1..Len(m) /\ p.scope \in Seq(Binding) /\ p.count \in Nat
    BY DEF Opened, Keeps, Construct
<1>2. Matched(m, p.count, p.scope)
    BY <1>1, MatchedKept DEF Opened
<1>3. \A j \in 1..p.count : m[j].depth <= p.depth
    BY DEF Opened, Keeps
<1> QED
    BY <1>1, <1>2, <1>3 DEF Opened

\* ... and so does what it has got to.
LEMMA ReachedKept ==
    ASSUME NEW p \in Construct, NEW l, NEW m, NEW s, NEW c \in Nat \ {0},
           Reached(p, l, s, c), Keeps(l, m, c)
    PROVE  Reached(p, m, s, c)
<1>1. p.count \in Nat
    BY DEF Construct
<1>2. \A j \in 1..c : m[j].depth = l[j].depth
    BY DEF Keeps
<1>3. \A j \in (p.count + 1)..c : j \in 1..c
    BY <1>1
<1> QED
    BY <1>2, <1>3 DEF Reached

\* One scope goes on from another.
LEMMA ExtendsTransitive ==
    ASSUME NEW s \in Seq(Binding), NEW r \in Seq(Binding), NEW q \in Seq(Binding),
           Extends(s, r), Extends(r, q)
    PROVE  Extends(s, q)
<1>1. \A j \in DOMAIN s : j \in DOMAIN r
    BY DEF Extends
<1> QED
    BY <1>1 DEF Extends

\* A function that encloses another one stays what it is.
LEMMA WithinKept ==
    ASSUME NEW p \in Construct, NEW q, NEW c \in Context, NEW d \in Context,
           NEW r \in Frame, NEW t \in Frame,
           Len(c.locals) \in Nat \ {0},
           Within(p, q, c, r), SameContext(c, d), SameFrame(r, t)
    PROVE  Within(p, q, d, t)
<1> DEFINE more == IF q.what = "function" /\ Inside(p) > 0 THEN -1 ELSE 0
<1>1. Stands(p, c, r, more)
    BY DEF Within
<1>2. p.scope \in Seq(Binding) /\ r.scope \in Seq(Binding) /\ t.scope \in Seq(Binding)
    BY DEF Construct, Frame
<1>3. Reached(p, d.locals, r.scope, Len(c.locals))
    BY <1>1, ReachedKept DEF Stands, SameContext
<1>4. Extends(p.scope, t.scope)
    BY <1>2, <1>3, ExtendsTransitive DEF Reached, SameFrame
<1>5. Reached(p, d.locals, t.scope, Len(d.locals))
    BY <1>3, <1>4 DEF Reached, SameContext, SameFrame
<1>6. Stands(p, d, t, more)
    BY <1>1, <1>5 DEF Stands, SameContext, SameFrame, Base
<1> QED
    BY <1>6 DEF Within


-----------------------------------------------------------------------------
\* The chain of constructs

\* What is known of the constructs, contexts and frames, whatever they are.
Stack(P, C, R) ==
    /\ P \in Seq(Construct) /\ C \in Seq(Context) /\ R \in Seq(Frame)
    /\ Len(R) = Len(C)
    /\ \A k \in DOMAIN C : Len(C[k].locals) \in Nat \ {0}

\* The constructs are still open in contexts that differ in marks below the last one's
\* level, and at its level in what came after it was opened.
LEMMA ChainKept ==
    ASSUME NEW P, NEW C, NEW R, NEW D, NEW T,
           Stack(P, C, R), Stack(P, D, T), Chain(P, C, R),
           NEW K \in Nat, K = Last(P).level, K \in DOMAIN D,
           \A k \in 1..(K - 1) : SameContext(C[k], D[k]) /\ SameFrame(R[k], T[k]),
           Keeps(C[K].locals, D[K].locals, Last(P).count)
    PROVE  Chain(P, D, T)
<1> USE DEF Stack
<1>1. /\ Len(P) \in Nat \ {0} /\ Last(P) = P[Len(P)] /\ DOMAIN P = 1..Len(P)
      /\ \A i \in DOMAIN P : P[i] \in Construct
    BY DEF Chain, Last
<1>2. \A i \in DOMAIN P : P[i].level \in 1..K /\ P[i].count \in Nat
    <2> SUFFICES ASSUME NEW i \in DOMAIN P PROVE P[i].level \in 1..K /\ P[i].count \in Nat
        OBVIOUS
    <2>1. P[i].level \in DOMAIN C /\ P[i].count \in Nat
        BY <1>1 DEF Chain, Construct
    <2>2. P[i].level <= K
        BY <1>1, SMTT(30) DEF Chain
    <2> QED
        BY <2>1, <2>2
<1>3. \A k \in 1..K : k \in DOMAIN C /\ k \in DOMAIN D /\ k \in DOMAIN R /\ k \in DOMAIN T
    <2>1. K \in DOMAIN C
        BY <1>1 DEF Chain
    <2> QED
        BY <2>1
<1>4. \A k \in 1..K : /\ C[k] \in Context /\ D[k] \in Context /\ R[k] \in Frame /\ T[k] \in Frame
                      /\ Len(C[k].locals) \in Nat \ {0} /\ Len(D[k].locals) \in Nat \ {0}
    BY <1>3
<1>5. ASSUME NEW i \in DOMAIN P
      PROVE  Keeps(C[P[i].level].locals, D[P[i].level].locals, P[i].count)
    <2>1. P[i].level \in 1..K /\ P[i].count \in Nat
        BY <1>2
    <2>2. CASE P[i].level = K
        <3>1. Len(P) \in DOMAIN P /\ Last(P).count \in Nat
            BY <1>1, <1>2
        <3>2. P[i].count <= Last(P).count
            <4>1. CASE i = Len(P)
                BY <1>1, <3>1, <4>1
            <4>2. CASE i # Len(P)
                <5>1. i < Len(P)
                    BY <1>1, <4>2
                <5> QED
                    BY <1>1, <2>2, <3>1, <5>1 DEF Chain
            <4> QED
                BY <4>1, <4>2
        <3> QED
            BY <1>4, <2>1, <2>2, <3>1, <3>2, KeepsFewer
    <2>3. CASE P[i].level # K
        <3>1. P[i].level \in 1..(K - 1)
            BY <2>1, <2>3
        <3>2. P[i].count <= Len(C[P[i].level].locals)
            BY DEF Chain, Opened
        <3>3. Keeps(C[P[i].level].locals, D[P[i].level].locals, Len(C[P[i].level].locals))
            BY <3>1 DEF SameContext
        <3> QED
            BY <1>4, <2>1, <3>2, <3>3, KeepsFewer
    <2> QED
        BY <2>2, <2>3
<1>6. ASSUME NEW i \in DOMAIN P PROVE Opened(P[i], D[P[i].level].locals)
    <2>1. Opened(P[i], C[P[i].level].locals)
        BY DEF Chain
    <2> QED
        BY <1>1, <1>2, <1>4, <1>5, <2>1, OpenedKept
<1>7. ASSUME NEW i \in 2..Len(P) PROVE Linked(P[i - 1], P[i], D, T)
    <2>1. /\ i \in DOMAIN P /\ i - 1 \in DOMAIN P /\ Linked(P[i - 1], P[i], C, R)
        BY <1>1 DEF Chain
    <2>2. CASE P[i].what \in Bodies
        <3>1. Within(P[i - 1], P[i], C[P[i - 1].level], R[P[i - 1].level])
            BY <2>1, <2>2 DEF Linked
        <3>2. P[i].level = P[i - 1].level + 1
            BY <3>1 DEF Within
        <3>3. P[i - 1].level \in 1..(K - 1) /\ P[i - 1].level \in 1..K
            BY <1>2, <2>1, <3>2
        <3>4. Within(P[i - 1], P[i], D[P[i - 1].level], T[P[i - 1].level])
            <4> DEFINE k == P[i - 1].level
                       p == P[i - 1]
                       q == P[i]
            <4>1. k \in 1..K /\ k \in 1..(K - 1) /\ p \in Construct
                BY <1>1, <2>1, <3>3
            <4>2. Within(p, q, C[k], R[k])
                BY <3>1
            <4> HIDE DEF k, p, q
            <4>3. /\ C[k] \in Context /\ D[k] \in Context /\ R[k] \in Frame /\ T[k] \in Frame
                  /\ Len(C[k].locals) \in Nat \ {0}
                BY ONLY <1>4, <4>1
            <4>4. SameContext(C[k], D[k]) /\ SameFrame(R[k], T[k])
                BY <4>1
            <4>5. Within(p, q, D[k], T[k])
                BY ONLY <4>1, <4>2, <4>3, <4>4, WithinKept
            <4> QED
                BY <4>5 DEF k, p, q
        <3> QED
            BY <2>2, <3>4 DEF Linked
    <2>3. CASE P[i].what \notin Bodies
        <3>1. Follows(P[i - 1], P[i], C[P[i - 1].level].locals)
            BY <2>1, <2>3 DEF Linked
        <3>2. P[i].level = P[i - 1].level
            BY <3>1 DEF Follows
        <3>3. Reached(P[i - 1], C[P[i].level].locals, P[i].scope, P[i].count)
            BY <3>1, <3>2 DEF Follows
        <3>4. P[i].count \in Nat \ {0}
            BY <2>1, <1>2 DEF Chain, Opened
        <3>5. Reached(P[i - 1], D[P[i].level].locals, P[i].scope, P[i].count)
            BY <1>1, <2>1, <1>5, <3>3, <3>4, ReachedKept
        <3> QED
            BY <2>3, <3>1, <3>2, <3>5 DEF Linked, Follows
    <2> QED
        BY <2>2, <2>3
<1>8. \A i \in DOMAIN P : P[i].level \in DOMAIN D
    BY <1>2, <1>3
<1> QED
    BY <1>6, <1>7, <1>8 DEF Chain

\* The last construct is taken away.
LEMMA ChainFront ==
    ASSUME NEW P \in Seq(Construct), NEW C, NEW R, Chain(P, C, R), Len(P) > 1
    PROVE  /\ Front(P) \in Seq(Construct) /\ Chain(Front(P), C, R)
           /\ Last(Front(P)) = P[Len(P) - 1] /\ Len(Front(P)) = Len(P) - 1
           /\ Linked(P[Len(P) - 1], Last(P), C, R)
           /\ Last(P).what # "toplevel"
<1>1. /\ Len(P) \in Nat /\ P # <<>>
      /\ Front(P) \in Seq(Construct)
      /\ Len(Front(P)) = Len(P) - 1
      /\ \A i \in 1..(Len(P) - 1) : Front(P)[i] = P[i]
    BY FrontProps
<1> DEFINE f == Front(P)
<1> HIDE DEF f
<1>2. /\ f \in Seq(Construct) /\ Len(f) = Len(P) - 1 /\ DOMAIN f = 1..(Len(P) - 1)
      /\ \A i \in DOMAIN f : f[i] = P[i] /\ i \in DOMAIN P
    BY <1>1 DEF f
<1>3. f # <<>> /\ f[1].level = 1
    <2>1. 1 \in DOMAIN f /\ P[1].level = 1
        BY <1>2 DEF Chain
    <2> QED
        BY <1>2, <2>1
<1>4. \A i \in DOMAIN f :
        /\ f[i].what = "toplevel" <=> i = 1
        /\ f[i].level \in DOMAIN C
        /\ Opened(f[i], C[f[i].level].locals)
    BY <1>2 DEF Chain
<1>5. \A i \in 2..Len(f) : Linked(f[i - 1], f[i], C, R)
    <2> SUFFICES ASSUME NEW i \in 2..Len(f) PROVE Linked(f[i - 1], f[i], C, R)
        OBVIOUS
    <2>1. i \in DOMAIN f /\ i - 1 \in DOMAIN f /\ i \in 2..Len(P)
        BY <1>1, <1>2
    <2>2. Linked(P[i - 1], P[i], C, R)
        BY <2>1 DEF Chain
    <2> QED
        BY <2>1, <2>2, <1>2
<1>6. \A i, j \in DOMAIN f :
        i < j => /\ f[i].level <= f[j].level
                 /\ f[i].level = f[j].level => f[i].count <= f[j].count
    BY <1>2 DEF Chain
<1>7. Chain(f, C, R)
    BY <1>3, <1>4, <1>5, <1>6 DEF Chain
<1>8. Last(f) = P[Len(P) - 1]
    BY <1>1, <1>2 DEF Last
<1>9. Len(P) \in 2..Len(P) /\ Len(P) \in DOMAIN P /\ Len(P) # 1
    BY <1>1
<1>10. Linked(P[Len(P) - 1], P[Len(P)], C, R) /\ P[Len(P)].what # "toplevel"
    BY <1>9 DEF Chain
<1> QED
    BY <1>1, <1>7, <1>8, <1>10 DEF f, Last

\* A construct is opened in the last one.
LEMMA ChainAppend ==
    ASSUME NEW P \in Seq(Construct), NEW C, NEW R, Chain(P, C, R),
           NEW q \in Construct, q.what # "toplevel", q.level \in DOMAIN C,
           Opened(q, C[q.level].locals), Linked(Last(P), q, C, R),
           Last(P).level \in Nat, q.level \in Nat,
           Last(P).level <= q.level, Last(P).level = q.level => Last(P).count <= q.count
    PROVE  Append(P, q) \in Seq(Construct) /\ Chain(Append(P, q), C, R)
<1> DEFINE f == Append(P, q)
           n == Len(P)
<1>1. n \in Nat \ {0} /\ Last(P) = P[n] /\ n \in DOMAIN P
    BY DEF Chain, Last
<1>2. /\ f \in Seq(Construct) /\ Len(f) = n + 1 /\ f[n + 1] = q
      /\ \A i \in 1..n : f[i] = P[i]
    BY OneMore
<1> HIDE DEF f
<1>3. DOMAIN f = 1..(n + 1) /\ DOMAIN P = 1..n /\ f # <<>> /\ f[1].level = 1
    BY <1>1, <1>2 DEF Chain
<1>4. \A i \in DOMAIN f :
        /\ f[i].what = "toplevel" <=> i = 1
        /\ f[i].level \in DOMAIN C
        /\ Opened(f[i], C[f[i].level].locals)
    <2> SUFFICES ASSUME NEW i \in DOMAIN f
                 PROVE  /\ f[i].what = "toplevel" <=> i = 1
                        /\ f[i].level \in DOMAIN C
                        /\ Opened(f[i], C[f[i].level].locals)
        OBVIOUS
    <2>1. CASE i = n + 1
        BY <1>1, <1>2, <2>1
    <2>2. CASE i # n + 1
        <3>1. i \in DOMAIN P /\ f[i] = P[i]
            BY <1>1, <1>2, <1>3, <2>2
        <3> QED
            BY <3>1 DEF Chain
    <2> QED
        BY <2>1, <2>2
<1>5. \A i \in 2..Len(f) : Linked(f[i - 1], f[i], C, R)
    <2> SUFFICES ASSUME NEW i \in 2..Len(f) PROVE Linked(f[i - 1], f[i], C, R)
        OBVIOUS
    <2>1. CASE i = n + 1
        BY <1>1, <1>2, <2>1
    <2>2. CASE i # n + 1
        <3>1. i \in 2..n /\ f[i] = P[i] /\ f[i - 1] = P[i - 1]
            BY <1>1, <1>2, <2>2
        <3> QED
            BY <3>1 DEF Chain
    <2> QED
        BY <2>1, <2>2
<1>6. \A i \in DOMAIN P : P[i].level \in Nat /\ P[i].count \in Nat
    <2>1. \A i \in DOMAIN P : P[i] \in Construct
        OBVIOUS
    <2> QED
        BY <2>1 DEF Construct
<1>7. \A i, j \in DOMAIN f :
        i < j => /\ f[i].level <= f[j].level
                 /\ f[i].level = f[j].level => f[i].count <= f[j].count
    <2> SUFFICES ASSUME NEW i \in DOMAIN f, NEW j \in DOMAIN f, i < j
                 PROVE  /\ f[i].level <= f[j].level
                        /\ f[i].level = f[j].level => f[i].count <= f[j].count
        OBVIOUS
    <2>1. i \in DOMAIN P /\ f[i] = P[i]
        BY <1>1, <1>2, <1>3
    <2>2. CASE j # n + 1
        <3>1. j \in DOMAIN P /\ f[j] = P[j]
            BY <1>1, <1>2, <1>3, <2>2
        <3> QED
            BY <2>1, <3>1 DEF Chain
    <2>3. CASE j = n + 1
        <3>1. /\ P[i].level <= P[n].level
              /\ P[i].level = P[n].level => P[i].count <= P[n].count
            <4>1. CASE i = n
                BY <1>1, <1>6, <4>1
            <4>2. CASE i # n
                BY <1>1, <1>3, <2>1, <4>2 DEF Chain
            <4> QED
                BY <4>1, <4>2
        <3>2. q.count \in Nat
            BY DEF Construct
        <3> QED
            BY <1>1, <1>2, <1>6, <2>1, <2>3, <3>1, <3>2
    <2> QED
        BY <2>2, <2>3
<1> QED
    BY <1>2, <1>3, <1>4, <1>5, <1>7 DEF Chain, f


-----------------------------------------------------------------------------
\* Steps of the running function

\* A local that is not initialised is no variable yet.
LEMMA MatchedMore ==
    ASSUME NEW l, NEW c \in Nat \ {0}, NEW s \in Seq(Binding), Matched(l, c, s),
           NEW d \in Nat, d = c \/ (d = c + 1 /\ l[d].depth = Uninit)
    PROVE  Matched(l, d, s)
<1>1. \A j \in DOMAIN s : s[j].slot \in 1..(d - 1)
    BY DEF Matched
<1>2. \A i \in 2..d : l[i].depth # Uninit => \E j \in DOMAIN s : s[j].slot = i - 1
    BY DEF Matched
<1> QED
    BY <1>1, <1>2 DEF Matched

\* The innermost context and frame change, and nothing outside them.
LEMMA PartsKept ==
    ASSUME NEW C \in Seq(Context), NEW R \in Seq(Frame), C # <<>>, Len(R) = Len(C),
           Parts(C, R), NEW D, NEW T, NEW c, NEW r, Sets(C, D, c), Sets(R, T, r),
           c.upvalues = Last(C).upvalues, Framed(c, r)
    PROVE  Parts(D, T)
<1>1. /\ Len(C) \in Nat \ {0} /\ DOMAIN C = 1..Len(C) /\ Last(C) = C[Len(C)]
      /\ DOMAIN D = 1..Len(C) /\ D[Len(C)] = c /\ T[Len(C)] = r
      /\ \A k \in 1..(Len(C) - 1) : D[k] = C[k] /\ T[k] = R[k]
    BY DEF Sets, Last
<1>2. ASSUME NEW k \in DOMAIN D PROVE Framed(D[k], T[k])
    <2>1. CASE k = Len(C)
        BY <1>1, <2>1
    <2>2. CASE k # Len(C)
        <3>1. k \in DOMAIN C /\ D[k] = C[k] /\ T[k] = R[k]
            BY <1>1, <2>2
        <3> QED
            BY <3>1 DEF Parts
    <2> QED
        BY <2>1, <2>2
<1>3. ASSUME NEW k \in DOMAIN D PROVE Captures(D, k)
    <2>1. k \in DOMAIN C /\ Captures(C, k) /\ D[k].upvalues = C[k].upvalues
        BY <1>1 DEF Parts
    <2>2. k > 1 => D[k - 1] = C[k - 1]
        BY <1>1
    <2> QED
        BY <2>1, <2>2 DEF Captures
<1> QED
    BY <1>2, <1>3 DEF Parts

\* The open constructs after a change of the innermost function.
LEMMA TopKept ==
    ASSUME NEW P, NEW C, NEW R, NEW D, NEW T, NEW c \in Context, NEW r \in Frame,
           Stack(P, C, R), Stack(P, D, T), Chain(P, C, R), Last(P).level = Len(C),
           Sets(C, D, c), Sets(R, T, r), Keeps(Last(C).locals, c.locals, Last(P).count)
    PROVE  Chain(P, D, T)
<1>1. Last(P) = P[Len(P)] /\ Len(P) \in DOMAIN P
    BY DEF Chain, Last, Stack
<1>2. /\ Len(C) \in Nat \ {0} /\ DOMAIN C = 1..Len(C) /\ Last(C) = C[Len(C)]
      /\ DOMAIN D = 1..Len(C) /\ D[Len(C)] = c /\ DOMAIN R = 1..Len(C)
      /\ \A k \in 1..(Len(C) - 1) : D[k] = C[k] /\ T[k] = R[k]
    <2>1. Len(C) \in DOMAIN C
        BY <1>1 DEF Chain
    <2> QED
        BY <2>1 DEF Sets, Last, Stack
<1>3. ASSUME NEW k \in 1..(Len(C) - 1)
      PROVE  SameContext(C[k], D[k]) /\ SameFrame(R[k], T[k])
    <2>1. D[k] = C[k] /\ T[k] = R[k] /\ C[k] \in Context /\ R[k] \in Frame
          /\ Len(C[k].locals) \in Nat
        BY <1>2 DEF Stack
    <2>2. Len(R[k].scope) \in Nat
        BY <2>1 DEF Frame
    <2> QED
        BY <2>1, <2>2 DEF SameContext, SameFrame, Keeps, Extends
<1>4. Keeps(C[Len(C)].locals, D[Len(C)].locals, Last(P).count)
    BY <1>2
<1> HIDE DEF Stack
<1> QED
    BY <1>2, <1>3, <1>4, ChainKept

\* Locals have no greater depth than the scope they are in.
LEMMA DepthsBounded ==
    ASSUME NEW p \in Construct, NEW l \in Seq(Local), NEW s, Opened(p, l),
           Reached(p, l, s, Len(l))
    PROVE  \A j \in 1..Len(l) : l[j].depth <= Inside(p)
<1>1. /\ p.count \in Nat /\ p.depth \in Nat /\ Len(l) \in Nat /\ Inside(p) \in Nat
      /\ p.depth <= Inside(p)
    BY DEF Construct, Inside
<1>2. \A j \in 1..Len(l) : l[j].depth \in Int
    <2>1. \A j \in 1..Len(l) : l[j] \in Local
        OBVIOUS
    <2> QED
        BY <2>1 DEF Local
<1> SUFFICES ASSUME NEW j \in 1..Len(l) PROVE l[j].depth <= Inside(p)
    OBVIOUS
<1>3. CASE j <= p.count
    <2>1. l[j].depth <= p.depth
        BY <1>1, <1>3 DEF Opened
    <2> QED
        BY <1>1, <1>2, <2>1
<1>4. CASE j > p.count /\ p.what \in Statements
    BY <1>1, <1>2, <1>4 DEF Reached
<1>5. CASE j > p.count /\ p.what \notin Statements
    <2>1. Len(l) = p.count + Declares(p) /\ (Declares(p) = 1 => l[Len(l)].depth = Uninit)
        BY <1>5 DEF Reached
    <2>2. Declares(p) = 1 /\ j = Len(l)
        BY <1>1, <1>5, <2>1 DEF Declares
    <2> QED
        BY <1>1, <2>1, <2>2 DEF Uninit
<1> QED
    BY <1>1, <1>3, <1>4, <1>5

\* What is known of the innermost construct and function.
LEMMA Tops ==
    ASSUME NEW P, NEW C, NEW R, NEW done, Stack(P, C, R), Shaped(P, C, R, done)
    PROVE  /\ Len(P) \in Nat \ {0} /\ Len(P) \in DOMAIN P /\ Last(P) = P[Len(P)]
           /\ P # <<>> /\ C # <<>> /\ R # <<>>
           /\ Last(P) \in Construct
           /\ Len(C) \in Nat \ {0} /\ Len(C) \in DOMAIN C /\ Last(C) = C[Len(C)]
           /\ Last(C) \in Context /\ Len(Last(C).locals) \in Nat \ {0}
           /\ Last(R) = R[Len(C)] /\ Last(R) \in Frame
           /\ Opened(Last(P), Last(C).locals)
           /\ Framed(Last(C), Last(R))
           /\ Reached(Last(P), Last(C).locals, Last(R).scope, Len(Last(C).locals))
<1>1. /\ Len(P) \in Nat \ {0} /\ Len(P) \in DOMAIN P /\ Last(P) = P[Len(P)]
      /\ P # <<>> /\ Last(P) \in Construct
    BY DEF Shaped, Chain, Last, Stack
<1>2. /\ Len(C) \in DOMAIN C /\ Opened(Last(P), C[Len(C)].locals)
    BY <1>1 DEF Shaped, Chain
<1>3. /\ Len(C) \in Nat \ {0} /\ Last(C) = C[Len(C)] /\ Last(R) = R[Len(C)]
      /\ C # <<>> /\ R # <<>>
      /\ Last(C) \in Context /\ Len(Last(C).locals) \in Nat \ {0}
      /\ Last(R) \in Frame
    BY <1>2 DEF Stack, Last
<1>4. Framed(Last(C), Last(R))
    BY <1>2, <1>3 DEF Shaped, Parts
<1>5. Reached(Last(P), Last(C).locals, Last(R).scope, Len(Last(C).locals))
    BY DEF Shaped, Stands
<1> QED
    BY <1>1, <1>2, <1>3, <1>4, <1>5

\* A construct is opened in the running function.
LEMMA Pushes ==
    ASSUME NEW P, NEW C, NEW R, NEW done, Stack(P, C, R), Shaped(P, C, R, done),
           NEW D, NEW T, Stack(P, D, T), NEW c \in Context, NEW r \in Frame,
           Sets(C, D, c), Sets(R, T, r), NEW q \in Construct,
           q.what \notin Bodies \cup {"toplevel"},
           q.what \in {"statement", "let"} <=> Last(P).what \in Statements,
           q.level = Len(C), q.depth = Last(C).scope_depth,
           q.count = Len(Last(C).locals), q.scope = Last(R).scope,
           q.height = Base(Last(P), q.scope) + Lift(q.what),
           q.what \in Statements => q.height = q.count,
           c.upvalues = Last(C).upvalues, c.scope_depth = Inside(q),
           Keeps(Last(C).locals, c.locals, q.count),
           Len(c.locals) = q.count + Declares(q),
           Declares(q) = 1 => c.locals[Len(c.locals)].depth = Uninit,
           r.height = q.height, r.scope = q.scope
    PROVE  Append(P, q) \in Seq(Construct) /\ Shaped(Append(P, q), D, T, FALSE)
<1> DEFINE p == Last(P)
           l == Last(C).locals
           f == Append(P, q)
<1>1. /\ p \in Construct /\ C # <<>> /\ R # <<>> /\ P # <<>>
      /\ Len(C) \in Nat \ {0} /\ Len(C) \in DOMAIN C /\ Last(C) = C[Len(C)]
      /\ Last(C) \in Context /\ Len(l) \in Nat \ {0} /\ Last(R) \in Frame
      /\ Opened(p, l) /\ Framed(Last(C), Last(R)) /\ Reached(p, l, Last(R).scope, Len(l))
      /\ p.level = Len(C)
    BY Tops DEF Shaped
<1>2. /\ p.count \in Nat /\ p.depth \in Nat /\ p.scope \in Seq(Binding) /\ q.scope \in Seq(Binding)
      /\ q.count \in Nat \ {0} /\ q.level \in Nat
    BY <1>1 DEF Construct, Frame
<1>3. C \in Seq(Context) /\ R \in Seq(Frame) /\ Len(R) = Len(C) /\ P \in Seq(Construct)
    BY DEF Stack
<1>4. Len(c.locals) \in Nat /\ l \in Seq(Local) /\ c.locals \in Seq(Local)
    BY <1>1 DEF Context
<1>5. Keeps(l, c.locals, p.count)
    BY <1>1, <1>2, <1>4, KeepsFewer DEF Opened
<1>6. Chain(P, C, R)
    BY DEF Shaped
<1>7. Chain(P, D, T)
    BY <1>1, <1>5, <1>6, TopKept
<1>8. Matched(c.locals, q.count, q.scope)
    <2>1. Matched(l, q.count, q.scope)
        BY <1>1 DEF Framed
    <2> QED
        BY <1>2, <2>1, MatchedKept
<1>9. Matched(c.locals, Len(c.locals), r.scope)
    <2>1. Declares(q) \in {0, 1}
        BY DEF Declares
    <2>2. \/ Len(c.locals) = q.count
          \/ Len(c.locals) = q.count + 1 /\ c.locals[Len(c.locals)].depth = Uninit
        BY <1>2, <2>1
    <2>3. Len(c.locals) \in Nat
        BY <1>4
    <2> QED
        BY <1>2, <1>8, <2>2, <2>3, MatchedMore
<1>10. Framed(c, r)
    <2>1. 1 \in 1..q.count
        BY <1>2
    <2> QED
        BY <1>1, <1>9, <2>1 DEF Framed, Keeps
<1>11. Parts(D, T)
    <2>1. Parts(C, R)
        BY DEF Shaped
    <2> QED
        BY <1>1, <1>3, <1>10, <2>1, PartsKept
<1>12. Opened(q, D[Len(C)].locals)
    <2>1. D[Len(C)] = c
        BY DEF Sets
    <2>2. \A j \in 1..Len(l) : l[j].depth <= Inside(p)
        BY <1>1, <1>4, DepthsBounded
    <2>3. q.depth = Inside(p)
        BY <1>1 DEF Shaped, Stands
    <2>4. \A j \in 1..q.count : c.locals[j].depth <= q.depth
        BY <2>2, <2>3 DEF Keeps
    <2>5. q.count \in 1..Len(c.locals)
        BY <1>2, <1>4 DEF Keeps
    <2> QED
        BY <1>8, <2>1, <2>4, <2>5 DEF Opened
<1>13. Reached(p, c.locals, q.scope, q.count)
    BY <1>1, <1>2, ReachedKept
<1>14. Follows(p, q, c.locals)
    BY <1>1, <1>13 DEF Follows, Shaped, Stands
<1>15. D[Len(C)] = c /\ Last(D) = c /\ Last(T) = r /\ Len(D) = Len(C) /\ Len(C) \in DOMAIN D
    BY <1>1, <1>3 DEF Sets, Last
<1>16. Linked(p, q, D, T)
    BY <1>1, <1>14, <1>15 DEF Linked
<1>17. p.count <= q.count
    BY <1>1 DEF Opened
<1>18. f \in Seq(Construct) /\ Chain(f, D, T) /\ Last(f) = q
    <2>1. q.what # "toplevel"
        OBVIOUS
    <2>2. f \in Seq(Construct) /\ Chain(f, D, T)
        BY <1>1, <1>2, <1>3, <1>7, <1>12, <1>15, <1>16, <1>17, <2>1, ChainAppend, SMTT(30)
    <2>3. Last(f) = q
        BY <1>3, OneMore
    <2> QED
        BY <2>2, <2>3
<1>19. Reached(q, c.locals, r.scope, Len(c.locals))
    <2>1. Len(q.scope) \in Nat
        BY <1>2
    <2>2. Extends(q.scope, r.scope)
        BY <2>1 DEF Extends
    <2>3. q.what \in Statements => Len(c.locals) = q.count
        <3>1. q.what \in Statements => Declares(q) = 0
            BY DEF Declares, Statements
        <3> QED
            BY <1>2, <3>1
    <2>4. CASE q.what \in Statements
        <3>1. Len(c.locals) - q.count = 0 /\ Len(r.scope) - Len(q.scope) = 0
            BY <1>2, <2>1, <2>3, <2>4
        <3>2. \A j \in (q.count + 1)..Len(c.locals) : FALSE
            BY <1>2, <2>3, <2>4
        <3> QED
            BY <2>2, <2>4, <3>1, <3>2 DEF Reached
    <2>5. CASE q.what \notin Statements
        BY <2>2, <2>5 DEF Reached
    <2> QED
        BY <2>4, <2>5
<1>20. r.height = Base(q, r.scope) + 0
    <2>1. Len(q.scope) \in Nat /\ q.height \in Int
        BY <1>2 DEF Construct
    <2>2. r.height = q.height /\ r.scope = q.scope
        OBVIOUS
    <2> QED
        BY ONLY <2>1, <2>2 DEF Base
<1>21. Stands(q, c, r, 0)
    BY <1>19, <1>20 DEF Stands
<1> HIDE DEF f
<1>22. Shaped(f, D, T, FALSE)
    BY <1>11, <1>15, <1>18, <1>21 DEF Shaped
<1> QED
    BY <1>18, <1>22 DEF f


\* The running function goes on in the same construct, with the same variables.
LEMMA Stays ==
    ASSUME NEW P, NEW C, NEW R, NEW done, Stack(P, C, R), Shaped(P, C, R, done),
           NEW D, NEW T, Stack(P, D, T), NEW c \in Context, NEW r \in Frame,
           Sets(C, D, c), Sets(R, T, r),
           c.locals = Last(C).locals, c.upvalues = Last(C).upvalues,
           c.scope_depth = Last(C).scope_depth, r.scope = Last(R).scope,
           NEW now \in BOOLEAN,
           r.height = Base(Last(P), r.scope) + (IF now THEN 1 ELSE 0),
           now => Last(P).what \in Expressions /\ c.tail \in Whole
    PROVE  Shaped(P, D, T, now)
<1> DEFINE p == Last(P)
           l == Last(C).locals
<1>1. /\ p \in Construct /\ C # <<>> /\ R # <<>>
      /\ Len(C) \in Nat \ {0} /\ Len(l) \in Nat \ {0}
      /\ Opened(p, l) /\ Framed(Last(C), Last(R)) /\ Reached(p, l, Last(R).scope, Len(l))
      /\ p.level = Len(C)
    BY Tops DEF Shaped
<1>2. /\ C \in Seq(Context) /\ R \in Seq(Frame) /\ Len(R) = Len(C)
      /\ Chain(P, C, R) /\ Parts(C, R)
    BY DEF Stack, Shaped
<1>3. Keeps(l, c.locals, p.count)
    <2>1. p.count <= Len(l)
        BY <1>1 DEF Opened
    <2> QED
        BY <2>1 DEF Keeps
<1>4. Chain(P, D, T)
    BY <1>1, <1>2, <1>3, TopKept
<1>5. Framed(c, r)
    BY <1>1 DEF Framed
<1>6. Parts(D, T)
    BY <1>1, <1>2, <1>5, PartsKept
<1>7. Last(D) = c /\ Last(T) = r /\ Len(D) = Len(C)
    BY <1>1, <1>2 DEF Sets, Last
<1>8. Stands(p, c, r, IF now THEN 1 ELSE 0)
    BY <1>1 DEF Stands, Shaped
<1> QED
    BY <1>1, <1>4, <1>6, <1>7, <1>8 DEF Shaped

\* The construct around the innermost one.
LEMMA Outer ==
    ASSUME NEW P, NEW C, NEW R, NEW done, Stack(P, C, R), Shaped(P, C, R, done),
           Last(P).what # "toplevel"
    PROVE  /\ Len(P) > 1 /\ P[Len(P) - 1] \in Construct
           /\ P[Len(P) - 1].level \in DOMAIN C
           /\ Opened(P[Len(P) - 1], C[P[Len(P) - 1].level].locals)
           /\ Linked(P[Len(P) - 1], Last(P), C, R)
           /\ P[Len(P) - 1].what = "toplevel" => P[Len(P) - 1].level = 1
           /\ Last(P).what \notin Bodies =>
                /\ P[Len(P) - 1].level = Len(C)
                /\ Follows(P[Len(P) - 1], Last(P), Last(C).locals)
                /\ P[Len(P) - 1].count <= Last(P).count
<1>1. /\ Len(P) \in Nat \ {0} /\ Len(P) \in DOMAIN P /\ Last(P) = P[Len(P)]
      /\ Last(P) \in Construct /\ Last(C) = C[Len(C)]
    BY Tops
<1>2. Chain(P, C, R) /\ P \in Seq(Construct) /\ Last(P).level = Len(C)
    BY DEF Shaped, Stack
<1>3. Len(P) # 1
    BY <1>1, <1>2 DEF Chain
<1>4. Len(P) > 1 /\ Len(P) - 1 \in DOMAIN P /\ Len(P) \in 2..Len(P)
    BY <1>1, <1>3
<1>5. /\ Linked(P[Len(P) - 1], Last(P), C, R)
      /\ P[Len(P) - 1].level \in DOMAIN C
      /\ Opened(P[Len(P) - 1], C[P[Len(P) - 1].level].locals)
      /\ P[Len(P) - 1].what = "toplevel" => P[Len(P) - 1].level = 1
    BY <1>1, <1>2, <1>4 DEF Chain
<1>6. P[Len(P) - 1] \in Construct
    BY <1>2, <1>4
<1>7. ASSUME Last(P).what \notin Bodies
      PROVE  /\ P[Len(P) - 1].level = Len(C)
             /\ Follows(P[Len(P) - 1], Last(P), Last(C).locals)
             /\ P[Len(P) - 1].count <= Last(P).count
    <2>1. Follows(P[Len(P) - 1], Last(P), C[P[Len(P) - 1].level].locals)
        BY <1>5, <1>7 DEF Linked
    <2>2. P[Len(P) - 1].level = Len(C)
        BY <1>2, <2>1 DEF Follows
    <2>3. P[Len(P) - 1].count <= Last(P).count
        BY <1>1, <1>2, <1>4, <2>2 DEF Chain
    <2> QED
        BY <1>1, <2>1, <2>2, <2>3
<1> QED
    BY <1>4, <1>5, <1>6, <1>7

\* The innermost construct ends, and is no function.
LEMMA Pops ==
    ASSUME NEW P, NEW C, NEW R, NEW done, Stack(P, C, R), Shaped(P, C, R, done),
           NEW D, NEW T, NEW c \in Context, NEW r \in Frame,
           Stack(P, D, T), Sets(C, D, c), Sets(R, T, r),
           Last(P).what \notin Bodies \cup {"toplevel"},
           NEW p, p = P[Len(P) - 1],
           Keeps(Last(C).locals, c.locals, p.count), Framed(c, r),
           c.upvalues = Last(C).upvalues, NEW now \in BOOLEAN,
           Stands(p, c, r, IF now THEN 1 ELSE 0),
           now => p.what \in Expressions /\ c.tail \in Whole
    PROVE  Front(P) \in Seq(Construct) /\ Shaped(Front(P), D, T, now)
<1> DEFINE f == Front(P)
<1>1. C # <<>> /\ R # <<>> /\ Len(C) \in Nat \ {0}
    BY Tops
<1>2. /\ C \in Seq(Context) /\ R \in Seq(Frame) /\ Len(R) = Len(C) /\ P \in Seq(Construct)
      /\ Chain(P, C, R) /\ Parts(C, R)
    BY DEF Stack, Shaped
<1>3. Len(P) > 1 /\ p.level = Len(C)
    BY Outer
<1>4. /\ f \in Seq(Construct) /\ Chain(f, C, R) /\ Last(f) = p
    BY <1>2, <1>3, ChainFront
<1> HIDE DEF f
<1>5. Stack(f, C, R) /\ Stack(f, D, T)
    BY <1>4 DEF Stack
<1>6. Chain(f, D, T)
    BY <1>3, <1>4, <1>5, TopKept
<1>7. Parts(D, T)
    BY <1>1, <1>2, PartsKept
<1>8. Last(D) = c /\ Last(T) = r /\ Len(D) = Len(C)
    BY <1>1, <1>2 DEF Sets, Last
<1>9. Shaped(f, D, T, now)
    BY <1>3, <1>4, <1>6, <1>7, <1>8 DEF Shaped
<1> QED
    BY <1>4, <1>9 DEF f


-----------------------------------------------------------------------------
\* What actions do to the context and the frame of the running function

\* Emitted code changes nothing but the end of the code.
LEMMA EmitProps ==
    ASSUME NEW c \in Context, NEW kind, kind \in Kinds \/ (kind = "save_x" /\ c.tail \in Whole)
    PROVE  /\ Emit(c, kind) \in Context
           /\ Emit(c, kind).locals = c.locals /\ Emit(c, kind).upvalues = c.upvalues
           /\ Emit(c, kind).scope_depth = c.scope_depth
           /\ kind \in Kinds => Emit(c, kind).tail \in Whole
<1> DEFINE t == IF kind = "save_x" THEN <<Last(c.tail), kind>> ELSE <<kind>>
<1>1. kind \in Kinds => t \in Whole
    BY DEF Whole, Kinds
<1>2. kind = "save_x" => t \in Tails
    <2>1. c.tail \in Whole => \E a \in Kinds : c.tail = <<a>>
        BY DEF Whole
    <2>2. \A a : Last(<<a>>) = a
        BY DEF Last
    <2> QED
        BY <2>1, <2>2 DEF Tails, Kinds
<1>3. t \in Tails
    BY <1>1, <1>2 DEF Tails
<1>4. Emit(c, kind) = [c EXCEPT !.tail = t]
    BY DEF Emit
<1> HIDE DEF t
<1> QED
    BY <1>1, <1>3, <1>4 DEF Context

\* The innermost context becomes c, and the innermost frame r.
Turns(C, D, c) ==
    /\ D \in Seq(Context) /\ c \in Context /\ Sets(C, D, c)
    /\ \A k \in DOMAIN D : Len(D[k].locals) \in 1..LOCALS_LIMIT

Runs(R, T, r) == T \in Seq(Frame) /\ r \in Frame /\ Sets(R, T, r)

\* The innermost context stays as it is, or is replaced; and its frame.
LEMMA TurnsSame ==
    ASSUME NEW C \in Seq(Context), C # <<>>,
           \A k \in DOMAIN C : Len(C[k].locals) \in 1..LOCALS_LIMIT
    PROVE  Turns(C, C, Last(C))
BY LastSame DEF Turns

\* The innermost context is replaced.
LEMMA TurnsSet ==
    ASSUME NEW C \in Seq(Context), C # <<>>,
           \A k \in DOMAIN C : Len(C[k].locals) \in 1..LOCALS_LIMIT,
           NEW c \in Context, Len(c.locals) \in 1..LOCALS_LIMIT
    PROVE  Turns(C, Append(Front(C), c), c)
<1> DEFINE D == Append(Front(C), c)
<1>1. D \in Seq(Context) /\ Sets(C, D, c)
    BY LastSet
<1> HIDE DEF D
<1>2. ASSUME NEW k \in DOMAIN D PROVE Len(D[k].locals) \in 1..LOCALS_LIMIT
    <2>1. k \in DOMAIN C /\ (k = Len(C) \/ k \in 1..(Len(C) - 1))
        BY <1>1 DEF Sets
    <2> QED
        BY <1>1, <2>1 DEF Sets
<1> QED
    BY <1>1, <1>2 DEF Turns, D

\* The innermost frame stays as it is.
LEMMA RunsSame ==
    ASSUME NEW R \in Seq(Frame), R # <<>>
    PROVE  Runs(R, R, Last(R))
BY LastSame DEF Runs

\* The innermost frame is replaced.
LEMMA RunsSet ==
    ASSUME NEW R \in Seq(Frame), R # <<>>, NEW r \in Frame
    PROVE  Runs(R, Append(Front(R), r), r)
BY LastSet DEF Runs

\* The height a construct starts from is a number.
LEMMA BaseInt ==
    ASSUME NEW p \in Construct, NEW s \in Seq(Binding)
    PROVE  Base(p, s) \in Int
<1>1. p.height \in Int /\ p.scope \in Seq(Binding)
    BY DEF Construct
<1>2. Len(s) \in Nat /\ Len(p.scope) \in Nat
    BY <1>1
<1> QED
    BY <1>1, <1>2 DEF Base

\* What is known in a state.
LEMMA Now ==
    ASSUME IInv
    PROVE  /\ Stack(parse, contexts, runtime) /\ Shaped(parse, contexts, runtime, compiled)
           /\ parse \in Seq(Construct) /\ contexts \in Seq(Context) /\ runtime \in Seq(Frame)
           /\ contexts # <<>> /\ runtime # <<>> /\ parse # <<>>
           /\ \A k \in DOMAIN contexts : Len(contexts[k].locals) \in 1..LOCALS_LIMIT
           /\ Inner \in Construct /\ This \in Context /\ Here \in Frame
           /\ Len(This.locals) \in 1..LOCALS_LIMIT /\ LOCALS_LIMIT \in Nat
           /\ Len(contexts) = Len(runtime) /\ Inner.level = Len(contexts)
           /\ Inner.depth \in Nat /\ Inner.count \in Nat \ {0} /\ Inner.height \in Int
           /\ Len(Inner.scope) \in Nat /\ Inner.scope \in Seq(Binding)
           /\ Len(Here.scope) \in Nat /\ Here.scope \in Seq(Binding) /\ Here.height \in Int
           /\ This.scope_depth = Inside(Inner) /\ Base(Inner, Here.scope) \in Int
           /\ Here.height = Base(Inner, Here.scope) + (IF compiled THEN 1 ELSE 0)
           /\ Reached(Inner, This.locals, Here.scope, Len(This.locals))
           /\ Opened(Inner, This.locals) /\ Framed(This, Here)
           /\ compiled => Inner.what \in Expressions /\ This.tail \in Whole
           /\ Len(parse) \in 1..MaxNesting /\ MaxNesting \in Nat
           /\ inner_loop_depth \in Nat \cup {NoLoop}
<1>1. Typed /\ Shaped(parse, contexts, runtime, compiled)
    BY DEF IInv
<1>2. LOCALS_LIMIT \in Nat /\ MaxNesting \in Nat
    BY LimitsAssumption, BoundAssumption
<1>3. Stack(parse, contexts, runtime)
    BY <1>1, <1>2 DEF Typed, Stack, Levels
<1>4. /\ Inner \in Construct /\ This \in Context /\ Here \in Frame
      /\ contexts # <<>> /\ runtime # <<>> /\ parse # <<>>
      /\ This = contexts[Len(contexts)] /\ Len(contexts) \in DOMAIN contexts
      /\ Reached(Inner, This.locals, Here.scope, Len(This.locals))
      /\ Opened(Inner, This.locals) /\ Framed(This, Here)
    BY <1>1, <1>3, Tops DEF Inner, This, Here
<1>5. /\ This.scope_depth = Inside(Inner) /\ Inner.level = Len(contexts)
      /\ Here.height = Base(Inner, Here.scope) + (IF compiled THEN 1 ELSE 0)
      /\ compiled => Inner.what \in Expressions /\ This.tail \in Whole
    BY <1>1 DEF Shaped, Stands, Inner, This, Here
<1>6. /\ Inner.depth \in Nat /\ Inner.count \in Nat /\ Inner.height \in Int
      /\ Len(Inner.scope) \in Nat /\ Inner.scope \in Seq(Binding)
      /\ Len(Here.scope) \in Nat /\ Here.scope \in Seq(Binding) /\ Here.height \in Int
    BY <1>4 DEF Construct, Frame
<1>10. Base(Inner, Here.scope) \in Int
    BY <1>4, <1>6, BaseInt
<1>7. Inner.count # 0
    BY <1>4 DEF Opened
<1>8. /\ parse \in Seq(Construct) /\ contexts \in Seq(Context) /\ runtime \in Seq(Frame)
      /\ \A k \in DOMAIN contexts : Len(contexts[k].locals) \in 1..LOCALS_LIMIT
      /\ Len(contexts) = Len(runtime) /\ Len(parse) \in 1..MaxNesting
      /\ inner_loop_depth \in Nat \cup {NoLoop}
    BY <1>1 DEF Typed, Levels
<1>9. Len(This.locals) \in 1..LOCALS_LIMIT
    BY <1>4, <1>8
<1> QED
    BY <1>1, <1>2, <1>3, <1>4, <1>5, <1>6, <1>7, <1>8, <1>9, <1>10

\* The constructs and functions after a step.
LEMMA StackTurns ==
    ASSUME NEW P \in Seq(Construct), NEW C, NEW R, Len(R) = Len(C),
           NEW D, NEW T, NEW c, NEW r, Turns(C, D, c), Runs(R, T, r)
    PROVE  Stack(P, D, T) /\ Len(T) = Len(D) /\ c \in Context /\ r \in Frame
           /\ Sets(C, D, c) /\ Sets(R, T, r)
BY LimitsAssumption DEF Stack, Turns, Runs, Sets

\* The invariant after a step that keeps its types.
LEMMA Next_IInv ==
    ASSUME NEW c, NEW r, Len(runtime) = Len(contexts),
           Turns(contexts, contexts', c), Runs(runtime, runtime', r),
           parse' \in Seq(Construct), Len(parse') \in 1..MaxNesting,
           inner_loop_depth' \in Nat \cup {NoLoop},
           {compiled', had_error', damaged'} \subseteq BOOLEAN, agrees' = TRUE,
           Shaped(parse', contexts', runtime', compiled')
    PROVE  IInv'
BY DEF IInv, Typed, Turns, Runs, Sets, Levels


-----------------------------------------------------------------------------
\* Expressions and statements

\* A frame with another height.
LEMMA Raised ==
    ASSUME NEW r \in Frame, NEW h \in Int
    PROVE  /\ [r EXCEPT !.height = h] \in Frame
           /\ [r EXCEPT !.height = h].scope = r.scope
           /\ [r EXCEPT !.height = h].height = h
BY DEF Frame

\* A constant leaves one value.
LEMMA LiteralStep ==
    ASSUME IInv, Literal
    PROVE  IInv'
<1> DEFINE c == Emit(This, "operand")
           r == [Here EXCEPT !.height = @ + 1]
<1>1. ~compiled /\ Inner.what \in Expressions
    BY DEF Literal, AtExpression, Expressions
<1>2. /\ c \in Context /\ c.locals = This.locals /\ c.upvalues = This.upvalues
      /\ c.scope_depth = This.scope_depth /\ c.tail \in Whole
    BY Now, EmitProps DEF Kinds
<1>3. r \in Frame /\ r.scope = Here.scope /\ r.height = Here.height + 1
    <2>1. Here \in Frame /\ Here.height + 1 \in Int
        BY Now
    <2> QED
        BY <2>1, Raised
<1>4. contexts' = Append(Front(contexts), c) /\ runtime' = Append(Front(runtime), r)
    BY DEF Literal, SetThis, SetHere
<1> HIDE DEF c, r
<1>5. Turns(contexts, contexts', c) /\ Runs(runtime, runtime', r)
    BY Now, <1>2, <1>3, <1>4, TurnsSet, RunsSet
<1>6. Stack(parse, contexts', runtime') /\ Sets(contexts, contexts', c) /\ Sets(runtime, runtime', r)
    BY Now, <1>5, StackTurns
<1>7. r.height = Base(Inner, r.scope) + (IF TRUE THEN 1 ELSE 0)
    <2>1. Here.height = Base(Inner, Here.scope) + 0
        BY Now, <1>1
    <2>2. Base(Inner, Here.scope) \in Int
        BY Now
    <2> QED
        BY ONLY <1>3, <2>1, <2>2
<1>8. Shaped(parse, contexts', runtime', TRUE)
    BY Now, <1>1, <1>2, <1>3, <1>6, <1>7, Stays DEF This, Here, Inner
<1>9. /\ parse' = parse /\ inner_loop_depth' = inner_loop_depth /\ compiled' = TRUE
      /\ {compiled', had_error', damaged'} \subseteq BOOLEAN /\ agrees' = TRUE
    BY DEF Literal, IInv, Typed
<1> QED
    BY Now, <1>5, <1>8, <1>9, Next_IInv

\* continue: with the hole closed, no local is popped.
LEMMA ContinueStep ==
    ASSUME IInv, Continue, ~Continues
    PROVE  IInv'
<1> DEFINE c == Emit(This, "operand")
<1>1. ~compiled
    BY DEF Continue, AtStatement
<1>2. /\ c \in Context /\ c.locals = This.locals /\ c.upvalues = This.upvalues
      /\ c.scope_depth = This.scope_depth
    BY Now, EmitProps DEF Kinds
<1>3. contexts' = Append(Front(contexts), c) /\ runtime' = runtime
    <2>1. Unwind(This, inner_loop_depth) = This
        BY DEF Continue, Unwind
    <2> QED
        BY <2>1 DEF Continue, SetThis
<1> HIDE DEF c
<1>4. Turns(contexts, contexts', c) /\ Runs(runtime, runtime', Here)
    BY Now, <1>2, <1>3, TurnsSet, RunsSame DEF Here
<1>5. Stack(parse, contexts', runtime')
      /\ Sets(contexts, contexts', c) /\ Sets(runtime, runtime', Here)
    BY Now, <1>4, StackTurns
<1>6. Here.height = Base(Inner, Here.scope) + (IF FALSE THEN 1 ELSE 0)
    BY Now, <1>1
<1>7. Shaped(parse, contexts', runtime', FALSE)
    BY Now, <1>2, <1>5, <1>6, Stays DEF This, Here, Inner
<1>8. /\ parse' = parse /\ inner_loop_depth' = inner_loop_depth /\ compiled' = FALSE
      /\ {compiled', had_error', damaged'} \subseteq BOOLEAN /\ agrees' = TRUE
    BY DEF Continue, IInv, Typed, AtStatement
<1> QED
    BY Now, <1>4, <1>7, <1>8, Next_IInv

\* A declaration that is rejected changes nothing but had_error.
LEMMA RejectStep ==
    ASSUME IInv, NEW n, Reject(n)
    PROVE  IInv'
<1>1. UNCHANGED <<contexts, inner_loop_depth, parse, compiled, runtime, agrees, damaged>>
      /\ had_error' = TRUE
    BY DEF Reject
<1> QED
    BY <1>1 DEF IInv, Typed, Levels

\* What a construct is when it is opened, and what it makes of the function.
Opening(q) ==
    /\ q \in Construct /\ q.what \notin Bodies \cup {"toplevel"}
    /\ q.what \in {"statement", "let"} <=> Inner.what \in Statements
    /\ q.level = Len(contexts) /\ q.depth = This.scope_depth
    /\ q.count = Len(This.locals) /\ q.scope = Here.scope
    /\ q.height = Base(Inner, q.scope) + Lift(q.what)
    /\ q.what \in Statements => q.height = q.count

Starting(q, c, r) ==
    /\ c.upvalues = This.upvalues /\ c.scope_depth = Inside(q)
    /\ Keeps(This.locals, c.locals, q.count) /\ Len(c.locals) = q.count + Declares(q)
    /\ Declares(q) = 1 => c.locals[Len(c.locals)].depth = Uninit
    /\ r.height = q.height /\ r.scope = q.scope

\* The steps that open a construct.
LEMMA Opens ==
    ASSUME IInv, NEW c, NEW r, NEW q,
           Turns(contexts, contexts', c), Runs(runtime, runtime', r),
           parse' = Append(parse, q), Len(parse) < MaxNesting,
           Opening(q), Starting(q, c, r),
           inner_loop_depth' \in Nat \cup {NoLoop}, compiled' = FALSE,
           {had_error', damaged'} \subseteq BOOLEAN, agrees' = TRUE
    PROVE  IInv'
<1>1. Stack(parse, contexts', runtime') /\ c \in Context /\ r \in Frame
      /\ Sets(contexts, contexts', c) /\ Sets(runtime, runtime', r)
    BY Now, StackTurns
<1>2. parse' \in Seq(Construct) /\ Shaped(parse', contexts', runtime', FALSE)
    BY Now, <1>1, Pushes DEF This, Here, Inner, Opening, Starting
<1>3. Len(parse') = Len(parse) + 1
    BY Now, OneMore DEF Opening
<1>4. Len(parse') \in 1..MaxNesting
    BY Now, <1>3
<1> QED
    BY Now, <1>2, <1>4, Next_IInv

\* The record of a construct that is opened.
LEMMA OpenProps ==
    ASSUME IInv, NEW what \in Statements \cup Expressions
    PROVE  /\ Open(what) \in Construct /\ Open(what).what = what
           /\ Open(what).level = Len(contexts) /\ Open(what).depth = This.scope_depth
           /\ Open(what).count = Len(This.locals) /\ Open(what).scope = Here.scope
           /\ Open(what).height = Here.height
           /\ [Open(what) EXCEPT !.height = Here.height] = Open(what)
<1>1. /\ Len(contexts) \in Nat /\ This.scope_depth \in Nat /\ Len(This.locals) \in Nat
      /\ inner_loop_depth \in Nat \cup {NoLoop} /\ Here.scope \in Seq(Binding)
      /\ Here.height \in Int
    BY Now DEF Context
<1> QED
    BY <1>1 DEF Open, Construct

\* The right operand starts above the left one.
LEMMA OperatorStep ==
    ASSUME IInv, Operator
    PROVE  IInv'
<1> DEFINE q == Open("operand")
<1>1. compiled /\ parse' = Append(parse, q) /\ Len(parse) < MaxNesting
    BY DEF Operator, AfterExpression, Nested
<1>2. /\ q \in Construct /\ q.what = "operand" /\ q.level = Len(contexts)
      /\ q.depth = This.scope_depth /\ q.count = Len(This.locals) /\ q.scope = Here.scope
      /\ q.height = Here.height
    BY OpenProps DEF Expressions
<1> HIDE DEF q
<1>3. Turns(contexts, contexts', This) /\ Runs(runtime, runtime', Here)
    BY Now, TurnsSame, RunsSame DEF Operator, This, Here
<1>4. Opening(q)
    <2>1. Inner.what \notin Statements
        BY Now, <1>1 DEF Statements, Expressions
    <2>2. Here.height = Base(Inner, Here.scope) + 1 /\ Lift("operand") = 1
        BY Now, <1>1 DEF Lift
    <2> QED
        BY <1>2, <2>1, <2>2 DEF Opening, Bodies, Statements
<1>5. Starting(q, This, Here)
    <2>1. Inside(q) = q.depth /\ Declares(q) = 0
        BY <1>2 DEF Inside, Declares, Blocks
    <2>2. Keeps(This.locals, This.locals, q.count) /\ Len(This.locals) = q.count + Declares(q)
        BY Now, <1>2, <2>1 DEF Keeps
    <2> QED
        BY <1>2, <2>1, <2>2 DEF Starting
<1>6. /\ inner_loop_depth' = inner_loop_depth /\ compiled' = FALSE
      /\ {had_error', damaged'} \subseteq BOOLEAN /\ agrees' = TRUE
    BY DEF Operator, IInv, Typed
<1> QED
    BY Now, <1>1, <1>3, <1>4, <1>5, <1>6, Opens

\* A statement starts where the one before it ended.
LEMMA StatementStep ==
    ASSUME IInv, Statement
    PROVE  IInv'
<1> DEFINE q == Open("statement")
<1>1. ~compiled /\ parse' = Append(parse, q) /\ Len(parse) < MaxNesting
      /\ Inner.what \in Statements
    BY DEF Statement, AtStatement, Nested, Statements
<1>2. /\ q \in Construct /\ q.what = "statement" /\ q.level = Len(contexts)
      /\ q.depth = This.scope_depth /\ q.count = Len(This.locals) /\ q.scope = Here.scope
      /\ q.height = Here.height
    BY OpenProps DEF Expressions
<1> HIDE DEF q
<1>3. Turns(contexts, contexts', This) /\ Runs(runtime, runtime', Here)
    BY Now, TurnsSame, RunsSame DEF Statement, This, Here
<1>4. Opening(q)
    <2>1. Here.height = Base(Inner, Here.scope) + 0 /\ Lift("statement") = 0
        BY Now, <1>1 DEF Lift
    <2> QED
        BY <1>1, <1>2, <2>1 DEF Opening, Bodies, Statements
<1>5. Starting(q, This, Here)
    <2>1. Inside(q) = q.depth /\ Declares(q) = 0
        BY <1>2 DEF Inside, Declares, Blocks
    <2>2. Keeps(This.locals, This.locals, q.count) /\ Len(This.locals) = q.count + Declares(q)
        BY Now, <1>2, <2>1 DEF Keeps
    <2> QED
        BY <1>2, <2>1, <2>2 DEF Starting
<1>6. /\ inner_loop_depth' = inner_loop_depth /\ compiled' = FALSE
      /\ {had_error', damaged'} \subseteq BOOLEAN /\ agrees' = TRUE
    BY <1>1 DEF Statement, IInv, Typed
<1> QED
    BY Now, <1>1, <1>3, <1>4, <1>5, <1>6, Opens

\* The right operand of `and' starts where the left one did.
LEMMA AndOrStep ==
    ASSUME IInv, AndOr
    PROVE  IInv'
<1> DEFINE h == Here.height - 1
           q == [Open("and") EXCEPT !.height = h]
           c == Emit(This, "opcode")
           r == [Here EXCEPT !.height = h]
<1>1. /\ compiled /\ Len(parse) < MaxNesting
      /\ contexts' = Append(Front(contexts), c) /\ runtime' = Append(Front(runtime), r)
    BY DEF AndOr, AfterExpression, Nested, SetThis, SetHere
<1>2. parse' = Append(parse, q)
    <2>1. Open("and").height = Here.height
        BY DEF Open
    <2>2. parse' = Append(parse, [Open("and") EXCEPT !.height = @ - 1])
        BY DEF AndOr
    <2> QED
        BY <2>1, <2>2
<1>3. h \in Int
    BY Now
<1>4. /\ Open("and") \in Construct /\ Open("and").what = "and"
      /\ Open("and").level = Len(contexts) /\ Open("and").depth = This.scope_depth
      /\ Open("and").count = Len(This.locals) /\ Open("and").scope = Here.scope
    BY OpenProps DEF Expressions
<1>5. /\ q \in Construct /\ q.what = "and" /\ q.level = Len(contexts)
      /\ q.depth = This.scope_depth /\ q.count = Len(This.locals)
      /\ q.scope = Here.scope /\ q.height = h
    BY <1>3, <1>4 DEF Construct
<1>6. /\ c \in Context /\ c.locals = This.locals /\ c.upvalues = This.upvalues
      /\ c.scope_depth = This.scope_depth
    BY Now, EmitProps DEF Kinds
<1>7. r \in Frame /\ r.scope = Here.scope /\ r.height = h
    BY Now, <1>3, Raised
<1>8. h = Here.height - 1
    OBVIOUS
<1> HIDE DEF c, r, q, h
<1>9. Turns(contexts, contexts', c) /\ Runs(runtime, runtime', r)
    BY Now, <1>1, <1>6, <1>7, TurnsSet, RunsSet
<1>10. Opening(q)
    <2>1. Inner.what \notin Statements
        BY Now, <1>1 DEF Statements, Expressions
    <2>2. Here.height = Base(Inner, Here.scope) + 1 /\ Base(Inner, Here.scope) \in Int
        BY Now, <1>1
    <2>3. h = Base(Inner, Here.scope) + 0 /\ Lift("and") = 0
        BY <1>8, <2>2 DEF Lift
    <2> QED
        BY <1>5, <2>1, <2>3 DEF Opening, Bodies, Statements
<1>11. Starting(q, c, r)
    <2>1. Inside(q) = q.depth /\ Declares(q) = 0
        BY <1>5 DEF Inside, Declares, Blocks
    <2>2. Keeps(This.locals, This.locals, q.count) /\ Len(This.locals) = q.count + Declares(q)
        BY Now, <1>5, <2>1 DEF Keeps
    <2> QED
        BY <1>5, <1>6, <1>7, <2>1, <2>2 DEF Starting
<1>12. /\ inner_loop_depth' = inner_loop_depth /\ compiled' = FALSE
      /\ {had_error', damaged'} \subseteq BOOLEAN /\ agrees' = TRUE
    BY DEF AndOr, IInv, Typed
<1> QED
    BY Now, <1>1, <1>2, <1>9, <1>10, <1>11, <1>12, Opens

\* Without the getter the right side is the only value, and without OP_INDEX_GET
\* it is the third.
LEMMA AssignmentStep ==
    ASSUME IInv, Assignment
    PROVE  IInv'
<1> DEFINE back == IF EndsWith(This, "get") THEN -1 ELSE 1
           what == IF back = 1 THEN "store" ELSE "assign"
           h == Here.height + back
           q == [Open(what) EXCEPT !.height = h]
           c == Emit(This, "opcode")
           r == [Here EXCEPT !.height = h]
<1>1. back \in {-1, 1}
    OBVIOUS
<1>2. /\ compiled /\ Len(parse) < MaxNesting
      /\ contexts' = Append(Front(contexts), c) /\ runtime' = Append(Front(runtime), r)
    BY DEF Assignment, AfterExpression, Nested, SetThis, SetHere
<1>3. parse' = Append(parse, q)
    <2>1. Open(what).height = Here.height
        BY DEF Open
    <2>2. parse' = Append(parse, [Open(what) EXCEPT !.height = @ + back])
        BY DEF Assignment
    <2> QED
        BY <2>1, <2>2
<1>4. what \in {"store", "assign"} /\ Lift(what) = back + 1
    BY <1>1 DEF Lift
<1>5. h \in Int
    BY Now, <1>1
<1>6. /\ Open(what) \in Construct /\ Open(what).what = what /\ Open(what).level = Len(contexts)
      /\ Open(what).depth = This.scope_depth /\ Open(what).count = Len(This.locals)
      /\ Open(what).scope = Here.scope
    BY <1>4, OpenProps DEF Expressions
<1>7. /\ q \in Construct /\ q.what = what /\ q.level = Len(contexts)
      /\ q.depth = This.scope_depth /\ q.count = Len(This.locals)
      /\ q.scope = Here.scope /\ q.height = h
    BY <1>5, <1>6 DEF Construct
<1>8. /\ c \in Context /\ c.locals = This.locals /\ c.upvalues = This.upvalues
      /\ c.scope_depth = This.scope_depth
    BY Now, EmitProps DEF Kinds
<1>9. r \in Frame /\ r.scope = Here.scope /\ r.height = h
    BY Now, <1>5, Raised
<1>10. h = Here.height + back
    OBVIOUS
<1> HIDE DEF c, r, q, h, what, back
<1>11. Turns(contexts, contexts', c) /\ Runs(runtime, runtime', r)
    BY Now, <1>2, <1>8, <1>9, TurnsSet, RunsSet
<1>12. Opening(q)
    <2>1. Inner.what \notin Statements
        BY Now, <1>2 DEF Statements, Expressions
    <2>2. Here.height = Base(Inner, Here.scope) + 1 /\ Base(Inner, Here.scope) \in Int
        BY Now, <1>2
    <2>3. h = Base(Inner, Here.scope) + Lift(what)
        BY ONLY <1>1, <1>4, <1>10, <2>2
    <2>4. what \notin {"statement", "let"} /\ what \notin Statements
          /\ what \notin Bodies \cup {"toplevel"}
        BY <1>4 DEF Statements, Bodies
    <2> QED
        BY <1>7, <2>1, <2>3, <2>4 DEF Opening
<1>13. Starting(q, c, r)
    <2>1. Inside(q) = q.depth /\ Declares(q) = 0
        BY <1>4, <1>7 DEF Inside, Declares, Blocks
    <2>2. Keeps(This.locals, This.locals, q.count) /\ Len(This.locals) = q.count + Declares(q)
        BY Now, <1>7, <2>1 DEF Keeps
    <2> QED
        BY <1>7, <1>8, <1>9, <2>1, <2>2 DEF Starting
<1>14. /\ inner_loop_depth' = inner_loop_depth /\ compiled' = FALSE
      /\ {had_error', damaged'} \subseteq BOOLEAN /\ agrees' = TRUE
    BY DEF Assignment, IInv, Typed
<1> QED
    BY Now, <1>2, <1>3, <1>11, <1>12, <1>13, <1>14, Opens


\* do, if and while, where the locals are all there is on the stack.
LEMMA BeginStep ==
    ASSUME IInv, NEW what \in {"do", "if", "while"}, Begin(what), ~BlocksAnywhere
    PROVE  IInv'
<1> DEFINE q == Open(what)
           d == IF what = "do" THEN This ELSE Emit(This, "operand")
           c == [d EXCEPT !.scope_depth = @ + 1]
<1>1. /\ ~compiled /\ parse' = Append(parse, q) /\ Len(parse) < MaxNesting
      /\ Inner.what \in Expressions
    BY Now DEF Begin, AtExpression, Deeper, Expressions
<1>2. /\ q \in Construct /\ q.what = what /\ q.level = Len(contexts)
      /\ q.depth = This.scope_depth /\ q.count = Len(This.locals) /\ q.scope = Here.scope
      /\ q.height = Here.height
    BY OpenProps DEF Statements
<1>3. /\ d \in Context /\ d.locals = This.locals /\ d.upvalues = This.upvalues
      /\ d.scope_depth = This.scope_depth
    BY Now, EmitProps DEF Kinds
<1>4. contexts' = Append(Front(contexts), c)
    BY DEF Begin, SetThis
<1> HIDE DEF d
<1>5. /\ c \in Context /\ c.locals = This.locals /\ c.upvalues = This.upvalues
      /\ c.scope_depth = This.scope_depth + 1
    BY <1>3 DEF Context
<1> HIDE DEF q, c
<1>6. Turns(contexts, contexts', c) /\ Runs(runtime, runtime', Here)
    BY Now, <1>4, <1>5, TurnsSet, RunsSame DEF Begin, Here
<1>7. Opening(q)
    <2>1. Here.height = Base(Inner, Here.scope) + 0 /\ Lift(what) = 0
        BY Now, <1>1 DEF Lift
    <2>2. what \notin {"statement", "let"} /\ what \notin Bodies \cup {"toplevel"}
        BY DEF Bodies
    <2>3. Inner.what \notin Statements
        BY <1>1 DEF Statements, Expressions
    <2>4. Here.height = Len(This.locals)
        BY DEF Begin
    <2>5. Base(Inner, Here.scope) \in Int
        BY Now
    <2> QED
        BY <1>2, <2>1, <2>2, <2>3, <2>4, <2>5 DEF Opening
<1>8. Starting(q, c, Here)
    <2>1. Inside(q) = q.depth + 1 /\ Declares(q) = 0
        BY <1>2 DEF Inside, Declares, Blocks
    <2>2. Keeps(This.locals, This.locals, q.count) /\ Len(This.locals) = q.count + Declares(q)
        BY Now, <1>2, <2>1 DEF Keeps
    <2> QED
        BY <1>2, <1>5, <2>1, <2>2 DEF Starting
<1>9. /\ compiled' = FALSE
      /\ {had_error', damaged'} \subseteq BOOLEAN /\ agrees' = TRUE
    BY <1>1 DEF Begin, IInv, Typed
<1>10. inner_loop_depth' \in Nat \cup {NoLoop}
    <2>1. This.scope_depth \in Nat
        BY Now DEF Context
    <2> QED
        BY Now, <2>1 DEF Begin
<1> QED
    BY <1>1, <1>6, <1>7, <1>8, <1>9, <1>10, Opens

\* A local more.
LEMMA AddLocalProps ==
    ASSUME NEW c \in Context, NEW n \in Name, NEW depth \in Int, Len(c.locals) < LOCALS_LIMIT
    PROVE  LET d == AddLocal(c, n, depth)
               m == Len(c.locals) + 1
           IN  /\ d \in Context /\ d.upvalues = c.upvalues /\ d.scope_depth = c.scope_depth
               /\ Len(d.locals) = m /\ Len(d.locals) \in 1..LOCALS_LIMIT
               /\ d.locals[m] = [name |-> n, depth |-> depth, is_captured |-> FALSE]
               /\ \A j \in 1..Len(c.locals) : d.locals[j] = c.locals[j]
<1> DEFINE e == [name |-> n, depth |-> depth, is_captured |-> FALSE]
           l == Append(c.locals, e)
<1>1. e \in Local /\ c.locals \in Seq(Local) /\ LOCALS_LIMIT \in Nat
    BY LimitsAssumption DEF Local, Context
<1>2. /\ l \in Seq(Local) /\ Len(l) = Len(c.locals) + 1 /\ l[Len(c.locals) + 1] = e
      /\ \A j \in 1..Len(c.locals) : l[j] = c.locals[j]
    BY <1>1, OneMore
<1>3. AddLocal(c, n, depth) = [c EXCEPT !.locals = l]
    BY DEF AddLocal
<1>4. Len(c.locals) \in Nat
    BY <1>1
<1>5. Len(l) \in 1..LOCALS_LIMIT
    BY <1>1, <1>2, <1>4
<1> HIDE DEF l
<1>6. /\ [c EXCEPT !.locals = l] \in Context /\ [c EXCEPT !.locals = l].locals = l
      /\ [c EXCEPT !.locals = l].upvalues = c.upvalues
      /\ [c EXCEPT !.locals = l].scope_depth = c.scope_depth
    BY <1>2 DEF Context
<1> QED
    BY <1>2, <1>3, <1>5, <1>6

\* A variable without a value is a local that no name means yet.
LEMMA LetStep ==
    ASSUME IInv, NEW n \in Name, Let(n)
    PROVE  IInv'
<1> DEFINE q == Open("let")
           d == AddLocal(This, n, Uninit)
           c == IF This.scope_depth = 0 THEN This ELSE d
<1>1. ~compiled /\ parse' = Append(parse, q) /\ Len(parse) < MaxNesting
      /\ Inner.what \in Statements
    BY DEF Let, AtStatement, Nested, Statements
<1>2. /\ q \in Construct /\ q.what = "let" /\ q.level = Len(contexts)
      /\ q.depth = This.scope_depth /\ q.count = Len(This.locals) /\ q.scope = Here.scope
      /\ q.height = Here.height
    BY OpenProps DEF Expressions
<1> HIDE DEF q
<1>3. /\ This \in Context /\ Len(This.locals) \in 1..LOCALS_LIMIT /\ This.scope_depth \in Nat
    BY Now DEF Context
<1>4. This.scope_depth # 0 => Len(This.locals) < LOCALS_LIMIT
    BY DEF Let, CanDeclare
<1>5. This.scope_depth # 0 =>
        /\ d \in Context /\ d.upvalues = This.upvalues /\ d.scope_depth = This.scope_depth
        /\ Len(d.locals) = Len(This.locals) + 1 /\ Len(d.locals) \in 1..LOCALS_LIMIT
        /\ d.locals[Len(This.locals) + 1].depth = Uninit
        /\ \A j \in 1..Len(This.locals) : d.locals[j] = This.locals[j]
    <2>1. Uninit \in Int
        BY DEF Uninit
    <2>2. ASSUME This.scope_depth # 0
          PROVE  /\ d \in Context /\ d.upvalues = This.upvalues
                 /\ d.scope_depth = This.scope_depth
                 /\ Len(d.locals) = Len(This.locals) + 1 /\ Len(d.locals) \in 1..LOCALS_LIMIT
                 /\ d.locals[Len(This.locals) + 1] =
                        [name |-> n, depth |-> Uninit, is_captured |-> FALSE]
                 /\ \A j \in 1..Len(This.locals) : d.locals[j] = This.locals[j]
        BY <1>3, <1>4, <2>1, <2>2, AddLocalProps
    <2> HIDE DEF d
    <2>3. [name |-> n, depth |-> Uninit, is_captured |-> FALSE].depth = Uninit
        OBVIOUS
    <2> QED
        BY <2>2, <2>3
<1>6. /\ This.scope_depth = 0 => contexts' = contexts
      /\ This.scope_depth # 0 => contexts' = Append(Front(contexts), d)
    BY DEF Let, SetThis
<1> HIDE DEF d
<1>7. Turns(contexts, contexts', c) /\ Runs(runtime, runtime', Here)
    <2>1. This.scope_depth = 0 => Turns(contexts, contexts', This)
        BY Now, <1>6, TurnsSame DEF This
    <2>2. This.scope_depth # 0 => Turns(contexts, contexts', d)
        BY Now, <1>5, <1>6, TurnsSet
    <2>3. Runs(runtime, runtime', Here)
        BY Now, RunsSame DEF Let, Here
    <2> QED
        BY <2>1, <2>2, <2>3
<1>8. Opening(q)
    <2>1. Here.height = Base(Inner, Here.scope) + 0 /\ Lift("let") = 0
        BY Now, <1>1 DEF Lift
    <2> QED
        BY <1>1, <1>2, <2>1 DEF Opening, Bodies, Statements
<1>9. Starting(q, c, Here)
    <2>1. Inside(q) = q.depth
        BY <1>2 DEF Inside, Blocks
    <2>2. CASE This.scope_depth = 0
        <3>1. Declares(q) = 0
            BY <1>2, <2>2 DEF Declares
        <3>2. Keeps(This.locals, c.locals, q.count) /\ Len(c.locals) = q.count + Declares(q)
            BY <1>2, <1>3, <2>2, <3>1 DEF Keeps
        <3> QED
            BY <1>2, <2>1, <2>2, <3>1, <3>2 DEF Starting
    <2>3. CASE This.scope_depth # 0
        <3>1. Declares(q) = 1
            BY <1>2, <1>3, <2>3 DEF Declares
        <3>2. Keeps(This.locals, c.locals, q.count) /\ Len(c.locals) = q.count + Declares(q)
            BY <1>2, <1>3, <1>5, <2>3, <3>1 DEF Keeps
        <3>3. c.locals[Len(c.locals)].depth = Uninit
            BY <1>2, <1>5, <2>3
        <3> QED
            BY <1>2, <1>5, <2>1, <2>3, <3>2, <3>3 DEF Starting
    <2> QED
        BY <2>2, <2>3
<1>10. /\ inner_loop_depth' = inner_loop_depth /\ compiled' = FALSE
       /\ {had_error', damaged'} \subseteq BOOLEAN /\ agrees' = TRUE
    BY <1>1 DEF Let, IInv, Typed
<1> HIDE DEF c
<1> QED
    BY Now, <1>1, <1>7, <1>8, <1>9, <1>10, Opens


-----------------------------------------------------------------------------
\* The end of a construct

\* The locals unwind_stack leaves: the last that is not in the scope, and those below it.
LEMMA KeptIs ==
    ASSUME NEW c \in Context, NEW depth \in Nat, NEW m \in 1..Len(c.locals),
           c.locals[m].depth < depth,
           \A j \in (m + 1)..Len(c.locals) : c.locals[j].depth = depth
    PROVE  Kept(c, depth) = m
<1> DEFINE l == c.locals
           I == { j \in 1..Len(l) : l[j].depth < depth }
<1>1. Len(l) \in Nat
    BY DEF Context
<1>2. m \in I
    OBVIOUS
<1>3. \A j \in I : j <= m
    <2> SUFFICES ASSUME NEW j \in I, j > m PROVE FALSE
        BY <1>1
    <2>1. j \in (m + 1)..Len(l)
        BY <1>1
    <2> QED
        BY <2>1
<1>4. I \in SUBSET Nat /\ I # {}
    BY <1>2
<1>5. Kept(c, depth) = Max(I)
    BY <1>4 DEF Kept, SelectLastInSeq
<1> HIDE DEF I
<1>6. m \in Nat
    BY <1>1
<1>7. Max(I) \in I /\ \A j \in I : Max(I) >= j
    BY <1>3, <1>4, <1>6, MaxProps
<1>8. Max(I) \in Nat
    BY <1>4, <1>7
<1> QED
    BY <1>2, <1>3, <1>5, <1>6, <1>7, <1>8

\* The value of a block is left on the stack by an instruction that is there.
LEMMA LoadedProps ==
    ASSUME NEW c \in Context
    PROVE  /\ Loaded(c) \in Context
           /\ Loaded(c).locals = c.locals /\ Loaded(c).upvalues = c.upvalues
           /\ Loaded(c).scope_depth = c.scope_depth /\ Loaded(c).tail \in Whole
<1>1. CASE EndsWith(c, "save_x")
    <2>1. c.tail \in Tails
        BY DEF Context
    <2>2. \A a \in Kinds : Last(<<a>>) # "save_x"
        BY DEF Last, Kinds
    <2>3. PICK a \in Kinds : c.tail = <<a, "save_x">>
        BY <1>1, <2>1, <2>2 DEF EndsWith, Tails, Whole
    <2> DEFINE s == <<a, "save_x">>
               f == Front(s)
    <2>4. s \in Seq(Kinds \cup {"save_x"}) /\ s # <<>> /\ Len(s) = 2 /\ s[1] = a
        OBVIOUS
    <2> HIDE DEF s
    <2>5. f \in Seq(Kinds \cup {"save_x"}) /\ Len(f) = 1 /\ f[1] = a
        <3>1. Len(f) = Len(s) - 1 /\ f \in Seq(Kinds \cup {"save_x"})
              /\ \A i \in 1..(Len(s) - 1) : f[i] = s[i]
            BY <2>4, FrontProps DEF f
        <3> QED
            BY <2>4, <3>1
    <2> HIDE DEF f
    <2>6. f = <<a>>
        BY <2>5
    <2>7. Loaded(c) = [c EXCEPT !.tail = <<a>>]
        BY <1>1, <2>3, <2>6 DEF Loaded, f, s
    <2>8. <<a>> \in Whole /\ <<a>> \in Tails
        BY DEF Whole, Tails
    <2> QED
        BY <2>7, <2>8 DEF Context
<1>2. CASE ~EndsWith(c, "save_x")
    BY <1>2, EmitProps DEF Loaded, Kinds
<1> QED
    BY <1>1, <1>2

\* The running function once the scope of a block has ended.
LEMMA EndedProps ==
    ASSUME IInv, Inner.what \in Blocks
    PROVE  /\ Kept(This, This.scope_depth) = Inner.count
           /\ Ended(This) \in Context /\ Ended(This).upvalues = This.upvalues
           /\ Ended(This).scope_depth = Inner.depth
           /\ Len(Ended(This).locals) = Inner.count
           /\ \A j \in 1..Inner.count : Ended(This).locals[j] = This.locals[j]
<1> DEFINE l == This.locals
           m == Inner.count
           depth == This.scope_depth
<1>1. /\ This \in Context /\ l \in Seq(Local) /\ Len(l) \in Nat /\ m \in 1..Len(l)
      /\ depth = Inner.depth + 1 /\ depth \in Nat /\ Inner.depth \in Nat
    BY Now DEF Inside, Context, Opened
<1>2. l[m].depth <= Inner.depth /\ l[m].depth \in Int
    <2>1. l[m] \in Local
        BY <1>1
    <2>2. m \in 1..m
        BY <1>1
    <2>3. Opened(Inner, l)
        BY Now
    <2> QED
        BY <2>1, <2>2, <2>3 DEF Opened, Local
<1>3. \A j \in (m + 1)..Len(l) : l[j].depth = depth
    <2>1. Inner.what \in Statements
        BY DEF Blocks, Statements
    <2> QED
        BY Now, <2>1 DEF Reached
<1>4. l[m].depth < depth
    BY <1>1, <1>2
<1> HIDE DEF m, depth
<1>5. Kept(This, depth) = m
    BY <1>1, <1>3, <1>4, KeptIs
<1> DEFINE d == Truncate(This, depth)
           kind == IF Closing(This, depth) THEN "opcode" ELSE "operand"
           u == Unwind(This, depth)
<1>6. m \in 0..Len(l)
    BY <1>1
<1>7. /\ SubSeq(l, 1, m) \in Seq(Local) /\ Len(SubSeq(l, 1, m)) = m
      /\ \A j \in 1..m : SubSeq(l, 1, m)[j] = l[j]
    BY <1>1, <1>6, PrefixProps
<1>8. d = [This EXCEPT !.locals = SubSeq(l, 1, m)]
    BY <1>5 DEF Truncate
<1>9. /\ d \in Context /\ d.locals = SubSeq(l, 1, m) /\ d.upvalues = This.upvalues
      /\ d.scope_depth = depth
    BY <1>1, <1>7, <1>8 DEF Context, depth
<1>10. kind \in Kinds
    BY DEF Kinds
<1> HIDE DEF d, kind
<1>11. Emit(d, kind) \in Context /\ Emit(d, kind).locals = d.locals
       /\ Emit(d, kind).upvalues = d.upvalues /\ Emit(d, kind).scope_depth = d.scope_depth
    BY <1>9, <1>10, EmitProps
<1>12. /\ u \in Context /\ u.upvalues = This.upvalues /\ u.scope_depth = depth
       /\ Len(u.locals) = m /\ \A j \in 1..m : u.locals[j] = l[j]
    <2>1. CASE m = Len(l)
        <3>1. u = This
            BY <1>5, <2>1 DEF Unwind
        <3> QED
            BY <1>1, <2>1, <3>1 DEF depth
    <2>2. CASE m # Len(l)
        <3>1. u = Emit(d, kind)
            BY <1>5, <2>2 DEF Unwind, d, kind
        <3> QED
            BY <1>7, <1>9, <1>11, <3>1
    <2> QED
        BY <2>1, <2>2
<1>13. Ended(This) = [u EXCEPT !.scope_depth = depth - 1]
    BY <1>12 DEF Ended, depth
<1> HIDE DEF u
<1>14. /\ Ended(This) \in Context /\ Ended(This).locals = u.locals
       /\ Ended(This).upvalues = u.upvalues /\ Ended(This).scope_depth = Inner.depth
    <2>1. depth - 1 = Inner.depth /\ Inner.depth \in Nat
        BY <1>1 DEF depth
    <2>2. Ended(This) = [u EXCEPT !.scope_depth = Inner.depth]
        BY <1>13, <2>1
    <2> QED
        BY <1>12, <2>1, <2>2 DEF Context
<1> QED
    BY <1>5, <1>12, <1>14 DEF m, depth

\* The variables of the frame then.
LEMMA MatchedPrefix ==
    ASSUME NEW l, NEW c \in Nat, NEW s \in Seq(Binding), Matched(l, c, s),
           NEW m \in Nat, NEW r \in Seq(Binding), Matched(l, m, r), Extends(r, s),
           NEW k, Keeps(l, k, m)
    PROVE  Matched(k, m, SubSeq(s, 1, Len(r)))
<1> DEFINE t == SubSeq(s, 1, Len(r))
<1>1. Len(r) \in 0..Len(s)
    BY DEF Extends
<1>2. /\ t \in Seq(Binding) /\ DOMAIN t = 1..Len(r) /\ \A j \in 1..Len(r) : t[j] = s[j]
      /\ DOMAIN r = 1..Len(r)
    BY <1>1, PrefixProps
<1> HIDE DEF t
<1>3. \A j \in 1..Len(r) : j \in DOMAIN r /\ j \in DOMAIN s /\ t[j].slot = r[j].slot
    BY <1>1, <1>2 DEF Extends
<1>4. ASSUME NEW j \in DOMAIN t
      PROVE  /\ t[j].slot \in 1..(m - 1)
             /\ l[t[j].slot + 1].name = t[j].name
             /\ l[t[j].slot + 1].depth # Uninit
             /\ t[j].captured => l[t[j].slot + 1].is_captured
    BY <1>2, <1>3 DEF Matched
<1>5. \A i, j \in DOMAIN t : i < j => t[i].slot < t[j].slot
    BY <1>2, <1>3 DEF Matched
<1>6. \A i \in 2..m : l[i].depth # Uninit => \E j \in DOMAIN t : t[j].slot = i - 1
    BY <1>2, <1>3 DEF Matched
<1>7. Matched(l, m, t)
    BY <1>4, <1>5, <1>6 DEF Matched
<1> QED
    BY <1>2, <1>7, MatchedKept DEF t


\* The construct around the innermost one.
Around == parse[Len(parse) - 1]

\* What the end of the innermost construct makes of the one around it.
Ending(c, r, now) ==
    /\ Keeps(This.locals, c.locals, Around.count) /\ Framed(c, r)
    /\ c.upvalues = This.upvalues
    /\ Stands(Around, c, r, IF now THEN 1 ELSE 0)
    /\ now => Around.what \in Expressions /\ c.tail \in Whole

\* The steps that close a construct.
LEMMA Closes ==
    ASSUME IInv, NEW c, NEW r,
           Turns(contexts, contexts', c), Runs(runtime, runtime', r),
           parse' = Front(parse), Inner.what \notin Bodies \cup {"toplevel"},
           Ending(c, r, compiled'),
           inner_loop_depth' \in Nat \cup {NoLoop}, compiled' \in BOOLEAN,
           {had_error', damaged'} \subseteq BOOLEAN, agrees' = TRUE
    PROVE  IInv'
<1>1. Stack(parse, contexts', runtime') /\ c \in Context /\ r \in Frame
      /\ Sets(contexts, contexts', c) /\ Sets(runtime, runtime', r)
    BY Now, StackTurns
<1>2. Len(parse) > 1
    BY Now, Outer DEF Inner
<1>3. parse' \in Seq(Construct) /\ Shaped(parse', contexts', runtime', compiled')
    BY Now, <1>1, Pops DEF This, Here, Inner, Ending, Around
<1>4. Len(parse') \in 1..MaxNesting
    <2>1. Len(parse') = Len(parse) - 1
        BY Now, FrontProps
    <2> QED
        BY Now, <1>2, <2>1
<1> QED
    BY Now, <1>3, <1>4, Next_IInv

\* The construct around the innermost one, in the same function.
LEMMA AroundProps ==
    ASSUME IInv, Inner.what \notin Bodies \cup {"toplevel"}
    PROVE  /\ Around \in Construct /\ Around.level = Len(contexts)
           /\ Opened(Around, This.locals) /\ Follows(Around, Inner, This.locals)
           /\ Around.count \in Nat \ {0} /\ Around.count <= Inner.count
           /\ Inner.count <= Len(This.locals)
           /\ Around.scope \in Seq(Binding) /\ Len(Around.scope) \in Nat
           /\ Around.height \in Int /\ Around.depth \in Nat
           /\ Inner.height = Around.height + Len(Inner.scope) - Len(Around.scope)
                                + Lift(Inner.what)
           /\ Extends(Around.scope, Here.scope) /\ Extends(Inner.scope, Here.scope)
           /\ Extends(Around.scope, Inner.scope)
<1>1. /\ Around \in Construct /\ Around.level = Len(contexts)
      /\ Follows(Around, Inner, This.locals) /\ Around.count <= Inner.count
      /\ Opened(Around, contexts[Around.level].locals)
    BY Now, Outer DEF Around, Inner, This
<1>2. This = contexts[Len(contexts)]
    BY DEF This, Last
<1>3. Opened(Around, This.locals) /\ Inner.count <= Len(This.locals)
    BY Now, <1>1, <1>2, SMTT(30) DEF Opened
<1>4. /\ Around.count \in Nat /\ Around.scope \in Seq(Binding) /\ Len(Around.scope) \in Nat
      /\ Around.height \in Int /\ Around.depth \in Nat
    BY <1>1 DEF Construct
<1>5. Around.count # 0
    BY <1>3 DEF Opened
<1>6. Inner.height = Around.height + Len(Inner.scope) - Len(Around.scope) + Lift(Inner.what)
    BY <1>1 DEF Follows, Base
<1>7. Extends(Around.scope, Inner.scope) /\ Extends(Inner.scope, Here.scope)
    BY Now, <1>1 DEF Follows, Reached
<1>8. Extends(Around.scope, Here.scope)
    BY Now, <1>4, <1>7, ExtendsTransitive
<1> QED
    BY <1>1, <1>3, <1>4, <1>5, <1>6, <1>7, <1>8

\* The function is again where it was when an expression without declarations began.
LEMMA Returned ==
    ASSUME IInv, compiled, Inner.what \notin Bodies \cup {"toplevel"},
           Declares(Inner) = 0, NEW c \in Context, NEW r \in Frame, NEW now \in BOOLEAN,
           c.locals = This.locals, c.upvalues = This.upvalues,
           c.scope_depth = This.scope_depth, r.scope = Here.scope,
           r.height = Here.height - 1 - Lift(Inner.what) + (IF now THEN 1 ELSE 0),
           now => Around.what \in Expressions /\ c.tail \in Whole
    PROVE  Ending(c, r, now)
<1>1. Inner.what \in Expressions /\ Inner.what \notin Statements /\ Inner.what \notin Blocks
    BY Now DEF Expressions, Statements, Blocks
<1>2. Len(Here.scope) = Len(Inner.scope) /\ Len(This.locals) = Inner.count
    BY Now, <1>1 DEF Reached
<1>3. Keeps(This.locals, c.locals, Around.count)
    <2>1. Around.count <= Len(This.locals)
        BY Now, AroundProps DEF Opened
    <2> QED
        BY <2>1 DEF Keeps
<1>4. Framed(c, r)
    BY Now DEF Framed
<1>5. c.scope_depth = Inside(Around)
    BY Now, <1>1, AroundProps DEF Follows, Inside
<1>6. Reached(Around, c.locals, r.scope, Len(c.locals))
    <2>1. Reached(Around, This.locals, Inner.scope, Inner.count)
        BY AroundProps DEF Follows
    <2> QED
        BY <1>2, <2>1, AroundProps DEF Reached
<1>7. r.height = Base(Around, r.scope) + (IF now THEN 1 ELSE 0)
    <2> DEFINE x == IF now THEN 1 ELSE 0
               e == Lift(Inner.what)
               i == Len(Inner.scope)
               m == Len(Around.scope)
               n == Len(Here.scope)
               hi == Inner.height
               hm == Around.height
               hn == Here.height
    <2>1. /\ hn = hi + n - i + 1 /\ hi = hm + i - m + e /\ n = i
          /\ hn \in Int /\ hi \in Int /\ hm \in Int /\ n \in Nat /\ i \in Nat /\ m \in Nat
        BY Now, <1>2, AroundProps DEF Base
    <2>2. Base(Around, r.scope) = hm + n - m
        BY DEF Base
    <2>3. e \in Int /\ x \in Int
        BY DEF Lift
    <2>4. r.height = hn - 1 - e + x
        OBVIOUS
    <2> HIDE DEF x, e, i, m, n, hi, hm, hn
    <2>5. hn - 1 - e + x = hm + n - m + x
        BY ONLY <2>1, <2>3
    <2>6. r.height = Base(Around, r.scope) + x
        BY ONLY <2>2, <2>4, <2>5
    <2> QED
        BY <2>6 DEF x
<1>8. Stands(Around, c, r, IF now THEN 1 ELSE 0)
    BY <1>5, <1>6, <1>7 DEF Stands
<1> QED
    BY <1>3, <1>4, <1>8 DEF Ending

\* The operation leaves one value of its operands.
LEMMA FinishOperandStep ==
    ASSUME IInv, NEW kind \in {"opcode", "index"}, FinishOperand(kind)
    PROVE  IInv'
<1> DEFINE k == IF Inner.what = "assign" THEN "operand" ELSE kind
           c == Emit(This, k)
           h == CASE Inner.what = "assign"  -> Here.height
                  [] Inner.what = "operand" -> Here.height - 1
                  [] Inner.what = "store"   -> Here.height - 2
           r == [Here EXCEPT !.height = h]
<1>1. /\ compiled /\ Inner.what \in {"operand", "assign", "store"} /\ parse' = Front(parse)
      /\ contexts' = Append(Front(contexts), c) /\ runtime' = Append(Front(runtime), r)
    BY DEF FinishOperand, AfterExpression, SetThis, SetHere
<1>2. k \in Kinds
    BY DEF Kinds
<1>3. h = Here.height - 1 - Lift(Inner.what) + 1 /\ h \in Int
    <2>1. Here.height \in Int
        BY Now
    <2> HIDE DEF k, c
    <2> QED
        BY <1>1, <2>1 DEF Lift
<1> HIDE DEF k, h
<1>4. /\ c \in Context /\ c.locals = This.locals /\ c.upvalues = This.upvalues
      /\ c.scope_depth = This.scope_depth /\ c.tail \in Whole
    BY Now, <1>2, EmitProps
<1>5. r \in Frame /\ r.scope = Here.scope /\ r.height = h
    <2>1. Here \in Frame
        BY Now
    <2> QED
        BY <1>3, <2>1, Raised
<1> HIDE DEF c, r
<1>6. Turns(contexts, contexts', c) /\ Runs(runtime, runtime', r)
    BY Now, <1>1, <1>4, <1>5, TurnsSet, RunsSet
<1>7. Inner.what \notin Bodies \cup {"toplevel"} /\ Declares(Inner) = 0
      /\ Inner.what \notin {"statement", "let"}
    BY <1>1 DEF Bodies, Declares
<1>8. Around.what \in Expressions
    <2>1. Around.what \notin Statements
        BY <1>7, AroundProps DEF Follows
    <2> QED
        BY <1>7, <2>1, AroundProps DEF Construct
<1>9. Ending(c, r, TRUE)
    <2>1. r.height = Here.height - 1 - Lift(Inner.what) + (IF TRUE THEN 1 ELSE 0)
        BY <1>3, <1>5
    <2> QED
        BY <1>1, <1>4, <1>5, <1>7, <1>8, <2>1, Returned
<1>10. /\ inner_loop_depth' = inner_loop_depth /\ compiled' = TRUE
       /\ {had_error', damaged'} \subseteq BOOLEAN /\ agrees' = TRUE
    BY <1>1 DEF FinishOperand, IInv, Typed
<1> QED
    BY Now, <1>1, <1>6, <1>7, <1>9, <1>10, Closes


\* ... and `and' the value of either.
LEMMA FinishAndOrStep ==
    ASSUME IInv, FinishAndOr
    PROVE  IInv'
<1> DEFINE k == IF EndsWith(This, "get") \/ EndsWith(This, "operand") THEN "operand" ELSE "opcode"
           c == Emit(This, k)
<1>1. /\ compiled /\ Inner.what = "and" /\ parse' = Front(parse)
      /\ contexts' = Append(Front(contexts), c)
    BY DEF FinishAndOr, AfterExpression, SetThis
<1>2. k \in Kinds
    BY DEF Kinds
<1> HIDE DEF k
<1>3. /\ c \in Context /\ c.locals = This.locals /\ c.upvalues = This.upvalues
      /\ c.scope_depth = This.scope_depth /\ c.tail \in Whole
    BY Now, <1>2, EmitProps
<1> HIDE DEF c
<1>4. Turns(contexts, contexts', c)
    BY Now, <1>1, <1>3, TurnsSet
<1>5. Runs(runtime, runtime', Here)
    BY Now, RunsSame DEF FinishAndOr, Here
<1>6. Inner.what \notin Bodies \cup {"toplevel"} /\ Declares(Inner) = 0
      /\ Inner.what \notin {"statement", "let"}
    BY <1>1 DEF Bodies, Declares
<1>7. Around.what \in Expressions
    <2>1. Around.what \notin Statements
        BY <1>6, AroundProps DEF Follows
    <2> QED
        BY <1>6, <2>1, AroundProps DEF Construct
<1>8. Ending(c, Here, TRUE)
    <2>1. Here.height = Here.height - 1 - Lift(Inner.what) + (IF TRUE THEN 1 ELSE 0)
        BY Now, <1>1 DEF Lift
    <2>2. Here \in Frame
        BY Now
    <2> QED
        BY <1>1, <1>3, <1>6, <1>7, <2>1, <2>2, Returned
<1>9. /\ inner_loop_depth' = inner_loop_depth /\ compiled' = TRUE
      /\ {had_error', damaged'} \subseteq BOOLEAN /\ agrees' = TRUE
    BY <1>1 DEF FinishAndOr, IInv, Typed
<1> QED
    BY Now, <1>1, <1>4, <1>5, <1>6, <1>8, <1>9, Closes

\* A statement leaves nothing.
LEMMA FinishStatementStep ==
    ASSUME IInv, NEW kind \in {"save_x", "opcode"}, FinishStatement(kind)
    PROVE  IInv'
<1> DEFINE c == Emit(This, kind)
           h == Here.height - 1
           r == [Here EXCEPT !.height = h]
<1>1. /\ compiled /\ Inner.what = "statement" /\ parse' = Front(parse)
      /\ contexts' = Append(Front(contexts), c) /\ runtime' = Append(Front(runtime), r)
      /\ compiled' = FALSE
    BY DEF FinishStatement, AfterExpression, SetThis, SetHere
<1>2. /\ c \in Context /\ c.locals = This.locals /\ c.upvalues = This.upvalues
      /\ c.scope_depth = This.scope_depth
    BY Now, <1>1, EmitProps DEF Kinds
<1>3. h = Here.height - 1 - 0 + 0 /\ h \in Int
    <2>1. Here.height \in Int
        BY Now
    <2> QED
        BY <2>1
<1> HIDE DEF h
<1>4. r \in Frame /\ r.scope = Here.scope /\ r.height = h
    <2>1. Here \in Frame
        BY Now
    <2> QED
        BY <1>3, <2>1, Raised
<1> HIDE DEF c, r
<1>5. Turns(contexts, contexts', c) /\ Runs(runtime, runtime', r)
    BY Now, <1>1, <1>2, <1>4, TurnsSet, RunsSet
<1>6. Inner.what \notin Bodies \cup {"toplevel"} /\ Declares(Inner) = 0 /\ Lift(Inner.what) = 0
    BY <1>1 DEF Bodies, Declares, Lift
<1>7. Ending(c, r, FALSE)
    <2>1. r.height = Here.height - 1 - Lift(Inner.what) + (IF FALSE THEN 1 ELSE 0)
        BY <1>3, <1>4, <1>6
    <2> QED
        BY <1>1, <1>2, <1>4, <1>6, <2>1, Returned
<1>8. /\ inner_loop_depth' = inner_loop_depth
      /\ {had_error', damaged'} \subseteq BOOLEAN /\ agrees' = TRUE
    BY <1>1 DEF FinishStatement, IInv, Typed
<1> QED
    BY Now, <1>1, <1>5, <1>6, <1>7, <1>8, Closes

\* A local and the variable it stands for are declared.
LEMMA MatchedBind ==
    ASSUME NEW l, NEW k, NEW m \in Nat \ {0}, NEW s \in Seq(Binding), Matched(l, m, s),
           Keeps(l, k, m), NEW b \in Binding, b.slot = m, b.captured = FALSE,
           k[m + 1].name = b.name, k[m + 1].depth # Uninit
    PROVE  Append(s, b) \in Seq(Binding) /\ Matched(k, m + 1, Append(s, b))
<1> DEFINE t == Append(s, b)
           n == Len(s)
<1>1. /\ t \in Seq(Binding) /\ Len(t) = n + 1 /\ t[n + 1] = b
      /\ \A j \in 1..n : t[j] = s[j]
    BY OneMore
<1>2. n \in Nat /\ DOMAIN s = 1..n
    OBVIOUS
<1> HIDE DEF t
<1>3. DOMAIN t = 1..(n + 1)
    BY <1>1, <1>2
<1>4. Matched(k, m, s)
    BY MatchedKept
<1>5. ASSUME NEW j \in DOMAIN t
      PROVE  /\ t[j].slot \in 1..m
             /\ k[t[j].slot + 1].name = t[j].name
             /\ k[t[j].slot + 1].depth # Uninit
             /\ t[j].captured => k[t[j].slot + 1].is_captured
    <2>1. CASE j = n + 1
        BY <1>1, <2>1
    <2>2. CASE j # n + 1
        <3>1. j \in DOMAIN s /\ t[j] = s[j]
            BY <1>1, <1>2, <1>3, <2>2
        <3> QED
            BY <1>4, <3>1 DEF Matched
    <2> QED
        BY <2>1, <2>2
<1>6. ASSUME NEW i \in DOMAIN t, NEW j \in DOMAIN t, i < j PROVE t[i].slot < t[j].slot
    <2>1. i \in DOMAIN s /\ t[i] = s[i]
        BY <1>1, <1>2, <1>3, <1>6
    <2>2. CASE j = n + 1
        <3>1. s[i].slot \in 1..(m - 1)
            BY <1>4, <2>1 DEF Matched
        <3> QED
            BY <1>1, <2>1, <2>2, <3>1
    <2>3. CASE j # n + 1
        <3>1. j \in DOMAIN s /\ t[j] = s[j]
            BY <1>1, <1>2, <1>3, <2>3
        <3> QED
            BY <1>4, <1>6, <2>1, <3>1 DEF Matched
    <2> QED
        BY <2>2, <2>3
<1>7. ASSUME NEW i \in 2..(m + 1), k[i].depth # Uninit
      PROVE  \E j \in DOMAIN t : t[j].slot = i - 1
    <2>1. CASE i = m + 1
        <3>1. n + 1 \in DOMAIN t /\ t[n + 1].slot = i - 1
            BY <1>1, <1>2, <1>3, <2>1
        <3> QED
            BY <3>1
    <2>2. CASE i # m + 1
        <3>1. i \in 2..m
            BY <2>2
        <3>2. PICK j \in DOMAIN s : s[j].slot = i - 1
            BY <1>4, <1>7, <3>1 DEF Matched
        <3>3. j \in DOMAIN t /\ t[j] = s[j]
            BY <1>1, <1>2, <1>3
        <3> QED
            BY <3>2, <3>3
    <2> QED
        BY <2>1, <2>2
<1>8. m = (m + 1) - 1
    OBVIOUS
<1>9. Matched(k, m + 1, t)
    BY <1>5, <1>6, <1>7, <1>8 DEF Matched
<1> QED
    BY <1>1, <1>9 DEF t

\* The last local is not initialised: it is no variable.
LEMMA MatchedLess ==
    ASSUME NEW l, NEW m \in Nat \ {0}, NEW s \in Seq(Binding), Matched(l, m + 1, s),
           l[m + 1].depth = Uninit
    PROVE  Matched(l, m, s)
<1>1. ASSUME NEW j \in DOMAIN s PROVE s[j].slot \in 1..(m - 1)
    <2>1. s[j].slot \in 1..m /\ l[s[j].slot + 1].depth # Uninit
        BY DEF Matched
    <2> QED
        BY <2>1
<1>2. \A i \in 2..m : l[i].depth # Uninit => \E j \in DOMAIN s : s[j].slot = i - 1
    BY DEF Matched
<1> QED
    BY <1>1, <1>2 DEF Matched


\* A variable of a function becomes one more than the construct has got to.
LEMMA ReachedBind ==
    ASSUME NEW p \in Construct, p.what \in Statements, NEW m \in Nat \ {0}, NEW l,
           NEW s \in Seq(Binding), Reached(p, l, s, m), Opened(p, l), NEW u \in Seq(Binding),
           NEW b \in Binding, Extends(s, u), Len(u) = Len(s),
           NEW k, Keeps(l, k, m), k[m + 1].depth = Inside(p)
    PROVE  Reached(p, k, Append(u, b), m + 1) /\ Base(p, Append(u, b)) = m + 1 /\ Base(p, s) = m
<1> DEFINE t == Append(u, b)
           i == Len(p.scope)
           n == Len(s)
           h == p.height
           e == p.count
<1>1. p.scope \in Seq(Binding) /\ i \in Nat /\ n \in Nat /\ h \in Int /\ e \in Nat
    BY DEF Construct
<1>2. h = e /\ m - e = n - i /\ Extends(p.scope, s)
    BY DEF Opened, Reached
<1>3. Base(p, s) = h + n - i /\ Base(p, t) = h + Len(t) - i
    BY DEF Base
<1>4. /\ t \in Seq(Binding) /\ Len(t) = n + 1 /\ \A j \in 1..n : t[j] = u[j]
    BY <1>1, OneMore
<1> HIDE DEF t
<1>5. Extends(u, t)
    BY <1>1, <1>4 DEF Extends
<1>6. Extends(p.scope, t)
    BY <1>1, <1>2, <1>4, <1>5, ExtendsTransitive
<1>7. \A j \in (e + 1)..(m + 1) : k[j].depth = Inside(p)
    <2> SUFFICES ASSUME NEW j \in (e + 1)..(m + 1) PROVE k[j].depth = Inside(p)
        OBVIOUS
    <2>1. CASE j = m + 1
        BY <2>1
    <2>2. CASE j # m + 1
        <3>1. j \in (e + 1)..m /\ j \in 1..m
            BY <1>1, <2>2
        <3> QED
            BY <3>1 DEF Reached, Keeps
    <2> QED
        BY <2>1, <2>2
<1> HIDE DEF i, n, h, e
<1>8. h + n - i = m /\ (m + 1) - e = Len(t) - i /\ h + Len(t) - i = m + 1
    BY ONLY <1>1, <1>2, <1>4
<1>9. Reached(p, k, t, m + 1)
    BY <1>6, <1>7, <1>8 DEF Reached, i, e
<1> QED
    BY <1>3, <1>8, <1>9 DEF t

\* Another element in a sequence.
LEMMA ExceptProps ==
    ASSUME NEW S, NEW s \in Seq(S), NEW i \in 1..Len(s), NEW e \in S
    PROVE  /\ [s EXCEPT ![i] = e] \in Seq(S) /\ Len([s EXCEPT ![i] = e]) = Len(s)
           /\ DOMAIN [s EXCEPT ![i] = e] = DOMAIN s
           /\ [s EXCEPT ![i] = e][i] = e
           /\ \A j \in 1..Len(s) : j # i => [s EXCEPT ![i] = e][j] = s[j]
OBVIOUS

\* The fields of a local, whatever its name may be.
LEMMA FieldProps ==
    ASSUME NEW M, NEW e \in [name : M, depth : Int, is_captured : BOOLEAN],
           NEW d \in Int, NEW b \in BOOLEAN
    PROVE  /\ [e EXCEPT !.depth = d] \in [name : M, depth : Int, is_captured : BOOLEAN]
           /\ [e EXCEPT !.depth = d].name = e.name /\ [e EXCEPT !.depth = d].depth = d
           /\ [e EXCEPT !.is_captured = b] \in [name : M, depth : Int, is_captured : BOOLEAN]
           /\ [e EXCEPT !.is_captured = b].name = e.name
           /\ [e EXCEPT !.is_captured = b].is_captured = b
           /\ [e EXCEPT !.is_captured = b].depth = e.depth /\ e.name \in M
OBVIOUS

\* A mark and a depth do not change the other fields of a local.
LEMMA LocalProps ==
    ASSUME NEW e \in Local, NEW d \in Int, NEW b \in BOOLEAN
    PROVE  /\ [e EXCEPT !.depth = d] \in Local
           /\ [e EXCEPT !.depth = d].name = e.name /\ [e EXCEPT !.depth = d].depth = d
           /\ [e EXCEPT !.is_captured = b] \in Local
           /\ [e EXCEPT !.is_captured = b].name = e.name
           /\ [e EXCEPT !.is_captured = b].is_captured = b
           /\ [e EXCEPT !.is_captured = b].depth = e.depth /\ e.name \in Name \cup {""}
BY FieldProps DEF Local

\* The local gets its depth.
LEMMA InitialisedLocal ==
    ASSUME NEW e \in Local, NEW depth \in Nat
    PROVE  /\ [e EXCEPT !.depth = depth] \in Local
           /\ [e EXCEPT !.depth = depth].name = e.name
           /\ [e EXCEPT !.depth = depth].depth = depth /\ e.name \in Name \cup {""}
           /\ depth # Uninit
<1>1. depth # Uninit
    BY DEF Uninit
<1>2. depth \in Int /\ TRUE \in BOOLEAN
    OBVIOUS
<1> QED
    BY <1>1, <1>2, LocalProps

\* The variable a declaration declares: it has the slot of its value.
LEMMA LetEnds ==
    ASSUME IInv, compiled, Inner.what = "let", This.scope_depth # 0,
           NEW c, c = [This EXCEPT !.locals[Len(This.locals)].depth = This.scope_depth],
           NEW r, r = Bind(Here, Last(This.locals).name, Here.height - 1)
    PROVE  c \in Context /\ r \in Frame /\ Len(c.locals) = Len(This.locals) /\ Ending(c, r, FALSE)
<1> DEFINE l == This.locals
           m == Inner.count
           sd == This.scope_depth
           name == l[m + 1].name
           b == [name |-> name, slot |-> m, captured |-> FALSE]
           e == [l[m + 1] EXCEPT !.depth = sd]
           k == [l EXCEPT ![m + 1] = e]
<1>1. /\ This \in Context /\ l \in Seq(Local) /\ Len(l) \in Nat /\ m \in Nat \ {0} /\ sd \in Nat
      /\ Here \in Frame /\ Here.scope \in Seq(Binding)
    BY Now DEF Context
<1>2. Inner.what \notin Bodies \cup {"toplevel"} /\ Inner.what \notin Statements
      /\ Inside(Inner) = Inner.depth
    BY DEF Bodies, Statements, Inside, Blocks
<1>3. /\ Around \in Construct /\ Around.what \in Statements /\ Opened(Around, l)
      /\ Reached(Around, l, Inner.scope, m) /\ sd = Inside(Around) /\ Around.count <= m
      /\ Around.count \in Nat
    BY Now, <1>2, AroundProps DEF Follows
<1>4. Declares(Inner) = 1
    BY Now, <1>2 DEF Declares
<1>5. /\ Len(Here.scope) = Len(Inner.scope) /\ Len(l) = m + 1 /\ l[m + 1].depth = Uninit
      /\ Extends(Inner.scope, Here.scope)
    BY Now, <1>2, <1>4 DEF Reached
<1>6. l[m + 1] \in Local
    BY <1>1, <1>5
<1>7. e \in Local /\ e.name = name /\ e.depth = sd /\ name \in Name \cup {""} /\ sd # Uninit
    BY <1>1, <1>6, InitialisedLocal
<1> HIDE DEF e
<1>8. /\ k \in Seq(Local) /\ Len(k) = m + 1 /\ k[m + 1] = e
      /\ \A j \in 1..m : k[j] = l[j]
    <2>1. m + 1 \in 1..Len(l)
        BY <1>1, <1>5
    <2>2. \A j \in 1..m : j \in 1..Len(l) /\ j # m + 1
        BY <1>1, <1>5
    <2>3. Len(l) = m + 1 /\ l \in Seq(Local) /\ e \in Local
        BY <1>1, <1>5, <1>7
    <2> HIDE DEF l, m
    <2> QED
        BY ONLY <2>1, <2>2, <2>3, ExceptProps
<1>9. c = [This EXCEPT !.locals = k]
    BY <1>5 DEF e
<1> HIDE DEF k
<1>10. /\ c \in Context /\ c.locals = k /\ c.upvalues = This.upvalues /\ c.scope_depth = sd
    BY <1>1, <1>8, <1>9 DEF Context
<1>11. Keeps(l, k, m)
    BY <1>1, <1>5, <1>8 DEF Keeps
<1>12. b \in Binding /\ b.slot = m /\ b.name = name /\ b.captured = FALSE
    BY <1>1, <1>7 DEF Binding
<1>13. Here.height = m + 1
    <2>1. Here.height = Base(Inner, Here.scope) + 1 /\ Here.height \in Int
        BY Now
    <2>2. Base(Inner, Here.scope) = Inner.height
        BY Now, <1>5 DEF Base
    <2>3. Inner.height = Base(Around, Inner.scope) + 0
        BY <1>2, AroundProps DEF Follows, Lift
    <2>4. Base(Around, Inner.scope) = m
        <3> DEFINE h == Around.height
                   i == Len(Around.scope)
                   n == Len(Inner.scope)
                   o == Around.count
        <3>1. h = o /\ m - o = n - i /\ h \in Int /\ i \in Nat /\ n \in Nat /\ o \in Nat
            BY Now, <1>2, <1>3, AroundProps DEF Opened, Reached
        <3>2. Base(Around, Inner.scope) = h + n - i
            BY DEF Base
        <3> HIDE DEF h, i, n, o
        <3> QED
            BY <1>1, <3>1, <3>2
    <2> QED
        BY ONLY <1>1, <2>1, <2>2, <2>3, <2>4
<1>14. r = [Here EXCEPT !.scope = Append(Here.scope, b)]
    <2>1. Last(l).name = name /\ Here.height - 1 = m
        BY <1>1, <1>5, <1>13 DEF Last
    <2> QED
        BY <2>1 DEF Bind
<1> HIDE DEF b
<1>15. Matched(l, m, Here.scope)
    <2>1. Matched(l, m + 1, Here.scope)
        BY Now, <1>5 DEF Framed
    <2> QED
        BY <1>1, <1>5, <2>1, MatchedLess
<1>16. k[m + 1].name = b.name /\ k[m + 1].depth # Uninit
    BY <1>7, <1>8, <1>12
<1>17. Append(Here.scope, b) \in Seq(Binding) /\ Matched(k, m + 1, Append(Here.scope, b))
    BY <1>1, <1>11, <1>12, <1>15, <1>16, MatchedBind
<1>18. r \in Frame /\ r.scope = Append(Here.scope, b) /\ r.height = m + 1
    BY <1>1, <1>13, <1>14, <1>17 DEF Frame
<1>19. Framed(c, r)
    <2>1. l[1].name = "" /\ l[1].depth = 0
        BY Now DEF Framed
    <2>2. k[1] = l[1]
        BY <1>1, <1>8, SMTT(30)
    <2> QED
        BY <1>8, <1>10, <1>17, <1>18, <2>1, <2>2 DEF Framed
<1> HIDE DEF name
<1>20. Stands(Around, c, r, 0)
    <2>1. k[m + 1].depth = Inside(Around)
        BY <1>3, <1>7, <1>8
    <2>2. Inner.scope \in Seq(Binding)
        BY Now
    <2> HIDE DEF m, l, sd
    <2>3. Reached(Around, k, Append(Here.scope, b), m + 1)
          /\ Base(Around, Append(Here.scope, b)) = m + 1
        BY ONLY <1>1, <1>3, <1>5, <1>11, <1>12, <2>1, <2>2, ReachedBind
    <2>4. m + 1 = (m + 1) + 0
        BY <1>1
    <2> QED
        BY <1>3, <1>8, <1>10, <1>18, <2>3, <2>4 DEF Stands
<1>21. Keeps(l, k, Around.count)
    BY <1>1, <1>3, <1>8, <1>11, KeepsFewer
<1> QED
    BY <1>5, <1>8, <1>10, <1>18, <1>19, <1>20, <1>21 DEF Ending


\* The value that is on top of the stack is the new variable, in its slot.
LEMMA FinishLetStep ==
    ASSUME IInv, FinishLet
    PROVE  IInv'
<1>1. /\ compiled /\ Inner.what = "let" /\ parse' = Front(parse) /\ compiled' = FALSE
      /\ inner_loop_depth' = inner_loop_depth
      /\ {had_error', damaged'} \subseteq BOOLEAN /\ agrees' = TRUE
    BY DEF FinishLet, AfterExpression, IInv, Typed
<1>2. Inner.what \notin Bodies \cup {"toplevel"} /\ Lift(Inner.what) = 0
      /\ Inside(Inner) = Inner.depth
    BY <1>1 DEF Bodies, Lift, Inside, Blocks
<1>3. CASE This.scope_depth = 0
    <2> DEFINE c == Emit(This, "operand")
               h == Here.height - 1
               r == [Here EXCEPT !.height = h]
    <2>1. contexts' = Append(Front(contexts), c) /\ runtime' = Append(Front(runtime), r)
        BY <1>3 DEF FinishLet, SetThis, SetHere
    <2>2. /\ c \in Context /\ c.locals = This.locals /\ c.upvalues = This.upvalues
          /\ c.scope_depth = This.scope_depth
        BY Now, EmitProps DEF Kinds
    <2>3. h = Here.height - 1 - 0 + 0 /\ h \in Int
        <3>1. Here.height \in Int
            BY Now
        <3> QED
            BY <3>1
    <2> HIDE DEF h
    <2>4. r \in Frame /\ r.scope = Here.scope /\ r.height = h
        <3>1. Here \in Frame
            BY Now
        <3> QED
            BY <2>3, <3>1, Raised
    <2> HIDE DEF c, r
    <2>5. Turns(contexts, contexts', c) /\ Runs(runtime, runtime', r)
        BY Now, <2>1, <2>2, <2>4, TurnsSet, RunsSet
    <2>6. Declares(Inner) = 0
        BY Now, <1>2, <1>3 DEF Declares
    <2>7. Ending(c, r, FALSE)
        <3>1. r.height = Here.height - 1 - Lift(Inner.what) + (IF FALSE THEN 1 ELSE 0)
            BY <1>2, <2>3, <2>4
        <3> QED
            BY <1>1, <1>2, <2>2, <2>4, <2>6, <3>1, Returned
    <2> QED
        BY Now, <1>1, <1>2, <2>5, <2>7, Closes
<1>4. CASE This.scope_depth # 0
    <2> DEFINE c == [This EXCEPT !.locals[Len(This.locals)].depth = This.scope_depth]
               r == Bind(Here, Last(This.locals).name, Here.height - 1)
    <2>1. contexts' = Append(Front(contexts), c) /\ runtime' = Append(Front(runtime), r)
        BY <1>4 DEF FinishLet, SetThis, SetHere
    <2>2. /\ c \in Context /\ r \in Frame /\ Len(c.locals) = Len(This.locals)
          /\ Ending(c, r, FALSE)
        BY <1>1, <1>4, LetEnds
    <2> HIDE DEF c, r
    <2>3. Turns(contexts, contexts', c) /\ Runs(runtime, runtime', r)
        BY Now, <2>1, <2>2, TurnsSet, RunsSet
    <2> QED
        BY Now, <1>1, <1>2, <2>2, <2>3, Closes
<1> QED
    BY <1>3, <1>4

\* A block has ended.
LEMMA BlockEnds ==
    ASSUME IInv, ~compiled, Inner.what \in Blocks, NEW c \in Context,
           c.locals = Ended(This).locals, c.upvalues = This.upvalues
    PROVE  /\ EndedFrame \in Frame /\ EndedFrame.height = Inner.height + 1
           /\ Len(EndedFrame.scope) = Len(Inner.scope) /\ Extends(Inner.scope, EndedFrame.scope)
           /\ EndedFrame.scope \in Seq(Binding)
           /\ Framed(c, EndedFrame)
           /\ Keeps(This.locals, c.locals, Inner.count) /\ Len(c.locals) = Inner.count
           /\ c.scope_depth = Inner.depth /\ c.tail \in Whole => Ending(c, EndedFrame, TRUE)
<1> DEFINE l == This.locals
           m == Inner.count
           s == SubSeq(Here.scope, 1, Len(Inner.scope))
           h == Here.height - (Len(l) - m) + 1
<1>1. Inner.what \in Statements /\ Inner.what \notin Bodies \cup {"toplevel"}
      /\ Inner.what \notin {"statement", "let"} /\ Lift(Inner.what) = 0
    BY DEF Blocks, Statements, Bodies, Lift
<1>2. /\ Kept(This, This.scope_depth) = m /\ Len(c.locals) = m
      /\ \A j \in 1..m : c.locals[j] = l[j]
    BY EndedProps
<1>3. m \in 1..Len(l) /\ Len(l) \in Nat /\ m \in Nat \ {0}
    BY Now DEF Opened
<1>4. Keeps(l, c.locals, m)
    BY <1>2, <1>3 DEF Keeps
<1>5. Len(l) - m = Len(Here.scope) - Len(Inner.scope) /\ Extends(Inner.scope, Here.scope)
    BY Now, <1>1 DEF Reached
<1>6. Len(Inner.scope) \in 0..Len(Here.scope)
    BY Now, <1>5 DEF Extends
<1>7. /\ s \in Seq(Binding) /\ Len(s) = Len(Inner.scope)
      /\ \A j \in 1..Len(Inner.scope) : s[j] = Here.scope[j]
    <2>1. Here.scope \in Seq(Binding)
        BY Now
    <2> QED
        BY <1>6, <2>1, PrefixProps
<1>8. Extends(Inner.scope, s)
    <2>1. DOMAIN Inner.scope = 1..Len(Inner.scope) /\ Len(Inner.scope) \in Nat
        BY Now
    <2> QED
        BY <1>5, <1>7, <2>1 DEF Extends
<1>9. Matched(c.locals, m, s)
    <2>1. Matched(l, Len(l), Here.scope) /\ Matched(l, m, Inner.scope)
        BY Now DEF Framed, Opened
    <2>2. Here.scope \in Seq(Binding) /\ Inner.scope \in Seq(Binding)
        BY Now
    <2> HIDE DEF m, l
    <2> QED
        BY <1>3, <1>4, <1>5, <2>1, <2>2, MatchedPrefix
<1>10. h = Inner.height + 1 /\ h \in Int
    <2> DEFINE a == Here.height
               b == Inner.height
               i == Len(Inner.scope)
               n == Len(Here.scope)
               o == Len(l)
    <2>1. Base(Inner, Here.scope) = b + n - i
        BY DEF Base
    <2>2. a = b + n - i /\ a \in Int /\ b \in Int /\ n \in Nat /\ i \in Nat
        <3>1. Here.height = Base(Inner, Here.scope)
            BY Now
        <3>2. a \in Int /\ b \in Int /\ n \in Nat /\ i \in Nat
            BY Now
        <3> QED
            BY <2>1, <3>1, <3>2
    <2>3. o - m = n - i /\ o \in Nat /\ h = a - (o - m) + 1
        BY <1>3, <1>5
    <2> HIDE DEF a, b, i, n, o, m, h
    <2>4. h = b + 1 /\ h \in Int
        BY ONLY <1>3, <2>2, <2>3
    <2> QED
        BY <2>4 DEF b
<1>11. EndedFrame = [height |-> h, scope |-> s]
    BY <1>2 DEF EndedFrame
<1> HIDE DEF h, s
<1>12. EndedFrame \in Frame /\ EndedFrame.height = h /\ EndedFrame.scope = s
    BY <1>7, <1>10, <1>11 DEF Frame
<1>13. Framed(c, EndedFrame)
    <2>1. l[1].name = "" /\ l[1].depth = 0
        BY Now DEF Framed
    <2>2. c.locals[1] = l[1]
        BY <1>2, <1>3
    <2> QED
        BY <1>2, <1>9, <1>12, <2>1, <2>2 DEF Framed
<1>14. ASSUME c.scope_depth = Inner.depth, c.tail \in Whole
       PROVE  Ending(c, EndedFrame, TRUE)
    <2>1. /\ Around \in Construct /\ Around.what \notin Statements /\ Around.count <= m
          /\ Around.count \in Nat /\ Reached(Around, l, Inner.scope, m)
          /\ Inner.depth = Inside(Around) /\ Inner.height = Base(Around, Inner.scope) + 0
        BY <1>1, AroundProps DEF Follows
    <2>2. Around.what \in Expressions
        BY <2>1 DEF Construct
    <2>3. Keeps(l, c.locals, Around.count)
        BY <1>2, <1>3, <1>4, <2>1, KeepsFewer
    <2>4. Extends(Around.scope, s)
        <3>1. Around.scope \in Seq(Binding) /\ Inner.scope \in Seq(Binding)
              /\ Extends(Around.scope, Inner.scope)
            BY Now, <1>1, AroundProps
        <3> QED
            BY <1>7, <1>8, <3>1, ExtendsTransitive
    <2>5. Reached(Around, c.locals, Inner.scope, m)
        BY <1>3, <1>4, <2>1, ReachedKept
    <2>6. Reached(Around, c.locals, s, m)
        BY <1>7, <2>4, <2>5 DEF Reached
    <2>7. Base(Around, s) = Base(Around, Inner.scope)
        BY <1>7 DEF Base
    <2>8. EndedFrame.height = Base(Around, s) + 1
        <3>1. Base(Around, Inner.scope) \in Int
            BY Now, <2>1, BaseInt
        <3> QED
            BY <1>10, <1>12, <2>1, <2>7, <3>1
    <2>9. Stands(Around, c, EndedFrame, 1)
        BY <1>2, <1>12, <1>14, <2>1, <2>6, <2>8 DEF Stands
    <2> QED
        BY <1>13, <1>14, <2>2, <2>3, <2>9 DEF Ending
<1> QED
    BY <1>2, <1>4, <1>7, <1>8, <1>10, <1>12, <1>13, <1>14


\* The end of a block, with its value: of EndBlock and EndLoop.
LEMMA BlockCloses ==
    ASSUME IInv, ~compiled, Inner.what \in Blocks, NEW c \in Context,
           c.locals = Ended(This).locals, c.upvalues = This.upvalues,
           c.scope_depth = Inner.depth, c.tail \in Whole,
           contexts' = Append(Front(contexts), c),
           runtime' = Append(Front(runtime), EndedFrame),
           parse' = Front(parse), compiled' = TRUE,
           inner_loop_depth' \in Nat \cup {NoLoop},
           {had_error', damaged'} \subseteq BOOLEAN, agrees' = TRUE
    PROVE  IInv'
<1>1. EndedFrame \in Frame /\ Len(c.locals) = Inner.count /\ Ending(c, EndedFrame, TRUE)
    BY BlockEnds
<1>2. Len(c.locals) \in 1..LOCALS_LIMIT
    <2>1. Inner.count \in 1..Len(This.locals)
        BY Now DEF Opened
    <2> QED
        BY Now, <1>1, <2>1
<1>3. Turns(contexts, contexts', c) /\ Runs(runtime, runtime', EndedFrame)
    BY Now, <1>1, <1>2, TurnsSet, RunsSet
<1>4. Inner.what \notin Bodies \cup {"toplevel"}
    BY DEF Blocks, Bodies
<1> QED
    BY Now, <1>1, <1>3, <1>4, Closes

\* A block leaves one value, and the variables of the scopes around it.
LEMMA EndBlockStep ==
    ASSUME IInv, EndBlock
    PROVE  IInv'
<1> DEFINE e == Ended(This)
           c == IF Inner.what = "do" THEN Loaded(e) ELSE Emit(e, "opcode")
<1>1. ~compiled /\ Inner.what \in Blocks
    BY DEF EndBlock, AtStatement, Blocks
<1>2. /\ e \in Context /\ e.upvalues = This.upvalues /\ e.scope_depth = Inner.depth
    BY <1>1, EndedProps
<1>3. contexts' = Append(Front(contexts), c)
    BY DEF EndBlock, SetThis
<1> HIDE DEF e
<1>4. /\ c \in Context /\ c.locals = e.locals /\ c.upvalues = e.upvalues
      /\ c.scope_depth = e.scope_depth /\ c.tail \in Whole
    <2>1. "opcode" \in Kinds
        BY DEF Kinds
    <2> QED
        BY <1>2, <2>1, EmitProps, LoadedProps
<1>5. /\ runtime' = Append(Front(runtime), EndedFrame) /\ parse' = Front(parse)
      /\ compiled' = TRUE /\ inner_loop_depth' = inner_loop_depth
    BY DEF EndBlock, SetHere
<1>6. {had_error', damaged'} \subseteq BOOLEAN /\ agrees' = TRUE
    BY DEF EndBlock, Loads, IInv, Typed
<1> HIDE DEF c
<1> QED
    BY Now, <1>1, <1>2, <1>3, <1>4, <1>5, <1>6, BlockCloses DEF e

\* A loop leaves nil.
LEMMA EndLoopStep ==
    ASSUME IInv, EndLoop
    PROVE  IInv'
<1> DEFINE e == Ended(This)
           c == Emit(e, "opcode")
<1>1. ~compiled /\ Inner.what \in Blocks
    BY DEF EndLoop, AtStatement, Blocks
<1>2. /\ e \in Context /\ e.upvalues = This.upvalues /\ e.scope_depth = Inner.depth
    BY <1>1, EndedProps
<1>3. contexts' = Append(Front(contexts), c)
    BY DEF EndLoop, SetThis
<1> HIDE DEF e
<1>4. /\ c \in Context /\ c.locals = e.locals /\ c.upvalues = e.upvalues
      /\ c.scope_depth = e.scope_depth /\ c.tail \in Whole
    <2>1. "opcode" \in Kinds
        BY DEF Kinds
    <2> QED
        BY <1>2, <2>1, EmitProps
<1>5. /\ runtime' = Append(Front(runtime), EndedFrame) /\ parse' = Front(parse)
      /\ compiled' = TRUE /\ inner_loop_depth' = Inner.loop
    BY DEF EndLoop, SetHere
<1>6. {had_error', damaged'} \subseteq BOOLEAN /\ agrees' = TRUE
    BY DEF EndLoop, IInv, Typed
<1>7. Inner.loop \in Nat \cup {NoLoop}
    <2>1. Inner \in Construct
        BY Now
    <2> QED
        BY <2>1 DEF Construct
<1> HIDE DEF c
<1> QED
    BY Now, <1>1, <1>2, <1>3, <1>4, <1>5, <1>6, <1>7, BlockCloses DEF e

\* The block of an if gives way to that of its else.
LEMMA Turnover ==
    ASSUME NEW P, NEW C, NEW R, Stack(P, C, R), Shaped(P, C, R, FALSE),
           NEW D, NEW T, NEW c \in Context, NEW r \in Frame,
           Stack(P, D, T), Sets(C, D, c), Sets(R, T, r), Last(P).what = "if",
           NEW q \in Construct, q = [Last(P) EXCEPT !.what = "else"],
           Keeps(Last(C).locals, c.locals, q.count), Len(c.locals) = q.count, Framed(c, r),
           c.upvalues = Last(C).upvalues, c.scope_depth = Last(C).scope_depth,
           r.height = q.height, Len(r.scope) = Len(q.scope), Extends(q.scope, r.scope)
    PROVE  Append(Front(P), q) \in Seq(Construct) /\ Shaped(Append(Front(P), q), D, T, FALSE)
<1> DEFINE f == Front(P)
           p == P[Len(P) - 1]
           o == Last(P)
           l == Last(C).locals
           g == Append(f, q)
<1>1. /\ C # <<>> /\ R # <<>> /\ Len(C) \in Nat \ {0} /\ Len(C) \in DOMAIN C
      /\ o \in Construct /\ Opened(o, l) /\ Len(l) \in Nat \ {0} /\ Last(C) \in Context
      /\ o.level = Len(C)
    BY Tops DEF Shaped
<1>2. /\ C \in Seq(Context) /\ R \in Seq(Frame) /\ Len(R) = Len(C) /\ P \in Seq(Construct)
      /\ Chain(P, C, R) /\ Parts(C, R) /\ Stands(o, Last(C), Last(R), 0)
    BY DEF Stack, Shaped
<1>3. o.what \notin Bodies \cup {"toplevel"}
    BY DEF Bodies
<1>4. /\ Len(P) > 1 /\ p \in Construct /\ p.level = Len(C) /\ Follows(p, o, l)
      /\ p.count <= o.count
    BY <1>3, Outer
<1>5. /\ f \in Seq(Construct) /\ Chain(f, C, R) /\ Last(f) = p
    BY <1>2, <1>4, ChainFront
<1>6. /\ q.what = "else" /\ q.level = o.level /\ q.depth = o.depth /\ q.count = o.count
      /\ q.height = o.height /\ q.scope = o.scope
    BY <1>1 DEF Construct
<1> HIDE DEF f, p, o, l
<1>7. Stack(f, C, R) /\ Stack(f, D, T)
    BY <1>5 DEF Stack
<1>8. p.count \in Nat /\ q.count \in Nat /\ q.level \in Nat /\ Len(c.locals) \in Nat
    BY <1>4 DEF Construct, Context
<1>9. Keeps(l, c.locals, p.count)
    BY <1>1, <1>4, <1>6, <1>8, KeepsFewer DEF l
<1>10. Chain(f, D, T)
    BY <1>1, <1>4, <1>5, <1>7, <1>9, TopKept DEF l
<1>11. Parts(D, T)
    BY <1>1, <1>2, PartsKept
<1>12. Last(D) = c /\ Last(T) = r /\ Len(D) = Len(C) /\ D[Len(C)] = c /\ Len(C) \in DOMAIN D
    BY <1>1, <1>2 DEF Sets, Last
<1>13. Opened(q, c.locals)
    <2>1. Opened(o, c.locals)
        BY <1>1, <1>6, <1>8, OpenedKept DEF l
    <2>2. o.what = "if" /\ "if" \in Statements
        BY DEF o, Statements
    <2> QED
        BY <1>6, <2>1, <2>2 DEF Opened
<1>14. Reached(p, c.locals, q.scope, q.count)
    <2>1. Reached(p, l, q.scope, q.count)
        BY <1>4, <1>6 DEF Follows
    <2>2. q.count \in Nat \ {0}
        BY <1>8, <1>13 DEF Opened
    <2> QED
        BY <1>4, <2>1, <2>2, ReachedKept DEF l
<1>15. Linked(p, q, D, T)
    <2>1. Lift("if") = 0 /\ Lift("else") = 0 /\ o.what = "if"
          /\ "else" \notin {"statement", "let"} /\ "if" \notin {"statement", "let"}
          /\ "else" \notin Bodies
        BY DEF Lift, o, Bodies
    <2>2. Follows(p, q, c.locals)
        BY <1>4, <1>6, <1>14, <2>1 DEF Follows
    <2> QED
        BY <1>4, <1>6, <1>12, <2>1, <2>2 DEF Linked
<1>16. g \in Seq(Construct) /\ Chain(g, D, T)
    <2>1. q.what # "toplevel" /\ q.level = Len(C) /\ q.level \in DOMAIN D /\ D[q.level] = c
        BY <1>1, <1>6, <1>12
    <2>2. /\ p.level \in Nat /\ p.level <= q.level
          /\ p.level = q.level => p.count <= q.count
        BY <1>1, <1>4, <1>6
    <2> QED
        BY <1>5, <1>8, <1>10, <1>13, <1>15, <2>1, <2>2, ChainAppend
<1>17. Last(g) = q
    BY <1>5, OneMore
<1>18. Stands(q, c, r, 0)
    <2>1. q.what \in Statements /\ q.what \in Blocks /\ o.what \in Blocks
        BY <1>6 DEF Statements, Blocks, o
    <2>2. c.scope_depth = Inside(q)
        BY <1>2, <1>6, <2>1 DEF Stands, Inside
    <2>3. Len(q.scope) \in Nat /\ q.height \in Int
        BY DEF Construct
    <2>4. r.height = Base(q, r.scope) + 0
        <3>1. r.height = q.height /\ Len(r.scope) = Len(q.scope)
            OBVIOUS
        <3> DEFINE h == q.height
                   n == Len(q.scope)
        <3>2. Base(q, r.scope) = h + n - n
            BY <3>1 DEF Base
        <3>3. r.height = h
            OBVIOUS
        <3> HIDE DEF h, n
        <3>4. h \in Int /\ n \in Nat
            BY <2>3 DEF h, n
        <3> QED
            BY ONLY <3>2, <3>3, <3>4
    <2>5. Reached(q, c.locals, r.scope, Len(c.locals))
        <3>1. Len(c.locals) - q.count = 0 /\ Len(r.scope) - Len(q.scope) = 0
            BY <1>8, <2>3
        <3>2. \A j \in (q.count + 1)..Len(c.locals) : FALSE
            BY <1>8
        <3> QED
            BY <2>1, <3>1, <3>2 DEF Reached
    <2> QED
        BY <2>2, <2>4, <2>5 DEF Stands
<1> HIDE DEF g
<1>19. Shaped(g, D, T, FALSE)
    BY <1>1, <1>6, <1>11, <1>12, <1>16, <1>17, <1>18 DEF Shaped
<1> QED
    BY <1>16, <1>19 DEF g, f


\* The other block starts with the same variables, one value lower.
LEMMA ElseStep ==
    ASSUME IInv, Else
    PROVE  IInv'
<1> DEFINE e == Ended(This)
           d == Emit(e, "operand")
           c == [d EXCEPT !.scope_depth = This.scope_depth]
           h == EndedFrame.height - 1
           r == [height |-> h, scope |-> EndedFrame.scope]
           q == [Inner EXCEPT !.what = "else"]
<1>1. ~compiled /\ Inner.what = "if" /\ Inner.what \in Blocks
    BY DEF Else, AtStatement, Blocks
<1>2. /\ e \in Context /\ e.upvalues = This.upvalues /\ e.scope_depth = Inner.depth
    BY <1>1, EndedProps
<1>3. /\ contexts' = Append(Front(contexts), c) /\ runtime' = Append(Front(runtime), r)
      /\ parse' = Append(Front(parse), q) /\ compiled' = FALSE
      /\ inner_loop_depth' = inner_loop_depth
      /\ {had_error', damaged'} \subseteq BOOLEAN /\ agrees' = TRUE
    BY <1>1 DEF Else, Loads, SetThis, SetHere, IInv, Typed
<1>4. e.locals = Ended(This).locals
    OBVIOUS
<1> HIDE DEF e
<1>5. /\ d \in Context /\ d.locals = e.locals /\ d.upvalues = e.upvalues
    BY <1>2, EmitProps DEF Kinds
<1> HIDE DEF d
<1>6. /\ c \in Context /\ c.locals = e.locals /\ c.upvalues = This.upvalues
      /\ c.scope_depth = This.scope_depth
    <2>1. This.scope_depth \in Nat
        BY Now DEF Context
    <2> QED
        BY <1>2, <1>5, <2>1 DEF Context
<1> HIDE DEF c
<1>7. /\ EndedFrame \in Frame /\ EndedFrame.height = Inner.height + 1
      /\ Len(EndedFrame.scope) = Len(Inner.scope) /\ Extends(Inner.scope, EndedFrame.scope)
      /\ EndedFrame.scope \in Seq(Binding) /\ Framed(c, EndedFrame)
      /\ Keeps(This.locals, c.locals, Inner.count) /\ Len(c.locals) = Inner.count
    BY <1>1, <1>4, <1>6, BlockEnds
<1>8. h = Inner.height /\ h \in Int
    BY Now, <1>7
<1> HIDE DEF h
<1>9. r \in Frame /\ r.height = Inner.height /\ r.scope = EndedFrame.scope
    BY <1>7, <1>8 DEF Frame
<1>10. Framed(c, r)
    BY <1>7, <1>9 DEF Framed
<1> HIDE DEF r
<1>11. /\ q \in Construct /\ q.count = Inner.count /\ q.height = Inner.height
       /\ q.scope = Inner.scope
    <2>1. Inner \in Construct /\ "else" \in Statements
        BY Now DEF Statements
    <2> QED
        BY <2>1 DEF Construct
<1>12. Len(c.locals) \in 1..LOCALS_LIMIT
    <2>1. Inner.count \in 1..Len(This.locals)
        BY Now DEF Opened
    <2> QED
        BY Now, <1>7, <2>1
<1>13. Turns(contexts, contexts', c) /\ Runs(runtime, runtime', r)
    BY Now, <1>3, <1>6, <1>9, <1>12, TurnsSet, RunsSet
<1>14. Stack(parse, contexts', runtime')
       /\ Sets(contexts, contexts', c) /\ Sets(runtime, runtime', r)
    BY Now, <1>13, StackTurns
<1>15. Shaped(parse, contexts, runtime, FALSE)
    BY Now, <1>1 DEF Shaped
<1>16. q = [Last(parse) EXCEPT !.what = "else"] /\ Last(parse).what = "if"
    BY <1>1 DEF Inner
<1> HIDE DEF q
<1>17. parse' \in Seq(Construct) /\ Shaped(parse', contexts', runtime', FALSE)
    <2>1. Stack(parse, contexts, runtime)
        BY Now
    <2> QED
        BY <1>3, <1>6, <1>7, <1>9, <1>10, <1>11, <1>14, <1>15, <1>16, <2>1, Turnover DEF This
<1>18. Len(parse') \in 1..MaxNesting
    <2>1. Len(parse') = Len(parse)
        BY Now, <1>3, <1>11, LastSet DEF Sets
    <2> QED
        BY Now, <2>1
<1> QED
    BY Now, <1>3, <1>13, <1>17, <1>18, Next_IInv

-----------------------------------------------------------------------------
\* Functions

\* Records of locals and of variables, whatever their names may be.
LEMMA FieldsMade ==
    ASSUME NEW M, NEW n \in M, NEW d \in Int, NEW b \in BOOLEAN, NEW i \in Nat
    PROVE  /\ [name |-> n, depth |-> d, is_captured |-> b]
                \in [name : M, depth : Int, is_captured : BOOLEAN]
           /\ [name |-> n, slot |-> i, captured |-> b]
                \in [name : M, slot : Nat, captured : BOOLEAN]
OBVIOUS

\* A local and a variable have their types.
LEMMA RecordsMade ==
    ASSUME NEW n \in Name \cup {""}, NEW d \in Int, NEW i \in Nat
    PROVE  /\ [name |-> n, depth |-> d, is_captured |-> FALSE] \in Local
           /\ [name |-> n, slot |-> i, captured |-> FALSE] \in Binding
<1>1. FALSE \in BOOLEAN
    OBVIOUS
<1> QED
    BY <1>1, FieldsMade DEF Local, Binding

\* Names are among the names of locals.
LEMMA Anonymous ==
    ASSUME NEW n \in Name
    PROVE  n \in Name \cup {""}
<1> DEFINE none == {""}
<1> HIDE DEF none
<1>1. n \in Name \cup none
    OBVIOUS
<1> QED
    BY <1>1 DEF none

\* An element in front of a sequence.
LEMMA InFront ==
    ASSUME NEW S, NEW e \in S, NEW a \in Seq(S)
    PROVE  /\ <<e>> \o a \in Seq(S) /\ Len(<<e>> \o a) = 1 + Len(a)
           /\ (<<e>> \o a)[1] = e
           /\ \A i \in 1..Len(a) : (<<e>> \o a)[i + 1] = a[i]
<1> DEFINE b == <<e>>
<1>1. b \in Seq(S) /\ Len(b) = 1 /\ b[1] = e /\ Len(a) \in Nat
    OBVIOUS
<1> HIDE DEF b
<1>2. /\ b \o a \in Seq(S) /\ Len(b \o a) = 1 + Len(a)
      /\ \A i \in 1..(1 + Len(a)) : (b \o a)[i] = IF i <= 1 THEN b[i] ELSE a[i - 1]
    BY <1>1, ConcatProperties, SMTT(30)
<1>3. (b \o a)[1] = e
    BY <1>1, <1>2
<1>4. \A i \in 1..Len(a) : (b \o a)[i + 1] = a[i]
    BY <1>1, <1>2
<1> QED
    BY <1>2, <1>3, <1>4 DEF b

\* The context, the frame and the construct of a function that is entered.
LEMMA EnterProps ==
    ASSUME NEW params \in Seq(Name), 1 + Len(params) <= LOCALS_LIMIT
    PROVE  LET c == [NewContext(1) EXCEPT !.locals = @ \o Parameters(params)]
               r == [height |-> 1 + Len(params), scope |-> Arguments(params)]
           IN  /\ c \in Context /\ r \in Frame /\ Framed(c, r)
               /\ Len(c.locals) = 1 + Len(params) /\ Len(c.locals) \in 1..LOCALS_LIMIT
               /\ c.scope_depth = 1 /\ c.upvalues = <<>>
               /\ Arguments(params) \in Seq(Binding)
               /\ \A j \in 1..Len(c.locals) : c.locals[j].depth <= 1
<1> DEFINE n == Len(params)
           a == Parameters(params)
           s == Arguments(params)
           l == <<Slot0>> \o a
<1>1. n \in Nat /\ DOMAIN params = 1..n /\ \A i \in 1..n : params[i] \in Name
    OBVIOUS
<1>2. Slot0 \in Local /\ Slot0.name = "" /\ Slot0.depth = 0
    BY DEF Slot0, Local
<1>3. a \in Seq(Local) /\ Len(a) = n
      /\ \A i \in 1..n : a[i].name = params[i] /\ a[i].depth = 1
    <2>1. a = [i \in 1..n |-> [name |-> params[i], depth |-> 1, is_captured |-> FALSE]]
        BY <1>1 DEF Parameters
    <2>2. ASSUME NEW i \in 1..n
          PROVE  [name |-> params[i], depth |-> 1, is_captured |-> FALSE] \in Local
        <3>1. params[i] \in Name \cup {""}
            <4>1. params[i] \in Name
                BY <1>1
            <4> QED
                BY ONLY <4>1, Anonymous
        <3>2. 1 \in Int /\ 0 \in Nat
            OBVIOUS
        <3> QED
            BY ONLY <3>1, <3>2, RecordsMade
    <2> QED
        BY <1>1, <2>1, <2>2
<1>4. s \in Seq(Binding) /\ Len(s) = n /\ DOMAIN s = 1..n
      /\ \A i \in 1..n : s[i].name = params[i] /\ s[i].slot = i /\ s[i].captured = FALSE
    <2>1. s = [i \in 1..n |-> [name |-> params[i], slot |-> i, captured |-> FALSE]]
        BY <1>1 DEF Arguments
    <2>2. ASSUME NEW i \in 1..n
          PROVE  [name |-> params[i], slot |-> i, captured |-> FALSE] \in Binding
        <3>1. params[i] \in Name \cup {""}
            <4>1. params[i] \in Name
                BY <1>1
            <4> QED
                BY ONLY <4>1, Anonymous
        <3>2. i \in Nat /\ 0 \in Int
            OBVIOUS
        <3> QED
            BY ONLY <3>1, <3>2, RecordsMade
    <2> QED
        BY <1>1, <2>1, <2>2
<1> HIDE DEF a, s
<1>5. l \in Seq(Local) /\ Len(l) = 1 + n /\ l[1] = Slot0 /\ \A i \in 1..n : l[i + 1] = a[i]
    <2>1. Slot0 \in Local /\ a \in Seq(Local) /\ Len(a) = n
        BY <1>2, <1>3
    <2> QED
        BY ONLY <2>1, InFront DEF l
<1> HIDE DEF l
<1> DEFINE c == [NewContext(1) EXCEPT !.locals = @ \o Parameters(params)]
           r == [height |-> 1 + n, scope |-> s]
<1>6. c = [locals |-> l, upvalues |-> <<>>, scope_depth |-> 1, tail |-> <<>>]
    <2>1. NewContext(1).locals = <<Slot0>>
        BY DEF NewContext
    <2>2. c = [NewContext(1) EXCEPT !.locals = l]
        BY <2>1 DEF l, a
    <2> HIDE DEF c
    <2> QED
        BY <2>2 DEF NewContext
<1>7. <<>> \in Seq(Upvalue) /\ <<>> \in Tails
    BY DEF Tails
<1>8. c \in Context /\ c.locals = l /\ c.upvalues = <<>> /\ c.scope_depth = 1
    <2> HIDE DEF c
    <2> QED
        BY <1>5, <1>6, <1>7 DEF Context
<1>9. r \in Frame /\ r.scope = s
    BY <1>1, <1>4 DEF Frame
<1>10. \A i \in 1..(1 + n) : i = 1 \/ i - 1 \in 1..n
    BY <1>1
<1>11. ASSUME NEW i \in 1..(1 + n) PROVE l[i].depth <= 1
    <2>1. CASE i = 1
        <3>1. l[i] = Slot0
            BY <1>5, <2>1
        <3>2. Slot0.depth = 0
            BY <1>2
        <3> QED
            BY <3>1, <3>2
    <2>2. CASE i # 1
        <3>1. i - 1 \in 1..n /\ l[(i - 1) + 1] = a[i - 1] /\ (i - 1) + 1 = i
            BY <1>1, <1>5, <1>10, <2>2
        <3>2. a[i - 1].depth = 1
            BY <1>3, <3>1
        <3> QED
            BY <3>1, <3>2
    <2> QED
        BY <2>1, <2>2
<1>12. Matched(l, 1 + n, s)
    <2>1. ASSUME NEW j \in DOMAIN s
          PROVE  /\ s[j].slot \in 1..((1 + n) - 1)
                 /\ l[s[j].slot + 1].name = s[j].name
                 /\ l[s[j].slot + 1].depth # Uninit
                 /\ s[j].captured => l[s[j].slot + 1].is_captured
        <3>1. j \in 1..n /\ s[j].slot = j /\ s[j].name = params[j] /\ s[j].captured = FALSE
            BY <1>4
        <3>2. l[j + 1] = a[j] /\ a[j].name = params[j] /\ a[j].depth = 1
            BY <1>3, <1>5, <3>1
        <3> QED
            BY <1>1, <3>1, <3>2 DEF Uninit
    <2>2. \A i, j \in DOMAIN s : i < j => s[i].slot < s[j].slot
        BY <1>4
    <2>3. ASSUME NEW i \in 2..(1 + n) PROVE \E j \in DOMAIN s : s[j].slot = i - 1
        <3>1. i - 1 \in DOMAIN s /\ s[i - 1].slot = i - 1
            BY <1>1, <1>4
        <3> QED
            BY <3>1
    <2> QED
        BY <2>1, <2>2, <2>3 DEF Matched
<1>13. Framed(c, r)
    BY <1>2, <1>5, <1>8, <1>9, <1>12 DEF Framed
<1>14. Len(c.locals) \in 1..LOCALS_LIMIT
    BY <1>1, <1>5, <1>8, LimitsAssumption
<1> HIDE DEF c, r
<1>15. \A j \in 1..Len(c.locals) : c.locals[j].depth <= 1
    BY <1>5, <1>8, <1>11
<1> QED
    BY <1>4, <1>5, <1>8, <1>9, <1>13, <1>14, <1>15 DEF c, r, s

\* A function with no upvalues is entered.
LEMMA PartsMore ==
    ASSUME NEW C \in Seq(Context), NEW R \in Seq(Frame), Len(R) = Len(C), Parts(C, R),
           NEW e \in Context, NEW g \in Frame, Framed(e, g), e.upvalues = <<>>
    PROVE  Parts(Append(C, e), Append(R, g))
<1> DEFINE D == Append(C, e)
           T == Append(R, g)
           n == Len(C)
<1>1. /\ n \in Nat /\ DOMAIN C = 1..n /\ Len(D) = n + 1 /\ D \in Seq(Context)
      /\ D[n + 1] = e /\ \A k \in 1..n : D[k] = C[k]
      /\ T[n + 1] = g /\ \A k \in 1..n : T[k] = R[k]
    BY OneMore
<1> HIDE DEF D, T
<1>2. DOMAIN D = 1..(n + 1)
    BY <1>1
<1> HIDE DEF n
<1>3. ASSUME NEW k \in DOMAIN D PROVE Framed(D[k], T[k]) /\ Captures(D, k)
    <2>1. CASE k = n + 1
        <3>1. DOMAIN D[k].upvalues = {}
            BY <1>1, <2>1
        <3> QED
            BY <1>1, <2>1, <3>1 DEF Captures
    <2>2. CASE k # n + 1
        <3>1. k \in 1..n /\ D[k] = C[k] /\ T[k] = R[k] /\ (k > 1 => D[k - 1] = C[k - 1])
            BY <1>1, <1>2, <2>2
        <3>2. Framed(C[k], R[k]) /\ Captures(C, k)
            BY <1>1, <3>1 DEF Parts
        <3> QED
            BY <3>1, <3>2 DEF Captures
    <2> QED
        BY <2>1, <2>2
<1> QED
    BY <1>3 DEF Parts, D, T

\* The body of a function, before there is anything in it.
LEMMA Fresh ==
    ASSUME NEW q \in Construct, q.what \in Bodies, q.depth = 1,
           NEW e \in Context, NEW g \in Frame, Framed(e, g), e.scope_depth = 1,
           Len(e.locals) \in Nat \ {0},
           q.count = Len(e.locals), q.scope = g.scope,
           q.height = q.count, g.height = q.count,
           \A j \in 1..q.count : e.locals[j].depth <= 1
    PROVE  Opened(q, e.locals) /\ Stands(q, e, g, 0)
<1>1. q.count \in 1..Len(e.locals) /\ Matched(e.locals, q.count, q.scope)
    <2> DEFINE n == Len(e.locals)
               k == q.count
    <2>1. Matched(e.locals, n, g.scope)
        BY DEF Framed
    <2>2. n \in Nat \ {0} /\ k = n
        OBVIOUS
    <2>3. q.scope = g.scope
        OBVIOUS
    <2> HIDE DEF n, k
    <2>4. k \in 1..n
        BY ONLY <2>2
    <2>5. Matched(e.locals, k, q.scope)
        BY ONLY <2>1, <2>2, <2>3
    <2> QED
        BY <2>4, <2>5 DEF n, k
<1>2. Opened(q, e.locals)
    BY <1>1 DEF Opened
<1>3. Inside(q) = 1 /\ Declares(q) = 0
    BY DEF Inside, Declares, Bodies, Blocks
<1>4. q.scope \in Seq(Binding) /\ Len(q.scope) \in Nat
    BY DEF Construct
<1>5. g.height = Base(q, g.scope) + 0
    <2> DEFINE n == q.count
               m == Len(q.scope)
    <2>1. /\ n \in Nat /\ m \in Nat /\ g.height = n /\ q.height = n
          /\ Len(g.scope) = m /\ Len(q.scope) = m
        BY <1>4
    <2> HIDE DEF n, m
    <2> QED
        BY ONLY <2>1 DEF Base
<1>6. Reached(q, e.locals, g.scope, Len(e.locals))
    <2>1. Extends(q.scope, g.scope)
        BY <1>4 DEF Extends
    <2> DEFINE n == q.count
               m == Len(q.scope)
               l == e.locals
    <2>2. /\ n \in Nat /\ m \in Nat /\ q.count = n /\ Len(l) = n
          /\ Len(g.scope) = m /\ Len(q.scope) = m
        BY <1>4
    <2> HIDE DEF n, m, l
    <2>3. Reached(q, l, g.scope, Len(l))
        BY ONLY <2>1, <2>2, <1>3 DEF Reached
    <2> QED
        BY <2>3 DEF l
<1> QED
    BY <1>2, <1>3, <1>5, <1>6 DEF Stands

\* A function is entered in the innermost construct, whose context and frame are then
\* c and r, and gets e and g.
LEMMA Enters ==
    ASSUME NEW P, NEW C, NEW R, NEW done, Stack(P, C, R), Shaped(P, C, R, done),
           NEW D, NEW T, NEW c \in Context, NEW r \in Frame,
           Stack(P, D, T), Sets(C, D, c), Sets(R, T, r),
           Keeps(Last(C).locals, c.locals, Last(P).count), Framed(c, r),
           c.upvalues = Last(C).upvalues,
           NEW e \in Context, NEW g \in Frame, Framed(e, g), e.scope_depth = 1,
           e.upvalues = <<>>, Len(e.locals) \in Nat \ {0},
           NEW q \in Construct, q.what \in Bodies, q.depth = 1, q.level = Len(C) + 1,
           q.count = Len(e.locals), q.scope = g.scope,
           q.height = q.count, g.height = q.count,
           \A j \in 1..q.count : e.locals[j].depth <= 1,
           Within(Last(P), q, c, r)
    PROVE  /\ Append(P, q) \in Seq(Construct)
           /\ Shaped(Append(P, q), Append(D, e), Append(T, g), FALSE)
<1> DEFINE p == Last(P)
           K == Len(C)
           f == Append(P, q)
           X == Append(D, e)
           Y == Append(T, g)
<1>1. /\ p \in Construct /\ C # <<>> /\ R # <<>> /\ P # <<>> /\ K \in Nat \ {0}
      /\ K \in DOMAIN C /\ Opened(p, Last(C).locals) /\ p.level = K
    BY Tops DEF Shaped
<1>2. /\ C \in Seq(Context) /\ R \in Seq(Frame) /\ Len(R) = K /\ P \in Seq(Construct)
      /\ D \in Seq(Context) /\ T \in Seq(Frame) /\ Len(D) = K /\ Len(T) = K
      /\ DOMAIN D = 1..K /\ DOMAIN T = 1..K
      /\ D[K] = c /\ T[K] = r
      /\ Chain(P, C, R) /\ Parts(C, R)
    BY <1>1 DEF Stack, Shaped, Sets
<1>3. Chain(P, D, T)
    BY <1>1, <1>2, TopKept
<1>4. Parts(D, T)
    BY <1>1, <1>2, PartsKept
<1>5. /\ X \in Seq(Context) /\ Len(X) = K + 1 /\ X[K + 1] = e /\ Last(X) = e
      /\ \A k \in 1..K : X[k] = D[k]
      /\ Y \in Seq(Frame) /\ Len(Y) = K + 1 /\ Y[K + 1] = g /\ Last(Y) = g
      /\ \A k \in 1..K : Y[k] = T[k]
    BY <1>2, OneMore
<1>6. Parts(X, Y)
    BY <1>2, <1>4, PartsMore
<1> HIDE DEF X, Y
<1>7. DOMAIN X = 1..(K + 1) /\ DOMAIN Y = 1..(K + 1)
    BY <1>1, <1>5
<1>8. Stack(P, X, Y)
    <2>1. ASSUME NEW k \in DOMAIN X PROVE Len(X[k].locals) \in Nat \ {0}
        <3>1. CASE k = K + 1
            BY <1>5, <3>1
        <3>2. CASE k # K + 1
            <4>1. k \in DOMAIN D /\ X[k] = D[k]
                BY <1>1, <1>2, <1>5, <1>7, <3>2
            <4> QED
                BY <4>1 DEF Stack
        <3> QED
            BY <3>1, <3>2
    <2> QED
        BY <1>2, <1>5, <2>1 DEF Stack
<1>9. Chain(P, X, Y)
    <2>1. ASSUME NEW k \in 1..(K - 1)
          PROVE  SameContext(D[k], X[k]) /\ SameFrame(T[k], Y[k])
        <3>1. X[k] = D[k] /\ Y[k] = T[k] /\ D[k] \in Context /\ T[k] \in Frame
              /\ Len(D[k].locals) \in Nat
            BY <1>1, <1>2, <1>5 DEF Stack
        <3>2. Len(T[k].scope) \in Nat
            BY <3>1 DEF Frame
        <3> QED
            BY <3>1, <3>2 DEF SameContext, SameFrame, Keeps, Extends
    <2>2. K \in 1..K /\ X[K] = c /\ D[K] = c /\ K \in DOMAIN X /\ K \in Nat
        BY <1>1, <1>2, <1>5, <1>7
    <2>3. Keeps(D[K].locals, X[K].locals, p.count)
        BY <2>2 DEF Keeps
    <2> HIDE DEF K
    <2> QED
        BY <1>1, <1>3, <1>8, <2>1, <2>2, <2>3, ChainKept
<1>10. Opened(q, e.locals) /\ Stands(q, e, g, 0)
    BY Fresh
<1>11. Linked(p, q, X, Y)
    <2>1. X[K] = c /\ Y[K] = r
        BY <1>1, <1>2, <1>5
    <2> QED
        BY <1>1, <2>1 DEF Linked
<1>12. f \in Seq(Construct) /\ Chain(f, X, Y) /\ Last(f) = q
    <2>1. q.what # "toplevel" /\ p.level \in Nat /\ q.level \in Nat
          /\ p.level <= q.level /\ p.level # q.level /\ q.level \in DOMAIN X
          /\ X[q.level] = e
        BY <1>1, <1>5, <1>7 DEF Bodies
    <2>2. f \in Seq(Construct) /\ Chain(f, X, Y)
        BY <1>2, <1>9, <1>10, <1>11, <2>1, ChainAppend
    <2>3. Last(f) = q
        BY <1>2, OneMore
    <2> QED
        BY <2>2, <2>3
<1> HIDE DEF f
<1>13. Shaped(f, X, Y, FALSE)
    BY <1>5, <1>6, <1>10, <1>12 DEF Shaped
<1> QED
    BY <1>12, <1>13 DEF f, X, Y

\* The construct of a function that is entered.
Body(what, params) ==
    [what |-> what, loop |-> inner_loop_depth, level |-> Len(contexts) + 1, depth |-> 1,
     count |-> 1 + Len(params), height |-> 1 + Len(params), scope |-> Arguments(params)]

\* The construct that the body of a function is.
LEMMA BodyProps ==
    ASSUME IInv, NEW params \in Seq(Name), 1 + Len(params) <= LOCALS_LIMIT, NEW what \in Bodies
    PROVE  /\ Body(what, params) \in Construct /\ Body(what, params).what = what
           /\ Body(what, params).level = Len(contexts) + 1 /\ Body(what, params).depth = 1
           /\ Body(what, params).count = 1 + Len(params)
           /\ Body(what, params).height = 1 + Len(params)
           /\ Body(what, params).scope = Arguments(params)
<1>1. /\ Len(contexts) + 1 \in Nat /\ 1 + Len(params) \in Nat /\ 1 + Len(params) \in Int
      /\ inner_loop_depth \in Nat \cup {NoLoop}
    BY Now
<1>2. Arguments(params) \in Seq(Binding)
    BY EnterProps
<1>3. what \in Statements \cup Expressions
    BY DEF Bodies, Statements, Expressions
<1> QED
    BY ONLY <1>1, <1>2, <1>3 DEF Body, Construct

\* A function is entered where the functions around it have contexts C and frames R.
LEMMA Calls ==
    ASSUME IInv, NEW C, NEW R, NEW c, NEW r, Turns(contexts, C, c), Runs(runtime, R, r),
           NEW params \in Seq(Name), NEW what \in Bodies, Enter(what, C, R, params),
           Keeps(This.locals, c.locals, Inner.count), Framed(c, r),
           c.upvalues = This.upvalues, Len(parse) < MaxNesting,
           what = "function" <=> Inner.what \in Statements,
           Stands(Inner, c, r, IF what = "function" /\ Inside(Inner) > 0 THEN -1 ELSE 0),
           inner_loop_depth' = inner_loop_depth,
           {had_error', damaged'} \subseteq BOOLEAN, agrees' = TRUE
    PROVE  IInv'
<1> DEFINE e == [NewContext(1) EXCEPT !.locals = @ \o Parameters(params)]
           n == 1 + Len(params)
           g == [height |-> n, scope |-> Arguments(params)]
           q == Body(what, params)
<1>1. /\ contexts' = Append(C, e) /\ runtime' = Append(R, g) /\ parse' = Append(parse, q)
      /\ compiled' = FALSE /\ n <= LOCALS_LIMIT
    BY DEF Enter, Body
<1>2. /\ e \in Context /\ g \in Frame /\ Framed(e, g)
      /\ Len(e.locals) = n /\ Len(e.locals) \in 1..LOCALS_LIMIT
      /\ e.scope_depth = 1 /\ e.upvalues = <<>>
      /\ \A j \in 1..Len(e.locals) : e.locals[j].depth <= 1
    BY <1>1, EnterProps
<1>3. g.height = n /\ g.scope = Arguments(params)
    OBVIOUS
<1>4. /\ q \in Construct /\ q.what = what /\ q.level = Len(contexts) + 1 /\ q.depth = 1
      /\ q.count = n /\ q.height = n /\ q.scope = Arguments(params)
    BY <1>1, BodyProps
<1> HIDE DEF e, g, q, n
<1>5. Stack(parse, C, R) /\ c \in Context /\ r \in Frame
      /\ Sets(contexts, C, c) /\ Sets(runtime, R, r)
      /\ C \in Seq(Context) /\ R \in Seq(Frame) /\ Len(C) = Len(R)
      /\ \A k \in DOMAIN C : Len(C[k].locals) \in 1..LOCALS_LIMIT
    BY Now, StackTurns DEF Turns, Runs
<1>6. Len(e.locals) \in Nat \ {0}
    BY <1>2, LimitsAssumption
<1>7. /\ q.count = Len(e.locals) /\ q.scope = g.scope /\ q.height = q.count
      /\ g.height = q.count
      /\ \A j \in 1..q.count : e.locals[j].depth <= 1
    BY <1>2, <1>3, <1>4
<1>8. Within(Inner, q, c, r)
    <2>1. q.level = Inner.level + 1
        BY Now, <1>4
    <2> QED
        BY <1>4, <2>1 DEF Within
<1>9. parse' \in Seq(Construct) /\ Shaped(parse', contexts', runtime', FALSE)
    <2>1. Stack(parse, contexts, runtime) /\ Shaped(parse, contexts, runtime, compiled)
        BY Now
    <2> HIDE DEF IInv
    <2> QED
        BY <1>1, <1>2, <1>4, <1>5, <1>6, <1>7, <1>8, <2>1, Enters DEF This, Inner
<1>10. /\ contexts' \in Seq(Context) /\ runtime' \in Seq(Frame)
       /\ Len(contexts') = Len(runtime') /\ Len(contexts') = Len(C) + 1
       /\ contexts'[Len(C) + 1] = e /\ \A k \in 1..Len(C) : contexts'[k] = C[k]
    BY <1>1, <1>2, <1>5, OneMore
<1>11. \A k \in DOMAIN contexts' : Len(contexts'[k].locals) \in 1..LOCALS_LIMIT
    <2> SUFFICES ASSUME NEW k \in DOMAIN contexts'
                 PROVE  Len(contexts'[k].locals) \in 1..LOCALS_LIMIT
        OBVIOUS
    <2>1. Len(C) \in Nat /\ k \in 1..(Len(C) + 1) /\ DOMAIN C = 1..Len(C)
        BY <1>5, <1>10
    <2>2. CASE k = Len(C) + 1
        BY <1>2, <1>10, <2>2
    <2>3. CASE k # Len(C) + 1
        <3>1. k \in DOMAIN C /\ contexts'[k] = C[k]
            BY <1>10, <2>1, <2>3
        <3> QED
            BY <1>5, <3>1
    <2> QED
        BY <2>2, <2>3
<1>12. Len(parse') \in 1..MaxNesting
    <2>1. Len(parse') = Len(parse) + 1
        BY Now, <1>1, <1>4, OneMore
    <2> QED
        BY Now, <2>1
<1>13. inner_loop_depth' \in Nat \cup {NoLoop}
    BY Now
<1>14. {compiled', had_error', agrees', damaged'} \subseteq BOOLEAN
    BY <1>1
<1> QED
    BY <1>1, <1>9, <1>10, <1>11, <1>12, <1>13, <1>14 DEF IInv, Typed, Levels

\* The function around a lambda is as it was.
LEMMA LambdaStep ==
    ASSUME IInv, NEW params \in Seq(Name), Lambda(params)
    PROVE  IInv'
<1>1. /\ ~compiled /\ Inner.what \in Expressions /\ Enter("lambda", contexts, runtime, params)
      /\ Len(parse) < MaxNesting /\ inner_loop_depth' = inner_loop_depth
      /\ {had_error', damaged'} \subseteq BOOLEAN /\ agrees' = TRUE
    BY DEF Lambda, AtExpression, Expressions, Nested, IInv, Typed
<1>2. Turns(contexts, contexts, This) /\ Runs(runtime, runtime, Here)
    BY Now, TurnsSame, RunsSame DEF This, Here
<1>3. Keeps(This.locals, This.locals, Inner.count)
    <2>1. Inner.count <= Len(This.locals)
        BY Now DEF Opened
    <2> QED
        BY <2>1 DEF Keeps
<1>4. Stands(Inner, This, Here, 0)
    <2>1. Here.height = Base(Inner, Here.scope) + 0
        BY Now, <1>1
    <2> QED
        BY Now, <2>1 DEF Stands
<1>5. "lambda" \in Bodies /\ "lambda" # "function" /\ Inner.what \notin Statements
    BY <1>1 DEF Bodies, Expressions, Statements
<1>6. Stands(Inner, This, Here, IF "lambda" = "function" /\ Inside(Inner) > 0 THEN -1 ELSE 0)
    BY <1>4, <1>5
<1> QED
    BY Now, <1>1, <1>2, <1>3, <1>5, <1>6, Calls

\* After statements there are only locals on the stack.
LEMMA BaseReached ==
    ASSUME NEW p \in Construct, p.what \in Statements, NEW l, NEW s \in Seq(Binding),
           NEW m \in Nat, Reached(p, l, s, m), Opened(p, l)
    PROVE  Base(p, s) = m
<1>1. /\ m - p.count = Len(s) - Len(p.scope) /\ p.height = p.count
    BY DEF Reached, Opened
<1>2. /\ p.count \in Nat /\ Len(s) \in Nat /\ p.scope \in Seq(Binding)
    BY DEF Construct
<1>3. Len(p.scope) \in Nat
    BY <1>2
<1> QED
    BY ONLY <1>1, <1>2, <1>3, m \in Nat DEF Base

\* A local function is in scope in its body, in the slot its closure will have.
LEMMA FnStep ==
    ASSUME IInv, NEW n \in Name, NEW params \in Seq(Name), Fn(n, params)
    PROVE  IInv'
<1>1. /\ ~compiled /\ Inner.what \in Statements
      /\ Len(parse) < MaxNesting /\ inner_loop_depth' = inner_loop_depth
      /\ {had_error', damaged'} \subseteq BOOLEAN /\ agrees' = TRUE
    <2>1. Len(parse) + 1 < MaxNesting
        BY DEF Fn, Deeper
    <2>2. Len(parse) \in Nat /\ MaxNesting \in Nat
        BY Now
    <2> QED
        BY <2>1, <2>2 DEF Fn, AtStatement, Statements, IInv, Typed
<1>2. "function" \in Bodies
    BY DEF Bodies
<1>3. /\ This \in Context /\ Here \in Frame /\ Len(This.locals) \in 1..LOCALS_LIMIT
      /\ This.scope_depth \in Nat /\ Here.scope \in Seq(Binding) /\ Here.height \in Int
    BY Now DEF Context
<1>4. Here.height = Base(Inner, Here.scope) + 0
    BY Now, <1>1
<1>5. CASE This.scope_depth = 0
    <2>1. Enter("function", contexts, runtime, params)
        BY <1>5 DEF Fn
    <2>2. Turns(contexts, contexts, This) /\ Runs(runtime, runtime, Here)
        BY Now, TurnsSame, RunsSame DEF This, Here
    <2>3. Keeps(This.locals, This.locals, Inner.count)
        <3>1. Inner.count <= Len(This.locals)
            BY Now DEF Opened
        <3> QED
            BY <3>1 DEF Keeps
    <2>4. Stands(Inner, This, Here, 0)
        BY Now, <1>4 DEF Stands
    <2>5. ~(Inside(Inner) > 0)
        BY Now, <1>5
    <2>6. Stands(Inner, This, Here,
                 IF "function" = "function" /\ Inside(Inner) > 0 THEN -1 ELSE 0)
        BY <2>4, <2>5
    <2> QED
        BY Now, <1>1, <1>2, <2>1, <2>2, <2>3, <2>6, Calls
<1>6. CASE This.scope_depth # 0
    <2> DEFINE c == AddLocal(This, n, This.scope_depth)
               m == Len(This.locals)
               b == [name |-> n, slot |-> Here.height, captured |-> FALSE]
               r == Bind(Here, n, Here.height)
               C == Append(Front(contexts), c)
               R == Append(Front(runtime), r)
    <2>1. Enter("function", C, R, params) /\ m < LOCALS_LIMIT
        BY <1>6 DEF Fn, CanDeclare
    <2>2. /\ c \in Context /\ c.upvalues = This.upvalues /\ c.scope_depth = This.scope_depth
          /\ Len(c.locals) = m + 1 /\ Len(c.locals) \in 1..LOCALS_LIMIT
          /\ c.locals[m + 1] =
                [name |-> n, depth |-> This.scope_depth, is_captured |-> FALSE]
          /\ \A j \in 1..m : c.locals[j] = This.locals[j]
        <3>1. This.scope_depth \in Int
            BY <1>3
        <3> QED
            BY <1>3, <2>1, <3>1, AddLocalProps
    <2> HIDE DEF c
    <2>3. c.locals[m + 1].name = n /\ c.locals[m + 1].depth = This.scope_depth
        BY <2>2
    <2>4. m \in Nat \ {0} /\ Keeps(This.locals, c.locals, m)
        BY <1>3, <2>2 DEF Keeps
    <2>5. /\ Inner \in Construct /\ Reached(Inner, This.locals, Here.scope, m)
          /\ Opened(Inner, This.locals) /\ Matched(This.locals, m, Here.scope)
          /\ This.scope_depth = Inside(Inner)
          /\ Inner.count \in Nat /\ Inner.count <= m
          /\ This.locals[1].name = "" /\ This.locals[1].depth = 0
        <3>1. /\ Inner \in Construct /\ Reached(Inner, This.locals, Here.scope, m)
              /\ Opened(Inner, This.locals) /\ This.scope_depth = Inside(Inner)
              /\ Inner.count \in Nat /\ Framed(This, Here)
            BY Now
        <3>2. Inner.count <= m
            BY <3>1 DEF Opened
        <3> QED
            BY <3>1, <3>2 DEF Framed
    <2>6. Here.height = m
        <3>1. Base(Inner, Here.scope) = m
            BY <1>1, <1>3, <2>4, <2>5, BaseReached
        <3> QED
            BY <1>4, <2>4, <3>1
    <2>7. b \in Binding /\ b.slot = m /\ b.name = n /\ b.captured = FALSE
        <3>1. n \in Name
            OBVIOUS
        <3>2. n \in Name \cup {""}
            BY ONLY <3>1, Anonymous
        <3>3. Here.height \in Nat /\ 0 \in Int
            BY <2>4, <2>6
        <3>4. b \in Binding
            BY ONLY <3>2, <3>3, RecordsMade
        <3> QED
            BY <2>6, <3>4
    <2>8. /\ r.height = Here.height /\ r.scope = Append(Here.scope, b)
          /\ r = [Here EXCEPT !.scope = Append(Here.scope, b)]
        BY <1>3 DEF Bind, Frame
    <2> HIDE DEF r, b
    <2>9. Append(Here.scope, b) \in Seq(Binding)
          /\ Matched(c.locals, m + 1, Append(Here.scope, b))
        <3>1. c.locals[m + 1].depth # Uninit
            BY <1>3, <2>3 DEF Uninit
        <3> QED
            BY <1>3, <2>3, <2>4, <2>5, <2>7, <3>1, MatchedBind
    <2>10. r \in Frame
        BY <1>3, <2>8, <2>9 DEF Frame
    <2>11. Reached(Inner, c.locals, Append(Here.scope, b), m + 1)
           /\ Base(Inner, Append(Here.scope, b)) = m + 1
        <3>1. /\ Inner \in Construct /\ Inner.what \in Statements /\ m \in Nat \ {0}
              /\ Reached(Inner, This.locals, Here.scope, m) /\ Opened(Inner, This.locals)
              /\ Here.scope \in Seq(Binding) /\ b \in Binding
              /\ Keeps(This.locals, c.locals, m) /\ c.locals[m + 1].depth = Inside(Inner)
            BY <1>1, <1>3, <2>3, <2>4, <2>5, <2>7
        <3>2. Extends(Here.scope, Here.scope) /\ Len(Here.scope) = Len(Here.scope)
            BY <1>3 DEF Extends
        <3> HIDE DEF m
        <3> QED
            BY ONLY <3>1, <3>2, ReachedBind
    <2>12. Stands(Inner, c, r, -1)
        <3>1. r.height = Base(Inner, r.scope) + (-1)
            BY <2>4, <2>6, <2>8, <2>11
        <3>2. Reached(Inner, c.locals, r.scope, Len(c.locals))
            BY <2>2, <2>8, <2>11
        <3> QED
            BY <2>2, <2>5, <3>1, <3>2 DEF Stands
    <2>13. Stands(Inner, c, r, IF "function" = "function" /\ Inside(Inner) > 0 THEN -1 ELSE 0)
        <3>1. This.scope_depth \in Nat /\ This.scope_depth # 0 /\ This.scope_depth = Inside(Inner)
            BY <1>3, <1>6, <2>5
        <3>2. Inside(Inner) > 0
            BY ONLY <3>1
        <3> QED
            BY <2>12, <3>2
    <2>14. Framed(c, r)
        <3>1. Matched(c.locals, Len(c.locals), r.scope)
            BY <2>2, <2>8, <2>9
        <3>2. c.locals[1] = This.locals[1]
            BY <2>2, <2>4
        <3> QED
            BY <2>5, <3>1, <3>2 DEF Framed
    <2>15. Keeps(This.locals, c.locals, Inner.count)
        <3>1. Len(c.locals) \in Nat
            BY <2>2, <2>4
        <3> QED
            BY <2>4, <2>5, <3>1, KeepsFewer
    <2>16. Turns(contexts, C, c) /\ Runs(runtime, R, r)
        BY Now, <2>2, <2>10, TurnsSet, RunsSet
    <2> HIDE DEF C, R
    <2> QED
        BY Now, <1>1, <1>2, <2>1, <2>2, <2>13, <2>14, <2>15, <2>16, Calls
<1> QED
    BY <1>5, <1>6

\* D is C without its last element, and with c as the one before that.
Drops(C, D, c) ==
    /\ Len(D) = Len(C) - 1 /\ DOMAIN D = 1..(Len(C) - 1)
    /\ D[Len(C) - 1] = c
    /\ \A k \in 1..(Len(C) - 2) : D[k] = C[k]

\* The last element is taken away and the one before it replaced.
LEMMA FrontSet ==
    ASSUME NEW S, NEW s \in Seq(S), Len(s) > 1, NEW e \in S
    PROVE  /\ [Front(s) EXCEPT ![Len(s) - 1] = e] \in Seq(S)
           /\ Drops(s, [Front(s) EXCEPT ![Len(s) - 1] = e], e)
           /\ Front(s)[Len(s) - 1] = s[Len(s) - 1]
<1> DEFINE f == Front(s)
           n == Len(s) - 1
           t == [f EXCEPT ![n] = e]
<1>1. /\ Len(s) \in Nat /\ f \in Seq(S) /\ Len(f) = n
      /\ \A i \in 1..n : f[i] = s[i]
    BY FrontProps
<1>2. n \in Nat \ {0} /\ n \in 1..Len(f) /\ Len(s) - 2 = n - 1
    BY <1>1
<1> HIDE DEF f, n
<1>3. /\ t \in Seq(S) /\ Len(t) = n /\ DOMAIN t = 1..n /\ t[n] = e
      /\ \A j \in 1..n : j # n => t[j] = f[j]
    <2>1. /\ t \in Seq(S) /\ Len(t) = Len(f) /\ DOMAIN t = DOMAIN f /\ t[n] = e
          /\ \A j \in 1..Len(f) : j # n => t[j] = f[j]
        BY <1>1, <1>2, ExceptProps
    <2> HIDE DEF t
    <2> QED
        BY <1>1, <2>1
<1> HIDE DEF t
<1>4. \A k \in 1..(Len(s) - 2) : t[k] = s[k]
    <2> SUFFICES ASSUME NEW k \in 1..(n - 1) PROVE t[k] = s[k]
        BY <1>2
    <2>1. k \in 1..n /\ k # n
        BY <1>2
    <2> QED
        BY <1>1, <1>3, <2>1
<1>5. Drops(s, t, e)
    BY <1>3, <1>4 DEF Drops, n
<1> QED
    BY <1>1, <1>2, <1>3, <1>5 DEF f, n, t

\* The innermost construct ends, and is a function.
LEMMA Leaves ==
    ASSUME NEW P, NEW C, NEW R, NEW done, Stack(P, C, R), Shaped(P, C, R, done),
           Last(P).what \in Bodies, NEW K, K = Len(C) - 1,
           NEW D \in Seq(Context), NEW T \in Seq(Frame), NEW c \in Context, NEW r \in Frame,
           Drops(C, D, c), Drops(R, T, r),
           c.locals = C[K].locals, c.upvalues = C[K].upvalues,
           r.scope = R[K].scope, NEW now \in BOOLEAN,
           NEW p, p = P[Len(P) - 1],
           Stands(p, c, r, IF now THEN 1 ELSE 0),
           now => p.what \in Expressions /\ c.tail \in Whole
    PROVE  Front(P) \in Seq(Construct) /\ Shaped(Front(P), D, T, now)
<1> DEFINE f == Front(P)
<1>1. /\ C \in Seq(Context) /\ R \in Seq(Frame) /\ Len(R) = Len(C) /\ P \in Seq(Construct)
      /\ Chain(P, C, R) /\ Parts(C, R) /\ Last(P).level = Len(C)
      /\ \A k \in DOMAIN C : Len(C[k].locals) \in Nat \ {0}
    BY DEF Stack, Shaped
<1>2. Len(C) \in Nat \ {0} /\ Last(P).what # "toplevel"
    BY Tops DEF Bodies
<1>3. Len(P) > 1 /\ p \in Construct /\ p.level \in DOMAIN C /\ Linked(p, Last(P), C, R)
    BY <1>2, Outer
<1>4. p.level = K /\ K \in Nat \ {0} /\ Len(C) = K + 1 /\ K - 1 = Len(C) - 2 /\ K \in DOMAIN C
    <2>1. Last(P).level = p.level + 1
        BY <1>3 DEF Linked, Within
    <2>2. p.level \in Nat \ {0} /\ p.level \in 1..Len(C)
        BY <1>1, <1>3
    <2>3. p.level = K
        BY <1>1, <1>2, <2>1, <2>2
    <2> QED
        BY <1>1, <1>2, <2>2, <2>3
<1>5. /\ f \in Seq(Construct) /\ Chain(f, C, R) /\ Last(f) = p
    BY <1>1, <1>3, ChainFront
<1> HIDE DEF f
<1>6. /\ DOMAIN D = 1..K /\ DOMAIN T = 1..K /\ Len(D) = K /\ Len(T) = K
      /\ D[K] = c /\ T[K] = r
      /\ \A k \in 1..(K - 1) : D[k] = C[k] /\ T[k] = R[k]
    BY <1>1, <1>4 DEF Drops
<1>7. \A k \in 1..K : k \in DOMAIN C /\ k \in DOMAIN R /\ (k = K \/ k \in 1..(K - 1))
    BY <1>1, <1>4
<1>8. \A k \in 1..K : D[k].locals = C[k].locals /\ D[k].upvalues = C[k].upvalues
    BY <1>6, <1>7
<1>9. Stack(f, C, R) /\ Stack(f, D, T)
    BY <1>1, <1>5, <1>6, <1>7, <1>8 DEF Stack
<1>10. ASSUME NEW k \in 1..(K - 1)
       PROVE  SameContext(C[k], D[k]) /\ SameFrame(R[k], T[k])
    <2>1. k \in DOMAIN C /\ k \in DOMAIN R
        <3>1. K \in Nat /\ k \in 1..(K - 1)
            BY <1>4
        <3>2. k \in 1..K
            BY ONLY <3>1
        <3> QED
            BY ONLY <1>7, <3>2
    <2>2. D[k] = C[k] /\ T[k] = R[k] /\ C[k] \in Context /\ R[k] \in Frame
          /\ Len(C[k].locals) \in Nat
        <3>1. k \in 1..(K - 1)
            OBVIOUS
        <3>2. D[k] = C[k] /\ T[k] = R[k]
            BY ONLY <1>6, <3>1
        <3>3. C[k] \in Context /\ R[k] \in Frame /\ Len(C[k].locals) \in Nat
            BY ONLY <1>1, <2>1
        <3> QED
            BY <3>2, <3>3
    <2>3. Len(R[k].scope) \in Nat
        BY <2>2 DEF Frame
    <2> QED
        BY <2>2, <2>3 DEF SameContext, SameFrame, Keeps, Extends
<1>11. Chain(f, D, T)
    <2>1. Opened(p, C[K].locals)
        BY <1>2, <1>4, Outer
    <2>2. p.count <= Len(C[K].locals) /\ p.count <= Len(D[K].locals)
        BY <1>4, <1>6, <2>1 DEF Opened
    <2>3. Keeps(C[K].locals, D[K].locals, p.count)
        BY <1>6, <2>2 DEF Keeps
    <2>4. K \in DOMAIN D /\ K \in Nat /\ K = Last(f).level
        BY <1>4, <1>5, <1>6
    <2> QED
        BY <1>5, <1>9, <1>10, <2>3, <2>4, ChainKept
<1>12. ASSUME NEW k \in DOMAIN D PROVE Framed(D[k], T[k]) /\ Captures(D, k)
    <2>1. k \in DOMAIN C /\ Framed(C[k], R[k]) /\ Captures(C, k)
        BY <1>1, <1>6, <1>7 DEF Parts
    <2>2. T[k].scope = R[k].scope /\ D[k].locals = C[k].locals /\ D[k].upvalues = C[k].upvalues
        BY <1>6, <1>7, <1>8
    <2>3. k > 1 => /\ D[k - 1].locals = C[k - 1].locals
                   /\ D[k - 1].upvalues = C[k - 1].upvalues
        <3>1. k > 1 => k - 1 \in 1..K
            BY <1>4, <1>6
        <3> QED
            BY <1>8, <3>1
    <2>4. Framed(D[k], T[k])
        BY <2>1, <2>2 DEF Framed
    <2>5. Captures(D, k)
        BY <2>1, <2>2, <2>3 DEF Captures
    <2> QED
        BY <2>4, <2>5
<1>13. Last(D) = c /\ Last(T) = r /\ D # <<>>
    BY <1>4, <1>6 DEF Last
<1>14. Shaped(f, D, T, now)
    BY <1>4, <1>5, <1>6, <1>11, <1>12, <1>13 DEF Shaped, Parts
<1> QED
    BY <1>5, <1>14 DEF f

\* The code of a function has ended, and its closure goes to the function around it.
LEMMA Left ==
    ASSUME IInv, Inner.what \in Bodies, NEW stays \in BOOLEAN, Leave(stays),
           stays <=> Inner.what = "lambda" \/ Inside(Around) > 0,
           compiled' = (Inner.what = "lambda"),
           inner_loop_depth' = inner_loop_depth,
           {had_error', damaged'} \subseteq BOOLEAN, agrees' = TRUE
    PROVE  IInv'
<1> DEFINE n == Len(contexts) - 1
           b == contexts[n]
           g == runtime[n]
           c == Emit(b, "operand")
           h == IF stays THEN g.height + 1 ELSE g.height
           r == [g EXCEPT !.height = h]
           now == Inner.what = "lambda"
<1>1. /\ Around \in Construct /\ Around.level \in DOMAIN contexts
      /\ Within(Around, Inner, contexts[Around.level], runtime[Around.level])
    <2>1. Stack(parse, contexts, runtime) /\ Shaped(parse, contexts, runtime, compiled)
          /\ Last(parse).what # "toplevel"
        BY Now DEF Inner, Bodies
    <2>2. Around \in Construct /\ Linked(Around, Inner, contexts, runtime)
          /\ Around.level \in DOMAIN contexts
        BY <2>1, Outer DEF Around, Inner
    <2> QED
        BY <2>2 DEF Linked
<1>2. Around.level = n /\ n \in DOMAIN contexts /\ Len(contexts) > 1 /\ Len(runtime) > 1
      /\ contexts \in Seq(Context) /\ runtime \in Seq(Frame) /\ Len(runtime) = Len(contexts)
    <2>1. Inner.level = Around.level + 1 /\ Inner.level = Len(contexts)
        BY Now, <1>1 DEF Within
    <2>2. Around.level \in Nat \ {0} /\ Len(contexts) \in Nat
        BY Now, <1>1
    <2>3. Around.level = n
        BY <2>1, <2>2
    <2> QED
        BY Now, <1>1, <2>1, <2>2, <2>3
<1>3. b \in Context /\ g \in Frame /\ n \in DOMAIN runtime /\ Len(b.locals) \in 1..LOCALS_LIMIT
    <2>1. \A k \in DOMAIN contexts : Len(contexts[k].locals) \in 1..LOCALS_LIMIT
        BY Now
    <2>2. DOMAIN runtime = DOMAIN contexts
        BY <1>2
    <2> HIDE DEF n
    <2> QED
        BY <1>2, <2>1, <2>2
<1>4. c \in Context /\ c.locals = b.locals /\ c.upvalues = b.upvalues
      /\ c.scope_depth = b.scope_depth /\ c.tail \in Whole
    <2> HIDE DEF b
    <2> QED
        BY <1>3, EmitProps DEF Kinds
<1>5. r \in Frame /\ r.scope = g.scope /\ r.height = h /\ g.height \in Int
    <2>1. g.height \in Int
        BY <1>3 DEF Frame
    <2>2. h \in Int
        BY <2>1
    <2> HIDE DEF g, h
    <2> QED
        BY <1>3, <2>1, <2>2, Raised
<1>6. /\ contexts' = [Front(contexts) EXCEPT ![n] = c]
      /\ runtime' = [Front(runtime) EXCEPT ![n] = r]
      /\ parse' = Front(parse)
    <2>1. Front(contexts)[n] = b /\ Front(runtime)[n] = g
        <3>1. Front(contexts)[n] = b
            BY <1>2, <1>4, FrontSet
        <3>2. Front(runtime)[Len(runtime) - 1] = runtime[Len(runtime) - 1]
              /\ Len(runtime) - 1 = n
            <4> HIDE DEF r
            <4> QED
                BY <1>2, <1>5, FrontSet
        <3> QED
            BY <3>1, <3>2
    <2>2. [Front(runtime) EXCEPT ![n].height = IF stays THEN @ + 1 ELSE @]
            = [Front(runtime) EXCEPT ![n] = [Front(runtime)[n] EXCEPT !.height =
                    IF stays THEN Front(runtime)[n].height + 1 ELSE Front(runtime)[n].height]]
        OBVIOUS
    <2> HIDE DEF n, b, g
    <2> QED
        BY <2>1, <2>2 DEF Leave, n
<1>7. /\ contexts' \in Seq(Context) /\ Drops(contexts, contexts', c)
      /\ runtime' \in Seq(Frame) /\ Drops(runtime, runtime', r)
    <2> HIDE DEF c, r
    <2>1. contexts' \in Seq(Context) /\ Drops(contexts, contexts', c)
        BY <1>2, <1>4, <1>6, FrontSet
    <2>2. Len(runtime) - 1 = n
        BY <1>2
    <2>3. runtime' \in Seq(Frame) /\ Drops(runtime, runtime', r)
        BY <1>2, <1>5, <1>6, <2>2, FrontSet
    <2> QED
        BY <2>1, <2>3
<1>8. Stands(Around, b, g, IF Inner.what = "function" /\ Inside(Around) > 0 THEN -1 ELSE 0)
      /\ (Inner.what = "function" <=> Around.what \in Statements)
    BY <1>1, <1>2 DEF Within
<1>9. Stands(Around, c, r, IF now THEN 1 ELSE 0)
    <2>1. Base(Around, g.scope) \in Int
        <3>1. g.scope \in Seq(Binding)
            BY <1>3 DEF Frame
        <3> QED
            BY <1>1, <3>1, BaseInt
    <2>2. r.height = Base(Around, g.scope) + (IF now THEN 1 ELSE 0)
        <3> DEFINE base == Base(Around, g.scope)
                   deep == Inside(Around) > 0
        <3>1. g.height = base + (IF Inner.what = "function" /\ deep THEN -1 ELSE 0)
            BY <1>8 DEF Stands
        <3>2. base \in Int /\ (stays <=> now \/ deep) /\ (now <=> Inner.what # "function")
              /\ r.height = IF stays THEN g.height + 1 ELSE g.height
            BY <1>5, <2>1 DEF Bodies
        <3> HIDE DEF base, deep, now
        <3>3. ASSUME now PROVE r.height = base + (IF now THEN 1 ELSE 0)
            BY ONLY <3>1, <3>2, <3>3
        <3>4. ASSUME ~now, deep PROVE r.height = base + (IF now THEN 1 ELSE 0)
            BY ONLY <3>1, <3>2, <3>4
        <3>5. ASSUME ~now, ~deep PROVE r.height = base + (IF now THEN 1 ELSE 0)
            BY ONLY <3>1, <3>2, <3>5
        <3>6. r.height = base + (IF now THEN 1 ELSE 0)
            BY <3>3, <3>4, <3>5
        <3> QED
            BY <3>6 DEF base
    <2> HIDE DEF c, r, now, b, g
    <2> QED
        BY <1>4, <1>5, <1>8, <2>2 DEF Stands
<1>10. now => Around.what \in Expressions
    <2>1. Around.what \in Statements \cup Expressions
        BY <1>1 DEF Construct
    <2>2. now => Around.what \notin Statements
        BY <1>8
    <2> QED
        BY <2>1, <2>2
<1>11. parse' \in Seq(Construct) /\ Shaped(parse', contexts', runtime', compiled')
    <2>1. Stack(parse, contexts, runtime) /\ Shaped(parse, contexts, runtime, compiled)
          /\ Last(parse).what \in Bodies
        BY Now DEF Inner
    <2>2. compiled' = now /\ now \in BOOLEAN
        OBVIOUS
    <2>3. Around = parse[Len(parse) - 1]
        BY DEF Around
    <2> HIDE DEF c, r, now, n, IInv
    <2>4. n = Len(contexts) - 1
        BY DEF n
    <2>5. /\ c.locals = contexts[n].locals /\ c.upvalues = contexts[n].upvalues
          /\ r.scope = runtime[n].scope
        BY <1>4, <1>5
    <2>6. c \in Context /\ c.tail \in Whole /\ r \in Frame
        BY <1>4, <1>5
    <2>7. Front(parse) \in Seq(Construct) /\ Shaped(Front(parse), contexts', runtime', now)
        BY ONLY <1>7, <1>9, <1>10, <2>1, <2>2, <2>3, <2>4, <2>5, <2>6, Leaves
    <2> QED
        BY <1>6, <2>2, <2>7
<1> HIDE DEF c, r
<1>12. /\ Len(contexts') = n /\ Len(runtime') = n /\ DOMAIN contexts' = 1..n
       /\ contexts'[n] = c /\ \A k \in 1..(n - 1) : contexts'[k] = contexts[k]
       /\ n \in Nat \ {0}
    <2>1. Len(contexts) - 2 = n - 1 /\ Len(contexts) - 1 = n /\ Len(runtime) - 1 = n
          /\ n \in Nat \ {0}
        BY <1>2
    <2> HIDE DEF n
    <2>2. /\ Len(contexts') = n /\ DOMAIN contexts' = 1..n
          /\ contexts'[n] = c /\ \A k \in 1..(n - 1) : contexts'[k] = contexts[k]
        BY ONLY <1>7, <2>1 DEF Drops
    <2>3. Len(runtime') = n
        BY ONLY <1>7, <2>1 DEF Drops
    <2> QED
        BY <2>1, <2>2, <2>3
<1>13. ASSUME NEW k \in DOMAIN contexts' PROVE Len(contexts'[k].locals) \in 1..LOCALS_LIMIT
    <2>1. CASE k = n
        BY <1>3, <1>4, <1>12, <2>1
    <2>2. CASE k # n
        <3>1. k \in 1..(n - 1) /\ k \in DOMAIN contexts
            BY <1>2, <1>12, <2>2
        <3> QED
            BY Now, <1>12, <3>1
    <2> QED
        BY <2>1, <2>2
<1>14. Len(parse') \in 1..MaxNesting
    <2>1. Len(parse) > 1 /\ Len(parse) \in 1..MaxNesting /\ MaxNesting \in Nat
        <3>1. Stack(parse, contexts, runtime) /\ Shaped(parse, contexts, runtime, compiled)
              /\ Last(parse).what # "toplevel"
            BY Now DEF Inner, Bodies
        <3> QED
            BY Now, <3>1, Outer
    <2>2. Len(parse') = Len(parse) - 1
        <3>1. parse \in Seq(Construct) /\ parse # <<>>
            BY Now
        <3> QED
            BY <1>6, <3>1, FrontProps
    <2> QED
        BY <2>1, <2>2
<1>15. inner_loop_depth' \in Nat \cup {NoLoop} /\ {compiled', agrees'} \subseteq BOOLEAN
    BY Now
<1> QED
    BY <1>7, <1>11, <1>12, <1>13, <1>14, <1>15 DEF IInv, Typed, Levels

\* The closure of a local function comes to the slot of its variable.
LEMMA EndFunctionStep ==
    ASSUME IInv, EndFunction
    PROVE  IInv'
<1> DEFINE stays == contexts[Len(contexts) - 1].scope_depth > 0
<1>1. /\ ~compiled /\ Inner.what = "function" /\ Leave(stays)
      /\ inner_loop_depth' = inner_loop_depth /\ compiled' = FALSE
      /\ {had_error', damaged'} \subseteq BOOLEAN /\ agrees' = TRUE
    BY DEF EndFunction, AtStatement, Loads, IInv, Typed
<1>2. stays <=> Inside(Around) > 0
    <2>1. Stack(parse, contexts, runtime) /\ Shaped(parse, contexts, runtime, compiled)
          /\ Last(parse).what = "function"
        BY Now, <1>1 DEF Inner
    <2>2. "function" # "toplevel" /\ "function" \in Bodies
        BY DEF Bodies
    <2>3. Around \in Construct /\ Linked(Around, Inner, contexts, runtime)
          /\ Around.level \in DOMAIN contexts
        BY <2>1, <2>2, Outer DEF Around, Inner
    <2>4. Within(Around, Inner, contexts[Around.level], runtime[Around.level])
        BY <1>1, <2>2, <2>3 DEF Linked
    <2>5. Around.level = Len(contexts) - 1
        <3>1. Inner.level = Around.level + 1 /\ Inner.level = Len(contexts)
            BY Now, <2>4 DEF Within
        <3>2. Around.level \in Nat /\ Len(contexts) \in Nat
            BY Now, <2>3
        <3> QED
            BY <3>1, <3>2
    <2>6. contexts[Len(contexts) - 1].scope_depth = Inside(Around)
        BY <2>4, <2>5 DEF Within, Stands
    <2> QED
        BY <2>6
<1> HIDE DEF stays
<1>3. stays \in BOOLEAN
    BY DEF stays
<1>4. "function" # "lambda" /\ "function" \in Bodies
    BY DEF Bodies
<1> QED
    BY <1>1, <1>2, <1>3, <1>4, Left

\* The closure of a lambda is a value.
LEMMA EndLambdaStep ==
    ASSUME IInv, EndLambda
    PROVE  IInv'
<1>1. /\ Inner.what = "lambda" /\ Leave(TRUE)
      /\ inner_loop_depth' = inner_loop_depth /\ compiled' = TRUE
      /\ {had_error', damaged'} \subseteq BOOLEAN /\ agrees' = TRUE
    BY DEF EndLambda, AfterExpression, IInv, Typed
<1>2. Inner.what \in Bodies
    BY <1>1 DEF Bodies
<1> QED
    BY <1>1, <1>2, Left

-----------------------------------------------------------------------------
\* The beginning of a program

\* A program without code.
LEMMA Started ==
    /\ <<TopLevel>> \in Seq(Construct) /\ <<NewContext(0)>> \in Seq(Context)
    /\ <<NewFrame>> \in Seq(Frame)
    /\ Len(NewContext(0).locals) = 1
    /\ Shaped(<<TopLevel>>, <<NewContext(0)>>, <<NewFrame>>, FALSE)
<1> DEFINE p == TopLevel
           c == NewContext(0)
           r == NewFrame
           l == <<Slot0>>
<1>1. Slot0 \in Local /\ Slot0.name = "" /\ Slot0.depth = 0
    BY DEF Slot0, Local
<1>2. <<>> \in Seq(Binding) /\ <<>> \in Seq(Upvalue) /\ Len(<<>>) = 0 /\ DOMAIN <<>> = {}
    OBVIOUS
<1>3. /\ p \in Construct /\ p.what = "toplevel" /\ p.level = 1 /\ p.depth = 0 /\ p.count = 1
      /\ p.height = 1 /\ p.scope = <<>>
    <2>1. "toplevel" \in Statements \cup Expressions
        BY DEF Statements
    <2> QED
        BY <1>2, <2>1 DEF TopLevel, Construct
<1>4. l \in Seq(Local) /\ Len(l) = 1 /\ l[1] = Slot0
    <2> DEFINE e == Slot0
    <2>1. e \in Local
        BY <1>1
    <2> HIDE DEF e
    <2>2. <<e>> \in Seq(Local) /\ Len(<<e>>) = 1 /\ <<e>>[1] = e
        BY <2>1
    <2> QED
        BY <2>2 DEF e
<1> HIDE DEF l
<1>5. /\ c \in Context /\ c.locals = l /\ c.upvalues = <<>> /\ c.scope_depth = 0
    <2>1. c = [locals |-> l, upvalues |-> <<>>, scope_depth |-> 0, tail |-> <<>>]
        BY DEF NewContext, l
    <2>2. <<>> \in Tails
        BY DEF Tails
    <2> HIDE DEF c
    <2> QED
        BY <1>2, <1>4, <2>1, <2>2 DEF Context
<1>6. /\ r \in Frame /\ r.height = 1 /\ r.scope = <<>>
    BY <1>2 DEF NewFrame, Frame
<1> HIDE DEF p, c, r
<1>7. /\ <<p>> \in Seq(Construct) /\ Len(<<p>>) = 1 /\ <<p>>[1] = p /\ Last(<<p>>) = p
      /\ DOMAIN <<p>> = 1..1 /\ <<p>> # <<>>
      /\ <<c>> \in Seq(Context) /\ Len(<<c>>) = 1 /\ <<c>>[1] = c /\ Last(<<c>>) = c
      /\ DOMAIN <<c>> = 1..1
      /\ <<r>> \in Seq(Frame) /\ Len(<<r>>) = 1 /\ <<r>>[1] = r /\ Last(<<r>>) = r
    BY <1>3, <1>5, <1>6 DEF Last
<1>8. Matched(l, 1, <<>>)
    BY <1>2 DEF Matched
<1>9. Opened(p, l)
    <2>1. l[1].depth = 0
        BY <1>1, <1>4
    <2> QED
        BY <1>3, <1>4, <1>8, <2>1 DEF Opened
<1>10. Framed(c, r)
    BY <1>1, <1>4, <1>5, <1>6, <1>8 DEF Framed
<1>11. Captures(<<c>>, 1)
    BY <1>2, <1>5, <1>7 DEF Captures
<1>12. Stands(p, c, r, 0)
    <2>1. Inside(p) = 0
        BY <1>3 DEF Inside, Blocks
    <2>2. p.what \in Statements
        BY <1>3 DEF Statements
    <2>3. Extends(p.scope, r.scope)
        BY <1>2, <1>3, <1>6 DEF Extends
    <2>4. Reached(p, l, r.scope, 1)
        BY <1>2, <1>3, <1>6, <2>2, <2>3 DEF Reached
    <2>5. Base(p, r.scope) = 1
        BY <1>2, <1>3, <1>6 DEF Base
    <2>6. Len(c.locals) = 1 /\ r.height = Base(p, r.scope) + 0
        BY <1>4, <1>5, <1>6, <2>5
    <2>7. Reached(p, c.locals, r.scope, Len(c.locals))
        BY <1>5, <2>4, <2>6
    <2> QED
        BY <1>5, <2>1, <2>6, <2>7 DEF Stands
<1>13. Chain(<<p>>, <<c>>, <<r>>)
    BY <1>3, <1>5, <1>7, <1>9 DEF Chain
<1>14. Parts(<<c>>, <<r>>)
    BY <1>7, <1>10, <1>11 DEF Parts
<1>15. Shaped(<<p>>, <<c>>, <<r>>, FALSE)
    BY <1>3, <1>7, <1>12, <1>13, <1>14 DEF Shaped
<1> QED
    BY <1>4, <1>5, <1>7, <1>15 DEF p, c, r

\* The invariant holds in the initial states.
LEMMA InitIInv ==
    ASSUME Init
    PROVE  IInv
<1>1. /\ contexts = <<NewContext(0)>> /\ runtime = <<NewFrame>> /\ inner_loop_depth = NoLoop
      /\ parse = <<TopLevel>> /\ compiled = FALSE /\ had_error = FALSE
      /\ agrees = TRUE /\ damaged = FALSE
    BY DEF Init
<1> DEFINE c == NewContext(0)
           r == NewFrame
           p == TopLevel
<1>2. /\ <<p>> \in Seq(Construct) /\ <<c>> \in Seq(Context) /\ <<r>> \in Seq(Frame)
      /\ Len(c.locals) = 1 /\ Shaped(<<p>>, <<c>>, <<r>>, FALSE)
    BY Started
<1>3. contexts = <<c>> /\ runtime = <<r>> /\ parse = <<p>>
    BY <1>1
<1> HIDE DEF c, r, p
<1>4. \A k \in Levels : Len(contexts[k].locals) \in 1..LOCALS_LIMIT
    <2>1. DOMAIN <<c>> = {1} /\ <<c>>[1] = c
        OBVIOUS
    <2>2. 1 \in 1..LOCALS_LIMIT
        BY LimitsAssumption
    <2> QED
        BY <1>2, <1>3, <2>1, <2>2 DEF Levels
<1>5. Len(contexts) = Len(runtime) /\ Len(parse) \in 1..MaxNesting
    BY <1>3, BoundAssumption
<1> QED
    BY <1>1, <1>2, <1>3, <1>4, <1>5 DEF IInv, Typed

\* The next program starts like the first.
LEMMA CompileStep ==
    ASSUME IInv, Compile
    PROVE  IInv'
<1>1. /\ contexts' = <<NewContext(0)>> /\ runtime' = <<NewFrame>> /\ inner_loop_depth' = NoLoop
      /\ parse' = <<TopLevel>> /\ compiled' = FALSE /\ had_error' = FALSE
      /\ agrees' = TRUE /\ damaged' = FALSE
    BY DEF Compile
<1> DEFINE c == NewContext(0)
           r == NewFrame
           p == TopLevel
<1>2. /\ <<p>> \in Seq(Construct) /\ <<c>> \in Seq(Context) /\ <<r>> \in Seq(Frame)
      /\ Len(c.locals) = 1 /\ Shaped(<<p>>, <<c>>, <<r>>, FALSE)
    BY Started
<1>3. contexts' = <<c>> /\ runtime' = <<r>> /\ parse' = <<p>>
    BY <1>1
<1> HIDE DEF c, r, p
<1>4. \A k \in DOMAIN contexts' : Len(contexts'[k].locals) \in 1..LOCALS_LIMIT
    <2>1. DOMAIN <<c>> = {1} /\ <<c>>[1] = c
        OBVIOUS
    <2>2. 1 \in 1..LOCALS_LIMIT
        BY LimitsAssumption
    <2> QED
        BY <1>2, <1>3, <2>1, <2>2
<1>5. Len(contexts') = Len(runtime') /\ Len(parse') \in 1..MaxNesting
    BY <1>3, BoundAssumption
<1> QED
    BY <1>1, <1>2, <1>3, <1>4, <1>5 DEF IInv, Typed, Levels

-----------------------------------------------------------------------------
\* Names

\* The latest variable of a name in a frame.
Scoped(r, n) == SelectLastInSeq(r.scope, LAMBDA b : b.name = n)

\* A name is found in the locals of a function where it is in scope, and only there.
LEMMA SlotOf ==
    ASSUME NEW c \in Context, NEW r \in Frame, Framed(c, r), Len(c.locals) \in Nat \ {0},
           NEW n \in Name
    PROVE  \/ Scoped(r, n) = 0 /\ ResolveLocal(c, n) = -1
           \/ /\ Scoped(r, n) \in DOMAIN r.scope /\ r.scope[Scoped(r, n)].name = n
              /\ ResolveLocal(c, n) = r.scope[Scoped(r, n)].slot
              /\ ResolveLocal(c, n) \in 1..(Len(c.locals) - 1)
<1> DEFINE l == c.locals
           s == r.scope
           y == Len(l)
           z == Len(s)
           I == { i \in 1..y : l[i].depth # Uninit /\ l[i].name = n }
           J == { j \in 1..z : s[j].name = n }
<1>1. y \in Nat /\ z \in Nat /\ DOMAIN s = 1..z
    <2>1. s \in Seq(Binding)
        BY DEF Frame
    <2>2. Len(s) \in Nat /\ DOMAIN s = 1..Len(s)
        BY <2>1
    <2>3. Len(c.locals) \in Nat
        OBVIOUS
    <2> QED
        BY <2>2, <2>3
<1>2. /\ \A j \in DOMAIN s :
            /\ s[j].slot \in 1..(y - 1)
            /\ l[s[j].slot + 1].name = s[j].name /\ l[s[j].slot + 1].depth # Uninit
      /\ \A i, j \in DOMAIN s : i < j => s[i].slot < s[j].slot
      /\ \A i \in 2..y : l[i].depth # Uninit => \E j \in DOMAIN s : s[j].slot = i - 1
      /\ l[1].name = ""
    BY DEF Framed, Matched
<1>20. l[1].name # n
    BY <1>2, NameAssumption
<1>3. ResolveLocal(c, n) = (IF I # {} THEN Max(I) ELSE 0) - 1
    BY DEF ResolveLocal, SelectLastInSeq
<1>4. Scoped(r, n) = IF J # {} THEN Max(J) ELSE 0
    BY DEF Scoped, SelectLastInSeq
<1> HIDE DEF l, s, y, z
<1>5. \A i \in I : i \in Nat /\ i <= y
    BY <1>1
<1>6. \A j \in J : j \in Nat /\ j <= z /\ j \in DOMAIN s /\ s[j].name = n
    BY <1>1
<1>7. \A j \in J : s[j].slot + 1 \in I
    <2> SUFFICES ASSUME NEW j \in J PROVE s[j].slot + 1 \in I
        OBVIOUS
    <2> DEFINE x == s[j].slot
    <2>1. x \in 1..(y - 1) /\ l[x + 1].name = n /\ l[x + 1].depth # Uninit
        BY <1>2, <1>6
    <2> HIDE DEF x
    <2>2. x + 1 \in I
        BY <1>1, <2>1
    <2> QED
        BY <2>2 DEF x
<1>8. \A i \in I : \E j \in J : s[j].slot = i - 1
    <2> SUFFICES ASSUME NEW i \in I PROVE \E j \in J : s[j].slot = i - 1
        OBVIOUS
    <2>1. i \in 2..y /\ l[i].name = n
        BY <1>1, <1>20
    <2>2. PICK j \in DOMAIN s : s[j].slot = i - 1
        BY <1>2, <2>1
    <2>3. s[j].name = n
        <3>1. s[j].slot + 1 = i
            BY <2>1, <2>2
        <3> QED
            BY <1>2, <2>1, <3>1
    <2> QED
        BY <1>1, <2>2, <2>3
<1>9. \A j \in J : s[j].slot \in Nat /\ s[j].slot \in 1..(y - 1)
    <2> SUFFICES ASSUME NEW j \in J PROVE s[j].slot \in Nat /\ s[j].slot \in 1..(y - 1)
        OBVIOUS
    <2> DEFINE x == s[j].slot
    <2>1. x \in 1..(y - 1)
        BY <1>2, <1>6
    <2> HIDE DEF x
    <2>2. x \in Nat
        BY <1>1, <2>1
    <2> QED
        BY <2>1, <2>2 DEF x
<1>10. \A i, j \in J : i < j => s[i].slot < s[j].slot
    BY <1>2, <1>6
<1> HIDE DEF I, J
<1>11. CASE J = {}
    <2>1. I = {}
        BY <1>8, <1>11
    <2> QED
        BY <1>3, <1>4, <1>11, <2>1
<1>12. CASE J # {}
    <2>1. I # {} /\ I \in SUBSET Nat /\ J \in SUBSET Nat
        BY <1>5, <1>6, <1>7, <1>12
    <2>2. Max(J) \in J /\ \A j \in J : Max(J) >= j
        BY <1>1, <1>6, <1>12, <2>1, MaxProps
    <2>3. Max(I) \in I /\ \A i \in I : Max(I) >= i
        BY <1>1, <1>5, <2>1, MaxProps
    <2> DEFINE a == Max(J)
               b == Max(I)
    <2> HIDE DEF a, b
    <2>4. a \in J /\ b \in I /\ a \in Nat /\ b \in Nat /\ \A j \in J : a >= j
        BY <2>1, <2>2, <2>3 DEF a, b
    <2>5. b >= s[a].slot + 1
        BY <1>7, <2>3, <2>4 DEF b
    <2>6. PICK j \in J : s[j].slot = b - 1
        BY <1>8, <2>4
    <2>7. s[j].slot <= s[a].slot
        <3>1. j = a \/ j < a
            BY <1>6, <2>4
        <3> QED
            BY <1>9, <1>10, <2>4, <3>1
    <2>8. b - 1 = s[a].slot
        <3>1. s[a].slot \in Nat /\ s[j].slot \in Nat
            BY <1>9, <2>4
        <3> DEFINE x == s[a].slot
                   e == s[j].slot
        <3> HIDE DEF x, e
        <3>2. b >= x + 1 /\ e = b - 1 /\ e <= x /\ x \in Nat /\ e \in Nat /\ b \in Nat
            BY <2>4, <2>5, <2>6, <2>7, <3>1 DEF x, e
        <3>3. b - 1 = x
            BY ONLY <3>2
        <3> QED
            BY <3>3 DEF x
    <2>9. ResolveLocal(c, n) = b - 1 /\ Scoped(r, n) = a
        BY <1>3, <1>4, <1>12, <2>1 DEF a, b
    <2> QED
        BY <1>6, <1>9, <2>4, <2>8, <2>9 DEF l, s, y
<1> QED
    BY <1>11, <1>12

\* The innermost of some levels.
LEMMA NearestLevel ==
    ASSUME NEW N \in Nat, NEW K \in SUBSET (1..N), K # {}
    PROVE  Nearest(K) \in K /\ \A j \in K : j <= Nearest(K)
<1>1. K \in SUBSET Nat /\ \A k \in K : k <= N
    OBVIOUS
<1>2. Max(K) \in K /\ \A k \in K : Max(K) >= k
    BY <1>1, MaxProps
<1>3. \E k \in K : \A j \in K : j <= k
    BY <1>1, <1>2
<1> QED
    BY <1>3 DEF Nearest

\* Adding an upvalue.
LEMMA UpvalueAdded ==
    ASSUME NEW c \in Context, NEW u \in Upvalue,
           \A i, j \in DOMAIN c.upvalues : c.upvalues[i] = c.upvalues[j] => i = j
    PROVE  LET d == AddUpvalue(c, u)
               x == UpvalueIndex(d, u)
           IN  /\ d \in Context /\ d.locals = c.locals /\ d.scope_depth = c.scope_depth
               /\ d.tail = c.tail
               /\ \A i, j \in DOMAIN d.upvalues : d.upvalues[i] = d.upvalues[j] => i = j
               /\ Len(c.upvalues) <= Len(d.upvalues)
               /\ \A i \in DOMAIN d.upvalues :
                    d.upvalues[i] = u \/ (i \in DOMAIN c.upvalues /\ d.upvalues[i] = c.upvalues[i])
               /\ x \in Nat /\ x < Len(d.upvalues) /\ d.upvalues[x + 1] = u
<1> DEFINE v == c.upvalues
           w == IF Contains(v, u) THEN v ELSE Append(v, u)
           d == AddUpvalue(c, u)
<1>1. v \in Seq(Upvalue) /\ Len(v) \in Nat /\ DOMAIN v = 1..Len(v)
    BY DEF Context
<1>2. /\ w \in Seq(Upvalue) /\ Len(v) <= Len(w)
      /\ \A i, j \in 1..Len(w) : w[i] = w[j] => i = j
      /\ \A i \in 1..Len(w) : w[i] = u \/ (i \in DOMAIN v /\ w[i] = v[i])
      /\ \E i \in 1..Len(w) : w[i] = u
    <2>1. CASE Contains(v, u)
        BY <1>1, <2>1, SMTT(30) DEF Contains
    <2>2. CASE ~Contains(v, u)
        <3>1. /\ Append(v, u) \in Seq(Upvalue) /\ Len(Append(v, u)) = Len(v) + 1
              /\ Append(v, u)[Len(v) + 1] = u
              /\ \A i \in 1..Len(v) : Append(v, u)[i] = v[i]
            BY <1>1, OneMore
        <3>2. w = Append(v, u) /\ \A i \in 1..Len(v) : v[i] # u
            BY <2>2 DEF Contains
        <3> HIDE DEF w, v
        <3>3. \A i \in 1..Len(w) : i = Len(v) + 1 \/ (i \in 1..Len(v) /\ w[i] = v[i])
            BY <1>1, <3>1, <3>2
        <3>4. \A i, j \in 1..Len(w) : w[i] = w[j] => i = j
            BY <1>1, <3>1, <3>2, <3>3 DEF v
        <3>5. Len(v) + 1 \in 1..Len(w) /\ Len(v) <= Len(w)
            BY <1>1, <3>1, <3>2
        <3> QED
            BY <1>1, <3>1, <3>2, <3>3, <3>4, <3>5
    <2> QED
        BY <2>1, <2>2
<1>3. d \in Context /\ d.upvalues = w /\ d.locals = c.locals /\ d.scope_depth = c.scope_depth
      /\ d.tail = c.tail
    <2>2. d = IF Contains(v, u) THEN c ELSE [c EXCEPT !.upvalues = w]
        BY DEF AddUpvalue
    <2>3. Contains(v, u) => w = v
        OBVIOUS
    <2> HIDE DEF w, d
    <2>4. CASE Contains(v, u)
        BY <2>2, <2>3, <2>4
    <2>5. CASE ~Contains(v, u)
        BY <1>2, <2>2, <2>5 DEF Context
    <2> QED
        BY <2>4, <2>5
<1> DEFINE I == { i \in 1..Len(w) : w[i] = u }
<1>4. UpvalueIndex(d, u) = (IF I # {} THEN Min(I) ELSE 0) - 1
    BY <1>3 DEF UpvalueIndex, SelectInSeq
<1> HIDE DEF w, d
<1>5. I # {} /\ I \in SUBSET Nat /\ Len(w) \in Nat /\ DOMAIN w = 1..Len(w)
    BY <1>2
<1>6. \A i \in I : i \in 1..Len(w) /\ w[i] = u
    OBVIOUS
<1> HIDE DEF I
<1>7. Min(I) \in I
    BY <1>5, MinProps
<1> DEFINE a == Min(I)
<1> HIDE DEF a
<1>8. a \in 1..Len(w) /\ w[a] = u /\ UpvalueIndex(d, u) = a - 1
    BY <1>4, <1>5, <1>6, <1>7 DEF a
<1>9. a - 1 \in Nat /\ a - 1 < Len(w) /\ (a - 1) + 1 = a
    BY <1>5, <1>8
<1> QED
    BY <1>2, <1>3, <1>5, <1>8, <1>9 DEF d

-----------------------------------------------------------------------------
\* Captures

\* The upvalue of level k for a variable of level home that is at x in the level around.
Up(home, k, x) == [is_local |-> k = home + 1, index |-> x]

Found(C, home, k, x) == UpvalueIndex(AddUpvalue(C[k], Up(home, k, x)), Up(home, k, x))

\* Where the variable is in each level up to m.
IsIndex(f, C, home, slot, m) ==
    f = [k \in home..m |-> IF k = home THEN slot ELSE Found(C, home, k, f[k - 1])]

Index(C, home, slot) == CHOOSE f : IsIndex(f, C, home, slot, Len(C))

\* There is such a function, and Index is one.
LEMMA IndexProps ==
    ASSUME NEW C, Len(C) \in Nat, NEW home \in 1..Len(C), NEW slot
    PROVE  /\ Index(C, home, slot)[home] = slot
           /\ \A k \in (home + 1)..Len(C) :
                Index(C, home, slot)[k] = Found(C, home, k, Index(C, home, slot)[k - 1])
<1> DEFINE S == { d \in Nat : \E f : IsIndex(f, C, home, slot, home + d) }
           N == Len(C)
<1>1. 0 \in S
    <2> DEFINE f == [k \in home..home |-> slot]
    <2>1. home..(home + 0) = home..home /\ \A k \in home..home : k = home
        OBVIOUS
    <2>2. IsIndex(f, C, home, slot, home + 0)
        BY <2>1 DEF IsIndex
    <2> QED
        BY <2>2
<1>2. ASSUME NEW d \in Nat, d \in S PROVE d + 1 \in S
    <2> DEFINE m == home + d
    <2>1. PICK f : IsIndex(f, C, home, slot, m)
        BY <1>2
    <2>2. m \in Nat /\ home <= m /\ home + (d + 1) = m + 1
        OBVIOUS
    <2> DEFINE g == [k \in home..(m + 1) |->
                        IF k <= m THEN f[k] ELSE Found(C, home, m + 1, f[m])]
    <2> HIDE DEF m
    <2>3. \A k \in home..m : f[k] = IF k = home THEN slot ELSE Found(C, home, k, f[k - 1])
        BY <2>1 DEF IsIndex
    <2>4. \A k \in home..(m + 1) :
            g[k] = IF k = home THEN slot ELSE Found(C, home, k, g[k - 1])
        <3> SUFFICES ASSUME NEW k \in home..(m + 1)
                     PROVE  g[k] = IF k = home THEN slot ELSE Found(C, home, k, g[k - 1])
            OBVIOUS
        <3>1. CASE k <= m
            <4>1. k = home \/ (k - 1 \in home..m /\ k - 1 <= m)
                BY <2>2, <3>1
            <4> QED
                BY <2>2, <2>3, <3>1, <4>1
        <3>2. CASE k = m + 1
            <4>1. k - 1 = m /\ ~(k <= m) /\ k # home /\ m \in home..(m + 1)
                BY <2>2, <3>2
            <4> QED
                BY <3>2, <4>1
        <3> QED
            BY <2>2, <3>1, <3>2
    <2>5. IsIndex(g, C, home, slot, m + 1)
        <3>1. g = [k \in home..(m + 1) |-> g[k]]
            OBVIOUS
        <3> HIDE DEF g
        <3> QED
            BY <2>4, <3>1 DEF IsIndex
    <2> QED
        BY <2>2, <2>5
<1>3. \E f : IsIndex(f, C, home, slot, N)
    <2>1. N - home \in Nat /\ home + (N - home) = N
        OBVIOUS
    <2>2. \A d \in Nat : d \in S <=> \E f : IsIndex(f, C, home, slot, home + d)
        OBVIOUS
    <2> HIDE DEF S, N
    <2>3. \A m \in 0..((N - home) - 1) : m \in S => m + 1 \in S
        BY <1>2, <2>1
    <2>4. \A m \in 0..(N - home) : m \in S
        BY <1>1, <2>1, <2>3, Steps
    <2> QED
        BY <2>1, <2>2, <2>4
<1>4. IsIndex(Index(C, home, slot), C, home, slot, N)
    BY <1>3 DEF Index
<1> DEFINE x == Index(C, home, slot)
<1>5. \A k \in home..N : x[k] = IF k = home THEN slot ELSE Found(C, home, k, x[k - 1])
    BY <1>4 DEF IsIndex
<1>6. home \in home..N /\ \A k \in (home + 1)..N : k \in home..N /\ k # home
    OBVIOUS
<1> HIDE DEF x, N
<1>7. x[home] = slot /\ \A k \in (home + 1)..N : x[k] = Found(C, home, k, x[k - 1])
    BY <1>5, <1>6
<1> QED
    BY <1>7 DEF x, N

\* The contexts C become D: the local in slot of level home is marked, and each level
\* inside gets the variable, as its upvalue x[k].
Passes(C, D, home, slot, x) ==
    /\ DOMAIN D = 1..Len(C)
    /\ \A k \in 1..(home - 1) : D[k] = C[k]
    /\ D[home] = [C[home] EXCEPT !.locals[slot + 1].is_captured = TRUE]
    /\ \A k \in (home + 1)..Len(C) :
        /\ D[k] = AddUpvalue(C[k], Up(home, k, x[k - 1]))
        /\ x[k] = UpvalueIndex(D[k], Up(home, k, x[k - 1]))
    /\ x[home] = slot

\* resolve_upvalue passes the variable inwards.
LEMMA CapturedPasses ==
    ASSUME contexts \in Seq(Context), NEW home \in 1..Len(contexts), NEW n
    PROVE  LET slot == ResolveLocal(contexts[home], n)
               x    == Index(contexts, home, slot)
           IN  /\ Passes(contexts, Captured(home, n).contexts, home, slot, x)
               /\ Captured(home, n).index = x[Len(contexts)]
<1> DEFINE N == Len(contexts)
           slot == ResolveLocal(contexts[home], n)
           x == Index(contexts, home, slot)
           capture == [k \in Levels |->
                IF k < home THEN contexts[k]
                ELSE IF k = home
                THEN [contexts[k] EXCEPT !.locals[slot + 1].is_captured = TRUE]
                ELSE AddUpvalue(contexts[k], Up(home, k, x[k - 1]))]
<1>1. N \in Nat /\ DOMAIN contexts = 1..N
    OBVIOUS
<1>2. Captured(home, n) = [contexts |-> capture, index |-> x[N]]
    BY DEF Captured, Index, IsIndex, Found, Up
<1>3. x[home] = slot /\ \A k \in (home + 1)..N : x[k] = Found(contexts, home, k, x[k - 1])
    BY <1>1, IndexProps
<1>4. /\ DOMAIN capture = 1..N
      /\ \A k \in 1..(home - 1) : capture[k] = contexts[k]
      /\ capture[home] = [contexts[home] EXCEPT !.locals[slot + 1].is_captured = TRUE]
      /\ \A k \in (home + 1)..N :
            capture[k] = AddUpvalue(contexts[k], Up(home, k, x[k - 1]))
    BY <1>1 DEF Levels
<1>5. Captured(home, n).contexts = capture /\ Captured(home, n).index = x[N]
    BY <1>2
<1> HIDE DEF capture, x, slot
<1>6. \A k \in (home + 1)..N :
        x[k] = UpvalueIndex(capture[k], Up(home, k, x[k - 1]))
    BY <1>3, <1>4 DEF Found
<1>7. Passes(contexts, capture, home, slot, x)
    BY <1>3, <1>4, <1>6 DEF Passes
<1> QED
    BY <1>5, <1>7 DEF x, slot


\* A local is marked.
LEMMA MarkedLocal ==
    ASSUME NEW c \in Context, Len(c.locals) \in Nat, NEW i \in 1..Len(c.locals),
           NEW d, d = [c EXCEPT !.locals[i].is_captured = TRUE]
    PROVE  /\ d \in Context /\ d.upvalues = c.upvalues /\ SameContext(c, d)
           /\ d.locals[i].is_captured
<1> DEFINE l == c.locals
           e == [l[i] EXCEPT !.is_captured = TRUE]
           k == [l EXCEPT ![i] = e]
<1>1. l \in Seq(Local) /\ l[i] \in Local /\ TRUE \in BOOLEAN /\ 0 \in Int
    BY DEF Context
<1>2. e \in Local /\ e.name = l[i].name /\ e.depth = l[i].depth /\ e.is_captured = TRUE
    BY ONLY <1>1, LocalProps
<1>3. d = [c EXCEPT !.locals = k]
    OBVIOUS
<1> HIDE DEF e
<1>4. /\ k \in Seq(Local) /\ Len(k) = Len(l) /\ k[i] = e
      /\ \A j \in 1..Len(l) : j # i => k[j] = l[j]
    <2>1. i \in 1..Len(l)
        OBVIOUS
    <2> HIDE DEF l
    <2> QED
        BY ONLY <1>1, <1>2, <2>1, ExceptProps
<1> HIDE DEF k
<1>5. d \in Context /\ d.locals = k /\ d.upvalues = c.upvalues /\ d.scope_depth = c.scope_depth
    BY <1>3, <1>4 DEF Context
<1>6. ASSUME NEW j \in 1..Len(l)
      PROVE  /\ k[j].name = l[j].name /\ k[j].depth = l[j].depth
             /\ l[j].is_captured => k[j].is_captured
    BY <1>2, <1>4
<1>7. Keeps(l, k, Len(l))
    BY <1>4, <1>6 DEF Keeps
<1> QED
    BY <1>2, <1>4, <1>5, <1>7 DEF SameContext

\* A context is the same as itself.
LEMMA SameItself ==
    ASSUME NEW c, NEW d, d.locals = c.locals, d.scope_depth = c.scope_depth,
           Len(c.locals) \in Nat
    PROVE  SameContext(c, d)
BY DEF SameContext, Keeps

\* What the functions have become when a variable was passed in to the innermost one.
LEMMA PassesProps ==
    ASSUME NEW C \in Seq(Context), \A k \in DOMAIN C : Len(C[k].locals) \in Nat \ {0},
           \A k \in DOMAIN C : Captures(C, k),
           NEW home \in 1..Len(C), NEW slot \in Nat, slot < Len(C[home].locals),
           NEW D, NEW x, Passes(C, D, home, slot, x)
    PROVE  /\ \A k \in 1..Len(C) :
                /\ D[k] \in Context /\ SameContext(C[k], D[k])
                /\ k # home => D[k].locals = C[k].locals
                /\ Len(C[k].upvalues) <= Len(D[k].upvalues)
                /\ \A i, j \in DOMAIN D[k].upvalues :
                        D[k].upvalues[i] = D[k].upvalues[j] => i = j
                /\ \A i \in DOMAIN D[k].upvalues :
                        \/ i \in DOMAIN C[k].upvalues /\ D[k].upvalues[i] = C[k].upvalues[i]
                        \/ k > home /\ D[k].upvalues[i] = Up(home, k, x[k - 1])
           /\ \A k \in home..Len(C) : x[k] \in Nat
           /\ D[home].locals[slot + 1].is_captured
           /\ \A k \in (home + 1)..Len(C) :
                /\ x[k] < Len(D[k].upvalues)
                /\ D[k].upvalues[x[k] + 1] = Up(home, k, x[k - 1])
<1> DEFINE N == Len(C)
<1>1. /\ N \in Nat /\ DOMAIN C = 1..N
      /\ \A k \in 1..N : C[k] \in Context /\ C[k].upvalues \in Seq(Upvalue)
                         /\ Len(C[k].upvalues) \in Nat /\ Len(C[k].locals) \in Nat \ {0}
    <2>1. \A k \in 1..N : C[k] \in Context
        OBVIOUS
    <2>2. \A k \in 1..N : C[k].upvalues \in Seq(Upvalue)
        BY <2>1 DEF Context
    <2> QED
        BY <2>1, <2>2
<1>2. \A k \in 1..N : \A i, j \in DOMAIN C[k].upvalues :
            C[k].upvalues[i] = C[k].upvalues[j] => i = j
    BY <1>1 DEF Captures
<1> HIDE DEF N
<1>3. ASSUME NEW k \in (home + 1)..N, x[k - 1] \in Nat
      PROVE  /\ D[k] \in Context /\ SameContext(C[k], D[k])
             /\ D[k].locals = C[k].locals
             /\ Len(C[k].upvalues) <= Len(D[k].upvalues)
             /\ \A i, j \in DOMAIN D[k].upvalues :
                    D[k].upvalues[i] = D[k].upvalues[j] => i = j
             /\ \A i \in DOMAIN D[k].upvalues :
                    \/ i \in DOMAIN C[k].upvalues /\ D[k].upvalues[i] = C[k].upvalues[i]
                    \/ k > home /\ D[k].upvalues[i] = Up(home, k, x[k - 1])
             /\ x[k] \in Nat
             /\ x[k] < Len(D[k].upvalues)
             /\ D[k].upvalues[x[k] + 1] = Up(home, k, x[k - 1])
    <2> DEFINE u == Up(home, k, x[k - 1])
               c == C[k]
               d == AddUpvalue(c, u)
    <2>1. k \in 1..N /\ k > home
        BY <1>1
    <2>2. u \in Upvalue
        <3>1. (k = home + 1) \in BOOLEAN
            OBVIOUS
        <3> QED
            BY <1>3, <3>1 DEF Up, Upvalue
    <2>3. D[k] = d /\ x[k] = UpvalueIndex(d, u)
        BY <1>3 DEF Passes, N
    <2>4. c \in Context /\ Len(c.locals) \in Nat
          /\ \A i, j \in DOMAIN c.upvalues : c.upvalues[i] = c.upvalues[j] => i = j
        BY <1>1, <1>2, <2>1
    <2> HIDE DEF u, c
    <2>5. /\ d \in Context /\ d.locals = c.locals /\ d.scope_depth = c.scope_depth
          /\ \A i, j \in DOMAIN d.upvalues : d.upvalues[i] = d.upvalues[j] => i = j
          /\ Len(c.upvalues) <= Len(d.upvalues)
          /\ \A i \in DOMAIN d.upvalues :
                d.upvalues[i] = u \/ (i \in DOMAIN c.upvalues /\ d.upvalues[i] = c.upvalues[i])
          /\ UpvalueIndex(d, u) \in Nat /\ UpvalueIndex(d, u) < Len(d.upvalues)
          /\ d.upvalues[UpvalueIndex(d, u) + 1] = u
        BY ONLY <2>2, <2>4, UpvalueAdded
    <2> HIDE DEF d
    <2>6. SameContext(c, d)
        BY <2>4, <2>5, SameItself
    <2> QED
        BY <2>1, <2>3, <2>5, <2>6 DEF u, c
<1>4. \A k \in home..N : x[k] \in Nat
    <2> DEFINE S == { e \in Nat : home + e <= N => x[home + e] \in Nat }
    <2>1. N - home \in Nat /\ x[home] \in Nat /\ home \in Nat
        BY <1>1 DEF Passes, N
    <2>2. 0 \in S
        BY <2>1
    <2>3. ASSUME NEW e \in 0..((N - home) - 1), e \in S PROVE e + 1 \in S
        <3> DEFINE k == home + e + 1
        <3>1. k \in (home + 1)..N /\ k - 1 = home + e /\ home + e <= N /\ e + 1 \in Nat
              /\ home + (e + 1) = k
            BY <1>1, <2>1
        <3>2. x[home + e] \in Nat
            BY <2>3, <3>1
        <3> HIDE DEF k
        <3>3. x[k - 1] \in Nat
            BY <3>1, <3>2
        <3>4. x[k] \in Nat
            BY <1>3, <3>1, <3>3
        <3> QED
            BY <3>1, <3>4
    <2>4. \A e \in Nat : e \in S => (home + e <= N => x[home + e] \in Nat)
        OBVIOUS
    <2> HIDE DEF S
    <2>5. \A e \in 0..(N - home) : e \in S
        BY <2>1, <2>2, <2>3, Steps
    <2> SUFFICES ASSUME NEW k \in home..N PROVE x[k] \in Nat
        OBVIOUS
    <2>6. k - home \in 0..(N - home) /\ k - home \in Nat /\ home + (k - home) = k /\ k <= N
        BY <1>1, <2>1
    <2>7. x[home + (k - home)] \in Nat
        <3> DEFINE e == k - home
        <3> HIDE DEF e
        <3>1. e \in 0..(N - home) /\ e \in Nat /\ home + e = k
            BY <2>6 DEF e
        <3>2. x[home + e] \in Nat
            BY <2>4, <2>5, <2>6, <3>1
        <3> QED
            BY <3>2 DEF e
    <2> QED
        BY <2>6, <2>7
<1>5. /\ D[home] \in Context /\ D[home].upvalues = C[home].upvalues
      /\ SameContext(C[home], D[home]) /\ D[home].locals[slot + 1].is_captured
    <2> DEFINE c == C[home]
               d == D[home]
    <2>1. d = [c EXCEPT !.locals[slot + 1].is_captured = TRUE]
        BY DEF Passes
    <2>2. c \in Context /\ Len(c.locals) \in Nat /\ slot < Len(c.locals)
        BY <1>1 DEF N
    <2>3. slot + 1 \in 1..Len(c.locals)
        BY <2>2
    <2> HIDE DEF c, d
    <2> QED
        BY <2>1, <2>2, <2>3, MarkedLocal DEF c, d
<1>6. ASSUME NEW k \in 1..N
      PROVE  /\ D[k] \in Context /\ SameContext(C[k], D[k])
             /\ k # home => D[k].locals = C[k].locals
             /\ Len(C[k].upvalues) <= Len(D[k].upvalues)
             /\ \A i, j \in DOMAIN D[k].upvalues :
                    D[k].upvalues[i] = D[k].upvalues[j] => i = j
             /\ \A i \in DOMAIN D[k].upvalues :
                    \/ i \in DOMAIN C[k].upvalues /\ D[k].upvalues[i] = C[k].upvalues[i]
                    \/ k > home /\ D[k].upvalues[i] = Up(home, k, x[k - 1])
    <2>1. CASE k > home
        <3>1. k \in (home + 1)..N /\ k - 1 \in home..N
            BY <1>1, <2>1
        <3>2. x[k - 1] \in Nat
            BY <1>4, <3>1
        <3> QED
            BY <1>3, <3>1, <3>2
    <2>2. CASE k = home
        BY <1>1, <1>2, <1>5, <2>2
    <2>3. CASE k < home
        <3>1. D[k] = C[k]
            <4>1. k \in 1..(home - 1)
                BY <2>3
            <4> QED
                BY <4>1 DEF Passes
        <3>2. SameContext(C[k], D[k])
            BY <1>1, <3>1, SameItself
        <3> QED
            BY <1>1, <1>2, <2>3, <3>1, <3>2
    <2> QED
        BY <1>1, <2>1, <2>2, <2>3
<1>7. \A k \in (home + 1)..N :
        /\ x[k] < Len(D[k].upvalues)
        /\ D[k].upvalues[x[k] + 1] = Up(home, k, x[k - 1])
    <2> SUFFICES ASSUME NEW k \in (home + 1)..N
                 PROVE  /\ x[k] < Len(D[k].upvalues)
                        /\ D[k].upvalues[x[k] + 1] = Up(home, k, x[k - 1])
        OBVIOUS
    <2>1. k - 1 \in home..N
        BY <1>1
    <2>2. x[k - 1] \in Nat
        BY <1>4, <2>1
    <2> QED
        BY <1>3, <2>2
<1> QED
    BY <1>4, <1>5, <1>6, <1>7 DEF N

\* The captures are sound again.
LEMMA PassesCaptures ==
    ASSUME NEW C \in Seq(Context), \A k \in DOMAIN C : Len(C[k].locals) \in Nat \ {0},
           \A k \in DOMAIN C : Captures(C, k),
           NEW home \in 1..Len(C), NEW slot \in Nat, slot < Len(C[home].locals),
           NEW D, NEW x, Passes(C, D, home, slot, x)
    PROVE  \A k \in 1..Len(C) : Captures(D, k)
<1> DEFINE N == Len(C)
<1>1. N \in Nat /\ DOMAIN C = 1..N /\ home \in 1..N /\ \A k \in 1..N : C[k] \in Context
    OBVIOUS
<1>2. /\ \A k \in 1..N :
            /\ D[k] \in Context /\ SameContext(C[k], D[k])
            /\ Len(C[k].upvalues) <= Len(D[k].upvalues)
            /\ \A i, j \in DOMAIN D[k].upvalues :
                    D[k].upvalues[i] = D[k].upvalues[j] => i = j
            /\ \A i \in DOMAIN D[k].upvalues :
                    \/ i \in DOMAIN C[k].upvalues /\ D[k].upvalues[i] = C[k].upvalues[i]
                    \/ k > home /\ D[k].upvalues[i] = Up(home, k, x[k - 1])
      /\ \A k \in home..N : x[k] \in Nat
      /\ D[home].locals[slot + 1].is_captured
      /\ \A k \in (home + 1)..N : x[k] < Len(D[k].upvalues)
    BY PassesProps
<1>3. x[home] = slot
    BY DEF Passes
<1> HIDE DEF N
<1> SUFFICES ASSUME NEW k \in 1..N PROVE Captures(D, k)
    BY DEF N
<1>4. \A i, j \in DOMAIN D[k].upvalues : D[k].upvalues[i] = D[k].upvalues[j] => i = j
    BY <1>2
<1>5. ASSUME NEW i \in DOMAIN D[k].upvalues, NEW u, u = D[k].upvalues[i]
      PROVE  /\ k > 1
             /\ IF u.is_local
                THEN /\ u.index < Len(D[k - 1].locals)
                     /\ D[k - 1].locals[u.index + 1].is_captured
                ELSE u.index < Len(D[k - 1].upvalues)
    <2>1. CASE i \in DOMAIN C[k].upvalues /\ u = C[k].upvalues[i]
        <3>1. /\ k > 1
              /\ IF u.is_local
                 THEN /\ u.index < Len(C[k - 1].locals)
                      /\ C[k - 1].locals[u.index + 1].is_captured
                 ELSE u.index < Len(C[k - 1].upvalues)
            BY <1>1, <2>1 DEF Captures
        <3>2. k - 1 \in 1..N
            BY <1>1, <3>1
        <3> DEFINE c == C[k - 1]
                   d == D[k - 1]
        <3>3. /\ c \in Context /\ d \in Context /\ SameContext(c, d)
              /\ Len(c.upvalues) <= Len(d.upvalues) /\ Len(c.locals) \in Nat
            BY <1>1, <1>2, <3>2
        <3>4. u \in Upvalue
            <4>1. C[k] \in Context
                BY <1>1
            <4>2. C[k].upvalues \in Seq(Upvalue)
                BY <4>1 DEF Context
            <4> QED
                BY <2>1, <4>2
        <3> HIDE DEF c, d
        <3>5. u.index \in Nat /\ Len(c.upvalues) \in Nat /\ Len(d.upvalues) \in Nat
            <4>1. u.index \in Nat
                BY <3>4 DEF Upvalue
            <4>2. c.upvalues \in Seq(Upvalue) /\ d.upvalues \in Seq(Upvalue)
                BY <3>3 DEF Context
            <4> QED
                BY <4>1, <4>2
        <3>6. CASE u.is_local
            <4>1. u.index < Len(c.locals) /\ c.locals[u.index + 1].is_captured
                BY <3>1, <3>6 DEF c
            <4>2. u.index + 1 \in 1..Len(c.locals)
                BY <3>3, <3>5, <4>1
            <4>3. Len(d.locals) = Len(c.locals) /\ d.locals[u.index + 1].is_captured
                BY <3>3, <4>1, <4>2 DEF SameContext, Keeps
            <4> QED
                BY <3>1, <3>6, <4>1, <4>3 DEF d
        <3>7. CASE ~u.is_local
            <4>1. u.index < Len(c.upvalues)
                BY <3>1, <3>7 DEF c
            <4>2. u.index < Len(d.upvalues)
                BY <3>3, <3>5, <4>1
            <4> QED
                BY <3>1, <3>7, <4>2 DEF d
        <3> QED
            BY <3>6, <3>7
    <2>2. CASE k > home /\ u = Up(home, k, x[k - 1])
        <3>1. k > 1 /\ k - 1 \in home..N /\ k - 1 \in 1..N
            BY <1>1, <2>2
        <3>2. u.is_local = (k = home + 1) /\ u.index = x[k - 1]
            BY <2>2 DEF Up
        <3>3. CASE k = home + 1
            <4>1. k - 1 = home
                BY <1>1, <3>3
            <4>2. Len(D[home].locals) = Len(C[home].locals)
                BY <1>1, <1>2 DEF SameContext
            <4>3. u.index = slot /\ u.is_local
                BY <1>3, <3>2, <3>3, <4>1
            <4>4. u.index < Len(D[k - 1].locals) /\ D[k - 1].locals[u.index + 1].is_captured
                BY <1>2, <4>1, <4>2, <4>3
            <4> QED
                BY <3>1, <4>3, <4>4
        <3>4. CASE k # home + 1
            <4>1. k - 1 \in (home + 1)..N
                BY <1>1, <3>1, <3>4
            <4>2. x[k - 1] < Len(D[k - 1].upvalues)
                BY <1>2, <4>1
            <4> QED
                BY <3>1, <3>2, <3>4, <4>2
        <3> QED
            BY <3>3, <3>4
    <2> QED
        BY <1>2, <1>5, <2>1, <2>2
<1> QED
    BY <1>4, <1>5 DEF Captures

\* The variables of the upvalues of a level, if those of the level around are `outer'.
Stood(cs, outer, j) ==
    [v \in DOMAIN cs[j].upvalues |->
        IF cs[j].upvalues[v].is_local THEN <<j - 1, cs[j].upvalues[v].index>>
        ELSE outer[cs[j].upvalues[v].index + 1]]

IsStanding(f, cs, k) == f = [j \in 1..k |-> Stood(cs, f[j - 1], j)]

Standing(cs, k) == CHOOSE f : IsStanding(f, cs, k)

\* There is such a function, and Denotes returns what it says.
LEMMA StandingProps ==
    ASSUME NEW cs, DOMAIN cs[1].upvalues = {}, NEW k \in Nat
    PROVE  /\ \A j \in 1..k : Standing(cs, k)[j] = Stood(cs, Standing(cs, k)[j - 1], j)
           /\ \A i : Denotes(cs, k, i) = Standing(cs, k)[k][i + 1]
<1> DEFINE S == { m \in Nat : \E f : IsStanding(f, cs, m) }
<1>1. \A p, q : Stood(cs, p, 1) = Stood(cs, q, 1)
    BY DEF Stood
<1>2. 0 \in S
    <2> DEFINE f == [j \in 1..0 |-> 0]
    <2>1. IsStanding(f, cs, 0)
        BY DEF IsStanding
    <2> QED
        BY <2>1
<1>3. ASSUME NEW m \in Nat, m \in S PROVE m + 1 \in S
    <2>1. PICK f : IsStanding(f, cs, m)
        BY <1>3
    <2> DEFINE g == [j \in 1..(m + 1) |-> IF j <= m THEN f[j] ELSE Stood(cs, f[m], m + 1)]
    <2>2. \A j \in 1..m : f[j] = Stood(cs, f[j - 1], j)
        BY <2>1 DEF IsStanding
    <2>3. \A j \in 1..(m + 1) : g[j] = Stood(cs, g[j - 1], j)
        <3> SUFFICES ASSUME NEW j \in 1..(m + 1) PROVE g[j] = Stood(cs, g[j - 1], j)
            OBVIOUS
        <3>1. g[j] = Stood(cs, f[j - 1], j)
            <4>1. CASE j <= m
                BY <2>2, <4>1
            <4>2. CASE j = m + 1
                <5>1. j - 1 = m /\ ~(j <= m)
                    BY <4>2
                <5> QED
                    BY <4>2, <5>1
            <4> QED
                BY <4>1, <4>2
        <3>2. CASE j = 1
            <4> HIDE DEF g
            <4> QED
                BY <1>1, <3>1, <3>2
        <3>3. CASE j # 1
            <4>1. j - 1 \in 1..(m + 1) /\ j - 1 <= m
                BY <3>3
            <4>2. g[j - 1] = f[j - 1]
                BY <4>1
            <4> HIDE DEF g
            <4> QED
                BY <3>1, <4>2
        <3> QED
            BY <3>2, <3>3
    <2>4. IsStanding(g, cs, m + 1)
        <3>1. g = [j \in 1..(m + 1) |-> g[j]]
            OBVIOUS
        <3> HIDE DEF g
        <3> QED
            BY <2>3, <3>1 DEF IsStanding
    <2> QED
        BY <2>4
<1>4. \E f : IsStanding(f, cs, k)
    <2>1. \A m \in Nat : m \in S <=> \E f : IsStanding(f, cs, m)
        OBVIOUS
    <2> HIDE DEF S
    <2>2. \A m \in 0..(k - 1) : m \in S => m + 1 \in S
        BY <1>3
    <2>3. \A m \in 0..k : m \in S
        BY <1>2, <2>2, Steps
    <2> QED
        BY <2>1, <2>3
<1>5. IsStanding(Standing(cs, k), cs, k)
    BY <1>4 DEF Standing
<1>6. \A j \in 1..k : Standing(cs, k)[j] = Stood(cs, Standing(cs, k)[j - 1], j)
    BY <1>5 DEF IsStanding
<1>7. \A i : Denotes(cs, k, i) = Standing(cs, k)[k][i + 1]
    BY DEF Denotes, Standing, IsStanding, Stood
<1> QED
    BY <1>6, <1>7

\* The upvalue that the innermost function gets stands for the variable.
LEMMA PassesDenotes ==
    ASSUME NEW C \in Seq(Context), \A k \in DOMAIN C : Len(C[k].locals) \in Nat \ {0},
           \A k \in DOMAIN C : Captures(C, k),
           NEW home \in 1..Len(C), NEW slot \in Nat, slot < Len(C[home].locals),
           NEW D, NEW x, Passes(C, D, home, slot, x), home # Len(C)
    PROVE  Denotes(D, Len(C), x[Len(C)]) = <<home, slot>>
<1> DEFINE N == Len(C)
           H == Standing(D, N)
<1>1. N \in Nat /\ DOMAIN C = 1..N /\ home \in 1..N /\ home < N
    OBVIOUS
<1>2. /\ \A k \in 1..N : D[k] \in Context
      /\ \A k \in home..N : x[k] \in Nat
      /\ \A k \in (home + 1)..N :
            /\ x[k] < Len(D[k].upvalues)
            /\ D[k].upvalues[x[k] + 1] = Up(home, k, x[k - 1])
    BY PassesProps
<1>3. x[home] = slot
    BY DEF Passes
<1>4. DOMAIN D[1].upvalues = {}
    <2>1. \A k \in 1..N : Captures(D, k)
        BY PassesCaptures
    <2>2. Captures(D, 1)
        <3> HIDE DEF N
        <3>1. 1 \in 1..N
            BY <1>1
        <3> QED
            BY <2>1, <3>1
    <2> QED
        BY <2>2 DEF Captures
<1> HIDE DEF N
<1>5. /\ \A j \in 1..N : H[j] = Stood(D, H[j - 1], j)
      /\ Denotes(D, N, x[N]) = H[N][x[N] + 1]
    <2>1. N \in Nat
        BY <1>1
    <2>2. /\ \A j \in 1..N : H[j] = Stood(D, H[j - 1], j)
          /\ \A i : Denotes(D, N, i) = H[N][i + 1]
        BY ONLY <1>4, <2>1, StandingProps
    <2> HIDE DEF H
    <2> QED
        BY <2>2
<1> HIDE DEF H
<1>6. ASSUME NEW k \in (home + 1)..N,
             k # home + 1 => H[k - 1][x[k - 1] + 1] = <<home, slot>>
      PROVE  H[k][x[k] + 1] = <<home, slot>>
    <2> DEFINE i == x[k] + 1
               u == D[k].upvalues[i]
    <2>1. k \in 1..N /\ k \in home..N
        BY <1>1
    <2>2. i \in DOMAIN D[k].upvalues
        <3>1. x[k] \in Nat /\ x[k] < Len(D[k].upvalues) /\ D[k].upvalues \in Seq(Upvalue)
            BY <1>2, <2>1 DEF Context
        <3> QED
            BY <3>1
    <2>3. u = Up(home, k, x[k - 1])
        BY <1>2
    <2>4. u.is_local = (k = home + 1) /\ u.index = x[k - 1]
        BY <2>3 DEF Up
    <2>5. H[k] = Stood(D, H[k - 1], k)
        BY <1>5, <2>1
    <2> HIDE DEF i
    <2>6. H[k][i] = IF u.is_local THEN <<k - 1, u.index>> ELSE H[k - 1][u.index + 1]
        BY <2>2, <2>5 DEF Stood
    <2> HIDE DEF u
    <2>7. CASE k = home + 1
        <3>1. k - 1 = home
            BY <1>1, <2>7
        <3>2. u.is_local
            BY <2>4, <2>7
        <3> QED
            BY <1>3, <2>4, <2>6, <3>1, <3>2 DEF i
    <2>8. CASE k # home + 1
        BY <1>6, <2>4, <2>6, <2>8 DEF i
    <2> QED
        BY <2>7, <2>8
<1> DEFINE S == { e \in Nat : home + 1 + e <= N =>
                    H[home + 1 + e][x[home + 1 + e] + 1] = <<home, slot>> }
<1>7. home \in Nat /\ (N - home) - 1 \in Nat /\ home + 1 \in (home + 1)..N
    BY <1>1
<1>8. 0 \in S
    <2>1. H[home + 1][x[home + 1] + 1] = <<home, slot>>
        BY <1>6, <1>7
    <2>2. home + 1 + 0 = home + 1
        BY <1>7
    <2> QED
        BY <2>1, <2>2
<1>9. ASSUME NEW e \in 0..((N - home) - 1 - 1), e \in S PROVE e + 1 \in S
    <2> DEFINE k == home + 1 + e + 1
    <2>1. /\ k \in (home + 1)..N /\ k - 1 = home + 1 + e /\ home + 1 + e <= N /\ e + 1 \in Nat
          /\ home + 1 + (e + 1) = k
        BY <1>1, <1>7
    <2>2. H[home + 1 + e][x[home + 1 + e] + 1] = <<home, slot>>
        BY <1>9, <2>1
    <2> HIDE DEF k
    <2>3. H[k][x[k] + 1] = <<home, slot>>
        BY <1>6, <2>1, <2>2
    <2> QED
        BY <2>1, <2>3
<1>10. (N - home) - 1 \in S
    <2> HIDE DEF S
    <2>1. \A e \in 0..((N - home) - 1) : e \in S
        BY <1>7, <1>8, <1>9, Steps
    <2> QED
        BY <1>7, <2>1
<1>11. home + 1 + ((N - home) - 1) = N
    BY <1>1, <1>7
<1>12. H[N][x[N] + 1] = <<home, slot>>
    BY <1>1, <1>10, <1>11
<1> QED
    BY <1>5, <1>12 DEF N

\* A variable is marked.
LEMMA MarkedBinding ==
    ASSUME NEW M, NEW e \in [name : M, slot : Nat, captured : BOOLEAN]
    PROVE  /\ [e EXCEPT !.captured = TRUE] \in [name : M, slot : Nat, captured : BOOLEAN]
           /\ [e EXCEPT !.captured = TRUE].name = e.name
           /\ [e EXCEPT !.captured = TRUE].slot = e.slot
OBVIOUS

\* A variable of a frame is marked.
LEMMA MarkedFrame ==
    ASSUME NEW r \in Frame, NEW i \in DOMAIN r.scope,
           NEW q, q = [r EXCEPT !.scope[i].captured = TRUE]
    PROVE  /\ q \in Frame /\ SameFrame(r, q) /\ DOMAIN q.scope = DOMAIN r.scope
           /\ \A j \in DOMAIN r.scope :
                /\ q.scope[j].name = r.scope[j].name /\ q.scope[j].slot = r.scope[j].slot
                /\ q.scope[j].captured => j = i \/ r.scope[j].captured
<1> DEFINE s == r.scope
           e == [s[i] EXCEPT !.captured = TRUE]
           t == [s EXCEPT ![i] = e]
<1>1. s \in Seq(Binding) /\ r.height \in Int
    BY DEF Frame
<1>2. Len(s) \in Nat /\ DOMAIN s = 1..Len(s) /\ i \in 1..Len(s) /\ s[i] \in Binding
    BY <1>1
<1>3. e \in Binding /\ e.name = s[i].name /\ e.slot = s[i].slot
    <2> DEFINE b == s[i]
    <2>1. b \in [name : Name \cup {""}, slot : Nat, captured : BOOLEAN]
        BY <1>2 DEF Binding
    <2> HIDE DEF b
    <2>2. /\ [b EXCEPT !.captured = TRUE] \in [name : Name \cup {""}, slot : Nat, captured : BOOLEAN]
          /\ [b EXCEPT !.captured = TRUE].name = b.name
          /\ [b EXCEPT !.captured = TRUE].slot = b.slot
        BY ONLY <2>1, MarkedBinding
    <2> QED
        BY <2>2 DEF b, Binding
<1>4. q = [r EXCEPT !.scope = t]
    OBVIOUS
<1> HIDE DEF s, e
<1>5. /\ t \in Seq(Binding) /\ Len(t) = Len(s) /\ DOMAIN t = DOMAIN s /\ t[i] = e
      /\ \A j \in 1..Len(s) : j # i => t[j] = s[j]
    BY ONLY <1>1, <1>2, <1>3, ExceptProps
<1> HIDE DEF t
<1>6. q \in Frame /\ q.scope = t /\ q.height = r.height
    BY <1>4, <1>5 DEF Frame
<1>7. \A j \in DOMAIN s :
        /\ t[j].name = s[j].name /\ t[j].slot = s[j].slot
        /\ t[j].captured => j = i \/ s[j].captured
    BY <1>2, <1>3, <1>5
<1>8. SameFrame(r, q)
    BY <1>2, <1>5, <1>6, <1>7 DEF SameFrame, Extends, s
<1> QED
    BY <1>5, <1>6, <1>7, <1>8 DEF s

\* The variables of a function are its locals when some of them have been marked.
LEMMA FramedKept ==
    ASSUME NEW c \in Context, NEW d \in Context, NEW r \in Frame, Len(c.locals) \in Nat \ {0},
           Framed(c, r), SameContext(c, d)
    PROVE  Framed(d, r)
<1>1. r.scope \in Seq(Binding)
    BY DEF Frame
<1>2. /\ Matched(c.locals, Len(c.locals), r.scope)
      /\ Keeps(c.locals, d.locals, Len(c.locals)) /\ Len(d.locals) = Len(c.locals)
    BY DEF Framed, SameContext
<1>3. Matched(d.locals, Len(d.locals), r.scope)
    BY <1>1, <1>2, MatchedKept
<1>4. 1 \in 1..Len(c.locals)
    OBVIOUS
<1>5. d.locals[1].name = "" /\ d.locals[1].depth = 0
    BY <1>2, <1>4 DEF Framed, Keeps
<1> QED
    BY <1>3, <1>5 DEF Framed

\* ... and when the ghost has got the mark of one of them.
LEMMA FramedMarked ==
    ASSUME NEW c \in Context, NEW d \in Context, NEW r \in Frame, Len(c.locals) \in Nat \ {0},
           Framed(c, r), SameContext(c, d), NEW i \in DOMAIN r.scope,
           NEW q, q = [r EXCEPT !.scope[i].captured = TRUE],
           d.locals[r.scope[i].slot + 1].is_captured
    PROVE  Framed(d, q)
<1>1. Framed(d, r)
    BY FramedKept
<1>2. /\ DOMAIN q.scope = DOMAIN r.scope
      /\ \A j \in DOMAIN r.scope :
            /\ q.scope[j].name = r.scope[j].name /\ q.scope[j].slot = r.scope[j].slot
            /\ q.scope[j].captured => j = i \/ r.scope[j].captured
    BY MarkedFrame
<1> DEFINE s == r.scope
           t == q.scope
           l == d.locals
           n == Len(d.locals)
<1>3. Matched(l, n, s)
    BY <1>1 DEF Framed
<1>4. l[s[i].slot + 1].is_captured
    OBVIOUS
<1>5. /\ DOMAIN t = DOMAIN s
      /\ \A j \in DOMAIN s :
            /\ t[j].name = s[j].name /\ t[j].slot = s[j].slot
            /\ t[j].captured => j = i \/ s[j].captured
    BY <1>2
<1> HIDE DEF s, t, l, n
<1>6. Matched(l, n, t)
    <2>1. \A j \in DOMAIN t :
            /\ t[j].slot \in 1..(n - 1)
            /\ l[t[j].slot + 1].name = t[j].name
            /\ l[t[j].slot + 1].depth # Uninit
            /\ t[j].captured => l[t[j].slot + 1].is_captured
        <3> SUFFICES ASSUME NEW j \in DOMAIN t
                     PROVE  /\ t[j].slot \in 1..(n - 1)
                            /\ l[t[j].slot + 1].name = t[j].name
                            /\ l[t[j].slot + 1].depth # Uninit
                            /\ t[j].captured => l[t[j].slot + 1].is_captured
            OBVIOUS
        <3>1. /\ s[j].slot \in 1..(n - 1)
              /\ l[s[j].slot + 1].name = s[j].name
              /\ l[s[j].slot + 1].depth # Uninit
              /\ s[j].captured => l[s[j].slot + 1].is_captured
            BY <1>3, <1>5 DEF Matched
        <3>2. /\ t[j].name = s[j].name /\ t[j].slot = s[j].slot
              /\ t[j].captured => j = i \/ s[j].captured
            BY <1>5
        <3>3. t[j].captured => l[s[j].slot + 1].is_captured
            BY <1>4, <3>1, <3>2
        <3> QED
            BY <3>1, <3>2, <3>3
    <2>2. \A j, k \in DOMAIN t : j < k => t[j].slot < t[k].slot
        BY <1>3, <1>5 DEF Matched
    <2>3. \A j \in 2..n : l[j].depth # Uninit => \E k \in DOMAIN t : t[k].slot = j - 1
        BY <1>3, <1>5 DEF Matched
    <2> QED
        BY <2>1, <2>2, <2>3 DEF Matched
<1> QED
    BY <1>1, <1>6 DEF Framed, l, n, t

\* A name has been compiled: the functions are the same but for marks and upvalues,
\* and the value of the name is on the stack of the innermost one.
LEMMA Mentioned ==
    ASSUME IInv, ~compiled, Inner.what \in Expressions,
           NEW D \in Seq(Context), NEW T \in Seq(Frame),
           NEW N, N = Len(contexts), Len(D) = N, Len(T) = N,
           \A k \in 1..N : SameContext(contexts[k], D[k]) /\ SameFrame(runtime[k], T[k]),
           T[N] = Here, Parts(D, T),
           contexts' = [D EXCEPT ![N] = Emit(@, "get")], runtime' = Pushed(T),
           compiled' = TRUE, parse' = parse, inner_loop_depth' = inner_loop_depth,
           {had_error', damaged'} \subseteq BOOLEAN, agrees' = TRUE
    PROVE  IInv'
<1> DEFINE b == D[N]
           c == Emit(b, "get")
           h == Here.height + 1
           r == [Here EXCEPT !.height = h]
           p == Inner
           l == This.locals
<1>0. /\ contexts \in Seq(Context) /\ runtime \in Seq(Frame) /\ Len(runtime) = Len(contexts)
      /\ contexts # <<>> /\ Stack(parse, contexts, runtime)
      /\ Shaped(parse, contexts, runtime, compiled)
      /\ \A k \in DOMAIN contexts : Len(contexts[k].locals) \in 1..LOCALS_LIMIT
    BY Now
<1>1. /\ N \in Nat \ {0} /\ DOMAIN contexts = 1..N /\ DOMAIN D = 1..N /\ DOMAIN T = 1..N
      /\ This = contexts[N] /\ contexts \in Seq(Context) /\ runtime \in Seq(Frame)
      /\ Len(runtime) = N /\ Stack(parse, contexts, runtime)
      /\ Shaped(parse, contexts, runtime, compiled)
      /\ \A k \in 1..N : Len(contexts[k].locals) \in 1..LOCALS_LIMIT
    <2>1. N \in Nat \ {0} /\ DOMAIN contexts = 1..N
        BY <1>0
    <2>2. DOMAIN D = 1..N /\ DOMAIN T = 1..N
        OBVIOUS
    <2>3. This = contexts[N]
        BY DEF This, Last
    <2> QED
        BY <1>0, <2>1, <2>2, <2>3
<1>2. b \in Context /\ SameContext(This, b) /\ Here \in Frame
    BY Now, <1>1
<1> HIDE DEF b
<1>3. /\ c \in Context /\ c.locals = b.locals /\ c.upvalues = b.upvalues
      /\ c.scope_depth = b.scope_depth /\ c.tail \in Whole
    BY <1>2, EmitProps DEF Kinds
<1> HIDE DEF c
<1>4. Here.height \in Int /\ h \in Int
    <2>1. Here.height \in Int
        BY Now
    <2> QED
        BY <2>1
<1> HIDE DEF h
<1>5. r \in Frame /\ r.scope = Here.scope /\ r.height = h
    BY <1>2, <1>4, Raised
<1>6. /\ contexts' \in Seq(Context) /\ Len(contexts') = N /\ DOMAIN contexts' = 1..N
      /\ contexts'[N] = c /\ \A k \in 1..N : k # N => contexts'[k] = D[k]
    <2>1. contexts' = [D EXCEPT ![N] = c] /\ N \in 1..Len(D)
        BY <1>1 DEF b, c
    <2> QED
        BY <1>1, <1>3, <2>1, ExceptProps
<1>7. /\ runtime' \in Seq(Frame) /\ Len(runtime') = N /\ DOMAIN runtime' = 1..N
      /\ runtime'[N] = r /\ \A k \in 1..N : k # N => runtime'[k] = T[k]
    <2>1. [T[N] EXCEPT !.height = T[N].height + 1] = r
        BY DEF h
    <2>2. runtime' = [T EXCEPT ![N] = r]
        BY <2>1 DEF Pushed
    <2>3. N \in 1..Len(T)
        BY <1>1
    <2> HIDE DEF r
    <2> QED
        BY <1>1, <1>5, <2>2, <2>3, ExceptProps
<1> HIDE DEF r
<1>8. \A k \in 1..N : /\ contexts'[k].locals = D[k].locals /\ contexts'[k].upvalues = D[k].upvalues
                      /\ runtime'[k].scope = T[k].scope
    <2> SUFFICES ASSUME NEW k \in 1..N
                 PROVE  /\ contexts'[k].locals = D[k].locals
                        /\ contexts'[k].upvalues = D[k].upvalues
                        /\ runtime'[k].scope = T[k].scope
        OBVIOUS
    <2>1. CASE k = N
        BY <1>3, <1>5, <1>6, <1>7, <2>1 DEF b
    <2>2. CASE k # N
        BY <1>6, <1>7, <2>2
    <2> QED
        BY <2>1, <2>2
<1>9. \A k \in 1..N : Len(contexts'[k].locals) = Len(contexts[k].locals)
    BY <1>8 DEF SameContext
<1>10. Parts(contexts', runtime')
    <2> SUFFICES ASSUME NEW k \in 1..N
                 PROVE  Framed(contexts'[k], runtime'[k]) /\ Captures(contexts', k)
        BY <1>6 DEF Parts
    <2>1. Framed(D[k], T[k]) /\ Captures(D, k)
        BY <1>1 DEF Parts
    <2>2. k > 1 => k - 1 \in 1..N
        BY <1>1
    <2>3. k > 1 => /\ contexts'[k - 1].locals = D[k - 1].locals
                   /\ contexts'[k - 1].upvalues = D[k - 1].upvalues
        BY <1>8, <2>2
    <2>4. Captures(contexts', k)
        BY <1>8, <2>1, <2>3 DEF Captures
    <2>5. Framed(contexts'[k], runtime'[k])
        BY <1>8, <2>1 DEF Framed
    <2> QED
        BY <2>4, <2>5
<1>11. Stack(parse, contexts', runtime')
    <2>1. \A k \in 1..N : Len(contexts'[k].locals) \in Nat \ {0}
        BY <1>1, <1>9, LimitsAssumption
    <2> QED
        BY <1>1, <1>6, <1>7, <2>1 DEF Stack
<1>12. Chain(parse, contexts', runtime')
    <2>1. Chain(parse, contexts, runtime) /\ Last(parse).level = N
        BY <1>1 DEF Shaped
    <2>2. ASSUME NEW k \in 1..(N - 1)
          PROVE  /\ SameContext(contexts[k], contexts'[k])
                 /\ SameFrame(runtime[k], runtime'[k])
        <3>1. k \in 1..N /\ k # N
            BY <1>1
        <3> QED
            BY <1>6, <1>7, <3>1
    <2>3. Keeps(contexts[N].locals, contexts'[N].locals, Last(parse).count)
        <3>1. Keeps(l, b.locals, Len(l)) /\ contexts'[N].locals = b.locals
              /\ contexts[N].locals = l /\ Len(b.locals) = Len(l)
            BY <1>1, <1>2, <1>3, <1>6 DEF SameContext
        <3>2. Last(parse).count \in Nat /\ Last(parse).count <= Len(l) /\ Len(l) \in Nat
            BY Now DEF Opened, Inner
        <3> HIDE DEF l
        <3>3. Keeps(l, b.locals, Last(parse).count)
            BY <3>1, <3>2, KeepsFewer
        <3> QED
            BY <3>1, <3>3
    <2>4. N \in Nat /\ N \in DOMAIN contexts'
        BY <1>1, <1>6
    <2> QED
        BY <1>1, <1>11, <2>1, <2>2, <2>3, <2>4, ChainKept
<1>13. Stands(p, c, r, 1)
    <2>1. Reached(p, l, Here.scope, Len(l)) /\ This.scope_depth = Inside(p)
          /\ Here.height = Base(p, Here.scope) + 0 /\ Base(p, Here.scope) \in Int
          /\ p \in Construct /\ Len(l) \in Nat \ {0}
        BY Now
    <2>2. Len(c.locals) = Len(l) /\ Keeps(l, c.locals, Len(l)) /\ c.scope_depth = Inside(p)
        BY <1>2, <1>3, <2>1 DEF SameContext
    <2>3. Reached(p, c.locals, r.scope, Len(c.locals))
        <3>1. Reached(p, c.locals, Here.scope, Len(l))
            BY <2>1, <2>2, ReachedKept
        <3> QED
            BY <1>5, <2>2, <3>1
    <2>4. r.height = Base(p, r.scope) + 1
        <3> DEFINE base == Base(p, Here.scope)
        <3>1. base \in Int /\ Here.height = base + 0 /\ h = Here.height + 1
            BY <2>1 DEF h
        <3> HIDE DEF base
        <3>2. h = base + 1
            BY ONLY <3>1
        <3> QED
            BY <1>5, <3>2 DEF base
    <2> QED
        BY <2>2, <2>3, <2>4 DEF Stands
<1>14. Shaped(parse', contexts', runtime', TRUE)
    <2>1. Last(contexts') = c /\ Last(runtime') = r /\ Last(parse).level = N
        BY <1>1, <1>6, <1>7 DEF Last, Shaped
    <2> QED
        BY <1>3, <1>6, <1>10, <1>12, <1>13, <2>1 DEF Shaped, Inner
<1>15. \A k \in DOMAIN contexts' : Len(contexts'[k].locals) \in 1..LOCALS_LIMIT
    BY <1>1, <1>6, <1>9
<1>16. parse' \in Seq(Construct) /\ Len(parse') \in 1..MaxNesting
       /\ inner_loop_depth' \in Nat \cup {NoLoop}
    BY Now
<1> QED
    BY <1>6, <1>7, <1>14, <1>15, <1>16 DEF IInv, Typed, Levels

\* What a name means is the variable the compiler finds.
LEMMA Meant ==
    ASSUME IInv, NEW n \in Name, NEW K, K = Declaring(n), NEW home, home = Nearest(K),
           NEW slot, slot = ResolveLocal(contexts[home], n)
    PROVE  /\ K = {} => Meaning(n) = Global
           /\ K # {} => /\ home \in 1..Len(contexts)
                        /\ InScope(home, n) \in DOMAIN runtime[home].scope
                        /\ runtime[home].scope[InScope(home, n)].slot = slot
                        /\ slot \in 1..(Len(contexts[home].locals) - 1)
                        /\ Meaning(n) = <<home, slot>>
<1> DEFINE N == Len(contexts)
           L == { k \in Levels : InScope(k, n) # 0 }
<1>1. /\ contexts \in Seq(Context) /\ runtime \in Seq(Frame) /\ Len(runtime) = N
      /\ Parts(contexts, runtime)
      /\ \A k \in DOMAIN contexts : Len(contexts[k].locals) \in 1..LOCALS_LIMIT
    BY Now DEF Shaped
<1>2. N \in Nat /\ DOMAIN contexts = 1..N /\ DOMAIN runtime = 1..N /\ Levels = 1..N
    BY <1>1 DEF Levels
<1> HIDE DEF N
<1>3. ASSUME NEW k \in 1..N
      PROVE  \/ InScope(k, n) = 0 /\ ResolveLocal(contexts[k], n) = -1
             \/ /\ InScope(k, n) \in DOMAIN runtime[k].scope /\ InScope(k, n) # 0
                /\ ResolveLocal(contexts[k], n) = runtime[k].scope[InScope(k, n)].slot
                /\ ResolveLocal(contexts[k], n) \in 1..(Len(contexts[k].locals) - 1)
                /\ ResolveLocal(contexts[k], n) # -1
    <2> DEFINE c == contexts[k]
               r == runtime[k]
    <2>1. c \in Context /\ r \in Frame /\ Framed(c, r)
        BY <1>1, <1>2 DEF Parts
    <2>2. Len(c.locals) \in Nat \ {0} /\ Len(c.locals) - 1 \in Int
        BY <1>1, <1>2, LimitsAssumption
    <2>3. InScope(k, n) = Scoped(r, n)
        BY DEF InScope, Scoped
    <2>4. 0 \notin DOMAIN r.scope
        <3>1. r.scope \in Seq(Binding)
            BY <2>1 DEF Frame
        <3> QED
            BY <3>1
    <2> HIDE DEF c, r
    <2>5. \/ Scoped(r, n) = 0 /\ ResolveLocal(c, n) = -1
          \/ /\ Scoped(r, n) \in DOMAIN r.scope /\ r.scope[Scoped(r, n)].name = n
             /\ ResolveLocal(c, n) = r.scope[Scoped(r, n)].slot
             /\ ResolveLocal(c, n) \in 1..(Len(c.locals) - 1)
        BY <2>1, <2>2, SlotOf
    <2>6. ResolveLocal(c, n) \in 1..(Len(c.locals) - 1) => ResolveLocal(c, n) # -1
        BY <2>2
    <2> QED
        BY <2>3, <2>4, <2>5, <2>6 DEF c, r
<1>4. K = L
    BY <1>2, <1>3 DEF Declaring
<1>5. CASE K = {}
    <2>1. Meaning(n) = Global
        BY <1>4, <1>5 DEF Meaning
    <2> QED
        BY <1>5, <2>1
<1>6. CASE K # {}
    <2>1. K \in SUBSET (1..N)
        BY <1>2, <1>4
    <2>2. home \in K
        BY <1>2, <1>6, <2>1, NearestLevel
    <2>3. home \in 1..N /\ InScope(home, n) # 0
        BY <1>2, <1>4, <2>2
    <2>4. /\ InScope(home, n) \in DOMAIN runtime[home].scope
          /\ slot = runtime[home].scope[InScope(home, n)].slot
          /\ slot \in 1..(Len(contexts[home].locals) - 1)
        BY <1>3, <2>3
    <2>5. Meaning(n) = <<home, slot>>
        BY <1>4, <1>6, <2>4 DEF Meaning
    <2> QED
        BY <1>6, <2>3, <2>4, <2>5 DEF N
<1> QED
    BY <1>5, <1>6

\* The functions after a variable was captured, and the frames with its mark.
LEMMA Marks ==
    ASSUME IInv, NEW n \in Name, Declaring(n) # {}, NEW home, home = Nearest(Declaring(n)),
           NEW slot, slot = ResolveLocal(contexts[home], n), home # Len(contexts),
           NEW found, found = Captured(home, n),
           NEW D, D = found.contexts, NEW T, T = Mark(n), NEW N, N = Len(contexts)
    PROVE  /\ D \in Seq(Context) /\ T \in Seq(Frame) /\ Len(D) = N /\ Len(T) = N
           /\ \A k \in 1..N : SameContext(contexts[k], D[k]) /\ SameFrame(runtime[k], T[k])
           /\ T[N] = Here /\ Parts(D, T)
           /\ Denotes(D, N, found.index) = Meaning(n)
<1> DEFINE i == InScope(home, n)
           x == Index(contexts, home, slot)
           q == [runtime[home] EXCEPT !.scope[i].captured = TRUE]
<1>1. /\ contexts \in Seq(Context) /\ runtime \in Seq(Frame) /\ Len(runtime) = Len(contexts)
      /\ Parts(contexts, runtime)
      /\ \A k \in DOMAIN contexts : Len(contexts[k].locals) \in 1..LOCALS_LIMIT
    BY Now DEF Shaped
<1>2. N \in Nat /\ DOMAIN contexts = 1..N /\ DOMAIN runtime = 1..N /\ Len(runtime) = N
    BY <1>1
<1>3. \A k \in 1..N : Len(contexts[k].locals) \in Nat \ {0}
    BY <1>1, <1>2, LimitsAssumption
<1>4. /\ home \in 1..N /\ i \in DOMAIN runtime[home].scope
      /\ runtime[home].scope[i].slot = slot
      /\ slot \in 1..(Len(contexts[home].locals) - 1)
      /\ Meaning(n) = <<home, slot>>
    BY Meant
<1>5. slot \in Nat /\ slot < Len(contexts[home].locals)
    <2> DEFINE y == Len(contexts[home].locals)
    <2>1. y \in Nat /\ slot \in 1..(y - 1)
        BY <1>3, <1>4
    <2> HIDE DEF y
    <2>2. slot \in Nat /\ slot < y
        BY <2>1
    <2> QED
        BY <2>2 DEF y
<1>6. home \in Nat /\ home < N /\ home # 0
    BY <1>2, <1>4
<1> HIDE DEF i, x, q
<1>7. Passes(contexts, D, home, slot, x) /\ found.index = x[N]
    BY <1>1, <1>4, CapturedPasses DEF x
<1>8. \A k \in DOMAIN contexts : Captures(contexts, k)
    BY <1>1 DEF Parts
<1> DEFINE C == contexts
<1>20. /\ C \in Seq(Context) /\ \A k \in DOMAIN C : Len(C[k].locals) \in Nat \ {0}
       /\ \A k \in DOMAIN C : Captures(C, k)
       /\ home \in 1..Len(C) /\ slot \in Nat /\ slot < Len(C[home].locals)
       /\ Passes(C, D, home, slot, x) /\ home # Len(C) /\ Len(C) = N
    BY <1>1, <1>2, <1>3, <1>4, <1>5, <1>7, <1>8
<1> HIDE DEF C
<1>9. /\ \A k \in 1..N : D[k] \in Context /\ SameContext(contexts[k], D[k])
      /\ D[home].locals[slot + 1].is_captured
    <2>1. /\ \A k \in 1..Len(C) : D[k] \in Context /\ SameContext(C[k], D[k])
          /\ D[home].locals[slot + 1].is_captured
        BY ONLY <1>20, PassesProps
    <2> QED
        BY <1>20, <2>1 DEF C
<1>10. \A k \in 1..N : Captures(D, k)
    <2>1. \A k \in 1..Len(C) : Captures(D, k)
        BY ONLY <1>20, PassesCaptures
    <2> QED
        BY <1>20, <2>1
<1>11. Denotes(D, N, x[N]) = <<home, slot>>
    <2>1. Denotes(D, Len(C), x[Len(C)]) = <<home, slot>>
        BY ONLY <1>20, PassesDenotes
    <2> QED
        BY <1>20, <2>1
<1>12. D \in Seq(Context) /\ Len(D) = N /\ DOMAIN D = 1..N
    <2>1. D = [k \in DOMAIN D |-> D[k]]
        BY DEF Captured
    <2>2. DOMAIN D = 1..N
        BY <1>2, <1>7 DEF Passes
    <2> QED
        BY <1>2, <1>9, <2>1, <2>2
<1>13. T = [runtime EXCEPT ![home] = q]
    <2>1. Meaning(n)[1] = home
        BY <1>4
    <2>2. home \notin {0, Len(contexts)}
        BY <1>6
    <2> QED
        BY <2>1, <2>2 DEF Mark, q, i
<1>14. runtime[home] \in Frame /\ contexts[home] \in Context /\ Framed(contexts[home], runtime[home])
    BY <1>1, <1>2, <1>4 DEF Parts
<1>15. q \in Frame /\ SameFrame(runtime[home], q)
    <2> DEFINE r == runtime[home]
    <2>1. r \in Frame /\ i \in DOMAIN r.scope /\ q = [r EXCEPT !.scope[i].captured = TRUE]
        BY <1>4, <1>14 DEF q
    <2> HIDE DEF r
    <2>2. q \in Frame /\ SameFrame(r, q)
        BY <2>1, MarkedFrame
    <2> QED
        BY <2>2 DEF r
<1>16. /\ T \in Seq(Frame) /\ Len(T) = N /\ T[home] = q
       /\ \A k \in 1..N : k # home => T[k] = runtime[k]
    BY <1>1, <1>2, <1>4, <1>13, <1>15, ExceptProps
<1>17. ASSUME NEW k \in 1..N
       PROVE  SameFrame(runtime[k], T[k]) /\ Framed(D[k], T[k])
    <2>1. CASE k = home
        <3> DEFINE c == contexts[home]
                   d == D[home]
                   r == runtime[home]
        <3>1. /\ c \in Context /\ d \in Context /\ r \in Frame /\ Len(c.locals) \in Nat \ {0}
              /\ Framed(c, r) /\ SameContext(c, d) /\ i \in DOMAIN r.scope
              /\ q = [r EXCEPT !.scope[i].captured = TRUE]
              /\ d.locals[r.scope[i].slot + 1].is_captured
            BY <1>3, <1>4, <1>9, <1>14 DEF q
        <3> HIDE DEF c, d, r
        <3>2. Framed(d, q)
            BY <3>1, FramedMarked
        <3> QED
            BY <1>15, <1>16, <2>1, <3>2 DEF d
    <2>2. CASE k # home
        <3> DEFINE c == contexts[k]
                   d == D[k]
                   r == runtime[k]
        <3>1. /\ c \in Context /\ d \in Context /\ r \in Frame /\ Len(c.locals) \in Nat \ {0}
              /\ Framed(c, r) /\ SameContext(c, d) /\ T[k] = r
            BY <1>1, <1>2, <1>3, <1>9, <1>16, <2>2 DEF Parts
        <3>2. r.scope \in Seq(Binding)
            BY <3>1 DEF Frame
        <3> HIDE DEF c, d, r
        <3>3. Framed(d, r)
            BY <3>1, FramedKept
        <3>4. SameFrame(r, r)
            BY <3>2 DEF SameFrame, Extends
        <3> QED
            BY <3>1, <3>3, <3>4 DEF r, d
    <2> QED
        BY <2>1, <2>2
<1>18. T[N] = Here
    <2>1. N \in 1..N /\ N # home
        BY <1>2, <1>6
    <2>2. Here = runtime[N]
        BY <1>2 DEF Here, Last
    <2> QED
        BY <1>16, <2>1, <2>2
<1>19. Parts(D, T)
    BY <1>10, <1>12, <1>17 DEF Parts
<1> QED
    BY <1>4, <1>7, <1>9, <1>11, <1>12, <1>16, <1>17, <1>18, <1>19

\* An identifier is compiled to the variable it means.
LEMMA IdentifierStep ==
    ASSUME IInv, NEW n \in Name, Identifier(n)
    PROVE  IInv'
<1> DEFINE K     == Declaring(n)
           N     == Len(contexts)
           home  == Nearest(K)
           slot  == ResolveLocal(contexts[home], n)
           local == home = N
           found == Captured(home, n)
           D     == IF K = {} \/ local THEN contexts ELSE found.contexts
           T     == Mark(n)
           reads == IF K = {} THEN Global
                    ELSE IF local THEN <<N, ResolveLocal(This, n)>>
                    ELSE Denotes(D, N, found.index)
<1>1. /\ ~compiled /\ Inner.what \in Expressions
      /\ contexts' = [D EXCEPT ![N] = Emit(@, "get")]
      /\ had_error' \in BOOLEAN
      /\ agrees' = (reads = Meaning(n))
      /\ runtime' = Pushed(T) /\ compiled' = TRUE
      /\ parse' = parse /\ inner_loop_depth' = inner_loop_depth /\ damaged' = damaged
    BY DEF Identifier, AtExpression, Expressions
<1>2. damaged' \in BOOLEAN
    BY <1>1 DEF IInv, Typed
<1>3. /\ contexts \in Seq(Context) /\ runtime \in Seq(Frame) /\ Len(runtime) = N
      /\ N \in Nat \ {0} /\ Parts(contexts, runtime)
      /\ \A k \in DOMAIN contexts : Len(contexts[k].locals) \in 1..LOCALS_LIMIT
    <2>1. /\ contexts \in Seq(Context) /\ runtime \in Seq(Frame) /\ Len(runtime) = Len(contexts)
          /\ contexts # <<>> /\ Parts(contexts, runtime)
          /\ \A k \in DOMAIN contexts : Len(contexts[k].locals) \in 1..LOCALS_LIMIT
        BY Now DEF Shaped
    <2>2. Len(contexts) \in Nat \ {0}
        BY <2>1
    <2> QED
        BY <2>1, <2>2
<1>4. ASSUME D = contexts, T = runtime
      PROVE  /\ D \in Seq(Context) /\ T \in Seq(Frame) /\ Len(D) = N /\ Len(T) = N
             /\ \A k \in 1..N : SameContext(contexts[k], D[k]) /\ SameFrame(runtime[k], T[k])
             /\ T[N] = Here /\ Parts(D, T)
    <2>1. ASSUME NEW k \in 1..N
          PROVE  SameContext(contexts[k], contexts[k]) /\ SameFrame(runtime[k], runtime[k])
        <3>1. k \in DOMAIN contexts /\ k \in DOMAIN runtime
            BY <1>3
        <3>2. Len(contexts[k].locals) \in Nat
            BY <1>3, <3>1, LimitsAssumption
        <3>6. runtime[k] \in Frame
            BY <1>3, <3>1
        <3>3. runtime[k].scope \in Seq(Binding)
            BY <3>6 DEF Frame
        <3>4. SameContext(contexts[k], contexts[k])
            BY <3>2, SameItself
        <3>5. SameFrame(runtime[k], runtime[k])
            BY <3>3 DEF SameFrame, Extends
        <3> QED
            BY <3>4, <3>5
    <2>2. runtime[N] = Here
        BY <1>3 DEF Here, Last
    <2> HIDE DEF D, T
    <2> QED
        BY <1>3, <1>4, <2>1, <2>2
<1>5. /\ D \in Seq(Context) /\ T \in Seq(Frame) /\ Len(D) = N /\ Len(T) = N
      /\ \A k \in 1..N : SameContext(contexts[k], D[k]) /\ SameFrame(runtime[k], T[k])
      /\ T[N] = Here /\ Parts(D, T)
      /\ reads = Meaning(n)
    <2>1. CASE K = {}
        <3>1. Meaning(n) = Global
            BY <2>1, Meant
        <3>2. T = runtime
            BY <3>1 DEF Mark, Global
        <3>3. D = contexts /\ reads = Global
            BY <2>1
        <3> HIDE DEF D, T, reads
        <3> QED
            BY <1>4, <3>1, <3>2, <3>3
    <2>2. CASE K # {} /\ local
        <3>1. Meaning(n) = <<home, slot>>
            BY <2>2, Meant
        <3>2. T = runtime
            BY <2>2, <3>1 DEF Mark
        <3>3. This = contexts[N]
            BY DEF This, Last
        <3>4. D = contexts /\ reads = <<home, slot>>
            BY <2>2, <3>3
        <3> HIDE DEF D, T, reads
        <3> QED
            BY <1>4, <3>1, <3>2, <3>4
    <2>3. CASE K # {} /\ ~local
        <3>1. D = found.contexts /\ reads = Denotes(D, N, found.index)
            BY <2>3
        <3> DEFINE E == found.contexts
        <3>2. /\ E \in Seq(Context) /\ T \in Seq(Frame) /\ Len(E) = N /\ Len(T) = N
              /\ \A k \in 1..N : SameContext(contexts[k], E[k]) /\ SameFrame(runtime[k], T[k])
              /\ T[N] = Here /\ Parts(E, T)
              /\ Denotes(E, N, found.index) = Meaning(n)
            BY <2>3, Marks
        <3>3. D = E
            BY <3>1
        <3> HIDE DEF D, T, reads, E
        <3> QED
            BY <3>1, <3>2, <3>3
    <2> QED
        BY <2>1, <2>2, <2>3
<1>6. agrees' = TRUE
    BY <1>1, <1>5
<1> HIDE DEF D, T, reads, N
<1> QED
    BY <1>1, <1>2, <1>5, <1>6, Mentioned DEF N

-----------------------------------------------------------------------------
\* The invariant, and what follows from it

\* Every step keeps the invariant, where blocks come with nothing but locals on the
\* stack and continue with no local to pop.
LEMMA NextIInv ==
    ASSUME IInv, [Next]_vars, ~BlocksAnywhere, ~Continues
    PROVE  IInv'
<1>1. CASE UNCHANGED vars
    BY <1>1 DEF vars, IInv, Typed, Levels
<1>2. ASSUME NEW params \in Params PROVE params \in Seq(Name)
    BY <1>2, BoundAssumption, BoundedSeqProps DEF Params
<1>3. CASE Next
    <2>1. CASE Literal
        BY <2>1, LiteralStep
    <2>2. ASSUME NEW n \in Name, Identifier(n) PROVE IInv'
        BY <2>2, IdentifierStep
    <2>3. CASE Operator
        BY <2>3, OperatorStep
    <2>4. CASE Assignment
        BY <2>4, AssignmentStep
    <2>5. ASSUME NEW kind \in {"opcode", "index"}, FinishOperand(kind) PROVE IInv'
        BY <2>5, FinishOperandStep
    <2>6. ASSUME NEW what \in {"do", "if", "while"}, Begin(what) PROVE IInv'
        BY <2>6, BeginStep
    <2>7. CASE EndBlock
        BY <2>7, EndBlockStep
    <2>8. CASE Else
        BY <2>8, ElseStep
    <2>9. CASE EndLoop
        BY <2>9, EndLoopStep
    <2>10. CASE Statement
        BY <2>10, StatementStep
    <2>11. ASSUME NEW kind \in {"save_x", "opcode"}, FinishStatement(kind) PROVE IInv'
        BY <2>11, FinishStatementStep
    <2>12. ASSUME NEW n \in Name, Let(n) PROVE IInv'
        BY <2>12, LetStep
    <2>13. ASSUME NEW n \in Name, Reject(n) PROVE IInv'
        BY <2>13, RejectStep
    <2>14. CASE FinishLet
        BY <2>14, FinishLetStep
    <2>15. CASE Continue
        BY <2>15, ContinueStep
    <2>16. ASSUME NEW n \in Name, NEW params \in Params, Fn(n, params) PROVE IInv'
        BY <1>2, <2>16, FnStep
    <2>17. ASSUME NEW params \in Params, Lambda(params) PROVE IInv'
        BY <1>2, <2>17, LambdaStep
    <2>18. CASE EndFunction
        BY <2>18, EndFunctionStep
    <2>19. CASE EndLambda
        BY <2>19, EndLambdaStep
    <2>20. CASE Compile
        BY <2>20, CompileStep
    <2>21. CASE AndOr
        BY <2>21, AndOrStep
    <2>22. CASE FinishAndOr
        BY <2>22, FinishAndOrStep
    <2> QED
        BY <1>3, <2>1, <2>2, <2>3, <2>4, <2>5, <2>6, <2>7, <2>8, <2>9, <2>10, <2>11, <2>12,
           <2>13, <2>14, <2>15, <2>16, <2>17, <2>18, <2>19, <2>20, <2>21, <2>22 DEF Next
<1> QED
    BY <1>1, <1>3

\* The inductive invariant holds of any program: the locals of every function are
\* its variables in their slots, the constructs that are open say how many there were
\* when each began, and upvalues refer to what the function around has.
THEOREM Invariance ==
    ASSUME ~BlocksAnywhere, ~Continues
    PROVE  Spec => []IInv
<1>1. Init => IInv
    BY InitIInv
<1>2. IInv /\ [Next]_vars => IInv'
    BY NextIInv
<1> QED
    BY <1>1, <1>2, PTL DEF Spec

\* The invariant contains the types.
LEMMA Bounded ==
    ASSUME IInv
    PROVE  TypeOK
<1> DEFINE E == {"save_x", "get", "index", "operand", "opcode"}
<1>1. ASSUME NEW t \in Tails PROVE t \in BoundedSeq(E, 2)
    <2>1. Kinds \subseteq E /\ "save_x" \in E
        BY DEF Kinds
    <2> HIDE DEF E
    <2>2. <<>> \in Seq(E) /\ Len(<<>>) <= 2
        OBVIOUS
    <2>3. ASSUME NEW a \in Kinds PROVE <<a>> \in Seq(E) /\ Len(<<a>>) <= 2
        BY <2>1
    <2>4. ASSUME NEW a \in Kinds
          PROVE  <<a, "save_x">> \in Seq(E) /\ Len(<<a, "save_x">>) <= 2
        BY <2>1
    <2>5. t \in Seq(E) /\ Len(t) <= 2
        BY <2>2, <2>3, <2>4 DEF Tails, Whole
    <2> QED
        BY <2>5, BoundedSeqProps
<1>2. Typed
    BY DEF IInv
<1> HIDE DEF E
<1>3. ASSUME NEW k \in Levels
      PROVE  /\ contexts[k].locals \in Seq(Local) /\ Len(contexts[k].locals) \in 1..LOCALS_LIMIT
             /\ contexts[k].upvalues \in Seq(Upvalue)
             /\ contexts[k].scope_depth \in Nat
             /\ contexts[k].tail \in BoundedSeq(E, 2)
    <2>1. contexts[k] \in Context
        BY <1>2 DEF Typed, Levels
    <2> QED
        BY <1>1, <1>2, <2>1 DEF Context, Typed
<1> QED
    BY <1>2, <1>3 DEF TypeOK, Typed, E

\* The locals of a function are its variables, so that both find the same.
LEMMA Placed ==
    ASSUME IInv
    PROVE  SlotsAgree
<1> SUFFICES ASSUME NEW k \in Levels, NEW n \in Name
             PROVE  ResolveLocal(contexts[k], n) =
                        IF InScope(k, n) = 0 THEN -1 ELSE runtime[k].scope[InScope(k, n)].slot
    BY DEF SlotsAgree
<1> DEFINE c == contexts[k]
           r == runtime[k]
<1>1. c \in Context /\ r \in Frame /\ Framed(c, r) /\ Len(c.locals) \in 1..LOCALS_LIMIT
    <2>1. /\ contexts \in Seq(Context) /\ runtime \in Seq(Frame) /\ Len(runtime) = Len(contexts)
          /\ Parts(contexts, runtime)
          /\ \A j \in DOMAIN contexts : Len(contexts[j].locals) \in 1..LOCALS_LIMIT
        BY Now DEF Shaped
    <2>2. k \in DOMAIN contexts /\ k \in DOMAIN runtime
        BY <2>1 DEF Levels
    <2> QED
        BY <2>1, <2>2 DEF Parts
<1>2. Len(c.locals) \in Nat \ {0}
    BY <1>1, LimitsAssumption
<1>3. 0 \notin DOMAIN r.scope
    <2>1. r.scope \in Seq(Binding)
        BY <1>1 DEF Frame
    <2> QED
        BY <2>1
<1>4. InScope(k, n) = Scoped(r, n)
    BY DEF InScope, Scoped
<1> HIDE DEF c, r
<1>5. \/ Scoped(r, n) = 0 /\ ResolveLocal(c, n) = -1
      \/ /\ Scoped(r, n) \in DOMAIN r.scope /\ r.scope[Scoped(r, n)].name = n
         /\ ResolveLocal(c, n) = r.scope[Scoped(r, n)].slot
         /\ ResolveLocal(c, n) \in 1..(Len(c.locals) - 1)
    BY <1>1, <1>2, SlotOf
<1> QED
    BY <1>3, <1>4, <1>5 DEF c, r

\* The height is that of the construct and what it has got to.
LEMMA Even ==
    ASSUME IInv
    PROVE  Balanced
<1> DEFINE a == Inner.height
           i == Len(Inner.scope)
           n == Len(Here.scope)
           h == Here.height
<1>1. a \in Int /\ i \in Nat /\ n \in Nat
    BY Now
<1>2. h = (a + n - i) + (IF compiled THEN 1 ELSE 0)
    BY Now DEF Base
<1>3. compiled => n = i
    <2>1. Expressions \cap Statements = {}
        BY DEF Expressions, Statements
    <2>2. compiled => Inner.what \in Expressions
        BY Now
    <2>3. Reached(Inner, This.locals, Here.scope, Len(This.locals))
        BY Now
    <2> QED
        BY <2>1, <2>2, <2>3 DEF Reached
<1> HIDE DEF a, i, n, h
<1>4. h = IF compiled THEN a + 1 ELSE a + n - i
    BY ONLY <1>1, <1>2, <1>3
<1> QED
    BY <1>4 DEF Balanced, a, i, n, h

\* The invariant contains what captures rely on.
LEMMA Sound ==
    ASSUME IInv
    PROVE  CapturesSound
<1> SUFFICES ASSUME NEW k \in Levels
             PROVE  /\ IsInjective(contexts[k].upvalues)
                    /\ \A u \in Range(contexts[k].upvalues) :
                        /\ k > 1
                        /\ IF u.is_local
                           THEN /\ u.index < Len(contexts[k - 1].locals)
                                /\ contexts[k - 1].locals[u.index + 1].is_captured
                           ELSE u.index < Len(contexts[k - 1].upvalues)
                    /\ \A b \in Range(runtime[k].scope) :
                        b.captured => contexts[k].locals[b.slot + 1].is_captured
    BY DEF CapturesSound
<1>1. Captures(contexts, k) /\ Framed(contexts[k], runtime[k])
    BY Now DEF Shaped, Parts, Levels
<1>2. IsInjective(contexts[k].upvalues)
    BY <1>1 DEF Captures, IsInjective
<1>3. ASSUME NEW u \in Range(contexts[k].upvalues)
      PROVE  /\ k > 1
             /\ IF u.is_local
                THEN /\ u.index < Len(contexts[k - 1].locals)
                     /\ contexts[k - 1].locals[u.index + 1].is_captured
                ELSE u.index < Len(contexts[k - 1].upvalues)
    BY <1>1 DEF Captures, Range
<1>4. ASSUME NEW b \in Range(runtime[k].scope), b.captured
      PROVE  contexts[k].locals[b.slot + 1].is_captured
    BY <1>1, <1>4 DEF Framed, Matched, Range
<1> QED
    BY <1>2, <1>3, <1>4

\* No array of locals outgrows its limit, however many functions and blocks are in
\* one another (add_local).
THEOREM TypesCorrect ==
    ASSUME ~BlocksAnywhere, ~Continues
    PROVE  Spec => []TypeOK
<1>1. IInv => TypeOK
    BY Bounded
<1> QED
    BY <1>1, Invariance, PTL

\* The compiler never counts what is on the stack: it takes the position of a local
\* for the slot of its value.  That is where the emitted code has put it, for any
\* program, in every function being compiled.
THEOREM LocalsInTheirSlots ==
    ASSUME ~BlocksAnywhere, ~Continues
    PROVE  Spec => []SlotsAgree
<1>1. IInv => SlotsAgree
    BY Placed
<1> QED
    BY <1>1, Invariance, PTL

\* identifier() compiles a name to the variable it means by lexical scoping, through
\* any number of functions that have to pass the upvalue on.
THEOREM NamesMeanWhatTheyShould ==
    ASSUME ~BlocksAnywhere, ~Continues
    PROVE  Spec => []NamesResolve
<1>1. IInv => NamesResolve
    BY DEF IInv, NamesResolve
<1> QED
    BY <1>1, Invariance, PTL

\* The code of an expression leaves one value and that of a statement nothing but
\* its variable, though getters and OP_SAVE_X are taken back after they were emitted.
THEOREM CodeBalanced ==
    ASSUME ~BlocksAnywhere, ~Continues
    PROVE  Spec => []Balanced
<1>1. IInv => Balanced
    BY Even
<1> QED
    BY <1>1, Invariance, PTL

\* A variable that an inner function mentions is marked as captured, so that its scope
\* ends with OP_CLOSE_UPVALUE; an upvalue names what the function around has; and a
\* function has one for a variable.
THEOREM CapturesMarked ==
    ASSUME ~BlocksAnywhere, ~Continues
    PROVE  Spec => []CapturesSound
<1>1. IInv => CapturesSound
    BY Sound
<1> QED
    BY <1>1, Invariance, PTL

=============================================================================
