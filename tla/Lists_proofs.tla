---------------------------- MODULE Lists_proofs ----------------------------
(***************************************************************************)
(* Facts about the operators of the community modules that the components  *)
(* are written with: Front and Last, Min and Max, BoundedSeq, InsertAt.    *)
(* The proofs of the components cite them.                                 *)
(***************************************************************************)
EXTENDS FiniteSetTheorems, SequencesExt, SequenceTheorems, TLAPS

\* A set of natural numbers that is not empty has a least element: the ranges
\* 0..i, ordered by inclusion, are well founded.
LEMMA LeastNat ==
    ASSUME NEW I \in SUBSET Nat, I # {}
    PROVE  \E n \in I : \A m \in I : n <= m
<1> DEFINE T == { 0..i : i \in I }
           R == StrictSubsetOrdering(Nat)
<1>1. IsWellFoundedOn(R, FiniteSubsetsOf(Nat))
    BY FS_StrictSubsetOrderingWellFounded
<1>2. T # {} /\ T \subseteq FiniteSubsetsOf(Nat)
    <2>1. ASSUME NEW i \in I
          PROVE  0..i \in FiniteSubsetsOf(Nat)
        <3>1. IsFiniteSet(0..i)
            BY FS_Interval
        <3> QED
            BY <3>1 DEF FiniteSubsetsOf
    <2> QED
        BY <2>1
<1>3. PICK t \in T : \A u \in T : <<u, t>> \notin R
    <2> HIDE DEF R, T
    <2> QED
        BY <1>1, <1>2, WFMin
<1>4. PICK n \in I : t = 0..n
    OBVIOUS
<1>5. ASSUME NEW m \in I, m < n
      PROVE  <<0..m, 0..n>> \in R
    <2>1. 0..m \subseteq 0..n /\ n \in 0..n /\ n \notin 0..m
        BY <1>5
    <2>2. 0..m \in SUBSET Nat /\ 0..n \in SUBSET Nat
        OBVIOUS
    <2> QED
        BY <2>1, <2>2 DEF StrictSubsetOrdering
<1>6. ASSUME NEW m \in I
      PROVE  n <= m
    <2>1. <<0..m, 0..n>> \notin R
        BY <1>3, <1>4
    <2> QED
        BY <1>5, <2>1
<1> QED
    BY <1>6

\* Induction over the numbers up to n.
LEMMA Steps ==
    ASSUME NEW n \in Nat, NEW S, 0 \in S, \A m \in 0..(n - 1) : m \in S => m + 1 \in S
    PROVE  \A m \in 0..n : m \in S
<1> DEFINE D == (0..n) \ S
<1>1. SUFFICES ASSUME D # {} PROVE FALSE
    OBVIOUS
<1>2. PICK d \in D : \A e \in D : d <= e
    <2>1. D \in SUBSET Nat
        OBVIOUS
    <2> HIDE DEF D
    <2> QED
        BY <1>1, <2>1, LeastNat
<1>3. d \in 1..n /\ d - 1 \in 0..(n - 1) /\ d - 1 \notin D
    BY <1>2
<1> QED
    BY <1>2, <1>3

\* Where a loop is after each of its first n turns.
Iterates(g, n, S, base, turn) ==
    /\ g \in [0..n -> S]
    /\ g[0] = base
    /\ \A k \in 1..n : g[k] = turn[g[k - 1]]

\* A loop of n turns, written as a recursive function: there is such a function.
LEMMA Iteration ==
    ASSUME NEW S, NEW n \in Nat, NEW base \in S, NEW turn \in [S -> S]
    PROVE  \E g : Iterates(g, n, S, base, turn)
<1> DEFINE Is(g, m) == Iterates(g, m, S, base, turn)
           D == { m \in 0..n : \E g : Is(g, m) }
<1>1. 0 \in D
    <2> DEFINE g == [k \in 0..0 |-> base]
    <2>1. g \in [0..0 -> S] /\ g[0] = base /\ \A k \in 1..0 : FALSE
        OBVIOUS
    <2>3. Is(g, 0)
        BY <2>1 DEF Iterates
    <2>4. 0 \in 0..n
        OBVIOUS
    <2> HIDE DEF Is, g
    <2> QED
        BY <2>3, <2>4
<1>2. ASSUME NEW m \in 0..(n - 1), m \in D
      PROVE  m + 1 \in D
    <2>1. PICK g : Is(g, m)
        BY <1>2
    <2> DEFINE h == [k \in 0..(m + 1) |-> IF k = m + 1 THEN turn[g[m]] ELSE g[k]]
    <2>2. /\ h \in [0..(m + 1) -> S]
          /\ \A k \in 0..m : h[k] = g[k]
          /\ h[m + 1] = turn[g[m]]
        BY <2>1 DEF Iterates
    <2>3. h[0] = base
        <3> HIDE DEF h
        <3> QED
            BY <2>1, <2>2 DEF Iterates
    <2>4. \A k \in 1..(m + 1) : h[k] = turn[h[k - 1]]
        <3> TAKE k \in 1..(m + 1)
        <3>1. CASE k = m + 1
            <4>1. k - 1 = m /\ h[m] = g[m]
                BY <2>2, <3>1
            <4> QED
                BY <2>2, <3>1, <4>1
        <3>2. CASE k \in 1..m
            <4>1. g[k] = turn[g[k - 1]]
                BY <2>1, <3>2 DEF Iterates
            <4>2. k - 1 \in 0..m /\ k \in 0..m
                BY <3>2
            <4> HIDE DEF h
            <4> QED
                BY <2>2, <4>1, <4>2
        <3> QED
            BY <3>1, <3>2
    <2>5. Is(h, m + 1)
        <3> HIDE DEF h
        <3> QED
            BY <2>2, <2>3, <2>4 DEF Iterates
    <2>6. m + 1 \in 0..n
        OBVIOUS
    <2> HIDE DEF Is, h
    <2> QED
        BY <2>5, <2>6
<1>3. n \in D
    <2> HIDE DEF D
    <2>1. \A m \in 0..n : m \in D
        BY <1>1, <1>2, Steps
    <2> QED
        BY <2>1
<1> QED
    BY <1>3

\* What Front and Last return.
LEMMA FrontProps ==
    ASSUME NEW S, NEW s \in Seq(S), s # <<>>
    PROVE  /\ Len(s) \in Nat \ {0}
           /\ Front(s) \in Seq(S)
           /\ Len(Front(s)) = Len(s) - 1
           /\ \A i \in 1..(Len(s) - 1) : Front(s)[i] = s[i]
           /\ Last(s) \in S
<1>1. Len(s) \in Nat \ {0}
    BY EmptySeq
<1>2. Front(s) = SubSeq(s, 1, Len(s) - 1)
    BY DEF Front
<1>3. Front(s) \in Seq(S) /\ \A i \in 1..(Len(s) - 1) : Front(s)[i] = s[i]
    BY <1>1, <1>2
<1>4. Len(Front(s)) = Len(s) - 1
    <2>1. PICK n \in Nat : n = Len(s) - 1
        BY <1>1
    <2>2. Len(SubSeq(s, 1, n)) = IF 1 <= n THEN n - 1 + 1 ELSE 0
        BY <1>1, <2>1, SubSeqProperties
    <2> QED
        BY <1>2, <2>1, <2>2
<1>5. Last(s) \in S
    BY <1>1 DEF Last
<1> QED
    BY <1>1, <1>3, <1>4, <1>5

\* What Min returns.
LEMMA MinProps ==
    ASSUME NEW I \in SUBSET Nat, I # {}
    PROVE  Min(I) \in I /\ \A m \in I : Min(I) <= m
BY LeastNat DEF Min

\* What Max returns, of a set of numbers with a bound.
LEMMA MaxProps ==
    ASSUME NEW I \in SUBSET Nat, I # {}, NEW n \in Nat, \A i \in I : i <= n
    PROVE  Max(I) \in I /\ \A m \in I : Max(I) >= m
<1> DEFINE J == { n - i : i \in I }
<1>1. J # {}
    OBVIOUS
<1>2. J \subseteq Nat
    <2>1. \A i \in I : i \in Nat /\ n - i \in Nat
        OBVIOUS
    <2> QED
        BY <2>1
<1>3. PICK j \in J : \A m \in J : j <= m
    <2> HIDE DEF J
    <2> QED
        BY <1>1, <1>2, LeastNat
<1>4. PICK i \in I : j = n - i
    OBVIOUS
<1>5. \A m \in I : i >= m
    <2> TAKE m \in I
    <2>1. n - i <= n - m
        BY <1>3, <1>4
    <2>2. i \in Nat /\ m \in Nat
        OBVIOUS
    <2> QED
        BY <2>1, <2>2
<1> QED
    BY <1>5 DEF Max

\* A bounded sequence is one whose length is bounded.
LEMMA BoundedSeqProps ==
    ASSUME NEW S, NEW n \in Nat
    PROVE  \A s : s \in BoundedSeq(S, n) <=> s \in Seq(S) /\ Len(s) <= n
<1>1. ASSUME NEW s \in BoundedSeq(S, n) PROVE s \in Seq(S) /\ Len(s) <= n
    BY DEF BoundedSeq, SeqOf
<1>2. ASSUME NEW s \in Seq(S), Len(s) <= n PROVE s \in BoundedSeq(S, n)
    BY <1>2 DEF BoundedSeq, SeqOf
<1> QED
    BY <1>1, <1>2

\* What InsertAt returns.
LEMMA InsertAtProps ==
    ASSUME NEW S, NEW s \in Seq(S), NEW e \in S, NEW i \in 1..Len(s)
    PROVE  /\ InsertAt(s, i, e) \in Seq(S)
           /\ Len(InsertAt(s, i, e)) = Len(s) + 1
           /\ \A j \in 1..(Len(s) + 1) :
                InsertAt(s, i, e)[j] =
                    IF j < i THEN s[j] ELSE IF j = i THEN e ELSE s[j - 1]
BY DEF InsertAt

\* The beginning of a sequence.
LEMMA PrefixProps ==
    ASSUME NEW S, NEW s \in Seq(S), NEW n \in 0..Len(s)
    PROVE  /\ SubSeq(s, 1, n) \in Seq(S) /\ Len(SubSeq(s, 1, n)) = n
           /\ DOMAIN SubSeq(s, 1, n) = 1..n
           /\ \A j \in 1..n : SubSeq(s, 1, n)[j] = s[j]
<1>1. Len(s) \in Nat /\ \A j \in 1..n : s[j] \in S
    OBVIOUS
<1>2. Len(SubSeq(s, 1, n)) = n
    BY <1>1
<1>3. SubSeq(s, 1, n) = [j \in 1..n |-> s[j]]
    BY <1>1
<1> QED
    BY <1>1, <1>2, <1>3

\* What follows a position of a sequence.
LEMMA SuffixProps ==
    ASSUME NEW S, NEW s \in Seq(S), NEW i \in 1..(Len(s) + 1)
    PROVE  /\ SubSeq(s, i, Len(s)) \in Seq(S)
           /\ Len(SubSeq(s, i, Len(s))) = Len(s) + 1 - i
           /\ \A j \in 1..(Len(s) + 1 - i) : SubSeq(s, i, Len(s))[j] = s[i + j - 1]
<1>1. Len(s) \in Nat /\ \A j \in i..Len(s) : s[j] \in S
    OBVIOUS
<1>2. Len(SubSeq(s, i, Len(s))) = IF i <= Len(s) THEN Len(s) - i + 1 ELSE 0
    BY <1>1, SubSeqProperties
<1> QED
    BY <1>1, <1>2

=============================================================================
