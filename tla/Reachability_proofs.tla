------------------------- MODULE Reachability_proofs -------------------------
(***************************************************************************)
(* The three facts that make ReachableFrom(R, refs) "the least closed set  *)
(* that contains R", and that it depends on nothing but the pointers of    *)
(* its own members.                                                        *)
(***************************************************************************)
EXTENDS Reachability, TLAPS

\* Roots are reachable.
LEMMA RootsAreReachable ==
    ASSUME NEW O, NEW refs \in [O -> SUBSET O], NEW R \in SUBSET O
    PROVE  R \subseteq ReachableFrom(R, refs)
BY DEF ReachableFrom

\* A set of addresses.
LEMMA ReachableType ==
    ASSUME NEW O, NEW refs \in [O -> SUBSET O], NEW R
    PROVE  ReachableFrom(R, refs) \subseteq O
BY DEF ReachableFrom

\* What a reachable object points to is reachable.
LEMMA ReachableIsClosed ==
    ASSUME NEW O, NEW refs \in [O -> SUBSET O], NEW R
    PROVE  Closed(ReachableFrom(R, refs), refs)
<1> SUFFICES ASSUME NEW o \in ReachableFrom(R, refs), NEW p \in refs[o]
             PROVE  p \in ReachableFrom(R, refs)
    BY DEF Closed
<1>1. o \in O /\ p \in O
    BY DEF ReachableFrom
<1>2. ASSUME NEW S \in SUBSET O, R \subseteq S, Closed(S, refs)
      PROVE  p \in S
    BY <1>2 DEF ReachableFrom, Closed
<1> QED
    BY <1>1, <1>2 DEF ReachableFrom

\* Every closed set that contains the roots contains the reachable objects.
LEMMA ReachableIsLeast ==
    ASSUME NEW O, NEW refs \in [O -> SUBSET O], NEW R,
           NEW S \in SUBSET O, R \subseteq S, Closed(S, refs)
    PROVE  ReachableFrom(R, refs) \subseteq S
BY DEF ReachableFrom

\* The pointers of unreachable objects do not matter.
LEMMA ReachableDependsOnItself ==
    ASSUME NEW O, NEW refs \in [O -> SUBSET O], NEW refs2 \in [O -> SUBSET O],
           NEW R \in SUBSET O,
           \A o \in ReachableFrom(R, refs) : refs2[o] = refs[o]
    PROVE  ReachableFrom(R, refs2) = ReachableFrom(R, refs)
<1> DEFINE A == ReachableFrom(R, refs)
           B == ReachableFrom(R, refs2)
<1>1. A \in SUBSET O /\ B \in SUBSET O
    BY ReachableType
<1>2. Closed(A, refs2)
    BY ReachableIsClosed DEF Closed
<1>3. B \subseteq A
    BY <1>1, <1>2, RootsAreReachable, ReachableIsLeast
<1>4. Closed(B, refs)
    BY <1>3, ReachableIsClosed DEF Closed
<1>5. A \subseteq B
    BY <1>1, <1>4, RootsAreReachable, ReachableIsLeast
<1> QED
    BY <1>3, <1>5

=============================================================================
