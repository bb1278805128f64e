--------------------------- MODULE Closures_proofs ---------------------------
(***************************************************************************)
(* Proofs about Closures, for any size of the stack, of the call frames    *)
(* and of the upvalue arrays, and any closures: the types, the order of    *)
(* the list of open upvalues, that an open upvalue refers to the variable  *)
(* it was made for, and that the machine implements Variables.             *)
(***************************************************************************)
EXTENDS Closures, Lists_proofs
-----------------------------------------------------------------------------
\* The inductive invariant, in parts

\* The variables in scope, the cells of upvalues and the places of open ones are
\* what the type invariant says, and more.
Types ==
    /\ stack \in [Slot -> Value]
    /\ stack_top \in 0..StackSize
    /\ frames \in Seq([closure : Closure \cup {Script}, slots : Slot])
    /\ Len(frames) <= FramesLimit
    /\ open_upvalues \in Seq(Upvalue)
    /\ location \in [Upvalue -> Slot \cup {Closed}]
    /\ captured \in [Upvalue -> Value \cup {Empty}]
    /\ upvalues \in [Closure \cup {Script} -> Seq(Upvalue)]
    /\ \A k \in Closure \cup {Script} : Len(upvalues[k]) <= MaxCaptures
    /\ made \subseteq Closure
    /\ capturing \in 0..MaxCaptures
    /\ errors \in 0..MaxErrors
    /\ slotCell \in [Slot -> Cell \cup {Empty}]
    /\ upvalueCell \in [Upvalue -> Cell \cup {Empty}]

\* The frames are stacked: each has a slot of its own at least.
Framed ==
    /\ frames = <<>> => stack_top = 0 /\ capturing = 0
    /\ frames # <<>> => frames[1].slots = 0
    /\ \A i \in 1..Len(frames) :
        /\ frames[i].slots < stack_top
        /\ frames[i].closure \in made \cup {Script}
    /\ \A i, j \in 1..Len(frames) : i < j => frames[i].slots < frames[j].slots

\* The closure on top of the stack has room for the upvalues it has yet to get.
Constructing ==
    capturing > 0 =>
        /\ Height > 1
        /\ Peek(0) \in made
        /\ Len(upvalues[Peek(0)]) + capturing <= MaxCaptures

\* The upvalues in use are those of the closures that have been made.
Owned ==
    /\ \A k \in (Closure \cup {Script}) \ made : upvalues[k] = <<>>
    /\ \A k \in made : \A i \in 1..Len(upvalues[k]) : upvalues[k][i] \in Used
    /\ \A u \in Used : \E k \in made : \E i \in 1..Len(upvalues[k]) : upvalues[k][i] = u

\* Every slot in use is a variable, and never slot 0 is captured; what is closed
\* has a value.
Celled ==
    /\ \A s \in 0..(stack_top - 1) : slotCell[s] \in Cell
    /\ \A u \in Used : location[u] # 0
    /\ \A u \in Used : location[u] = Closed => captured[u] \in Value
    /\ \A u \in Upvalue \ Used : location[u] = Closed

Sorted ==
    \A i, j \in 1..Len(open_upvalues) :
        i < j => location[open_upvalues[i]] > location[open_upvalues[j]]

Listed ==
    /\ \A i \in 1..Len(open_upvalues) :
            open_upvalues[i] \in Used /\ location[open_upvalues[i]] # Closed
    /\ \A u \in Used : location[u] # Closed =>
            \E i \in 1..Len(open_upvalues) : open_upvalues[i] = u

\* Before the first error: different variables are different cells, and an upvalue
\* points to a slot in use exactly if that slot is the variable it was made for.
Distinct ==
    errors = 0 =>
        /\ \A s, t \in 0..(stack_top - 1) : slotCell[s] = slotCell[t] => s = t
        /\ \A u, v \in Used : upvalueCell[u] = upvalueCell[v] => u = v
        /\ \A u \in Used, s \in 0..(stack_top - 1) :
                upvalueCell[u] = slotCell[s] <=> location[u] = s
        /\ \A u \in Used : location[u] # Closed => location[u] < stack_top

IInv ==
    /\ Types
    /\ Framed
    /\ Constructing
    /\ Owned
    /\ Celled
    /\ Sorted
    /\ Listed
    /\ Distinct
-----------------------------------------------------------------------------
\* Facts about one state

\* There is always a name left for another variable.
LEMMA NewCellIsNew ==
    ASSUME Types, NEW top \in Slot
    PROVE  NewCell(top) \in Cell \ CellsInUse(top)
<1> DEFINE A == { slotCell[s] : s \in 0..(top - 1) }
           B == { upvalueCell[u] : u \in Used }
<1>1. top \in Nat /\ StackSize \in Nat /\ top < StackSize
    BY SizeAssumption DEF Slot
<1>2. IsFiniteSet(A) /\ Cardinality(A) <= top /\ Cardinality(A) \in Nat
    <2> DEFINE f == [s \in 0..(top - 1) |-> slotCell[s]]
    <2>1. f \in Surjection(0..(top - 1), A)
        BY DEF Surjection
    <2>2. IsFiniteSet(0..(top - 1)) /\ Cardinality(0..(top - 1)) = top
        BY <1>1, FS_Interval
    <2> HIDE DEF f, A
    <2>3. IsFiniteSet(A) /\ Cardinality(A) <= Cardinality(0..(top - 1))
        BY <2>1, <2>2, FS_Surjection
    <2> QED
        BY <2>2, <2>3, FS_CardinalityType
<1>3. IsFiniteSet(B) /\ Cardinality(B) <= Cardinality(Upvalue) /\ Cardinality(B) \in Nat
    <2> DEFINE f == [u \in Used |-> upvalueCell[u]]
    <2>1. f \in Surjection(Used, B)
        BY DEF Surjection
    <2>2. IsFiniteSet(Used) /\ Cardinality(Used) <= Cardinality(Upvalue)
        BY FS_Subset, CellAssumption DEF Used
    <2>3. Cardinality(Used) \in Nat /\ Cardinality(Upvalue) \in Nat
        BY <2>2, FS_CardinalityType, CellAssumption
    <2> HIDE DEF f, B
    <2>4. IsFiniteSet(B) /\ Cardinality(B) <= Cardinality(Used)
        BY <2>1, <2>2, FS_Surjection
    <2>5. Cardinality(B) \in Nat
        BY <2>4, FS_CardinalityType
    <2> QED
        BY <2>2, <2>3, <2>4, <2>5
<1> HIDE DEF A, B
<1>4. IsFiniteSet(A \cup B) /\ Cardinality(A \cup B) <= Cardinality(A) + Cardinality(B)
    <2>1. /\ IsFiniteSet(A \cup B)
          /\ Cardinality(A \cup B) = Cardinality(A) + Cardinality(B) - Cardinality(A \cap B)
        BY <1>2, <1>3, FS_Union
    <2>2. Cardinality(A \cap B) \in Nat
        BY <1>2, FS_Intersection, FS_CardinalityType
    <2> QED
        BY <1>2, <1>3, <2>1, <2>2
<1>5. ~(Cell \subseteq A \cup B)
    <2> SUFFICES ASSUME Cell \subseteq A \cup B PROVE FALSE
        OBVIOUS
    <2>1. Cardinality(Cell) <= Cardinality(A \cup B)
        BY <1>4, FS_Subset
    <2>2. Cardinality(Cell) \in Nat /\ Cardinality(Upvalue) \in Nat /\ Cardinality(A \cup B) \in Nat
        BY <1>4, CellAssumption, FS_CardinalityType
    <2> QED
        BY <1>1, <1>2, <1>3, <1>4, <2>1, <2>2, CellAssumption
<1>6. CellsInUse(top) = A \cup B
    BY DEF CellsInUse, A, B
<1> QED
    BY <1>5, <1>6 DEF NewCell

\* The position at which the loop of capture_upvalue stops.
LEMMA FirstAtProps ==
    ASSUME Types, Listed, NEW slot \in Slot
    PROVE  /\ FirstAt(slot) \in 0..Len(open_upvalues)
           /\ FirstAt(slot) > 0 => location[open_upvalues[FirstAt(slot)]] <= slot
           /\ \A i \in 1..Len(open_upvalues) :
                FirstAt(slot) = 0 \/ i < FirstAt(slot) => location[open_upvalues[i]] > slot
<1> DEFINE I == { i \in 1..Len(open_upvalues) : location[open_upvalues[i]] <= slot }
<1>0. \A i : i \in I <=> i \in 1..Len(open_upvalues) /\ location[open_upvalues[i]] <= slot
    OBVIOUS
<1>1. FirstAt(slot) = IF I # {} THEN Min(I) ELSE 0
    BY DEF FirstAt, SelectInSeq
<1>2. \A i \in 1..Len(open_upvalues) : location[open_upvalues[i]] \in Slot
    BY DEF Types, Listed
<1>3. Len(open_upvalues) \in Nat /\ I \in SUBSET Nat
    BY DEF Types
<1> HIDE DEF I
<1>4. CASE I = {}
    BY <1>0, <1>1, <1>2, <1>3, <1>4, SizeAssumption DEF Slot
<1>5. CASE I # {}
    <2>1. Min(I) \in I /\ \A i \in I : Min(I) <= i
        BY <1>3, <1>5, MinProps
    <2> QED
        BY <1>0, <1>1, <1>2, <1>3, <1>5, <2>1, SizeAssumption DEF Slot
<1> QED
    BY <1>4, <1>5

\* The position at which the loop of close_upvalues stops.
LEMMA FirstBelowProps ==
    ASSUME Types, Listed, NEW slot \in Slot
    PROVE  /\ FirstBelow(slot) \in 0..Len(open_upvalues)
           /\ FirstBelow(slot) > 0 => location[open_upvalues[FirstBelow(slot)]] < slot
           /\ \A i \in 1..Len(open_upvalues) :
                FirstBelow(slot) = 0 \/ i < FirstBelow(slot)
                    => location[open_upvalues[i]] >= slot
<1> DEFINE I == { i \in 1..Len(open_upvalues) : location[open_upvalues[i]] < slot }
<1>0. \A i : i \in I <=> i \in 1..Len(open_upvalues) /\ location[open_upvalues[i]] < slot
    OBVIOUS
<1>1. FirstBelow(slot) = IF I # {} THEN Min(I) ELSE 0
    BY DEF FirstBelow, SelectInSeq
<1>2. \A i \in 1..Len(open_upvalues) : location[open_upvalues[i]] \in Slot
    BY DEF Types, Listed
<1>3. Len(open_upvalues) \in Nat /\ I \in SUBSET Nat
    BY DEF Types
<1> HIDE DEF I
<1>4. CASE I = {}
    BY <1>0, <1>1, <1>2, <1>3, <1>4, SizeAssumption DEF Slot
<1>5. CASE I # {}
    <2>1. Min(I) \in I /\ \A i \in I : Min(I) <= i
        BY <1>3, <1>5, MinProps
    <2> QED
        BY <1>0, <1>1, <1>2, <1>3, <1>5, <2>1, SizeAssumption DEF Slot
<1> QED
    BY <1>4, <1>5

\* The running call.
LEMMA FrameProps ==
    ASSUME Types, Framed, frames # <<>>
    PROVE  /\ Len(frames) \in Nat \ {0}
           /\ Frame = frames[Len(frames)]
           /\ Frame.slots \in Slot /\ Frame.slots < stack_top
           /\ Frame.closure \in made \cup {Script}
           /\ Height \in Nat \ {0} /\ Height = stack_top - Frame.slots
           /\ stack_top \in Nat \ {0}
<1>1. Len(frames) \in Nat \ {0}
    BY EmptySeq DEF Types
<1>2. Frame = frames[Len(frames)]
    BY DEF Frame, Last
<1>3. Frame \in [closure : Closure \cup {Script}, slots : Slot]
    <2> DEFINE S == [closure : Closure \cup {Script}, slots : Slot]
    <2>1. frames \in Seq(S)
        BY DEF Types
    <2> HIDE DEF S
    <2>2. Last(frames) \in S
        BY <2>1, FrontProps
    <2> QED
        BY <2>2 DEF Frame, S
<1>4. Frame.slots < stack_top /\ Frame.closure \in made \cup {Script}
    BY <1>1, <1>2 DEF Framed
<1>5. Frame.slots \in Slot
    BY <1>3
<1>6. Frame.slots \in Nat /\ stack_top \in Nat
    BY <1>5, SizeAssumption DEF Slot, Types
<1> QED
    BY <1>1, <1>2, <1>4, <1>5, <1>6 DEF Height

\* Where a variable of the running call is.
LEMMA SlotOfLocal ==
    ASSUME Types, Framed, frames # <<>>, NEW i \in 1..(Height - 1)
    PROVE  Frame.slots + i \in Slot /\ Frame.slots + i < stack_top /\ Frame.slots + i > 0
<1>1. Frame.slots \in Nat /\ stack_top \in Nat /\ Height = stack_top - Frame.slots
    BY FrameProps, SizeAssumption DEF Slot
<1>2. stack_top <= StackSize /\ StackSize \in Nat
    BY SizeAssumption DEF Types
<1> QED
    BY <1>1, <1>2 DEF Slot

\* Where the calls begin.
LEMMA SlotsOfFrames ==
    ASSUME Types
    PROVE  \A i \in 1..Len(frames) : frames[i].slots \in Slot /\ frames[i].slots \in Nat
<1>1. \A i \in 1..Len(frames) : frames[i] \in [closure : Closure \cup {Script}, slots : Slot]
    BY ElementOfSeq DEF Types
<1> QED
    BY <1>1, SizeAssumption DEF Slot

\* The closure k gets the upvalue u: the upvalues in use are u and those before.
LEMMA AppendOwned ==
    ASSUME Owned, made \subseteq Closure,
           upvalues \in [Closure \cup {Script} -> Seq(Upvalue)],
           NEW k \in made, NEW u \in Upvalue, made' = made,
           upvalues'[k] = Append(upvalues[k], u),
           \A j \in Closure \cup {Script} : j # k => upvalues'[j] = upvalues[j],
           Used' = Used \cup {u}
    PROVE  Owned'
<1>1. upvalues[k] \in Seq(Upvalue) /\ Len(upvalues'[k]) = Len(upvalues[k]) + 1
    OBVIOUS
<1>2. /\ \A i \in 1..Len(upvalues[k]) : upvalues'[k][i] = upvalues[k][i]
      /\ upvalues'[k][Len(upvalues[k]) + 1] = u
    BY <1>1
<1>3. \A j \in (Closure \cup {Script}) \ made' : upvalues'[j] = <<>>
    BY DEF Owned
<1>4. \A j \in made' : \A i \in 1..Len(upvalues'[j]) : upvalues'[j][i] \in Used'
    <2>1. ASSUME NEW i \in 1..Len(upvalues'[k]) PROVE upvalues'[k][i] \in Used'
        BY <1>1, <1>2 DEF Owned
    <2> QED
        BY <2>1 DEF Owned
<1>5. ASSUME NEW w \in Used'
      PROVE  \E j \in made' : \E i \in 1..Len(upvalues'[j]) : upvalues'[j][i] = w
    <2>1. CASE w = u
        <3>1. Len(upvalues[k]) + 1 \in 1..Len(upvalues'[k])
            BY <1>1
        <3> QED
            BY <1>2, <2>1, <3>1
    <2>2. CASE w \in Used
        <3>1. PICK j \in made : \E i \in 1..Len(upvalues[j]) : upvalues[j][i] = w
            BY <2>2 DEF Owned
        <3>2. CASE j = k
            BY <1>1, <1>2, <3>1, <3>2
        <3>3. CASE j # k
            BY <3>1, <3>3
        <3> QED
            BY <3>2, <3>3
    <2> QED
        BY <2>1, <2>2
<1> QED
    BY <1>3, <1>4, <1>5 DEF Owned


-----------------------------------------------------------------------------
\* The initial states

\* A machine that has executed nothing satisfies the invariant.
LEMMA InitIInv == Init => IInv
<1> SUFFICES ASSUME Init PROVE IInv
    OBVIOUS
<1> USE DEF Init
<1>1. Used = {}
    BY DEF Used
<1>2. Types
    <2>1. 0 \in 0..StackSize /\ 0 \in 0..MaxCaptures /\ 0 \in 0..MaxErrors
        BY SizeAssumption, CaptureAssumption
    <2>2. Script \in Value /\ Len(<<>>) = 0
        BY DEF Value
    <2>3. 0 <= FramesLimit /\ 0 <= MaxCaptures
        BY SizeAssumption, CaptureAssumption
    <2> QED
        BY <2>1, <2>2, <2>3 DEF Types
<1>3. Framed /\ Constructing
    BY DEF Framed, Constructing
<1>4. Owned /\ Celled
    BY <1>1 DEF Owned, Celled
<1>5. Sorted /\ Listed /\ Distinct
    BY <1>1 DEF Sorted, Listed, Distinct
<1> QED
    BY <1>2, <1>3, <1>4, <1>5 DEF IInv

-----------------------------------------------------------------------------
\* Pushing

\* What push() does to the stack and its variables.
LEMMA PushOnProps ==
    ASSUME IInv, NEW v \in Value, PushOn(stack_top, v)
    PROVE  /\ stack_top \in Slot /\ stack_top' = stack_top + 1 /\ stack_top' \in 0..StackSize
           /\ stack' \in [Slot -> Value] /\ stack'[stack_top] = v
           /\ \A s \in Slot : s # stack_top => stack'[s] = stack[s] /\ slotCell'[s] = slotCell[s]
           /\ slotCell' \in [Slot -> Cell \cup {Empty}]
           /\ slotCell'[stack_top] \in Cell \ CellsInUse(stack_top)
<1>1. stack_top \in Slot /\ stack_top' = stack_top + 1 /\ stack_top' \in 0..StackSize
    BY SizeAssumption DEF IInv, Types, PushOn, Slot
<1>2. NewCell(stack_top) \in Cell \ CellsInUse(stack_top)
    BY <1>1, NewCellIsNew DEF IInv
<1>3. /\ stack' = [stack EXCEPT ![stack_top] = v]
      /\ slotCell' = [slotCell EXCEPT ![stack_top] = NewCell(stack_top)]
    BY DEF PushOn
<1>4. stack \in [Slot -> Value] /\ slotCell \in [Slot -> Cell \cup {Empty}]
    BY DEF IInv, Types
<1> QED
    BY <1>1, <1>2, <1>3, <1>4

\* A new variable leaves the upvalues as they are.
LEMMA PushOnCells ==
    ASSUME IInv, NEW v \in Value, PushOn(stack_top, v),
           UNCHANGED <<open_upvalues, location, captured, upvalueCell, errors>>
    PROVE  Celled' /\ Sorted' /\ Listed' /\ Distinct'
<1>1. Used' = Used
    BY DEF Used
<1>2. \A s \in 0..(stack_top' - 1) : s \in Slot /\ (s = stack_top \/ s \in 0..(stack_top - 1))
    BY PushOnProps, SizeAssumption DEF Slot
<1>3. /\ slotCell'[stack_top] \in Cell
      /\ \A s \in 0..(stack_top - 1) :
            slotCell'[s] = slotCell[s] /\ slotCell[s] # slotCell'[stack_top]
      /\ \A u \in Used : upvalueCell[u] # slotCell'[stack_top]
    <2>1. \A s \in 0..(stack_top - 1) : s \in Slot /\ s # stack_top
        BY SizeAssumption DEF IInv, Types, Slot
    <2> QED
        BY <2>1, PushOnProps DEF CellsInUse
<1>4. Celled'
    BY <1>1, <1>2, <1>3 DEF IInv, Celled
<1>5. Sorted' /\ Listed'
    BY <1>1 DEF IInv, Sorted, Listed
<1>6. Distinct'
    <2> SUFFICES ASSUME errors = 0
                 PROVE  Distinct'
        BY DEF Distinct
    <2>1. \A s, t \in 0..(stack_top' - 1) : slotCell'[s] = slotCell'[t] => s = t
        BY <1>2, <1>3 DEF IInv, Distinct
    <2>2. \A u, w \in Used : upvalueCell[u] = upvalueCell[w] => u = w
        BY DEF IInv, Distinct
    <2>3. \A u \in Used, s \in 0..(stack_top' - 1) :
                upvalueCell[u] = slotCell'[s] <=> location[u] = s
        <3>1. \A u \in Used : location[u] # stack_top
            BY LocationAssumption, SizeAssumption DEF IInv, Distinct, Types, Slot, Used
        <3> QED
            BY <1>2, <1>3, <3>1 DEF IInv, Distinct
    <2>4. \A u \in Used : location[u] # Closed => location[u] < stack_top'
        <3>1. ASSUME NEW u \in Used, location[u] # Closed
              PROVE  location[u] < stack_top'
            <4>1. location[u] \in Slot /\ location[u] < stack_top /\ stack_top' = stack_top + 1
                BY <3>1, PushOnProps DEF IInv, Distinct, Types, Used
            <4> QED
                BY <4>1, SizeAssumption DEF IInv, Types, Slot
        <3> QED
            BY <3>1
    <2> QED
        BY <1>1, <2>1, <2>2, <2>3, <2>4 DEF Distinct
<1> QED
    BY <1>4, <1>5, <1>6

\* interpret() pushes a closure and enters its frame.
LEMMA InterpretIInv ==
    ASSUME IInv, Interpret
    PROVE  IInv'
<1> USE DEF IInv, Interpret
<1>1. Script \in Value
    BY DEF Value
<1>2. PushOn(stack_top, Script) /\ stack_top = 0 /\ capturing = 0
    BY DEF Framed
<1>3. frames' = <<[closure |-> Script, slots |-> 0]>> /\ stack_top' = 1 /\ 0 \in Slot
    BY <1>1, <1>2, PushOnProps
<1>4. Types'
    <2>1. frames' \in Seq([closure : Closure \cup {Script}, slots : Slot]) /\ Len(frames') = 1
        BY <1>3
    <2>2. 1 <= FramesLimit
        BY SizeAssumption
    <2> QED
        BY <1>1, <1>2, <2>1, <2>2, PushOnProps DEF Types
<1>5. Framed'
    BY <1>3 DEF Framed
<1>6. Constructing'
    BY <1>2 DEF Constructing
<1>7. Owned'
    BY DEF Owned, Used
<1>8. Celled' /\ Sorted' /\ Listed' /\ Distinct'
    BY <1>1, <1>2, PushOnCells
<1> QED
    BY <1>4, <1>5, <1>6, <1>7, <1>8

\* The instructions that push a value and do nothing else.
LEMMA PushingIInv ==
    ASSUME IInv, NEW v \in Value, Running, PushOn(stack_top, v),
           UNCHANGED <<frames, open_upvalues, location, captured, upvalues, made,
                       capturing, errors, upvalueCell>>
    PROVE  IInv'
<1> USE DEF IInv
<1>1. Types'
    BY PushOnProps DEF Types
<1>2. Framed'
    <2>1. stack_top' = stack_top + 1 /\ stack_top \in Nat
        BY PushOnProps, SizeAssumption DEF Slot
    <2>2. \A i \in 1..Len(frames) : frames[i].slots \in Nat
        BY SlotsOfFrames
    <2> QED
        BY <2>1, <2>2 DEF Framed, Running
<1>3. Constructing' /\ Owned'
    BY DEF Constructing, Owned, Used, Running
<1>4. Celled' /\ Sorted' /\ Listed' /\ Distinct'
    BY PushOnCells
<1> QED
    BY <1>1, <1>2, <1>3, <1>4

\* A constant or a global is pushed.
LEMMA PushIInv ==
    ASSUME IInv, NEW v \in Plain \cup made, Push(v)
    PROVE  IInv'
<1>1. v \in Value
    BY DEF IInv, Types, Value
<1> QED
    BY <1>1, PushingIInv DEF Push

\* OP_GET_LOCAL pushes what a slot of the running call holds.
LEMMA GetLocalIInv ==
    ASSUME IInv, NEW i \in Slot, GetLocal(i)
    PROVE  IInv'
<1>1. Frame.slots + i \in Slot
    BY SlotOfLocal DEF GetLocal, Running, IInv
<1>2. stack[Frame.slots + i] \in Value
    BY <1>1 DEF IInv, Types
<1> QED
    BY <1>2, PushingIInv DEF GetLocal

\* What an upvalue in use holds is a value.
LEMMA DerefType ==
    ASSUME IInv, NEW u \in Used
    PROVE  Deref(u) \in Value
BY DEF IInv, Types, Celled, Deref, Used

\* OP_GET_UPVALUE pushes what an upvalue of the running closure refers to.
LEMMA GetUpvalueIInv ==
    ASSUME IInv, NEW i \in 1..MaxCaptures, GetUpvalue(i)
    PROVE  IInv'
<1>1. upvalues[Frame.closure][i] \in Used
    BY FrameProps DEF GetUpvalue, Running, IInv, Types, Owned
<1> QED
    BY <1>1, DerefType, PushingIInv DEF GetUpvalue

\* OP_CLOSURE pushes a closure that has room for the upvalues it will get.
LEMMA MakeClosureIInv ==
    ASSUME IInv, NEW k \in Closure, NEW n \in 0..MaxCaptures, MakeClosure(k, n)
    PROVE  IInv'
<1> USE DEF IInv, MakeClosure
<1>1. k \in Value
    BY DEF Value
<1>2. stack_top' = stack_top + 1 /\ stack_top \in Nat /\ stack'[stack_top] = k
    BY <1>1, PushOnProps, SizeAssumption DEF Slot
<1>3. Types'
    BY <1>1, PushOnProps DEF Types
<1>4. Framed'
    <2>1. \A i \in 1..Len(frames) : frames[i].slots \in Nat
        BY SlotsOfFrames
    <2>2. frames' = frames /\ made' = made \cup {k} /\ frames # <<>>
        BY DEF Running
    <2>3. Framed
        OBVIOUS
    <2> QED
        BY ONLY <1>2, <2>1, <2>2, <2>3 DEF Framed
<1>5. Constructing'
    <2>1. Frame' = Frame /\ Frame.slots \in Nat /\ Height \in Nat \ {0} /\ Height = stack_top - Frame.slots
        BY FrameProps, SizeAssumption DEF Running, Frame, Slot
    <2>2. Height' > 1
        BY <1>2, <2>1 DEF Height
    <2>3. Peek(0)' = k
        BY <1>2 DEF Peek
    <2>4. upvalues'[k] = <<>> /\ n \in Nat /\ n <= MaxCaptures
        BY CaptureAssumption DEF Owned
    <2> QED
        BY <2>2, <2>3, <2>4 DEF Constructing
<1>6. Owned'
    <2>1. upvalues[k] = <<>>
        BY DEF Owned
    <2> QED
        BY <2>1 DEF Owned, Used
<1>7. Celled' /\ Sorted' /\ Listed' /\ Distinct'
    BY <1>1, PushOnCells
<1> QED
    BY <1>3, <1>4, <1>5, <1>6, <1>7

-----------------------------------------------------------------------------
\* Assignments and the end of variables that no upvalue refers to

\* A call keeps its first slot when it pops another.
LEMMA PopFramed ==
    ASSUME IInv, frames # <<>>, Height > 1, stack_top' = stack_top - 1,
           UNCHANGED <<frames, made, capturing>>
    PROVE  Framed' /\ stack_top' \in 0..StackSize /\ stack_top - 1 \in Slot
<1>1. /\ stack_top \in Nat /\ stack_top <= StackSize /\ StackSize \in Nat
      /\ Len(frames) \in Nat \ {0} /\ Frame.slots \in Nat /\ Frame.slots < stack_top - 1
    BY FrameProps, SizeAssumption DEF IInv, Types, Slot
<1>2. \A i \in 1..Len(frames) : frames[i].slots < stack_top - 1
    <2>1. \A i \in 1..Len(frames) : frames[i].slots \in Nat
        BY SlotsOfFrames DEF IInv
    <2>2. \A i \in 1..Len(frames) :
            i = Len(frames) \/ frames[i].slots < frames[Len(frames)].slots
        BY <1>1 DEF IInv, Framed
    <2>3. Frame.slots = frames[Len(frames)].slots
        BY FrameProps DEF IInv
    <2> QED
        BY <1>1, <2>1, <2>2, <2>3
<1>3. Framed'
    BY <1>2 DEF IInv, Framed
<1> QED
    BY <1>1, <1>3 DEF Slot

\* OP_POP removes a variable no upvalue refers to.
LEMMA PopIInv ==
    ASSUME IInv, Pop
    PROVE  IInv'
<1> USE DEF Pop, ghosts
<1>1. Framed' /\ stack_top' \in 0..StackSize
    BY PopFramed DEF Running
<1>2. Used' = Used
    BY DEF Used
<1>3. Types'
    BY <1>1 DEF IInv, Types
<1>4. Constructing' /\ Owned' /\ Sorted' /\ Listed'
    BY <1>2 DEF IInv, Constructing, Owned, Sorted, Listed, Running
<1>5. 0..(stack_top' - 1) \subseteq 0..(stack_top - 1) /\ stack_top \in Nat
    BY SizeAssumption DEF IInv, Types
<1>6. Celled'
    BY <1>2, <1>5 DEF IInv, Celled
<1>7. Distinct'
    <2>1. ASSUME errors = 0, NEW u \in Used, location[u] # Closed
          PROVE  location[u] < stack_top - 1
        <3>1. location[u] \in Nat /\ location[u] < stack_top /\ location[u] # stack_top - 1
            BY <2>1, SizeAssumption DEF IInv, Distinct, Types, Used, Slot
        <3> QED
            BY <1>5, <3>1
    <2> QED
        BY <1>2, <1>5, <2>1 DEF IInv, Distinct
<1> QED
    BY <1>1, <1>3, <1>4, <1>6, <1>7 DEF IInv

\* An assignment changes a value in the stack, or one that an upvalue has closed
\* over, and nothing else.
LEMMA AssignIInv ==
    ASSUME IInv, Running, stack' \in [Slot -> Value],
           captured' \in [Upvalue -> Value \cup {Empty}],
           \A u \in Used : location[u] = Closed => captured'[u] \in Value,
           UNCHANGED <<stack_top, frames, open_upvalues, location, upvalues, made,
                       capturing, errors, slotCell, upvalueCell>>
    PROVE  IInv'
<1>1. Used' = Used
    BY DEF Used
<1>2. Types' /\ Framed'
    BY DEF IInv, Types, Framed
<1>3. Constructing' /\ Owned' /\ Sorted' /\ Listed'
    BY <1>1 DEF IInv, Constructing, Owned, Sorted, Listed, Running
<1>4. Celled' /\ Distinct'
    BY <1>1 DEF IInv, Celled, Distinct
<1> QED
    BY <1>2, <1>3, <1>4 DEF IInv

\* The top of the stack is a value.
LEMMA PeekType ==
    ASSUME IInv, frames # <<>>
    PROVE  Peek(0) \in Value
<1>1. stack_top - 1 - 0 \in Slot
    BY FrameProps, SizeAssumption DEF IInv, Types, Slot
<1> QED
    BY <1>1 DEF IInv, Types, Peek

\* OP_SET_LOCAL.
LEMMA SetLocalIInv ==
    ASSUME IInv, NEW i \in Slot, SetLocal(i)
    PROVE  IInv'
<1>1. Peek(0) \in Value
    BY PeekType DEF SetLocal, Running
<1>2. stack' \in [Slot -> Value]
    BY <1>1 DEF SetLocal, IInv, Types
<1>3. captured' \in [Upvalue -> Value \cup {Empty}]
    BY DEF SetLocal, IInv, Types
<1>4. \A u \in Used : location[u] = Closed => captured'[u] \in Value
    BY DEF SetLocal, IInv, Celled
<1> QED
    BY <1>2, <1>3, <1>4, AssignIInv DEF SetLocal, ghosts

\* OP_SET_UPVALUE.
LEMMA SetUpvalueIInv ==
    ASSUME IInv, NEW i \in 1..MaxCaptures, SetUpvalue(i)
    PROVE  IInv'
<1> DEFINE u == upvalues[Frame.closure][i]
<1>1. Peek(0) \in Value
    BY PeekType DEF SetUpvalue, Running
<1>2. stack' \in [Slot -> Value] /\ captured' \in [Upvalue -> Value \cup {Empty}]
    BY <1>1 DEF SetUpvalue, IInv, Types
<1>3. \A w \in Used : location[w] = Closed => captured'[w] \in Value
    BY <1>1 DEF SetUpvalue, IInv, Celled, Types, Used
<1> QED
    BY <1>2, <1>3, AssignIInv DEF SetUpvalue, ghosts

-----------------------------------------------------------------------------
\* Capturing

\* One more upvalue for the closure on top of the stack.
LEMMA AttachProps ==
    ASSUME IInv, capturing > 0, NEW u \in Upvalue, Attach(u),
           UNCHANGED <<stack, stack_top, frames, made>>
    PROVE  /\ Framed' /\ Constructing'
           /\ Peek(0) \in made /\ capturing' \in 0..MaxCaptures
           /\ upvalues' \in [Closure \cup {Script} -> Seq(Upvalue)]
           /\ \A k \in Closure \cup {Script} : Len(upvalues'[k]) <= MaxCaptures
           /\ upvalues'[Peek(0)] = Append(upvalues[Peek(0)], u)
           /\ \A k \in Closure \cup {Script} : k # Peek(0) => upvalues'[k] = upvalues[k]
<1> DEFINE k == Peek(0)
<1>1. k \in made /\ k \in Closure \cup {Script} /\ Len(upvalues[k]) + capturing <= MaxCaptures
    BY DEF IInv, Constructing, Types
<1>2. capturing \in Nat /\ MaxCaptures \in Nat /\ upvalues[k] \in Seq(Upvalue)
    BY <1>1, CaptureAssumption DEF IInv, Types
<1>3. capturing' = capturing - 1 /\ upvalues' = [upvalues EXCEPT ![k] = Append(@, u)]
    BY DEF Attach
<1> HIDE DEF k
<1>4. upvalues'[k] = Append(upvalues[k], u) /\ Len(upvalues'[k]) = Len(upvalues[k]) + 1
    BY <1>1, <1>2, <1>3 DEF IInv, Types
<1>5. \A j \in Closure \cup {Script} : j # k => upvalues'[j] = upvalues[j]
    BY <1>3 DEF IInv, Types
<1>6. upvalues' \in [Closure \cup {Script} -> Seq(Upvalue)]
    <2>1. Append(upvalues[k], u) \in Seq(Upvalue)
        BY <1>2
    <2> QED
        BY <1>1, <1>3, <2>1 DEF IInv, Types
<1>7. capturing' \in 0..MaxCaptures /\ Len(upvalues[k]) \in Nat
    BY <1>1, <1>2, <1>3 DEF IInv, Types
<1>8. Len(upvalues'[k]) + capturing' <= MaxCaptures
    BY <1>1, <1>2, <1>3, <1>4, <1>7
<1>9. \A j \in Closure \cup {Script} : Len(upvalues'[j]) <= MaxCaptures
    <2>1. Len(upvalues'[k]) <= MaxCaptures
        BY <1>2, <1>4, <1>7, <1>8
    <2>2. \A j \in Closure \cup {Script} : Len(upvalues[j]) <= MaxCaptures
        BY DEF IInv, Types
    <2> QED
        BY <1>5, <2>1, <2>2
<1>10. Framed'
    <2>1. frames # <<>>
        BY <1>2 DEF IInv, Framed
    <2> QED
        BY <2>1 DEF IInv, Framed
<1>11. Constructing'
    <2>1. k' = k /\ Height' = Height
        BY DEF k, Peek, Height, Frame
    <2> QED
        BY <1>1, <1>8, <2>1 DEF IInv, Constructing, k
<1> QED
    BY <1>1, <1>4, <1>5, <1>6, <1>7, <1>9, <1>10, <1>11 DEF k

\* An upvalue that exists already is attached.
LEMMA AttachUsedIInv ==
    ASSUME IInv, capturing > 0, NEW u \in Used, Attach(u),
           UNCHANGED <<stack, stack_top, frames, open_upvalues, location, captured,
                       made, errors, slotCell, upvalueCell>>
    PROVE  IInv'
<1>1. Used' = Used /\ u \in Upvalue
    BY DEF Used
<1> DEFINE k == Peek(0)
<1>2. /\ Framed' /\ Constructing'
      /\ k \in made /\ capturing' \in 0..MaxCaptures
      /\ upvalues' \in [Closure \cup {Script} -> Seq(Upvalue)]
      /\ \A j \in Closure \cup {Script} : Len(upvalues'[j]) <= MaxCaptures
      /\ upvalues'[k] = Append(upvalues[k], u)
      /\ \A j \in Closure \cup {Script} : j # k => upvalues'[j] = upvalues[j]
    BY <1>1, AttachProps
<1> HIDE DEF k
<1>3. Types'
    BY <1>2 DEF IInv, Types
<1>4. Owned'
    <2>1. Owned /\ made \subseteq Closure /\ upvalues \in [Closure \cup {Script} -> Seq(Upvalue)]
        BY DEF IInv, Types
    <2>2. Used' = Used \cup {u}
        BY <1>1
    <2> QED
        BY <1>1, <1>2, <2>1, <2>2, AppendOwned
<1>5. Celled' /\ Sorted' /\ Listed' /\ Distinct'
    BY <1>1 DEF IInv, Celled, Sorted, Listed, Distinct
<1> QED
    BY <1>2, <1>3, <1>4, <1>5 DEF IInv

\* capture_upvalue finds an upvalue for the slot.
LEMMA CaptureAgainIInv ==
    ASSUME IInv, NEW i \in Slot, CaptureAgain(i)
    PROVE  IInv'
<1> DEFINE at == FirstAt(Frame.slots + i)
<1>1. frames # <<>>
    BY CaptureAssumption DEF CaptureAgain, IInv, Framed, Types
<1>2. at \in 1..Len(open_upvalues)
    <2>1. Frame.slots + i \in Slot
        BY <1>1, SlotOfLocal DEF CaptureAgain, IInv
    <2>2. at \in 0..Len(open_upvalues) /\ Len(open_upvalues) \in Nat
        BY <2>1, FirstAtProps DEF IInv, Types
    <2>3. at > 0
        BY DEF CaptureAgain
    <2> QED
        BY <2>2, <2>3
<1>3. open_upvalues[at] \in Used
    BY <1>2 DEF IInv, Listed
<1> QED
    BY <1>3, AttachUsedIInv DEF CaptureAgain, ghosts

\* OP_CLOSURE shares an upvalue of the running closure.
LEMMA CaptureEnclosingIInv ==
    ASSUME IInv, NEW i \in 1..MaxCaptures, CaptureEnclosing(i)
    PROVE  IInv'
<1>1. frames # <<>>
    BY CaptureAssumption DEF CaptureEnclosing, IInv, Framed, Types
<1>2. upvalues[Frame.closure][i] \in Used
    BY <1>1, FrameProps DEF CaptureEnclosing, IInv, Types, Owned
<1> QED
    BY <1>2, AttachUsedIInv DEF CaptureEnclosing, ghosts

\* The list after a new upvalue entered it in its place: the upvalues before that
\* place, the new one, and the upvalues behind.
Entered(list, at, new) ==
    IF at = 0 THEN Append(list, new) ELSE InsertAt(list, at, new)

Place(list, at) == IF at = 0 THEN Len(list) + 1 ELSE at

\* What the list is like with a new upvalue in its place.
LEMMA EnterProps ==
    ASSUME NEW S, NEW list \in Seq(S), NEW new \in S, NEW at \in 0..Len(list)
    PROVE  /\ Place(list, at) \in 1..(Len(list) + 1)
           /\ Entered(list, at, new) \in Seq(S)
           /\ Len(Entered(list, at, new)) = Len(list) + 1
           /\ \A j \in 1..(Len(list) + 1) :
                Entered(list, at, new)[j] =
                    IF j < Place(list, at) THEN list[j]
                    ELSE IF j = Place(list, at) THEN new ELSE list[j - 1]
<1> DEFINE p == Place(list, at)
<1>1. CASE at = 0
    <2>1. Entered(list, at, new) = Append(list, new) /\ Len(list) \in Nat
        BY <1>1 DEF Entered
    <2>2. /\ Append(list, new) \in Seq(S) /\ Len(Append(list, new)) = Len(list) + 1
          /\ \A j \in 1..(Len(list) + 1) :
                Append(list, new)[j] = IF j < Len(list) + 1 THEN list[j]
                    ELSE IF j = Len(list) + 1 THEN new ELSE list[j - 1]
        BY <2>1
    <2>3. p = Len(list) + 1 /\ p \in 1..(Len(list) + 1)
        BY <1>1, <2>1 DEF Place
    <2> QED
        BY <2>1, <2>2, <2>3
<1>2. CASE at # 0
    <2>1. at \in 1..Len(list) /\ at \in 1..(Len(list) + 1) /\ p = at
        BY <1>2 DEF Place
    <2>2. Entered(list, at, new) = InsertAt(list, at, new)
        BY <1>2 DEF Entered
    <2>3. /\ InsertAt(list, at, new) \in Seq(S)
          /\ Len(InsertAt(list, at, new)) = Len(list) + 1
          /\ \A j \in 1..(Len(list) + 1) :
                InsertAt(list, at, new)[j] =
                    IF j < at THEN list[j] ELSE IF j = at THEN new ELSE list[j - 1]
        BY <2>1, InsertAtProps
    <2> QED
        BY ONLY <2>1, <2>2, <2>3
<1> QED
    BY <1>1, <1>2

\* An upvalue that enters the list between those above its slot and those below
\* leaves it sorted and complete.
LEMMA EnterSorted ==
    ASSUME IInv, NEW slot \in Slot, NEW new \in Upvalue \ Used,
           NEW p \in 1..(Len(open_upvalues) + 1),
           Len(open_upvalues') = Len(open_upvalues) + 1,
           \A j \in 1..(Len(open_upvalues) + 1) :
                open_upvalues'[j] = IF j < p THEN open_upvalues[j] ELSE IF j = p THEN new
                                    ELSE open_upvalues[j - 1],
           \A j \in 1..Len(open_upvalues) :
                /\ j < p => location[open_upvalues[j]] > slot
                /\ j >= p => location[open_upvalues[j]] < slot,
           location'[new] = slot,
           \A u \in Used : location'[u] = location[u],
           Used' = Used \cup {new}
    PROVE  Sorted' /\ Listed'
<1> DEFINE n == Len(open_upvalues)
           loc(j) == location[open_upvalues[j]]
<1>1. n \in Nat /\ slot \in Nat /\ p \in 1..(n + 1)
    BY SizeAssumption DEF IInv, Types, Slot
<1>3. \A j \in 1..(n + 1) :
            open_upvalues'[j] = IF j < p THEN open_upvalues[j] ELSE IF j = p THEN new
                                ELSE open_upvalues[j - 1]
    OBVIOUS
<1>4. \A j \in 1..n : open_upvalues[j] \in Used /\ loc(j) \in Nat /\ loc(j) # Closed
    BY SizeAssumption DEF IInv, Listed, Types, Slot, Used
<1>5. \A i, j \in 1..n : i < j => loc(i) > loc(j)
    BY DEF IInv, Sorted
<1>6. /\ location'[new] = slot
      /\ \A u \in Used : location'[u] = location[u]
      /\ Used' = Used \cup {new}
    OBVIOUS
<1>7. \A j \in 1..n : (j < p => loc(j) > slot) /\ (j >= p => loc(j) < slot)
    OBVIOUS
<1>12. Len(open_upvalues') = n + 1
    OBVIOUS
<1> HIDE DEF n
<1> DEFINE loc2(j) == location'[open_upvalues'[j]]
<1>8. \A j \in 1..(n + 1) :
            loc2(j) = IF j < p THEN loc(j) ELSE IF j = p THEN slot ELSE loc(j - 1)
    <2>1. \A j \in 1..(n + 1) : (j < p => j \in 1..n) /\ (j > p => j - 1 \in 1..n)
        BY <1>1
    <2> QED
        BY <1>3, <1>4, <1>6, <2>1
<1> HIDE DEF loc, loc2
<1>9. \A i, j \in 1..(n + 1) : i < j => loc2(i) > loc2(j)
    <2>1. ASSUME NEW i \in 1..(n + 1), NEW j \in 1..(n + 1), i < j
          PROVE  loc2(i) > loc2(j)
        <3>1. CASE j < p
            <4>1. i \in 1..n /\ j \in 1..n
                BY <1>1, <2>1, <3>1
            <4>2. loc2(i) = loc(i) /\ loc2(j) = loc(j)
                BY <1>1, <1>8, <2>1, <3>1
            <4> QED
                BY <1>5, <2>1, <4>1, <4>2
        <3>2. CASE j = p
            <4>1. i \in 1..n
                BY <1>1, <2>1, <3>2
            <4>2. loc2(i) = loc(i) /\ loc2(j) = slot
                BY <1>1, <1>8, <2>1, <3>2
            <4> QED
                BY <1>7, <2>1, <3>2, <4>1, <4>2
        <3>3. CASE i = p
            <4>1. j - 1 \in 1..n /\ j - 1 >= p
                BY <1>1, <2>1, <3>3
            <4>2. loc2(i) = slot /\ loc2(j) = loc(j - 1)
                BY <1>1, <1>8, <2>1, <3>3
            <4>3. loc(j - 1) \in Nat
                BY <1>4, <4>1
            <4> QED
                BY <1>1, <1>7, <4>1, <4>2, <4>3
        <3>4. CASE i < p /\ p < j
            <4>1. i \in 1..n /\ j - 1 \in 1..n /\ j - 1 >= p
                BY <1>1, <3>4
            <4>2. loc2(i) = loc(i) /\ loc2(j) = loc(j - 1)
                BY <1>1, <1>8, <3>4
            <4>3. loc(i) > slot /\ loc(j - 1) < slot /\ loc(i) \in Nat /\ loc(j - 1) \in Nat
                BY <1>4, <1>7, <3>4, <4>1
            <4> QED
                BY <1>1, <4>2, <4>3
        <3>5. CASE p < i
            <4>1. i - 1 \in 1..n /\ j - 1 \in 1..n /\ i - 1 < j - 1
                BY <1>1, <2>1, <3>5
            <4>2. loc2(i) = loc(i - 1) /\ loc2(j) = loc(j - 1)
                BY <1>1, <1>8, <2>1, <3>5
            <4> QED
                BY <1>5, <4>1, <4>2
        <3> QED
            BY <1>1, <2>1, <3>1, <3>2, <3>3, <3>4, <3>5
    <2> QED
        BY <2>1
<1>10. Sorted'
    BY <1>12, <1>9 DEF Sorted, loc2
<1>11. Listed'
    <2>1. Len(open_upvalues') = n + 1
        BY <1>12
    <2>2. ASSUME NEW j \in 1..(n + 1)
          PROVE  open_upvalues'[j] \in Used' /\ location'[open_upvalues'[j]] # Closed
        <3>1. CASE j = p
            BY <1>1, <1>3, <1>6, <2>2, <3>1, LocationAssumption
        <3>2. CASE j < p
            <4>1. j \in 1..n /\ open_upvalues'[j] = open_upvalues[j]
                BY <1>1, <1>3, <2>2, <3>2
            <4> QED
                BY <1>4, <1>6, <4>1 DEF loc
        <3>3. CASE j > p
            <4>1. j - 1 \in 1..n /\ open_upvalues'[j] = open_upvalues[j - 1]
                BY <1>1, <1>3, <2>2, <3>3
            <4> QED
                BY <1>4, <1>6, <4>1 DEF loc
        <3> QED
            BY <1>1, <1>3, <2>2, <3>1, <3>2, <3>3
    <2>3. ASSUME NEW u \in Used', location'[u] # Closed
          PROVE  \E j \in 1..(n + 1) : open_upvalues'[j] = u
        <3>1. CASE u = new
            BY <1>1, <1>3, <3>1
        <3>2. CASE u \in Used
            <4>1. PICK j \in 1..n : open_upvalues[j] = u
                BY <1>6, <2>3, <3>2 DEF IInv, Listed, n
            <4>2. CASE j < p
                <5>1. j \in 1..(n + 1) /\ open_upvalues'[j] = u
                    BY <1>1, <1>3, <4>1, <4>2
                <5> QED
                    BY <5>1
            <4>3. CASE j >= p
                <5>1. j + 1 \in 1..(n + 1) /\ j + 1 > p /\ (j + 1) - 1 = j
                    BY <1>1, <4>3
                <5>2. open_upvalues'[j + 1] = u
                    BY <1>3, <4>1, <5>1
                <5> QED
                    BY <5>1, <5>2
            <4> QED
                BY <1>1, <4>2, <4>3
        <3> QED
            BY <1>6, <3>1, <3>2
    <2> QED
        BY <2>1, <2>2, <2>3 DEF Listed
<1> QED
    BY <1>10, <1>11

\* The place of a new upvalue in the list.
LEMMA EnterPlace ==
    ASSUME IInv, NEW slot \in Slot, NEW new \in Upvalue,
           FirstAt(slot) > 0 => location[open_upvalues[FirstAt(slot)]] # slot,
           open_upvalues' = IF FirstAt(slot) = 0 THEN Append(open_upvalues, new)
                            ELSE InsertAt(open_upvalues, FirstAt(slot), new)
    PROVE  /\ open_upvalues' \in Seq(Upvalue)
           /\ Len(open_upvalues') = Len(open_upvalues) + 1
           /\ \E p \in 1..(Len(open_upvalues) + 1) :
                /\ \A j \in 1..(Len(open_upvalues) + 1) :
                    open_upvalues'[j] = IF j < p THEN open_upvalues[j] ELSE IF j = p THEN new
                                        ELSE open_upvalues[j - 1]
                /\ \A j \in 1..Len(open_upvalues) :
                    /\ j < p => location[open_upvalues[j]] > slot
                    /\ j >= p => location[open_upvalues[j]] < slot
<1> DEFINE n == Len(open_upvalues)
           loc(j) == location[open_upvalues[j]]
           F == FirstAt(slot)
<1>1. n \in Nat /\ open_upvalues \in Seq(Upvalue) /\ slot \in Nat
    BY SizeAssumption DEF IInv, Types, Slot
<1>2. /\ F \in 0..n
      /\ F > 0 => loc(F) <= slot /\ loc(F) # slot
      /\ \A i \in 1..n : F = 0 \/ i < F => loc(i) > slot
    BY FirstAtProps DEF IInv
<1>3. \A j \in 1..n : loc(j) \in Nat
    BY SizeAssumption DEF IInv, Listed, Types, Slot, Used
<1>4. \A i, j \in 1..n : i < j => loc(i) > loc(j)
    BY DEF IInv, Sorted
<1> DEFINE p == Place(open_upvalues, F)
<1>5. open_upvalues' = Entered(open_upvalues, F, new)
    BY DEF Entered
<1>6. /\ p \in 1..(n + 1)
      /\ open_upvalues' \in Seq(Upvalue) /\ Len(open_upvalues') = n + 1
      /\ \A j \in 1..(n + 1) :
            open_upvalues'[j] = IF j < p THEN open_upvalues[j] ELSE IF j = p THEN new
                                ELSE open_upvalues[j - 1]
    <2>1. F \in 0..Len(open_upvalues) /\ open_upvalues \in Seq(Upvalue) /\ new \in Upvalue
        BY <1>1, <1>2
    <2> HIDE DEF F
    <2>2. /\ p \in 1..(n + 1)
          /\ Entered(open_upvalues, F, new) \in Seq(Upvalue)
          /\ Len(Entered(open_upvalues, F, new)) = n + 1
          /\ \A j \in 1..(n + 1) :
                Entered(open_upvalues, F, new)[j] =
                    IF j < p THEN open_upvalues[j] ELSE IF j = p THEN new
                    ELSE open_upvalues[j - 1]
        BY ONLY <2>1, EnterProps
    <2> QED
        BY ONLY <1>5, <2>2
<1> HIDE DEF loc, F
<1>7. \A j \in 1..n : (j < p => loc(j) > slot) /\ (j >= p => loc(j) < slot)
    <2>1. p = IF F = 0 THEN n + 1 ELSE F
        BY DEF Place
    <2> HIDE DEF n, p
    <2>2. ASSUME NEW j \in 1..n, j < p PROVE loc(j) > slot
        BY <1>1, <1>2, <2>1, <2>2
    <2>3. ASSUME NEW j \in 1..n, j >= p PROVE loc(j) < slot
        <3>1. p = F /\ p \in 1..n
            BY <1>1, <1>2, <1>6, <2>1, <2>3
        <3>2. loc(p) < slot
            BY <1>1, <1>2, <1>3, <3>1
        <3>3. j = p \/ loc(j) < loc(p)
            BY <1>1, <1>4, <2>3, <3>1
        <3> QED
            BY <1>1, <1>3, <3>1, <3>2, <3>3
    <2> QED
        BY <2>2, <2>3
<1> HIDE DEF p, n
<1>8. \A j \in 1..n :
        /\ j < p => location[open_upvalues[j]] > slot
        /\ j >= p => location[open_upvalues[j]] < slot
    BY <1>7 DEF loc
<1> QED
    BY ONLY <1>6, <1>8 DEF n

\* capture_upvalue makes an upvalue for the slot.
LEMMA CaptureFirstIInv ==
    ASSUME IInv, NEW i \in Slot, NEW new \in Upvalue, CaptureFirst(i, new)
    PROVE  IInv'
<1> DEFINE slot == Frame.slots + i
           k == Peek(0)
<1>1. frames # <<>> /\ capturing > 0 /\ new \in Upvalue \ Used
    BY CaptureAssumption DEF CaptureFirst, IInv, Framed, Types
<1>2. slot \in Slot /\ slot < stack_top /\ slot > 0
    BY <1>1, SlotOfLocal DEF CaptureFirst, IInv
<1>3. slotCell[slot] \in Cell /\ slotCell[slot] # Empty /\ slot \in 0..(stack_top - 1)
    <2>1. slot \in 0..(stack_top - 1)
        BY <1>2, SizeAssumption DEF Slot, IInv, Types
    <2> QED
        BY <2>1, CellAssumption DEF IInv, Celled
<1>4. /\ FirstAt(slot) > 0 => location[open_upvalues[FirstAt(slot)]] # slot
      /\ open_upvalues' = IF FirstAt(slot) = 0 THEN Append(open_upvalues, new)
                          ELSE InsertAt(open_upvalues, FirstAt(slot), new)
      /\ location' = [location EXCEPT ![new] = slot]
      /\ upvalueCell' = [upvalueCell EXCEPT ![new] = slotCell[slot]]
      /\ UNCHANGED <<stack, stack_top, frames, captured, made, errors, slotCell>>
      /\ Attach(new)
    BY DEF CaptureFirst
<1> HIDE DEF slot
<1>5. Used' = Used \cup {new}
    BY <1>1, <1>3, <1>4 DEF Used, IInv, Types
<1>6. open_upvalues' \in Seq(Upvalue) /\ Sorted' /\ Listed'
    <2>1. location'[new] = slot /\ \A u \in Used : location'[u] = location[u]
        BY <1>1, <1>4 DEF IInv, Types, Used
    <2> QED
        BY <1>1, <1>2, <1>4, <1>5, <2>1, EnterPlace, EnterSorted
<1>7. /\ Framed' /\ Constructing'
      /\ k \in made /\ capturing' \in 0..MaxCaptures
      /\ upvalues' \in [Closure \cup {Script} -> Seq(Upvalue)]
      /\ \A j \in Closure \cup {Script} : Len(upvalues'[j]) <= MaxCaptures
      /\ upvalues'[k] = Append(upvalues[k], new)
      /\ \A j \in Closure \cup {Script} : j # k => upvalues'[j] = upvalues[j]
    BY <1>1, <1>4, AttachProps
<1> HIDE DEF k
<1>8. Types'
    BY <1>1, <1>2, <1>3, <1>4, <1>6, <1>7 DEF IInv, Types
<1>9. Owned'
    <2>1. Owned /\ made \subseteq Closure /\ upvalues \in [Closure \cup {Script} -> Seq(Upvalue)]
        BY DEF IInv, Types
    <2> QED
        BY <1>1, <1>4, <1>5, <1>7, <2>1, AppendOwned
<1>10. Celled'
    BY <1>1, <1>2, <1>4, <1>5, LocationAssumption, SizeAssumption DEF IInv, Celled, Types, Slot, Used
<1>11. Distinct'
    <2> SUFFICES ASSUME errors = 0 PROVE Distinct'
        BY <1>4 DEF Distinct
    <2>1. \A u \in Used : location[u] # slot
        <3>1. ASSUME NEW u \in Used, location[u] = slot PROVE FALSE
            <4>1. location[u] # Closed
                BY <1>2, <3>1, LocationAssumption DEF Slot
            <4>2. PICK j \in 1..Len(open_upvalues) : open_upvalues[j] = u
                BY <4>1 DEF IInv, Listed
            <4>3. /\ FirstAt(slot) \in 0..Len(open_upvalues)
                  /\ FirstAt(slot) > 0 => location[open_upvalues[FirstAt(slot)]] <= slot
                  /\ FirstAt(slot) = 0 \/ j < FirstAt(slot) => location[open_upvalues[j]] > slot
                BY <1>2, FirstAtProps DEF IInv
            <4>4. slot \in Nat /\ Len(open_upvalues) \in Nat
                BY <1>2, SizeAssumption DEF Slot, IInv, Types
            <4>5. FirstAt(slot) # 0 /\ j > FirstAt(slot)
                BY <1>4, <3>1, <4>2, <4>3, <4>4
            <4>6. location[open_upvalues[FirstAt(slot)]] > location[open_upvalues[j]]
                BY <4>3, <4>4, <4>5 DEF IInv, Sorted
            <4>7. location[open_upvalues[FirstAt(slot)]] \in Nat
                BY <4>3, <4>4, <4>5, SizeAssumption DEF IInv, Listed, Types, Slot
            <4> QED
                BY <3>1, <4>2, <4>3, <4>4, <4>5, <4>6, <4>7
        <3> QED
            BY <3>1
    <2>2. \A u \in Used : location'[u] = location[u] /\ upvalueCell'[u] = upvalueCell[u]
        BY <1>1, <1>4 DEF IInv, Types, Used
    <2>3. location'[new] = slot /\ upvalueCell'[new] = slotCell[slot]
        BY <1>1, <1>4 DEF IInv, Types
    <2>4. \A s, t \in 0..(stack_top - 1) : slotCell[s] = slotCell[t] => s = t
        BY DEF IInv, Distinct
    <2>5. \A u, v \in Used' : upvalueCell'[u] = upvalueCell'[v] => u = v
        BY <1>3, <1>5, <2>1, <2>2, <2>3 DEF IInv, Distinct
    <2>6. \A u \in Used', s \in 0..(stack_top - 1) :
                upvalueCell'[u] = slotCell[s] <=> location'[u] = s
        BY <1>3, <1>5, <2>2, <2>3, <2>4 DEF IInv, Distinct
    <2>7. \A u \in Used' : location'[u] # Closed => location'[u] < stack_top
        BY <1>2, <1>5, <2>2, <2>3 DEF IInv, Distinct
    <2> QED
        BY <1>4, <2>4, <2>5, <2>6, <2>7 DEF Distinct
<1> QED
    BY <1>6, <1>7, <1>8, <1>9, <1>10, <1>11 DEF IInv

-----------------------------------------------------------------------------
\* Closing

\* What close_upvalues leaves: the open upvalues below the slot, and copies of the
\* variables of the others.
LEMMA ClosingProps ==
    ASSUME IInv, NEW slot \in Slot, CloseUpvalues(slot), Used' = Used
    PROVE  /\ open_upvalues' \in Seq(Upvalue)
           /\ location' \in [Upvalue -> Slot \cup {Closed}]
           /\ captured' \in [Upvalue -> Value \cup {Empty}]
           /\ \A u \in Used :
                IF location[u] # Closed /\ location[u] >= slot
                THEN location'[u] = Closed /\ captured'[u] = stack[location[u]]
                ELSE location'[u] = location[u] /\ captured'[u] = captured[u]
           /\ \A u \in Upvalue \ Used : location'[u] = location[u]
           /\ Sorted' /\ Listed'
<1> DEFINE n == Len(open_upvalues)
           at == FirstBelow(slot)
           rest == IF at = 0 THEN <<>> ELSE SubSeq(open_upvalues, at, n)
           closing == Range(open_upvalues) \ Range(rest)
<1>1. /\ open_upvalues' = rest
      /\ captured' = [u \in Upvalue |-> IF u \in closing THEN stack[location[u]] ELSE captured[u]]
      /\ location' = [u \in Upvalue |-> IF u \in closing THEN Closed ELSE location[u]]
    BY DEF CloseUpvalues
<1>2. /\ at \in 0..n /\ n \in Nat /\ slot \in Nat
      /\ open_upvalues \in Seq(Upvalue)
    BY FirstBelowProps, SizeAssumption DEF IInv, Types, Slot
<1>3. /\ at > 0 => location[open_upvalues[at]] < slot
      /\ \A i \in 1..n : at = 0 \/ i < at => location[open_upvalues[i]] >= slot
    BY FirstBelowProps DEF IInv
<1>4. \A i \in 1..n : /\ open_upvalues[i] \in Used
                      /\ location[open_upvalues[i]] \in Nat
                      /\ location[open_upvalues[i]] # Closed
    BY SizeAssumption DEF IInv, Listed, Types, Slot, Used
<1>5. \A i, j \in 1..n : i < j => location[open_upvalues[i]] > location[open_upvalues[j]]
    BY DEF IInv, Sorted
<1>6. \A i \in 1..n : at # 0 /\ i >= at => location[open_upvalues[i]] < slot
    <2>1. ASSUME NEW i \in 1..n, at # 0, i >= at PROVE location[open_upvalues[i]] < slot
        <3>1. at \in 1..n /\ at > 0
            BY <1>2, <2>1
        <3>2. i = at \/ location[open_upvalues[i]] < location[open_upvalues[at]]
            BY <1>2, <1>5, <2>1, <3>1
        <3> QED
            BY <1>2, <1>3, <1>4, <2>1, <3>1, <3>2
    <2> QED
        BY <2>1
<1> DEFINE m == IF at = 0 THEN 0 ELSE n + 1 - at
<1>7. /\ rest \in Seq(Upvalue) /\ Len(rest) = m /\ m \in Nat
      /\ \A j \in 1..m : at # 0 /\ at + j - 1 \in 1..n /\ rest[j] = open_upvalues[at + j - 1]
    <2>1. CASE at = 0
        BY <2>1
    <2>2. CASE at # 0
        <3>1. at \in 1..(n + 1)
            BY <1>2, <2>2
        <3>2. /\ SubSeq(open_upvalues, at, n) \in Seq(Upvalue)
              /\ Len(SubSeq(open_upvalues, at, n)) = n + 1 - at
              /\ \A j \in 1..(n + 1 - at) :
                    SubSeq(open_upvalues, at, n)[j] = open_upvalues[at + j - 1]
            BY <1>2, <3>1, SuffixProps
        <3>3. n + 1 - at \in Nat /\ \A j \in 1..(n + 1 - at) : at + j - 1 \in 1..n
            BY <1>2, <3>1
        <3> QED
            BY <2>2, <3>2, <3>3
    <2> QED
        BY <2>1, <2>2
<1> HIDE DEF rest
<1>8. \A i \in 1..n : at # 0 /\ i >= at => \E j \in 1..m : rest[j] = open_upvalues[i]
    <2>1. ASSUME NEW i \in 1..n, at # 0, i >= at
          PROVE  \E j \in 1..m : rest[j] = open_upvalues[i]
        <3>1. i - at + 1 \in 1..m /\ at + (i - at + 1) - 1 = i
            BY <1>2, <2>1
        <3>2. rest[i - at + 1] = open_upvalues[at + (i - at + 1) - 1]
            BY <1>7, <3>1
        <3> QED
            BY <3>1, <3>2
    <2> QED
        BY <2>1
<1>9. Range(rest) = { rest[j] : j \in 1..m } /\ Range(open_upvalues) = { open_upvalues[i] : i \in 1..n }
    BY <1>2, <1>7 DEF Range
<1>10. \A u \in Upvalue : u \in closing <=>
            u \in Used /\ location[u] # Closed /\ location[u] >= slot
    <2>1. ASSUME NEW u \in closing
          PROVE  u \in Used /\ location[u] # Closed /\ location[u] >= slot
        <3>1. PICK i \in 1..n : open_upvalues[i] = u
            BY <1>9, <2>1
        <3>2. at = 0 \/ i < at
            BY <1>2, <1>8, <1>9, <2>1, <3>1
        <3> QED
            BY <1>3, <1>4, <3>1, <3>2
    <2>2. ASSUME NEW u \in Used, location[u] # Closed, location[u] >= slot
          PROVE  u \in closing
        <3>1. PICK i \in 1..n : open_upvalues[i] = u
            BY <2>2 DEF IInv, Listed
        <3>2. ASSUME u \in Range(rest) PROVE FALSE
            <4>1. PICK j \in 1..m : rest[j] = u
                BY <1>9, <3>2
            <4>2. at # 0 /\ at + j - 1 \in 1..n /\ open_upvalues[at + j - 1] = u
                BY <1>7, <4>1
            <4>3. at + j - 1 >= at
                BY <1>2, <1>7, <4>1
            <4>4. location[u] < slot
                BY <1>6, <4>2, <4>3
            <4> QED
                BY <1>2, <1>4, <2>2, <3>1, <4>4
        <3> QED
            BY <1>9, <3>1, <3>2
    <2> QED
        BY <2>1, <2>2
<1> HIDE DEF closing
<1>11. \A u \in Upvalue : u \in closing => location[u] \in Slot
    BY <1>10 DEF IInv, Types
<1>12. location' \in [Upvalue -> Slot \cup {Closed}] /\ captured' \in [Upvalue -> Value \cup {Empty}]
    BY <1>1, <1>11 DEF IInv, Types
<1>13. \A u \in Used :
          IF location[u] # Closed /\ location[u] >= slot
          THEN location'[u] = Closed /\ captured'[u] = stack[location[u]]
          ELSE location'[u] = location[u] /\ captured'[u] = captured[u]
    BY <1>1, <1>10 DEF Used
<1>14. \A u \in Upvalue \ Used : location'[u] = location[u]
    BY <1>1, <1>10
<1>15. \A j \in 1..m : /\ rest[j] \in Used
                       /\ location'[rest[j]] = location[rest[j]]
                       /\ location[rest[j]] # Closed
    <2>1. ASSUME NEW j \in 1..m
          PROVE  rest[j] \in Used /\ location[rest[j]] \in Nat
                    /\ location[rest[j]] # Closed /\ location[rest[j]] < slot
        <3>1. at # 0 /\ at + j - 1 \in 1..n /\ rest[j] = open_upvalues[at + j - 1]
            BY <1>7
        <3>2. at + j - 1 >= at
            BY <1>2, <1>7
        <3> QED
            BY <1>4, <1>6, <3>1, <3>2
    <2> QED
        BY <1>2, <1>13, <2>1
<1>16. Sorted'
    <2>1. ASSUME NEW i \in 1..m, NEW j \in 1..m, i < j
          PROVE  location[rest[i]] > location[rest[j]]
        <3>1. at + i - 1 \in 1..n /\ at + j - 1 \in 1..n /\ at + i - 1 < at + j - 1
            BY <1>2, <1>7, <2>1
        <3> QED
            BY <1>5, <1>7, <3>1
    <2> QED
        BY <1>1, <1>7, <1>15, <2>1 DEF Sorted
<1>17. Listed'
    <2>1. ASSUME NEW u \in Used, location'[u] # Closed
          PROVE  \E j \in 1..m : rest[j] = u
        <3>1. location[u] # Closed /\ ~(location[u] >= slot)
            BY <1>13, <2>1
        <3>2. PICK i \in 1..n : open_upvalues[i] = u
            BY <3>1 DEF IInv, Listed
        <3>3. at # 0 /\ i >= at
            BY <1>2, <1>3, <3>1, <3>2
        <3> QED
            BY <1>8, <3>2, <3>3
    <2> QED
        BY <1>1, <1>7, <1>15, <2>1 DEF Listed
<1> QED
    BY <1>1, <1>7, <1>12, <1>13, <1>14, <1>16, <1>17

\* Variables that are closed before they go out of scope stay distinct.
LEMMA ClosingCells ==
    ASSUME IInv, NEW slot \in Slot, CloseUpvalues(slot),
           slot <= stack_top, UNCHANGED <<upvalueCell, slotCell, errors>>,
           stack_top' = slot
    PROVE  Celled' /\ Distinct'
<1>1. Used' = Used
    BY DEF Used
<1>2. \A u \in Used :
          IF location[u] # Closed /\ location[u] >= slot
          THEN location'[u] = Closed /\ captured'[u] = stack[location[u]]
          ELSE location'[u] = location[u] /\ captured'[u] = captured[u]
    BY <1>1, ClosingProps
<1>3. \A u \in Upvalue \ Used : location'[u] = location[u]
    BY <1>1, ClosingProps
<1>4. slot \in Nat /\ stack_top \in Nat /\ \A s \in 0..(slot - 1) : s \in 0..(stack_top - 1) /\ s < slot
    BY SizeAssumption DEF Slot, IInv, Types
<1>5. \A u \in Used : location[u] # Closed => location[u] \in Slot /\ location[u] \in Nat
    BY SizeAssumption DEF IInv, Types, Used, Slot
<1>6. 0 # Closed /\ \A s \in Nat : s # Closed
    BY LocationAssumption
<1>7. Celled'
    <2>1. \A s \in 0..(slot - 1) : slotCell[s] \in Cell
        BY <1>4 DEF IInv, Celled
    <2>2. \A u \in Used : location'[u] # 0
        BY <1>2, <1>6 DEF IInv, Celled
    <2>3. \A u \in Used : location'[u] = Closed => captured'[u] \in Value
        BY <1>2, <1>5 DEF IInv, Celled, Types
    <2>4. \A u \in Upvalue \ Used : location'[u] = Closed
        BY <1>3 DEF IInv, Celled
    <2> QED
        BY <1>1, <2>1, <2>2, <2>3, <2>4 DEF Celled
<1>8. Distinct'
    <2> SUFFICES ASSUME errors = 0 PROVE Distinct'
        BY DEF Distinct
    <2>1. \A s, t \in 0..(slot - 1) : slotCell[s] = slotCell[t] => s = t
        BY <1>4 DEF IInv, Distinct
    <2>2. \A u, v \in Used : upvalueCell[u] = upvalueCell[v] => u = v
        BY DEF IInv, Distinct
    <2>3. \A u \in Used, s \in 0..(slot - 1) : upvalueCell[u] = slotCell[s] <=> location'[u] = s
        <3>1. \A u \in Used, s \in 0..(slot - 1) : location'[u] = s <=> location[u] = s
            BY <1>2, <1>4, <1>5, <1>6
        <3> QED
            BY <1>4, <3>1 DEF IInv, Distinct
    <2>4. \A u \in Used : location'[u] # Closed => location'[u] < slot
        BY <1>2, <1>4, <1>5
    <2> QED
        BY <1>1, <2>1, <2>2, <2>3, <2>4 DEF Distinct
<1> QED
    BY <1>7, <1>8

\* OP_CLOSE_UPVALUE.
LEMMA CloseUpvalueIInv ==
    ASSUME IInv, CloseUpvalue
    PROVE  IInv'
<1> USE DEF CloseUpvalue, ghosts
<1>1. Framed' /\ stack_top' \in 0..StackSize /\ stack_top - 1 \in Slot
    BY PopFramed DEF Running
<1>2. Used' = Used
    BY DEF Used
<1>3. /\ open_upvalues' \in Seq(Upvalue)
      /\ location' \in [Upvalue -> Slot \cup {Closed}]
      /\ captured' \in [Upvalue -> Value \cup {Empty}]
      /\ Sorted' /\ Listed'
    BY <1>1, <1>2, ClosingProps
<1>4. Types'
    BY <1>1, <1>3 DEF IInv, Types
<1>5. Constructing' /\ Owned'
    BY <1>2 DEF IInv, Constructing, Owned, Running
<1>6. stack_top - 1 <= stack_top
    BY <1>1, SizeAssumption DEF Slot, IInv, Types
<1>7. Celled' /\ Distinct'
    BY <1>1, <1>6, ClosingCells
<1> QED
    BY <1>1, <1>3, <1>4, <1>5, <1>7 DEF IInv

-----------------------------------------------------------------------------
\* Calls and returns

\* OP_CALL enters a frame above the running one.
LEMMA CallIInv ==
    ASSUME IInv, NEW n \in Slot, Call(n)
    PROVE  IInv'
<1> USE DEF Call, ghosts
<1> DEFINE new == [closure |-> Peek(n), slots |-> stack_top - n - 1]
<1>1. frames # <<>> /\ n \in Nat /\ n + 1 < Height /\ Peek(n) \in made
    BY SizeAssumption DEF Running, Slot
<1>2. /\ Len(frames) \in Nat \ {0} /\ Frame = frames[Len(frames)]
      /\ Frame.slots \in Nat /\ stack_top \in Nat /\ Height = stack_top - Frame.slots
      /\ stack_top <= StackSize /\ StackSize \in Nat
    BY <1>1, FrameProps, SizeAssumption DEF IInv, Types, Slot
<1>3. stack_top - n - 1 \in Slot /\ stack_top - n - 1 > Frame.slots /\ stack_top - n - 1 < stack_top
    BY <1>1, <1>2 DEF Slot
<1>4. new \in [closure : Closure \cup {Script}, slots : Slot] /\ new.slots = stack_top - n - 1
        /\ new.closure \in made
    BY <1>1, <1>3 DEF IInv, Types
<1> HIDE DEF new
<1>5. /\ frames' = Append(frames, new) /\ Len(frames') = Len(frames) + 1
      /\ frames'[Len(frames) + 1] = new
      /\ \A i \in 1..Len(frames) : frames'[i] = frames[i]
    <2>1. frames \in Seq([closure : Closure \cup {Script}, slots : Slot])
        BY DEF IInv, Types
    <2> QED
        BY <2>1 DEF new
<1>6. Types'
    <2> DEFINE S == [closure : Closure \cup {Script}, slots : Slot]
    <2>1. frames \in Seq(S) /\ new \in S
        BY <1>4 DEF IInv, Types
    <2> HIDE DEF S
    <2>2. frames' \in Seq(S)
        BY <1>5, <2>1
    <2>3. Len(frames') <= FramesLimit
        BY <1>2, <1>5, SizeAssumption
    <2>4. frames' \in Seq([closure : Closure \cup {Script}, slots : Slot])
        BY <2>2 DEF S
    <2> QED
        BY <2>3, <2>4 DEF IInv, Types
<1>7. Framed'
    <2>1. \A i \in 1..Len(frames) : /\ frames[i].slots \in Nat
                                    /\ i = Len(frames) \/ frames[i].slots < Frame.slots
        BY <1>2, SlotsOfFrames DEF IInv, Framed
    <2>2. \A i \in 1..(Len(frames) + 1) : i \in 1..Len(frames) \/ i = Len(frames) + 1
        BY <1>2
    <2>3. \A i \in 1..(Len(frames) + 1) :
            frames'[i].slots < stack_top /\ frames'[i].closure \in made \cup {Script}
        BY <1>3, <1>4, <1>5, <2>2 DEF IInv, Framed
    <2>4. \A i \in 1..Len(frames) : frames[i].slots < stack_top - n - 1
        BY <1>2, <1>3, <1>1, <2>1
    <2>5. ASSUME NEW i \in 1..(Len(frames) + 1), NEW j \in 1..(Len(frames) + 1), i < j
          PROVE  frames'[i].slots < frames'[j].slots
        <3>1. i \in 1..Len(frames)
            BY <1>2, <2>5
        <3>2. CASE j = Len(frames) + 1
            BY <1>4, <1>5, <2>4, <3>1, <3>2
        <3>3. CASE j \in 1..Len(frames)
            BY <1>5, <2>5, <3>1, <3>3 DEF IInv, Framed
        <3> QED
            BY <2>2, <3>2, <3>3
    <2>6. frames' # <<>> /\ frames'[1].slots = 0
        BY <1>1, <1>2, <1>5 DEF IInv, Framed
    <2> QED
        BY <1>5, <2>3, <2>5, <2>6 DEF Framed
<1>8. Constructing' /\ Owned' /\ Celled' /\ Sorted' /\ Listed' /\ Distinct'
    BY DEF IInv, Constructing, Running, Owned, Celled, Sorted, Listed, Distinct, Used
<1> QED
    BY <1>6, <1>7, <1>8 DEF IInv

\* The call below the running one becomes the running one.
LEMMA FrontFramed ==
    ASSUME IInv, Len(frames) > 1, frames' = Front(frames), stack_top' = Frame.slots + 1,
           made' = made
    PROVE  /\ frames' \in Seq([closure : Closure \cup {Script}, slots : Slot])
           /\ Len(frames') <= FramesLimit
           /\ Framed'
<1> DEFINE S == [closure : Closure \cup {Script}, slots : Slot]
<1>1. frames \in Seq(S) /\ frames # <<>>
    BY DEF IInv, Types
<1>2. /\ Len(frames) \in Nat \ {0} /\ Frame = frames[Len(frames)] /\ Frame.slots \in Nat
    BY <1>1, FrameProps, SizeAssumption DEF IInv, Slot
<1> HIDE DEF S
<1>3. /\ frames' \in Seq(S)
      /\ Len(frames') = Len(frames) - 1
      /\ \A i \in 1..(Len(frames) - 1) : frames'[i] = frames[i]
    BY <1>1, FrontProps
<1>4. frames' \in Seq([closure : Closure \cup {Script}, slots : Slot])
    BY <1>3 DEF S
<1>5. Len(frames') <= FramesLimit
    BY <1>2, <1>3, SizeAssumption DEF IInv, Types
<1>6. Framed'
    <2>1. \A i \in 1..(Len(frames) - 1) : i \in 1..Len(frames) /\ i < Len(frames)
        BY <1>2
    <2>2. \A i \in 1..(Len(frames) - 1) : frames[i].slots \in Nat /\ frames[i].slots < Frame.slots
        BY <1>2, <2>1, SlotsOfFrames DEF IInv, Framed
    <2>3. \A i \in 1..(Len(frames) - 1) : frames'[i].slots < Frame.slots + 1
        BY <1>2, <1>3, <2>2
    <2>4. frames' # <<>> /\ frames'[1].slots = 0
        <3>1. 1 \in 1..(Len(frames) - 1) /\ Len(frames') > 0
            BY <1>2, <1>3
        <3> QED
            BY <1>1, <1>3, <3>1 DEF IInv, Framed
    <2> QED
        BY <1>3, <2>1, <2>3, <2>4 DEF IInv, Framed
<1> QED
    BY <1>4, <1>5, <1>6

\* OP_RETURN closes the variables of the call and leaves its frame.
LEMMA ReturnIInv ==
    ASSUME IInv, Return
    PROVE  IInv'
<1> DEFINE base == Frame.slots
<1>1. /\ Running /\ frames # <<>> /\ Len(frames) > 1 /\ CloseUpvalues(base)
      /\ stack' = [stack EXCEPT ![base] = Peek(0)]
      /\ stack_top' = base + 1
      /\ frames' = Front(frames)
      /\ slotCell' = [slotCell EXCEPT ![base] = NewCell(base)]
      /\ UNCHANGED <<upvalues, made, capturing, errors, upvalueCell>>
    BY DEF Return, Running
<1>2. Used' = Used
    BY <1>1 DEF Used
<1>3. base \in Slot /\ base \in Nat /\ base < stack_top /\ stack_top \in Nat
        /\ stack_top <= StackSize /\ StackSize \in Nat
    BY <1>1, FrameProps, SizeAssumption DEF IInv, Types, Slot
<1>4. /\ frames' \in Seq([closure : Closure \cup {Script}, slots : Slot])
      /\ Len(frames') <= FramesLimit
      /\ Framed'
    BY <1>1, FrontFramed
<1> HIDE DEF base
<1>5. /\ open_upvalues' \in Seq(Upvalue)
      /\ location' \in [Upvalue -> Slot \cup {Closed}]
      /\ captured' \in [Upvalue -> Value \cup {Empty}]
      /\ Sorted' /\ Listed'
    BY <1>1, <1>2, <1>3, ClosingProps
<1>6. /\ \A u \in Used :
            IF location[u] # Closed /\ location[u] >= base
            THEN location'[u] = Closed /\ captured'[u] = stack[location[u]]
            ELSE location'[u] = location[u] /\ captured'[u] = captured[u]
      /\ \A u \in Upvalue \ Used : location'[u] = location[u]
    BY <1>1, <1>2, <1>3, ClosingProps
<1>7. Peek(0) \in Value /\ NewCell(base) \in Cell \ CellsInUse(base)
    BY <1>1, <1>3, PeekType, NewCellIsNew DEF IInv
<1>8. Types'
    <2>1. stack' \in [Slot -> Value] /\ slotCell' \in [Slot -> Cell \cup {Empty}]
        BY <1>1, <1>3, <1>7 DEF IInv, Types
    <2>2. stack_top' \in 0..StackSize
        BY <1>1, <1>3
    <2> QED
        BY <1>1, <1>4, <1>5, <2>1, <2>2 DEF IInv, Types
<1>9. Constructing' /\ Owned'
    BY <1>1, <1>2 DEF IInv, Constructing, Owned, Running
<1>10. /\ slotCell'[base] \in Cell
       /\ \A s \in 0..(base - 1) :
            /\ s \in 0..(stack_top - 1) /\ s < base
            /\ slotCell'[s] = slotCell[s] /\ slotCell[s] # slotCell'[base]
       /\ \A u \in Used : upvalueCell[u] # slotCell'[base]
    <2>1. slotCell'[base] = NewCell(base)
        BY <1>1, <1>3 DEF IInv, Types
    <2>2. \A s \in 0..(base - 1) : s \in 0..(stack_top - 1) /\ s < base /\ s \in Slot /\ s # base
        BY <1>3 DEF Slot
    <2>3. \A s \in 0..(base - 1) : slotCell'[s] = slotCell[s]
        BY <1>1, <2>2 DEF IInv, Types
    <2> QED
        BY <1>7, <2>1, <2>2, <2>3 DEF CellsInUse
<1>11. \A s \in 0..base : s = base \/ s \in 0..(base - 1)
    BY <1>3
<1>12. \A u \in Used : location[u] # Closed => location[u] \in Slot /\ location[u] \in Nat
    BY SizeAssumption DEF IInv, Types, Used, Slot
<1>13. 0 # Closed /\ base # Closed /\ \A s \in 0..(base - 1) : s # Closed /\ s \in Nat
    BY <1>3, LocationAssumption
<1>14. /\ 0..(stack_top' - 1) = 0..base /\ stack_top' = base + 1
       /\ errors' = errors /\ upvalueCell' = upvalueCell
    BY <1>1, <1>3
<1>15. Celled'
    <2>1. \A s \in 0..base : slotCell'[s] \in Cell
        BY <1>10, <1>11 DEF IInv, Celled
    <2>2. \A u \in Used : location'[u] # 0
        BY <1>6, <1>13 DEF IInv, Celled
    <2>3. \A u \in Used : location'[u] = Closed => captured'[u] \in Value
        BY <1>6, <1>12 DEF IInv, Celled, Types
    <2>4. \A u \in Upvalue \ Used : location'[u] = Closed
        BY <1>6 DEF IInv, Celled
    <2> QED
        BY ONLY <1>2, <1>14, <2>1, <2>2, <2>3, <2>4 DEF Celled
<1>16. Distinct'
    <2> SUFFICES ASSUME errors = 0 PROVE Distinct'
        BY <1>1 DEF Distinct
    <2>1. \A s, t \in 0..base : slotCell'[s] = slotCell'[t] => s = t
        BY <1>10, <1>11 DEF IInv, Distinct
    <2>2. \A u, v \in Used : upvalueCell[u] = upvalueCell[v] => u = v
        BY DEF IInv, Distinct
    <2>3. \A u \in Used, s \in 0..base :
            upvalueCell[u] = slotCell'[s] <=> location'[u] = s
        <3>1. \A u \in Used, s \in 0..(base - 1) : location'[u] = s <=> location[u] = s
            BY <1>6, <1>10, <1>12, <1>13, <1>3
        <3>2. \A u \in Used : location'[u] # base
            BY <1>6, <1>12, <1>13, <1>3
        <3> QED
            BY <1>10, <1>11, <3>1, <3>2 DEF IInv, Distinct
    <2>4. \A u \in Used : location'[u] # Closed => location'[u] < base + 1
        BY <1>6, <1>3, <1>12
    <2> QED
        BY ONLY <1>2, <1>14, <2>1, <2>2, <2>3, <2>4 DEF Distinct
<1> QED
    BY <1>4, <1>5, <1>8, <1>9, <1>15, <1>16 DEF IInv

\* The stack is emptied.
LEMMA ResetIInv ==
    ASSUME IInv, capturing = 0, ResetStack, errors' \in 0..MaxErrors,
           errors' = 0 => errors = 0 /\ \A u \in Used : location[u] = Closed,
           UNCHANGED <<stack, open_upvalues, location, captured, upvalues, made,
                       capturing, ghosts>>
    PROVE  IInv'
<1> USE DEF ResetStack, ghosts
<1>1. Used' = Used
    BY DEF Used
<1>2. stack_top' = 0 /\ frames' = <<>> /\ 0..(stack_top' - 1) = {}
    OBVIOUS
<1>3. Types'
    <2>1. 0 \in 0..StackSize /\ Len(<<>>) <= FramesLimit
        BY SizeAssumption
    <2>2. frames' \in Seq([closure : Closure \cup {Script}, slots : Slot])
        BY <1>2
    <2> QED
        BY <1>2, <2>1, <2>2 DEF IInv, Types
<1>4. Framed' /\ Constructing'
    BY <1>2 DEF IInv, Framed, Constructing
<1>5. Owned' /\ Sorted' /\ Listed'
    BY <1>1 DEF IInv, Owned, Sorted, Listed
<1>6. Celled' /\ Distinct'
    BY <1>1, <1>2 DEF IInv, Celled, Distinct
<1> QED
    BY <1>3, <1>4, <1>5, <1>6 DEF IInv

\* At the end of top-level code that met no error, nothing is left to close.
LEMMA NothingOpenAtExit ==
    ASSUME IInv, Exit, errors = 0
    PROVE  stack_top = 1 /\ \A u \in Used : location[u] = Closed
<1>1. frames # <<>> /\ Len(frames) = 1 /\ Height = 1
    BY DEF Exit, Running
<1>2. Frame = frames[1] /\ Frame.slots = 0 /\ stack_top \in Nat /\ Height = stack_top - Frame.slots
    BY <1>1, FrameProps DEF IInv, Framed
<1>3. stack_top = 1
    BY <1>1, <1>2
<1>4. ASSUME NEW u \in Used, location[u] # Closed PROVE FALSE
    <2>1. location[u] \in Nat /\ location[u] < 1 /\ location[u] # 0
        BY <1>3, <1>4, SizeAssumption DEF IInv, Types, Slot, Used, Distinct, Celled
    <2> QED
        BY <2>1
<1> QED
    BY <1>3, <1>4

\* OP_EXIT.
LEMMA ExitIInv ==
    ASSUME IInv, Exit
    PROVE  IInv'
<1>1. capturing = 0 /\ errors' = errors /\ errors \in 0..MaxErrors
    BY DEF Exit, Running, IInv, Types
<1> QED
    BY <1>1, NothingOpenAtExit, ResetIInv DEF Exit

\* runtime_error() empties the stack and leaves the open upvalues as they are.
LEMMA RuntimeErrorIInv ==
    ASSUME IInv, RuntimeError
    PROVE  IInv'
<1>1. capturing = 0 /\ errors' \in 0..MaxErrors /\ errors' # 0
    BY CaptureAssumption DEF RuntimeError, Running, IInv, Types
<1> QED
    BY <1>1, ResetIInv DEF RuntimeError

-----------------------------------------------------------------------------
\* The inductive invariant, and what it implies

\* Every step preserves the invariant.
LEMMA NextIInv ==
    ASSUME IInv, [Next]_vars
    PROVE  IInv'
<1>1. CASE UNCHANGED vars
    <2>1. Used' = Used
        BY <1>1 DEF vars, Used
    <2>2. Types' /\ Framed' /\ Constructing' /\ Owned'
        BY <1>1, <2>1 DEF vars, IInv, Types, Framed, Constructing, Owned, Height, Frame, Peek
    <2>3. Celled' /\ Sorted' /\ Listed' /\ Distinct'
        BY <1>1, <2>1 DEF vars, IInv, Celled, Sorted, Listed, Distinct
    <2> QED
        BY <2>2, <2>3 DEF IInv
<1>2. CASE Interpret
    BY <1>2, InterpretIInv
<1>3. ASSUME NEW v \in Plain \cup made, Push(v) PROVE IInv'
    BY <1>3, PushIInv
<1>4. CASE Pop
    BY <1>4, PopIInv
<1>5. ASSUME NEW i \in Slot, GetLocal(i) \/ SetLocal(i) PROVE IInv'
    BY <1>5, GetLocalIInv, SetLocalIInv
<1>6. ASSUME NEW i \in 1..MaxCaptures, GetUpvalue(i) \/ SetUpvalue(i) PROVE IInv'
    BY <1>6, GetUpvalueIInv, SetUpvalueIInv
<1>7. ASSUME NEW k \in Closure, NEW n \in 0..MaxCaptures, MakeClosure(k, n) PROVE IInv'
    BY <1>7, MakeClosureIInv
<1>8. ASSUME NEW i \in Slot, CaptureAgain(i) PROVE IInv'
    BY <1>8, CaptureAgainIInv
<1>9. ASSUME NEW i \in Slot, NEW u \in Upvalue, CaptureFirst(i, u) PROVE IInv'
    BY <1>9, CaptureFirstIInv
<1>10. ASSUME NEW i \in 1..MaxCaptures, CaptureEnclosing(i) PROVE IInv'
    BY <1>10, CaptureEnclosingIInv
<1>11. CASE CloseUpvalue
    BY <1>11, CloseUpvalueIInv
<1>12. ASSUME NEW n \in Slot, Call(n) PROVE IInv'
    BY <1>12, CallIInv
<1>13. CASE Return
    BY <1>13, ReturnIInv
<1>14. CASE Exit
    BY <1>14, ExitIInv
<1>15. CASE RuntimeError
    BY <1>15, RuntimeErrorIInv
<1> QED
    BY <1>1, <1>2, <1>3, <1>4, <1>5, <1>6, <1>7, <1>8, <1>9, <1>10, <1>11, <1>12,
       <1>13, <1>14, <1>15 DEF Next

\* The inductive invariant holds in every state.
LEMMA IInvHolds == Spec => []IInv
BY InitIInv, NextIInv, PTL DEF Spec

\* A slot has one open upvalue at most, so that the list is no longer than there
\* are upvalues.
LEMMA ListIsShort ==
    ASSUME IInv
    PROVE  Len(open_upvalues) <= Cardinality(Upvalue)
<1> DEFINE n == Len(open_upvalues)
<1>1. n \in Nat /\ open_upvalues \in Seq(Upvalue)
    BY DEF IInv, Types
<1>2. IsFiniteSet(1..n) /\ Cardinality(1..n) = n
    BY <1>1, FS_Interval
<1>3. \A i, j \in 1..n : open_upvalues[i] = open_upvalues[j] => i = j
    <2>1. \A i \in 1..n : location[open_upvalues[i]] \in Nat
        BY SizeAssumption DEF IInv, Listed, Types, Slot, Used
    <2>2. \A i, j \in 1..n : i < j => location[open_upvalues[i]] > location[open_upvalues[j]]
        BY DEF IInv, Sorted
    <2> HIDE DEF n
    <2>3. \A i, j \in 1..n : i < j \/ j < i \/ i = j
        BY <1>1
    <2>4. \A i, j \in 1..n : i < j => open_upvalues[i] # open_upvalues[j]
        BY <2>1, <2>2
    <2> QED
        BY <2>3, <2>4
<1> DEFINE f == [i \in 1..n |-> open_upvalues[i]]
<1>4. f \in Injection(1..n, Upvalue)
    BY <1>1, <1>3 DEF Injection, IsInjective
<1> HIDE DEF n, f
<1>5. Cardinality(1..n) <= Cardinality(Upvalue)
    BY <1>2, <1>4, CellAssumption, FS_Injection
<1> QED
    BY <1>2, <1>5 DEF n

\* For every size of the stack, of the call frames and of the upvalue arrays, and
\* any number of closures: every variable of the machine has its type.
THEOREM TypesCorrect == Spec => []TypeOK
<1>1. ASSUME IInv PROVE TypeOK
    <2> DEFINE S == [closure : Closure \cup {Script}, slots : Slot]
    <2>1. frames \in Seq(S) /\ Len(frames) <= FramesLimit
        BY <1>1 DEF IInv, Types
    <2> HIDE DEF S
    <2>2. frames \in BoundedSeq(S, FramesLimit)
        BY <2>1, BoundedSeqProps, SizeAssumption
    <2>3. open_upvalues \in BoundedSeq(Upvalue, Cardinality(Upvalue))
        <3>1. Cardinality(Upvalue) \in Nat /\ open_upvalues \in Seq(Upvalue)
            BY <1>1, CellAssumption, FS_CardinalityType DEF IInv, Types
        <3> QED
            BY <1>1, <3>1, ListIsShort, BoundedSeqProps
    <2>4. upvalues \in [Closure \cup {Script} -> BoundedSeq(Upvalue, MaxCaptures)]
        <3>1. \A k \in Closure \cup {Script} : upvalues[k] \in BoundedSeq(Upvalue, MaxCaptures)
            <4>1. ASSUME NEW k \in Closure \cup {Script}
                  PROVE  upvalues[k] \in BoundedSeq(Upvalue, MaxCaptures)
                <5>1. upvalues[k] \in Seq(Upvalue) /\ Len(upvalues[k]) <= MaxCaptures
                    BY <1>1 DEF IInv, Types
                <5> QED
                    BY <5>1, BoundedSeqProps, CaptureAssumption
            <4> QED
                BY <4>1
        <3>2. upvalues \in [Closure \cup {Script} -> Seq(Upvalue)]
            BY <1>1 DEF IInv, Types
        <3> QED
            BY <3>1, <3>2
    <2>5. frames \in BoundedSeq([closure : Closure \cup {Script}, slots : Slot], FramesLimit)
        BY <2>2 DEF S
    <2> QED
        BY <1>1, <2>3, <2>4, <2>5 DEF IInv, Types, TypeOK
<1> QED
    BY <1>1, IInvHolds, PTL

\* The list of open upvalues is strictly descending and complete, which is what
\* lets the loops of capture_upvalue and close_upvalues stop early; after run-time
\* errors too, which reset the stack and leave the list as it is.
THEOREM OpenListStaysSorted == Spec => []OpenListSorted
<1>1. ASSUME IInv PROVE OpenListSorted
    <2>1. open_upvalues \in Seq(Upvalue) /\ DOMAIN open_upvalues = 1..Len(open_upvalues)
        BY <1>1 DEF IInv, Types
    <2>2. Range(open_upvalues) = { u \in Used : location[u] # Closed }
        BY <1>1, <2>1 DEF IInv, Listed, Range
    <2> QED
        BY <1>1, <2>1, <2>2 DEF IInv, Sorted, OpenListSorted
<1> QED
    BY <1>1, IInvHolds, PTL

\* Before the first run-time error, an open upvalue refers to the variable it was
\* made for.  (After one, the slot it points to may have become another variable.)
THEOREM UpvaluesKeepTheirVariables ==
    Spec => [](errors = 0 => UpvalueKeepsItsVariable)
<1>1. ASSUME IInv, errors = 0 PROVE UpvalueKeepsItsVariable
    <2>1. ASSUME NEW u \in Range(open_upvalues), location[u] < stack_top
          PROVE  slotCell[location[u]] = upvalueCell[u]
        <3>1. PICK i \in 1..Len(open_upvalues) : open_upvalues[i] = u
            BY <1>1, <2>1 DEF IInv, Types, Range
        <3>2. u \in Used /\ location[u] # Closed
            BY <1>1, <3>1 DEF IInv, Listed
        <3>3. location[u] \in Nat /\ stack_top \in Nat
            BY <1>1, <3>2, SizeAssumption DEF IInv, Types, Slot, Used
        <3>4. location[u] \in 0..(stack_top - 1)
            BY <2>1, <3>3
        <3> QED
            BY <1>1, <3>2, <3>4 DEF IInv, Distinct
    <2> QED
        BY <2>1 DEF UpvalueKeepsItsVariable
<1> QED
    BY <1>1, IInvHolds, PTL

-----------------------------------------------------------------------------
\* The refinement of Variables: one lemma on what the mapped store holds, and
\* one per action of the machine.  First, the mapped state

\* The mapped scope is the variables of the slots in use.
LEMMA ScopeProps ==
    IInv => /\ scopeBar \in Seq(Cell) /\ Len(scopeBar) = stack_top /\ stack_top \in Nat
            /\ \A i \in 1..stack_top : scopeBar[i] = slotCell[i - 1]
            /\ Range(scopeBar) = { slotCell[s] : s \in 0..(stack_top - 1) }
<1> SUFFICES ASSUME IInv
             PROVE  /\ scopeBar \in Seq(Cell) /\ Len(scopeBar) = stack_top /\ stack_top \in Nat
                    /\ \A i \in 1..stack_top : scopeBar[i] = slotCell[i - 1]
                    /\ Range(scopeBar) = { slotCell[s] : s \in 0..(stack_top - 1) }
    OBVIOUS
<1>1. stack_top \in Nat
    BY SizeAssumption DEF IInv, Types
<1>2. \A i \in 1..stack_top : i - 1 \in 0..(stack_top - 1)
    BY <1>1
<1>3. \A i \in 1..stack_top : slotCell[i - 1] \in Cell
    BY <1>2 DEF IInv, Celled
<1>4. scopeBar \in [1..stack_top -> Cell]
    BY <1>3 DEF scopeBar
<1>5. scopeBar \in Seq(Cell) /\ Len(scopeBar) = stack_top
    BY <1>1, <1>4
<1>6. \A i \in 1..stack_top : scopeBar[i] = slotCell[i - 1]
    BY DEF scopeBar
<1>7. \A s \in 0..(stack_top - 1) : s + 1 \in 1..stack_top /\ (s + 1) - 1 = s
    BY <1>1
<1>8. Range(scopeBar) = { slotCell[s] : s \in 0..(stack_top - 1) }
    <2>1. Range(scopeBar) = { scopeBar[i] : i \in 1..stack_top }
        BY <1>1, <1>4 DEF Range
    <2>2. ASSUME NEW s \in 0..(stack_top - 1) PROVE slotCell[s] = scopeBar[s + 1]
        BY <1>6, <1>7
    <2> QED
        BY <1>2, <1>6, <1>7, <2>1, <2>2
<1> QED
    BY <1>1, <1>5, <1>6, <1>8

\* The scope after a step.
LEMMA NextScope ==
    ASSUME IInv, Next
    PROVE  /\ scopeBar' \in Seq(Cell) /\ Len(scopeBar') = stack_top' /\ stack_top' \in Nat
           /\ \A i \in 1..stack_top' : scopeBar'[i] = slotCell'[i - 1]
<1>1. IInv'
    BY NextIInv
<1>2. IInv' => /\ (scopeBar \in Seq(Cell))' /\ (Len(scopeBar) = stack_top)' /\ (stack_top \in Nat)'
               /\ (\A i \in 1..stack_top : scopeBar[i] = slotCell[i - 1])'
               /\ (Range(scopeBar) = { slotCell[s] : s \in 0..(stack_top - 1) })'
    BY ScopeProps, PTL
<1> QED
    BY <1>1, <1>2

\* What a closure shares is the variables of its upvalues.
LEMMA EnvProps ==
    ASSUME IInv, NEW k \in Closure \cup {Script}
    PROVE  /\ envBar[k] \in Seq(Cell) /\ Len(envBar[k]) = Len(upvalues[k])
           /\ DOMAIN envBar[k] = 1..Len(upvalues[k])
           /\ \A i \in 1..Len(upvalues[k]) :
                upvalues[k][i] \in Used /\ envBar[k][i] = upvalueCell[upvalues[k][i]]
<1>1. upvalues[k] \in Seq(Upvalue) /\ DOMAIN upvalues[k] = 1..Len(upvalues[k])
        /\ Len(upvalues[k]) \in Nat
    BY DEF IInv, Types
<1>2. \A i \in 1..Len(upvalues[k]) : upvalues[k][i] \in Used
    <2>1. CASE k \in made
        BY <2>1 DEF IInv, Owned
    <2>2. CASE k \notin made
        <3>1. upvalues[k] = <<>>
            BY <2>2 DEF IInv, Owned
        <3> QED
            BY <3>1
    <2> QED
        BY <2>1, <2>2
<1>3. \A u \in Used : upvalueCell[u] \in Cell
    BY DEF IInv, Types, Used
<1>4. envBar[k] = [i \in 1..Len(upvalues[k]) |-> upvalueCell[upvalues[k][i]]]
    BY <1>1 DEF envBar
<1>5. envBar[k] \in [1..Len(upvalues[k]) -> Cell]
    BY <1>2, <1>3, <1>4
<1> QED
    BY <1>1, <1>2, <1>4, <1>5

\* The names taken by the variables in scope and those that closures share.
VariablesInUse == CellsInUse(stack_top)

\* The variables that closures share, and all that exist, are those the machine
\* has upvalues and slots for.
LEMMA CapturedProps ==
    ASSUME IInv
    PROVE  /\ Abstract!Captured = { upvalueCell[u] : u \in Used }
           /\ Abstract!InUse = VariablesInUse
<1>1. made \subseteq Closure \cup {Script}
    BY DEF IInv, Types
<1>2. \A k \in made : Range(envBar[k]) = { upvalueCell[upvalues[k][i]] : i \in 1..Len(upvalues[k]) }
    <2>1. ASSUME NEW k \in made
          PROVE  Range(envBar[k]) = { upvalueCell[upvalues[k][i]] : i \in 1..Len(upvalues[k]) }
        <3>1. /\ DOMAIN envBar[k] = 1..Len(upvalues[k])
              /\ \A i \in 1..Len(upvalues[k]) : envBar[k][i] = upvalueCell[upvalues[k][i]]
            BY <1>1, EnvProps
        <3> QED
            BY <3>1 DEF Range
    <2> QED
        BY <2>1
<1>3. UNION { Range(envBar[k]) : k \in made } = { upvalueCell[u] : u \in Used }
    <2>1. ASSUME NEW k \in made, NEW c \in Range(envBar[k])
          PROVE  \E u \in Used : c = upvalueCell[u]
        <3>1. PICK i \in 1..Len(upvalues[k]) : c = upvalueCell[upvalues[k][i]]
            BY <1>2, <2>1
        <3>2. upvalues[k][i] \in Used
            BY <1>1, EnvProps
        <3> QED
            BY <3>1, <3>2
    <2>2. ASSUME NEW u \in Used
          PROVE  \E k \in made : upvalueCell[u] \in Range(envBar[k])
        <3>1. PICK k \in made : \E i \in 1..Len(upvalues[k]) : upvalues[k][i] = u
            BY DEF IInv, Owned
        <3> QED
            BY <1>2, <3>1
    <2> QED
        BY <2>1, <2>2
<1>4. Abstract!Captured = { upvalueCell[u] : u \in Used }
    BY <1>3 DEF Abstract!Captured, Abstract!Range, Range
<1>5. Abstract!InUse = VariablesInUse
    BY <1>3, ScopeProps DEF Abstract!InUse, VariablesInUse, CellsInUse, Abstract!Range, Range
<1> QED
    BY <1>4, <1>5

\* What the mapped store holds, before the first error: the value of every slot in
\* use, the value of every upvalue, and nothing else.
Holds(f) ==
    /\ f = [c \in Cell |-> f[c]]
    /\ \A s \in 0..(stack_top - 1) : f[slotCell[s]] = stack[s]
    /\ \A u \in Used : f[upvalueCell[u]] = Deref(u)
    /\ \A c \in Cell \ VariablesInUse : f[c] = Empty

\* Before the first error the mapped store is well defined: a variable that has a
\* slot and an upvalue has one value.
LEMMA StoreProps ==
    IInv /\ errors = 0 => Holds(storeBar)
<1> SUFFICES ASSUME IInv, errors = 0 PROVE Holds(storeBar)
    OBVIOUS
<1> DEFINE S == 0..(stack_top - 1)
<1>0. /\ \A s, t \in S : slotCell[s] = slotCell[t] => s = t
      /\ \A u, v \in Used : upvalueCell[u] = upvalueCell[v] => u = v
      /\ \A u \in Used, s \in S : upvalueCell[u] = slotCell[s] <=> location[u] = s
      /\ \A s \in S : slotCell[s] \in Cell
      /\ \A u \in Used : upvalueCell[u] \in Cell
    BY DEF IInv, Distinct, Celled, Types, Used
<1>1. \A c \in Cell :
        storeBar[c] = IF \E s \in S : slotCell[s] = c
                      THEN stack[CHOOSE s \in S : slotCell[s] = c]
                      ELSE IF \E u \in Used : upvalueCell[u] = c
                      THEN Deref(CHOOSE u \in Used : upvalueCell[u] = c)
                      ELSE Empty
    BY DEF storeBar
<1>2. storeBar = [c \in Cell |-> storeBar[c]]
    BY DEF storeBar
<1>3. ASSUME NEW s \in S PROVE storeBar[slotCell[s]] = stack[s]
    <2>1. (CHOOSE t \in S : slotCell[t] = slotCell[s]) = s
        BY <1>0, <1>3
    <2>2. slotCell[s] \in Cell /\ \E t \in S : slotCell[t] = slotCell[s]
        BY <1>0, <1>3
    <2>3. storeBar[slotCell[s]] = stack[CHOOSE t \in S : slotCell[t] = slotCell[s]]
        BY <1>1, <2>2
    <2> QED
        BY <2>1, <2>3
<1>4. ASSUME NEW u \in Used PROVE storeBar[upvalueCell[u]] = Deref(u)
    <2>1. CASE \E s \in S : slotCell[s] = upvalueCell[u]
        <3>1. PICK s \in S : slotCell[s] = upvalueCell[u]
            BY <2>1
        <3>2. location[u] = s
            BY <1>0, <3>1
        <3>3. location[u] # Closed
            BY <3>2, LocationAssumption, SizeAssumption DEF IInv, Types
        <3> QED
            BY <1>3, <3>1, <3>2, <3>3 DEF Deref
    <2>2. CASE ~ \E s \in S : slotCell[s] = upvalueCell[u]
        <3>1. (CHOOSE v \in Used : upvalueCell[v] = upvalueCell[u]) = u
            BY <1>0
        <3> QED
            BY <1>0, <1>1, <2>2, <3>1
    <2> QED
        BY <2>1, <2>2
<1>5. ASSUME NEW c \in Cell \ VariablesInUse PROVE storeBar[c] = Empty
    BY <1>1 DEF VariablesInUse, CellsInUse
<1> QED
    BY <1>2, <1>3, <1>4, <1>5 DEF Holds

\* What the mapped store is after a step.
LEMMA NextStore ==
    ASSUME IInv, Next, errors' = 0, NEW f, f = [c \in Cell |-> f[c]],
           \A s \in 0..(stack_top' - 1) : f[slotCell'[s]] = stack'[s],
           \A u \in Used' : f[upvalueCell'[u]] = Deref(u)',
           \A c \in Cell \ VariablesInUse' : f[c] = Empty
    PROVE  storeBar' = f
<1>1. IInv'
    BY NextIInv
<1>2. IInv' /\ (errors = 0)' => Holds(storeBar)'
    BY StoreProps, PTL
<1>3. Holds(storeBar)'
    BY <1>1, <1>2
<1>4. storeBar' = [c \in Cell |-> storeBar'[c]]
    BY <1>3 DEF Holds
<1>5. ASSUME NEW c \in Cell PROVE f[c] = storeBar'[c]
    <2>1. CASE c \in VariablesInUse'
        BY <1>3, <2>1 DEF Holds, VariablesInUse, CellsInUse
    <2>2. CASE c \notin VariablesInUse'
        BY <1>3, <2>2 DEF Holds
    <2> QED
        BY <2>1, <2>2
<1> QED
    BY <1>4, <1>5

-----------------------------------------------------------------------------
\* The steps

\* A push declares a variable.
LEMMA PushingStep ==
    ASSUME IInv, Next, errors = 0, errors' = 0, NEW v \in Value, PushOn(stack_top, v),
           UNCHANGED <<location, captured, upvalueCell>>
    PROVE  Abstract!PushNew(scopeBar, v)
<1> DEFINE c == slotCell'[stack_top]
<1>1. /\ stack_top \in Slot /\ stack_top \in Nat /\ stack_top' = stack_top + 1
      /\ stack'[stack_top] = v
      /\ \A s \in Slot : s # stack_top => stack'[s] = stack[s] /\ slotCell'[s] = slotCell[s]
      /\ c \in Cell \ VariablesInUse
    BY PushOnProps, SizeAssumption DEF Slot, VariablesInUse
<1>2. \A s \in 0..(stack_top - 1) : s \in Slot /\ s # stack_top
    BY <1>1, SizeAssumption DEF Slot
<1>3. \A s \in 0..(stack_top' - 1) : s \in 0..(stack_top - 1) \/ s = stack_top
    BY <1>1
<1> HIDE DEF c
<1>4. scopeBar' = Append(scopeBar, c)
    <2>1. /\ scopeBar \in Seq(Cell) /\ Len(scopeBar) = stack_top
          /\ scopeBar' \in Seq(Cell) /\ Len(scopeBar') = stack_top + 1
        BY <1>1, ScopeProps, NextScope
    <2>2. Append(scopeBar, c) \in Seq(Cell) /\ Len(Append(scopeBar, c)) = stack_top + 1
        BY <1>1, <2>1
    <2>3. ASSUME NEW i \in 1..(stack_top + 1) PROVE scopeBar'[i] = Append(scopeBar, c)[i]
        <3>1. scopeBar'[i] = slotCell'[i - 1]
            BY <1>1, <2>3, NextScope
        <3>2. CASE i = stack_top + 1
            <4>1. Append(scopeBar, c)[i] = c /\ i - 1 = stack_top
                BY <1>1, <2>1, <3>2
            <4> QED
                BY <3>1, <4>1 DEF c
        <3>3. CASE i \in 1..stack_top
            <4>1. Append(scopeBar, c)[i] = scopeBar[i] /\ i - 1 \in 0..(stack_top - 1)
                BY <1>1, <2>1, <3>3
            <4> QED
                BY <1>1, <1>2, <3>1, <3>3, <4>1, ScopeProps
        <3>4. i = stack_top + 1 \/ i \in 1..stack_top
            BY <1>1, <2>3
        <3> QED
            BY <3>2, <3>3, <3>4
    <2> QED
        BY <2>1, <2>2, <2>3, SeqEqual
<1>5. storeBar' = [storeBar EXCEPT ![c] = v]
    <2> DEFINE f == [storeBar EXCEPT ![c] = v]
    <2>1. Holds(storeBar) /\ Used' = Used
        BY StoreProps DEF Used
    <2>2. f = [d \in Cell |-> f[d]] /\ f[c] = v /\ \A d \in Cell : d # c => f[d] = storeBar[d]
        BY <1>1, <2>1 DEF Holds
    <2> HIDE DEF f
    <2>3. \A s \in 0..(stack_top - 1) : slotCell[s] \in Cell /\ slotCell[s] # c
        BY <1>1 DEF IInv, Celled, VariablesInUse, CellsInUse
    <2>4. \A u \in Used : upvalueCell[u] \in Cell /\ upvalueCell[u] # c
        BY <1>1 DEF IInv, Types, Used, VariablesInUse, CellsInUse
    <2>5. \A s \in 0..(stack_top' - 1) : f[slotCell'[s]] = stack'[s]
        <3>1. f[slotCell'[stack_top]] = stack'[stack_top]
            BY <1>1, <2>2 DEF c
        <3>2. ASSUME NEW s \in 0..(stack_top - 1) PROVE f[slotCell'[s]] = stack'[s]
            BY <1>1, <1>2, <2>1, <2>2, <2>3, <3>2 DEF Holds
        <3> QED
            BY <1>3, <3>1, <3>2
    <2>6. \A u \in Used' : f[upvalueCell'[u]] = Deref(u)'
        <3>1. ASSUME NEW u \in Used PROVE f[upvalueCell[u]] = Deref(u)'
            <4>1. f[upvalueCell[u]] = Deref(u)
                BY <2>1, <2>2, <2>4, <3>1 DEF Holds
            <4>2. location[u] # Closed => location[u] \in Slot /\ location[u] # stack_top
                BY <1>1, SizeAssumption DEF IInv, Distinct, Types, Used, Slot
            <4> QED
                BY <1>1, <4>1, <4>2 DEF Deref
        <3> QED
            BY <2>1, <3>1
    <2>7. \A d \in Cell \ VariablesInUse' : f[d] = Empty
        <3>1. c \in VariablesInUse' /\ VariablesInUse \subseteq VariablesInUse'
            <4>1. stack_top \in 0..(stack_top' - 1) /\ 0..(stack_top - 1) \subseteq 0..(stack_top' - 1)
                BY <1>1
            <4>2. \A s \in 0..(stack_top - 1) : slotCell'[s] = slotCell[s]
                BY <1>1, <1>2
            <4> QED
                BY <2>1, <4>1, <4>2 DEF VariablesInUse, CellsInUse, c
        <3> QED
            BY <2>1, <2>2, <3>1 DEF Holds
    <2>8. storeBar' = f
        BY <2>2, <2>5, <2>6, <2>7, NextStore
    <2> QED
        BY <2>8 DEF f
<1>6. c \in Cell \ Abstract!InUse
    BY <1>1, CapturedProps
<1> QED
    BY <1>4, <1>5, <1>6 DEF Abstract!PushNew

\* The variables of the running call, those of its closure, and the youngest.
LEMMA RunningProps ==
    ASSUME IInv, frames # <<>>
    PROVE  /\ Abstract!Running = Frame
           /\ Len(scopeBar) - Frame.slots = Height
           /\ \A i \in 1..(Height - 1) :
                /\ Abstract!Local(i) = slotCell[Frame.slots + i]
                /\ slotCell[Frame.slots + i] \in Abstract!Variable
           /\ \A i \in DOMAIN upvalues[Frame.closure] :
                /\ upvalues[Frame.closure][i] \in Used
                /\ upvalueCell[upvalues[Frame.closure][i]] \in Abstract!Shared
           /\ scopeBar # <<>>
           /\ Abstract!Last(scopeBar) = slotCell[stack_top - 1]
           /\ stack_top - 1 \in 0..(stack_top - 1)
<1>1. Abstract!Running = Frame
    BY DEF Abstract!Running, Abstract!Last, Frame, Last
<1>2. /\ Frame.slots \in Nat /\ stack_top \in Nat \ {0} /\ Height = stack_top - Frame.slots
      /\ Frame.closure \in Closure \cup {Script} /\ Height \in Nat \ {0}
    BY FrameProps, SizeAssumption DEF IInv, Types, Slot
<1>3. /\ scopeBar \in Seq(Cell) /\ Len(scopeBar) = stack_top
      /\ \A i \in 1..stack_top : scopeBar[i] = slotCell[i - 1]
    BY ScopeProps
<1>4. ASSUME NEW i \in 1..(Height - 1)
      PROVE  /\ Abstract!Local(i) = slotCell[Frame.slots + i]
             /\ slotCell[Frame.slots + i] \in Abstract!Variable
    <2>1. Frame.slots + i + 1 \in 1..stack_top /\ (Frame.slots + i + 1) - 1 = Frame.slots + i
        BY <1>2, <1>4
    <2>2. Abstract!Local(i) = scopeBar[Frame.slots + i + 1]
        BY <1>1 DEF Abstract!Local
    <2>3. Abstract!Local(i) = slotCell[Frame.slots + i]
        BY <1>3, <2>1, <2>2
    <2>4. i \in 1..(Len(scopeBar) - Abstract!Running.slots - 1)
        BY <1>1, <1>2, <1>3, <1>4
    <2>5. Abstract!Local(i) \in Abstract!Variable
        BY <2>4 DEF Abstract!Variable
    <2> QED
        BY <2>3, <2>5
<1>5. ASSUME NEW i \in DOMAIN upvalues[Frame.closure]
      PROVE  /\ upvalues[Frame.closure][i] \in Used
             /\ upvalueCell[upvalues[Frame.closure][i]] \in Abstract!Shared
    <2>1. DOMAIN upvalues[Frame.closure] = 1..Len(upvalues[Frame.closure])
        BY <1>2 DEF IInv, Types
    <2>2. /\ DOMAIN envBar[Frame.closure] = 1..Len(upvalues[Frame.closure])
          /\ upvalues[Frame.closure][i] \in Used
          /\ envBar[Frame.closure][i] = upvalueCell[upvalues[Frame.closure][i]]
        BY <1>2, <1>5, <2>1, EnvProps
    <2>3. envBar[Frame.closure][i] \in Abstract!Shared
        BY <1>1, <1>5, <2>1, <2>2 DEF Abstract!Shared, Abstract!Range
    <2> QED
        BY <2>2, <2>3
<1>6. scopeBar # <<>> /\ Abstract!Last(scopeBar) = slotCell[stack_top - 1]
    BY <1>2, <1>3 DEF Abstract!Last
<1> QED
    BY <1>1, <1>2, <1>3, <1>4, <1>5, <1>6

\* An assignment changes one variable, wherever its value is kept.
LEMMA AssignStep ==
    ASSUME IInv, Next, errors = 0, errors' = 0, frames # <<>>, NEW c \in Cell,
           UNCHANGED <<stack_top, frames, upvalues, made, capturing, slotCell, upvalueCell>>,
           \A s \in 0..(stack_top - 1) :
                stack'[s] = IF slotCell[s] = c THEN Peek(0) ELSE stack[s],
           \A u \in Used : Deref(u)' = IF upvalueCell[u] = c THEN Peek(0) ELSE Deref(u),
           c \in VariablesInUse
    PROVE  Abstract!Assign(c)
<1> DEFINE f == [storeBar EXCEPT ![c] = Peek(0)]
<1>1. Holds(storeBar) /\ Used' = Used /\ VariablesInUse' = VariablesInUse
    BY StoreProps DEF Used, VariablesInUse, CellsInUse
<1>2. scopeBar' = scopeBar /\ envBar' = envBar
    BY DEF scopeBar, envBar
<1>3. storeBar[Abstract!Last(scopeBar)] = Peek(0)
    <2>1. Peek(0) = stack[stack_top - 1]
        BY FrameProps DEF IInv, Peek
    <2> QED
        BY <1>1, <2>1, RunningProps DEF Holds
<1>4. storeBar' = f
    <2>1. f = [d \in Cell |-> f[d]] /\ \A d \in Cell : f[d] = IF d = c THEN Peek(0) ELSE storeBar[d]
        BY <1>1 DEF Holds
    <2> HIDE DEF f
    <2>2. \A s \in 0..(stack_top - 1) : slotCell[s] \in Cell
        BY DEF IInv, Celled
    <2>3. \A u \in Used : upvalueCell[u] \in Cell
        BY DEF IInv, Types, Used
    <2>4. \A s \in 0..(stack_top' - 1) : f[slotCell'[s]] = stack'[s]
        BY <1>1, <2>1, <2>2 DEF Holds
    <2>5. \A u \in Used' : f[upvalueCell'[u]] = Deref(u)'
        BY <1>1, <2>1, <2>3 DEF Holds
    <2>6. \A d \in Cell \ VariablesInUse' : f[d] = Empty
        BY <1>1, <2>1 DEF Holds
    <2> QED
        BY <2>1, <2>4, <2>5, <2>6, NextStore
<1> QED
    BY <1>2, <1>3, <1>4 DEF Abstract!Assign

\* OP_SET_LOCAL assigns to a variable of the running call.
LEMMA SetLocalStep ==
    ASSUME IInv, Next, errors = 0, errors' = 0, NEW i \in Slot, SetLocal(i)
    PROVE  \E c \in Abstract!Variable : Abstract!Assign(c)
<1> DEFINE slot == Frame.slots + i
           c == slotCell[slot]
<1>1. /\ frames # <<>> /\ i \in 1..(Height - 1)
      /\ stack' = [stack EXCEPT ![slot] = Peek(0)]
      /\ UNCHANGED <<stack_top, frames, open_upvalues, location, captured, upvalues,
                     made, capturing, errors, slotCell, upvalueCell>>
    BY DEF SetLocal, Running, ghosts
<1>2. slot \in Slot /\ slot < stack_top /\ stack_top \in Nat /\ slot \in 0..(stack_top - 1)
    BY <1>1, SlotOfLocal, SizeAssumption DEF IInv, Types, Slot
<1>3. c \in Abstract!Variable
    BY <1>1, RunningProps
<1> HIDE DEF slot
<1>4. \A s \in 0..(stack_top - 1) : s \in Slot
    BY SizeAssumption DEF Slot, IInv, Types
<1>5. /\ \A s \in 0..(stack_top - 1) : slotCell[s] = c <=> s = slot
      /\ \A u \in Used : upvalueCell[u] = c <=> location[u] = slot
      /\ c \in Cell
    BY <1>2 DEF IInv, Distinct, Celled
<1>6. \A s \in 0..(stack_top - 1) : stack'[s] = IF slotCell[s] = c THEN Peek(0) ELSE stack[s]
    BY <1>1, <1>4, <1>5 DEF IInv, Types
<1>7. \A u \in Used : Deref(u)' = IF upvalueCell[u] = c THEN Peek(0) ELSE Deref(u)
    <2>1. \A u \in Used : location[u] \in Slot \cup {Closed}
        BY DEF IInv, Types, Used
    <2>2. slot # Closed
        BY <1>2, LocationAssumption
    <2> QED
        BY <1>1, <1>2, <1>5, <2>1, <2>2 DEF Deref, IInv, Types
<1>8. c \in VariablesInUse
    BY <1>2 DEF VariablesInUse, CellsInUse
<1> HIDE DEF c
<1>9. Abstract!Assign(c)
    BY <1>1, <1>5, <1>6, <1>7, <1>8, AssignStep
<1> QED
    BY <1>3, <1>9

\* OP_SET_UPVALUE assigns to a variable its closure shares, be its value in the
\* stack or in the upvalue.
LEMMA SetUpvalueStep ==
    ASSUME IInv, Next, errors = 0, errors' = 0, NEW i \in 1..MaxCaptures, SetUpvalue(i)
    PROVE  \E c \in Abstract!Shared : Abstract!Assign(c)
<1> DEFINE u == upvalues[Frame.closure][i]
           c == upvalueCell[u]
<1>1. /\ frames # <<>> /\ i \in DOMAIN upvalues[Frame.closure]
      /\ IF location[u] = Closed
         THEN captured' = [captured EXCEPT ![u] = Peek(0)] /\ stack' = stack
         ELSE stack' = [stack EXCEPT ![location[u]] = Peek(0)] /\ captured' = captured
      /\ UNCHANGED <<stack_top, frames, open_upvalues, location, upvalues,
                     made, capturing, errors, slotCell, upvalueCell>>
    BY DEF SetUpvalue, Running, ghosts
<1>2. u \in Used /\ c \in Abstract!Shared
    BY <1>1, RunningProps
<1> HIDE DEF u
<1>3. c \in Cell /\ u \in Upvalue
    BY <1>2 DEF IInv, Types, Used
<1>4. /\ \A s \in 0..(stack_top - 1) : s \in Slot /\ s # Closed /\ (slotCell[s] = c <=> s = location[u])
      /\ \A w \in Used : upvalueCell[w] = c <=> w = u
      /\ location[u] # Closed => location[u] \in Slot /\ location[u] \in 0..(stack_top - 1)
    <2>1. \A s \in 0..(stack_top - 1) : s \in Slot /\ s # Closed
        BY SizeAssumption, LocationAssumption DEF Slot, IInv, Types
    <2>2. location[u] # Closed => location[u] \in Slot /\ location[u] \in 0..(stack_top - 1)
        <3>1. location[u] # Closed => location[u] \in Slot /\ location[u] < stack_top
            BY <1>2, <1>3 DEF IInv, Distinct, Types
        <3> QED
            BY <3>1, SizeAssumption DEF Slot, IInv, Types
    <2>3. \A s \in 0..(stack_top - 1) : slotCell[s] = c <=> s = location[u]
        BY <1>2 DEF IInv, Distinct
    <2>4. \A w \in Used : upvalueCell[w] = c <=> w = u
        BY <1>2 DEF IInv, Distinct
    <2> QED
        BY <2>1, <2>2, <2>3, <2>4
<1>5. \A s \in 0..(stack_top - 1) : stack'[s] = IF slotCell[s] = c THEN Peek(0) ELSE stack[s]
    <2>1. CASE location[u] = Closed
        BY <1>1, <1>4, <2>1
    <2>2. CASE location[u] # Closed
        BY <1>1, <1>4, <2>2 DEF IInv, Types
    <2> QED
        BY <2>1, <2>2
<1>6. \A w \in Used : Deref(w)' = IF upvalueCell[w] = c THEN Peek(0) ELSE Deref(w)
    <2>1. ASSUME NEW w \in Used
          PROVE  Deref(w)' = IF w = u THEN Peek(0) ELSE Deref(w)
        <3>1. w \in Upvalue /\ location[w] \in Slot \cup {Closed}
            BY <2>1 DEF IInv, Types, Used
        <3>2. location[w] = location[u] /\ location[w] # Closed => w = u
            <4>1. ASSUME location[w] = location[u], location[w] # Closed PROVE w = u
                <5>1. location[w] \in 0..(stack_top - 1) /\ slotCell[location[w]] = c
                    BY <1>4, <4>1
                <5>2. upvalueCell[w] = c
                    BY <2>1, <5>1 DEF IInv, Distinct
                <5> QED
                    BY <1>4, <2>1, <5>2
            <4> QED
                BY <4>1
        <3>3. CASE location[u] = Closed
            BY <1>1, <1>3, <3>1, <3>2, <3>3 DEF Deref, IInv, Types
        <3>4. CASE location[u] # Closed
            BY <1>1, <1>3, <1>4, <3>1, <3>2, <3>4 DEF Deref, IInv, Types
        <3> QED
            BY <3>3, <3>4
    <2> QED
        BY <1>4, <2>1
<1>7. c \in VariablesInUse
    BY <1>2 DEF VariablesInUse, CellsInUse
<1> HIDE DEF c
<1>8. Abstract!Assign(c)
    BY <1>1, <1>3, <1>5, <1>6, <1>7, AssignStep
<1> QED
    BY <1>2, <1>8

\* Variables go out of scope: those that no closure shares cease to exist.
LEMMA ForgetStep ==
    ASSUME IInv, Next, errors = 0, errors' = 0, UNCHANGED <<slotCell, upvalueCell, stack>>,
           \A s \in 0..(stack_top' - 1) : s \in 0..(stack_top - 1),
           \A u \in Used : Deref(u)' = Deref(u)
    PROVE  Abstract!Forget(VariablesInUse')
<1> DEFINE keep == VariablesInUse'
           f == [c \in Cell |-> IF c \in keep THEN storeBar[c] ELSE Empty]
<1>1. Holds(storeBar) /\ Used' = Used
    BY StoreProps DEF Used
<1>2. f = [c \in Cell |-> f[c]] /\ \A c \in Cell : f[c] = IF c \in keep THEN storeBar[c] ELSE Empty
    OBVIOUS
<1>3. \A s \in 0..(stack_top' - 1) : slotCell[s] \in Cell /\ slotCell[s] \in keep
    BY DEF IInv, Celled, VariablesInUse, CellsInUse
<1>4. \A u \in Used : upvalueCell[u] \in Cell /\ upvalueCell[u] \in keep
    BY <1>1 DEF IInv, Types, Used, VariablesInUse, CellsInUse
<1> HIDE DEF keep, f
<1>5. \A s \in 0..(stack_top' - 1) : f[slotCell'[s]] = stack'[s]
    BY <1>1, <1>2, <1>3 DEF Holds
<1>6. \A u \in Used' : f[upvalueCell'[u]] = Deref(u)'
    BY <1>1, <1>2, <1>4 DEF Holds
<1>7. \A c \in Cell \ VariablesInUse' : f[c] = Empty
    BY <1>2 DEF keep
<1>8. storeBar' = f
    BY <1>2, <1>5, <1>6, <1>7, NextStore
<1> QED
    BY <1>8 DEF f, keep, Abstract!Forget

\* The youngest variable goes out of scope.
LEMMA PoppingStep ==
    ASSUME IInv, Next, errors = 0, errors' = 0, frames # <<>>, stack_top' = stack_top - 1,
           UNCHANGED <<stack, frames, upvalues, made, capturing, slotCell, upvalueCell>>,
           \A u \in Used : Deref(u)' = Deref(u)
    PROVE  Abstract!Pop
<1>1. stack_top \in Nat \ {0} /\ scopeBar # <<>>
    BY FrameProps, RunningProps DEF IInv
<1>2. scopeBar' = Abstract!Front(scopeBar)
    <2>1. /\ scopeBar \in Seq(Cell) /\ Len(scopeBar) = stack_top
          /\ scopeBar' \in Seq(Cell) /\ Len(scopeBar') = stack_top - 1
        BY ScopeProps, NextScope
    <2>2. /\ Front(scopeBar) \in Seq(Cell) /\ Len(Front(scopeBar)) = stack_top - 1
          /\ \A i \in 1..(stack_top - 1) : Front(scopeBar)[i] = scopeBar[i]
        BY <1>1, <2>1, FrontProps
    <2>3. \A i \in 1..(stack_top - 1) : scopeBar'[i] = Front(scopeBar)[i]
        <3>1. \A i \in 1..(stack_top - 1) : i \in 1..stack_top
            BY <1>1
        <3> QED
            BY <2>2, <3>1, ScopeProps, NextScope
    <2>4. scopeBar' = Front(scopeBar)
        BY <2>1, <2>2, <2>3, SeqEqual
    <2> QED
        BY <2>4 DEF Abstract!Front, Front
<1>3. Used' = Used /\ envBar' = envBar
    BY DEF Used, envBar
<1>4. VariablesInUse' = Abstract!Range(Abstract!Front(scopeBar)) \cup Abstract!Captured
    <2>1. Abstract!Range(scopeBar') = { scopeBar'[i] : i \in 1..(stack_top - 1) }
        BY <1>1, NextScope DEF Abstract!Range
    <2>2. \A i \in 1..(stack_top - 1) : scopeBar'[i] = slotCell[i - 1]
        BY NextScope
    <2>3. { scopeBar'[i] : i \in 1..(stack_top - 1) } = { slotCell[s] : s \in 0..(stack_top - 2) }
        <3>1. \A i \in 1..(stack_top - 1) : i - 1 \in 0..(stack_top - 2)
            BY <1>1
        <3>2. \A s \in 0..(stack_top - 2) : s + 1 \in 1..(stack_top - 1) /\ (s + 1) - 1 = s
            BY <1>1
        <3>3. \A s \in 0..(stack_top - 2) : slotCell[s] = scopeBar'[s + 1]
            BY <2>2, <3>2
        <3> QED
            BY <2>2, <3>1, <3>2, <3>3
    <2>4. 0..(stack_top' - 1) = 0..(stack_top - 2)
        BY <1>1
    <2>5. VariablesInUse' = { slotCell[s] : s \in 0..(stack_top - 2) }
                                        \cup { upvalueCell[u] : u \in Used }
        BY <1>3, <2>4 DEF VariablesInUse, CellsInUse
    <2> QED
        BY <1>2, <2>1, <2>3, <2>5, CapturedProps
<1>5. \A s \in 0..(stack_top' - 1) : s \in 0..(stack_top - 1)
    BY <1>1
<1>6. Abstract!Forget(VariablesInUse')
    BY <1>5, ForgetStep
<1> QED
    BY <1>2, <1>3, <1>4, <1>6 DEF Abstract!Pop

\* OP_POP ends a variable.
LEMMA PopStep ==
    ASSUME IInv, Next, errors = 0, errors' = 0, Pop
    PROVE  Abstract!Pop
BY PoppingStep DEF Pop, Running, ghosts, Deref

\* OP_CLOSE_UPVALUE ends a variable that closures go on sharing.
LEMMA CloseUpvalueStep ==
    ASSUME IInv, Next, errors = 0, errors' = 0, CloseUpvalue
    PROVE  Abstract!Pop
<1>1. /\ frames # <<>> /\ stack_top' = stack_top - 1 /\ CloseUpvalues(stack_top - 1)
      /\ UNCHANGED <<stack, frames, upvalues, made, capturing, slotCell, upvalueCell>>
    BY DEF CloseUpvalue, Running, ghosts
<1>2. stack_top - 1 \in Slot
    BY <1>1, FrameProps, SizeAssumption DEF IInv, Types, Slot
<1>3. Used' = Used
    BY <1>1 DEF Used
<1>4. \A u \in Used :
          IF location[u] # Closed /\ location[u] >= stack_top - 1
          THEN location'[u] = Closed /\ captured'[u] = stack[location[u]]
          ELSE location'[u] = location[u] /\ captured'[u] = captured[u]
    BY <1>1, <1>2, <1>3, ClosingProps
<1>5. \A u \in Used : Deref(u)' = Deref(u)
    BY <1>1, <1>4 DEF Deref
<1> QED
    BY <1>1, <1>5, PoppingStep

\* The closure on top of the stack captures a variable.
LEMMA CapturingStep ==
    ASSUME IInv, Next, errors = 0, errors' = 0, capturing > 0, NEW u \in Upvalue, Attach(u),
           UNCHANGED <<stack, stack_top, frames, made, slotCell>>,
           NEW c \in Cell, c \in VariablesInUse,
           upvalueCell'[u] = c, Used' = Used \cup {u}, Deref(u)' = storeBar[c],
           \A w \in Used : upvalueCell'[w] = upvalueCell[w] /\ Deref(w)' = Deref(w)
    PROVE  Abstract!Capture(c)
<1> DEFINE k == Peek(0)
<1>1. frames # <<>>
    BY CaptureAssumption DEF IInv, Framed, Types
<1>2. /\ k \in made
      /\ upvalues' \in [Closure \cup {Script} -> Seq(Upvalue)]
      /\ upvalues'[k] = Append(upvalues[k], u)
      /\ \A j \in Closure \cup {Script} : j # k => upvalues'[j] = upvalues[j]
    BY AttachProps
<1>3. k \in Closure \cup {Script} /\ upvalues \in [Closure \cup {Script} -> Seq(Upvalue)]
    BY <1>2 DEF IInv, Types
<1>4. capturing' = capturing - 1
    BY DEF Attach
<1>5. Holds(storeBar)
    BY StoreProps
<1>6. storeBar[Abstract!Last(scopeBar)] = k
    <2>1. k = stack[stack_top - 1]
        BY <1>1, FrameProps DEF IInv, Peek
    <2> QED
        BY <1>1, <1>5, <2>1, RunningProps DEF Holds
<1> HIDE DEF k
<1>7. envBar' = [envBar EXCEPT ![k] = Append(@, c)]
    <2>1. \A j \in Closure \cup {Script} : envBar[j] = [i \in DOMAIN upvalues[j] |-> upvalueCell[upvalues[j][i]]]
        BY DEF envBar
    <2>2. \A j \in Closure \cup {Script} :
            envBar'[j] = [i \in DOMAIN upvalues'[j] |-> upvalueCell'[upvalues'[j][i]]]
        BY DEF envBar
    <2>3. ASSUME NEW j \in Closure \cup {Script}, j # k PROVE envBar'[j] = envBar[j]
        <3>1. \A i \in DOMAIN upvalues[j] : upvalueCell'[upvalues[j][i]] = upvalueCell[upvalues[j][i]]
            <4>1. DOMAIN upvalues[j] = 1..Len(upvalues[j])
                BY <1>3
            <4> QED
                BY <4>1, EnvProps
        <3>2. upvalues'[j] = upvalues[j]
            BY <1>2, <2>3
        <3>3. envBar'[j] = [i \in DOMAIN upvalues[j] |-> upvalueCell'[upvalues[j][i]]]
            BY <2>2, <2>3, <3>2
        <3>4. envBar[j] = [i \in DOMAIN upvalues[j] |-> upvalueCell[upvalues[j][i]]]
            BY <2>1, <2>3
        <3> QED
            BY ONLY <3>1, <3>3, <3>4
    <2>4. envBar'[k] = Append(envBar[k], c)
        <3> DEFINE n == Len(upvalues[k])
        <3>1. n \in Nat /\ upvalues[k] \in Seq(Upvalue) /\ DOMAIN upvalues'[k] = 1..(n + 1)
              /\ upvalues'[k][n + 1] = u /\ \A i \in 1..n : upvalues'[k][i] = upvalues[k][i]
            BY <1>2, <1>3
        <3>2. /\ envBar[k] \in Seq(Cell) /\ Len(envBar[k]) = n
              /\ \A i \in 1..n : upvalues[k][i] \in Used /\ envBar[k][i] = upvalueCell[upvalues[k][i]]
            BY <1>3, EnvProps
        <3> HIDE DEF n
        <3>3. envBar'[k] = [i \in 1..(n + 1) |-> upvalueCell'[upvalues'[k][i]]]
            BY <1>3, <2>2, <3>1
        <3>4. \A i \in 1..(n + 1) :
                upvalueCell'[upvalues'[k][i]] = IF i = n + 1 THEN c ELSE envBar[k][i]
            <4>1. ASSUME NEW i \in 1..n PROVE i # n + 1 /\ upvalueCell'[upvalues'[k][i]] = envBar[k][i]
                <5>1. upvalues[k][i] \in Used /\ envBar[k][i] = upvalueCell[upvalues[k][i]]
                    BY <3>2, <4>1
                <5>2. upvalues'[k][i] = upvalues[k][i] /\ i # n + 1
                    BY <3>1, <4>1
                <5> QED
                    BY <5>1, <5>2
            <4>2. \A i \in 1..(n + 1) : i = n + 1 \/ i \in 1..n
                BY <3>1
            <4>3. upvalueCell'[upvalues'[k][n + 1]] = c
                BY <3>1
            <4> QED
                BY ONLY <4>1, <4>2, <4>3
        <3>5. \A i \in 1..(n + 1) : Append(envBar[k], c)[i] = IF i = n + 1 THEN c ELSE envBar[k][i]
            BY <3>1, <3>2
        <3>6. Append(envBar[k], c) \in Seq(Cell) /\ Len(Append(envBar[k], c)) = n + 1
            BY <3>1, <3>2
        <3>7. \A i \in 1..(n + 1) : upvalueCell'[upvalues'[k][i]] \in Cell
            BY <3>1, <3>2, <3>4, <3>5, <3>6
        <3>8. envBar'[k] \in Seq(Cell) /\ Len(envBar'[k]) = n + 1
            <4>1. envBar'[k] \in [1..(n + 1) -> Cell]
                BY ONLY <3>3, <3>7
            <4> QED
                BY ONLY <3>1, <4>1
        <3>9. \A i \in 1..(n + 1) : envBar'[k][i] = Append(envBar[k], c)[i]
            BY <3>3, <3>4, <3>5
        <3> QED
            BY <3>6, <3>8, <3>9, SeqEqual
    <2>5. /\ envBar = [j \in Closure \cup {Script} |-> envBar[j]]
          /\ envBar' = [j \in Closure \cup {Script} |-> envBar'[j]]
        BY DEF envBar
    <2> QED
        BY <1>3, <2>3, <2>4, <2>5
<1>8. scopeBar' = scopeBar
    BY DEF scopeBar
<1>9. storeBar' = storeBar
    <2>1. storeBar = [d \in Cell |-> storeBar[d]]
        BY <1>5 DEF Holds
    <2>2. \A s \in 0..(stack_top' - 1) : storeBar[slotCell'[s]] = stack'[s]
        BY <1>5 DEF Holds
    <2>3. \A w \in Used' : storeBar[upvalueCell'[w]] = Deref(w)'
        BY <1>5 DEF Holds
    <2>4. \A d \in Cell \ VariablesInUse' : storeBar[d] = Empty
        <3>1. VariablesInUse \subseteq VariablesInUse'
            BY DEF VariablesInUse, CellsInUse
        <3> QED
            BY <1>5, <3>1 DEF Holds
    <2> QED
        BY <2>1, <2>2, <2>3, <2>4, NextStore
<1> QED
    BY <1>4, <1>6, <1>7, <1>8, <1>9 DEF Abstract!Capture

\* An upvalue that exists is captured again, from a variable or from a closure.
LEMMA CaptureUsedStep ==
    ASSUME IInv, Next, errors = 0, errors' = 0, capturing > 0, NEW u \in Used, Attach(u),
           UNCHANGED <<stack, stack_top, frames, open_upvalues, location, captured,
                       made, slotCell, upvalueCell>>
    PROVE  Abstract!Capture(upvalueCell[u])
<1>1. Used' = Used /\ u \in Upvalue /\ upvalueCell[u] \in Cell
    BY DEF Used, IInv, Types
<1>2. Used' = Used \cup {u}
    BY <1>1
<1>3. Holds(storeBar)
    BY StoreProps
<1>4. Deref(u)' = storeBar[upvalueCell[u]] /\ \A w \in Used : Deref(w)' = Deref(w)
    BY <1>3 DEF Deref, Holds
<1>5. upvalueCell[u] \in VariablesInUse
    BY DEF VariablesInUse, CellsInUse
<1> QED
    BY <1>1, <1>2, <1>4, <1>5, CapturingStep

\* A variable that has an upvalue is captured again: the closures share it.
LEMMA CaptureAgainStep ==
    ASSUME IInv, Next, errors = 0, errors' = 0, NEW i \in Slot, CaptureAgain(i)
    PROVE  \E c \in Abstract!Variable : Abstract!Capture(c)
<1> DEFINE slot == Frame.slots + i
           u == open_upvalues[FirstAt(slot)]
<1>1. frames # <<>>
    BY CaptureAssumption DEF CaptureAgain, IInv, Framed, Types
<1>2. /\ capturing > 0 /\ i \in 1..(Height - 1)
      /\ FirstAt(slot) > 0 /\ location[u] = slot /\ Attach(u)
      /\ UNCHANGED <<stack, stack_top, frames, open_upvalues, location, captured,
                     made, slotCell, upvalueCell>>
    BY DEF CaptureAgain, ghosts
<1>3. slot \in Slot /\ slot \in 0..(stack_top - 1)
    BY <1>1, <1>2, SlotOfLocal, SizeAssumption DEF IInv, Types, Slot
<1>4. u \in Used
    <2>1. FirstAt(slot) \in 0..Len(open_upvalues) /\ Len(open_upvalues) \in Nat
        BY <1>3, FirstAtProps DEF IInv, Types
    <2>2. FirstAt(slot) \in 1..Len(open_upvalues)
        BY <1>2, <2>1
    <2> QED
        BY <2>2 DEF IInv, Listed
<1>5. slotCell[slot] \in Abstract!Variable
    BY <1>1, <1>2, RunningProps
<1> HIDE DEF slot, u
<1>6. upvalueCell[u] = slotCell[slot]
    BY <1>2, <1>3, <1>4 DEF IInv, Distinct
<1>7. Abstract!Capture(upvalueCell[u])
    BY <1>2, <1>4, CaptureUsedStep
<1> QED
    BY <1>5, <1>6, <1>7

\* A closure shares a variable that the running closure shares.
LEMMA CaptureEnclosingStep ==
    ASSUME IInv, Next, errors = 0, errors' = 0, NEW i \in 1..MaxCaptures, CaptureEnclosing(i)
    PROVE  \E c \in Abstract!Shared : Abstract!Capture(c)
<1> DEFINE u == upvalues[Frame.closure][i]
<1>1. frames # <<>>
    BY CaptureAssumption DEF CaptureEnclosing, IInv, Framed, Types
<1>2. u \in Used /\ upvalueCell[u] \in Abstract!Shared
    BY <1>1, RunningProps DEF CaptureEnclosing
<1>3. Abstract!Capture(upvalueCell[u])
    BY <1>2, CaptureUsedStep DEF CaptureEnclosing, ghosts
<1> QED
    BY <1>2, <1>3

\* A variable is captured for the first time: its value stays what it was.
LEMMA CaptureFirstStep ==
    ASSUME IInv, Next, errors = 0, errors' = 0,
           NEW i \in Slot, NEW new \in Upvalue, CaptureFirst(i, new)
    PROVE  \E c \in Abstract!Variable : Abstract!Capture(c)
<1> DEFINE slot == Frame.slots + i
           c == slotCell[slot]
<1>1. frames # <<>> /\ capturing > 0 /\ new \in Upvalue \ Used /\ i \in 1..(Height - 1)
    BY CaptureAssumption DEF CaptureFirst, IInv, Framed, Types
<1>2. /\ location' = [location EXCEPT ![new] = slot]
      /\ upvalueCell' = [upvalueCell EXCEPT ![new] = c]
      /\ UNCHANGED <<stack, stack_top, frames, captured, made, errors, slotCell>>
      /\ Attach(new)
    BY DEF CaptureFirst
<1>3. slot \in Slot /\ slot \in 0..(stack_top - 1)
    BY <1>1, SlotOfLocal, SizeAssumption DEF IInv, Types, Slot
<1>4. c \in Abstract!Variable
    BY <1>1, RunningProps
<1>5. c \in Cell /\ c # Empty /\ c \in VariablesInUse
    BY <1>3, CellAssumption DEF IInv, Celled, VariablesInUse, CellsInUse
<1> HIDE DEF slot
<1>6. Holds(storeBar) /\ storeBar[c] = stack[slot]
    BY <1>3, StoreProps DEF Holds
<1> HIDE DEF c
<1>7. Used' = Used \cup {new} /\ upvalueCell'[new] = c /\ location'[new] = slot
    BY <1>1, <1>2, <1>5 DEF Used, IInv, Types
<1>8. \A w \in Used : upvalueCell'[w] = upvalueCell[w] /\ location'[w] = location[w]
    BY <1>1, <1>2 DEF IInv, Types, Used
<1>9. \A w \in Used : upvalueCell'[w] = upvalueCell[w] /\ Deref(w)' = Deref(w)
    BY <1>2, <1>8 DEF Deref
<1>10. Deref(new)' = storeBar[c]
    <2>1. slot # Closed
        BY <1>3, LocationAssumption DEF Slot
    <2> QED
        BY <1>2, <1>6, <1>7, <2>1 DEF Deref
<1>11. Abstract!Capture(c)
    BY <1>1, <1>2, <1>5, <1>7, <1>9, <1>10, CapturingStep
<1> QED
    BY <1>4, <1>11

\* A call of a closure below n arguments.
LEMMA CallStep ==
    ASSUME IInv, Next, errors = 0, errors' = 0, NEW n \in Slot, Call(n)
    PROVE  n \in 0..(Len(scopeBar) - Abstract!Running.slots - 2) /\ Abstract!Call(n)
<1>1. /\ frames # <<>> /\ n + 1 < Height
      /\ frames' = Append(frames, [closure |-> Peek(n), slots |-> stack_top - n - 1])
      /\ UNCHANGED <<stack, stack_top, upvalues, made, capturing, slotCell, upvalueCell,
                     location, captured>>
    BY DEF Call, Running, ghosts
<1>2. /\ n \in Nat /\ stack_top \in Nat /\ Height \in Nat /\ Len(scopeBar) = stack_top
      /\ Frame.slots \in Nat /\ Height = stack_top - Frame.slots
    BY <1>1, FrameProps, ScopeProps, SizeAssumption DEF IInv, Slot
<1>3. n \in 0..(Len(scopeBar) - Abstract!Running.slots - 2)
    BY <1>1, <1>2, RunningProps
<1>4. storeBar[scopeBar[Len(scopeBar) - n]] = Peek(n)
    <2>1. stack_top - n \in 1..stack_top /\ (stack_top - n) - 1 = stack_top - 1 - n
            /\ stack_top - 1 - n \in 0..(stack_top - 1)
        BY <1>1, <1>2
    <2>2. scopeBar[stack_top - n] = slotCell[stack_top - 1 - n]
        BY <2>1, ScopeProps
    <2>3. storeBar[slotCell[stack_top - 1 - n]] = stack[stack_top - 1 - n]
        BY <2>1, StoreProps DEF Holds
    <2> QED
        BY <1>2, <2>2, <2>3 DEF Peek
<1>5. scopeBar' = scopeBar /\ envBar' = envBar /\ storeBar' = storeBar
    BY <1>1 DEF scopeBar, envBar, storeBar, Used, Deref
<1> QED
    BY <1>1, <1>2, <1>3, <1>4, <1>5 DEF Abstract!Call

\* A return keeps what closures share of the callee's variables, and forgets the rest.
LEMMA ReturnStep ==
    ASSUME IInv, Next, errors = 0, errors' = 0, Return
    PROVE  Abstract!Return
<1> DEFINE base == Frame.slots
           c == slotCell'[base]
           below == SubSeq(scopeBar, 1, base)
           keep == { slotCell[s] : s \in 0..(base - 1) } \cup { upvalueCell[u] : u \in Used }
<1>1. /\ frames # <<>> /\ Len(frames) > 1 /\ CloseUpvalues(base)
      /\ stack' = [stack EXCEPT ![base] = Peek(0)]
      /\ stack_top' = base + 1
      /\ frames' = Front(frames)
      /\ slotCell' = [slotCell EXCEPT ![base] = NewCell(base)]
      /\ UNCHANGED <<upvalues, made, capturing, errors, upvalueCell>>
    BY DEF Return, Running
<1>2. Used' = Used /\ envBar' = envBar
    BY <1>1 DEF Used, envBar
<1>3. base \in Slot /\ base \in Nat /\ base < stack_top /\ stack_top \in Nat
        /\ stack_top <= StackSize /\ StackSize \in Nat
    BY <1>1, FrameProps, SizeAssumption DEF IInv, Types, Slot
<1>4. Abstract!Running.slots = base /\ Abstract!Last(scopeBar) = slotCell[stack_top - 1]
    BY <1>1, RunningProps
<1>5. \A u \in Used :
          IF location[u] # Closed /\ location[u] >= base
          THEN location'[u] = Closed /\ captured'[u] = stack[location[u]]
          ELSE location'[u] = location[u] /\ captured'[u] = captured[u]
    BY <1>1, <1>2, <1>3, ClosingProps
<1>6. NewCell(base) \in Cell \ CellsInUse(base)
    BY <1>3, NewCellIsNew DEF IInv
<1> HIDE DEF base
<1>7. /\ \A s \in 0..(base - 1) : s \in Slot /\ s # base /\ s \in 0..(stack_top - 1)
      /\ \A s \in 0..base : s = base \/ s \in 0..(base - 1)
    BY <1>3 DEF Slot
<1>8. /\ c = NewCell(base) /\ stack'[base] = Peek(0)
      /\ \A s \in 0..(base - 1) : slotCell'[s] = slotCell[s] /\ stack'[s] = stack[s]
    BY <1>1, <1>3, <1>7 DEF IInv, Types
<1>9. CellsInUse(base) = keep
    BY DEF VariablesInUse, CellsInUse
<1>10. c \in Cell \ keep
    BY <1>6, <1>8, <1>9
<1>11. Holds(storeBar)
    BY StoreProps
<1>12. storeBar[Abstract!Last(scopeBar)] = Peek(0)
    <2>1. stack_top - 1 \in 0..(stack_top - 1) /\ Peek(0) = stack[stack_top - 1]
        BY <1>3 DEF Peek
    <2> QED
        BY <1>4, <1>11, <2>1 DEF Holds
\* The scope.
<1>13. /\ scopeBar \in Seq(Cell) /\ Len(scopeBar) = stack_top
       /\ \A i \in 1..stack_top : scopeBar[i] = slotCell[i - 1]
       /\ scopeBar' \in Seq(Cell) /\ Len(scopeBar') = base + 1
       /\ \A i \in 1..(base + 1) : scopeBar'[i] = slotCell'[i - 1]
    BY <1>1, ScopeProps, NextScope
<1>14. /\ below \in Seq(Cell) /\ Len(below) = base
       /\ \A i \in 1..base : below[i] = slotCell[i - 1]
    <2>1. \A i \in 1..base : i \in 1..stack_top
        BY <1>3
    <2>2. \A i \in 1..base : scopeBar[i] \in Cell
        BY <1>13, <2>1
    <2>3. /\ Len(below) = IF 1 <= base THEN base - 1 + 1 ELSE 0
          /\ \A i \in 1..(base - 1 + 1) : below[i] = scopeBar[1 + i - 1]
        <3>1. below = [i \in 1..(base - 1 + 1) |-> scopeBar[i + 1 - 1]]
            BY <1>3, <1>13
        <3> QED
            BY <1>3, <3>1
    <2>4. Len(below) = base /\ \A i \in 1..base : below[i] = scopeBar[i]
        BY <1>3, <2>3
    <2>5. below \in Seq(Cell)
        BY <1>3, <1>13, <2>1, <2>2
    <2> QED
        BY <1>13, <2>1, <2>4, <2>5
<1>15. Abstract!Range(below) = { slotCell[s] : s \in 0..(base - 1) }
    <2>1. Abstract!Range(below) = { below[i] : i \in 1..base }
        BY <1>14 DEF Abstract!Range
    <2>2. \A i \in 1..base : i - 1 \in 0..(base - 1)
        BY <1>3
    <2>3. \A s \in 0..(base - 1) : s + 1 \in 1..base /\ (s + 1) - 1 = s
        BY <1>3
    <2>4. \A s \in 0..(base - 1) : slotCell[s] = below[s + 1]
        BY <1>14, <2>3
    <2> HIDE DEF below
    <2> QED
        BY <1>14, <2>1, <2>2, <2>3, <2>4
<1> HIDE DEF below, c
<1>16. scopeBar' = Append(below, c)
    <2>1. Append(below, c) \in Seq(Cell) /\ Len(Append(below, c)) = base + 1
        BY <1>3, <1>10, <1>14
    <2>2. ASSUME NEW i \in 1..(base + 1) PROVE scopeBar'[i] = Append(below, c)[i]
        <3>1. CASE i = base + 1
            <4>1. i - 1 = base /\ Append(below, c)[i] = c
                BY <1>3, <1>14, <3>1
            <4>2. scopeBar'[i] = slotCell'[i - 1]
                BY <1>13, <2>2
            <4> QED
                BY <4>1, <4>2 DEF c
        <3>2. CASE i \in 1..base
            <4>1. i - 1 \in 0..(base - 1) /\ Append(below, c)[i] = below[i]
                BY <1>3, <1>14, <3>2
            <4>2. scopeBar'[i] = slotCell'[i - 1]
                BY <1>13, <2>2
            <4> QED
                BY <1>8, <1>14, <3>2, <4>1, <4>2
        <3>3. i = base + 1 \/ i \in 1..base
            BY <1>3, <2>2
        <3> QED
            BY <3>1, <3>2, <3>3
    <2> QED
        BY <1>13, <2>1, <2>2, SeqEqual
<1>17. keep = Abstract!Range(below) \cup Abstract!Captured
    BY <1>15, CapturedProps
\* The store.
<1> DEFINE f == [d \in Cell |-> IF d = c THEN Peek(0)
                                ELSE IF d \in keep THEN storeBar[d] ELSE Empty]
<1>18. /\ \A s \in 0..(base - 1) : slotCell[s] \in keep /\ slotCell[s] \in Cell
       /\ \A u \in Used : upvalueCell[u] \in keep /\ upvalueCell[u] \in Cell
    BY <1>7 DEF IInv, Celled, Types, Used
<1> HIDE DEF keep
<1>19. /\ f = [d \in Cell |-> f[d]] /\ f[c] = Peek(0)
       /\ \A d \in Cell : d \in keep => f[d] = storeBar[d]
       /\ \A d \in Cell : d # c /\ d \notin keep => f[d] = Empty
    BY <1>10
<1> HIDE DEF f
<1>20. 0..(stack_top' - 1) = 0..base
    BY <1>1, <1>3
<1>21. \A s \in 0..(stack_top' - 1) : f[slotCell'[s]] = stack'[s]
    <2>1. f[slotCell'[base]] = stack'[base]
        BY <1>8, <1>19 DEF c
    <2>2. ASSUME NEW s \in 0..(base - 1) PROVE f[slotCell'[s]] = stack'[s]
        <3>1. storeBar[slotCell[s]] = stack[s]
            BY <1>7, <1>11, <2>2 DEF Holds
        <3> QED
            BY <1>8, <1>18, <1>19, <2>2, <3>1
    <2> QED
        BY <1>7, <1>20, <2>1, <2>2
<1>22. \A u \in Used' : f[upvalueCell'[u]] = Deref(u)'
    <2>1. ASSUME NEW u \in Used PROVE Deref(u)' = Deref(u)
        <3>1. CASE location[u] # Closed /\ location[u] >= base
            BY <1>5, <2>1, <3>1 DEF Deref
        <3>2. CASE location[u] # Closed /\ ~(location[u] >= base)
            <4>1. location[u] \in 0..(base - 1)
                <5>1. location[u] \in Nat
                    BY <2>1, <3>2, SizeAssumption DEF IInv, Types, Used, Slot
                <5> QED
                    BY <1>3, <3>2, <5>1
            <4> QED
                BY <1>5, <1>8, <2>1, <3>2, <4>1 DEF Deref
        <3>3. CASE location[u] = Closed
            BY <1>5, <2>1, <3>3 DEF Deref
        <3> QED
            BY <3>1, <3>2, <3>3
    <2>2. \A u \in Used : f[upvalueCell[u]] = Deref(u)
        BY <1>11, <1>18, <1>19 DEF Holds
    <2>3. upvalueCell' = upvalueCell
        BY <1>1
    <2> QED
        BY <1>2, <2>1, <2>2, <2>3
<1>23. \A d \in Cell \ VariablesInUse' : f[d] = Empty
    <2>1. c \in VariablesInUse' /\ keep \subseteq VariablesInUse'
        <3>1. base \in 0..base /\ 0..(base - 1) \subseteq 0..base
            BY <1>3
        <3>2. VariablesInUse' = { slotCell'[s] : s \in 0..base } \cup { upvalueCell'[u] : u \in Used' }
            BY <1>20 DEF VariablesInUse, CellsInUse
        <3>3. upvalueCell' = upvalueCell
            BY <1>1
        <3>4. \A s \in 0..(base - 1) : slotCell[s] = slotCell'[s]
            BY <1>8
        <3> QED
            BY ONLY <1>2, <3>1, <3>2, <3>3, <3>4 DEF keep, c
    <2> QED
        BY <1>19, <2>1
<1>24. storeBar' = f
    BY <1>19, <1>21, <1>22, <1>23, NextStore
<1>25. storeBar' = [d \in Cell |-> IF d = c THEN storeBar[Abstract!Last(scopeBar)]
                                   ELSE IF d \in Abstract!Range(below) \cup Abstract!Captured
                                   THEN storeBar[d] ELSE Empty]
    BY <1>12, <1>17, <1>24 DEF f
<1>26. c \in Cell \ (Abstract!Range(below) \cup Abstract!Captured)
    BY <1>10, <1>17
<1>27. below = SubSeq(scopeBar, 1, Abstract!Running.slots)
    BY <1>4 DEF below
<1>28. frames' = Abstract!Front(frames) /\ made' = made /\ capturing' = capturing
    BY <1>1 DEF Abstract!Front, Front
<1> QED
    BY ONLY <1>2, <1>16, <1>25, <1>26, <1>27, <1>28 DEF Abstract!Return

\* The end of top-level code that met no error.
LEMMA ExitStep ==
    ASSUME IInv, Next, errors = 0, errors' = 0, Exit
    PROVE  Abstract!Stop
<1>1. /\ stack_top' = 0 /\ frames' = <<>>
      /\ UNCHANGED <<stack, upvalues, made, capturing, slotCell, upvalueCell, location, captured>>
    BY DEF Exit, ResetStack, ghosts
<1>2. envBar' = envBar /\ Used' = Used
    BY <1>1 DEF envBar, Used
<1>3. scopeBar' = <<>>
    <2>1. scopeBar' \in Seq(Cell) /\ Len(scopeBar') = 0
        BY <1>1, NextScope
    <2> QED
        BY <2>1
<1>4. 0..(stack_top' - 1) = {}
    BY <1>1
<1>5. Abstract!Forget(VariablesInUse')
    <2>1. \A u \in Used : Deref(u)' = Deref(u)
        BY <1>1, NothingOpenAtExit DEF Deref
    <2> QED
        BY <1>1, <1>4, <2>1, ForgetStep
<1>6. VariablesInUse' = Abstract!Captured
    BY <1>1, <1>2, <1>4, CapturedProps DEF VariablesInUse, CellsInUse
<1> QED
    BY <1>1, <1>2, <1>3, <1>5, <1>6 DEF Abstract!Stop

\* Top-level code begins.
LEMMA InterpretStep ==
    ASSUME IInv, Next, errors = 0, errors' = 0, Interpret
    PROVE  Abstract!Interpret
<1>1. /\ frames = <<>> /\ stack_top = 0 /\ PushOn(stack_top, Script)
      /\ frames' = <<[closure |-> Script, slots |-> 0]>>
      /\ UNCHANGED <<location, captured, upvalues, made, capturing, upvalueCell>>
    BY DEF Interpret, IInv, Framed
<1>2. Abstract!PushNew(scopeBar, Script)
    <2>1. Script \in Value
        BY DEF Value
    <2> QED
        BY <1>1, <2>1, PushingStep
<1>3. scopeBar = <<>>
    <2>1. scopeBar \in Seq(Cell) /\ Len(scopeBar) = 0
        BY <1>1, ScopeProps
    <2> QED
        BY <2>1
<1>4. envBar' = envBar
    BY <1>1 DEF envBar
<1> QED
    BY <1>1, <1>2, <1>3, <1>4 DEF Abstract!Interpret

\* An instruction that does nothing but push.
LEMMA PushStep ==
    ASSUME IInv, Next, errors = 0, errors' = 0, NEW v \in Value, PushOn(stack_top, v),
           UNCHANGED <<frames, location, captured, upvalues, made, capturing, upvalueCell>>
    PROVE  Abstract!Push(v)
<1>1. Abstract!PushNew(scopeBar, v)
    BY PushingStep
<1>2. envBar' = envBar
    BY DEF envBar
<1> QED
    BY <1>1, <1>2 DEF Abstract!Push

\* OP_GET_LOCAL reads a variable of the running call.
LEMMA GetLocalStep ==
    ASSUME IInv, Next, errors = 0, errors' = 0, NEW i \in Slot, GetLocal(i)
    PROVE  \E c \in Abstract!Variable : Abstract!Push(storeBar[c])
<1> DEFINE slot == Frame.slots + i
<1>1. frames # <<>> /\ i \in 1..(Height - 1)
    BY DEF GetLocal, Running
<1>2. slot \in Slot /\ slot \in 0..(stack_top - 1)
    BY <1>1, SlotOfLocal, SizeAssumption DEF IInv, Types, Slot
<1>3. stack[slot] \in Value /\ storeBar[slotCell[slot]] = stack[slot]
    BY <1>2, StoreProps DEF IInv, Types, Holds
<1>4. Abstract!Push(stack[slot])
    BY <1>3, PushStep DEF GetLocal
<1> QED
    BY <1>1, <1>3, <1>4, RunningProps

\* OP_GET_UPVALUE reads a variable its closure shares.
LEMMA GetUpvalueStep ==
    ASSUME IInv, Next, errors = 0, errors' = 0, NEW i \in 1..MaxCaptures, GetUpvalue(i)
    PROVE  \E c \in Abstract!Shared : Abstract!Push(storeBar[c])
<1> DEFINE u == upvalues[Frame.closure][i]
<1>1. frames # <<>> /\ i \in DOMAIN upvalues[Frame.closure]
    BY DEF GetUpvalue, Running
<1>2. u \in Used /\ upvalueCell[u] \in Abstract!Shared
    BY <1>1, RunningProps
<1>3. storeBar[upvalueCell[u]] = Deref(u) /\ Deref(u) \in Value
    BY <1>2, StoreProps, DerefType DEF Holds
<1>4. Abstract!Push(Deref(u))
    BY <1>3, PushStep DEF GetUpvalue
<1> QED
    BY <1>2, <1>3, <1>4

\* OP_CLOSURE makes a closure.
LEMMA MakeClosureStep ==
    ASSUME IInv, Next, errors = 0, errors' = 0,
           NEW k \in Closure, NEW n \in 0..MaxCaptures, MakeClosure(k, n)
    PROVE  Abstract!MakeClosure(k, n)
<1>1. k \in Value
    BY DEF Value
<1>2. Abstract!PushNew(scopeBar, k)
    BY <1>1, PushingStep DEF MakeClosure
<1>3. envBar' = envBar
    BY DEF MakeClosure, envBar
<1> QED
    BY <1>2, <1>3 DEF Abstract!MakeClosure, MakeClosure

-----------------------------------------------------------------------------
\* The refinement

\* The machine begins where the abstract one does: no variable, no closure.
LEMMA InitMapped == Init => Abstract!Init
<1> SUFFICES ASSUME Init PROVE Abstract!Init
    OBVIOUS
<1> USE DEF Init
<1>1. Used = {} /\ 0..(stack_top - 1) = {}
    BY DEF Used
<1>2. scopeBar = <<>>
    BY DEF scopeBar
<1>3. storeBar = [c \in Cell |-> Empty]
    BY <1>1 DEF storeBar
<1>4. envBar = [k \in Closure \cup {Script} |-> <<>>]
    <2>1. \A k \in Closure \cup {Script} : upvalues[k] = <<>> /\ DOMAIN upvalues[k] = {}
        OBVIOUS
    <2>2. \A k \in Closure \cup {Script} : envBar[k] = <<>>
        BY <2>1 DEF envBar
    <2>3. envBar = [k \in Closure \cup {Script} |-> envBar[k]]
        BY DEF envBar
    <2> QED
        BY <2>2, <2>3
<1> QED
    BY <1>2, <1>3, <1>4 DEF Abstract!Init

\* Before the first error, every step of the machine is one of the abstract one.
LEMMA StepMapped ==
    ASSUME IInv, Next, errors = 0, errors' = 0
    PROVE  Abstract!Next
<1>1. CASE Interpret
    BY <1>1, InterpretStep DEF Abstract!Next
<1>2. ASSUME frames # <<>>, capturing = 0,
             \/ \E v \in Plain \cup made : Abstract!Push(v)
             \/ Abstract!Pop
             \/ \E c \in Abstract!Variable \cup Abstract!Shared :
                    Abstract!Push(storeBar[c]) \/ Abstract!Assign(c)
             \/ \E k \in Closure, n \in 0..MaxCaptures : Abstract!MakeClosure(k, n)
             \/ \E n \in 0..(Len(scopeBar) - Abstract!Running.slots - 2) : Abstract!Call(n)
             \/ Abstract!Return
             \/ Abstract!Stop
      PROVE  Abstract!Next
    BY <1>2 DEF Abstract!Next
<1>3. ASSUME capturing > 0, NEW c \in Abstract!Variable \cup Abstract!Shared, Abstract!Capture(c)
      PROVE  Abstract!Next
    BY <1>3 DEF Abstract!Next
<1>4. ASSUME NEW v \in Plain \cup made, Push(v) PROVE Abstract!Next
    <2>1. v \in Value
        BY DEF IInv, Types, Value
    <2>2. Abstract!Push(v)
        BY <1>4, <2>1, PushStep DEF Push
    <2> QED
        BY <1>2, <1>4, <2>2 DEF Push, Running
<1>5. CASE Pop
    BY <1>2, <1>5, PopStep DEF Pop, Running
<1>6. ASSUME NEW i \in Slot, GetLocal(i) PROVE Abstract!Next
    BY <1>2, <1>6, GetLocalStep DEF GetLocal, Running
<1>7. ASSUME NEW i \in Slot, SetLocal(i) PROVE Abstract!Next
    BY <1>2, <1>7, SetLocalStep DEF SetLocal, Running
<1>8. ASSUME NEW i \in 1..MaxCaptures, GetUpvalue(i) PROVE Abstract!Next
    BY <1>2, <1>8, GetUpvalueStep DEF GetUpvalue, Running
<1>9. ASSUME NEW i \in 1..MaxCaptures, SetUpvalue(i) PROVE Abstract!Next
    BY <1>2, <1>9, SetUpvalueStep DEF SetUpvalue, Running
<1>10. ASSUME NEW k \in Closure, NEW n \in 0..MaxCaptures, MakeClosure(k, n) PROVE Abstract!Next
    BY <1>2, <1>10, MakeClosureStep DEF MakeClosure, Running
<1>11. ASSUME NEW i \in Slot, CaptureAgain(i) PROVE Abstract!Next
    BY <1>3, <1>11, CaptureAgainStep DEF CaptureAgain
<1>12. ASSUME NEW i \in Slot, NEW u \in Upvalue, CaptureFirst(i, u) PROVE Abstract!Next
    BY <1>3, <1>12, CaptureFirstStep DEF CaptureFirst
<1>13. ASSUME NEW i \in 1..MaxCaptures, CaptureEnclosing(i) PROVE Abstract!Next
    BY <1>3, <1>13, CaptureEnclosingStep DEF CaptureEnclosing
<1>14. CASE CloseUpvalue
    BY <1>2, <1>14, CloseUpvalueStep DEF CloseUpvalue, Running
<1>15. ASSUME NEW n \in Slot, Call(n) PROVE Abstract!Next
    BY <1>2, <1>15, CallStep DEF Call, Running
<1>16. CASE Return
    BY <1>2, <1>16, ReturnStep DEF Return, Running
<1>17. CASE Exit
    BY <1>2, <1>17, ExitStep DEF Exit, Running
<1>18. CASE RuntimeError
    BY <1>18 DEF RuntimeError
<1> QED
    BY <1>1, <1>4, <1>5, <1>6, <1>7, <1>8, <1>9, <1>10, <1>11, <1>12, <1>13, <1>14,
       <1>15, <1>16, <1>17, <1>18 DEF Next

\* Errors are counted and never forgotten.
LEMMA ErrorsCount ==
    ASSUME IInv, Next
    PROVE  errors' > 0 \/ (errors = 0 /\ errors' = 0)
<1>1. errors \in Nat
    BY CaptureAssumption DEF IInv, Types
<1>2. errors' = errors \/ errors' = errors + 1
    BY DEF Next, Interpret, Push, Pop, GetLocal, SetLocal, GetUpvalue, SetUpvalue,
           MakeClosure, CaptureAgain, CaptureFirst, CaptureEnclosing, CloseUpvalue, Call,
           Return, Exit, RuntimeError
<1> QED
    BY <1>1, <1>2

\* The machine of src/vm.c implements the variables of the language, up to its
\* first run-time error and for every size: closures and calls see one another's
\* assignments to the variables they share, and a variable lives as long as one of
\* them does.
THEOREM MachineImplementsVariables == Spec => ImplementsVariables
<1>1. IInv /\ [Next]_vars => [Abstract!Next \/ errors' > 0]_(Abstract!vars)
    <2> SUFFICES ASSUME IInv, [Next]_vars
                 PROVE  [Abstract!Next \/ errors' > 0]_(Abstract!vars)
        OBVIOUS
    <2>1. CASE UNCHANGED vars
        BY <2>1 DEF vars, Abstract!vars, scopeBar, storeBar, envBar, Used, Deref
    <2>2. CASE Next
        BY <2>2, ErrorsCount, StepMapped
    <2> QED
        BY <2>1, <2>2
<1> QED
    BY <1>1, InitMapped, IInvHolds, PTL DEF Spec, ImplementsVariables
=============================================================================
