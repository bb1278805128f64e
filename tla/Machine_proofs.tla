---------------------------- MODULE Machine_proofs ----------------------------
(***************************************************************************)
(* Proofs about Machine, for any heap, stack, number of frames and any     *)
(* globals: with the three holes closed, whatever the machine can still    *)
(* get at is allocated.                                                    *)
(***************************************************************************)
EXTENDS Machine, Reachability_proofs, Lists_proofs
-----------------------------------------------------------------------------
\* The inductive invariant, in parts

\* What a value may be: nothing, or a pointer to an object that is allocated.
Live == heap \cup {Nil}

\* What the objects hold is live, a closure holds upvalues, and an upvalue has a
\* slot of the stack or a value of its own.
HeapTyped ==
    /\ heap \subseteq Object
    /\ kind \in [heap -> Kind]
    /\ fields \in [heap -> Seq(Live)]
    /\ \A o \in heap : Len(fields[o]) <= 2 + MaxElements
    /\ location \in [heap -> 1..StackSize \cup {Itself}]
    /\ \A o \in heap : kind[o] = "closure" =>
            \A i \in 1..Len(fields[o]) :
                fields[o][i] \in heap /\ kind[fields[o][i]] = "upvalue"
    /\ \A o \in heap : kind[o] = "upvalue" =>
            o \in open_upvalues \/ Len(fields[o]) = 1

\* What the roots hold is live; slot 1 is never captured, and the upvalues whose
\* slot may be above the top are those that an error left open.
Rooted ==
    /\ stack \in Seq(Live)
    /\ Len(stack) <= StackSize
    /\ globals \in [Global -> Live \cup {Void}]
    /\ x \in Value /\ (xSafe => x \in Live)
    /\ xSafe \in BOOLEAN
    /\ \A u \in open_upvalues :
            /\ u \in heap /\ kind[u] = "upvalue" /\ location[u] \in 2..StackSize
            /\ u \notin abandoned => location[u] <= Len(stack)

\* Every frame has a slot of its own at least, which holds its closure.
Framed ==
    /\ frames \in Seq([closure : heap, slots : 1..StackSize])
    /\ Len(frames) <= FramesLimit
    /\ frames = <<>> => stack = <<>> /\ ~capturing
    /\ frames # <<>> => frames[1].slots = 1
    /\ \A i \in 1..Len(frames) :
        /\ kind[frames[i].closure] = "closure"
        /\ frames[i].slots <= Len(stack)
    /\ \A i, j \in 1..Len(frames) : i < j => frames[i].slots < frames[j].slots

\* The upvalue OP_CLOSURE has yet to fill in is that of the closure on top.
Constructing ==
    /\ capturing \in BOOLEAN
    /\ capturing => Height > 1 /\ Peek(0) \in heap /\ kind[Peek(0)] = "closure"

IInv ==
    /\ HeapTyped
    /\ Rooted
    /\ Framed
    /\ Constructing
-----------------------------------------------------------------------------
\* Facts about one state

\* The values of a sequence may be taken from any set that has them.
LEMMA SeqIn ==
    ASSUME NEW S, NEW T, NEW s \in Seq(S), \A i \in 1..Len(s) : s[i] \in T
    PROVE  s \in Seq(T)
OBVIOUS

\* Live values that are pointers are allocated.
LEMMA PointersProps ==
    ASSUME NEW s \in Seq(Live)
    PROVE  Pointers(s) \subseteq heap
<1>1. \A i \in 1..Len(s) : s[i] \in heap \cup {Nil}
    BY DEF Live
<1>2. DOMAIN s = 1..Len(s)
    OBVIOUS
<1>3. Range(s) \subseteq heap \cup {Nil}
    BY ONLY <1>1, <1>2 DEF Range
<1> QED
    BY <1>3, MachineAssumption DEF Pointers

\* The graph of the heap, which no pointer leaves.
LEMMA RefsProps ==
    ASSUME HeapTyped
    PROVE  /\ refs \in [Object -> SUBSET Object]
           /\ \A o \in heap : refs[o] = Pointers(fields[o])
           /\ Closed(heap, refs)
<1>1. refs \in [Object -> SUBSET Object]
    BY DEF refs, Pointers
<1>2. \A o \in heap : refs[o] = Pointers(fields[o])
    BY DEF refs, HeapTyped
<1>3. ASSUME NEW o \in heap
      PROVE  Pointers(fields[o]) \subseteq heap
    <2>1. fields[o] \in Seq(Live)
        BY DEF HeapTyped
    <2> QED
        BY <2>1, PointersProps
<1> QED
    BY <1>1, <1>2, <1>3 DEF Closed

\* The frames, and the one that runs.
LEMMA FramesProps ==
    ASSUME Framed, Rooted
    PROVE  /\ Len(frames) \in Nat /\ DOMAIN frames = 1..Len(frames)
           /\ \A i \in 1..Len(frames) :
                frames[i].closure \in heap /\ frames[i].slots \in 1..StackSize
           /\ Len(stack) \in Nat
           /\ frames # <<>> =>
                /\ Len(frames) \in Nat \ {0}
                /\ Frame = frames[Len(frames)]
                /\ Frame \in [closure : heap, slots : 1..StackSize]
                /\ Frame.closure \in heap /\ kind[Frame.closure] = "closure"
                /\ Frame.slots \in Nat \ {0} /\ Frame.slots <= Len(stack)
                /\ Height \in Nat \ {0} /\ Height = Len(stack) - Frame.slots + 1
                /\ \A i \in 1..Len(frames) : frames[i].slots <= Frame.slots
<1> DEFINE S == [closure : heap, slots : 1..StackSize]
<1>1. frames \in Seq(S)
    BY DEF Framed
<1>2. \A f \in S : f.closure \in heap /\ f.slots \in 1..StackSize
    OBVIOUS
<1> HIDE DEF S
<1>3. Len(frames) \in Nat /\ DOMAIN frames = 1..Len(frames) /\ \A i \in 1..Len(frames) : frames[i] \in S
    BY ONLY <1>1
<1>4. Len(stack) \in Nat
    BY DEF Rooted
<1>5. ASSUME frames # <<>>
      PROVE  Len(frames) \in Nat \ {0} /\ Frame = frames[Len(frames)]
    BY ONLY <1>1, <1>3, <1>5, EmptySeq DEF Frame, Last
<1>6. ASSUME frames # <<>>
      PROVE  /\ Frame \in S
             /\ Frame.closure \in heap /\ kind[Frame.closure] = "closure"
             /\ Frame.slots \in Nat \ {0} /\ Frame.slots <= Len(stack)
             /\ \A i \in 1..Len(frames) : frames[i].slots <= Frame.slots
    <2>1. Len(frames) \in 1..Len(frames) /\ Len(frames) \in Nat
        BY <1>5, <1>6
    <2>2. /\ Frame \in S /\ kind[Frame.closure] = "closure" /\ Frame.slots <= Len(stack)
          /\ Frame.slots \in 1..StackSize
          /\ \A i \in 1..Len(frames) : i < Len(frames) => frames[i].slots < Frame.slots
        BY <2>1, <1>2, <1>3, <1>5, <1>6 DEF Framed
    <2>3. \A i \in 1..Len(frames) : i < Len(frames) \/ i = Len(frames)
        <3>1. Len(frames) \in Nat
            BY <1>3
        <3> QED
            BY ONLY <3>1
    <2>4. \A i \in 1..Len(frames) : frames[i].slots \in Nat
        BY <1>2, <1>3
    <2> QED
        BY <2>2, <2>3, <2>4, <1>2, <1>5, <1>6
<1> QED
    BY <1>2, <1>3, <1>4, <1>5, <1>6 DEF Height, S

\* An allocation keeps what the stack st, the frames, the globals and the open
\* upvalues lead to.
LEMMA SurvivorsProps ==
    ASSUME HeapTyped, Rooted, Framed,
           NEW st \in Seq(Live), NEW kept \in Survivors(st)
    PROVE  /\ kept \subseteq heap
           /\ \A i \in 1..Len(st) : st[i] \in kept \cup {Nil}
           /\ \A g \in Global : globals[g] \in kept \cup {Nil, Void}
           /\ \A i \in 1..Len(frames) : frames[i].closure \in kept
           /\ open_upvalues \subseteq kept
           /\ \A o \in kept : \A i \in 1..Len(fields[o]) : fields[o][i] \in kept \cup {Nil}
<1>1. refs \in [Object -> SUBSET Object] /\ Closed(heap, refs) /\ heap \in SUBSET Object
    BY RefsProps DEF HeapTyped
<1>2. Roots(st) \subseteq heap
    <2>1. Pointers(st) \subseteq heap
        BY PointersProps
    <2>2. { frames[i].closure : i \in DOMAIN frames } \subseteq heap
        BY FramesProps
    <2>3. { globals[g] : g \in { h \in Global : globals[h] \in Object } } \subseteq heap
        BY MachineAssumption DEF Rooted, Live
    <2>4. open_upvalues \subseteq heap
        BY DEF Rooted
    <2> QED
        BY <2>1, <2>2, <2>3, <2>4 DEF Roots
<1>3. kept \subseteq heap /\ Roots(st) \subseteq kept /\ Closed(kept, refs)
    <2>1. CASE kept = heap
        BY <2>1, <1>1, <1>2
    <2>2. CASE kept = ReachableFrom(Roots(st), refs)
        <3>1. Roots(st) \in SUBSET Object
            BY <1>1, <1>2
        <3> QED
            BY <2>2, <3>1, <1>1, <1>2, RootsAreReachable, ReachableIsClosed, ReachableIsLeast
    <2> QED
        BY <2>1, <2>2 DEF Survivors
<1>4. ASSUME NEW i \in 1..Len(st)
      PROVE  st[i] \in kept \cup {Nil}
    <2>1. st[i] \in Live /\ i \in DOMAIN st
        OBVIOUS
    <2>2. st[i] \in Object => st[i] \in Roots(st)
        BY <2>1 DEF Roots, Pointers, Range
    <2> QED
        BY <1>1, <1>3, <2>1, <2>2 DEF Live
<1>5. ASSUME NEW g \in Global
      PROVE  globals[g] \in kept \cup {Nil, Void}
    <2>1. globals[g] \in Live \cup {Void}
        BY DEF Rooted
    <2>2. globals[g] \in Object => globals[g] \in Roots(st)
        BY DEF Roots
    <2> QED
        BY <1>1, <1>3, <2>1, <2>2 DEF Live
<1>6. \A i \in 1..Len(frames) : frames[i].closure \in kept
    <2>1. DOMAIN frames = 1..Len(frames)
        BY FramesProps
    <2> QED
        BY <1>3, <2>1 DEF Roots
<1>7. open_upvalues \subseteq kept
    BY <1>3 DEF Roots
<1>8. ASSUME NEW o \in kept, NEW i \in 1..Len(fields[o])
      PROVE  fields[o][i] \in kept \cup {Nil}
    <2>1. o \in heap /\ fields[o] \in Seq(Live)
        BY <1>3 DEF HeapTyped
    <2>2. fields[o][i] \in Live /\ i \in DOMAIN fields[o]
        BY <2>1
    <2>3. fields[o][i] \in Object => fields[o][i] \in refs[o]
        BY <2>1, <2>2, RefsProps DEF Pointers, Range
    <2> QED
        BY <1>1, <1>3, <2>2, <2>3 DEF Closed, Live
<1> QED
    BY <1>3, <1>4, <1>5, <1>6, <1>7, <1>8
-----------------------------------------------------------------------------
\* What the steps have in common

\* The frames stay as they are when their closures do and the stack keeps the slot
\* of the running one.
LEMMA SameFrames ==
    ASSUME Framed, Rooted, frames # <<>>, frames' = frames,
           \A i \in 1..Len(frames) :
                frames[i].closure \in heap' /\ kind'[frames[i].closure] = "closure",
           Len(stack') \in Nat, Frame.slots <= Len(stack')
    PROVE  Framed'
<1> DEFINE S == [closure : heap, slots : 1..StackSize]
           T == [closure : heap', slots : 1..StackSize]
<1>1. frames \in Seq(S)
    BY DEF Framed
<1>2. \A f \in S : f.closure \in heap' => f \in T
    OBVIOUS
<1>3. frames \in Seq(T)
    <2>1. \A i \in 1..Len(frames) : frames[i] \in S
        <3> HIDE DEF S
        <3> QED
            BY ONLY <1>1
    <2>2. \A i \in 1..Len(frames) : frames[i] \in T
        BY <1>2, <2>1
    <2> HIDE DEF S, T
    <2> QED
        BY ONLY <1>1, <2>2, SeqIn
<1>4. ASSUME NEW i \in 1..Len(frames)
      PROVE  frames[i].slots <= Len(stack')
    <2>1. frames[i].slots \in Nat /\ Frame.slots \in Nat /\ frames[i].slots <= Frame.slots
        BY FramesProps
    <2> QED
        BY <2>1
<1>5. Len(frames) <= FramesLimit /\ frames[1].slots = 1
      /\ \A i, j \in 1..Len(frames) : i < j => frames[i].slots < frames[j].slots
    BY DEF Framed
<1> QED
    BY <1>3, <1>4, <1>5 DEF Framed

\* The steps that make and free nothing, with what they do to the heap apart.
LEMMA SameObjects ==
    ASSUME IInv, frames # <<>>, HeapTyped', capturing' = FALSE,
           UNCHANGED <<heap, kind, location, open_upvalues, frames>>,
           stack' \in Seq(Live), Len(stack') <= StackSize, Frame.slots <= Len(stack'),
           \A u \in open_upvalues \ abandoned' : location[u] <= Len(stack'),
           globals' \in [Global -> Live \cup {Void}],
           x' \in Value, xSafe' => x' \in Live, xSafe' \in BOOLEAN
    PROVE  IInv'
<1>1. /\ heap' = heap /\ kind' = kind /\ location' = location
      /\ open_upvalues' = open_upvalues /\ frames' = frames
      /\ Live' = Live
    BY DEF Live
<1>2. Len(stack') \in Nat
    OBVIOUS
<1>3. Rooted'
    <2>1. \A u \in open_upvalues :
                u \in heap /\ kind[u] = "upvalue" /\ location[u] \in 2..StackSize
        BY DEF IInv, Rooted
    <2> QED
        BY <1>1, <2>1 DEF Rooted
<1>4. Framed'
    <2>1. Framed /\ Rooted
        BY DEF IInv
    <2>2. \A i \in 1..Len(frames) :
                frames[i].closure \in heap' /\ kind'[frames[i].closure] = "closure"
        BY <1>1, <2>1, FramesProps DEF Framed
    <2> QED
        BY ONLY <1>1, <1>2, <2>1, <2>2, frames # <<>>, Frame.slots <= Len(stack'), SameFrames
<1> QED
    BY <1>3, <1>4 DEF IInv, Constructing

\* The instructions that leave the heap as it is.
LEMMA SameHeap ==
    ASSUME IInv, Running, UNCHANGED <<heapVars, frames, capturing>>,
           stack' \in Seq(Live), Len(stack') <= StackSize, Frame.slots <= Len(stack'),
           \A u \in open_upvalues \ abandoned : location[u] <= Len(stack'),
           globals' \in [Global -> Live \cup {Void}],
           x' \in Value, xSafe' => x' \in Live, xSafe' \in BOOLEAN
    PROVE  IInv'
<1>1. /\ UNCHANGED <<heap, kind, location, open_upvalues, frames>> /\ capturing' = FALSE
      /\ frames # <<>> /\ abandoned' = abandoned
    BY DEF Running, heapVars, IInv, Constructing
<1>2. HeapTyped'
    BY DEF IInv, HeapTyped, Live, heapVars
<1> QED
    BY <1>1, <1>2, SameObjects

\* What pushing and dropping values makes of a stack.
LEMMA DropProps ==
    ASSUME NEW S, stack \in Seq(S), NEW n \in 0..Len(stack)
    PROVE  /\ Drop(n) \in Seq(S)
           /\ Len(Drop(n)) = Len(stack) - n
           /\ \A i \in 1..(Len(stack) - n) : Drop(n)[i] = stack[i]
           /\ \A i \in 0..(Len(stack) - 1) : Peek(i) \in S
<1>1. Len(stack) \in Nat /\ Len(stack) - n \in Nat
    OBVIOUS
<1>2. \A i \in 0..(Len(stack) - 1) : Len(stack) - i \in 1..Len(stack)
    BY <1>1
<1>3. \A i \in 0..(Len(stack) - 1) : Peek(i) \in S
    BY <1>2 DEF Peek
<1>4. \A i \in 1..(Len(stack) - n) : stack[i] \in S
    BY <1>1
<1>5. Len(Drop(n)) = Len(stack) - n
    <2>1. PICK m \in Nat : m = Len(stack) - n
        BY <1>1
    <2>2. Len(SubSeq(stack, 1, m)) = IF 1 <= m THEN m - 1 + 1 ELSE 0
        BY <1>1, <1>4, <2>1, SubSeqProperties
    <2> QED
        BY <2>1, <2>2 DEF Drop
<1> QED
    BY <1>1, <1>3, <1>4, <1>5, SubSeqProperties DEF Drop

\* A value is pushed on a stack that has room.
LEMMA PushProps ==
    ASSUME NEW S, NEW st \in Seq(S), NEW v \in S, Push(st, v)
    PROVE  /\ stack' \in Seq(S)
           /\ Len(stack') = Len(st) + 1
           /\ Len(st) < StackSize /\ Len(stack') <= StackSize
           /\ \A i \in 1..Len(st) : stack'[i] = st[i]
           /\ stack'[Len(st) + 1] = v
<1>1. Len(st) \in Nat /\ StackSize \in Nat
    BY MachineAssumption
<1> QED
    BY <1>1 DEF Push

\* Operands are above the slot of the running closure and no variable among them
\* is captured.
LEMMA OperandsProps ==
    ASSUME IInv, Running, NEW n \in Nat, Operands(n)
    PROVE  /\ n \in 0..Len(stack) /\ n < Len(stack)
           /\ Len(stack) \in Nat
           /\ Drop(n) \in Seq(Live)
           /\ Len(Drop(n)) = Len(stack) - n
           /\ \A i \in 1..(Len(stack) - n) : Drop(n)[i] = stack[i]
           /\ Frame.slots <= Len(stack) - n
           /\ Len(stack) - n <= StackSize
           /\ \A u \in open_upvalues \ abandoned : location[u] <= Len(stack) - n
           /\ \A i \in 0..n : Peek(i) \in Live
<1>1. Rooted /\ Framed /\ frames # <<>>
    BY DEF IInv, Running
<1>2. Len(stack) \in Nat /\ Frame.slots \in Nat \ {0} /\ Height = Len(stack) - Frame.slots + 1
    BY <1>1, FramesProps
<1>3. n < Height /\ \A u \in open_upvalues \ abandoned : location[u] <= Len(stack) - n
    BY DEF Operands
<1>4. n < Len(stack) /\ n \in 0..Len(stack) /\ Frame.slots <= Len(stack) - n
    BY <1>2, <1>3
<1>5. stack \in Seq(Live) /\ Len(stack) <= StackSize /\ StackSize \in Nat
    BY <1>1, MachineAssumption DEF Rooted
<1>6. \A i \in 0..n : i \in 0..(Len(stack) - 1)
    BY <1>2, <1>4
<1>7. /\ Drop(n) \in Seq(Live)
      /\ Len(Drop(n)) = Len(stack) - n
      /\ \A i \in 1..(Len(stack) - n) : Drop(n)[i] = stack[i]
      /\ \A i \in 0..(Len(stack) - 1) : Peek(i) \in Live
    BY ONLY <1>4, <1>5, DropProps
<1>8. Len(stack) - n <= StackSize
    BY ONLY <1>2, <1>5, n \in Nat
<1> QED
    BY ONLY <1>2, <1>3, <1>4, <1>6, <1>7, <1>8
\* The stack of a call that runs.
LEMMA StackProps ==
    ASSUME IInv, Running
    PROVE  /\ stack \in Seq(Live) /\ Len(stack) \in Nat /\ Len(stack) <= StackSize
           /\ Frame.slots \in Nat \ {0} /\ Frame.slots <= Len(stack)
           /\ \A u \in open_upvalues : location[u] \in Nat
           /\ \A u \in open_upvalues \ abandoned : location[u] <= Len(stack)
<1>1. Rooted /\ Framed /\ frames # <<>>
    BY DEF IInv, Running
<1>2. \A u \in open_upvalues : location[u] \in 2..StackSize
    BY <1>1 DEF Rooted
<1> QED
    BY <1>1, <1>2, FramesProps DEF Rooted

\* The roots besides the stack, and what the heap stays the same in.
Kept == UNCHANGED <<heapVars, frames, capturing>>
XLive == x' \in Value /\ (xSafe' => x' \in Live) /\ xSafe' \in BOOLEAN

\* x stays as live as it was.
LEMMA SameX ==
    ASSUME IInv, x' = x, xSafe' = xSafe
    PROVE  XLive
BY DEF IInv, Rooted, XLive

\* The globals hold live values or are not defined.
LEMMA SameGlobals ==
    ASSUME IInv
    PROVE  globals \in [Global -> Live \cup {Void}]
BY DEF IInv, Rooted

\* An instruction that drops operands and pushes a live value.
LEMMA PushKeeps ==
    ASSUME IInv, Running, Kept, XLive, globals' = globals,
           NEW st \in Seq(Live), NEW v \in Live, Push(st, v),
           Frame.slots <= Len(st), \A u \in open_upvalues \ abandoned : location[u] <= Len(st)
    PROVE  IInv'
<1>1. /\ stack' \in Seq(Live) /\ Len(stack') = Len(st) + 1 /\ Len(st) \in Nat
      /\ Len(stack') <= StackSize
    BY PushProps
<1>2. Frame.slots \in Nat /\ \A u \in open_upvalues : location[u] \in Nat
    BY StackProps
<1>3. Frame.slots <= Len(stack') /\ \A u \in open_upvalues \ abandoned : location[u] <= Len(stack')
    BY ONLY <1>1, <1>2, Frame.slots <= Len(st), \A u \in open_upvalues \ abandoned : location[u] <= Len(st)
<1>4. globals' \in [Global -> Live \cup {Void}]
    BY SameGlobals
<1> QED
    BY <1>1, <1>3, <1>4, SameHeap DEF Kept, XLive

\* A constant is pushed.
LEMMA PushPlainKeeps ==
    ASSUME IInv, PushPlain
    PROVE  IInv'
<1>1. Nil \in Live /\ Running /\ Kept /\ Push(stack, Nil) /\ globals' = globals /\ x' = x /\ xSafe' = xSafe
    BY DEF PushPlain, Live, Kept
<1> QED
    BY <1>1, StackProps, SameX, PushKeeps

\* OP_PUSH_X: without the hole, x is still live.
LEMMA PushXKeeps ==
    ASSUME ~UnrootedX, IInv, PushX
    PROVE  IInv'
<1>1. Running /\ Kept /\ Push(stack, x) /\ globals' = globals /\ x' = Nil /\ xSafe' = xSafe
    BY DEF PushX, Kept
<1>2. x \in Live
    BY DEF PushX, IInv, Rooted, Live
<1>3. XLive
    BY <1>1 DEF XLive, Value, Live, IInv, Rooted
<1> QED
    BY <1>1, <1>2, <1>3, StackProps, PushKeeps

\* An instruction that drops its operands.
LEMMA DropKeeps ==
    ASSUME IInv, Running, Kept, XLive, NEW n \in Nat, Operands(n), stack' = Drop(n),
           globals' \in [Global -> Live \cup {Void}]
    PROVE  IInv'
<1>1. /\ stack' \in Seq(Live) /\ Len(stack') = Len(stack) - n /\ Len(stack) - n <= StackSize
      /\ Frame.slots <= Len(stack) - n
      /\ \A u \in open_upvalues \ abandoned : location[u] <= Len(stack) - n
    BY OperandsProps
<1> QED
    BY <1>1, SameHeap DEF Kept, XLive

\* A live value is a value.
LEMMA LiveIsValue ==
    ASSUME IInv
    PROVE  Live \subseteq Value
BY DEF IInv, HeapTyped, Live, Value

\* OP_SAVE_X and OP_ASSERT.
LEMMA SaveXKeeps ==
    ASSUME IInv, SaveX
    PROVE  IInv'
<1>1. Running /\ Operands(1) /\ Kept /\ stack' = Drop(1) /\ globals' = globals /\ x' \in {Peek(0), Nil} /\ xSafe' = TRUE
    BY DEF SaveX, Kept
<1>2. Peek(0) \in Live
    BY <1>1, OperandsProps
<1>3. XLive
    BY <1>1, <1>2, LiveIsValue DEF XLive, Live
<1> QED
    BY <1>1, <1>3, SameGlobals, DropKeeps

\* OP_POP and the instructions that compute.
LEMMA PopKeeps ==
    ASSUME IInv, Pop
    PROVE  IInv'
<1>1. Running /\ Operands(1) /\ Kept /\ stack' = Drop(1) /\ globals' = globals /\ x' = x /\ xSafe' = xSafe
    BY DEF Pop, Kept
<1> QED
    BY <1>1, SameX, SameGlobals, DropKeeps

\* The slots a local variable may have.
LEMMA LocalProps ==
    ASSUME IInv, Running, NEW i \in 2..Height
    PROVE  Frame.slots + i - 1 \in 2..Len(stack)
<1>1. Rooted /\ Framed /\ frames # <<>>
    BY DEF IInv, Running
<1>2. Len(stack) \in Nat /\ Frame.slots \in Nat \ {0} /\ Height = Len(stack) - Frame.slots + 1
    BY <1>1, FramesProps
<1> QED
    BY ONLY <1>2, i \in 2..Height

\* OP_GET_LOCAL pushes the value of a variable of the running call.
LEMMA GetLocalKeeps ==
    ASSUME IInv, NEW i \in Nat, GetLocal(i)
    PROVE  IInv'
<1> DEFINE v == stack[Frame.slots + i - 1]
<1>1. Running /\ i \in 2..Height /\ Kept /\ Push(stack, v) /\ globals' = globals /\ x' = x /\ xSafe' = xSafe
    BY DEF GetLocal, Kept
<1>2. Frame.slots + i - 1 \in 1..Len(stack)
    BY <1>1, LocalProps
<1>3. v \in Live
    BY <1>1, <1>2, StackProps
<1> HIDE DEF v
<1> QED
    BY <1>1, <1>3, StackProps, SameX, PushKeeps

\* The value on top of the stack.
LEMMA TopProps ==
    ASSUME IInv, Running
    PROVE  Peek(0) \in Live /\ Peek(0) = stack[Len(stack)] /\ Len(stack) \in 1..Len(stack)
<1>1. stack \in Seq(Live) /\ Len(stack) \in Nat /\ Frame.slots \in Nat \ {0} /\ Frame.slots <= Len(stack)
    BY StackProps
<1>2. Len(stack) \in 1..Len(stack) /\ Len(stack) - 0 = Len(stack)
    BY ONLY <1>1
<1> QED
    BY <1>1, <1>2 DEF Peek

\* An instruction that changes one slot.
LEMMA AssignKeeps ==
    ASSUME IInv, Running, Kept, XLive, globals' = globals,
           NEW slot \in 1..Len(stack), NEW v \in Live, stack' = [stack EXCEPT ![slot] = v]
    PROVE  IInv'
<1>1. stack' \in Seq(Live) /\ Len(stack') = Len(stack)
    BY StackProps
<1> QED
    BY <1>1, StackProps, SameGlobals, SameHeap DEF Kept, XLive

\* OP_SET_LOCAL assigns the top of the stack to one.
LEMMA SetLocalKeeps ==
    ASSUME IInv, NEW i \in Nat, SetLocal(i)
    PROVE  IInv'
<1> DEFINE slot == Frame.slots + i - 1
<1>1. Running /\ i \in 2..Height /\ Kept /\ stack' = [stack EXCEPT ![slot] = Peek(0)] /\ globals' = globals /\ x' = x /\ xSafe' = xSafe
    BY DEF SetLocal, Kept
<1>2. slot \in 1..Len(stack)
    BY <1>1, LocalProps
<1>3. Peek(0) \in Live
    BY <1>1, TopProps
<1> HIDE DEF slot
<1> QED
    BY <1>1, <1>2, <1>3, SameX, AssignKeeps

\* OP_DEF_GLOBAL.
LEMMA DefGlobalKeeps ==
    ASSUME IInv, NEW g \in Global, DefGlobal(g)
    PROVE  IInv'
<1>1. Running /\ Operands(1) /\ Kept /\ stack' = Drop(1) /\ globals' = [globals EXCEPT ![g] = Peek(0)] /\ x' = x /\ xSafe' = xSafe
    BY DEF DefGlobal, Kept
<1>2. Peek(0) \in Live
    BY <1>1, TopProps
<1>3. globals' \in [Global -> Live \cup {Void}]
    BY <1>1, <1>2, SameGlobals
<1> QED
    BY <1>1, <1>3, SameX, DropKeeps

\* OP_SET_GLOBAL.
LEMMA SetGlobalKeeps ==
    ASSUME IInv, NEW g \in Global, SetGlobal(g)
    PROVE  IInv'
<1>1. Running /\ Kept /\ stack' = stack /\ globals' = [globals EXCEPT ![g] = Peek(0)] /\ x' = x /\ xSafe' = xSafe
    BY DEF SetGlobal, Kept
<1>2. Peek(0) \in Live
    BY <1>1, TopProps
<1>3. globals' \in [Global -> Live \cup {Void}]
    BY <1>1, <1>2, SameGlobals
<1> QED
    BY <1>1, <1>3, SameX, StackProps, SameHeap DEF Kept, XLive

\* OP_GET_GLOBAL.
LEMMA GetGlobalKeeps ==
    ASSUME IInv, NEW g \in Global, GetGlobal(g)
    PROVE  IInv'
<1>1. Running /\ Kept /\ Push(stack, globals[g]) /\ globals' = globals /\ x' = x /\ xSafe' = xSafe
    BY DEF GetGlobal, Kept
<1>2. globals[g] \in Live
    BY SameGlobals DEF GetGlobal
<1> QED
    BY <1>1, <1>2, StackProps, SameX, PushKeeps
-----------------------------------------------------------------------------
\* The instructions that read and write the fields of objects

\* The fields of an object that is allocated.
LEMMA FieldsProps ==
    ASSUME IInv, NEW o \in heap
    PROVE  /\ fields[o] \in Seq(Live) /\ Len(fields[o]) \in Nat
           /\ Len(fields[o]) <= 2 + MaxElements
           /\ DOMAIN fields[o] = 1..Len(fields[o])
           /\ kind[o] = "closure" =>
                \A u \in Range(fields[o]) : u \in heap /\ kind[u] = "upvalue"
<1>1. fields[o] \in Seq(Live) /\ Len(fields[o]) <= 2 + MaxElements
    BY DEF IInv, HeapTyped
<1>2. Len(fields[o]) \in Nat /\ DOMAIN fields[o] = 1..Len(fields[o])
    BY ONLY <1>1
<1>3. kind[o] = "closure" =>
            \A i \in 1..Len(fields[o]) : fields[o][i] \in heap /\ kind[fields[o][i]] = "upvalue"
    BY DEF IInv, HeapTyped
<1>4. ASSUME kind[o] = "closure", NEW u \in Range(fields[o])
      PROVE  u \in heap /\ kind[u] = "upvalue"
    <2>1. PICK i \in 1..Len(fields[o]) : u = fields[o][i]
        BY <1>2 DEF Range
    <2> QED
        BY <1>3, <1>4, <2>1
<1> QED
    BY <1>1, <1>2, <1>4

\* An object gets other fields.
LEMMA FieldsKept ==
    ASSUME IInv, UNCHANGED <<heap, kind, location, open_upvalues>>,
           NEW o \in heap, NEW f \in Seq(Live), fields' = [fields EXCEPT ![o] = f],
           Len(f) <= 2 + MaxElements,
           kind[o] = "closure" =>
                \A i \in 1..Len(f) : f[i] \in heap /\ kind[f[i]] = "upvalue",
           kind[o] = "upvalue" => Len(f) = 1
    PROVE  HeapTyped'
<1>1. fields \in [heap -> Seq(Live)]
    BY DEF IInv, HeapTyped
<1>2. fields' \in [heap -> Seq(Live)] /\ \A p \in heap : fields'[p] = IF p = o THEN f ELSE fields[p]
    <2> DEFINE S == Seq(Live)
    <2> HIDE DEF S
    <2> QED
        BY <1>1 DEF S
<1>3. \A p \in heap : Len(fields'[p]) <= 2 + MaxElements
    BY <1>2 DEF IInv, HeapTyped
<1>4. \A p \in heap : kind[p] = "closure" =>
            \A i \in 1..Len(fields'[p]) :
                fields'[p][i] \in heap /\ kind[fields'[p][i]] = "upvalue"
    BY <1>2 DEF IInv, HeapTyped
<1>5. \A p \in heap : kind[p] = "upvalue" => p \in open_upvalues \/ Len(fields'[p]) = 1
    BY <1>2 DEF IInv, HeapTyped
<1>6. heap' = heap /\ kind' = kind /\ location' = location /\ open_upvalues' = open_upvalues
    OBVIOUS
<1> HIDE DEF HeapTyped
<1> QED
    BY <1>2, <1>3, <1>4, <1>5, <1>6 DEF IInv, HeapTyped, Live

\* OP_INDEX_GET pushes an element of an array.
LEMMA IndexGetKeeps ==
    ASSUME IInv, NEW i \in Nat, IndexGet(i)
    PROVE  IInv'
<1> DEFINE v == fields[Peek(1)][i]
<1>1. /\ Running /\ Operands(2) /\ Kept /\ Push(Drop(2), v)
      /\ globals' = globals /\ x' = x /\ xSafe' = xSafe
      /\ Peek(1) \in Object /\ i \in DOMAIN fields[Peek(1)]
    BY DEF IndexGet, Kept, IsArray
<1>2. /\ Drop(2) \in Seq(Live) /\ Peek(1) \in Live
      /\ Len(Drop(2)) = Len(stack) - 2 /\ Frame.slots <= Len(stack) - 2
      /\ \A u \in open_upvalues \ abandoned : location[u] <= Len(stack) - 2
    BY <1>1, OperandsProps
<1>3. Peek(1) \in heap
    BY <1>1, <1>2, MachineAssumption DEF Live
<1>4. v \in Live
    BY <1>1, <1>3, FieldsProps
<1> HIDE DEF v
<1> QED
    BY <1>1, <1>2, <1>4, SameX, PushKeeps

\* OP_INDEX_SET replaces one: the array stays an array.
LEMMA IndexSetKeeps ==
    ASSUME IInv, NEW i \in Nat, IndexSet(i)
    PROVE  IInv'
<1> DEFINE o == Peek(2)
           v == Peek(0)
           f == [fields[o] EXCEPT ![i] = v]
<1>1. /\ Running /\ Operands(3) /\ Push(Drop(3), v) /\ o \in Object /\ kind[o] = "array"
      /\ i \in DOMAIN fields[o] /\ fields' = [fields EXCEPT ![o] = f]
    BY DEF IndexSet, IsArray
<1>2. /\ UNCHANGED <<heap, kind, location, open_upvalues, abandoned, frames>>
      /\ globals' = globals /\ x' = x /\ xSafe' = xSafe /\ capturing' = FALSE
      /\ frames # <<>>
    BY DEF IndexSet, Running, IInv, Constructing
<1>3. /\ Drop(3) \in Seq(Live) /\ o \in Live /\ v \in Live
      /\ Len(Drop(3)) = Len(stack) - 3 /\ Frame.slots <= Len(stack) - 3
      /\ \A u \in open_upvalues \ abandoned : location[u] <= Len(stack) - 3
    BY <1>1, OperandsProps
<1>4. o \in heap
    BY <1>1, <1>3, MachineAssumption DEF Live
<1>5. fields[o] \in Seq(Live) /\ Len(fields[o]) <= 2 + MaxElements
    BY <1>4, FieldsProps
<1>6. f \in Seq(Live) /\ Len(f) <= 2 + MaxElements
    BY ONLY <1>1, <1>3, <1>5
<1> HIDE DEF o, v, f
<1>7. HeapTyped'
    BY <1>1, <1>2, <1>4, <1>6, FieldsKept
<1>8. /\ stack' \in Seq(Live) /\ Len(stack') = Len(Drop(3)) + 1 /\ Len(stack') <= StackSize
    BY <1>1, <1>3, PushProps
<1>9. Frame.slots <= Len(stack') /\ \A u \in open_upvalues \ abandoned : location[u] <= Len(stack')
    BY <1>1, <1>3, <1>8, StackProps
<1> QED
    BY <1>2, <1>7, <1>8, <1>9, SameX, SameGlobals, SameObjects DEF XLive

\* OP_CLOSURE gives the closure on top an upvalue that exists.
LEMMA FillKeeps ==
    ASSUME IInv, capturing, NEW u \in heap, kind[u] = "upvalue",
           fields' = [fields EXCEPT ![Peek(0)] = <<u>>],
           UNCHANGED <<heap, kind, location, open_upvalues, frames, stack, globals, x, xSafe>>,
           capturing' = FALSE,
           \A w \in open_upvalues \ abandoned' : location[w] <= Len(stack)
    PROVE  IInv'
<1>1. Height > 1 /\ Peek(0) \in heap /\ kind[Peek(0)] = "closure" /\ frames # <<>>
    BY DEF IInv, Constructing, Framed
<1>2. <<u>> \in Seq(Live) /\ Len(<<u>>) = 1 /\ 1 <= 2 + MaxElements /\ \A i \in 1..1 : <<u>>[i] = u
    BY MachineAssumption DEF Live
<1>3. HeapTyped'
    BY <1>1, <1>2, FieldsKept
<1>4. stack \in Seq(Live) /\ Len(stack) <= StackSize /\ Frame.slots <= Len(stack)
    BY <1>1, FramesProps DEF IInv, Rooted
<1> QED
    BY <1>1, <1>3, <1>4, SameX, SameGlobals, SameObjects DEF XLive

\* That of a local variable is open, and belongs to the running call from then on.
LEMMA CaptureAgainKeeps ==
    ASSUME IInv, CaptureAgain
    PROVE  IInv'
<1>1. PICK u \in open_upvalues :
            /\ Local(u) /\ fields' = [fields EXCEPT ![Peek(0)] = <<u>>]
            /\ abandoned' = abandoned \ {u}
    BY DEF CaptureAgain
<1>2. /\ capturing /\ capturing' = FALSE
      /\ UNCHANGED <<heap, kind, location, open_upvalues, frames, stack, globals, x, xSafe>>
    BY DEF CaptureAgain
<1>3. u \in heap /\ kind[u] = "upvalue"
    BY DEF IInv, Rooted
<1>4. \A w \in open_upvalues \ abandoned' : location[w] <= Len(stack)
    <2>1. \A w \in open_upvalues \ abandoned : location[w] <= Len(stack)
        BY DEF IInv, Rooted
    <2>2. location[u] <= Len(stack)
        <3>1. frames # <<>>
            BY <1>2 DEF IInv, Framed
        <3>2. Len(stack) \in Nat /\ Frame.slots \in Nat
            BY <3>1, FramesProps DEF IInv
        <3> QED
            BY <1>1, <3>2 DEF Local
    <2> QED
        BY ONLY <1>1, <2>1, <2>2
<1> QED
    BY <1>1, <1>2, <1>3, <1>4, FillKeeps

\* That of a variable further out is the running closure's own.
LEMMA CaptureEnclosingKeeps ==
    ASSUME IInv, CaptureEnclosing
    PROVE  IInv'
<1>1. PICK u \in Range(fields[Frame.closure]) : fields' = [fields EXCEPT ![Peek(0)] = <<u>>]
    BY DEF CaptureEnclosing
<1>2. /\ capturing /\ capturing' = FALSE /\ abandoned' = abandoned
      /\ UNCHANGED <<heap, kind, location, open_upvalues, frames, stack, globals, x, xSafe>>
    BY DEF CaptureEnclosing
<1>3. frames # <<>>
    BY <1>2 DEF IInv, Framed
<1>4. u \in heap /\ kind[u] = "upvalue"
    BY <1>1, <1>3, FramesProps, FieldsProps DEF IInv
<1>5. \A w \in open_upvalues \ abandoned : location[w] <= Len(stack)
    BY DEF IInv, Rooted
<1> QED
    BY <1>1, <1>2, <1>4, <1>5, FillKeeps

\* What is read through an upvalue is live: its own value, or a slot of the stack,
\* unless the upvalue was left open by an error.
LEMMA DerefProps ==
    ASSUME ~UnrootedSlots, IInv, NEW u \in heap, kind[u] = "upvalue", Readable(u)
    PROVE  Deref(u) \in Live
<1>1. CASE u \in abandoned
    BY <1>1 DEF Readable, Live
<1>2. CASE u \notin open_upvalues
    <2>1. Len(fields[u]) = 1
        BY <1>2 DEF IInv, HeapTyped
    <2>2. fields[u] \in Seq(Live)
        BY FieldsProps
    <2>3. fields[u][1] \in Live
        BY ONLY <2>1, <2>2
    <2>4. Deref(u) = fields[u][1]
        BY ONLY <1>2 DEF Deref
    <2> QED
        BY ONLY <2>3, <2>4
<1>3. CASE u \in open_upvalues /\ u \notin abandoned
    <2>1. location[u] \in 2..StackSize /\ location[u] <= Len(stack) /\ stack \in Seq(Live)
        BY <1>3 DEF IInv, Rooted
    <2>2. location[u] \in 1..Len(stack)
        BY ONLY <2>1
    <2>3. location[u] \in DOMAIN stack /\ stack[location[u]] \in Live
        BY ONLY <2>1, <2>2
    <2> QED
        BY <1>3, <2>3 DEF Deref
<1> QED
    BY <1>1, <1>2, <1>3

\* The upvalues of the running closure.
LEMMA UpvalueProps ==
    ASSUME IInv, Running, NEW u \in Range(fields[Frame.closure])
    PROVE  u \in heap /\ kind[u] = "upvalue"
BY FramesProps, FieldsProps DEF IInv, Running

\* OP_GET_UPVALUE reads through one of them.
LEMMA GetUpvalueKeeps ==
    ASSUME ~UnrootedSlots, IInv, GetUpvalue
    PROVE  IInv'
<1>1. /\ Running /\ Kept /\ globals' = globals /\ x' = x /\ xSafe' = xSafe
    BY DEF GetUpvalue, Kept
<1>2. PICK u \in Range(fields[Frame.closure]) : Readable(u) /\ Push(stack, Deref(u))
    BY DEF GetUpvalue
<1>3. Deref(u) \in Live
    BY <1>1, <1>2, UpvalueProps, DerefProps
<1> QED
    BY <1>1, <1>2, <1>3, StackProps, SameX, PushKeeps

\* OP_SET_UPVALUE assigns to the upvalue's own value or to a slot, of the stack or
\* above it.
LEMMA SetUpvalueKeeps ==
    ASSUME IInv, SetUpvalue
    PROVE  IInv'
<1>1. /\ Running /\ UNCHANGED <<heap, kind, location, open_upvalues, abandoned, frames>>
      /\ globals' = globals /\ x' = x /\ xSafe' = xSafe /\ capturing' = capturing
    BY DEF SetUpvalue
<1>2. PICK u \in Range(fields[Frame.closure]) :
        \/ u \notin open_upvalues /\ fields' = [fields EXCEPT ![u] = <<Peek(0)>>] /\ stack' = stack
        \/ /\ location[u] \in DOMAIN stack /\ fields' = fields
           /\ stack' = [stack EXCEPT ![location[u]] = Peek(0)]
        \/ stack' = stack /\ fields' = fields
    BY DEF SetUpvalue
<1>3. Peek(0) \in Live
    BY <1>1, TopProps
<1>4. CASE u \notin open_upvalues /\ fields' = [fields EXCEPT ![u] = <<Peek(0)>>] /\ stack' = stack
    <2>1. u \in heap /\ kind[u] = "upvalue"
        BY <1>1, <1>2, UpvalueProps
    <2>2. <<Peek(0)>> \in Seq(Live) /\ Len(<<Peek(0)>>) = 1 /\ 1 <= 2 + MaxElements
        BY <1>3, MachineAssumption
    <2>3. HeapTyped'
        BY <1>1, <1>4, <2>1, <2>2, FieldsKept
    <2>4. capturing' = FALSE /\ frames # <<>>
        BY <1>1 DEF Running, IInv, Constructing
    <2> QED
        BY <1>1, <1>4, <2>3, <2>4, SameX, SameGlobals, StackProps, SameObjects DEF XLive
<1>5. CASE location[u] \in DOMAIN stack /\ fields' = fields
           /\ stack' = [stack EXCEPT ![location[u]] = Peek(0)]
    <2>1. Kept
        BY <1>1, <1>5 DEF Kept, heapVars
    <2>2. location[u] \in 1..Len(stack)
        BY <1>5, <1>1, StackProps
    <2> QED
        BY <1>1, <1>3, <1>5, <2>1, <2>2, SameX, AssignKeeps
<1>6. CASE stack' = stack /\ fields' = fields
    <2>1. Kept
        BY <1>1, <1>6 DEF Kept, heapVars
    <2> QED
        BY <1>1, <1>6, <2>1, SameX, SameGlobals, StackProps, SameHeap DEF Kept, XLive
<1> QED
    BY <1>2, <1>4, <1>5, <1>6
-----------------------------------------------------------------------------
\* The instructions that allocate

\* What is kept of the heap by an allocation: no pointer leaves it, and it has the
\* closures of the frames, the globals and the open upvalues.
Intact(kept) ==
    /\ kept \subseteq heap
    /\ open_upvalues \subseteq kept
    /\ \A g \in Global : globals[g] \in kept \cup {Nil, Void}
    /\ \A i \in 1..Len(frames) : frames[i].closure \in kept
    /\ \A p \in kept : \A i \in 1..Len(fields[p]) : fields[p][i] \in kept \cup {Nil}

\* What location may be.
Place == 1..StackSize \cup {Itself}

\* The objects that are kept stay as they are beside the new one.
Made(kept, o, k, at) ==
    /\ heap' = kept \cup {o} /\ o \in Object /\ o \notin kept
    /\ heap' \subseteq Object
    /\ kind' \in [heap' -> Kind]
    /\ location' \in [heap' -> Place]
    /\ \A p \in kept : kind'[p] = kind[p] /\ location'[p] = location[p]
    /\ kind'[o] = k /\ location'[o] = at

\* What allocate() and the constructor of an object do.
LEMMA MakeProps ==
    ASSUME IInv, NEW kept, Intact(kept), NEW o, NEW k \in Kind, NEW at \in Place,
           Make(kept, o, k, at)
    PROVE  Made(kept, o, k, at)
<1>1. /\ kept \subseteq heap /\ heap \subseteq Object /\ kind \in [heap -> Kind]
      /\ location \in [heap -> Place]
    BY DEF Intact, IInv, HeapTyped, Place
<1>2. /\ o \in Object \ kept
      /\ heap' = kept \cup {o}
      /\ kind' = [p \in kept \cup {o} |-> IF p = o THEN k ELSE kind[p]]
      /\ location' = [p \in kept \cup {o} |-> IF p = o THEN at ELSE location[p]]
    BY DEF Make
<1> QED
    BY ONLY <1>1, <1>2, k \in Kind, at \in Place DEF Made

\* The heap after an allocation: what is kept has its fields, the new object has
\* those it is given.
LEMMA MakeTyped ==
    ASSUME IInv, NEW kept, Intact(kept), NEW o,
           NEW k \in Kind \ {"upvalue"}, Make(kept, o, k, Itself),
           NEW f \in Seq(kept \cup {Nil}), Len(f) <= 2 + MaxElements,
           k = "closure" => f = <<>>,
           fields' = Fill(kept, o, f), open_upvalues' = open_upvalues
    PROVE  HeapTyped'
<1> DEFINE L == kept \cup {o} \cup {Nil}
<1>1. /\ heap' = kept \cup {o} /\ o \notin kept /\ heap' \subseteq Object
      /\ kind' \in [heap' -> Kind]
      /\ location' \in [heap' -> Place]
      /\ \A p \in kept : kind'[p] = kind[p]
      /\ kind'[o] = k
    <2>1. Itself \in Place /\ k \in Kind
        BY DEF Place
    <2>2. Made(kept, o, k, Itself)
        BY <2>1, MakeProps
    <2> QED
        BY <2>2 DEF Made
<1>2. kept \subseteq heap
    BY DEF Intact
<1>3. f \in Seq(L) /\ \A p \in kept : fields[p] \in Seq(L)
    <2>1. \A i \in 1..Len(f) : f[i] \in L
        OBVIOUS
    <2>2. ASSUME NEW p \in kept
          PROVE  fields[p] \in Seq(L)
        <3>1. fields[p] \in Seq(Live)
            BY <1>2, FieldsProps
        <3>2. \A i \in 1..Len(fields[p]) : fields[p][i] \in L
            BY DEF Intact
        <3> QED
            BY ONLY <3>1, <3>2, SeqIn
    <2> QED
        BY ONLY <2>1, <2>2, f \in Seq(kept \cup {Nil}), SeqIn
<1>4. /\ fields' = [p \in kept \cup {o} |-> IF p = o THEN f ELSE fields[p]]
      /\ \A p \in kept : fields'[p] = fields[p]
      /\ fields'[o] = f
    BY <1>1 DEF Fill
<1>5. fields' \in [heap' -> Seq(L)]
    <2> DEFINE SL == Seq(L)
    <2>1. f \in SL /\ \A p \in kept : fields[p] \in SL
        BY <1>3
    <2> HIDE DEF SL
    <2>2. fields' \in [kept \cup {o} -> SL]
        BY ONLY <1>4, <2>1
    <2> QED
        BY <2>2, <1>1 DEF SL
<1>6. ASSUME NEW p \in heap'
      PROVE  Len(fields'[p]) <= 2 + MaxElements
    <2>1. \A q \in kept : Len(fields[q]) <= 2 + MaxElements
        BY <1>2, FieldsProps
    <2> QED
        BY ONLY <1>1, <1>4, <1>6, <2>1, Len(f) <= 2 + MaxElements
<1>7. ASSUME NEW p \in heap', kind'[p] = "closure", NEW i \in 1..Len(fields'[p])
      PROVE  fields'[p][i] \in heap' /\ kind'[fields'[p][i]] = "upvalue"
    <2>1. CASE p = o
        <3>1. k = "closure" /\ fields'[p] = <<>>
            BY ONLY <1>1, <1>4, <1>7, <2>1, k = "closure" => f = <<>>
        <3>2. Len(<<>>) = 0
            OBVIOUS
        <3> QED
            BY ONLY <1>7, <3>1, <3>2
    <2>2. CASE p \in kept
        <3>1. fields'[p] = fields[p] /\ kind[p] = "closure" /\ p \in heap
            BY ONLY <1>1, <1>2, <1>4, <1>7, <2>2
        <3>2. fields[p][i] \in heap /\ kind[fields[p][i]] = "upvalue"
            BY <3>1, <1>7 DEF IInv, HeapTyped
        <3>3. fields[p][i] \in kept \cup {Nil}
            BY <3>1, <1>7, <2>2 DEF Intact
        <3>4. fields[p][i] \in kept
            BY <3>2, <3>3, MachineAssumption DEF IInv, HeapTyped
        <3> QED
            BY ONLY <1>1, <3>1, <3>2, <3>4
    <2> QED
        BY ONLY <1>1, <1>7, <2>1, <2>2
<1>8. ASSUME NEW p \in heap', kind'[p] = "upvalue"
      PROVE  p \in open_upvalues' \/ Len(fields'[p]) = 1
    <2>1. p \in kept /\ kind[p] = "upvalue" /\ p \in heap
        BY ONLY <1>1, <1>2, <1>8, k \in Kind \ {"upvalue"}
    <2>2. p \in open_upvalues \/ Len(fields[p]) = 1
        BY <2>1 DEF IInv, HeapTyped
    <2> QED
        BY ONLY <1>4, <2>1, <2>2, open_upvalues' = open_upvalues
<1>9. Live' = L
    BY ONLY <1>1 DEF Live
<1> HIDE DEF L
<1> QED
    BY ONLY <1>1, <1>5, <1>6, <1>7, <1>8, <1>9 DEF HeapTyped, Place

\* The roots after an allocation.
LEMMA MakeRooted ==
    ASSUME IInv, NEW kept, Intact(kept), NEW o, NEW k \in Kind,
           NEW at \in Place, Make(kept, o, k, at),
           frames # <<>>, UNCHANGED <<x, globals, frames, abandoned>>,
           stack' \in Seq(kept \cup {o} \cup {Nil}), Len(stack') <= StackSize,
           Frame.slots <= Len(stack'),
           \A u \in open_upvalues \ abandoned : location[u] <= Len(stack'),
           open_upvalues' = open_upvalues
           \/ /\ open_upvalues' = open_upvalues \cup {o}
              /\ k = "upvalue" /\ at \in 2..Len(stack')
    PROVE  Rooted' /\ Framed'
<1>1. /\ heap' = kept \cup {o} /\ o \notin kept
      /\ \A p \in kept : kind'[p] = kind[p] /\ location'[p] = location[p]
      /\ kind'[o] = k /\ location'[o] = at
    <2>1. Made(kept, o, k, at)
        BY MakeProps
    <2> QED
        BY <2>1 DEF Made
<1>2. Live' = kept \cup {o} \cup {Nil}
    BY <1>1 DEF Live
<1>3. globals' \in [Global -> Live' \cup {Void}]
    <2>1. globals \in [Global -> Live \cup {Void}] /\ \A g \in Global : globals[g] \in kept \cup {Nil, Void}
        BY SameGlobals DEF Intact
    <2> QED
        BY ONLY <1>2, <2>1, globals' = globals
<1>4. x' \in Value /\ (xSafe' => x' \in Live') /\ xSafe' \in BOOLEAN
    <2>2. xSafe' = (xSafe /\ kept = heap)
        BY DEF Make
    <2>1. x \in Value /\ (xSafe => x \in heap \cup {Nil}) /\ xSafe \in BOOLEAN
        BY DEF IInv, Rooted, Live
    <2> QED
        BY ONLY <1>1, <1>2, <2>1, <2>2, x' = x
<1>5. Len(stack') \in Nat
    OBVIOUS
<1>6. ASSUME NEW u \in open_upvalues'
      PROVE  /\ u \in heap' /\ kind'[u] = "upvalue" /\ location'[u] \in 2..StackSize
             /\ u \notin abandoned' => location'[u] <= Len(stack')
    <2>1. CASE u \in open_upvalues
        <3>1. u \in kept /\ kind[u] = "upvalue" /\ location[u] \in 2..StackSize
            BY <2>1 DEF Intact, IInv, Rooted
        <3>2. u \notin abandoned => location[u] <= Len(stack')
            BY <2>1
        <3> QED
            BY ONLY <1>1, <3>1, <3>2, abandoned' = abandoned
    <2>2. CASE u = o /\ k = "upvalue" /\ at \in 2..Len(stack')
        BY ONLY <1>1, <1>5, <2>2, Len(stack') <= StackSize, MachineAssumption
    <2> QED
        BY <1>6, <2>1, <2>2
<1>7. Rooted'
    BY <1>2, <1>3, <1>4, <1>6 DEF Rooted
<1>8. Framed'
    <2>1. \A i \in 1..Len(frames) : frames[i].closure \in kept
        BY DEF Intact
    <2>2. \A i \in 1..Len(frames) : kind[frames[i].closure] = "closure"
        BY DEF IInv, Framed
    <2>3. \A i \in 1..Len(frames) :
                frames[i].closure \in heap' /\ kind'[frames[i].closure] = "closure"
        BY ONLY <1>1, <2>1, <2>2
    <2>4. Framed /\ Rooted
        BY DEF IInv
    <2> QED
        BY ONLY <1>5, <2>3, <2>4, frames # <<>>, frames' = frames, Frame.slots <= Len(stack'), SameFrames
<1> QED
    BY <1>7, <1>8

\* A collection, or none, keeps what has to be kept.
LEMMA SurvivorsIntact ==
    ASSUME IInv, NEW st \in Seq(Live), NEW kept \in Survivors(st)
    PROVE  Intact(kept) /\ \A i \in 1..Len(st) : st[i] \in kept \cup {Nil}
BY SurvivorsProps DEF IInv, Intact

\* An instruction that leaves a new object on top of the stack.
LEMMA MakeKeeps ==
    ASSUME IInv, Running, NEW kept, Intact(kept), NEW o,
           NEW k \in Kind \ {"upvalue"}, Make(kept, o, k, Itself),
           NEW f \in Seq(kept \cup {Nil}), Len(f) <= 2 + MaxElements,
           k = "closure" => f = <<>>, fields' = Fill(kept, o, f),
           NEW st \in Seq(kept \cup {Nil}), Push(st, o), Frame.slots <= Len(st),
           \A u \in open_upvalues \ abandoned : location[u] <= Len(st),
           UNCHANGED <<x, globals, frames, open_upvalues, abandoned>>
    PROVE  HeapTyped' /\ Rooted' /\ Framed'
<1> DEFINE L == kept \cup {o} \cup {Nil}
<1>1. HeapTyped'
    BY MakeTyped
<1>2. st \in Seq(L) /\ o \in L
    <2>1. \A i \in 1..Len(st) : st[i] \in L
        OBVIOUS
    <2> QED
        BY ONLY <2>1, st \in Seq(kept \cup {Nil}), SeqIn
<1>3. stack' \in Seq(L) /\ Len(stack') <= StackSize /\ Len(stack') = Len(st) + 1 /\ Len(st) \in Nat
    BY <1>2, PushProps
<1>4. Frame.slots \in Nat /\ \A u \in open_upvalues : location[u] \in Nat
    BY StackProps
<1>5. Frame.slots <= Len(stack') /\ \A u \in open_upvalues \ abandoned : location[u] <= Len(stack')
    BY <1>3, <1>4
<1>6. frames # <<>> /\ Itself \in Place /\ k \in Kind
    BY DEF Running, Place
<1> QED
    BY ONLY IInv, Intact(kept), Make(kept, o, k, Itself), UNCHANGED <<x, globals, frames, abandoned>>,
            open_upvalues' = open_upvalues, <1>1, <1>3, <1>5, <1>6, MakeRooted

\* OP_CONS: without the hole, the values it pops outlive the collection.
LEMMA MakePairKeeps ==
    ASSUME ~UnrootedCons, IInv, MakePair
    PROVE  IInv'
<1>1. PICK kept \in Survivors(Drop(2)), o \in Object :
        /\ Pointers(<<Peek(0), Peek(1)>>) \subseteq kept
        /\ Make(kept, o, "pair", Itself)
        /\ fields' = Fill(kept, o, <<Peek(1), Peek(0)>>)
        /\ Push(Drop(2), o)
    BY DEF MakePair
<1>2. Running /\ Operands(2) /\ UNCHANGED <<x, globals, frames, open_upvalues, capturing, abandoned>>
    BY DEF MakePair
<1>3. /\ Drop(2) \in Seq(Live) /\ Frame.slots <= Len(stack) - 2 /\ Len(Drop(2)) = Len(stack) - 2
      /\ \A u \in open_upvalues \ abandoned : location[u] <= Len(stack) - 2
      /\ Peek(0) \in Live /\ Peek(1) \in Live
    BY <1>2, OperandsProps
<1>4. Intact(kept) /\ \A i \in 1..Len(Drop(2)) : Drop(2)[i] \in kept \cup {Nil}
    BY <1>1, <1>3, SurvivorsIntact
<1>5. Drop(2) \in Seq(kept \cup {Nil})
    BY ONLY <1>3, <1>4, SeqIn
<1>6. Peek(0) \in kept \cup {Nil} /\ Peek(1) \in kept \cup {Nil}
    <2>1. Range(<<Peek(0), Peek(1)>>) = {Peek(0), Peek(1)}
        BY DEF Range
    <2>2. heap \subseteq Object
        BY DEF IInv, HeapTyped
    <2> QED
        BY <1>1, <1>3, <2>1, <2>2 DEF Pointers, Live
<1> DEFINE f == <<Peek(1), Peek(0)>>
<1>7. f \in Seq(kept \cup {Nil}) /\ Len(f) <= 2 + MaxElements
    BY <1>6, MachineAssumption
<1>8. "pair" \in Kind \ {"upvalue"} /\ "pair" # "closure"
    BY DEF Kind
<1> DEFINE st == Drop(2)
<1>9. /\ st \in Seq(kept \cup {Nil}) /\ Push(st, o) /\ Frame.slots <= Len(st)
      /\ \A u \in open_upvalues \ abandoned : location[u] <= Len(st)
      /\ fields' = Fill(kept, o, f)
    BY <1>1, <1>3, <1>5
<1> HIDE DEF f, st
<1>10. HeapTyped' /\ Rooted' /\ Framed'
    BY <1>1, <1>2, <1>4, <1>7, <1>8, <1>9, MakeKeeps
<1>11. capturing' = FALSE
    BY <1>2 DEF Running, IInv, Constructing
<1> QED
    BY <1>10, <1>11 DEF IInv, Constructing

\* OP_ARRAY and OP_MAP: the elements outlive the collection on the stack.
LEMMA MakeCollectionKeeps ==
    ASSUME IInv, NEW k \in Collections, NEW n \in 0..MaxElements, MakeCollection(k, n)
    PROVE  IInv'
<1> DEFINE f == SubSeq(stack, Len(stack) - n + 1, Len(stack))
           st == Drop(n)
<1>1. PICK kept \in Survivors(stack), o \in Object :
        Make(kept, o, k, Itself) /\ fields' = Fill(kept, o, f) /\ Push(st, o)
    BY DEF MakeCollection
<1>2. Running /\ Operands(n) /\ UNCHANGED <<x, globals, frames, open_upvalues, capturing, abandoned>>
    BY DEF MakeCollection
<1>3. /\ st \in Seq(Live) /\ Frame.slots <= Len(stack) - n /\ Len(st) = Len(stack) - n
      /\ \A u \in open_upvalues \ abandoned : location[u] <= Len(stack) - n
      /\ \A i \in 1..(Len(stack) - n) : st[i] = stack[i]
      /\ n \in 0..Len(stack) /\ n \in Nat /\ Len(stack) \in Nat
    BY <1>2, MachineAssumption, OperandsProps
<1>4. stack \in Seq(Live)
    BY <1>2, StackProps
<1>5. Intact(kept) /\ \A i \in 1..Len(stack) : stack[i] \in kept \cup {Nil}
    BY <1>1, <1>4, SurvivorsIntact
<1>6. st \in Seq(kept \cup {Nil})
    <2>1. \A i \in 1..Len(st) : i \in 1..Len(stack) /\ st[i] = stack[i]
        BY ONLY <1>3
    <2> QED
        BY ONLY <1>3, <1>5, <2>1, SeqIn
<1>7. f \in Seq(kept \cup {Nil}) /\ Len(f) = n
    <2>1. stack \in Seq(kept \cup {Nil}) /\ Len(stack) - n + 1 \in 1..(Len(stack) + 1)
        BY ONLY <1>3, <1>4, <1>5, SeqIn
    <2>2. f \in Seq(kept \cup {Nil}) /\ Len(f) = Len(stack) + 1 - (Len(stack) - n + 1)
        BY ONLY <2>1, SuffixProps
    <2> QED
        BY ONLY <1>3, <2>2
<1>8. k \in Kind \ {"upvalue"} /\ k # "closure" /\ Len(f) <= 2 + MaxElements
    BY <1>7, MachineAssumption DEF Kind
<1> HIDE DEF f, st
<1>9. Frame.slots <= Len(st) /\ \A u \in open_upvalues \ abandoned : location[u] <= Len(st)
    BY <1>3
<1>10. HeapTyped' /\ Rooted' /\ Framed'
    BY <1>1, <1>2, <1>5, <1>6, <1>7, <1>8, <1>9, MakeKeeps
<1>11. capturing' = FALSE
    BY <1>2 DEF Running, IInv, Constructing
<1> QED
    BY <1>10, <1>11 DEF IInv, Constructing

\* OP_CLOSURE: the new closure is on top until its upvalues are there.
LEMMA MakeClosureKeeps ==
    ASSUME IInv, NEW c \in BOOLEAN, MakeClosure(c)
    PROVE  IInv'
<1>1. PICK kept \in Survivors(stack), o \in Object :
        Make(kept, o, "closure", Itself) /\ fields' = Fill(kept, o, <<>>) /\ Push(stack, o)
    BY DEF MakeClosure
<1>2. Running /\ UNCHANGED <<x, globals, frames, open_upvalues, abandoned>> /\ capturing' = c
    BY DEF MakeClosure
<1>3. /\ stack \in Seq(Live) /\ Frame.slots <= Len(stack) /\ Len(stack) \in Nat
      /\ Frame.slots \in Nat
      /\ \A u \in open_upvalues \ abandoned : location[u] <= Len(stack)
    BY <1>2, StackProps
<1>4. Intact(kept) /\ \A i \in 1..Len(stack) : stack[i] \in kept \cup {Nil}
    BY <1>1, <1>3, SurvivorsIntact
<1>5. stack \in Seq(kept \cup {Nil})
    BY ONLY <1>3, <1>4, SeqIn
<1>6. "closure" \in Kind \ {"upvalue"} /\ <<>> \in Seq(kept \cup {Nil}) /\ Len(<<>>) <= 2 + MaxElements
    BY MachineAssumption DEF Kind
<1>7. HeapTyped' /\ Rooted' /\ Framed'
    BY <1>1, <1>2, <1>3, <1>4, <1>5, <1>6, MakeKeeps
<1>8. stack' \in Seq(Live \cup {o}) /\ Len(stack') = Len(stack) + 1 /\ stack'[Len(stack) + 1] = o
    <2>1. \A i \in 1..Len(stack) : stack[i] \in Live \cup {o}
        BY <1>3
    <2>2. stack \in Seq(Live \cup {o}) /\ o \in Live \cup {o}
        BY ONLY <1>3, <2>1, SeqIn
    <2> QED
        BY ONLY <1>1, <2>2, PushProps
<1>9. Peek(0)' = o /\ Height' > 1
    <2>1. (Len(stack') - 0) = Len(stack) + 1
        BY ONLY <1>3, <1>8
    <2>2. Frame' = Frame
        BY <1>2 DEF Frame
    <2>3. Len(stack') - Frame.slots + 1 > 1
        BY ONLY <1>3, <1>8
    <2> QED
        BY <1>8, <2>1, <2>2, <2>3 DEF Peek, Height
<1>10. o \in heap' /\ kind'[o] = "closure"
    <2>1. "closure" \in Kind /\ Itself \in Place
        BY DEF Kind, Place
    <2>2. Made(kept, o, "closure", Itself)
        BY <1>1, <1>4, <2>1, MakeProps
    <2> QED
        BY ONLY <2>2 DEF Made
<1>11. Constructing'
    BY <1>2, <1>9, <1>10 DEF Constructing
<1> QED
    BY <1>7, <1>11 DEF IInv

\* capture_upvalue: the new upvalue is found from the list of open upvalues, then
\* from the closure, which outlives the collection on top of the stack.
LEMMA CaptureFirstKeeps ==
    ASSUME IInv, NEW i \in Nat, CaptureFirst(i)
    PROVE  IInv'
<1> DEFINE slot == Frame.slots + i - 1
           c == Peek(0)
<1>1. PICK kept \in Survivors(stack), o \in Object :
        /\ Make(kept, o, "upvalue", slot)
        /\ fields' = [Fill(kept, o, <<>>) EXCEPT ![c] = <<o>>]
        /\ open_upvalues' = open_upvalues \cup {o}
    BY DEF CaptureFirst
<1>2. capturing /\ i \in 2..Height /\ UNCHANGED <<stack, x, globals, frames, abandoned>> /\ capturing' = FALSE
    BY DEF CaptureFirst
<1>3. Height > 1 /\ c \in heap /\ kind[c] = "closure" /\ frames # <<>>
    BY <1>2 DEF IInv, Constructing, Framed
<1>4. /\ Len(stack) \in Nat /\ Frame.slots \in Nat \ {0} /\ Frame.slots <= Len(stack)
      /\ Height = Len(stack) - Frame.slots + 1
    BY <1>3, FramesProps DEF IInv
<1>5. /\ stack \in Seq(Live) /\ Len(stack) <= StackSize
      /\ \A u \in open_upvalues \ abandoned : location[u] <= Len(stack)
    BY DEF IInv, Rooted
<1>6. slot \in 2..Len(stack)
    BY ONLY <1>2, <1>4
<1>7. Intact(kept) /\ \A j \in 1..Len(stack) : stack[j] \in kept \cup {Nil}
    BY <1>1, <1>5, SurvivorsIntact
<1>8. c \in kept
    <2>1. Len(stack) \in 1..Len(stack) /\ c = stack[Len(stack)]
        BY <1>4 DEF Peek
    <2>2. c # Nil
        BY <1>3, MachineAssumption DEF IInv, HeapTyped
    <2> QED
        BY ONLY <1>7, <2>1, <2>2
<1>9. "upvalue" \in Kind /\ slot \in Place
    <2>1. slot \in 1..StackSize
        BY ONLY <1>4, <1>5, <1>6, MachineAssumption
    <2> QED
        BY ONLY <2>1 DEF Kind, Place
<1>10. Made(kept, o, "upvalue", slot)
    <2> HIDE DEF slot
    <2> QED
        BY <1>1, <1>7, <1>9, MakeProps
<1> HIDE DEF c, slot
<1> DEFINE L == kept \cup {o} \cup {Nil}
<1>11. /\ heap' = kept \cup {o} /\ o \notin kept /\ heap' \subseteq Object
       /\ kind' \in [heap' -> Kind] /\ location' \in [heap' -> Place]
       /\ \A p \in kept : kind'[p] = kind[p]
       /\ kind'[o] = "upvalue" /\ kept \subseteq heap
    BY ONLY <1>7, <1>10 DEF Made, Intact
<1>12. /\ DOMAIN fields' = kept \cup {o}
       /\ fields'[c] = <<o>> /\ fields'[o] = <<>>
       /\ \A p \in kept : p # c => fields'[p] = fields[p]
    <2>1. /\ Fill(kept, o, <<>>) = [p \in kept \cup {o} |-> IF p = o THEN <<>> ELSE fields[p]]
          /\ fields' = [Fill(kept, o, <<>>) EXCEPT ![c] = <<o>>]
        BY <1>1 DEF Fill
    <2> QED
        BY ONLY <1>8, <1>11, <2>1
<1>13. ASSUME NEW p \in heap'
       PROVE  /\ fields'[p] \in Seq(L) /\ Len(fields'[p]) <= 2 + MaxElements
              /\ kind'[p] = "closure" => \A j \in 1..Len(fields'[p]) :
                    fields'[p][j] \in heap' /\ kind'[fields'[p][j]] = "upvalue"
              /\ kind'[p] = "upvalue" => p \in open_upvalues' \/ Len(fields'[p]) = 1
    <2>1. CASE p = c
        <3>1. /\ <<o>> \in Seq(L) /\ Len(<<o>>) = 1 /\ 1 <= 2 + MaxElements
              /\ \A j \in 1..1 : <<o>>[j] = o
            BY MachineAssumption
        <3>2. kind'[p] = "closure" /\ fields'[p] = <<o>>
            BY ONLY <1>3, <1>8, <1>11, <1>12, <2>1
        <3>3. o \in heap' /\ "closure" # "upvalue"
            BY ONLY <1>11
        <3> HIDE DEF L
        <3> QED
            BY ONLY <1>11, <3>1, <3>2, <3>3
    <2>2. CASE p = o
        <3>1. fields'[p] = <<>> /\ kind'[p] = "upvalue" /\ p \in open_upvalues'
            BY <1>1, <1>11, <1>12, <2>2
        <3>2. <<>> \in Seq(L) /\ Len(<<>>) = 0 /\ 0 <= 2 + MaxElements
            BY MachineAssumption
        <3> HIDE DEF L
        <3> QED
            BY ONLY <3>1, <3>2
    <2>3. CASE p \in kept /\ p # c
        <3>1. fields'[p] = fields[p] /\ kind'[p] = kind[p] /\ p \in heap
            BY ONLY <1>11, <1>12, <2>3
        <3>2. /\ fields[p] \in Seq(Live) /\ Len(fields[p]) <= 2 + MaxElements
              /\ kind[p] = "closure" => \A j \in 1..Len(fields[p]) :
                    fields[p][j] \in heap /\ kind[fields[p][j]] = "upvalue"
              /\ kind[p] = "upvalue" => p \in open_upvalues \/ Len(fields[p]) = 1
            BY <3>1 DEF IInv, HeapTyped
        <3>3. \A j \in 1..Len(fields[p]) : fields[p][j] \in kept \cup {Nil}
            BY <1>7, <2>3 DEF Intact
        <3>4. fields[p] \in Seq(L)
            <4>1. \A j \in 1..Len(fields[p]) : fields[p][j] \in L
                BY <3>3
            <4> QED
                BY ONLY <3>2, <4>1, SeqIn
        <3>5. kind[p] = "closure" => \A j \in 1..Len(fields[p]) : fields[p][j] \in kept
            BY ONLY <3>2, <3>3, <1>11, MachineAssumption, HeapTyped, IInv DEF IInv, HeapTyped
        <3>6. kind[p] = "closure" => \A j \in 1..Len(fields[p]) :
                    fields[p][j] \in heap' /\ kind'[fields[p][j]] = "upvalue"
            BY ONLY <1>11, <3>2, <3>5
        <3>7. open_upvalues \subseteq open_upvalues'
            BY <1>1
        <3> HIDE DEF L
        <3> QED
            BY ONLY <3>1, <3>2, <3>4, <3>6, <3>7
    <2> QED
        BY ONLY <1>11, <1>13, <2>1, <2>2, <2>3
<1>14. HeapTyped'
    <2>1. fields' \in [heap' -> Seq(L)]
        <3>1. fields' = [p \in heap' |-> fields'[p]]
            <4>1. Fill(kept, o, <<>>) = [p \in kept \cup {o} |-> IF p = o THEN <<>> ELSE fields[p]]
                BY DEF Fill
            <4> QED
                BY ONLY <1>1, <1>11, <4>1
        <3> DEFINE SL == Seq(L)
        <3>2. \A p \in heap' : fields'[p] \in SL
            BY <1>13
        <3> HIDE DEF SL
        <3>3. fields' \in [heap' -> SL]
            BY ONLY <3>1, <3>2
        <3> QED
            BY <3>3 DEF SL
    <2>2. Live' = L
        BY ONLY <1>11 DEF Live
    <2> HIDE DEF L
    <2> QED
        BY ONLY <1>11, <1>13, <2>1, <2>2 DEF HeapTyped, Place
<1>15. Rooted' /\ Framed'
    <2>1. stack' \in Seq(L)
        <3>1. \A j \in 1..Len(stack) : stack[j] \in L
            BY <1>7
        <3> QED
            BY ONLY <1>2, <1>5, <3>1, SeqIn
    <2>2. /\ Len(stack') <= StackSize /\ Frame.slots <= Len(stack')
          /\ \A u \in open_upvalues \ abandoned : location[u] <= Len(stack')
          /\ slot \in 2..Len(stack')
        BY ONLY <1>2, <1>4, <1>5, <1>6
    <2>3. Make(kept, o, "upvalue", slot) /\ open_upvalues' = open_upvalues \cup {o}
        BY <1>1
    <2> QED
        BY ONLY IInv, <1>2, <1>3, <1>7, <1>9, <2>1, <2>2, <2>3, MakeRooted
<1> QED
    BY <1>2, <1>14, <1>15 DEF IInv, Constructing
-----------------------------------------------------------------------------
\* The instructions that close upvalues, call and return, and the end of a script

\* close_upvalues: an upvalue takes the value of its slot.
LEMMA CloseProps ==
    ASSUME ~UnrootedSlots, IInv, NEW slot \in Nat, Close(slot), UNCHANGED <<heap, kind>>
    PROVE  /\ HeapTyped'
           /\ \A u \in open_upvalues' :
                u \in open_upvalues /\ location'[u] = location[u] /\ location[u] < slot
<1> DEFINE closing == { u \in open_upvalues : location[u] >= slot }
<1>1. /\ fields' = [p \in heap |-> IF p \in closing THEN <<Deref(p)>> ELSE fields[p]]
      /\ location' = [p \in heap |-> IF p \in closing THEN Itself ELSE location[p]]
      /\ open_upvalues' = open_upvalues \ closing
      /\ \A u \in closing : Readable(u)
    BY DEF Close
<1>2. \A u \in open_upvalues : u \in heap /\ kind[u] = "upvalue" /\ location[u] \in 2..StackSize
    BY DEF IInv, Rooted
<1>3. StackSize \in Nat
    BY MachineAssumption
<1>4. \A u \in open_upvalues \ closing : location[u] < slot
    <2>1. \A u \in open_upvalues : location[u] \in Nat
        BY ONLY <1>2, <1>3
    <2> QED
        BY ONLY <2>1, slot \in Nat
<1>5. \A u \in closing : u \in heap /\ kind[u] = "upvalue" /\ Deref(u) \in Live
    <2>1. ASSUME NEW u \in closing
          PROVE  u \in heap /\ kind[u] = "upvalue" /\ Deref(u) \in Live
        <3>1. u \in heap /\ kind[u] = "upvalue" /\ Readable(u)
            BY <1>1, <1>2
        <3> QED
            BY <3>1, DerefProps
    <2> QED
        BY <2>1
<1> HIDE DEF closing
<1>6. ASSUME NEW p \in heap
      PROVE  /\ fields'[p] \in Seq(Live) /\ Len(fields'[p]) <= 2 + MaxElements
             /\ kind[p] = "closure" => \A j \in 1..Len(fields'[p]) :
                    fields'[p][j] \in heap /\ kind[fields'[p][j]] = "upvalue"
             /\ kind[p] = "upvalue" => p \in open_upvalues' \/ Len(fields'[p]) = 1
    <2>1. CASE p \in closing
        <3>1. fields'[p] = <<Deref(p)>> /\ kind[p] = "upvalue" /\ Deref(p) \in Live
            BY ONLY <1>1, <1>5, <1>6, <2>1
        <3> DEFINE v == Deref(p)
        <3>2. v \in Live => <<v>> \in Seq(Live) /\ Len(<<v>>) = 1 /\ 1 <= 2 + MaxElements
            BY MachineAssumption
        <3> HIDE DEF v
        <3> QED
            BY ONLY <3>1, <3>2, "closure" # "upvalue" DEF v
    <2>2. CASE p \notin closing
        <3>1. fields'[p] = fields[p] /\ (p \in open_upvalues => p \in open_upvalues')
            BY ONLY <1>1, <1>6, <2>2
        <3>2. /\ fields[p] \in Seq(Live) /\ Len(fields[p]) <= 2 + MaxElements
              /\ kind[p] = "closure" => \A j \in 1..Len(fields[p]) :
                    fields[p][j] \in heap /\ kind[fields[p][j]] = "upvalue"
              /\ kind[p] = "upvalue" => p \in open_upvalues \/ Len(fields[p]) = 1
            BY <1>6 DEF IInv, HeapTyped
        <3> QED
            BY ONLY <3>1, <3>2
    <2> QED
        BY ONLY <2>1, <2>2
<1>7. fields' \in [heap -> Seq(Live)]
    <2> DEFINE SL == Seq(Live)
    <2>1. \A p \in heap : fields'[p] \in SL
        BY <1>6
    <2>2. fields' = [p \in heap |-> fields'[p]]
        BY ONLY <1>1
    <2> HIDE DEF SL
    <2>3. fields' \in [heap -> SL]
        BY ONLY <2>1, <2>2
    <2> QED
        BY <2>3 DEF SL
<1>8. location' \in [heap -> 1..StackSize \cup {Itself}]
    <2>1. location \in [heap -> 1..StackSize \cup {Itself}]
        BY DEF IInv, HeapTyped
    <2> QED
        BY ONLY <1>1, <2>1
<1>9. heap' = heap /\ kind' = kind /\ Live' = Live
    BY DEF Live
<1>10. heap \subseteq Object /\ kind \in [heap -> Kind]
    BY DEF IInv, HeapTyped
<1>11. HeapTyped'
    BY ONLY <1>6, <1>7, <1>8, <1>9, <1>10 DEF HeapTyped
<1>12. \A u \in open_upvalues' :
                u \in open_upvalues /\ location'[u] = location[u] /\ location[u] < slot
    BY ONLY <1>1, <1>2, <1>4
<1> QED
    BY <1>11, <1>12

\* OP_CLOSE_UPVALUE: the upvalue of the topmost slot leaves with it.
LEMMA CloseUpvalueKeeps ==
    ASSUME ~UnrootedSlots, IInv, CloseUpvalue
    PROVE  IInv'
<1>1. /\ Running /\ Height > 1 /\ Close(Len(stack)) /\ stack' = Drop(1)
      /\ UNCHANGED <<heap, kind, x, globals, frames, capturing, xSafe>>
    BY DEF CloseUpvalue
<1>2. frames # <<>> /\ capturing' = FALSE
    BY <1>1 DEF Running, IInv, Constructing
<1>3. /\ stack \in Seq(Live) /\ Len(stack) \in Nat /\ Len(stack) <= StackSize
      /\ Frame.slots \in Nat \ {0} /\ Height = Len(stack) - Frame.slots + 1
    BY <1>1, <1>2, StackProps DEF Height
<1>4. 1 \in 0..Len(stack) /\ Frame.slots <= Len(stack) - 1 /\ Len(stack) - 1 <= StackSize
    BY ONLY <1>1, <1>3, MachineAssumption
<1>5. stack' \in Seq(Live) /\ Len(stack') = Len(stack) - 1
    BY ONLY <1>1, <1>3, <1>4, DropProps
<1>6. /\ HeapTyped'
      /\ \A u \in open_upvalues' :
            u \in open_upvalues /\ location'[u] = location[u] /\ location[u] < Len(stack)
    BY <1>1, <1>3, CloseProps
<1>7. Live' = Live
    BY <1>1 DEF Live
<1>8. ASSUME NEW u \in open_upvalues'
      PROVE  /\ u \in heap' /\ kind'[u] = "upvalue" /\ location'[u] \in 2..StackSize
             /\ location'[u] <= Len(stack')
    <2>1. u \in heap /\ kind[u] = "upvalue" /\ location[u] \in 2..StackSize
        BY <1>6 DEF IInv, Rooted
    <2> QED
        BY ONLY <1>1, <1>3, <1>5, <1>6, <1>8, <2>1
<1>9. Rooted'
    <2>1. /\ globals \in [Global -> Live \cup {Void}] /\ x \in Value /\ (xSafe => x \in Live)
          /\ xSafe \in BOOLEAN
        BY DEF IInv, Rooted
    <2> QED
        BY ONLY <1>1, <1>4, <1>5, <1>7, <1>8, <2>1 DEF Rooted
<1>10. Framed'
    <2>1. Framed /\ Rooted
        BY DEF IInv
    <2>2. \A i \in 1..Len(frames) :
                frames[i].closure \in heap' /\ kind'[frames[i].closure] = "closure"
        BY <1>1, <2>1, FramesProps DEF Framed
    <2>3. Len(stack') \in Nat /\ Frame.slots <= Len(stack') /\ frames' = frames
        BY ONLY <1>1, <1>3, <1>4, <1>5
    <2> QED
        BY ONLY <1>2, <2>1, <2>2, <2>3, SameFrames
<1> QED
    BY <1>2, <1>6, <1>9, <1>10 DEF IInv, Constructing

\* OP_RETURN: the upvalues of the call's slots leave with them.
LEMMA ReturnKeeps ==
    ASSUME ~UnrootedSlots, IInv, Return
    PROVE  IInv'
<1> DEFINE n == Frame.slots - 1
           S == [closure : heap, slots : 1..StackSize]
<1>1. /\ Running /\ Len(frames) > 1 /\ Height > 1 /\ Close(Frame.slots)
      /\ stack' = Append(SubSeq(stack, 1, n), Peek(0))
      /\ frames' = Front(frames)
      /\ UNCHANGED <<heap, kind, x, globals, capturing, xSafe>>
    BY DEF Return
<1>2. frames # <<>> /\ capturing' = FALSE
    BY <1>1 DEF Running, IInv, Constructing
<1>3. /\ stack \in Seq(Live) /\ Len(stack) \in Nat /\ Len(stack) <= StackSize
      /\ Frame.slots \in Nat \ {0} /\ Frame.slots <= Len(stack)
    BY <1>1, StackProps
<1>4. stack' \in Seq(Live) /\ Len(stack') = Frame.slots
    <2> DEFINE st == Drop(Len(stack) - n)
    <2>1. Len(stack) - n \in 0..Len(stack) /\ Len(stack) - (Len(stack) - n) = n
        BY ONLY <1>3
    <2>2. st \in Seq(Live) /\ Len(st) = n
        BY ONLY <1>3, <2>1, DropProps
    <2>3. stack' = Append(st, Peek(0))
        BY <1>1, <2>1 DEF Drop
    <2>4. Peek(0) \in Live
        BY <1>1, TopProps
    <2> HIDE DEF st
    <2>5. stack' \in Seq(Live) /\ Len(stack') = n + 1
        BY ONLY <2>2, <2>3, <2>4
    <2> QED
        BY ONLY <1>3, <2>5
<1>5. /\ HeapTyped'
      /\ \A u \in open_upvalues' :
            u \in open_upvalues /\ location'[u] = location[u] /\ location[u] < Frame.slots
    BY <1>1, <1>3, CloseProps
<1>6. Live' = Live
    BY <1>1 DEF Live
<1>7. ASSUME NEW u \in open_upvalues'
      PROVE  /\ u \in heap' /\ kind'[u] = "upvalue" /\ location'[u] \in 2..StackSize
             /\ location'[u] <= Len(stack')
    <2>1. u \in heap /\ kind[u] = "upvalue" /\ location[u] \in 2..StackSize
        BY <1>5 DEF IInv, Rooted
    <2> QED
        BY ONLY <1>1, <1>3, <1>4, <1>5, <1>7, <2>1
<1>8. Rooted'
    <2>1. /\ globals \in [Global -> Live \cup {Void}] /\ x \in Value /\ (xSafe => x \in Live)
          /\ xSafe \in BOOLEAN
        BY DEF IInv, Rooted
    <2>2. Len(stack') <= StackSize
        BY ONLY <1>3, <1>4, MachineAssumption
    <2> QED
        BY ONLY <1>1, <1>4, <1>6, <1>7, <2>1, <2>2 DEF Rooted
<1>9. Framed'
    <2>1. frames \in Seq(S) /\ Framed
        BY DEF IInv, Framed
    <2> HIDE DEF S
    <2>2. /\ frames' \in Seq(S) /\ Len(frames') = Len(frames) - 1 /\ Len(frames) \in Nat
          /\ \A i \in 1..(Len(frames) - 1) : frames'[i] = frames[i]
        BY ONLY <1>1, <1>2, <2>1, FrontProps
    <2>3. \A i \in 1..Len(frames') : i \in 1..Len(frames) /\ frames'[i] = frames[i] /\ i < Len(frames)
        BY ONLY <1>1, <2>2
    <2>4. \A i \in 1..Len(frames') : frames'[i].slots <= Len(stack') /\ kind'[frames'[i].closure] = "closure"
        <3>1. /\ Frame = frames[Len(frames)] /\ Len(frames) \in 1..Len(frames)
              /\ \A i \in 1..Len(frames) : frames[i].slots \in 1..StackSize
            BY <1>2, FramesProps DEF IInv
        <3>2. \A i \in 1..Len(frames') : frames[i].slots < Frame.slots /\ kind[frames[i].closure] = "closure"
            BY <2>1, <2>3, <3>1 DEF Framed
        <3>3. \A i \in 1..Len(frames') : frames[i].slots \in Nat
            BY ONLY <2>3, <3>1
        <3>4. \A i \in 1..Len(frames') : frames[i].slots <= Len(stack')
            BY ONLY <1>3, <1>4, <3>2, <3>3
        <3>5. kind' = kind
            BY <1>1
        <3> QED
            BY ONLY <2>3, <3>2, <3>4, <3>5
    <2>5. frames' # <<>> /\ 1 \in 1..Len(frames') /\ frames'[1].slots = 1
        <3>1. Len(frames') >= 1 /\ 1 \in 1..Len(frames')
            BY ONLY <1>1, <2>2
        <3>2. frames' # <<>>
            BY ONLY <3>1, EmptySeq
        <3> QED
            BY <1>2, <2>1, <2>3, <3>1, <3>2 DEF Framed
    <2>6. \A i, j \in 1..Len(frames') : i < j => frames'[i].slots < frames'[j].slots
        BY <2>1, <2>3 DEF Framed
    <2>7. Len(frames') <= FramesLimit
        <3>1. Len(frames) <= FramesLimit
            BY <2>1 DEF Framed
        <3> QED
            BY ONLY <2>2, <3>1, MachineAssumption
    <2>8. S' = S
        BY <1>1 DEF S
    <2> QED
        BY <2>2, <2>4, <2>5, <2>6, <2>7, <2>8 DEF Framed, S
<1> QED
    BY <1>2, <1>5, <1>8, <1>9 DEF IInv, Constructing

\* OP_CALL: the callee's frame starts above the caller's.
LEMMA CallKeeps ==
    ASSUME IInv, NEW n \in Nat, Call(n)
    PROVE  IInv'
<1> DEFINE f == [closure |-> Peek(n), slots |-> Len(stack) - n]
           S == [closure : heap, slots : 1..StackSize]
<1>1. /\ Running /\ Operands(n + 1) /\ Peek(n) \in Object /\ kind[Peek(n)] = "closure"
      /\ Len(frames) < FramesLimit /\ frames' = Append(frames, f)
      /\ UNCHANGED <<heapVars, stack, x, globals, capturing, xSafe>>
    BY DEF Call
<1>2. frames # <<>> /\ capturing' = FALSE
    BY <1>1 DEF Running, IInv, Constructing
<1>3. /\ Len(stack) \in Nat /\ Frame.slots <= Len(stack) - (n + 1) /\ n + 1 < Len(stack)
      /\ Peek(n) \in Live
    BY <1>1, OperandsProps
<1>4. Frame.slots \in Nat \ {0} /\ Len(stack) <= StackSize /\ Len(frames) \in Nat
      /\ \A i \in 1..Len(frames) : frames[i].slots <= Frame.slots /\ frames[i].slots \in 1..StackSize
    BY <1>2, <1>1, StackProps, FramesProps DEF IInv
<1>5. Peek(n) \in heap
    BY <1>1, <1>3, MachineAssumption DEF Live
<1>6. f \in S /\ f.slots = Len(stack) - n /\ f.closure = Peek(n) /\ Frame.slots < f.slots
      /\ f.slots <= Len(stack)
    <2>1. Len(stack) - n \in 1..StackSize /\ Frame.slots < Len(stack) - n /\ Len(stack) - n <= Len(stack)
        BY ONLY <1>3, <1>4, n \in Nat, MachineAssumption
    <2> QED
        BY ONLY <1>5, <2>1
<1> HIDE DEF f
<1>7. Framed'
    <2>1. frames \in Seq(S) /\ Framed
        BY DEF IInv, Framed
    <2> HIDE DEF S
    <2>2. /\ frames' \in Seq(S) /\ Len(frames') = Len(frames) + 1
          /\ \A i \in 1..Len(frames) : frames'[i] = frames[i]
          /\ frames'[Len(frames) + 1] = f
        BY ONLY <1>1, <1>6, <2>1
    <2>3. \A i \in 1..Len(frames') : i \in 1..Len(frames) \/ i = Len(frames) + 1
        BY ONLY <1>4, <2>2
    <2>4. frames' # <<>> /\ frames'[1].slots = 1 /\ Len(frames') <= FramesLimit
        <3>1. Len(frames) >= 1 /\ 1 \in 1..Len(frames)
            BY ONLY <1>2, <1>4, <2>1, EmptySeq
        <3>2. Len(frames') # 0
            BY ONLY <1>4, <2>2
        <3>3. frames' # <<>>
            BY ONLY <3>2, EmptySeq
        <3>4. frames[1].slots = 1
            BY <1>2, <2>1 DEF Framed
        <3>5. Len(frames') <= FramesLimit
            BY ONLY <1>1, <1>4, <2>2, MachineAssumption
        <3> QED
            BY ONLY <2>2, <3>1, <3>3, <3>4, <3>5
    <2>5. \A i \in 1..Len(frames') : frames'[i].slots <= Len(stack') /\ kind'[frames'[i].closure] = "closure"
        <3>1. \A i \in 1..Len(frames) : frames[i].slots <= Len(stack) /\ kind[frames[i].closure] = "closure"
            BY <2>1 DEF Framed
        <3>2. kind' = kind /\ stack' = stack
            BY <1>1 DEF heapVars
        <3> QED
            BY ONLY <1>1, <1>6, <2>2, <2>3, <3>1, <3>2
    <2>6. \A i, j \in 1..Len(frames') : i < j => frames'[i].slots < frames'[j].slots
        <3>1. \A i, j \in 1..Len(frames) : i < j => frames[i].slots < frames[j].slots
            BY <2>1 DEF Framed
        <3>2. \A i \in 1..Len(frames) : frames[i].slots < f.slots
            <4>1. f.slots \in Int
                BY ONLY <1>3, <1>6, n \in Nat
            <4> QED
                BY ONLY <1>4, <1>6, <4>1
        <3>3. ASSUME NEW i \in 1..Len(frames'), NEW j \in 1..Len(frames'), i < j
              PROVE  frames'[i].slots < frames'[j].slots
            <4>1. i \in 1..Len(frames)
                BY ONLY <1>4, <2>2, <3>3
            <4> QED
                BY ONLY <2>2, <2>3, <3>1, <3>2, <3>3, <4>1
        <3> QED
            BY ONLY <3>3
    <2>7. S' = S
        BY <1>1 DEF S, heapVars
    <2> QED
        BY <2>2, <2>4, <2>5, <2>6, <2>7 DEF Framed, S
<1>8. HeapTyped' /\ Rooted'
    BY <1>1 DEF IInv, HeapTyped, Rooted, heapVars, Live
<1> QED
    BY <1>2, <1>7, <1>8 DEF IInv, Constructing

\* The globals stay, what is on the stack and in x is given up.
LEMMA ResetKeeps ==
    ASSUME IInv, Running, ResetStack, open_upvalues \subseteq abandoned',
           UNCHANGED <<heap, kind, fields, location, open_upvalues, globals, capturing>>
    PROVE  IInv'
<1>1. /\ stack' = <<>> /\ frames' = <<>> /\ x' = Nil /\ xSafe' = TRUE
      /\ capturing' = FALSE /\ globals' = globals
      /\ heap' = heap /\ kind' = kind /\ fields' = fields /\ location' = location
      /\ open_upvalues' = open_upvalues
    BY DEF ResetStack, Running, IInv, Constructing
<1>2. HeapTyped'
    BY <1>1 DEF IInv, HeapTyped, Live
<1>3. Rooted'
    <2>1. globals' \in [Global -> Live' \cup {Void}]
        BY <1>1, SameGlobals DEF Live
    <2>2. x' \in Value /\ x' \in Live' /\ xSafe' \in BOOLEAN
        BY ONLY <1>1 DEF Value, Live
    <2>3. stack' \in Seq(Live') /\ Len(stack') <= StackSize
        <3>1. <<>> \in Seq(Live') /\ Len(<<>>) = 0 /\ 0 <= StackSize
            BY MachineAssumption
        <3> QED
            BY ONLY <1>1, <3>1
    <2>4. \A u \in open_upvalues :
                u \in heap /\ kind[u] = "upvalue" /\ location[u] \in 2..StackSize
        BY DEF IInv, Rooted
    <2> QED
        BY ONLY <1>1, <2>1, <2>2, <2>3, <2>4, open_upvalues \subseteq abandoned' DEF Rooted
<1>4. Framed'
    <2>1. frames' \in Seq([closure : heap', slots : 1..StackSize]) /\ Len(frames') = 0 /\ 0 <= FramesLimit
        BY <1>1, MachineAssumption
    <2> QED
        BY ONLY <1>1, <2>1 DEF Framed
<1> QED
    BY <1>1, <1>2, <1>3, <1>4 DEF IInv, Constructing

\* At the end of a script no variable of its own is left that an upvalue could
\* point to.
LEMMA ExitKeeps ==
    ASSUME IInv, Exit
    PROVE  IInv'
<1>1. Running /\ Len(frames) = 1 /\ Height = 1 /\ ResetStack /\ UNCHANGED <<heapVars, globals, capturing>>
    BY DEF Exit
<1>2. frames # <<>> /\ frames[1].slots = 1 /\ Frame = frames[1]
    BY <1>1, FramesProps DEF Running, IInv, Framed
<1>3. Len(stack) = 1
    <2>1. Len(stack) \in Nat /\ Frame.slots = 1 /\ Height = Len(stack) - Frame.slots + 1
        BY <1>2, FramesProps DEF IInv
    <2> QED
        BY ONLY <1>1, <2>1
<1>4. open_upvalues \subseteq abandoned
    <2>1. \A u \in open_upvalues \ abandoned : location[u] \in 2..StackSize /\ location[u] <= 1
        BY <1>3 DEF IInv, Rooted
    <2> QED
        BY ONLY <2>1
<1> QED
    BY <1>1, <1>4, ResetKeeps DEF heapVars

\* The first object is the closure of the compiled code, in slot 1.
LEMMA InterpretKeeps ==
    ASSUME IInv, Interpret
    PROVE  IInv'
<1>1. frames = <<>> /\ UNCHANGED <<x, globals, open_upvalues, capturing, abandoned>>
    BY DEF Interpret
<1>2. PICK o \in Object :
        /\ Make(heap, o, "closure", Itself)
        /\ fields' = Fill(heap, o, <<>>)
        /\ stack' = <<o>>
        /\ frames' = <<[closure |-> o, slots |-> 1]>>
    BY DEF Interpret
<1>3. stack = <<>> /\ capturing' = FALSE
    BY <1>1 DEF IInv, Framed, Constructing
<1>4. \A u \in open_upvalues : u \in heap /\ kind[u] = "upvalue" /\ location[u] \in 2..StackSize
    BY DEF IInv, Rooted
<1>5. Intact(heap)
    <2>1. \A i \in 1..Len(frames) : frames[i].closure \in heap
        BY FramesProps DEF IInv
    <2>2. \A p \in heap : \A i \in 1..Len(fields[p]) : fields[p][i] \in heap \cup {Nil}
        <3>1. \A p \in heap : fields[p] \in Seq(Live)
            BY FieldsProps
        <3> QED
            BY <3>1 DEF Live
    <2>3. \A g \in Global : globals[g] \in heap \cup {Nil, Void}
        BY SameGlobals DEF Live
    <2> QED
        BY ONLY <1>4, <2>1, <2>2, <2>3 DEF Intact
<1>6. "closure" \in Kind \ {"upvalue"} /\ <<>> \in Seq(heap \cup {Nil}) /\ Len(<<>>) <= 2 + MaxElements
    BY MachineAssumption DEF Kind
<1>7. HeapTyped'
    BY <1>1, <1>2, <1>5, <1>6, MakeTyped
<1>8. /\ heap' = heap \cup {o} /\ kind'[o] = "closure"
      /\ \A p \in heap : kind'[p] = kind[p] /\ location'[p] = location[p]
    <2>1. "closure" \in Kind /\ Itself \in Place
        BY DEF Kind, Place
    <2>2. Made(heap, o, "closure", Itself)
        BY <1>2, <1>5, <2>1, MakeProps
    <2> QED
        BY ONLY <2>2 DEF Made
<1>9. Rooted'
    <2>1. stack' \in Seq(Live') /\ Len(stack') <= StackSize
        <3>1. o \in Live'
            BY ONLY <1>8 DEF Live
        <3> QED
            BY ONLY <1>2, <3>1, MachineAssumption
    <2>2. globals' \in [Global -> Live' \cup {Void}]
        <3>1. globals \in [Global -> heap \cup {Nil} \cup {Void}]
            BY SameGlobals DEF Live
        <3> QED
            BY ONLY <1>1, <1>8, <3>1 DEF Live
    <2>3. x' \in Value /\ (xSafe' => x' \in Live') /\ xSafe' \in BOOLEAN
        <3>1. x \in Value /\ (xSafe => x \in heap \cup {Nil}) /\ xSafe \in BOOLEAN
            BY DEF IInv, Rooted, Live
        <3>2. xSafe' = (xSafe /\ heap = heap)
            BY <1>2 DEF Make
        <3> QED
            BY ONLY <1>1, <1>8, <3>1, <3>2 DEF Live
    <2>4. ASSUME NEW u \in open_upvalues'
          PROVE  /\ u \in heap' /\ kind'[u] = "upvalue" /\ location'[u] \in 2..StackSize
                 /\ u \notin abandoned' => location'[u] <= Len(stack')
        <3>1. u \notin abandoned => location[u] \in 2..StackSize /\ location[u] <= 0
            <4>1. Len(<<>>) = 0
                OBVIOUS
            <4> QED
                BY <1>1, <1>3, <2>4, <4>1 DEF IInv, Rooted
        <3>2. u \in abandoned
            BY ONLY <3>1
        <3> QED
            BY ONLY <1>1, <1>4, <1>8, <2>4, <3>2
    <2> QED
        BY ONLY <2>1, <2>2, <2>3, <2>4 DEF Rooted
<1>10. Framed'
    <2>1. [closure |-> o, slots |-> 1] \in [closure : heap', slots : 1..StackSize]
        BY ONLY <1>8, MachineAssumption
    <2> DEFINE S == [closure : heap', slots : 1..StackSize]
               f == [closure |-> o, slots |-> 1]
    <2>2. f \in S /\ f.closure = o /\ f.slots = 1
        BY <2>1
    <2> HIDE DEF f, S
    <2>3. frames' = <<f>>
        BY <1>2 DEF f
    <2>4. frames' \in Seq(S) /\ Len(frames') = 1 /\ frames'[1] = f /\ frames' # <<>>
        BY ONLY <2>2, <2>3
    <2>5. \A i \in 1..Len(frames') : i = 1
        BY ONLY <2>4
    <2>6. Len(stack') = 1 /\ 1 <= FramesLimit
        BY ONLY <1>2, MachineAssumption
    <2> QED
        BY ONLY <1>8, <2>2, <2>4, <2>5, <2>6 DEF Framed, S
<1> QED
    BY <1>3, <1>7, <1>9, <1>10 DEF IInv, Constructing

-----------------------------------------------------------------------------
\* The theorems

\* A machine that has executed nothing satisfies the invariant.
LEMMA InitIInv == Init => IInv
<1> SUFFICES ASSUME Init PROVE IInv
    OBVIOUS
<1>1. /\ heap = {} /\ open_upvalues = {} /\ capturing = FALSE /\ xSafe = TRUE
      /\ kind = <<>> /\ fields = <<>> /\ location = <<>>
      /\ stack = <<>> /\ frames = <<>> /\ x = Nil
      /\ globals = [g \in Global |-> Void]
      /\ left = [i \in 1..StackSize |-> Nil] /\ abandoned = {}
    BY DEF Init
<1>2. \A S : <<>> \in [{} -> S]
    OBVIOUS
<1>3. HeapTyped
    BY <1>1, <1>2 DEF HeapTyped
<1>4. Rooted
    <2>1. <<>> \in Seq(Live) /\ Len(<<>>) = 0 /\ 0 <= StackSize
        BY MachineAssumption
    <2> QED
        BY ONLY <1>1, <2>1 DEF Rooted, Value, Live
<1>5. Framed
    <2>1. <<>> \in Seq([closure : heap, slots : 1..StackSize]) /\ Len(<<>>) = 0 /\ 0 <= FramesLimit
        BY MachineAssumption
    <2> QED
        BY ONLY <1>1, <2>1 DEF Framed
<1> QED
    BY <1>1, <1>3, <1>4, <1>5 DEF IInv, Constructing

\* With the holes closed, no step leaves the invariant.
LEMMA NextIInv ==
    ASSUME ~UnrootedCons, ~UnrootedX, ~UnrootedSlots, IInv, [Next]_vars
    PROVE  IInv'
<1>1. CASE Interpret
    BY <1>1, InterpretKeeps
<1>2. CASE PushPlain
    BY <1>2, PushPlainKeeps
<1>3. CASE PushX
    BY <1>3, PushXKeeps
<1>4. CASE SaveX
    BY <1>4, SaveXKeeps
<1>5. CASE Pop
    BY <1>5, PopKeeps
<1>6. CASE \E i \in 2..StackSize : GetLocal(i) \/ SetLocal(i)
    <2>1. PICK i \in 2..StackSize : GetLocal(i) \/ SetLocal(i)
        BY <1>6
    <2>2. i \in Nat
        BY MachineAssumption
    <2> QED
        BY ONLY IInv, <2>1, <2>2, GetLocalKeeps, SetLocalKeeps
<1>7. CASE \E g \in Global : DefGlobal(g) \/ SetGlobal(g) \/ GetGlobal(g)
    BY <1>7, DefGlobalKeeps, SetGlobalKeeps, GetGlobalKeeps
<1>8. CASE \E i \in 1..MaxElements : IndexGet(i) \/ IndexSet(i)
    <2>1. PICK i \in 1..MaxElements : IndexGet(i) \/ IndexSet(i)
        BY <1>8
    <2>2. i \in Nat
        BY MachineAssumption
    <2> QED
        BY ONLY IInv, <2>1, <2>2, IndexGetKeeps, IndexSetKeeps
<1>9. CASE MakePair
    BY <1>9, MakePairKeeps
<1>10. CASE \E k \in Collections, n \in 0..MaxElements : MakeCollection(k, n)
    <2>1. PICK k \in Collections, n \in 0..MaxElements : MakeCollection(k, n)
        BY <1>10
    <2> QED
        BY ONLY IInv, <2>1, MakeCollectionKeeps
<1>11. CASE \E c \in BOOLEAN : MakeClosure(c)
    <2>1. PICK c \in BOOLEAN : MakeClosure(c)
        BY <1>11
    <2> QED
        BY ONLY IInv, <2>1, MakeClosureKeeps
<1>12. CASE \E i \in 2..StackSize : CaptureFirst(i)
    <2>1. PICK i \in 2..StackSize : CaptureFirst(i)
        BY <1>12
    <2>2. i \in Nat
        BY MachineAssumption
    <2> QED
        BY ONLY IInv, <2>1, <2>2, CaptureFirstKeeps
<1>13. CASE CaptureAgain
    BY <1>13, CaptureAgainKeeps
<1>14. CASE GetUpvalue
    BY <1>14, GetUpvalueKeeps
<1>15. CASE SetUpvalue
    BY <1>15, SetUpvalueKeeps
<1>16. CASE CloseUpvalue
    BY <1>16, CloseUpvalueKeeps
<1>17. CASE \E n \in 0..StackSize : Call(n)
    <2>1. PICK n \in 0..StackSize : Call(n)
        BY <1>17
    <2>2. n \in Nat
        BY MachineAssumption
    <2> QED
        BY ONLY IInv, <2>1, <2>2, CallKeeps
<1>18. CASE Return
    BY <1>18, ReturnKeeps
<1>19. CASE Exit
    BY <1>19, ExitKeeps
<1>20. CASE RuntimeError
    <2>1. /\ Running /\ ResetStack /\ abandoned' = open_upvalues
          /\ UNCHANGED <<heap, kind, fields, location, open_upvalues, globals, capturing>>
        BY <1>20 DEF RuntimeError
    <2> QED
        BY <2>1, ResetKeeps
<1>22. CASE CaptureEnclosing
    BY <1>22, CaptureEnclosingKeeps
<1>21. CASE UNCHANGED vars
    <2>1. /\ heap' = heap /\ kind' = kind /\ fields' = fields /\ location' = location
          /\ stack' = stack /\ x' = x /\ globals' = globals /\ frames' = frames
          /\ open_upvalues' = open_upvalues /\ capturing' = capturing /\ xSafe' = xSafe
          /\ abandoned' = abandoned
        BY <1>21 DEF vars
    <2>2. HeapTyped' /\ Rooted' /\ Framed'
        BY <2>1 DEF IInv, HeapTyped, Rooted, Framed, Live
    <2>3. Constructing'
        BY <2>1 DEF IInv, Constructing, Height, Frame, Peek
    <2> QED
        BY <2>2, <2>3 DEF IInv
<1> QED
    BY <1>1, <1>2, <1>3, <1>4, <1>5, <1>6, <1>7, <1>8, <1>9, <1>10, <1>11, <1>12, <1>13,
       <1>14, <1>15, <1>16, <1>17, <1>18, <1>19, <1>20, <1>21, <1>22 DEF Next

\* What the slots above the top hold are values, and only open upvalues were
\* abandoned.
LeftTyped == left \in [1..StackSize -> Value] /\ abandoned \subseteq open_upvalues

\* The slots that the top moves below hold the values they held.
LEMMA LeaveTypes ==
    ASSUME IInv, LeftTyped, Leave
    PROVE  left' \in [1..StackSize -> Value]
<1>1. ASSUME NEW i \in 1..StackSize
      PROVE  (IF i \notin Beyond' THEN Nil
              ELSE IF i \in DOMAIN stack THEN stack[i] ELSE left[i]) \in Value
    <2>1. left[i] \in Value /\ Nil \in Value
        BY DEF LeftTyped, Value
    <2>2. i \in DOMAIN stack => stack[i] \in Value
        BY LiveIsValue DEF IInv, Rooted
    <2> QED
        BY ONLY <2>1, <2>2
<1> QED
    BY ONLY <1>1, Leave DEF Leave

\* Every step keeps them so.
LEMMA LeftKeeps ==
    ASSUME IInv, LeftTyped, [Next]_vars
    PROVE  LeftTyped'
<1>1. abandoned \subseteq open_upvalues /\ left \in [1..StackSize -> Value]
    BY DEF LeftTyped
<1>2. ASSUME Leave \/ left' = left, abandoned' \subseteq open_upvalues'
      PROVE  LeftTyped'
    BY <1>1, <1>2, LeaveTypes DEF LeftTyped
<1>3. CASE Interpret
    BY <1>1, <1>2, <1>3 DEF Interpret
<1>4. CASE PushPlain \/ PushX \/ SaveX \/ Pop \/ GetUpvalue \/ Exit
    BY <1>1, <1>2, <1>4 DEF PushPlain, PushX, SaveX, Pop, GetUpvalue, Exit, heapVars
<1>5. CASE \E i \in 2..StackSize : GetLocal(i) \/ SetLocal(i)
    BY <1>1, <1>2, <1>5 DEF GetLocal, SetLocal, heapVars
<1>6. CASE \E g \in Global : DefGlobal(g) \/ SetGlobal(g) \/ GetGlobal(g)
    BY <1>1, <1>2, <1>6 DEF DefGlobal, SetGlobal, GetGlobal, heapVars
<1>7. CASE \E i \in 1..MaxElements : IndexGet(i) \/ IndexSet(i)
    BY <1>1, <1>2, <1>7 DEF IndexGet, IndexSet, heapVars
<1>8. CASE MakePair
    BY <1>1, <1>2, <1>8 DEF MakePair
<1>9. CASE \E k \in Collections, n \in 0..MaxElements : MakeCollection(k, n)
    BY <1>1, <1>2, <1>9 DEF MakeCollection
<1>10. CASE \E c \in BOOLEAN : MakeClosure(c)
    BY <1>1, <1>2, <1>10 DEF MakeClosure
<1>11. CASE \E i \in 2..StackSize : CaptureFirst(i)
    <2>1. /\ abandoned' = abandoned /\ (Leave \/ left' = left)
          /\ \E o \in Object : open_upvalues' = open_upvalues \cup {o}
        BY <1>11 DEF CaptureFirst
    <2> QED
        BY <1>1, <1>2, <2>1
<1>12. CASE CaptureAgain
    BY <1>1, <1>2, <1>12 DEF CaptureAgain
<1>13. CASE CaptureEnclosing
    BY <1>1, <1>2, <1>13 DEF CaptureEnclosing
<1>14. CASE SetUpvalue
    <2>1. Running /\ abandoned' = abandoned /\ open_upvalues' = open_upvalues
        BY <1>14 DEF SetUpvalue
    <2>2. \/ left' = left
          \/ \E u \in heap : left' = [left EXCEPT ![location[u]] = Peek(0)]
        BY <1>14, <2>1, UpvalueProps DEF SetUpvalue
    <2>3. Peek(0) \in Value
        BY <2>1, TopProps, LiveIsValue
    <2>4. left' \in [1..StackSize -> Value]
        BY <1>1, <2>2, <2>3
    <2> QED
        BY <1>1, <2>1, <2>4 DEF LeftTyped
<1>15. CASE CloseUpvalue
    BY <1>1, <1>2, <1>15 DEF CloseUpvalue, Close
<1>16. CASE \E n \in 0..StackSize : Call(n)
    BY <1>1, <1>2, <1>16 DEF Call, heapVars
<1>17. CASE Return
    BY <1>1, <1>2, <1>17 DEF Return, Close
<1>18. CASE RuntimeError
    BY <1>1, <1>2, <1>18 DEF RuntimeError
<1>19. CASE UNCHANGED vars
    BY <1>1, <1>2, <1>19 DEF vars
<1> QED
    BY <1>3, <1>4, <1>5, <1>6, <1>7, <1>8, <1>9, <1>10, <1>11, <1>12, <1>13, <1>14, <1>15,
       <1>16, <1>17, <1>18, <1>19 DEF Next

\* The invariant says that the types are right ...
LEMMA IInvTypes == IInv /\ LeftTyped => TypeOK
<1> SUFFICES ASSUME IInv, LeftTyped PROVE TypeOK
    OBVIOUS
<1>1. Live \subseteq Value
    BY LiveIsValue
<1>2. heap \subseteq Object /\ kind \in [heap -> Kind] /\ location \in [heap -> 1..StackSize \cup {Itself}]
    BY DEF IInv, HeapTyped
<1>3. DOMAIN fields = heap /\ \A o \in heap : fields[o] \in BoundedSeq(Value, 2 + MaxElements)
    <2>1. DOMAIN fields = heap
        BY DEF IInv, HeapTyped
    <2>2. ASSUME NEW o \in heap
          PROVE  fields[o] \in BoundedSeq(Value, 2 + MaxElements)
        <3>1. fields[o] \in Seq(Live) /\ Len(fields[o]) <= 2 + MaxElements
            BY FieldsProps
        <3>2. fields[o] \in Seq(Value) /\ 2 + MaxElements \in Nat
            BY <1>1, <3>1, SeqIn, MachineAssumption
        <3> QED
            BY ONLY <3>1, <3>2, BoundedSeqProps
    <2> QED
        BY <2>1, <2>2
<1>4. open_upvalues \subseteq Object
    BY <1>2 DEF IInv, Rooted
<1>5. stack \in BoundedSeq(Value, StackSize)
    <2>1. stack \in Seq(Live) /\ Len(stack) <= StackSize
        BY DEF IInv, Rooted
    <2>2. stack \in Seq(Value) /\ StackSize \in Nat
        BY <1>1, <2>1, SeqIn, MachineAssumption
    <2> QED
        BY ONLY <2>1, <2>2, BoundedSeqProps
<1>6. x \in Value /\ xSafe \in BOOLEAN /\ capturing \in BOOLEAN
    BY DEF IInv, Rooted, Constructing
<1>7. globals \in [Global -> Value \cup {Void}]
    BY <1>1, SameGlobals
<1>8. frames \in BoundedSeq([closure : Object, slots : 1..StackSize], FramesLimit)
    <2> DEFINE S == [closure : heap, slots : 1..StackSize]
               T == [closure : Object, slots : 1..StackSize]
    <2>1. frames \in Seq(S) /\ Len(frames) <= FramesLimit
        BY DEF IInv, Framed
    <2>2. S \subseteq T
        BY <1>2
    <2> HIDE DEF S, T
    <2>3. frames \in Seq(T)
        BY ONLY <2>1, <2>2, SeqIn
    <2>4. frames \in BoundedSeq(T, FramesLimit)
        BY ONLY <2>1, <2>3, MachineAssumption, BoundedSeqProps
    <2> QED
        BY <2>4 DEF T
<1> QED
    BY <1>2, <1>3, <1>4, <1>5, <1>6, <1>7, <1>8 DEF TypeOK, LeftTyped

\* ... and that nothing the machine leads to was freed.
LEMMA IInvAllocated == IInv => NoDangling
<1> SUFFICES ASSUME IInv PROVE NoDangling
    OBVIOUS
<1>1. Pointers(stack) \subseteq heap
    BY PointersProps DEF IInv, Rooted
<1>2. Pointers(globals) \subseteq heap
    BY SameGlobals, MachineAssumption DEF Pointers, Range, Live
<1>3. { frames[i].closure : i \in DOMAIN frames } \subseteq heap
    BY FramesProps DEF IInv
<1>4. open_upvalues \subseteq heap
    BY DEF IInv, Rooted
<1>5. Closed(heap, refs)
    BY RefsProps DEF IInv
<1> QED
    BY <1>1, <1>2, <1>3, <1>4, <1>5 DEF NoDangling

\* With the three holes closed, the inductive invariant holds in every state.
LEMMA SpecIInv ==
    ASSUME ~UnrootedCons, ~UnrootedX, ~UnrootedSlots
    PROVE  Spec => [](IInv /\ LeftTyped)
<1>1. Init => LeftTyped
    BY DEF Init, LeftTyped, Value
<1>2. IInv /\ LeftTyped /\ [Next]_vars => (IInv /\ LeftTyped)'
    BY NextIInv, LeftKeeps
<1> QED
    BY <1>1, <1>2, InitIInv, PTL DEF Spec

\* Every variable has its type: the stack and the frames stay within their arrays, and
\* only an object that is allocated has a type and fields.
THEOREM TypesCorrect ==
    ASSUME ~UnrootedCons, ~UnrootedX, ~UnrootedSlots
    PROVE  Spec => []TypeOK
BY SpecIInv, IInvTypes, PTL

\* The collector frees no object that the machine can still get at, from its stack,
\* its frames, its globals or its open upvalues, through any number of pointers, and
\* across run-time errors: as long as no program goes through what OP_CONS pops too
\* early, through x, or through the slot of an upvalue that an error left open.
THEOREM RootedIsAllocated ==
    ASSUME ~UnrootedCons, ~UnrootedX, ~UnrootedSlots
    PROVE  Spec => []NoDangling
BY SpecIInv, IInvAllocated, PTL

=============================================================================
