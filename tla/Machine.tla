------------------------------- MODULE Machine -------------------------------
(***************************************************************************)
(* The virtual machine (src/vm.c) as a client of the collector: which      *)
(* pointers each instruction holds, where it holds them, and when it       *)
(* allocates.  An allocation may collect, and a collection frees every     *)
(* object that the tables mark_roots walks (src/mem.c:156) do not lead to; *)
(* a pointer that an instruction keeps anywhere else is at its mercy.      *)
(*                                                                         *)
(* A collection is one step here: that is what Memory.tla establishes.     *)
(* The order of the open upvalues is the subject of Closures.tla; here     *)
(* they are a set.  The machine executes any instruction the compiler      *)
(* could emit in the state it is in.  Numbers, constants and names are     *)
(* plain values: the collector does not follow them.                       *)
(*                                                                         *)
(* The code has three holes in this respect, which three constants open:   *)
(* with all FALSE the rest of the machine is checked, with one TRUE what   *)
(* that hole leads to.                                                     *)
(***************************************************************************)
EXTENDS Naturals, Sequences, SequencesExt, FiniteSets, Reachability

CONSTANTS
    Object,         \* addresses
    Nil,            \* stands for every value that is not a pointer
    Void,           \* the content of a global that is not defined yet
    Global,         \* indices of global_buffer
    Itself,         \* the location of an upvalue that points to its own copy
    StackSize, FramesLimit,
    Collections,    \* the collections in use: arrays, maps, or both,
    MaxElements,    \* and the bound of the model on their elements
    UnrootedCons,   \* whether programs go through the hole of MakePair,
    UnrootedX,      \* that of PushX and Exit,
    UnrootedSlots   \* and that of an upvalue that RuntimeError left open

ASSUME HolesAssumption ==
    /\ UnrootedCons \in BOOLEAN /\ UnrootedX \in BOOLEAN /\ UnrootedSlots \in BOOLEAN
ASSUME MachineAssumption ==
    /\ StackSize \in Nat \ {0} /\ FramesLimit \in Nat \ {0} /\ MaxElements \in Nat
    /\ Collections \subseteq {"array", "map"}
    /\ Nil \notin Object /\ Void \notin Object

Value == Object \cup {Nil}
Kind  == {"pair", "array", "map", "upvalue", "closure"}

VARIABLES
    heap,       \* the allocated objects
    kind,       \* the type of each
    fields,     \* what blacken_object follows from each: the values of a pair, an
                \* array or a map, the captured value, the upvalues of a closure
    location,   \* the slot an open upvalue points to
    stack, x, globals, frames,
    left,       \* what the slots above the stack's top hold, of those that an open
                \* upvalue points to
    open_upvalues,  \* the upvalues that point into the stack
    capturing,  \* OP_CLOSURE has yet to fill in an upvalue
    xSafe,      \* ghost: nothing was freed since x was set
    abandoned   \* ghost: the open upvalues of the calls that errors gave up

vars == <<heap, kind, fields, location, stack, x, globals, frames,
          left, open_upvalues, capturing, xSafe, abandoned>>
heapVars == <<heap, kind, fields, location, open_upvalues, abandoned>>

Frame  == Last(frames)
Height == Len(stack) - Frame.slots + 1      \* slots of the running call
Peek(n) == stack[Len(stack) - n]
Drop(n) == SubSeq(stack, 1, Len(stack) - n)

\* The n topmost values are operands, not variables that were captured: those
\* leave the stack through OP_CLOSE_UPVALUE and OP_RETURN only.  (The compiler
\* knows nothing of the upvalues that an earlier script left open.)
Operands(n) ==
    n < Height /\ \A u \in open_upvalues \ abandoned : location[u] <= Len(stack) - n

\* The slots above the top that open upvalues point to.
Beyond == { location[u] : u \in open_upvalues } \ 1..Len(stack)

\* A slot that the top moved below keeps its value until it is written again.
Leave ==
    left' = [i \in 1..StackSize |->
                IF i \notin Beyond' THEN Nil
                ELSE IF i \in DOMAIN stack THEN stack[i] ELSE left[i]]

\* *upvalue->location
Deref(u) ==
    IF u \notin open_upvalues THEN fields[u][1]
    ELSE IF location[u] \in DOMAIN stack THEN stack[location[u]] ELSE left[location[u]]

\* Hole: mark_roots walks the slots below the top only, so what the others hold
\* may have been freed since.
Readable(u) == UnrootedSlots \/ u \notin abandoned \/ Deref(u) \in heap \cup {Nil}

\* The pointers among some values.
Pointers(s) == Range(s) \cap Object

refs == [o \in Object |-> IF o \in heap THEN Pointers(fields[o]) ELSE {}]

\* Fault: mark_roots does not walk vm->open_upvalues.
Roots_Closed(st) ==
    Pointers(st)
    \cup { frames[i].closure : i \in DOMAIN frames }
    \cup { globals[g] : g \in { h \in Global : globals[h] \in Object } }

\* Fault: mark_roots does not walk vm->global_buffer.
Roots_NoGlobals(st) ==
    Pointers(st) \cup { frames[i].closure : i \in DOMAIN frames } \cup open_upvalues

\* mark_roots, when the stack is st.
Roots(st) ==
    Pointers(st)
    \cup { frames[i].closure : i \in DOMAIN frames }
    \cup { globals[g] : g \in { h \in Global : globals[h] \in Object } }
    \cup open_upvalues

-----------------------------------------------------------------------------
\* Allocation

\* What is left of the heap after allocate(), when the stack is st: all of it,
\* or what a collection keeps.
Survivors(st) == { heap, ReachableFrom(Roots(st), refs) }

\* An object of type k is made beside what is left of the heap ...
Make(kept, o, k, at) ==
    /\ o \in Object \ kept
    /\ heap' = kept \cup {o}
    /\ kind' = [p \in heap' |-> IF p = o THEN k ELSE kind[p]]
    /\ location' = [p \in heap' |-> IF p = o THEN at ELSE location[p]]
    /\ xSafe' = (xSafe /\ kept = heap)

\* ... and its fields are f.
Fill(kept, o, f) == [p \in kept \cup {o} |-> IF p = o THEN f ELSE fields[p]]

-----------------------------------------------------------------------------

Init ==
    /\ heap = {} /\ open_upvalues = {} /\ capturing = FALSE /\ xSafe = TRUE
    /\ kind = <<>> /\ fields = <<>> /\ location = <<>>
    /\ stack = <<>> /\ frames = <<>> /\ x = Nil
    /\ left = [i \in 1..StackSize |-> Nil] /\ abandoned = {}
    /\ globals = [g \in Global |-> Void]

\* interpret(): the collector is off until the closure of the compiled code is
\* on the stack and running.
Interpret ==
    /\ frames = <<>>
    /\ \E o \in Object :
        /\ Make(heap, o, "closure", Itself)
        /\ fields' = Fill(heap, o, <<>>)
        /\ stack' = <<o>>
        /\ frames' = <<[closure |-> o, slots |-> 1]>>
    /\ UNCHANGED <<x, globals, open_upvalues, capturing, abandoned>>
    /\ Leave

Running == frames # <<>> /\ ~capturing

Push(st, v) ==
    /\ Len(st) < StackSize
    /\ stack' = Append(st, v)

-----------------------------------------------------------------------------
\* Instructions that do not allocate

PushPlain ==
    /\ Running
    /\ Push(stack, Nil)
    /\ UNCHANGED <<heapVars, x, globals, frames, capturing, xSafe>>
    /\ Leave

\* OP_PUSH_X.  Hole: x is no root, so what it points to may have been freed
\* since OP_SAVE_X.
PushX ==
    /\ Running
    /\ UnrootedX \/ xSafe \/ x = Nil
    /\ Push(stack, x)
    /\ x' = Nil
    /\ UNCHANGED <<heapVars, globals, frames, capturing, xSafe>>
    /\ Leave

\* OP_SAVE_X, and OP_ASSERT, which clears x instead.
SaveX ==
    /\ Running /\ Operands(1)
    /\ x' \in {Peek(0), Nil}
    /\ xSafe' = TRUE
    /\ stack' = Drop(1)
    /\ UNCHANGED <<heapVars, globals, frames, capturing>>
    /\ Leave

\* OP_POP, OP_POPN, the comparisons and the arithmetic: operands are dropped.
Pop ==
    /\ Running /\ Operands(1)
    /\ stack' = Drop(1)
    /\ UNCHANGED <<heapVars, x, globals, frames, capturing, xSafe>>
    /\ Leave

GetLocal(i) ==
    /\ Running /\ i \in 2..Height
    /\ Push(stack, stack[Frame.slots + i - 1])
    /\ UNCHANGED <<heapVars, x, globals, frames, capturing, xSafe>>
    /\ Leave

SetLocal(i) ==
    /\ Running /\ i \in 2..Height
    /\ stack' = [stack EXCEPT ![Frame.slots + i - 1] = Peek(0)]
    /\ UNCHANGED <<heapVars, x, globals, frames, capturing, xSafe>>
    /\ Leave

DefGlobal(g) ==
    /\ Running /\ Operands(1)
    /\ globals' = [globals EXCEPT ![g] = Peek(0)]
    /\ stack' = Drop(1)
    /\ UNCHANGED <<heapVars, x, frames, capturing, xSafe>>
    /\ Leave

SetGlobal(g) ==
    /\ Running /\ Height > 1
    /\ globals[g] # Void
    /\ globals' = [globals EXCEPT ![g] = Peek(0)]
    /\ UNCHANGED <<heapVars, stack, x, frames, left, capturing, xSafe>>

GetGlobal(g) ==
    /\ Running
    /\ globals[g] # Void
    /\ Push(stack, globals[g])
    /\ UNCHANGED <<heapVars, x, globals, frames, capturing, xSafe>>
    /\ Leave

IsArray(v) == v \in Object /\ kind[v] = "array"

IndexGet(i) ==
    /\ Running /\ Operands(2)
    /\ IsArray(Peek(1)) /\ i \in DOMAIN fields[Peek(1)]
    /\ Push(Drop(2), fields[Peek(1)][i])
    /\ UNCHANGED <<heapVars, x, globals, frames, capturing, xSafe>>
    /\ Leave

IndexSet(i) ==
    /\ Running /\ Operands(3)
    /\ IsArray(Peek(2)) /\ i \in DOMAIN fields[Peek(2)]
    /\ fields' = [fields EXCEPT ![Peek(2)][i] = Peek(0)]
    /\ Push(Drop(3), Peek(0))
    /\ UNCHANGED <<heap, kind, location, open_upvalues, abandoned, x, globals, frames,
                   capturing, xSafe>>
    /\ Leave

-----------------------------------------------------------------------------
\* Instructions that allocate

\* OP_CONS.  Hole: the operands are popped before the pair is allocated, so
\* that a collection frees those that nothing else leads to.
MakePair ==
    /\ Running /\ Operands(2)
    /\ \E kept \in Survivors(Drop(2)), o \in Object :
        /\ UnrootedCons \/ Pointers(<<Peek(0), Peek(1)>>) \subseteq kept
        /\ Make(kept, o, "pair", Itself)
        /\ fields' = Fill(kept, o, <<Peek(1), Peek(0)>>)
        /\ Push(Drop(2), o)
    /\ UNCHANGED <<x, globals, frames, open_upvalues, capturing, abandoned>>
    /\ Leave

\* OP_ARRAY_8, OP_ARRAY_16, OP_MAP_8, OP_MAP_16: the elements stay on the stack
\* until the object exists.  (Of a map, the values: its keys are constants.)
MakeCollection(k, n) ==
    /\ Running /\ Operands(n)
    /\ \E kept \in Survivors(stack), o \in Object :
        /\ Make(kept, o, k, Itself)
        /\ fields' = Fill(kept, o, SubSeq(stack, Len(stack) - n + 1, Len(stack)))
        /\ Push(Drop(n), o)
    /\ UNCHANGED <<x, globals, frames, open_upvalues, capturing, abandoned>>
    /\ Leave

\* The upvalues OP_CLOSURE finds: those of the running closure, and the open ones
\* that point to the slots of the running call.
Local(u) == location[u] \in Frame.slots + 1 .. Len(stack)
Found == Range(fields[Frame.closure]) \cup { u \in open_upvalues : Local(u) }

\* OP_CLOSURE: the closure is on the stack before its upvalues are made.
MakeClosure(captures) ==
    /\ Running
    /\ \E kept \in Survivors(stack), o \in Object :
        /\ captures => Found # {} \/ Cardinality(Object \ kept) > 1   \* bound: room
        /\ Make(kept, o, "closure", Itself)
        /\ fields' = Fill(kept, o, <<>>)
        /\ Push(stack, o)
    /\ capturing' = captures
    /\ UNCHANGED <<x, globals, frames, open_upvalues, abandoned>>
    /\ Leave

\* capture_upvalue allocates when the variable has no open upvalue; the closure
\* it is for gets it when it exists.
CaptureFirst(i) ==
    /\ capturing /\ i \in 2..Height
    /\ LET slot == Frame.slots + i - 1
       IN  /\ \A u \in open_upvalues : location[u] # slot
           /\ \E kept \in Survivors(stack), o \in Object :
                /\ Make(kept, o, "upvalue", slot)
                /\ fields' = [Fill(kept, o, <<>>) EXCEPT ![Peek(0)] = <<o>>]
                /\ open_upvalues' = open_upvalues \cup {o}
    /\ capturing' = FALSE
    /\ UNCHANGED <<stack, x, globals, frames, abandoned>>
    /\ Leave

\* It allocates nothing for a variable that has one; one left open by an earlier
\* script is taken for the variable that has its slot now.
CaptureAgain ==
    /\ capturing
    /\ \E u \in { v \in open_upvalues : Local(v) } :
        /\ fields' = [fields EXCEPT ![Peek(0)] = <<u>>]
        /\ abandoned' = abandoned \ {u}
    /\ capturing' = FALSE
    /\ UNCHANGED <<heap, kind, location, open_upvalues, stack, x, globals, frames, left,
                   xSafe>>

\* A variable that the running closure has captured itself: its upvalue is shared.
CaptureEnclosing ==
    /\ capturing
    /\ \E u \in Range(fields[Frame.closure]) : fields' = [fields EXCEPT ![Peek(0)] = <<u>>]
    /\ capturing' = FALSE
    /\ UNCHANGED <<heap, kind, location, open_upvalues, abandoned, stack, x, globals,
                   frames, left, xSafe>>

-----------------------------------------------------------------------------
\* Upvalues, calls, the end of a script

GetUpvalue ==
    /\ Running
    /\ \E u \in Range(fields[Frame.closure]) : Readable(u) /\ Push(stack, Deref(u))
    /\ UNCHANGED <<heapVars, x, globals, frames, capturing, xSafe>>
    /\ Leave

SetUpvalue ==
    /\ Running /\ Height > 1
    /\ \E u \in Range(fields[Frame.closure]) :
        \/ /\ u \notin open_upvalues
           /\ fields' = [fields EXCEPT ![u] = <<Peek(0)>>]
           /\ UNCHANGED <<stack, left>>
        \/ /\ u \in open_upvalues /\ location[u] \in DOMAIN stack
           /\ stack' = [stack EXCEPT ![location[u]] = Peek(0)]
           /\ UNCHANGED <<fields, left>>
        \/ /\ u \in open_upvalues /\ location[u] \notin DOMAIN stack
           /\ left' = [left EXCEPT ![location[u]] = Peek(0)]
           /\ UNCHANGED <<fields, stack>>
    /\ UNCHANGED <<heap, kind, location, open_upvalues, abandoned, x, globals, frames,
                   capturing, xSafe>>

\* close_upvalues
Close(slot) ==
    LET closing == { u \in open_upvalues : location[u] >= slot }
    IN  /\ \A u \in closing : Readable(u)
        /\ fields' = [p \in heap |-> IF p \in closing THEN <<Deref(p)>> ELSE fields[p]]
        /\ location' = [p \in heap |-> IF p \in closing THEN Itself ELSE location[p]]
        /\ open_upvalues' = open_upvalues \ closing
        /\ abandoned' = abandoned \ closing

CloseUpvalue ==
    /\ Running /\ Height > 1
    /\ Close(Len(stack))
    /\ stack' = Drop(1)
    /\ UNCHANGED <<heap, kind, x, globals, frames, capturing, xSafe>>
    /\ Leave

\* The bound of the model: a call has room to go on, or may end in an error.
Room == Len(stack) < StackSize \/ heap # Object

\* Fault: push_frame does not check FRAMES_LIMIT.
Call_Unlimited(n) ==
    /\ Running /\ Operands(n + 1)
    /\ Peek(n) \in Object /\ kind[Peek(n)] = "closure" /\ Room
    /\ frames' = Append(frames, [closure |-> Peek(n), slots |-> Len(stack) - n])
    /\ UNCHANGED <<heapVars, stack, x, globals, left, capturing, xSafe>>

Call(n) ==
    /\ Running /\ Operands(n + 1)
    /\ Peek(n) \in Object /\ kind[Peek(n)] = "closure" /\ Room
    /\ Len(frames) < FramesLimit
    /\ frames' = Append(frames, [closure |-> Peek(n), slots |-> Len(stack) - n])
    /\ UNCHANGED <<heapVars, stack, x, globals, left, capturing, xSafe>>

Return ==
    /\ Running /\ Len(frames) > 1 /\ Height > 1
    /\ Close(Frame.slots)
    /\ stack' = Append(SubSeq(stack, 1, Frame.slots - 1), Peek(0))
    /\ frames' = Front(frames)
    /\ UNCHANGED <<heap, kind, x, globals, capturing, xSafe>>
    /\ Leave

\* reset_stack
ResetStack == stack' = <<>> /\ frames' = <<>> /\ x' = Nil /\ xSafe' = TRUE

\* OP_EXIT at the end of a script, whose own variables are gone; it prints x, and
\* that is the hole of PushX again.
Exit ==
    /\ Running /\ Len(frames) = 1 /\ Height = 1
    /\ UnrootedX \/ xSafe \/ x = Nil
    /\ heap # Object               \* the bound of the model: room for the next script
    /\ ResetStack
    /\ UNCHANGED <<heapVars, globals, capturing>>
    /\ Leave

\* runtime_error(): the upvalues stay open, and point to slots that no call owns.
RuntimeError ==
    /\ Running
    /\ heap # Object               \* the bound of the model, as in Exit
    /\ ResetStack
    /\ abandoned' = open_upvalues
    /\ UNCHANGED <<heap, kind, fields, location, open_upvalues, globals, capturing>>
    /\ Leave

-----------------------------------------------------------------------------

Next ==
    \/ Interpret
    \/ PushPlain \/ PushX \/ SaveX \/ Pop
    \/ \E i \in 2..StackSize : GetLocal(i) \/ SetLocal(i)
    \/ \E g \in Global : DefGlobal(g) \/ SetGlobal(g) \/ GetGlobal(g)
    \/ \E i \in 1..MaxElements : IndexGet(i) \/ IndexSet(i)
    \/ MakePair
    \/ \E k \in Collections, n \in 0..MaxElements : MakeCollection(k, n)
    \/ \E c \in BOOLEAN : MakeClosure(c)
    \/ \E i \in 2..StackSize : CaptureFirst(i)
    \/ CaptureAgain \/ CaptureEnclosing
    \/ GetUpvalue \/ SetUpvalue \/ CloseUpvalue
    \/ \E n \in 0..StackSize : Call(n)
    \/ Return
    \/ Exit
    \/ RuntimeError

Spec == Init /\ [][Next]_vars

-----------------------------------------------------------------------------
\* Properties

\* Every variable has its type: there are FRAMES_LIMIT calls at most, and only an
\* object that is allocated has a type and fields.
TypeOK ==
    /\ heap \subseteq Object
    /\ kind \in [heap -> Kind]
    /\ DOMAIN fields = heap /\ \A o \in heap : fields[o] \in BoundedSeq(Value, 2 + MaxElements)
    /\ location \in [heap -> 1..StackSize \cup {Itself}]
    /\ left \in [1..StackSize -> Value]
    /\ open_upvalues \subseteq Object /\ abandoned \subseteq open_upvalues
    /\ stack \in BoundedSeq(Value, StackSize)
    /\ x \in Value
    /\ globals \in [Global -> Value \cup {Void}]
    /\ frames \in BoundedSeq([closure : Object, slots : 1..StackSize], FramesLimit)
    /\ capturing \in BOOLEAN
    /\ xSafe \in BOOLEAN

(***************************************************************************)
(* The collector frees the unreachable objects only: whatever the machine  *)
(* can still get at, from its stack, its frames, its globals or its open   *)
(* upvalues, is allocated.                                                 *)
(***************************************************************************)
NoDangling ==
    /\ Pointers(stack) \cup Pointers(globals) \subseteq heap
    /\ { frames[i].closure : i \in DOMAIN frames } \cup open_upvalues \subseteq heap
    /\ Closed(heap, refs)

=============================================================================
