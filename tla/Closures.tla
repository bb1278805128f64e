------------------------------ MODULE Closures ------------------------------
(***************************************************************************)
(* Calls, closures and upvalues of the virtual machine (src/vm.c).         *)
(*                                                                         *)
(* A local variable lives in a slot of the value stack.  A closure reaches *)
(* it through an upvalue object, which points to the slot while the        *)
(* variable is in scope (it is "open") and to a copy it owns afterwards    *)
(* ("closed").  The open upvalues form a list, by descending slot, so that *)
(* closures that capture the same variable find the same upvalue.          *)
(*                                                                         *)
(* The machine executes any sequence of instructions the compiler could    *)
(* emit: it never pops a captured variable with OP_POP, it captures        *)
(* variables in scope only, and top-level code ends with an empty stack.   *)
(* Every slot is taken for a variable: a temporary is one that no code     *)
(* names.  Whatever has been made may have been stored in a global, so any *)
(* closure can be pushed again, by a later script too: the REPL runs one   *)
(* script after the other on one machine.                                  *)
(***************************************************************************)
EXTENDS Naturals, Sequences, SequencesExt, FiniteSets

CONSTANTS
    Plain,          \* values other than closures
    Closure,        \* closure objects
    Script,         \* the closure interpret() wraps top-level code in
    Upvalue,        \* upvalue objects
    Cell, Empty,    \* of Variables: names for the variables, for the mapping
    Closed,         \* the location of an upvalue that points to its own copy
    StackSize,      \* STACK_SIZE
    FramesLimit,    \* FRAMES_LIMIT
    MaxCaptures,    \* UPVALUES_LIMIT
    MaxErrors       \* the bound of the model on run-time errors

ASSUME SizeAssumption == StackSize \in Nat /\ FramesLimit \in Nat \ {0}
ASSUME CaptureAssumption == MaxCaptures \in Nat /\ MaxErrors \in Nat
ASSUME ValueAssumption ==
    Script \notin Closure /\ (Closure \cup {Script}) \cap Plain = {}
ASSUME LocationAssumption == Closed \notin Nat
\* Upvalues are objects, of which there are finitely many, and there are enough
\* names for the variables in use.
ASSUME CellAssumption ==
    /\ IsFiniteSet(Upvalue) /\ IsFiniteSet(Cell) /\ Empty \notin Cell
    /\ StackSize + Cardinality(Upvalue) <= Cardinality(Cell)

VARIABLES
    stack,          \* the slots, with whatever was last written to them
    stack_top,      \* the slots in use
    frames,         \* the call frames
    open_upvalues,  \* the list of open upvalues
    location,       \* where an upvalue points: a slot, or Closed
    captured,       \* the copy it owns
    upvalues,       \* the upvalues of a closure
    made,           \* closures made
    capturing,      \* upvalues the closure just pushed has yet to get
    errors,         \* run-time errors so far
    slotCell,       \* ghost: the variable that a slot is
    upvalueCell     \* ghost: the variable an upvalue was made for

ghosts == <<slotCell, upvalueCell>>
machine == <<stack, stack_top, frames, open_upvalues, location, captured,
             upvalues, made, capturing, errors>>
vars == <<stack, stack_top, frames, open_upvalues, location, captured,
          upvalues, made, capturing, errors, slotCell, upvalueCell>>

Slot  == 0..(StackSize - 1)
Value == Plain \cup Closure \cup {Script}

Frame   == Last(frames)
Height  == stack_top - Frame.slots          \* slots of the running call
Peek(n) == stack[stack_top - 1 - n]

\* The upvalues that have been made.
Used == { u \in Upvalue : upvalueCell[u] # Empty }

\* What *upvalue->location reads.
Deref(u) == IF location[u] = Closed THEN captured[u] ELSE stack[location[u]]

\* Where the loops over the open upvalues stop, 0 if at the end: at the first
\* that points to the slot or below it, and at the first below it.
FirstAt(slot)    == SelectInSeq(open_upvalues, LAMBDA u : location[u] <= slot)
FirstBelow(slot) == SelectInSeq(open_upvalues, LAMBDA u : location[u] < slot)

-----------------------------------------------------------------------------
\* Ghosts: which variables there are

CellsInUse(top) ==
    { slotCell[s] : s \in 0..(top - 1) } \cup { upvalueCell[u] : u \in Used }

NewCell(top) == CHOOSE c \in Cell : c \notin CellsInUse(top)

-----------------------------------------------------------------------------

Init ==
    /\ stack = [s \in Slot |-> Script]
    /\ stack_top = 0
    /\ frames = <<>>
    /\ open_upvalues = <<>>
    /\ location = [u \in Upvalue |-> Closed]
    /\ captured = [u \in Upvalue |-> Empty]
    /\ upvalues = [k \in Closure \cup {Script} |-> <<>>]
    /\ made = {}
    /\ capturing = 0
    /\ errors = 0
    /\ slotCell = [s \in Slot |-> Empty]
    /\ upvalueCell = [u \in Upvalue |-> Empty]

\* push() on a stack that holds the slots below `top'.
PushOn(top, v) ==
    /\ top < StackSize
    /\ stack' = [stack EXCEPT ![top] = v]
    /\ stack_top' = top + 1
    /\ slotCell' = [slotCell EXCEPT ![top] = NewCell(top)]

\* interpret(): wrap the compiled code in a closure and call it.
Interpret ==
    /\ frames = <<>>
    /\ PushOn(stack_top, Script)
    /\ frames' = <<[closure |-> Script, slots |-> stack_top]>>
    /\ UNCHANGED <<open_upvalues, location, captured, upvalues, made,
                   capturing, errors, upvalueCell>>

\* Between instructions.
Running == frames # <<>> /\ capturing = 0

\* OP_PUSH_TRUE, OP_PUSH_CONST, OP_GET_GLOBAL, ...
Push(v) ==
    /\ Running
    /\ PushOn(stack_top, v)
    /\ UNCHANGED <<frames, open_upvalues, location, captured, upvalues, made,
                   capturing, errors, upvalueCell>>

\* OP_POP, and OP_POPN as several of them: never a captured variable.
Pop ==
    /\ Running
    /\ Height > 1
    /\ \A u \in Used : location[u] # stack_top - 1
    /\ stack_top' = stack_top - 1
    /\ UNCHANGED <<stack, frames, open_upvalues, location, captured, upvalues,
                   made, capturing, errors, ghosts>>

\* OP_GET_LOCAL
GetLocal(i) ==
    /\ Running
    /\ i \in 1..(Height - 1)
    /\ PushOn(stack_top, stack[Frame.slots + i])
    /\ UNCHANGED <<frames, open_upvalues, location, captured, upvalues, made,
                   capturing, errors, upvalueCell>>

\* OP_SET_LOCAL
SetLocal(i) ==
    /\ Running
    /\ i \in 1..(Height - 1)
    /\ stack' = [stack EXCEPT ![Frame.slots + i] = Peek(0)]
    /\ UNCHANGED <<stack_top, frames, open_upvalues, location, captured,
                   upvalues, made, capturing, errors, ghosts>>

\* OP_GET_UPVALUE
GetUpvalue(i) ==
    /\ Running
    /\ i \in DOMAIN upvalues[Frame.closure]
    /\ PushOn(stack_top, Deref(upvalues[Frame.closure][i]))
    /\ UNCHANGED <<frames, open_upvalues, location, captured, upvalues, made,
                   capturing, errors, upvalueCell>>

\* OP_SET_UPVALUE
SetUpvalue(i) ==
    /\ Running
    /\ Height > 1
    /\ i \in DOMAIN upvalues[Frame.closure]
    /\ LET u == upvalues[Frame.closure][i]
       IN  IF location[u] = Closed
           THEN /\ captured' = [captured EXCEPT ![u] = Peek(0)]
                /\ UNCHANGED stack
           ELSE /\ stack' = [stack EXCEPT ![location[u]] = Peek(0)]
                /\ UNCHANGED captured
    /\ UNCHANGED <<stack_top, frames, open_upvalues, location, upvalues, made,
                   capturing, errors, ghosts>>

-----------------------------------------------------------------------------
\* OP_CLOSURE: push the closure, then fill in its upvalues one by one

MakeClosure(k, n) ==
    /\ Running
    /\ k \notin made
    /\ n <= Cardinality(Upvalue \ Used)     \* the bound of the model
    /\ PushOn(stack_top, k)
    /\ made' = made \cup {k}
    /\ capturing' = n
    /\ UNCHANGED <<frames, open_upvalues, location, captured, upvalues, errors,
                   upvalueCell>>

\* Fault: the loop of OP_CLOSURE does not stop at upvalue_count.
Attach_Always(u) ==
    /\ upvalues' = [upvalues EXCEPT ![Peek(0)] = Append(@, u)]
    /\ UNCHANGED capturing

\* The closure under construction gets one more upvalue.
Attach(u) ==
    /\ upvalues' = [upvalues EXCEPT ![Peek(0)] = Append(@, u)]
    /\ capturing' = capturing - 1

\* capture_upvalue on a variable that has an open upvalue: share it.
CaptureAgain(i) ==
    /\ capturing > 0
    /\ i \in 1..(Height - 1)
    /\ LET slot == Frame.slots + i
           at   == FirstAt(slot)
       IN  /\ at > 0
           /\ location[open_upvalues[at]] = slot
           /\ Attach(open_upvalues[at])
    /\ UNCHANGED <<stack, stack_top, frames, open_upvalues, location, captured,
                   made, errors, ghosts>>

\* Fault: a new upvalue becomes the head of the list.
CaptureFirst_AtHead(i, new) ==
    /\ capturing > 0
    /\ i \in 1..(Height - 1)
    /\ new \notin Used
    /\ LET slot == Frame.slots + i
           at   == FirstAt(slot)
       IN  /\ at > 0 => location[open_upvalues[at]] # slot
           /\ open_upvalues' = <<new>> \o open_upvalues
           /\ location' = [location EXCEPT ![new] = slot]
           /\ upvalueCell' = [upvalueCell EXCEPT ![new] = slotCell[slot]]
    /\ Attach(new)
    /\ UNCHANGED <<stack, stack_top, frames, captured, made, errors, slotCell>>

\* capture_upvalue on any other: a new upvalue enters the list in its place.
CaptureFirst(i, new) ==
    /\ capturing > 0
    /\ i \in 1..(Height - 1)
    /\ new \notin Used
    /\ LET slot == Frame.slots + i
           at   == FirstAt(slot)
       IN  /\ at > 0 => location[open_upvalues[at]] # slot
           /\ open_upvalues' = IF at = 0 THEN Append(open_upvalues, new)
                               ELSE InsertAt(open_upvalues, at, new)
           /\ location' = [location EXCEPT ![new] = slot]
           /\ upvalueCell' = [upvalueCell EXCEPT ![new] = slotCell[slot]]
    /\ Attach(new)
    /\ UNCHANGED <<stack, stack_top, frames, captured, made, errors, slotCell>>

\* The variable is an upvalue of the enclosing function already.
CaptureEnclosing(i) ==
    /\ capturing > 0
    /\ i \in DOMAIN upvalues[Frame.closure]
    /\ Attach(upvalues[Frame.closure][i])
    /\ UNCHANGED <<stack, stack_top, frames, open_upvalues, location, captured,
                   made, errors, ghosts>>

-----------------------------------------------------------------------------
\* The end of variables

\* Fault: close_upvalues spares the slot it is given.
CloseUpvalues_Above(slot) ==
    LET at   == FirstAt(slot)
        rest == IF at = 0 THEN <<>>
                ELSE SubSeq(open_upvalues, at, Len(open_upvalues))
        closing == Range(open_upvalues) \ Range(rest)
    IN  /\ open_upvalues' = rest
        /\ captured' = [u \in Upvalue |->
                            IF u \in closing THEN stack[location[u]] ELSE captured[u]]
        /\ location' = [u \in Upvalue |->
                            IF u \in closing THEN Closed ELSE location[u]]

\* close_upvalues: the head of the list, down to the given slot, takes copies.
CloseUpvalues(slot) ==
    LET at   == FirstBelow(slot)
        rest == IF at = 0 THEN <<>>
                ELSE SubSeq(open_upvalues, at, Len(open_upvalues))
        closing == Range(open_upvalues) \ Range(rest)
    IN  /\ open_upvalues' = rest
        /\ captured' = [u \in Upvalue |->
                            IF u \in closing THEN stack[location[u]] ELSE captured[u]]
        /\ location' = [u \in Upvalue |->
                            IF u \in closing THEN Closed ELSE location[u]]

\* OP_CLOSE_UPVALUE: a captured variable goes out of scope.
CloseUpvalue ==
    /\ Running
    /\ Height > 1
    /\ CloseUpvalues(stack_top - 1)
    /\ stack_top' = stack_top - 1
    /\ UNCHANGED <<stack, frames, upvalues, made, capturing, errors, ghosts>>

\* OP_CALL of a closure below n arguments.
Call(n) ==
    /\ Running
    /\ n + 1 < Height
    /\ Peek(n) \in made
    /\ stack_top < StackSize       \* the bound of the model: room to go on
    /\ Len(frames) < FramesLimit
    /\ frames' = Append(frames, [closure |-> Peek(n), slots |-> stack_top - n - 1])
    /\ UNCHANGED <<stack, stack_top, open_upvalues, location, captured,
                   upvalues, made, capturing, errors, ghosts>>

\* OP_RETURN
Return ==
    /\ Running
    /\ Len(frames) > 1 /\ Height > 1
    /\ CloseUpvalues(Frame.slots)
    /\ stack' = [stack EXCEPT ![Frame.slots] = Peek(0)]
    /\ stack_top' = Frame.slots + 1
    /\ frames' = Front(frames)
    /\ slotCell' = [slotCell EXCEPT ![Frame.slots] = NewCell(Frame.slots)]
    /\ UNCHANGED <<upvalues, made, capturing, errors, upvalueCell>>

\* reset_stack
ResetStack == stack_top' = 0 /\ frames' = <<>>

\* OP_EXIT: the end of top-level code, whose own variables are gone by then.
Exit ==
    /\ Running
    /\ Len(frames) = 1 /\ Height = 1
    /\ ResetStack
    /\ UNCHANGED <<stack, open_upvalues, location, captured, upvalues, made,
                   capturing, errors, ghosts>>

\* runtime_error(): an operand of the wrong type, a call of no closure or of
\* too many frames, a failed assertion.
RuntimeError ==
    /\ Running
    /\ errors < MaxErrors
    /\ errors' = errors + 1
    /\ ResetStack
    /\ UNCHANGED <<stack, open_upvalues, location, captured, upvalues, made,
                   capturing, ghosts>>

-----------------------------------------------------------------------------

Next ==
    \/ Interpret
    \/ \E v \in Plain \cup made : Push(v)
    \/ Pop
    \/ \E i \in Slot : GetLocal(i) \/ SetLocal(i)
    \/ \E i \in 1..MaxCaptures : GetUpvalue(i) \/ SetUpvalue(i)
    \/ \E k \in Closure, n \in 0..MaxCaptures : MakeClosure(k, n)
    \/ \E i \in Slot : CaptureAgain(i)
    \/ \E i \in Slot, u \in Upvalue : CaptureFirst(i, u)
    \/ \E i \in 1..MaxCaptures : CaptureEnclosing(i)
    \/ CloseUpvalue
    \/ \E n \in Slot : Call(n)
    \/ Return
    \/ Exit
    \/ RuntimeError

Spec == Init /\ [][Next]_vars

-----------------------------------------------------------------------------
\* Properties

\* Every variable has its type: no upvalue array overflows, the frames and the
\* stack stay within their limits.
TypeOK ==
    /\ stack \in [Slot -> Value]
    /\ stack_top \in 0..StackSize
    /\ frames \in BoundedSeq([closure : Closure \cup {Script}, slots : Slot], FramesLimit)
    /\ open_upvalues \in BoundedSeq(Upvalue, Cardinality(Upvalue))
    /\ location \in [Upvalue -> Slot \cup {Closed}]
    /\ captured \in [Upvalue -> Value \cup {Empty}]
    /\ upvalues \in [Closure \cup {Script} -> BoundedSeq(Upvalue, MaxCaptures)]
    /\ made \subseteq Closure
    /\ capturing \in 0..MaxCaptures
    /\ errors \in 0..MaxErrors

(***************************************************************************)
(* The list of open upvalues is strictly descending, so that a slot has at *)
(* most one, and holds every upvalue that points into the stack: this is   *)
(* what lets capture_upvalue (vm.c:135) stop early and close_upvalues      *)
(* (vm.c:155) look at nothing but the head.  It survives run-time errors.  *)
(***************************************************************************)
OpenListSorted ==
    /\ \A i, j \in DOMAIN open_upvalues :
            i < j => location[open_upvalues[i]] > location[open_upvalues[j]]
    /\ Range(open_upvalues) = { u \in Used : location[u] # Closed }

(***************************************************************************)
(* An upvalue refers to the variable it was made for (object.h:119), for   *)
(* as long as it points into the part of the stack that is in use.         *)
(***************************************************************************)
UpvalueKeepsItsVariable ==
    \A u \in Range(open_upvalues) :
        location[u] < stack_top => slotCell[location[u]] = upvalueCell[u]

(***************************************************************************)
(* The machine implements Variables: closures and calls see one another's  *)
(* assignments to the variables they share, before and after the call that *)
(* declared them has returned.                                             *)
(***************************************************************************)
scopeBar == [i \in 1..stack_top |-> slotCell[i - 1]]

storeBar ==
    [c \in Cell |->
        IF \E s \in 0..(stack_top - 1) : slotCell[s] = c
        THEN stack[CHOOSE s \in 0..(stack_top - 1) : slotCell[s] = c]
        ELSE IF \E u \in Used : upvalueCell[u] = c
        THEN Deref(CHOOSE u \in Used : upvalueCell[u] = c)
        ELSE Empty]

envBar ==
    [k \in Closure \cup {Script} |->
        [i \in DOMAIN upvalues[k] |-> upvalueCell[upvalues[k][i]]]]

Abstract == INSTANCE Variables WITH scope <- scopeBar, store <- storeBar, env <- envBar

\* ... in every run, up to its first run-time error.
ImplementsVariables ==
    Abstract!Init /\ [][Abstract!Next \/ errors' > 0]_(Abstract!vars)

=============================================================================
