------------------------------ MODULE Variables ------------------------------
(***************************************************************************)
(* What a raven program may assume of its local variables, with no word of *)
(* stacks and upvalues: a variable is a cell, made when it is declared;    *)
(* the function that declares it and every closure that mentions it share  *)
(* that one cell; and the cell lives for as long as one of them does,      *)
(* whatever has become of the call that made it.                           *)
(*                                                                         *)
(* Closures.tla is the machine of src/vm.c, which implements this module.  *)
(***************************************************************************)
EXTENDS Naturals, Sequences, SequencesExt

CONSTANTS
    Plain,          \* values other than closures
    Closure,        \* closures
    Script,         \* the closure that wraps top-level code
    Cell,           \* variables
    MaxCaptures,    \* variables a closure may share (UPVALUES_LIMIT)
    Empty           \* the content of a variable that does not exist

VARIABLES
    scope,      \* the variables of the active calls, oldest first
    store,      \* what each variable holds
    env,        \* the variables a closure shares
    frames,     \* the active calls: whose they are, where their scope begins
    made,       \* the closures made so far
    capturing   \* variables the newest closure has yet to capture

vars == <<scope, store, env, frames, made, capturing>>

Running == Last(frames)

\* The variable at position i of the running call, its own closure being at 0.
Local(i) == scope[Running.slots + i + 1]

InUse == Range(scope) \cup UNION { Range(env[k]) : k \in made }

\* A value pushed on the stack is a new variable: a temporary is a variable
\* that no one can name.
PushNew(below, v) ==
    \E c \in Cell \ InUse :
        /\ scope' = Append(below, c)
        /\ store' = [store EXCEPT ![c] = v]

\* Variables that no call and no closure has any more do not exist.
Forget(keep) ==
    store' = [c \in Cell |-> IF c \in keep THEN store[c] ELSE Empty]

Captured == UNION { Range(env[k]) : k \in made }

-----------------------------------------------------------------------------

Init ==
    /\ scope = <<>> /\ frames = <<>> /\ made = {} /\ capturing = 0
    /\ store = [c \in Cell |-> Empty]
    /\ env = [k \in Closure \cup {Script} |-> <<>>]

Interpret ==
    /\ frames = <<>>
    /\ PushNew(<<>>, Script)
    /\ frames' = <<[closure |-> Script, slots |-> 0]>>
    /\ UNCHANGED <<env, made, capturing>>

Push(v) ==
    /\ PushNew(scope, v)
    /\ UNCHANGED <<env, frames, made, capturing>>

\* The youngest variable goes out of scope.
Pop ==
    /\ scope' = Front(scope)
    /\ Forget(Range(Front(scope)) \cup Captured)
    /\ UNCHANGED <<env, frames, made, capturing>>

\* An assignment stores the youngest temporary.
Assign(c) ==
    /\ store' = [store EXCEPT ![c] = store[Last(scope)]]
    /\ UNCHANGED <<scope, env, frames, made, capturing>>

MakeClosure(k, n) ==
    /\ k \notin made
    /\ PushNew(scope, k)
    /\ made' = made \cup {k}
    /\ capturing' = n
    /\ UNCHANGED <<env, frames>>

Capture(c) ==
    /\ capturing > 0
    /\ env' = [env EXCEPT ![store[Last(scope)]] = Append(@, c)]
    /\ capturing' = capturing - 1
    /\ UNCHANGED <<scope, store, frames, made>>

Call(n) ==
    /\ frames' = Append(frames, [closure |-> store[scope[Len(scope) - n]],
                                 slots |-> Len(scope) - n - 1])
    /\ UNCHANGED <<scope, store, env, made, capturing>>

\* The result takes the place of the callee's variables, of which those that a
\* closure shares live on.
Return ==
    LET below == SubSeq(scope, 1, Running.slots)
    IN  /\ \E c \in Cell \ (Range(below) \cup Captured) :
            /\ scope' = Append(below, c)
            /\ store' = [d \in Cell |->
                            IF d = c THEN store[Last(scope)]
                            ELSE IF d \in Range(below) \cup Captured THEN store[d]
                            ELSE Empty]
        /\ frames' = Front(frames)
        /\ UNCHANGED <<env, made, capturing>>

\* Top-level code ends, or an error abandons every call.
Stop ==
    /\ scope' = <<>> /\ frames' = <<>>
    /\ Forget(Captured)
    /\ UNCHANGED <<env, made, capturing>>

Variable == { Local(i) : i \in 1..(Len(scope) - Running.slots - 1) }
Shared == Range(env[Running.closure])

Next ==
    \/ Interpret
    \/ /\ frames # <<>> /\ capturing = 0
       /\ \/ \E v \in Plain \cup made : Push(v)
          \/ Pop
          \/ \E c \in Variable \cup Shared : Push(store[c]) \/ Assign(c)
          \/ \E k \in Closure, n \in 0..MaxCaptures : MakeClosure(k, n)
          \/ \E n \in 0..(Len(scope) - Running.slots - 2) : Call(n)
          \/ Return
          \/ Stop
    \/ /\ capturing > 0
       /\ \E c \in Variable \cup Shared : Capture(c)

Spec == Init /\ [][Next]_vars

=============================================================================
