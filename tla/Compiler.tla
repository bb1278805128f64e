------------------------------ MODULE Compiler ------------------------------
(***************************************************************************)
(* Scopes, local variables and upvalues in the one-pass compiler           *)
(* (src/compiler.c).  It keeps no syntax tree and never counts what is on  *)
(* the stack: the slot of a local variable is its position in the array of *)
(* locals, and some instructions are taken back after they were emitted.   *)
(*                                                                         *)
(* The module feeds the compiler every program of the grammar, one         *)
(* construct at a time, and computes beside it, in `runtime', where the    *)
(* emitted code puts things and what the names mean by lexical scoping.    *)
(* Conditions are constants, and calls, arrays and maps operators: they    *)
(* treat scopes as a constant and an operator do.                          *)
(*                                                                         *)
(* Three kinds of programs are compiled wrongly; a constant admits each.   *)
(***************************************************************************)
EXTENDS Integers, Sequences, SequencesExt

CONSTANTS
    Name,           \* identifiers
    LOCALS_LIMIT, UPVALUES_LIMIT,
    MaxNesting,     \* the bounds of the model on constructs in one another,
    MaxFunctions,   \* on functions in one another,
    MaxParams,      \* and on the parameters of one
    BlocksAnywhere, \* blocks where the locals are not all there is on the stack
    Continues,      \* `continue' where a local is in scope
    Operands        \* an operand byte that has the value of OP_SAVE_X

ASSUME NameAssumption == "" \notin Name
ASSUME LimitsAssumption == LOCALS_LIMIT \in Nat \ {0} /\ UPVALUES_LIMIT \in Nat
ASSUME BoundAssumption == MaxNesting \in Nat \ {0} /\ {MaxFunctions, MaxParams} \subseteq Nat
ASSUME AdmitAssumption == {BlocksAnywhere, Continues, Operands} \subseteq BOOLEAN

Uninit == -1        \* the depth of a local whose initialiser is being compiled
NoLoop == -1

VARIABLES
    contexts,           \* the Context of each function being compiled
    inner_loop_depth,   \* Parser.inner_loop_depth
    parse,              \* the constructs being parsed, innermost last
    compiled,           \* the innermost one has got the expression it was to get
    had_error,          \* Parser.had_error: the program will not be run
    runtime,            \* ghost: for each function, the height of its frame here,
                        \* and the variables in scope with their slots
    agrees,             \* ghost: the last name was compiled to the variable it means
    damaged             \* ghost: more than an OP_SAVE_X was taken back

vars == <<contexts, inner_loop_depth, parse, compiled, had_error, runtime,
          agrees, damaged>>

This   == Last(contexts)
Here   == Last(runtime)
Inner  == Last(parse)
Levels == DOMAIN contexts

\* Replace the innermost context, or ghost.
SetThis(c) == contexts' = Append(Front(contexts), c)
SetHere(r) == runtime' = Append(Front(runtime), r)

\* A construct with a given expression or statements to come, and what there was
\* before it: the function, its scopes and its frame.
Open(what) ==
    [what |-> what, loop |-> inner_loop_depth, level |-> Len(contexts),
     depth |-> This.scope_depth, count |-> Len(This.locals),
     height |-> Here.height, scope |-> Here.scope]

TopLevel ==
    [what |-> "toplevel", loop |-> NoLoop, level |-> 1, depth |-> 0, count |-> 1,
     height |-> 1, scope |-> <<>>]

\* Where a statement may come, and where an expression must.
AtStatement  == ~had_error /\ ~compiled
                /\ Inner.what \in {"toplevel", "function", "if", "else", "do", "while"}
AtExpression == ~had_error /\ ~compiled
                /\ Inner.what \in {"let", "statement", "operand", "and", "assign", "store", "lambda"}
AfterExpression == ~had_error /\ compiled

\* The bound of the model: room for another construct, and for one in it.
Nested == Len(parse) < MaxNesting
Deeper == Len(parse) + 1 < MaxNesting

-----------------------------------------------------------------------------
\* Contexts

\* init_context: slot 0 is the function's own.
Slot0 == [name |-> "", depth |-> 0, is_captured |-> FALSE]

NewContext(depth) ==
    [locals |-> <<Slot0>>, upvalues |-> <<>>, scope_depth |-> depth, tail |-> <<>>]

\* The end of the emitted code: the kind of the last byte, which is an operand, a
\* getter's index, OP_INDEX_GET, OP_SAVE_X or another opcode, and under OP_SAVE_X
\* that of the byte before it.
Emit(c, kind) ==
    [c EXCEPT !.tail = IF kind = "save_x" THEN <<Last(@), kind>> ELSE <<kind>>]

EndsWith(c, kind) == c.tail # <<>> /\ Last(c.tail) = kind

NewFrame == [height |-> 1, scope |-> <<>>]

\* declare_variable finds the name in the same scope.
Redeclared(c, n) ==
    LET outer == SelectLastInSeq(c.locals, LAMBDA l : l.depth < c.scope_depth)
    IN  \E i \in (outer + 1)..Len(c.locals) : c.locals[i].name = n

\* Fault: the array of locals is never full.
CanDeclare_Unlimited(c, n) == ~Redeclared(c, n)

CanDeclare(c, n) == ~Redeclared(c, n) /\ Len(c.locals) < LOCALS_LIMIT

\* add_local, and mark_initialized unless the depth is Uninit.
AddLocal(c, n, depth) ==
    [c EXCEPT !.locals = Append(@, [name |-> n, depth |-> depth, is_captured |-> FALSE])]

Bind(r, n, slot) ==
    [r EXCEPT !.scope = Append(@, [name |-> n, slot |-> slot, captured |-> FALSE])]

\* Fault: the locals of the scope that ends are kept.
Kept_Deeper(c, depth) == SelectLastInSeq(c.locals, LAMBDA l : l.depth <= depth)

\* The locals unwind_stack leaves.
Kept(c, depth) == SelectLastInSeq(c.locals, LAMBDA l : l.depth < depth)

Closing(c, depth) == \E i \in (Kept(c, depth) + 1)..Len(c.locals) : c.locals[i].is_captured

Truncate(c, depth) == [c EXCEPT !.locals = SubSeq(@, 1, Kept(c, depth))]

\* Fault: the variables are popped, and still looked up.
Unwind_KeepsLocals(c, depth) == Emit(c, "operand")

\* unwind_stack: OP_POPN, or OP_POPs with OP_CLOSE_UPVALUEs among them.
Unwind(c, depth) ==
    IF Kept(c, depth) = Len(c.locals) THEN c
    ELSE Emit(Truncate(c, depth), IF Closing(c, depth) THEN "opcode" ELSE "operand")

-----------------------------------------------------------------------------
\* Names

\* Fault: a variable is in scope in its own initialiser.
ResolveLocal_Uninit(c, n) == SelectLastInSeq(c.locals, LAMBDA l : l.name = n) - 1

\* resolve_local, -1 if there is none.
ResolveLocal(c, n) ==
    SelectLastInSeq(c.locals, LAMBDA l : l.depth # Uninit /\ l.name = n) - 1

\* Fault: every mention of a variable adds an upvalue.
AddUpvalue_Twice(c, u) == [c EXCEPT !.upvalues = Append(@, u)]

\* add_upvalue: the same variable has one upvalue only.
AddUpvalue(c, u) ==
    IF Contains(c.upvalues, u) THEN c ELSE [c EXCEPT !.upvalues = Append(@, u)]

UpvalueIndex(c, u) == SelectInSeq(c.upvalues, LAMBDA v : v = u) - 1

\* The levels whose functions have a local of this name; resolve_upvalue takes
\* the innermost.
Declaring(n) == { k \in Levels : ResolveLocal(contexts[k], n) # -1 }
Nearest(K) == CHOOSE k \in K : \A j \in K : j <= k

\* resolve_upvalue: from the function that declares the name inwards, each one
\* on the way captures it from the one before.
Captured(home, n) ==
    LET slot == ResolveLocal(contexts[home], n)
        index[k \in home..Len(contexts)] ==
            IF k = home THEN slot
            ELSE LET u == [is_local |-> k = home + 1, index |-> index[k - 1]]
                 IN  UpvalueIndex(AddUpvalue(contexts[k], u), u)
        Capture(k) ==
            IF k < home THEN contexts[k]
            ELSE IF k = home
            THEN [contexts[k] EXCEPT !.locals[slot + 1].is_captured = TRUE]
            ELSE AddUpvalue(contexts[k], [is_local |-> k = home + 1, index |-> index[k - 1]])
    IN  [contexts |-> [k \in Levels |-> Capture(k)], index |-> index[Len(contexts)]]

\* The level and slot that upvalue i of level k of some contexts stands for.
Denotes(cs, k, i) ==
    LET home[j \in 1..k] ==
            [v \in DOMAIN cs[j].upvalues |->
                IF cs[j].upvalues[v].is_local THEN <<j - 1, cs[j].upvalues[v].index>>
                ELSE home[j - 1][cs[j].upvalues[v].index + 1]]
    IN  home[k][i + 1]

\* What a name means: the latest variable of that name that is in scope, in the
\* innermost function that has one, or else a global.
Global == <<0, 0>>

InScope(k, n) == SelectLastInSeq(runtime[k].scope, LAMBDA b : b.name = n)

Meaning(n) ==
    LET K == { k \in Levels : InScope(k, n) # 0 }
    IN  IF K = {} THEN Global
        ELSE <<Nearest(K), runtime[Nearest(K)].scope[InScope(Nearest(K), n)].slot>>

\* The ghost of the variable a name means, which an inner function captures.
Mark(n) ==
    LET k == Meaning(n)[1]
    IN  IF k \in {0, Len(contexts)} THEN runtime
        ELSE [runtime EXCEPT ![k].scope[InScope(k, n)].captured = TRUE]

Pushed(rs) == [rs EXCEPT ![Len(rs)].height = @ + 1]

-----------------------------------------------------------------------------
\* Expressions

Init ==
    /\ contexts = <<NewContext(0)>>
    /\ runtime = <<NewFrame>>
    /\ inner_loop_depth = NoLoop
    /\ parse = <<TopLevel>>
    /\ compiled = FALSE /\ had_error = FALSE
    /\ agrees = TRUE /\ damaged = FALSE

\* A constant.
Literal ==
    /\ AtExpression
    /\ SetThis(Emit(This, "operand"))
    /\ SetHere([Here EXCEPT !.height = @ + 1])
    /\ compiled' = TRUE
    /\ UNCHANGED <<inner_loop_depth, parse, had_error, agrees, damaged>>

\* identifier(): a local, an upvalue or a global.
Identifier(n) ==
    /\ AtExpression
    /\ LET K     == Declaring(n)
           local == Nearest(K) = Len(contexts)
           found == Captured(Nearest(K), n)
           after == IF K = {} \/ local THEN contexts ELSE found.contexts
           reads == IF K = {} THEN Global
                    ELSE IF local THEN <<Len(contexts), ResolveLocal(This, n)>>
                    ELSE Denotes(after, Len(contexts), found.index)
       IN  /\ contexts' = [after EXCEPT ![Len(contexts)] = Emit(@, "get")]
           /\ had_error' = \E k \in Levels : Len(after[k].upvalues) > UPVALUES_LIMIT
           /\ agrees' = (reads = Meaning(n))
           /\ runtime' = Pushed(Mark(n))
    /\ compiled' = TRUE
    /\ UNCHANGED <<inner_loop_depth, parse, damaged>>

\* binary() and cons(), index and call: the left operand stays on the stack while the
\* right one is compiled.
Operator ==
    /\ AfterExpression /\ Nested
    /\ parse' = Append(parse, Open("operand"))
    /\ compiled' = FALSE
    /\ UNCHANGED <<contexts, inner_loop_depth, had_error, runtime, agrees, damaged>>

\* and_() and or_(): OP_POP drops the left operand before the right one is compiled.
AndOr ==
    /\ AfterExpression /\ Nested
    /\ SetThis(Emit(This, "opcode"))
    /\ SetHere([Here EXCEPT !.height = @ - 1])
    /\ parse' = Append(parse, [Open("and") EXCEPT !.height = @ - 1])
    /\ compiled' = FALSE
    /\ UNCHANGED <<inner_loop_depth, had_error, agrees, damaged>>

\* A jump lands behind the right operand, so that its getter is not to be taken back
\* (Parser.tla shows what becomes of the jump if it is).
FinishAndOr ==
    /\ AfterExpression /\ Inner.what = "and"
    /\ SetThis(Emit(This, IF EndsWith(This, "get") \/ EndsWith(This, "operand")
                          THEN "operand" ELSE "opcode"))
    /\ parse' = Front(parse)
    /\ UNCHANGED <<inner_loop_depth, compiled, had_error, runtime, agrees, damaged>>

\* assignment(): the getter, or OP_INDEX_GET, is taken back.
Assignment ==
    /\ AfterExpression /\ Nested
    /\ Inner.what \notin {"operand", "and"}
    /\ LET back == IF EndsWith(This, "get") THEN -1 ELSE 1
       IN  /\ EndsWith(This, "get") \/ EndsWith(This, "index")
           /\ SetHere([Here EXCEPT !.height = @ + back])
           /\ parse' = Append(parse, [Open(IF back = 1 THEN "store" ELSE "assign")
                                       EXCEPT !.height = @ + back])
    /\ SetThis(Emit(This, "opcode"))
    /\ compiled' = FALSE
    /\ UNCHANGED <<inner_loop_depth, had_error, agrees, damaged>>

\* The operation: of an operator or an indexing, which pops one of its operands,
\* of an assignment, which leaves its value, or of one to an element.
FinishOperand(kind) ==
    /\ AfterExpression /\ Inner.what \in {"operand", "assign", "store"}
    /\ kind = "index" => Inner.what = "operand"
    /\ SetThis(Emit(This, IF Inner.what = "assign" THEN "operand" ELSE kind))
    /\ SetHere([Here EXCEPT !.height = CASE Inner.what = "assign"  -> @
                                         [] Inner.what = "operand" -> @ - 1
                                         [] Inner.what = "store"   -> @ - 2])
    /\ parse' = Front(parse)
    /\ UNCHANGED <<inner_loop_depth, compiled, had_error, agrees, damaged>>

-----------------------------------------------------------------------------
\* Blocks

\* What end_scope and function_block do to get at the value of a block: take
\* back the OP_SAVE_X that was emitted last, or else push x.  They look at a
\* byte, which may be an operand, or before the first byte of the code.
Loaded(c) ==
    IF EndsWith(c, "save_x") THEN [c EXCEPT !.tail = Front(@)] ELSE Emit(c, "opcode")

Loads(c) ==
    \/ c.tail # <<>> /\ UNCHANGED damaged
    \/ /\ Operands /\ (c.tail = <<>> \/ EndsWith(c, "operand") \/ EndsWith(c, "get"))
       /\ damaged' = TRUE

\* The running function after end_scope.
Ended(c) == [Unwind(c, c.scope_depth) EXCEPT !.scope_depth = @ - 1]

\* ... and its frame, the locals having gone and a value having come.
EndedFrame ==
    [height |-> Here.height - (Len(This.locals) - Kept(This, This.scope_depth)) + 1,
     scope |-> SubSeq(Here.scope, 1, Len(Inner.scope))]

\* do, if and while, up to the first statement of the block.
Begin(what) ==
    /\ AtExpression /\ Deeper
    /\ BlocksAnywhere \/ Len(This.locals) = Here.height
    /\ SetThis([IF what = "do" THEN This ELSE Emit(This, "operand")
                EXCEPT !.scope_depth = @ + 1])
    /\ inner_loop_depth' = IF what = "while" THEN This.scope_depth ELSE inner_loop_depth
    /\ parse' = Append(parse, Open(what))
    /\ UNCHANGED <<compiled, had_error, runtime, agrees, damaged>>

\* block(), and if_() without an else.  What follows a jump's target is not taken
\* for the getter of an assignment: the jump would lead behind what replaces it.
EndBlock ==
    /\ AtStatement /\ Inner.what \in {"do", "if", "else"}
    /\ Loads(Ended(This))
    /\ SetThis(IF Inner.what = "do" THEN Loaded(Ended(This)) ELSE Emit(Ended(This), "opcode"))
    /\ SetHere(EndedFrame)
    /\ parse' = Front(parse)
    /\ compiled' = TRUE
    /\ UNCHANGED <<inner_loop_depth, had_error, agrees>>

\* if_() with an else, whose block starts where the other one did.
Else ==
    /\ AtStatement /\ Inner.what = "if"
    /\ Loads(Ended(This))
    /\ SetThis([Emit(Ended(This), "operand") EXCEPT !.scope_depth = This.scope_depth])
    /\ SetHere([height |-> EndedFrame.height - 1, scope |-> EndedFrame.scope])
    /\ parse' = Append(Front(parse), [Inner EXCEPT !.what = "else"])
    /\ UNCHANGED <<inner_loop_depth, compiled, had_error, agrees>>

\* while_(): the value of a loop is nil.
EndLoop ==
    /\ AtStatement /\ Inner.what = "while"
    /\ SetThis(Emit(Ended(This), "opcode"))
    /\ SetHere(EndedFrame)
    /\ inner_loop_depth' = Inner.loop
    /\ parse' = Front(parse)
    /\ compiled' = TRUE
    /\ UNCHANGED <<had_error, agrees, damaged>>

-----------------------------------------------------------------------------
\* Statements

\* An expression statement, an assertion or a return.
Statement ==
    /\ AtStatement /\ Nested
    /\ parse' = Append(parse, Open("statement"))
    /\ UNCHANGED <<contexts, inner_loop_depth, compiled, had_error, runtime,
                   agrees, damaged>>

\* The first ends with OP_SAVE_X, the others with another instruction.
FinishStatement(kind) ==
    /\ AfterExpression /\ Inner.what = "statement"
    /\ SetThis(Emit(This, kind))
    /\ SetHere([Here EXCEPT !.height = @ - 1])
    /\ parse' = Front(parse)
    /\ compiled' = FALSE
    /\ UNCHANGED <<inner_loop_depth, had_error, agrees, damaged>>

\* A declaration that the compiler rejects.
Reject(n) ==
    /\ AtStatement /\ Nested
    /\ This.scope_depth > 0 /\ ~CanDeclare(This, n)
    /\ had_error' = TRUE
    /\ UNCHANGED <<contexts, inner_loop_depth, parse, compiled, runtime, agrees, damaged>>

\* let_declaration(): a local is not initialised before its value is compiled.
Let(n) ==
    /\ AtStatement /\ Nested
    /\ IF This.scope_depth = 0 THEN UNCHANGED contexts
       ELSE CanDeclare(This, n) /\ SetThis(AddLocal(This, n, Uninit))
    /\ parse' = Append(parse, Open("let"))
    /\ UNCHANGED <<inner_loop_depth, compiled, had_error, runtime, agrees, damaged>>

\* define_variable(): the value is the variable, or goes to the global.
FinishLet ==
    /\ AfterExpression /\ Inner.what = "let"
    /\ IF This.scope_depth = 0
       THEN /\ SetThis(Emit(This, "operand"))
            /\ SetHere([Here EXCEPT !.height = @ - 1])
       ELSE /\ SetThis([This EXCEPT !.locals[Len(This.locals)].depth = This.scope_depth])
            /\ SetHere(Bind(Here, Last(This.locals).name, Here.height - 1))
    /\ parse' = Front(parse)
    /\ compiled' = FALSE
    /\ UNCHANGED <<inner_loop_depth, had_error, agrees, damaged>>

\* continue_statement(): what follows in the block is not executed, so that
\* the frame is what it was.
Continue ==
    /\ AtStatement
    /\ inner_loop_depth # NoLoop
    /\ LET loop == SelectLastInSeq(parse, LAMBDA p : p.what = "while")
           own  == SelectLastInSeq(parse, LAMBDA p : p.what \in {"function", "lambda"})
       IN  Continues \/ (loop > own /\ Kept(This, inner_loop_depth) = Len(This.locals))
    /\ SetThis(Emit(Unwind(This, inner_loop_depth), "operand"))
    /\ UNCHANGED <<inner_loop_depth, parse, compiled, had_error, runtime, agrees, damaged>>

-----------------------------------------------------------------------------
\* Functions

\* add_local and mark_initialized for each of the parameters, the slots they get,
\* and where the arguments are.
Parameters(params) ==
    [i \in DOMAIN params |-> [name |-> params[i], depth |-> 1, is_captured |-> FALSE]]

Arguments(params) ==
    [i \in DOMAIN params |-> [name |-> params[i], slot |-> i, captured |-> FALSE]]

\* function(): a new context, its parameters above slot 0.  (That they are not too
\* many and have different names is checked as in Reject.)
Enter(what, cs, rs, params) ==
    LET count == 1 + Len(params)
    IN  /\ Len(contexts) < MaxFunctions
        /\ IsInjective(params) /\ count <= LOCALS_LIMIT
        /\ contexts' = Append(cs, [NewContext(1) EXCEPT !.locals = @ \o Parameters(params)])
        /\ runtime' = Append(rs, [height |-> count, scope |-> Arguments(params)])
        /\ parse' = Append(parse,
                [what |-> what, loop |-> inner_loop_depth, level |-> Len(contexts) + 1,
                 depth |-> 1, count |-> count, height |-> count, scope |-> Arguments(params)])
        /\ compiled' = FALSE

\* fn_declaration(): a local function is in scope in its own body.
Fn(n, params) ==
    /\ AtStatement /\ Deeper
    /\ IF This.scope_depth = 0 THEN Enter("function", contexts, runtime, params)
       ELSE /\ CanDeclare(This, n)
            /\ Enter("function",
                     Append(Front(contexts), AddLocal(This, n, This.scope_depth)),
                     Append(Front(runtime), Bind(Here, n, Here.height)), params)
    /\ UNCHANGED <<inner_loop_depth, had_error, agrees, damaged>>

\* lambda()
Lambda(params) ==
    /\ AtExpression /\ Nested
    /\ Enter("lambda", contexts, runtime, params)
    /\ UNCHANGED <<inner_loop_depth, had_error, agrees, damaged>>

\* end_context() and OP_CLOSURE in the enclosing function, followed by
\* OP_DEF_GLOBAL if that is where the closure goes.
Leave(stays) ==
    LET n == Len(contexts) - 1
    IN  /\ contexts' = [Front(contexts) EXCEPT ![n] = Emit(@, "operand")]
        /\ runtime' = [Front(runtime) EXCEPT ![n].height = IF stays THEN @ + 1 ELSE @]
        /\ parse' = Front(parse)

EndFunction ==
    /\ AtStatement /\ Inner.what = "function"
    /\ Loads(This)
    /\ Leave(contexts[Len(contexts) - 1].scope_depth > 0)
    /\ UNCHANGED <<inner_loop_depth, compiled, had_error, agrees>>

EndLambda ==
    /\ AfterExpression /\ Inner.what = "lambda"
    /\ Leave(TRUE)
    /\ UNCHANGED <<inner_loop_depth, compiled, had_error, agrees, damaged>>

\* compile() returns, and is called again.
Compile ==
    /\ had_error \/ (AtStatement /\ Inner.what = "toplevel")
    /\ contexts' = <<NewContext(0)>>
    /\ runtime' = <<NewFrame>>
    /\ inner_loop_depth' = NoLoop
    /\ parse' = <<TopLevel>>
    /\ compiled' = FALSE /\ had_error' = FALSE
    /\ agrees' = TRUE /\ damaged' = FALSE

-----------------------------------------------------------------------------

Params == BoundedSeq(Name, MaxParams)

Next ==
    \/ Literal
    \/ \E n \in Name : Identifier(n)
    \/ Operator \/ AndOr \/ FinishAndOr \/ Assignment
    \/ \E kind \in {"opcode", "index"} : FinishOperand(kind)
    \/ \E what \in {"do", "if", "while"} : Begin(what)
    \/ EndBlock \/ Else \/ EndLoop
    \/ Statement
    \/ \E kind \in {"save_x", "opcode"} : FinishStatement(kind)
    \/ \E n \in Name : Let(n) \/ Reject(n)
    \/ FinishLet \/ Continue
    \/ \E n \in Name, params \in Params : Fn(n, params)
    \/ \E params \in Params : Lambda(params)
    \/ EndFunction \/ EndLambda
    \/ Compile

Spec == Init /\ [][Next]_vars

-----------------------------------------------------------------------------
\* Properties

Local   == [name : Name \cup {""}, depth : Int, is_captured : BOOLEAN]
Upvalue == [is_local : BOOLEAN, index : Nat]

\* Every variable has its type: no array of locals outgrows LOCALS_LIMIT.
TypeOK ==
    /\ \A k \in Levels :
        /\ contexts[k].locals \in Seq(Local) /\ Len(contexts[k].locals) \in 1..LOCALS_LIMIT
        /\ contexts[k].upvalues \in Seq(Upvalue)
        /\ contexts[k].scope_depth \in Nat
        /\ contexts[k].tail \in BoundedSeq({"save_x", "get", "index", "operand", "opcode"}, 2)
    /\ inner_loop_depth \in Nat \cup {NoLoop}
    /\ Len(parse) \in 1..MaxNesting
    /\ Len(runtime) = Len(contexts)
    /\ {compiled, had_error, agrees, damaged} \subseteq BOOLEAN

(***************************************************************************)
(* The slot the compiler gives to a local variable is the slot its value   *)
(* has on the stack when the code runs (compiler.c:33), in every function  *)
(* that is being compiled and for every name, shadowed ones included.      *)
(***************************************************************************)
SlotsAgree ==
    ~had_error =>
        \A k \in Levels, n \in Name :
            ResolveLocal(contexts[k], n) =
                IF InScope(k, n) = 0 THEN -1 ELSE runtime[k].scope[InScope(k, n)].slot

(***************************************************************************)
(* An identifier is compiled to the variable that it means by lexical      *)
(* scoping, through however many functions the upvalue has to be passed.   *)
(***************************************************************************)
NamesResolve == had_error \/ agrees

(***************************************************************************)
(* The emitted code is balanced: an expression leaves one value, and a     *)
(* statement nothing but the variable it declares.                         *)
(***************************************************************************)
Balanced ==
    ~had_error =>
        Here.height =
            IF compiled THEN Inner.height + 1
            ELSE Inner.height + Len(Here.scope) - Len(Inner.scope)

(***************************************************************************)
(* What the instructions for closures rely on: a variable that an inner    *)
(* function mentions is marked captured, so that its scope ends with       *)
(* OP_CLOSE_UPVALUE and not with OP_POP; an upvalue names a slot or an     *)
(* upvalue that the enclosing function has; and a function has one upvalue *)
(* for a variable, however often it mentions it.                           *)
(***************************************************************************)
CapturesSound ==
    ~had_error =>
        \A k \in Levels :
            /\ IsInjective(contexts[k].upvalues)
            /\ \A u \in Range(contexts[k].upvalues) :
                /\ k > 1
                /\ IF u.is_local
                   THEN /\ u.index < Len(contexts[k - 1].locals)
                        /\ contexts[k - 1].locals[u.index + 1].is_captured
                   ELSE u.index < Len(contexts[k - 1].upvalues)
            /\ \A b \in Range(runtime[k].scope) :
                b.captured => contexts[k].locals[b.slot + 1].is_captured

(***************************************************************************)
(* Only an OP_SAVE_X is ever taken back for the value of a block.          *)
(***************************************************************************)
CodeIntact == ~damaged

=============================================================================
