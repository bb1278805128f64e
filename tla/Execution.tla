----------------------------- MODULE Execution -----------------------------
(***************************************************************************)
(* The machine of vm.c as it executes the code of a script, one            *)
(* instruction at a time, on the values of Grammar.                        *)
(***************************************************************************)
EXTENDS Bytecode

LOCAL G == INSTANCE Grammar

Constants == OP.PUSH_TRUE :> <<"true">> @@ OP.PUSH_FALSE :> <<"false">> @@ OP.PUSH_NIL :> <<"nil">>

Operators ==
    OP.ADD :> "+" @@ OP.SUB :> "-" @@ OP.MUL :> "*" @@ OP.DIV :> "/" @@ OP.MOD :> "%" @@ OP.EQ :> "=="
    @@ OP.NEQ :> "!=" @@ OP.LT :> "<" @@ OP.LTQ :> "<=" @@ OP.GT :> ">" @@ OP.GTQ :> ">="
    @@ OP.CONS :> "::" @@ OP.INDEX_GET :> "index" @@ OP.CALL :> "call" @@ OP.NEG :> "neg"
    @@ OP.ARRAY_8 :> "array"

\* The machine: the offset of the next instruction, the frame, the register x,
\* the globals and what was called and stored into arrays.
Step(f, fns, globals, choice, m) ==
    LET op    == Byte(f.chunk, m.pc)
        next  == m.pc + Size(f, fns, m.pc)
        below == Len(m.stack) - Pops(f, m.pc)
        args  == SubSeq(m.stack, below + 1, Len(m.stack))
        base  == SubSeq(m.stack, 1, below)
        name  == globals[Operand(f, m.pc) + 1]
        slot  == Operand(f, m.pc) + 1
        value == CASE op \in DOMAIN Constants -> Constants[op]
                   [] op = OP.PUSH_CONST -> <<"number", f.chunk.constants[slot].lexeme>>
                   [] op = OP.PUSH_X     -> m.x
                   [] op = OP.NOT        -> G!Negated(args[1], choice)
                   [] op = OP.GET_GLOBAL -> m.store[name]
                   [] op = OP.GET_LOCAL  -> m.stack[slot]
                   [] op = OP.INDEX_SET  -> args[3]
                   [] op \in DOMAIN Operators -> <<Operators[op]>> \o args
                   [] OTHER -> args[1]
        stack == IF Pushes(f, m.pc) = 1 THEN Append(base, value) ELSE base
        jumps == \/ op \in {OP.JMP, OP.JMP_BACK}
                 \/ op \in {OP.JMP_FALSE, OP.JMP_POP_FALSE} /\ ~G!Truthy(args[1], choice)
        far   == Operand16(f, m.pc)
    IN  [pc    |-> CASE jumps /\ op = OP.JMP_BACK -> next - far
                     [] jumps /\ op # OP.JMP_BACK -> next + far
                     [] OTHER -> next,
         stack |-> IF op = OP.SET_LOCAL THEN [stack EXCEPT ![slot] = value] ELSE stack,
         x     |-> CASE op = OP.SAVE_X -> args[1]
                     [] op \in {OP.PUSH_X, OP.ASSERT} -> <<"nil">>
                     [] OTHER -> m.x,
         store |-> IF op \in {OP.SET_GLOBAL, OP.DEF_GLOBAL} THEN [m.store EXCEPT ![name] = args[1]] ELSE m.store,
         log   |-> CASE op = OP.CALL -> Append(m.log, value)
                     [] op = OP.INDEX_SET -> Append(m.log, <<"set">> \o args)
                     [] OTHER -> m.log]

RECURSIVE Execute(_, _, _, _, _)
Execute(f, fns, globals, choice, m) ==
    IF Byte(f.chunk, m.pc) = OP.EXIT THEN m
    ELSE Execute(f, fns, globals, choice, Step(f, fns, globals, choice, m))

=============================================================================
