------------------------------- MODULE Parser -------------------------------
(***************************************************************************)
(* The parser of compiler.c, which emits the code while it reads: every    *)
(* parsing function of the file is an operator here, from a parser to a    *)
(* parser.  What the names of variables mean is the subject of Compiler;   *)
(* this module is about the bytes.                                         *)
(*                                                                         *)
(* A program is a text, the globals that earlier scripts have registered,  *)
(* and the tree that the text was written for, if it was.  A step compiles *)
(* one top-level declaration.                                              *)
(***************************************************************************)
EXTENDS Execution

CONSTANTS Programs, LOCALS_LIMIT, UPVALUES_LIMIT, GLOBALS_LIMIT, CONST_LIMIT, PARAMS_LIMIT,
          ARRAY_LIMIT, MAP_LIMIT, COND_LIMIT, UINT8_MAX, UINT16_MAX

Lex == INSTANCE Lexer
G   == INSTANCE Grammar

VARIABLES program,  \* what is compiled
          parser,   \* the parser between two declarations
          outcome   \* of compile: "none" so far, "function", or "null" after an error

vars == <<program, parser, outcome>>

-----------------------------------------------------------------------------
(* Errors: the first is reported, and silences the others until recover.     *)

error(p) == IF p.panic_mode THEN p ELSE [p EXCEPT !.panic_mode = TRUE, !.had_error = TRUE]

\* The parser goes on from p.
Then(p, F(_)) == F(p)

-----------------------------------------------------------------------------
(* Emitting.  The bytes of an instruction are emitted together.              *)

Here(p) == Len(p.contexts)
Context(p) == p.contexts[Here(p)]
parser_chunk(p) == Context(p).chunk
WithChunk(p, chunk) == [p EXCEPT !.contexts[Here(p)].chunk = chunk]

emit(p, bytes) == Then(parser_chunk(p), LAMBDA chunk :
    WithChunk(p, FoldLeft(LAMBDA c, byte : write_byte(c, byte, p.previous),
                          [chunk EXCEPT !.starts = @ \cup {Count(chunk)}], bytes)))

Short16(n) == << (n \div 256) % 256, n % 256 >>

emit_jump(p, op) == emit(p, <<op, 255, 255>>)
\* Where the jump that was just emitted has its operand.
LastJump(p) == Count(parser_chunk(p)) - 2

emit_loop(p, start) ==
    LET offset == Count(parser_chunk(p)) + 1 - start + 2
    IN  emit(IF offset > UINT16_MAX THEN error(p) ELSE p, <<OP.JMP_BACK>> \o Short16(offset))

\* Fault: the operand of the jump itself is not subtracted.
patch_jump_Self(p, from) ==
    LET chunk  == parser_chunk(p)
        offset == Count(chunk) - from
    IN  WithChunk(p, [chunk EXCEPT !.opcodes[from + 1] = Short16(offset)[1],
                                   !.opcodes[from + 2] = Short16(offset)[2]])

patch_jump(p, from) == Then(Count(parser_chunk(p)) - from - 2, LAMBDA offset :
    Then(IF offset > UINT16_MAX THEN error(p) ELSE p, LAMBDA q :
         WithChunk(q, [parser_chunk(q) EXCEPT !.opcodes[from + 1] = Short16(offset)[1],
                                              !.opcodes[from + 2] = Short16(offset)[2],
                                              !.landed = @ \cup {Count(parser_chunk(p))}])))

\* The last n bytes are taken back.  A ghost, torn, notes when they were not
\* whole instructions, or a jump led or a line began behind them.
TakeBack(p, n) ==
    [WithChunk(p, Without(parser_chunk(p), n)) EXCEPT !.torn = @ \/ ~Loose(parser_chunk(p), n)]

\* The constant, and then its index by Constant.
make_constant(p, value) ==
    LET chunk == write_constant(parser_chunk(p), value)
    IN  IF Len(chunk.constants) - 1 >= CONST_LIMIT
        THEN WithChunk(error(p), [chunk EXCEPT !.constants = <<>>])
        ELSE WithChunk(p, chunk)
Constant(p) == IF parser_chunk(p).constants = <<>> THEN 0 ELSE Len(parser_chunk(p).constants) - 1

emit_constant(p, value) ==
    Then(make_constant(p, value), LAMBDA q : emit(q, <<OP.PUSH_CONST, Constant(q)>>))

Literal(lexeme) == [lexeme |-> lexeme, function |-> 0]

register_identifier(p, name) ==
    CASE Contains(p.globals, name)          -> p
      [] ~Contains(p.globals, name) /\ Len(p.globals) >= GLOBALS_LIMIT -> error(p)
      [] OTHER -> [p EXCEPT !.globals = Append(@, name)]
GlobalIndex(p, name) ==
    IF Contains(p.globals, name) THEN (CHOOSE i \in DOMAIN p.globals : p.globals[i] = name) - 1 ELSE 0

-----------------------------------------------------------------------------
(* Tokens.  The lexer depends on nothing the parser does, so that all are    *)
(* found in the beginning; those that are lexical errors are skipped.        *)

RECURSIVE tokens_from(_)
tokens_from(lexer) ==
    LET found == Lex!next_token(lexer)
    IN  <<found.token>> \o (IF found.token.type = "eof" THEN <<>> ELSE tokens_from(found.lexer))

ValidTokens(text) == SelectSeq(tokens_from(Lex!init_lexer(text)), LAMBDA token : token.type # "error")

\* Behind the last token there is that token again.
advance(p) ==
    [p EXCEPT !.previous = p.current, !.current = Head(p.tokens),
              !.tokens = IF Len(@) > 1 THEN Tail(@) ELSE @]

check(p, type) == p.current.type = type
consume(p, type) == IF check(p, type) THEN advance(p) ELSE error(p)

-----------------------------------------------------------------------------
(* Scopes and variables.                                                     *)

add_local(p, name) ==
    IF Len(Context(p).locals) = LOCALS_LIMIT THEN error(p)
    ELSE [p EXCEPT !.contexts[Here(p)].locals =
                        Append(@, [name |-> name, depth |-> -1, is_captured |-> FALSE])]

begin_scope(p) == [p EXCEPT !.contexts[Here(p)].scope_depth = @ + 1]

\* Locals from the top down to the first that is less deep.
unwind_stack(p, depth) ==
    LET locals == Context(p).locals
        kept   == Max({0} \cup { i \in DOMAIN locals : locals[i].depth < depth })
    IN  Then(Reverse(SubSeq(locals, kept + 1, Len(locals))), LAMBDA gone :
        Then(FoldLeft(LAMBDA q, l : emit(q, <<IF l.is_captured THEN OP.CLOSE_UPVALUE ELSE OP.POP>>),
                      [p EXCEPT !.contexts[Here(p)].locals = SubSeq(locals, 1, kept)], gone), LAMBDA popped :
             IF gone # <<>> /\ \A i \in DOMAIN gone : ~gone[i].is_captured
             THEN emit(TakeBack(popped, Len(gone)), <<OP.POPN, Len(gone) % 256>>)
             ELSE popped))

\* Fault: the byte is taken back whatever it is.
Loading_Any(p) == TakeBack(p, 1)

\* The value of a block is that of its last expression.  Of an empty chunk the
\* byte before the array is read.
Loading(p) ==
    LET chunk == parser_chunk(p)
    IN  CASE Count(chunk) = 0 -> emit([p EXCEPT !.torn = TRUE], <<OP.PUSH_X>>)
          [] Count(chunk) > 0 /\ Last(chunk.opcodes) = OP.SAVE_X -> TakeBack(p, 1)
          [] OTHER -> emit(p, <<OP.PUSH_X>>)

end_scope(p, loading) ==
    Then(unwind_stack(p, Context(p).scope_depth), LAMBDA unwound :
         [IF loading THEN Loading(unwound) ELSE unwound EXCEPT !.contexts[Here(p)].scope_depth = @ - 1])

\* The last local with that name that is initialised, or -1.
resolve_local(context, name) ==
    Max({0} \cup { i \in DOMAIN context.locals : /\ context.locals[i].depth # -1
                                                 /\ context.locals[i].name = name }) - 1

add_upvalue(p, i, upvalue) ==
    LET upvalues == p.contexts[i].upvalues
    IN  CASE Contains(upvalues, upvalue) -> p
          [] ~Contains(upvalues, upvalue) /\ Len(upvalues) = UPVALUES_LIMIT -> error(p)
          [] OTHER -> [p EXCEPT !.contexts[i].upvalues = Append(@, upvalue)]
UpvalueIndex(p, i, upvalue) ==
    LET upvalues == p.contexts[i].upvalues
    IN  IF Contains(upvalues, upvalue) THEN (CHOOSE n \in DOMAIN upvalues : upvalues[n] = upvalue) - 1 ELSE 0

\* Of the context at i, and with it an index or -1.
RECURSIVE resolve_upvalue(_, _, _)
resolve_upvalue(p, i, name) ==
    LET Added(q, upvalue) == Then(add_upvalue(q, i, upvalue), LAMBDA r :
                                  [parser |-> r, index |-> UpvalueIndex(r, i, upvalue)])
        Outer(outer) == IF outer.index = -1 THEN [parser |-> p, index |-> -1]
                        ELSE Added(outer.parser, [index |-> outer.index, is_local |-> FALSE])
        local == resolve_local(p.contexts[i - 1], name)
    IN  CASE i = 1 -> [parser |-> p, index |-> -1]
          [] i > 1 /\ local # -1 ->
                Added([p EXCEPT !.contexts[i - 1].locals[local + 1].is_captured = TRUE],
                      [index |-> local, is_local |-> TRUE])
          [] OTHER -> Outer(resolve_upvalue(p, i - 1, name))

\* Whether the name is that of a local of this scope.
Declared(p, name) ==
    LET locals == Context(p).locals
    IN  \E i \in DOMAIN locals :
            /\ locals[i].name = name
            /\ \A j \in i..Len(locals) : locals[j].depth >= Context(p).scope_depth

declare_variable(p) ==
    IF Context(p).scope_depth = 0 THEN p
    ELSE add_local(IF Declared(p, p.previous.lexeme) THEN error(p) ELSE p, p.previous.lexeme)

mark_initialized(p) ==
    IF Context(p).locals = <<>> THEN [p EXCEPT !.torn = TRUE]
    ELSE [p EXCEPT !.contexts[Here(p)].locals[Len(Context(p).locals)].depth = Context(p).scope_depth]

define_variable(p, index) ==
    IF Context(p).scope_depth > 0 THEN mark_initialized(p) ELSE emit(p, <<OP.DEF_GLOBAL, index>>)

\* The variable, and then the index of its name by VariableIndex.
variable(p) == Then(declare_variable(consume(p, "name")), LAMBDA q :
    IF Context(q).scope_depth > 0 THEN q ELSE register_identifier(q, q.previous.lexeme))
VariableIndex(p) == IF Context(p).scope_depth > 0 THEN 0 ELSE GlobalIndex(p, p.previous.lexeme)

init_context(p, toplevel) ==
    [p EXCEPT !.contexts = Append(@, [
        locals |-> << [name |-> "", depth |-> 0, is_captured |-> FALSE] >>, upvalues |-> <<>>,
        scope_depth |-> 0, toplevel |-> toplevel, arity |-> 0, chunk |-> init_chunk ])]

end_context(p, toplevel) ==
    Then(emit(p, <<IF toplevel THEN OP.EXIT ELSE OP.RETURN>>), LAMBDA q :
         [q EXCEPT !.contexts = Front(@),
                   !.functions = Append(@, [chunk |-> parser_chunk(q), arity |-> Context(q).arity,
                                            toplevel |-> toplevel, upvalue_count |-> Len(Context(q).upvalues)])])

-----------------------------------------------------------------------------
(* Expressions.                                                              *)

RECURSIVE parse_precedence(_, _), infixes(_, _), declaration(_), declarations(_, _)

PREC_ASSIGNMENT == 1
expression(p) == parse_precedence(p, PREC_ASSIGNMENT)

\* The precedences of the infix operators; 0 is that of every other token.
token_precedence(type) ==
    CASE type = "="  -> PREC_ASSIGNMENT
      [] type = "or" -> 2
      [] type = "and" -> 3
      [] type \in {"==", "!="} -> 4
      [] type \in {"<", "<=", ">", ">="} -> 5
      [] type = "::" -> 6
      [] type \in {"+", "-"} -> 8
      [] type \in {"*", "/", "%"} -> 9
      [] type = "(" -> 11
      [] type = "[" -> 12
      [] OTHER -> 0
PREC_UNARY == 10

BinaryOpcode ==
    "+" :> OP.ADD @@ "-" :> OP.SUB @@ "*" :> OP.MUL @@ "/" :> OP.DIV @@ "%" :> OP.MOD @@ "<" :> OP.LT
    @@ "<=" :> OP.LTQ @@ ">" :> OP.GT @@ ">=" :> OP.GTQ @@ "==" :> OP.EQ @@ "!=" :> OP.NEQ

\* The target was compiled as an expression: the instruction that reads it is
\* taken back.  It is looked for in the last two bytes.
assignment(p) ==
    LET chunk  == parser_chunk(p)
        n      == Count(chunk)
        opcode == Byte(chunk, n - 2)
        index  == Byte(chunk, n - 1)
    IN  CASE n < 2 -> error(p)
          [] n >= 2 /\ index = OP.INDEX_GET -> emit(expression(TakeBack(p, 1)), <<OP.INDEX_SET>>)
          [] n >= 2 /\ index # OP.INDEX_GET /\ opcode \in {OP.GET_GLOBAL, OP.GET_LOCAL, OP.GET_UPVALUE} ->
                emit(expression(TakeBack(p, 2)), <<opcode - 1, index>>)
          [] OTHER -> error(p)

cons(p) == emit(parse_precedence(p, token_precedence("::")), <<OP.CONS>>)

indexing(p) == emit(consume(expression(p), "]"), <<OP.INDEX_GET>>)

\* Fault: the right operand may have an operator of the same precedence.
binary_Right(p) ==
    emit(parse_precedence(p, token_precedence(p.previous.type)), <<BinaryOpcode[p.previous.type]>>)

binary(p) ==
    emit(parse_precedence(p, token_precedence(p.previous.type) + 1), <<BinaryOpcode[p.previous.type]>>)

and_(p) == Then(emit_jump(p, OP.JMP_FALSE), LAMBDA left :
    patch_jump(parse_precedence(emit(left, <<OP.POP>>), token_precedence("and") + 1), LastJump(left)))

or_(p) ==
    Then(emit_jump(p, OP.JMP_FALSE), LAMBDA falsy :
    Then(emit_jump(falsy, OP.JMP), LAMBDA truthy :
         patch_jump(parse_precedence(emit(patch_jump(truthy, LastJump(falsy)), <<OP.POP>>),
                                     token_precedence("or") + 1),
                    LastJump(truthy))))

\* Declarations up to a token that closes them.
declarations(p, closing) ==
    IF p.current.type \in closing \cup {"eof"} THEN p ELSE declarations(declaration(p), closing)

if_block(p) == Then(declarations(begin_scope(p), {"end", "else"}), LAMBDA q :
    end_scope(IF check(q, "else") THEN advance(q) ELSE consume(q, "end"), TRUE))

loop_block(p) == end_scope(consume(declarations(begin_scope(p), {"end"}), "end"), FALSE)
block(p)      == end_scope(consume(declarations(begin_scope(p), {"end"}), "end"), TRUE)
function_block(p) == Loading(consume(declarations(p, {"end"}), "end"))

RECURSIVE cases(_, _)
cases(p, exits) ==
    Then(emit_jump(consume(expression(p), "->"), OP.JMP_POP_FALSE), LAMBDA skip :
    Then(emit_jump(expression(skip), OP.JMP), LAMBDA exit :
    Then(patch_jump(exit, LastJump(skip)), LAMBDA done :
    Then(Append(exits, LastJump(exit)), LAMBDA all :
         CASE Len(exits) = COND_LIMIT -> [parser |-> error(p), exits |-> exits]
           [] Len(exits) # COND_LIMIT /\ check(done, ",") -> cases(advance(done), all)
           [] OTHER -> [parser |-> done, exits |-> all]))))

cond(p) == Then(cases(consume(p, ":"), <<>>), LAMBDA all :
    consume(FoldLeft(patch_jump, emit(all.parser, <<OP.PUSH_NIL>>), all.exits), "end"))

if_(p) ==
    Then(emit_jump(consume(expression(p), "do"), OP.JMP_POP_FALSE), LAMBDA then :
    Then(emit_jump(if_block(then), OP.JMP), LAMBDA else :
    Then(patch_jump(else, LastJump(then)), LAMBDA q :
         patch_jump(IF q.previous.type = "else" THEN block(q) ELSE emit(q, <<OP.PUSH_NIL>>),
                    LastJump(else)))))

\* Fault: the surrounding loop is forgotten.
while_Forgets(p) == Then(Count(parser_chunk(p)), LAMBDA start :
    LET inside == [p EXCEPT !.inner_loop_start = start, !.inner_loop_depth = Context(p).scope_depth]
    IN  Then(emit_jump(consume(expression(inside), "do"), OP.JMP_POP_FALSE), LAMBDA exit :
             emit(patch_jump(emit_loop(loop_block(exit), start), LastJump(exit)), <<OP.PUSH_NIL>>)))

while_(p) == Then(Count(parser_chunk(p)), LAMBDA start :
    LET inside == [p EXCEPT !.inner_loop_start = start, !.inner_loop_depth = Context(p).scope_depth]
    IN  Then(emit_jump(consume(expression(inside), "do"), OP.JMP_POP_FALSE), LAMBDA exit :
        Then(emit(patch_jump(emit_loop(loop_block(exit), start), LastJump(exit)), <<OP.PUSH_NIL>>), LAMBDA done :
             [done EXCEPT !.inner_loop_start = p.inner_loop_start,
                          !.inner_loop_depth = p.inner_loop_depth])))

\* Expressions with commas between them, and their number.
RECURSIVE elements(_, _, _)
elements(p, count, limit) == Then(expression(p), LAMBDA q :
    CASE count = limit -> [parser |-> error(q), count |-> count]
      [] count # limit /\ check(q, ",") -> elements(advance(q), count + 1, limit)
      [] OTHER -> [parser |-> q, count |-> count + 1])

\* The number of arguments is written into one byte.
call(p) ==
    IF check(p, ")") THEN emit(advance(p), <<OP.CALL, 0>>)
    ELSE Then(elements(p, 0, PARAMS_LIMIT), LAMBDA all :
              emit(consume(all.parser, ")"), <<OP.CALL, all.count % 256>>))

grouping(p) == consume(expression(p), ")")

identifier(p) ==
    LET name   == p.previous.lexeme
        local  == resolve_local(Context(p), name)
        Global(q)   == emit(q, <<OP.GET_GLOBAL, GlobalIndex(q, name)>>)
        Outer(outer) == IF outer.index # -1 THEN emit(outer.parser, <<OP.GET_UPVALUE, outer.index>>)
                        ELSE Global(register_identifier(outer.parser, name))
    IN  IF local # -1 THEN emit(p, <<OP.GET_LOCAL, local>>)
        ELSE Outer(resolve_upvalue(p, Here(p), name))

literal(p) ==
    CASE p.previous.type = "true"  -> emit(p, <<OP.PUSH_TRUE>>)
      [] p.previous.type = "false" -> emit(p, <<OP.PUSH_FALSE>>)
      [] p.previous.type = "nil"   -> emit(p, <<OP.PUSH_NIL>>)
      [] OTHER -> emit_constant(p, Literal(p.previous.lexeme))

\* One byte for the count, or two.
emit_count(p, op8, op16, count) ==
    emit(p, IF count > UINT8_MAX THEN <<op16>> \o Short16(count) ELSE <<op8, count>>)

RECURSIVE fields(_, _)
fields(p, count) ==
    Then(consume(p, "name"), LAMBDA name :
    Then(consume(emit_constant(name, Literal(name.previous.lexeme)), ":"), LAMBDA key :
    Then(expression(key), LAMBDA field :
         CASE count = MAP_LIMIT -> [parser |-> error(key), count |-> count]
           [] count # MAP_LIMIT /\ check(field, ",") -> fields(advance(field), count + 1)
           [] OTHER -> [parser |-> field, count |-> count + 1])))

map(p) ==
    IF check(p, "}") THEN emit(advance(p), <<OP.MAP_8, 0>>)
    ELSE Then(fields(p, 0), LAMBDA all :
              consume(emit_count(all.parser, OP.MAP_8, OP.MAP_16, all.count), "}"))

array(p) ==
    IF check(p, "]") THEN emit(advance(p), <<OP.ARRAY_8, 0>>)
    ELSE Then(elements(p, 0, ARRAY_LIMIT), LAMBDA all :
              consume(emit_count(all.parser, OP.ARRAY_8, OP.ARRAY_16, all.count), "]"))

RECURSIVE parameters(_, _)
parameters(p, closing) ==
    Then([p EXCEPT !.contexts[Here(p)].arity = @ + 1], LAMBDA one :
    Then(variable(IF Context(one).arity > UINT8_MAX THEN error(one) ELSE one), LAMBDA var :
    Then(define_variable(var, VariableIndex(var)), LAMBDA done :
         IF check(done, ",") THEN parameters(advance(done), closing) ELSE consume(done, closing))))

Parameters(p, closing) == IF check(p, closing) THEN advance(p) ELSE parameters(p, closing)

\* The context of the function is the last one, and its code is the last that
\* was finished.
function(p, type) ==
    Then(begin_scope(init_context(p, FALSE)), LAMBDA begun :
    Then(CASE type = "declaration" -> function_block(Parameters(consume(begun, "("), ")"))
           [] type = "lambda"      -> expression(Parameters(begun, "->"))
           [] type = "headless"    -> expression(begun), LAMBDA body :
    Then(end_context(body, FALSE), LAMBDA ended :
    Then(make_constant(ended, [lexeme |-> "", function |-> Len(ended.functions)]), LAMBDA q :
         emit(q, <<OP.CLOSURE, Constant(q)>>
                     \o FoldLeft(LAMBDA bytes, u : bytes \o <<IF u.is_local THEN 1 ELSE 0, u.index>>,
                                 <<>>, Context(body).upvalues))))))

unary(p) == emit(parse_precedence(p, PREC_UNARY), <<IF p.previous.type = "-" THEN OP.NEG ELSE OP.NOT>>)

PrefixTokens == { "cond", "true", "false", "nil", "if", "while", "-", "not", "do", "->", "\\", "(", "{", "[",
              "name", "number", "string" }
prefix(p) ==
    LET type == p.previous.type
    IN  CASE type = "cond"  -> cond(p)
          [] type = "if"    -> if_(p)
          [] type = "while" -> while_(p)
          [] type = "do"    -> block(p)
          [] type = "("     -> grouping(p)
          [] type = "{"     -> map(p)
          [] type = "["     -> array(p)
          [] type = "name"  -> identifier(p)
          [] type = "->"    -> function(p, "headless")
          [] type = "\\"    -> function(p, "lambda")
          [] type \in {"-", "not"} -> unary(p)
          [] OTHER -> literal(p)

infix(p) ==
    LET type == p.previous.type
    IN  CASE type = "="   -> assignment(p)
          [] type = "or"  -> or_(p)
          [] type = "and" -> and_(p)
          [] type = "::"  -> cons(p)
          [] type = "("   -> call(p)
          [] type = "["   -> indexing(p)
          [] OTHER -> binary(p)

parse_precedence(p, precedence) == Then(advance(p), LAMBDA q :
    IF q.previous.type \in PrefixTokens THEN infixes(prefix(q), precedence) ELSE error(q))

infixes(p, precedence) ==
    IF precedence <= token_precedence(p.current.type) THEN infixes(infix(advance(p)), precedence) ELSE p

-----------------------------------------------------------------------------
(* Declarations and statements.                                              *)

let_declaration(p) ==
    Then(variable(p), LAMBDA var :
    Then(IF check(var, "=") THEN expression(advance(var)) ELSE emit(var, <<OP.PUSH_NIL>>), LAMBDA value :
         define_variable(consume(value, ";"), VariableIndex(var))))

fn_declaration(p) == Then(variable(p), LAMBDA var :
    define_variable(function(IF Context(var).scope_depth > 0 THEN mark_initialized(var) ELSE var,
                             "declaration"),
                    VariableIndex(var)))

return_statement(p) == Then(IF Context(p).toplevel THEN error(p) ELSE p, LAMBDA q :
    IF check(q, ";") THEN emit(emit(advance(q), <<OP.PUSH_NIL>>), <<OP.RETURN>>)
    ELSE consume(emit(expression(q), <<OP.RETURN>>), ";"))

continue_statement(p) ==
    LET q == IF p.inner_loop_start = -1 THEN error(p) ELSE p
    IN  emit_loop(unwind_stack(consume(q, ";"), q.inner_loop_depth), q.inner_loop_start)

assert_statement(p) == consume(emit(expression(p), <<OP.ASSERT>>), ";")

\* Up to a token that may begin a declaration, or behind a semicolon.
RECURSIVE skip_to_declaration(_)
skip_to_declaration(p) ==
    IF \/ p.current.type \in {"let", "fn", "type", "return", "break", "continue", "eof"}
       \/ p.previous.type = ";"
    THEN p ELSE skip_to_declaration(advance(p))

recover(p) == skip_to_declaration([p EXCEPT !.panic_mode = FALSE])

declaration(p) ==
    Then(CASE check(p, "let")      -> let_declaration(advance(p))
           [] check(p, "fn")       -> fn_declaration(advance(p))
           [] check(p, "return")   -> return_statement(advance(p))
           [] check(p, "continue") -> continue_statement(advance(p))
           [] check(p, "assert")   -> assert_statement(advance(p))
           [] OTHER                -> emit(expression(p), <<OP.SAVE_X>>), LAMBDA q :
         IF q.panic_mode THEN recover(q) ELSE q)

-----------------------------------------------------------------------------
NoToken == [type |-> "none", lexeme |-> "", line |-> 1, start |-> 1]

init_parser(p) ==
    advance([tokens |-> ValidTokens(p.text), previous |-> NoToken, current |-> NoToken,
             had_error |-> FALSE, panic_mode |-> FALSE, contexts |-> <<>>,
             inner_loop_start |-> -1, inner_loop_depth |-> -1,
             globals |-> p.globals, functions |-> <<>>, torn |-> FALSE])

Init == /\ program \in Programs
        /\ parser = init_context(init_parser(program), TRUE)
        /\ outcome = "none"

Declare == /\ ~check(parser, "eof") /\ outcome = "none"
           /\ parser' = declaration(parser)
           /\ UNCHANGED <<program, outcome>>

Finish == /\ check(parser, "eof") /\ outcome = "none"
          /\ parser' = end_context(advance(parser), TRUE)
          /\ outcome' = IF parser.had_error THEN "null" ELSE "function"
          /\ UNCHANGED program

Next == Declare \/ Finish

Spec == Init /\ [][Next]_vars

-----------------------------------------------------------------------------
\* Between two declarations of a script nothing is left over from the first:
\* no panic, no open scope, function or loop, and no local but slot 0.
TypeOK ==
    /\ outcome \in {"none", "function", "null"}
    /\ outcome = "null" => parser.had_error
    /\ ~parser.panic_mode /\ parser.inner_loop_start = -1 /\ parser.inner_loop_depth = -1
    /\ Len(parser.contexts) = IF outcome = "none" THEN 1 ELSE 0
    /\ outcome = "none" => /\ Context(parser).toplevel /\ Context(parser).scope_depth = 0
                           /\ parser.had_error \/ Len(Context(parser).locals) = 1

Compiled == outcome = "function"
Functions == parser.functions

\* What compile hands to the machine is fit to be executed, in every function:
\* jumps lead to instructions of the chunk, the heights of the frame agree
\* wherever two ways meet, nothing is popped that was not pushed, and every
\* slot, upvalue and constant is there.
Verified == Compiled => \A i \in DOMAIN Functions : IsFit(Functions[i], Functions)

\* Bytes that are taken back are whole instructions, no jump leads behind them, and
\* no line begins there, which is what the table of lines relies on (Lines).
Intact == Compiled => ~parser.torn

\* A text that was written for a tree compiles, and its code does what the
\* tree means, whichever values are true.
MeansWhatIsWritten ==
    LET tree == program.tree
        initial == [n \in {"a", "b", "c", "x"} |-> <<"initial", n>>]
        main == Functions[Len(Functions)]
    IN  program.written =>
            /\ outcome # "null"
            /\ Compiled =>
                \A choice \in [{"a", "b", "c", "x"} -> BOOLEAN] :
                    LET m == Execute(main, Functions, parser.globals, choice,
                                     [pc |-> 0, stack |-> << <<"script">> >>, x |-> <<"nil">>,
                                      store |-> initial, log |-> <<>>])
                        s == G!Meaning(tree, choice, [value |-> <<"nil">>, store |-> initial, log |-> <<>>])
                    IN  m.x = s.value /\ m.store = s.store /\ m.log = s.log

\* A run-time error names a line by the offset of its instruction: decode_line
\* gives, for every byte, the line of the token it was emitted for, whatever
\* was taken back in between.
LinesTrue ==
    Compiled =>
        \A i \in DOMAIN Functions : \A o \in 0..(Count(Functions[i].chunk) - 1) :
            LET at == Functions[i].chunk.at[o + 1]
            IN  decode_line(Functions[i].chunk, o) =
                    1 + Cardinality({ n \in 1..(at - 1) : program.text[n] = "\n" })

=============================================================================
