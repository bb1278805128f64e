----------------------------- MODULE Evaluator ------------------------------
(***************************************************************************)
(* The evaluator of the old interpreter (old_interpreter/src/eval.c, env.c)*)
(* behind its prompt (raven.c): each statement is resolved, executed and   *)
(* printed, on one evaluator for the whole session.                        *)
(*                                                                         *)
(* The functions of eval.c are operators from the state of the evaluator   *)
(* to its next state and a result.  A pointer to an object is a position   *)
(* in objs, one to an environment a position in envs, NULL is 0.           *)
(* A run-time error is a longjmp: the state stays as it was at that point, *)
(* and no caller goes on (Then).                                           *)
(***************************************************************************)
EXTENDS Syntax, TLC

CONSTANTS
    Lines,         \* as in Language
    Fuel,
    InnerErrors    \* whether an error of the language may happen inside of a
                   \* function or a block

ASSUME InnerErrors \in BOOLEAN

VARIABLES
    evaluator,     \* the Evaluator, its heap, and the fuel of the model
    meaning, line, entered, shown

R == INSTANCE Resolver
L == INSTANCE Language

vars == <<evaluator, meaning, line, entered, shown>>

-----------------------------------------------------------------------------
(* Objects *)

Object(type) == [type |-> type, mode |-> {}, l |-> <<>>, env |-> 0, params |-> <<>>,
                 body |-> <<>>, arity |-> 0, cons |-> 0, name |-> ""]

\* The four objects that every evaluation shares.
RNil   == 1
RTrue  == 2
RFalse == 3
RVoid  == 4

init_eval == [current |-> 0, global |-> <<>>, envs |-> <<>>, fuel |-> Fuel, err |-> "no",
              objs |-> <<Object("nil"), Object("true"), Object("false"), Object("void")>>]

Result(st, val)   == [st |-> st, val |-> val]
Then(res, F(_, _)) == IF res.st.err = "no" THEN F(res.st, res.val) ELSE res

rt_err(st)    == Result([st EXCEPT !.err = "error"], RNil)
Undefined(st) == Result([st EXCEPT !.err = "undefined"], RNil)

\* A turn of a loop, or a call, uses fuel.
Turn(st, F(_)) ==
    IF st.fuel = 0 THEN Result([st EXCEPT !.err = "diverges"], RNil)
    ELSE F([st EXCEPT !.fuel = @ - 1])

new_object(st, o) == Result([st EXCEPT !.objs = Append(@, o)], Len(st.objs) + 1)

type_of(st, o) == st.objs[o].type
mode_of(st, o) == st.objs[o].mode
is_true(st, o) == type_of(st, o) \notin {"nil", "false"}
Bool(b)        == IF b THEN RTrue ELSE RFalse

list_obj(st, l) == new_object(st, [Object("list") EXCEPT !.l = l])

clos_object(st, params, body) ==
    new_object(st, [Object("fn") EXCEPT !.body = body, !.params = params,
                                        !.arity = Len(params), !.env = st.current])

cons_object(st, name, arity) ==
    new_object(st, [Object("cons") EXCEPT !.name = name, !.arity = arity])

variant_object(st, cons, elems) ==
    new_object(st, [Object("variant") EXCEPT !.cons = cons, !.l = elems])

-----------------------------------------------------------------------------
(* Environments (env.c) *)

new_env(st, enclosing) ==
    Result([st EXCEPT !.envs = Append(@, [enclosing |-> enclosing, vars |-> <<>>])],
           Len(st.envs) + 1)

env_add(st, env, object) == [st EXCEPT !.envs[env].vars = Append(@, object)]

RECURSIVE Outward(_, _, _)
Outward(st, env, distance) ==
    IF distance = 0 \/ env = 0 THEN env
    ELSE Outward(st, st.envs[env].enclosing, distance - 1)

\* A distance beyond the outermost environment, or a slot that is not there
\* yet, is undefined behaviour.
HasSlot(st, ident) ==
    LET env == Outward(st, st.current, ident.depth)
    IN  env # 0 /\ ident.index < Len(st.envs[env].vars)

env_get(st, distance, slot) ==
    st.envs[Outward(st, st.current, distance)].vars[slot + 1]

env_set(st, object, distance, slot) ==
    [st EXCEPT !.envs[Outward(st, st.current, distance)].vars[slot + 1] = object]

define(st, name, object, env) ==
    IF env # 0 THEN env_add(st, env, object)
    ELSE [st EXCEPT !.global = name :> object @@ @]

-----------------------------------------------------------------------------
(* Expressions *)

eval_ident(st, expr) ==
    IF expr.index > -1
    THEN IF HasSlot(st, expr) THEN Result(st, env_get(st, expr.depth, expr.index))
         ELSE Undefined(st)
    ELSE IF expr.name \in DOMAIN st.global THEN Result(st, st.global[expr.name])
    ELSE rt_err(st)

\* Numbers are one value, so of the arithmetic only the types are left.
arth_bin(st, left, right) ==
    IF type_of(st, left) = "int" /\ type_of(st, right) = "int"
    THEN new_object(st, Object("int")) ELSE rt_err(st)

list_cons(st, left, right) ==
    IF type_of(st, right) # "list" THEN rt_err(st)
    ELSE list_obj(st, <<left>> \o st.objs[right].l)

clear(st, o, bit) == [st EXCEPT !.objs[o].mode = @ \ {bit}]

RECURSIVE eval(_, _), eval_all(_, _), eval_while(_, _, _), eval_match(_, _, _, _),
          eval_conds(_, _, _), iter_list(_, _, _), bind_args(_, _, _, _),
          match(_, _, _, _), match_all(_, _, _, _), execute(_, _), run_stmts(_, _, _)

eval_all(st, exprs) ==
    IF exprs = <<>> THEN Result(st, <<>>)
    ELSE Then(eval(st, Head(exprs)), LAMBDA s, v :
         Then(eval_all(s, Tail(exprs)), LAMBDA t, vs : Result(t, <<v>> \o vs)))

\* Fault: a result that is no value is not replaced by nil.
walk_piece_Void(st, piece, env_new) ==
    Then(run_stmts([st EXCEPT !.current = env_new], piece, RNil), LAMBDA s, v :
         Result([s EXCEPT !.current = st.current], v))

\* Fault: an early return leaves the current environment where it is.
walk_piece_Early(st, piece, env_new) ==
    Then(run_stmts([st EXCEPT !.current = env_new], piece, RNil), LAMBDA s, v :
         Result(IF mode_of(s, v) # {} THEN s ELSE [s EXCEPT !.current = st.current],
                IF type_of(s, v) = "void" THEN RNil ELSE v))

walk_piece(st, piece, env_new) ==
    Then(run_stmts([st EXCEPT !.current = env_new], piece, RNil), LAMBDA s, v :
         Result([s EXCEPT !.current = st.current],
                IF type_of(s, v) = "void" THEN RNil ELSE v))

\* The statements up to the first whose result has a mode.
run_stmts(st, stmts, result) ==
    IF stmts = <<>> THEN Result(st, result)
    ELSE Then(execute(st, Head(stmts)), LAMBDA s, v :
         IF mode_of(s, v) # {} THEN Result(s, v) ELSE run_stmts(s, Tail(stmts), v))

\* A piece in a new environment inside of the current one.
in_new_env(st, piece) ==
    Then(new_env(st, st.current), LAMBDA s, env : walk_piece(s, piece, env))

match_cons(st, patt, variant, env) ==
    Then(eval(st, patt.tag), LAMBDA s, cons :
         IF s.objs[variant].cons # cons THEN Result(s, FALSE)
         ELSE match_all(s, patt.patts, s.objs[variant].l, env))

match_list(st, patt, list, env) == match_all(st, patt.patts, st.objs[list].l, env)

match_pair(st, patt, list, env) ==
    LET l == st.objs[list].l
    IN  IF l = <<>> THEN Result(st, FALSE)
        ELSE Then(match(st, patt.hd, Head(l), env), LAMBDA s, fits :
             IF ~fits THEN Result(s, FALSE)
             ELSE Then(list_obj(s, Tail(l)), LAMBDA t, tail : match(t, patt.tl, tail, env)))

match_all(st, patts, objects, env) ==
    IF Len(patts) # Len(objects) THEN Result(st, FALSE)
    ELSE IF patts = <<>> THEN Result(st, TRUE)
    ELSE Then(match(st, Head(patts), Head(objects), env), LAMBDA s, fits :
         IF ~fits THEN Result(s, FALSE) ELSE match_all(s, Tail(patts), Tail(objects), env))

\* Whether a pattern fits an object; the variables it binds on the way are added
\* to env, or to the globals.
match(st, patt, object, env) ==
    CASE patt.op = "const_patt" -> Result(st, patt.type = type_of(st, object))
      [] patt.op = "ident_patt" -> Result(define(st, patt.name, object, env), TRUE)
      [] patt.op = "cons_patt" /\ type_of(st, object) = "variant" ->
            match_cons(st, patt, object, env)
      [] patt.op = "list_patt" /\ type_of(st, object) = "list" -> match_list(st, patt, object, env)
      [] patt.op = "pair_patt" /\ type_of(st, object) = "list" -> match_pair(st, patt, object, env)
      [] OTHER -> Result(st, FALSE)

eval_assign(st, expr) == Then(eval(st, expr.value), LAMBDA s, value :
    LET ident == expr.lvalue
    IN  IF ident.index > -1
        THEN IF HasSlot(s, ident)
             THEN Result(env_set(s, value, ident.depth, ident.index), value)
             ELSE Undefined(s)
        ELSE IF ident.name \in DOMAIN s.global
        THEN Result([s EXCEPT !.global[ident.name] = value], value)
        ELSE rt_err(s))

eval_binary(st, expr) == Then(eval(st, expr.left), LAMBDA s, left :
    IF \/ expr.type = "and" /\ ~is_true(s, left)
       \/ expr.type = "or"  /\ is_true(s, left)
    THEN Result(s, left)
    ELSE Then(eval(s, expr.right), LAMBDA t, right :
         CASE expr.type = "cons" -> list_cons(t, left, right)
           [] expr.type = "plus" -> arth_bin(t, left, right)
           [] OTHER -> Result(t, right)))

\* Each argument is evaluated where the call is, and matched at once.
bind_args(st, params, args, env) ==
    IF args = <<>> THEN Result(st, env)
    ELSE Then(eval(st, Head(args)), LAMBDA s, arg :
         Then(match(s, Head(params), arg, env), LAMBDA t, fits :
         IF ~fits THEN rt_err(t) ELSE bind_args(t, Tail(params), Tail(args), env)))

call_fn(st, fn, args) ==
    IF Len(args) # st.objs[fn].arity THEN rt_err(st)
    ELSE Turn(st, LAMBDA s :
         Then(new_env(s, s.objs[fn].env), LAMBDA t, env :
         Then(bind_args(t, t.objs[fn].params, args, env), LAMBDA u, e :
         Then(walk_piece(u, u.objs[fn].body, env), LAMBDA w, v :
              Result(clear(w, v, "return"), v)))))

call_cons(st, cons, args) ==
    IF Len(args) # st.objs[cons].arity THEN rt_err(st)
    ELSE Then(eval_all(st, args), LAMBDA s, elems : variant_object(s, cons, elems))

eval_call(st, expr) == Then(eval(st, expr.func), LAMBDA s, callee :
    CASE type_of(s, callee) = "fn"   -> call_fn(s, callee, expr.args)
      [] type_of(s, callee) = "cons" -> call_cons(s, callee, expr.args)
      [] OTHER -> rt_err(s))

eval_arm(st, arm) ==
    IF arm.type = "expr" THEN run_stmts(st, arm.body, RNil) ELSE in_new_env(st, arm.body)

\* eval_cond, and eval_if whose elifs and else come in the same order.
eval_conds(st, conds, arms) ==
    IF conds = <<>> THEN Result(st, RNil)
    ELSE Then(eval(st, Head(conds)), LAMBDA s, c :
         IF is_true(s, c) THEN eval_arm(s, Head(arms))
         ELSE eval_conds(s, Tail(conds), Tail(arms)))

eval_cond(st, expr) == eval_conds(st, expr.exprs, expr.arms)

eval_if(st, expr) ==
    eval_conds(st, [i \in DOMAIN expr.clauses |-> expr.clauses[i].cond] \o <<Lit("true")>>,
                   [i \in DOMAIN expr.clauses |-> Arm("piece", expr.clauses[i].then)]
                      \o <<Arm("piece", expr.alter)>>)

iter_list(st, list, expr) ==
    IF list = <<>> THEN Result(st, RNil)
    ELSE Then(new_env(st, st.current), LAMBDA s, env :
         Then(match(s, expr.patt, Head(list), env), LAMBDA t, fits :
         IF ~fits THEN iter_list(t, Tail(list), expr)
         ELSE Then(walk_piece(t, expr.body, env), LAMBDA u, v : iter_list(u, Tail(list), expr))))

eval_for(st, expr) == Then(eval(st, expr.iter), LAMBDA s, iter :
    IF type_of(s, iter) = "list" THEN iter_list(s, s.objs[iter].l, expr)
    ELSE Result(s, RVoid))

\* The patterns are matched with the new environment as the current one, and
\* an arm that was chosen leaves it there.
eval_match(st, value, patts, arms) ==
    IF patts = <<>> THEN Result(st, RNil)
    ELSE Then(new_env(st, st.current), LAMBDA s, env :
         Then(match([s EXCEPT !.current = env], Head(patts), value, env), LAMBDA t, fits :
         IF ~fits THEN eval_match([t EXCEPT !.current = st.current], value, Tail(patts), Tail(arms))
         ELSE IF Head(arms).type = "expr" THEN run_stmts(t, Head(arms).body, RNil)
         ELSE walk_piece(t, Head(arms).body, env)))

\* Fault: a break ends the loop and stays in the mode.
eval_while_Break(st, expr, res) == Then(eval(st, expr.cond), LAMBDA s, c :
    IF ~is_true(s, c) THEN Result(s, res)
    ELSE Turn(s, LAMBDA t : Then(in_new_env(t, expr.body), LAMBDA u, v :
         CASE "break" \in mode_of(u, v)    -> Result(u, v)
           [] "continue" \in mode_of(u, v) -> eval_while(clear(u, v, "continue"), expr, v)
           [] "return" \in mode_of(u, v)   -> Result(u, v)
           [] OTHER -> eval_while(u, expr, v))))

eval_while(st, expr, res) == Then(eval(st, expr.cond), LAMBDA s, c :
    IF ~is_true(s, c) THEN Result(s, res)
    ELSE Turn(s, LAMBDA t : Then(in_new_env(t, expr.body), LAMBDA u, v :
         CASE "break" \in mode_of(u, v)    -> Result(clear(u, v, "break"), v)
           [] "continue" \in mode_of(u, v) -> eval_while(clear(u, v, "continue"), expr, v)
           [] "return" \in mode_of(u, v)   -> Result(u, v)
           [] OTHER -> eval_while(u, expr, v))))

eval_lit(st, expr) ==
    CASE expr.type = "nil"   -> Result(st, RNil)
      [] expr.type = "true"  -> Result(st, RTrue)
      [] expr.type = "false" -> Result(st, RFalse)
      [] expr.type = "int"   -> new_object(st, Object("int"))

eval(st, expr) ==
    CASE expr.op = "lit"    -> eval_lit(st, expr)
      [] expr.op = "list"   -> Then(eval_all(st, expr.values), LAMBDA s, vs : list_obj(s, vs))
      [] expr.op = "fn"     -> clos_object(st, expr.params, expr.body)
      [] expr.op = "ident"  -> eval_ident(st, expr)
      [] expr.op = "assign" -> eval_assign(st, expr)
      [] expr.op = "binary" -> eval_binary(st, expr)
      [] expr.op = "not"    -> Then(eval(st, expr.operand), LAMBDA s, v :
                                    Result(s, Bool(~is_true(s, v))))
      [] expr.op = "call"   -> eval_call(st, expr)
      [] expr.op = "if"     -> eval_if(st, expr)
      [] expr.op = "cond"   -> eval_cond(st, expr)
      [] expr.op = "match"  -> Then(eval(st, expr.value), LAMBDA s, v :
                                    eval_match(s, v, expr.patts, expr.arms))
      [] expr.op = "while"  -> eval_while(st, expr, RNil)
      [] expr.op = "for"    -> eval_for(st, expr)

-----------------------------------------------------------------------------
(* Statements *)

def_function(st, stmt) == Then(clos_object(st, stmt.params, stmt.body), LAMBDA s, fn :
    Result(define(s, stmt.name, fn, s.current), RVoid))

match_let(st, stmt) ==
    Then(eval(st, stmt.value), LAMBDA s, value :
    Then(match(s, stmt.patt, value, s.current), LAMBDA t, fits :
         IF fits THEN Result(t, RVoid) ELSE rt_err(t)))

def_type(st, stmt) ==
    FoldLeft(LAMBDA res, v : Then(cons_object(res.st, v.name, v.count), LAMBDA s, cons :
                                  Result(define(s, v.name, cons, s.current), RVoid)),
             Result(st, RVoid), stmt.variants)

exec_return(st, stmt) == Then(eval(st, stmt.value), LAMBDA s, v :
    Result([s EXCEPT !.objs[v].mode = {"return"}], v))

\* Break and continue are modes of the one nil object.
exec_fixed(st, type) == Result([st EXCEPT !.objs[RNil].mode = {type}], RNil)

execute(st, stmt) ==
    CASE stmt.op = "expr_stmt"  -> eval(st, stmt.expr)
      [] stmt.op = "fn_stmt"    -> def_function(st, stmt)
      [] stmt.op = "let_stmt"   -> match_let(st, stmt)
      [] stmt.op = "type_stmt"  -> def_type(st, stmt)
      [] stmt.op = "ret_stmt"   -> exec_return(st, stmt)
      [] stmt.op = "fixed_stmt" -> exec_fixed(st, stmt.fixed)

\* echo_object.  The elements of a variant are left out: print_variant goes on to a
\* NULL that call_cons did not write.
RECURSIVE echo(_, _)
echo(st, o) ==
    LET l == st.objs[o].l
    IN  CASE type_of(st, o) = "list" ->
                <<"[">> \o FlattenSeq([i \in DOMAIN l |-> echo(st, l[i])]) \o <<"]">>
          [] type_of(st, o) = "variant" -> <<"variant", st.objs[st.objs[o].cons].name>>
          [] OTHER -> <<type_of(st, o)>>

-----------------------------------------------------------------------------
(* The prompt (run_line, repl).  A line is one statement: several in a line *)
(* are executed like several lines, until one of them fails.                *)

Init == /\ evaluator = init_eval
        /\ meaning = L!NoMeaning
        /\ line = L!NoLine
        /\ entered = 0
        /\ shown = <<>>

\* A statement is read.  What it means is computed beside what is done, and
\* those that would not end are left out.
Read == /\ entered < Len(Lines)
        /\ entered' = entered + 1
        /\ line' \in Lines[entered + 1]
        /\ LET outcome == L!Outcome(meaning, line')
           IN  outcome.how # "diverges" /\ meaning' = outcome.m

\* The resolver found an error: nothing is executed.
Reject == /\ shown' = <<"rejected">>
          /\ UNCHANGED evaluator

\* The result of the statement is printed, unless it is a declaration.
Run(res) == /\ res.st.err = "no"
            /\ evaluator' = res.st
            /\ shown' = IF type_of(res.st, res.val) = "void" THEN <<>>
                        ELSE echo(res.st, res.val)

\* An error of the language itself, inside of a function or a block.
InnerError(res) == /\ res.st.err = "error"
                   /\ res.st.current # 0
                   /\ L!Outcome(meaning, line').how = "error"

\* The longjmp comes back to the prompt, which goes on with the evaluator as
\* the error left it.  Undefined behaviour, a statement that does not end, and
\* an error the language does not have are steps too, wherever they happen:
\* they print what no statement of Language does.
Fail(res) == /\ res.st.err # "no"
             /\ InnerErrors \/ ~InnerError(res)
             /\ evaluator' = [res.st EXCEPT !.err = "no"]
             /\ shown' = <<res.st.err>>

Next == /\ Read
        /\ LET resolved == R!resolve_statement(line')
               res == execute([evaluator EXCEPT !.fuel = Fuel], resolved.node)
           IN  \/ resolved.r.been_error /\ Reject
               \/ ~resolved.r.been_error /\ Run(res)
               \/ ~resolved.r.been_error /\ Fail(res)

Spec == Init /\ [][Next]_vars

-----------------------------------------------------------------------------
(* Properties *)

\* Type invariant: pointers lead somewhere, an environment is younger than the
\* one around it, and no piece hands the object that stands for "no value" on into
\* a variable or a list (walk_piece).  The other place a void comes from, a for
\* over what is no list (eval_for), is an expression and stores it: these programs
\* are in no session but those of Voids in MCEvaluator.
TypeOK ==
    LET values == { o \in 1..Len(evaluator.objs) : o # RVoid }
    IN  /\ evaluator.current \in 0..Len(evaluator.envs)
        /\ evaluator.err = "no"
        /\ \A n \in DOMAIN evaluator.global : evaluator.global[n] \in values
        /\ \A e \in DOMAIN evaluator.envs :
              /\ evaluator.envs[e].enclosing \in 0..(e - 1)
              /\ \A i \in DOMAIN evaluator.envs[e].vars : evaluator.envs[e].vars[i] \in values
        /\ \A o \in DOMAIN evaluator.objs :
              /\ evaluator.objs[o].env \in 0..Len(evaluator.envs)
              /\ \A i \in DOMAIN evaluator.objs[o].l : evaluator.objs[o].l[i] \in values

\* Between two statements the current environment is the global one, so that what
\* the next line defines is where the resolver says it is (walk_piece restores it on every
\* way out of a piece).
AtTopLevel == evaluator.current = 0

\* No break, continue or return outlives the loop or the call it was for: the mode is
\* kept in the object itself, and nil, true and false are objects that everything
\* shares (eval_while and call_fn clear it).
ModesClear == \A o \in DOMAIN evaluator.objs : mode_of(evaluator, o) = {}

\* What is printed for each statement of a session, of whatever went before it, is what the
\* language means: distances and slots find the variable of the name, closures keep theirs,
\* and statements that may not be executed are rejected.
ImplementsLanguage == L!Spec

=============================================================================
