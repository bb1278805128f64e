------------------------------ MODULE Language ------------------------------
(***************************************************************************)
(* What a session of the old interpreter means: names are those of the     *)
(* enclosing scopes, break and continue end the innermost loop or one turn *)
(* of it, return ends the function, and the statements at the prompt share *)
(* one global scope.  Nothing here is translated from the evaluator: it is *)
(* what Evaluator is compared with.                                        *)
(*                                                                         *)
(* A scope maps names to values and has a parent; scope 1 is the global    *)
(* one.  An expression has a completion: what the scopes are afterwards,   *)
(* how it ended, and its value.                                            *)
(***************************************************************************)
EXTENDS Scoping, TLC

CONSTANTS
    Lines,     \* Lines[n] is the set of statements that may be the n-th entered
    Fuel       \* bound: turns of loops and calls in one statement

VARIABLES
    meaning,   \* the scopes, and how many constructors were made
    line,      \* the statement last entered
    entered,   \* how many statements were
    shown      \* what was printed for it

-----------------------------------------------------------------------------
(* Values and scopes *)

Value(type)  == [type |-> type, elems |-> <<>>, scope |-> 0, params |-> <<>>,
                 body |-> <<>>, stamp |-> 0, name |-> ""]
List(values) == [Value("list") EXCEPT !.elems = values]
Function(scope, params, body) ==
    [Value("fn") EXCEPT !.scope = scope, !.params = params, !.body = body]

Void    == Value("void")       \* what a declaration has
Nil     == Value("nil")
Truth(v) == v.type \notin {"nil", "false"}

NoMeaning == [scopes |-> << [outer |-> 0, vars |-> <<>>] >>, made |-> 0, fuel |-> Fuel]

Opened(m, outer, vars) ==
    [m EXCEPT !.scopes = Append(@, [outer |-> outer, vars |-> vars])]
Newest(m) == Len(m.scopes)
Bound(m, scope, vars) == [m EXCEPT !.scopes[scope].vars = vars @@ @]

\* The innermost scope around a place that has the name, 0 if none has.
RECURSIVE Home(_, _, _)
Home(m, scope, name) ==
    IF scope = 0 \/ name \in DOMAIN m.scopes[scope].vars THEN scope
    ELSE Home(m, m.scopes[scope].outer, name)

\* The variables a pattern binds for a value, as a set of at most one map.
RECURSIVE Fits(_, _, _, _), FitsAll(_, _, _, _)
Fits(m, scope, patt, v) ==
    CASE patt.op = "ident_patt" -> {patt.name :> v}
      [] patt.op = "const_patt" /\ patt.type = v.type -> {<<>>}
      [] patt.op = "list_patt" /\ v.type = "list" -> FitsAll(m, scope, patt.patts, v.elems)
      [] patt.op = "pair_patt" /\ v.type = "list" /\ v.elems # <<>> ->
            FitsAll(m, scope, <<patt.hd, patt.tl>>, <<Head(v.elems), List(Tail(v.elems))>>)
      [] patt.op = "cons_patt" /\ v.type = "variant" ->
            LET home == Home(m, scope, patt.tag.name)
            IN  IF m.scopes[home].vars[patt.tag.name].stamp = v.stamp
                THEN FitsAll(m, scope, patt.patts, v.elems) ELSE {}
      [] OTHER -> {}

FitsAll(m, scope, patts, values) ==
    IF Len(patts) # Len(values) THEN {}
    ELSE IF patts = <<>> THEN {<<>>}
    ELSE { rest @@ first : first \in Fits(m, scope, Head(patts), Head(values)),
                           rest  \in FitsAll(m, scope, Tail(patts), Tail(values)) }

-----------------------------------------------------------------------------
(* Completions *)

Ends(m, how, v)  == [m |-> m, how |-> how, val |-> v]
Normal(m, v)     == Ends(m, "normal", v)
Error(m)         == Ends(m, "error", Nil)
After(c, F(_, _)) == IF c.how = "normal" THEN F(c.m, c.val) ELSE c

\* A turn of a loop, or a call, uses fuel.
Turn(m, F(_)) ==
    IF m.fuel = 0 THEN Ends(m, "diverges", Nil) ELSE F([m EXCEPT !.fuel = @ - 1])

RECURSIVE Eval(_, _, _), EvalAll(_, _, _), Block(_, _, _), First(_, _, _, _),
          FirstFit(_, _, _, _, _), Loop(_, _, _, _), Each(_, _, _, _)

EvalAll(m, scope, exprs) ==
    IF exprs = <<>> THEN Normal(m, <<>>)
    ELSE After(Eval(m, scope, Head(exprs)), LAMBDA n, v :
         After(EvalAll(n, scope, Tail(exprs)), LAMBDA o, vs : Normal(o, <<v>> \o vs)))

\* The statements of a piece in a scope of their own: the value is that of the last.
Block(m, outer, body) ==
    LET opened == Opened(m, outer, <<>>)
        scope  == Newest(opened)
    IN  After(EvalAll(opened, scope, body), LAMBDA n, vs :
              Normal(n, IF vs = <<>> \/ Last(vs).type = "void" THEN Nil ELSE Last(vs)))

\* The piece of the first condition that holds; an arm that is an expression
\* needs no scope, and has no use of one.
First(m, scope, conds, pieces) ==
    IF conds = <<>> THEN Normal(m, Nil)
    ELSE After(Eval(m, scope, Head(conds)), LAMBDA n, c :
         IF Truth(c) THEN Block(n, scope, Head(pieces))
         ELSE First(n, scope, Tail(conds), Tail(pieces)))

FirstFit(m, scope, v, patts, pieces) ==
    IF patts = <<>> THEN Normal(m, Nil)
    ELSE LET fits == Fits(m, scope, Head(patts), v)
         IN  IF fits = {} THEN FirstFit(m, scope, v, Tail(patts), Tail(pieces))
             ELSE LET opened == Opened(m, scope, CHOOSE f \in fits : TRUE)
                  IN  Block(opened, Newest(opened), Head(pieces))

\* The value of a while is that of its last turn, and nil if that was cut short.
Loop(m, scope, expr, last) ==
    After(Eval(m, scope, expr.cond), LAMBDA n, c :
        IF ~Truth(c) THEN Normal(n, last)
        ELSE Turn(n, LAMBDA t :
             LET turn == Block(t, scope, expr.body)
             IN  CASE turn.how = "break"    -> Normal(turn.m, Nil)
                   [] turn.how = "continue" -> Loop(turn.m, scope, expr, Nil)
                   [] OTHER -> After(turn, LAMBDA o, v : Loop(o, scope, expr, v))))

\* A for skips the elements its pattern does not fit, and is nil.
Each(m, scope, expr, values) ==
    IF values = <<>> THEN Normal(m, Nil)
    ELSE LET fits == Fits(m, scope, expr.patt, Head(values))
         IN  IF fits = {} THEN Each(m, scope, expr, Tail(values))
             ELSE LET opened == Opened(m, scope, CHOOSE f \in fits : TRUE)
                      turn   == Block(opened, Newest(opened), expr.body)
                  IN  CASE turn.how = "break"    -> Normal(turn.m, Nil)
                        [] turn.how = "continue" -> Each(turn.m, scope, expr, Tail(values))
                        [] OTHER -> After(turn, LAMBDA n, v : Each(n, scope, expr, Tail(values)))

Call_(m, fn, args) ==
    CASE fn.type = "fn" ->
            LET fits == FitsAll(m, fn.scope, fn.params, args)
            IN  IF fits = {} THEN Error(m)
                ELSE Turn(Opened(m, fn.scope, CHOOSE f \in fits : TRUE), LAMBDA t :
                     LET c == Block(t, Newest(t), fn.body)
                     IN  IF c.how = "return" THEN Normal(c.m, c.val) ELSE c)
      [] fn.type = "cons" /\ fn.elems = [i \in DOMAIN args |-> Nil] ->
            Normal(m, [Value("variant") EXCEPT !.elems = args, !.stamp = fn.stamp, !.name = fn.name])
      [] OTHER -> Error(m)

Binary_(m, type, left, right) ==
    CASE type = "plus" /\ left.type = "int" /\ right.type = "int" -> Normal(m, left)
      [] type = "cons" /\ right.type = "list" -> Normal(m, List(<<left>> \o right.elems))
      [] OTHER -> Error(m)

\* The constructors of a type take as many elements as they are declared with.
Constructors(m, variants) ==
    FoldLeft(LAMBDA vars, i : (variants[i].name :>
                 [Value("cons") EXCEPT !.name = variants[i].name, !.stamp = m.made + i,
                                       !.elems = [j \in 1..variants[i].count |-> Nil]]) @@ vars,
             <<>>, [i \in DOMAIN variants |-> i])

Eval(m, scope, n) ==
    CASE n.op = "lit"  -> Normal(m, Value(n.type))
      [] n.op = "list" -> After(EvalAll(m, scope, n.values), LAMBDA o, vs : Normal(o, List(vs)))
      [] n.op = "fn"   -> Normal(m, Function(scope, n.params, n.body))
      [] n.op = "ident" ->
            LET home == Home(m, scope, n.name)
            IN  IF home = 0 THEN Error(m) ELSE Normal(m, m.scopes[home].vars[n.name])
      [] n.op = "assign" -> After(Eval(m, scope, n.value), LAMBDA o, v :
            LET home == Home(o, scope, n.lvalue.name)
            IN  IF home = 0 THEN Error(o) ELSE Normal(Bound(o, home, n.lvalue.name :> v), v))
      [] n.op = "binary" -> After(Eval(m, scope, n.left), LAMBDA o, left :
            IF n.type \in {"and", "or"} /\ Truth(left) = (n.type = "or") THEN Normal(o, left)
            ELSE After(Eval(o, scope, n.right), LAMBDA p, right :
                 IF n.type \in {"and", "or"} THEN Normal(p, right)
                 ELSE Binary_(p, n.type, left, right)))
      [] n.op = "not" -> After(Eval(m, scope, n.operand), LAMBDA o, v :
            Normal(o, Value(IF Truth(v) THEN "false" ELSE "true")))
      [] n.op = "call" -> After(Eval(m, scope, n.func), LAMBDA o, fn :
            After(EvalAll(o, scope, n.args), LAMBDA p, args : Call_(p, fn, args)))
      [] n.op = "if" -> First(m, scope,
            [i \in 1..Len(n.clauses) |-> n.clauses[i].cond] \o <<Lit("true")>>,
            [i \in 1..Len(n.clauses) |-> n.clauses[i].then] \o <<n.alter>>)
      [] n.op = "cond"  -> First(m, scope, n.exprs, [i \in DOMAIN n.arms |-> n.arms[i].body])
      [] n.op = "match" -> After(Eval(m, scope, n.value), LAMBDA o, v :
            FirstFit(o, scope, v, n.patts, [i \in DOMAIN n.arms |-> n.arms[i].body]))
      [] n.op = "while" -> Loop(m, scope, n, Nil)
      [] n.op = "for"   -> After(Eval(m, scope, n.iter), LAMBDA o, v :
            IF v.type = "list" THEN Each(o, scope, n, v.elems) ELSE Normal(o, Void))
      [] n.op = "expr_stmt" -> Eval(m, scope, n.expr)
      [] n.op = "fn_stmt" ->
            Normal(Bound(m, scope, n.name :> Function(scope, n.params, n.body)), Void)
      [] n.op = "let_stmt" -> After(Eval(m, scope, n.value), LAMBDA o, v :
            LET fits == Fits(o, scope, n.patt, v)
            IN  IF fits = {} THEN Error(o)
                ELSE Normal(Bound(o, scope, CHOOSE f \in fits : TRUE), Void))
      [] n.op = "type_stmt" ->
            Normal([Bound(m, scope, Constructors(m, n.variants)) EXCEPT !.made = @ + Len(n.variants)],
                   Void)
      [] n.op = "ret_stmt"   -> After(Eval(m, scope, n.value), LAMBDA o, v : Ends(o, "return", v))
      [] n.op = "fixed_stmt" -> Ends(m, n.fixed, Nil)

-----------------------------------------------------------------------------
(* The session *)

\* A value as it is printed.
RECURSIVE Printed(_)
Printed(v) ==
    CASE v.type = "list" ->
            <<"[">> \o FlattenSeq([i \in DOMAIN v.elems |-> Printed(v.elems[i])]) \o <<"]">>
      [] v.type = "variant" -> <<"variant", v.name>>
      [] OTHER -> <<v.type>>

\* What a statement does to the scopes, and what is printed.
Outcome(m, stmt) ==
    IF Escapes(stmt) # {} THEN [m |-> m, how |-> "normal", shown |-> <<"rejected">>]
    ELSE LET c == Eval([m EXCEPT !.fuel = Fuel], 1, stmt)
         IN  [m |-> c.m, how |-> c.how,
              shown |-> CASE c.how = "error"       -> <<"error">>
                          [] c.val.type = "void" -> <<>>
                          [] OTHER               -> Printed(c.val)]

NoLine == ExprStmt(Lit("nil"))

Init == /\ meaning = NoMeaning
        /\ line = NoLine
        /\ entered = 0
        /\ shown = <<>>

\* A statement is entered; only those that end are considered.
Enter == /\ entered < Len(Lines)
         /\ entered' = entered + 1
         /\ line' \in Lines[entered + 1]
         /\ LET outcome == Outcome(meaning, line')
            IN  /\ outcome.how # "diverges"
                /\ meaning' = outcome.m
                /\ shown' = outcome.shown

vars == <<meaning, line, entered, shown>>

Spec == Init /\ [][Enter]_vars

=============================================================================
