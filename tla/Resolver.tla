------------------------------ MODULE Resolver ------------------------------
(***************************************************************************)
(* The resolver of the old interpreter (old_interpreter/src/resolver.c): a *)
(* walk over the tree that gives every use of a local variable its         *)
(* distance and its slot, and rejects misplaced statements.                *)
(*                                                                         *)
(* Resolver state: the stack of scopes, each the sequence of its names (a  *)
(* name's slot is its position), the flags IN_FUNCTION and IN_LOOP, and    *)
(* been_error.  Every function returns the resolved node and the state.    *)
(***************************************************************************)
EXTENDS Syntax

InitResolver == [scopes |-> <<>>, state |-> {}, been_error |-> FALSE]

push_scope(r) == [r EXCEPT !.scopes = Append(@, <<>>)]
pop_scope(r)  == [r EXCEPT !.scopes = Front(@)]

reg_error(r) == [r EXCEPT !.been_error = TRUE]

\* A name is added to the innermost scope; there is none for globals.
define(r, name) ==
    IF r.scopes = <<>> THEN r
    ELSE IF Contains(Last(r.scopes), name) THEN reg_error(r)
    ELSE [r EXCEPT !.scopes[Len(r.scopes)] = Append(@, name)]

\* The innermost scope that has the name; without one it is taken for a global.
resolve_local(r, ident) ==
    LET holding == { i \in DOMAIN r.scopes : Contains(r.scopes[i], ident.name) }
    IN  IF holding = {} THEN ident
        ELSE LET i == CHOOSE j \in holding : \A k \in holding : k <= j
             IN  [ident EXCEPT !.index = SelectInSeq(r.scopes[i], LAMBDA n : n = ident.name) - 1,
                               !.depth = Len(r.scopes) - i]

Resolved(node, r)  == [node |-> node, r |-> r]
Then(res, F(_, _)) == F(res.node, res.r)

RECURSIVE resolve_expr(_, _), resolve_exprs(_, _), resolve_patt(_, _),
          resolve_patts(_, _), resolve_stmt(_, _), resolve_stmts(_, _),
          resolve_arms(_, _, _), resolve_clauses(_, _)

resolve_exprs(r, exprs) ==
    IF exprs = <<>> THEN Resolved(<<>>, r)
    ELSE Then(resolve_expr(r, Head(exprs)), LAMBDA first, s :
         Then(resolve_exprs(s, Tail(exprs)), LAMBDA rest, t : Resolved(<<first>> \o rest, t)))

resolve_patts(r, patts) ==
    IF patts = <<>> THEN Resolved(<<>>, r)
    ELSE Then(resolve_patt(r, Head(patts)), LAMBDA first, s :
         Then(resolve_patts(s, Tail(patts)), LAMBDA rest, t : Resolved(<<first>> \o rest, t)))

resolve_stmts(r, stmts) ==
    IF stmts = <<>> THEN Resolved(<<>>, r)
    ELSE Then(resolve_stmt(r, Head(stmts)), LAMBDA first, s :
         Then(resolve_stmts(s, Tail(stmts)), LAMBDA rest, t : Resolved(<<first>> \o rest, t)))

resolve_piece(r, piece) ==
    Then(resolve_stmts(push_scope(r), piece), LAMBDA body, s : Resolved(body, pop_scope(s)))

\* The flags are added on the way in and restored on the way out.
resolve_fn(r, params, body) ==
    Then(resolve_patts([push_scope(r) EXCEPT !.state = @ \cup {"IN_FUNCTION"}], params), LAMBDA ps, s :
    Then(resolve_stmts(s, body), LAMBDA stmts, t :
         Resolved([params |-> ps, body |-> stmts], [pop_scope(t) EXCEPT !.state = r.state])))

resolve_patt(r, patt) ==
    CASE patt.op = "ident_patt" -> Resolved(patt, define(r, patt.name))
      [] patt.op = "list_patt" ->
            Then(resolve_patts(r, patt.patts), LAMBDA ps, s : Resolved([patt EXCEPT !.patts = ps], s))
      [] patt.op = "pair_patt" ->
            Then(resolve_patts(r, <<patt.hd, patt.tl>>), LAMBDA ps, s :
                 Resolved([patt EXCEPT !.hd = ps[1], !.tl = ps[2]], s))
      [] patt.op = "cons_patt" ->
            Then(resolve_expr(r, patt.tag), LAMBDA tag, s :
            Then(resolve_patts(s, patt.patts), LAMBDA ps, t :
                 Resolved([patt EXCEPT !.tag = tag, !.patts = ps], t)))
      [] OTHER -> Resolved(patt, r)

\* resolve_if: the condition and the piece of each clause in turn.
resolve_clauses(r, clauses) ==
    IF clauses = <<>> THEN Resolved(<<>>, r)
    ELSE Then(resolve_expr(r, Head(clauses).cond), LAMBDA cond, s :
         Then(resolve_piece(s, Head(clauses).then), LAMBDA then, t :
         Then(resolve_clauses(t, Tail(clauses)), LAMBDA rest, u :
              Resolved(<<Clause(cond, then)>> \o rest, u))))

\* patts holds the pattern of each arm, if it has one.  An arm of a match has its
\* scope for the pattern and the body; the arms of a cond have no patterns, and only
\* those that are pieces have a scope.
resolve_arm(r, patts, arm, scoped) ==
    Then(resolve_patts(IF scoped THEN push_scope(r) ELSE r, patts), LAMBDA ps, s :
    Then(resolve_stmts(s, arm.body), LAMBDA body, t :
         Resolved([patts |-> ps, arm |-> [arm EXCEPT !.body = body]],
                  IF scoped THEN pop_scope(t) ELSE t)))

resolve_arms(r, patts, arms) ==
    IF arms = <<>> THEN Resolved([patts |-> <<>>, arms |-> <<>>], r)
    ELSE Then(resolve_arm(r, Head(patts), Head(arms), Head(patts) # <<>> \/ Head(arms).type = "piece"),
              LAMBDA first, s :
         Then(resolve_arms(s, Tail(patts), Tail(arms)), LAMBDA rest, t :
              Resolved([patts |-> first.patts \o rest.patts, arms |-> <<first.arm>> \o rest.arms], t)))

\* Fault: the pattern of a for has no scope of its own.
resolve_for_Unscoped(r, expr) ==
    Then(resolve_expr([r EXCEPT !.state = @ \cup {"IN_LOOP"}], expr.iter), LAMBDA iter, s :
    Then(resolve_patt(push_scope(s), expr.patt), LAMBDA patt, t :
    Then(resolve_piece(t, expr.body), LAMBDA body, u :
         Resolved([expr EXCEPT !.iter = iter, !.patt = patt, !.body = body],
                  [pop_scope(u) EXCEPT !.state = r.state]))))

resolve_for(r, expr) ==
    Then(resolve_expr([r EXCEPT !.state = @ \cup {"IN_LOOP"}], expr.iter), LAMBDA iter, s :
    Then(resolve_patt(push_scope(s), expr.patt), LAMBDA patt, t :
    Then(resolve_stmts(t, expr.body), LAMBDA body, u :
         Resolved([expr EXCEPT !.iter = iter, !.patt = patt, !.body = body],
                  [pop_scope(u) EXCEPT !.state = r.state]))))

resolve_while(r, expr) ==
    Then(resolve_expr([r EXCEPT !.state = @ \cup {"IN_LOOP"}], expr.cond), LAMBDA cond, s :
    Then(resolve_piece(s, expr.body), LAMBDA body, t :
         Resolved([expr EXCEPT !.cond = cond, !.body = body], [t EXCEPT !.state = r.state])))

resolve_cond(r, expr) ==
    Then(resolve_exprs(r, expr.exprs), LAMBDA conds, s :
    Then(resolve_arms(s, [i \in DOMAIN expr.arms |-> <<>>], expr.arms), LAMBDA all, t :
         Resolved(Cond(conds, all.arms), t)))

resolve_match(r, expr) ==
    Then(resolve_expr(r, expr.value), LAMBDA value, s :
    Then(resolve_arms(s, [i \in DOMAIN expr.patts |-> <<expr.patts[i]>>], expr.arms), LAMBDA all, t :
         Resolved(Match(value, all.patts, all.arms), t)))

resolve_if(r, expr) ==
    Then(resolve_clauses(r, expr.clauses), LAMBDA clauses, s :
    Then(resolve_piece(s, expr.alter), LAMBDA alter, t : Resolved(If(clauses, alter), t)))

resolve_expr(r, expr) ==
    CASE expr.op = "lit"   -> Resolved(expr, r)
      [] expr.op = "ident" -> Resolved(resolve_local(r, expr), r)
      [] expr.op = "list"  -> Then(resolve_exprs(r, expr.values), LAMBDA vs, s :
                                   Resolved([expr EXCEPT !.values = vs], s))
      [] expr.op = "fn"    -> Then(resolve_fn(r, expr.params, expr.body), LAMBDA fn, s :
                                   Resolved(FnLit(fn.params, fn.body), s))
      [] expr.op = "assign" -> Then(resolve_expr(r, expr.value), LAMBDA v, s :
                Resolved([expr EXCEPT !.lvalue = resolve_local(r, @), !.value = v], s))
      [] expr.op = "binary" -> Then(resolve_exprs(r, <<expr.left, expr.right>>), LAMBDA sides, s :
                Resolved([expr EXCEPT !.left = sides[1], !.right = sides[2]], s))
      [] expr.op = "not"   -> Then(resolve_expr(r, expr.operand), LAMBDA v, s :
                                   Resolved([expr EXCEPT !.operand = v], s))
      [] expr.op = "call"  -> Then(resolve_exprs(r, <<expr.func>> \o expr.args), LAMBDA all, s :
                                   Resolved(Call(Head(all), Tail(all)), s))
      [] expr.op = "cond"  -> resolve_cond(r, expr)
      [] expr.op = "match" -> resolve_match(r, expr)
      [] expr.op = "if"    -> resolve_if(r, expr)
      [] expr.op = "while" -> resolve_while(r, expr)
      [] expr.op = "for"   -> resolve_for(r, expr)

resolve_fixed(r, stmt) ==
    Resolved(stmt, IF "IN_LOOP" \in r.state THEN r ELSE reg_error(r))

\* A let resolves its pattern, which defines the names, before its value.
resolve_let(r, stmt) ==
    Then(resolve_patt(r, stmt.patt), LAMBDA patt, s :
    Then(resolve_expr(s, stmt.value), LAMBDA value, t : Resolved(LetStmt(patt, value), t)))

resolve_return(r, stmt) ==
    Then(resolve_expr(IF "IN_FUNCTION" \in r.state THEN r ELSE reg_error(r), stmt.value),
         LAMBDA value, s : Resolved(RetStmt(value), s))

resolve_stmt(r, stmt) ==
    CASE stmt.op = "expr_stmt" -> Then(resolve_expr(r, stmt.expr), LAMBDA e, s : Resolved(ExprStmt(e), s))
      [] stmt.op = "fixed_stmt" -> resolve_fixed(r, stmt)
      [] stmt.op = "fn_stmt" ->
            Then(resolve_fn(define(r, stmt.name), stmt.params, stmt.body), LAMBDA fn, s :
                 Resolved(FnStmt(stmt.name, fn.params, fn.body), s))
      [] stmt.op = "let_stmt" -> resolve_let(r, stmt)
      [] stmt.op = "ret_stmt" -> resolve_return(r, stmt)
      [] stmt.op = "type_stmt" ->
            Resolved(stmt, FoldLeft(LAMBDA s, v : define(s, v.name), r, stmt.variants))

resolve_statement(stmt) == resolve_stmt(InitResolver, stmt)

=============================================================================
