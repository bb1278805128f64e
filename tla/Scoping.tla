------------------------------- MODULE Scoping -------------------------------
(***************************************************************************)
(* Which statements of the old interpreter's language are rejected before  *)
(* they are executed: those with a break, continue or return that leaves a *)
(* node that is in no loop or in no function, and those that define a name *)
(* twice in a scope that is not the global one.                            *)
(***************************************************************************)
EXTENDS Syntax

RECURSIVE PattNames(_), Escapes(_)
PattNames(patt) ==
    CASE patt.op = "ident_patt" -> <<patt.name>>
      [] patt.op = "pair_patt"  -> PattNames(patt.hd) \o PattNames(patt.tl)
      [] patt.op \in {"list_patt", "cons_patt"} ->
            FlattenSeq([i \in DOMAIN patt.patts |-> PattNames(patt.patts[i])])
      [] OTHER -> <<>>

Defined(stmt) ==
    CASE stmt.op = "let_stmt"  -> PattNames(stmt.patt)
      [] stmt.op = "fn_stmt"   -> <<stmt.name>>
      [] stmt.op = "type_stmt" -> [i \in DOMAIN stmt.variants |-> stmt.variants[i].name]
      [] OTHER -> <<>>

EscapesOf(nodes) == UNION { Escapes(nodes[i]) : i \in DOMAIN nodes }

InScope(patts, stmts) ==
    LET names == FlattenSeq([i \in DOMAIN patts |-> PattNames(patts[i])])
                   \o FlattenSeq([i \in DOMAIN stmts |-> Defined(stmts[i])])
    IN  EscapesOf(stmts) \cup (IF IsInjective(names) THEN {} ELSE {"twice"})

Escapes(n) ==
    CASE n.op = "list" -> EscapesOf(n.values)
      [] n.op \in {"fn", "fn_stmt"} ->
            { IF e \in {"break", "continue"} THEN "stray" ELSE e
              : e \in InScope(n.params, n.body) \ {"return"} }
      [] n.op = "assign" -> Escapes(n.value)
      [] n.op = "binary" -> EscapesOf(<<n.left, n.right>>)
      [] n.op = "not"    -> Escapes(n.operand)
      [] n.op = "call"   -> EscapesOf(<<n.func>> \o n.args)
      [] n.op = "if"     -> InScope(<<>>, n.alter)
            \cup UNION { Escapes(n.clauses[i].cond) \cup InScope(<<>>, n.clauses[i].then)
                         : i \in DOMAIN n.clauses }
      [] n.op = "cond"   -> EscapesOf(n.exprs)
            \cup UNION { InScope(<<>>, n.arms[i].body) : i \in DOMAIN n.arms }
      [] n.op = "match"  -> Escapes(n.value)
            \cup UNION { InScope(<<n.patts[i]>>, n.arms[i].body) : i \in DOMAIN n.arms }
      [] n.op = "while"  -> (Escapes(n.cond) \cup InScope(<<>>, n.body)) \ {"break", "continue"}
      [] n.op = "for"    -> (Escapes(n.iter) \cup InScope(<<n.patt>>, n.body)) \ {"break", "continue"}
      [] n.op = "expr_stmt" -> Escapes(n.expr)
      [] n.op = "let_stmt"  -> Escapes(n.value)
      [] n.op = "ret_stmt"  -> {"return"} \cup Escapes(n.value)
      [] n.op = "fixed_stmt" -> {n.fixed}
      [] OTHER -> {}

=============================================================================
