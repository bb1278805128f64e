------------------------------- MODULE Syntax -------------------------------
(***************************************************************************)
(* Syntax trees of the old interpreter (old_interpreter/src/ast.h).  A     *)
(* node is a record whose field op is its type; an array is a sequence.    *)
(* Integers, floats and strings are one literal, "int": the evaluator asks *)
(* of them only what they are.                                             *)
(***************************************************************************)
EXTENDS Integers, Sequences, SequencesExt

\* Expressions
Lit(type)          == [op |-> "lit", type |-> type]
ListLit(values)    == [op |-> "list", values |-> values]
FnLit(params, body) == [op |-> "fn", params |-> params, body |-> body]
Ident(name)        == [op |-> "ident", name |-> name, index |-> -1, depth |-> 0]
Assign(name, value) == [op |-> "assign", lvalue |-> Ident(name), value |-> value]
Binary(type, left, right) ==
    [op |-> "binary", type |-> type, left |-> left, right |-> right]
Not(operand)       == [op |-> "not", operand |-> operand]
Call(func, args)   == [op |-> "call", func |-> func, args |-> args]

\* clauses are the condition and the piece of the if and of each elif; no else
\* is an empty piece, which has the same value.
If(clauses, alter) == [op |-> "if", clauses |-> clauses, alter |-> alter]
Clause(cond, then) == [cond |-> cond, then |-> then]
While(cond, body)  == [op |-> "while", cond |-> cond, body |-> body]
For(patt, iter, body) ==
    [op |-> "for", patt |-> patt, iter |-> iter, body |-> body]

\* An arm is an expression or a piece, and a piece is a sequence of statements.
\* An expression arm is modelled as the piece of its expression statement with
\* the mark that it opens no scope.
Arm(type, body)    == [type |-> type, body |-> body]
Cond(exprs, arms)  == [op |-> "cond", exprs |-> exprs, arms |-> arms]
Match(value, patts, arms) ==
    [op |-> "match", value |-> value, patts |-> patts, arms |-> arms]

\* Patterns
IdentPatt(name)      == [op |-> "ident_patt", name |-> name]
ConstPatt(type)      == [op |-> "const_patt", type |-> type]
ListPatt(patts)      == [op |-> "list_patt", patts |-> patts]
PairPatt(hd, tl)     == [op |-> "pair_patt", hd |-> hd, tl |-> tl]
ConsPatt(tag, patts) == [op |-> "cons_patt", tag |-> Ident(tag), patts |-> patts]

\* Statements
ExprStmt(expr)            == [op |-> "expr_stmt", expr |-> expr]
LetStmt(patt, value)      == [op |-> "let_stmt", patt |-> patt, value |-> value]
FnStmt(name, params, body) ==
    [op |-> "fn_stmt", name |-> name, params |-> params, body |-> body]
RetStmt(value)            == [op |-> "ret_stmt", value |-> value]
FixedStmt(fixed)          == [op |-> "fixed_stmt", fixed |-> fixed]
TypeStmt(variants)        == [op |-> "type_stmt", variants |-> variants]
Variant(name, count)      == [name |-> name, count |-> count]

=============================================================================
