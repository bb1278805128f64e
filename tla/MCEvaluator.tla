---------------------------- MODULE MCEvaluator ----------------------------
(***************************************************************************)
(* Sessions of three statements: one that defines x, any of the programs   *)
(* of two levels below, and one that looks at what is left.                *)
(*                                                                         *)
(* Kept out, because the evaluator is known not to follow the language     *)
(* there: a match that is not the last statement of its block; break,      *)
(* continue and return directly in a for, in an operand, or in a function  *)
(* inside of the loop they would leave; a let whose value uses its name; a *)
(* for over what is no list, where its value is used.                      *)
(***************************************************************************)
EXTENDS Evaluator, Scoping

nil  == Lit("nil")
true == Lit("true")
one  == Lit("int")
x    == Ident("x")
y    == Ident("y")
k    == Ident("k")

Do(e)         == ExprStmt(e)
Let(name, e)  == LetStmt(IdentPatt(name), e)
Set(name, e)  == Do(Assign(name, e))
Quiet(body)   == InScope(<<>>, body) \cap {"break", "continue", "return"} = {}

Setup == { Let("x", true), Let("x", ListLit(<<nil, ListLit(<<true>>)>>)),
           FnStmt("x", <<IdentPatt("x")>>, <<Do(x)>>),
           TypeStmt(<<Variant("k", 1), Variant("x", 0)>>) }

Simple == { Do(x), Do(y), Set("x", nil), Set("y", one), Let("y", x), Let("x", one),
            FnStmt("y", <<>>, <<Do(x)>>),
            RetStmt(x), FixedStmt("break"), FixedStmt("continue") }

\* Pieces whose value the function or the loop around them sees.
Wrapped(body) ==
    { Do(While(x, body)), Do(Call(FnLit(<<IdentPatt("y")>>, body), <<x>>)) }
    \cup IF Quiet(body) THEN { Do(For(IdentPatt("y"), x, body)) } ELSE {}

Bodied(body) == Wrapped(body) \cup { Do(If(<<Clause(x, body)>>, <<>>)) }

\* A match with a piece for a list that is not empty and one for everything else.
Matching(body) ==
    Do(Match(x, <<PairPatt(IdentPatt("y"), IdentPatt("x")), ConstPatt("nil"), IdentPatt("y")>>,
                <<Arm("piece", body), Arm("expr", <<Do(true)>>), Arm("piece", body)>>))

Short   == { <<s>> : s \in Simple }
Pairs   == { <<s, t>> : s, t \in Simple }
Inner   == UNION { Bodied(b) : b \in Short }
Outer   == { <<s, c>> : s \in Simple, c \in Inner } \cup { <<c, s>> : s \in Simple, c \in Inner }
             \cup { <<Matching(b)>> : b \in Pairs } \cup { <<c>> : c \in Inner }

Nested  == { stmt \in UNION { Wrapped(b) : b \in Pairs \cup Outer } :
                 "stray" \notin Escapes(stmt) }

\* Programs for what the sets above have no place for.
Special ==
    { Do(Binary("cons", one, x)), Do(Binary("and", x, Not(x))), Do(Binary("or", x, y)),
      Do(Binary("plus", one, one)), Do(Binary("plus", x, one)),
      LetStmt(ListPatt(<<ConstPatt("nil"), IdentPatt("x")>>), x),
      LetStmt(PairPatt(IdentPatt("y"), IdentPatt("x")), x),
      Do(Cond(<<Not(x), x>>, <<Arm("expr", <<Do(nil)>>), Arm("piece", <<Let("x", one), Do(x)>>)>>)),
      Do(If(<<Clause(Not(x), <<Do(nil)>>), Clause(x, <<Do(one)>>)>>, <<Do(x)>>)),
      FnStmt("y", <<IdentPatt("x"), IdentPatt("x")>>, <<Do(x)>>),
      FnStmt("y", <<IdentPatt("y")>>,
             <<FnStmt("x", <<>>, <<Set("y", ListLit(<<y>>)), Do(y)>>), Do(x)>>),
      Let("y", Call(x, <<>>)), Let("y", Call(x, <<one>>)),
      Let("y", Call(FnLit(<<>>, <<Let("x", one)>>), <<>>)),
      Let("y", Call(k, <<ListLit(<<one>>)>>)),
      Do(Call(FnLit(<<ConsPatt("k", <<IdentPatt("y")>>)>>, <<Do(y)>>), <<Call(k, <<x>>)>>)),
      Do(Call(FnLit(<<>>, <<Do(Match(Call(k, <<x>>),
                 <<ConsPatt("x", <<>>), ConsPatt("k", <<IdentPatt("y")>>)>>,
                 <<Arm("expr", <<Do(nil)>>), Arm("expr", <<Do(y)>>)>>))>>), <<>>)),
      Do(For(PairPatt(IdentPatt("x"), IdentPatt("y")), x, <<Set("x", y), Do(x)>>)) }

Probes == { Do(x), Do(Call(y, <<nil>>)), Do(Call(Call(y, <<nil>>), <<>>)),
            Do(Call(FnLit(<<>>, <<Do(y), Do(x)>>), <<>>)) }

Sessions == << Setup, Simple \cup Special \cup Nested, Probes >>

\* Sessions in which a statement fails inside of a block, or ends with a match.
Freely == << { Let("x", true) },
             Nested \cup { Do(Match(x, <<IdentPatt("y")>>, <<Arm("expr", <<Do(y)>>)>>)) },
             { Let("y", one) }, { Do(y) } >>

\* A session in which the void of a for becomes the value of a variable.
Voids == << { Let("x", For(IdentPatt("y"), one, <<Do(nil)>>)) } >>
============================================================================
