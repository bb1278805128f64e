------------------------------- MODULE Grammar -------------------------------
(***************************************************************************)
(* What the language says of expressions: how a syntax tree is written     *)
(* down, by the table of operators in specs/syntax_specs.md, with no       *)
(* parenthesis that the table makes superfluous, and what it means.        *)
(*                                                                         *)
(* A tree is an operator and its operands.  A value is the tree of what    *)
(* was computed; a choice says which initial values count as true.         *)
(***************************************************************************)
EXTENDS Integers, Sequences, FiniteSets, TLC

\* From lower to higher priority, the left associative operators.
BinaryLevel ==
    "or" :> 2 @@ "and" :> 3 @@ "==" :> 4 @@ "!=" :> 4 @@ "<" :> 5 @@ "<=" :> 5 @@ ">" :> 5 @@ ">=" :> 5
    @@ "+" :> 8 @@ "-" :> 8 @@ "*" :> 9 @@ "/" :> 9 @@ "%" :> 9

Level(tree) ==
    LET op == tree[1]
    IN  CASE op \in {"=", "set"} -> 1
          [] op \in DOMAIN BinaryLevel -> BinaryLevel[op]
          [] op = "::" -> 6
          [] op \in {"not", "neg"} -> 10
          [] op \in {"call", "index"} -> 11
          [] OTHER -> 12

RECURSIVE Text(_)
At(tree, level, text) == IF Level(tree) < level THEN <<"(">> \o text \o <<")">> ELSE text

Text(tree) ==
    LET op == tree[1]
        n  == Level(tree)
        T(i) == Text(tree[i])
        Operand(i, level) == At(tree[i], level, T(i))
    IN  CASE op \in {"name", "number"} -> <<tree[2]>>
          [] op \in {"true", "false", "nil"} -> <<op>>
          [] op = "not"   -> <<"not">> \o Operand(2, n)
          [] op = "neg"   -> <<"-">> \o Operand(2, n)
          [] op = "::"    -> Operand(2, n + 1) \o <<"::">> \o Operand(3, n)
          [] op = "="     -> <<tree[2], "=">> \o T(3)
          [] op = "set"   -> Operand(2, 11) \o <<"[">> \o T(3) \o <<"]", "=">> \o T(4)
          [] op = "index" -> Operand(2, 11) \o <<"[">> \o T(3) \o <<"]">>
          [] op = "call"  -> Operand(2, 11) \o <<"(">> \o T(3) \o <<")">>
          [] op = "array" -> <<"[">> \o T(2) \o <<",">> \o T(3) \o <<"]">>
          [] op = "if"    -> <<"if">> \o T(2) \o <<"do">> \o T(3) \o <<"else">> \o T(4) \o <<"end">>
          [] op = "cond"  -> <<"cond", ":">> \o T(2) \o <<"->">> \o T(3) \o <<",">>
                                \o T(4) \o <<"->">> \o T(5) \o <<"end">>
          [] op = "do"    -> <<"do">> \o T(2) \o T(3) \o <<"end">>
          [] op = "let"   -> <<"do", "let", "x", "=">> \o T(2) \o <<";">> \o T(3) \o <<"end">>
          [] op = "while" -> <<"while", tree[2], "do">> \o T(3) \o <<tree[2], "=", "nil", "end">>
          [] op = "until" -> <<"do", "while", tree[2], "do", tree[2], "=", "nil", "if">> \o T(3)
                                \o <<"do", "continue", ";", "else", "nil", "end">> \o T(4) \o <<"end", "end">>
          [] OTHER -> Operand(2, n) \o <<op>> \o Operand(3, n + 1)

-----------------------------------------------------------------------------
Truthy(value, choice) ==
    CASE value[1] = "initial" -> choice[value[2]]
      [] value[1] \in {"false", "nil"} -> FALSE
      [] OTHER -> TRUE

Negated(value, choice) == IF Truthy(value, choice) THEN <<"false">> ELSE <<"true">>

\* The value of a tree, the values of the variables behind it, and the calls
\* and the stores into arrays in the order they happen.
RECURSIVE Meaning(_, _, _)
Meaning(tree, choice, s) ==
    LET op == tree[1]
        M(i, before) == Meaning(tree[i], choice, before)
        Is(value, after) == [after EXCEPT !.value = value]
        one   == M(2, s)
        two   == M(3, one)
        true  == Truthy(one.value, choice)
        held  == Truthy(s.store[tree[2]], choice)
    IN  CASE op = "name"   -> Is(s.store[tree[2]], s)
          [] op \in {"number", "true", "false", "nil"} -> Is(tree, s)
          [] op = "not"    -> Is(Negated(one.value, choice), one)
          [] op = "neg"    -> Is(<<"neg", one.value>>, one)
          [] op = "and"    -> IF true THEN two ELSE one
          [] op = "or"     -> IF true THEN one ELSE two
          [] op = "="      -> LET r == M(3, s) IN [r EXCEPT !.store[tree[2]] = r.value]
          [] op = "set"    -> LET r == M(4, two)
                              IN  [r EXCEPT !.log = Append(@, <<"set", one.value, two.value, r.value>>)]
          [] op = "call"   -> LET value == <<"call", one.value, two.value>>
                              IN  Is(value, [two EXCEPT !.log = Append(@, value)])
          [] op = "if"     -> IF true THEN two ELSE M(4, one)
          [] op = "cond"   -> IF true THEN two
                              ELSE LET other == M(4, one)
                                   IN  IF Truthy(other.value, choice) THEN M(5, other)
                                       ELSE Is(<<"nil">>, other)
          [] op = "do"     -> two
          [] op = "let"    -> LET r == M(3, [one EXCEPT !.store["x"] = one.value])
                              IN  [r EXCEPT !.store["x"] = s.store["x"]]
          [] op = "while"  -> LET r == IF held THEN M(3, s) ELSE s
                              IN  Is(<<"nil">>, IF held THEN [r EXCEPT !.store[tree[2]] = <<"nil">>] ELSE s)
          [] op = "until"  -> LET c == M(3, [s EXCEPT !.store[tree[2]] = <<"nil">>])
                                  r == IF Truthy(c.value, choice) THEN c ELSE M(4, c)
                              IN  Is(<<"nil">>, IF held THEN r ELSE s)
          [] OTHER -> Is(<<op, one.value, two.value>>, two)

=============================================================================
