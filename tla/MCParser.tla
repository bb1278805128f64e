------------------------------ MODULE MCParser ------------------------------
(* Instances of Parser.  *)
EXTENDS Parser

\* Tokens as a text: between blanks, each on its line, or each with a comment.
Characters(token) ==
    CASE token = "->" -> <<"-", ">">>
      [] token = "==" -> <<"=", "=">>
      [] token = "<=" -> <<"<", "=">>
      [] token = "!=" -> <<"!", "=">>
      [] token = "::" -> <<":", ":">>
      [] OTHER -> <<token>>
Spaced(tokens)    == FlattenSeq([i \in DOMAIN tokens |-> Characters(tokens[i]) \o <<" ">>])
Lined(tokens)     == FlattenSeq([i \in DOMAIN tokens |-> Characters(tokens[i]) \o <<"\n">>])
Commented(tokens) == FlattenSeq([i \in DOMAIN tokens |-> Characters(tokens[i]) \o <<"#", "a", "\n", "\n">>])

Source(text) == [text |-> text, globals |-> <<>>, tree |-> <<"nil">>, written |-> FALSE]
Written(tree) == [text |-> Spaced(G!Text(tree)), globals |-> <<>>, tree |-> tree, written |-> TRUE]

-----------------------------------------------------------------------------
(* Trees: every construct around every other.                                *)
a == <<"name", "a">>
b == <<"name", "b">>

\* Constructs with one, two, three and four operands.
One(t)     == { <<"not", t>>, <<"neg", t>>, <<"=", "a", t>>, <<"while", "c", t>> }
Two(t, u)  == { <<op, t, u>> : op \in {"or", "and", "==", "<", "::", "+", "-", "*", "index", "call", "array"} }
              \cup (IF Head(G!Text(u)) \in {"(", "[", "-"} THEN {} ELSE { <<"do", t, u>>, <<"until", "c", t, u>> })
Three(t, u, v) == { <<"if", t, u, v>>, <<"set", t, u, v>> }
Four(t, u, v, w) == { <<"cond", t, u, v, w>> }

Small == {a, <<"number", "1">>} \cup One(b) \cup Two(a, b) \cup Three(a, b, a) \cup Four(a, b, b, a)

T1 == UNION { One(t) : t \in Small }
T2 == UNION { Two(t, u) : t, u \in Small }
T3 == UNION { Three(t, a, b) \cup Three(a, t, b) \cup Three(b, a, t) : t \in Small }
T4 == UNION { Four(t, a, a, b) \cup Four(b, t, a, b) \cup Four(a, b, t, a) \cup Four(b, a, a, t) : t \in Small }
T5 == UNION { { <<"let", t, u>>, <<"let", t, <<"+", <<"name", "x">>, u>> >>,
         <<"let", t, <<"=", "x", u>> >> } : t \in Small, u \in {a, b, <<"number","1">>} }
Trees == T1 \cup T2 \cup T3 \cup T4 \cup T5

-----------------------------------------------------------------------------
(* Any sequence of tokens.                                                   *)
Tokens == {"a", "1", "=", "and", "(", ")", "do", "end", "let", "fn", ";", "->", "while", "?"}
Sequences3 == UNION { [1..n -> Tokens] : n \in 1..3 }
EmptyBlock(tokens) ==
    \E i \in 1..(Len(tokens) - 1) :
                        /\ tokens[i] = "do" /\ Contains(SubSeq(tokens, i, Len(tokens)), "end")

-----------------------------------------------------------------------------
(* Statements in blocks, loops and functions.                                *)
Statements == { <<"a">>, <<"let", "x", "=", "1", ";">>, <<"let", "y", ";">>, <<"x", "=", "b">>,
                <<"f", "=", "->", "x">>, <<"assert", "x", ";">>, <<"return", "a", ";">> }
Enclosed(body) ==
    { <<"do">> \o body \o <<"end">>,
      <<"while", "a", "do">> \o body \o <<"end">>,
      <<"do", "while", "a", "do", "if", "b", "do", "continue", ";", "end">> \o body \o <<"end", "end">>,
      <<"do", "while", "a", "do">> \o body \o <<"continue", ";", "end", "end">>,
      <<"if", "a", "do">> \o body \o <<"end">>,
      <<"if", "a", "do">> \o body \o <<"else">> \o body \o <<"end">>,
      <<"cond", ":", "a", "->", "do">> \o body \o <<"end", "end">>,
      <<"fn", "f", "(", "x", ")">> \o body \o <<"end">>,
      <<"let", "y", "=", "\\", "x", ",", "y", "->", "do">> \o body \o <<"end", ";">> }
Once  == UNION { Enclosed(s \o t) : s, t \in Statements }
Twice == UNION { Enclosed(s \o t \o r) : s \in Statements, r \in { <<"a">>, <<"let", "y", ";">> }, t \in
                   UNION { Enclosed(s) : s \in { <<"let", "x", "=", "a", ";">>, <<"f", "=", "->", "x">> } } }

-----------------------------------------------------------------------------
(* Programs at the limits, and past them.                                    *)
Again(n, tokens) == FlattenSeq([i \in 1..n |-> tokens])
Named(n, F(_))   == FlattenSeq([i \in 1..n |-> F("v" \o ToString(i))])
AtLimits ==
    UNION { { <<"[", "nil">> \o Again(n, <<",", "nil">>) \o <<"]">>,
              <<"{", "k", ":", "nil">> \o Again(n, <<",", "k", ":", "nil">>) \o <<"}">>,
              <<"a", "(", "nil">> \o Again(n, <<",", "nil">>) \o <<")">>,
              <<"1">> \o Again(n, <<"+", "1">>),
              Named(n, LAMBDA v : <<v>>),
              <<"do">> \o Named(n, LAMBDA v : <<"let", v, ";">>) \o <<"a", "end">>,
              <<"fn", "f", "(", "x">> \o Named(n, LAMBDA v : <<",", v>>) \o <<")", "x", "end">>,
              <<"fn", "f", "(", "v1", ",", "v2", ",", "v3", ")", "->">>
                  \o Named(n, LAMBDA v : <<v, "+">>) \o <<"a", "end">>,
              <<"cond", ":", "a", "->", "b">> \o Again(n, <<",", "a", "->", "b">>) \o <<"end">>,
              <<"if", "a", "do", "a">> \o Again(10 * n, <<"b">>) \o <<"end">>,
              <<"while", "a", "do", "a">> \o Again(10 * n, <<"b">>) \o <<"end">>
            } : n \in 0..6 }

-----------------------------------------------------------------------------
(* The operand of an instruction is taken for an opcode: the index of the    *)
(* 26th global is the number of OP_INDEX_GET.                                *)
(*                                                                           *)
(* Other programs that are kept out of the sets above break Verified too:    *)
(* an assignment behind "and" or "or", which takes back bytes a jump leads   *)
(* behind, and continue where a local is as deep as the loop, slot 0         *)
(* included.  A block of five locals and an empty block at the beginning of  *)
(* a chunk break Intact.                                                     *)
Registered == [i \in 1..25 |-> "g" \o ToString(i)]
Operands   == { [Source(Spaced(<<"b", "=", "nil">>)) EXCEPT !.globals = Registered] }

\* A block is taken back that ends on another line than it began on: the entry of
\* its last line stays in the table, before those of the line it began on.
BehindALine == { Source(<<"do", "(", "a", "\n", ")", "end", "=", "1">>) }

-----------------------------------------------------------------------------
Checked == { Written(t) : t \in Trees }
           \cup { Source(Lined(t)) : t \in { s \in Sequences3 : ~EmptyBlock(s) } \cup Once }
           \cup { Source(Commented(t)) : t \in Twice }
           \cup { Source(Spaced(t)) : t \in AtLimits }
=============================================================================
