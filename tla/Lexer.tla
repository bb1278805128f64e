-------------------------------- MODULE Lexer --------------------------------
(***************************************************************************)
(* The lexer (lexer.c), called by the parser for one token at a time.      *)
(*                                                                         *)
(* A text is a sequence of symbols: a word, a run of digits, or one other  *)
(* character.  A lexer is its text, the position of the next symbol        *)
(* (current), the position where the token begins (start), and the line.   *)
(***************************************************************************)
EXTENDS Integers, Sequences, FiniteSetsExt

\* The words of identifier_type; every other word is an identifier.
Keywords == { "break", "do", "let", "match", "or", "return", "while", "and", "assert", "cond",
              "continue", "end", "else", "false", "fn", "for", "nil", "not", "if", "in",
              "true", "type" }

Digits  == { "0", "1", "25" }

\* Characters no token begins with; "!" is one unless "=" follows.
Strange == { "?", "!", "$", "^", "&", "~" }

\* Characters that are a token by themselves, and those that are one with the
\* character that follows.
OneCharacter == { "+", "*", "/", "%", ".", "@", "|", ",", "(", ")", "[", "]", "{", "}", ";", "\\",
                  "-", "=", "<", ">", ":" }
TwoCharacters == { <<"-", ">">>, <<"=", "=">>, <<"<", "=">>, <<">", "=">>, <<":", ":">>, <<"!", "=">> }
Spelling(c, d) == CASE <<c, d>> = <<"-", ">">> -> "->"
                    [] <<c, d>> = <<"=", "=">> -> "=="
                    [] <<c, d>> = <<"<", "=">> -> "<="
                    [] <<c, d>> = <<">", "=">> -> ">="
                    [] <<c, d>> = <<":", ":">> -> "::"
                    [] <<c, d>> = <<"!", "=">> -> "!="

init_lexer(text) == [text |-> text, current |-> 1, start |-> 1, line |-> 1]

at_end(l) == l.current > Len(l.text)
peek(l)   == IF at_end(l) THEN "" ELSE l.text[l.current]
peek_next(l) == IF l.current >= Len(l.text) THEN "" ELSE l.text[l.current + 1]

\* Fault: the last symbol of the text is taken for its end.
advance_Early(l) == IF l.current >= Len(l.text) THEN l ELSE [l EXCEPT !.current = @ + 1]
advance(l) == IF at_end(l) THEN l ELSE [l EXCEPT !.current = @ + 1]

\* A token is found together with the lexer behind it.
Found(l, type) ==
    [token |-> [type |-> type, lexeme |-> l.text[l.start], line |-> l.line, start |-> l.start],
     lexer |-> l]

\* Where the first of these symbols is, at the lexer or behind it, or else the end.
Upto(l, symbols) ==
    LET found == { p \in l.current..Len(l.text) : l.text[p] \in symbols }
    IN  [l EXCEPT !.current = Min(found \cup {Len(l.text) + 1})]

\* Fault: the end of a comment is not counted as a line.
skip_Comment(l) ==
    CASE peek(l) = " "  -> advance(l)
      [] peek(l) = "\n" -> advance([l EXCEPT !.line = @ + 1])
      [] peek(l) = "#"  -> advance(Upto(l, {"\n"}))
      [] OTHER -> l

\* A turn of the loop of skip_whitespace.
skip(l) ==
    CASE peek(l) = " "  -> advance(l)
      [] peek(l) = "\n" -> advance([l EXCEPT !.line = @ + 1])
      [] peek(l) = "#"  -> Upto(l, {"\n"})
      [] OTHER -> l

\* No turn is without a symbol until the last, so that there are enough.
skip_whitespace(l) ==
    LET turns == Len(l.text) + 1 - l.current
        turn[k \in 0..turns] == IF k = 0 THEN l ELSE skip(turn[k - 1])
    IN  turn[turns]

\* A string ends on its line, or it is an error token and the rest of the line
\* is skipped with it.
string(l) == LET m == Upto(l, {"'", "\n"})
             IN  IF peek(m) = "'" THEN Found(advance(m), "string") ELSE Found(m, "error")

\* A run of digits, and another one behind a dot.
number(l) ==
    Found(IF peek(l) = "." /\ peek_next(l) \in Digits THEN advance(advance(l)) ELSE l, "number")

next_token(lexer) ==
    LET s == skip_whitespace(lexer)
        l == [s EXCEPT !.start = s.current]
        c == peek(l)
        m == advance(l)
    IN  IF at_end(l)
        THEN [token |-> [type |-> "eof", lexeme |-> "", line |-> l.line, start |-> l.start],
              lexer |-> l]
        ELSE CASE <<c, peek(m)>> \in TwoCharacters -> Found(advance(m), Spelling(c, peek(m)))
               [] <<c, peek(m)>> \notin TwoCharacters /\ c \in OneCharacter -> Found(m, c)
               [] c = "'"       -> string(m)
               [] c \in Keywords -> Found(m, c)
               [] c \in Digits  -> number(m)
               [] <<c, peek(m)>> \notin TwoCharacters /\ c \in Strange -> Found(m, "error")
               [] OTHER -> Found(m, "name")

=============================================================================
