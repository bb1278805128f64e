------------------------------- MODULE Lines --------------------------------
(***************************************************************************)
(* The way of a line number from the text to the error message: the lexer  *)
(* counts it (lexer.c), the compiler writes it with each byte (compiler.c) *)
(* and the table of lines gives it back (chunk.c).                         *)
(*                                                                         *)
(* Of the compiler there is what matters to lines: it reads one token      *)
(* ahead, writes every byte with the line of the token before that one, to *)
(* the chunk of the innermost function, and takes bytes back.  Which       *)
(* tokens and which bytes they are is the subject of Parser; here it is    *)
(* any of them.                                                            *)
(***************************************************************************)
EXTENDS Lexer, Chunk, FiniteSets

CONSTANTS Texts,         \* what may be compiled
          Opcodes,       \* the bytes
          MaxBytes,      \* bound on the bytes of a chunk
          MaxFunctions   \* bound on the functions in one another

ASSUME TextAssumption == \A text \in Texts : text \in Seq(STRING)

VARIABLES lexer,      \* behind the token that was read last
          current,    \* that token
          previous,   \* the one before
          chunks,     \* of the functions that are compiled, the innermost last
          left        \* ghost: those whose table has kept an entry for bytes
                      \* that were taken back, and have begun before it again

vars == <<lexer, current, previous, chunks, left>>

-----------------------------------------------------------------------------

NoToken == [type |-> "none", lexeme |-> "", line |-> 1, start |-> 1]

Init == /\ \E text \in Texts : lexer = init_lexer(text)
        /\ current = NoToken /\ previous = NoToken
        /\ chunks = <<init_chunk>> /\ left = {}

Read == LET found == next_token(lexer)
        IN  lexer' = found.lexer /\ current' = found.token

\* advance(); a token that is an error is read over.
Advance == /\ current.type # "error"
           /\ previous' = current /\ Read
           /\ UNCHANGED <<chunks, left>>

ReadOver == /\ current.type = "error"
            /\ Read
            /\ UNCHANGED <<previous, chunks, left>>

\* Between two calls of advance, the first of which comes before everything.
Reading == current.type # "error" /\ previous.type # "none"

Here == Last(chunks)
SetHere(chunk) == chunks' = [chunks EXCEPT ![Len(chunks)] = chunk]

Write(byte) == /\ Reading /\ Count(Here) < MaxBytes
               /\ SetHere(write_byte(Here, byte, previous))
               /\ UNCHANGED <<lexer, current, previous, left>>

\* An entry of the table may begin behind the bytes that are kept.
TakeBack(n) == /\ Reading /\ n <= Count(Here)
               /\ SetHere(Without(Here, n))
               /\ left' = IF Settled(Here, n) THEN left ELSE left \cup {Len(chunks)}
               /\ UNCHANGED <<lexer, current, previous>>

Function == /\ Reading /\ Len(chunks) < MaxFunctions
            /\ chunks' = Append(chunks, init_chunk)
            /\ UNCHANGED <<lexer, current, previous, left>>

EndFunction == /\ Reading /\ Len(chunks) > 1
               /\ chunks' = Front(chunks) /\ left' = left \ {Len(chunks)}
               /\ UNCHANGED <<lexer, current, previous>>

Next == \/ Advance \/ ReadOver
        \/ \E byte \in Opcodes : Write(byte)
        \/ \E n \in 1..MaxBytes : TakeBack(n)
        \/ Function \/ EndFunction

Spec == Init /\ [][Next]_vars

-----------------------------------------------------------------------------
(* Properties                                                                *)

Line  == Nat \ {0}
Entry == [line : Line, offset : Nat]

TokenTypes == OneCharacter \cup { Spelling(p[1], p[2]) : p \in TwoCharacters } \cup Keywords
                \cup {"string", "number", "name", "error", "eof"}

\* The symbol at a position, or nothing behind the last one.
Symbol(text, p) == IF p = Len(text) + 1 THEN "" ELSE text[p]

\* A token of the text.
IsToken(text, token) ==
    /\ token = [type |-> token.type, lexeme |-> token.lexeme, line |-> token.line, start |-> token.start]
    /\ token.type \in TokenTypes
    /\ token.line \in Line /\ token.start \in 1..(Len(text) + 1)
    /\ token.lexeme = Symbol(text, token.start)

\* A chunk; its constants and instructions are those of Parser.
Code == [opcodes : Seq(Opcodes), lines : Seq(Entry), constants : {<<>>},
         at : Seq(Line), starts : {{}}, landed : {{}}]

\* Type invariant: the lexer is in its text, the tokens are of it, and of every
\* byte it is known what token it was written for.
TypeOK ==
    /\ lexer.text \in Texts /\ lexer.line \in Line
    /\ {lexer.current, lexer.start} \subseteq 1..(Len(lexer.text) + 1)
    /\ \A token \in {current, previous} : token = NoToken \/ IsToken(lexer.text, token)
    /\ chunks \in Seq(Code) /\ chunks # <<>>
    /\ \A k \in DOMAIN chunks : Len(chunks[k].at) = Count(chunks[k])
    /\ left \subseteq DOMAIN chunks

\* The line of a position of the text.
LineAt(text, position) == 1 + Cardinality({ n \in 1..(position - 1) : text[n] = "\n" })

\* The lexer counts every line once: a token has the line it begins in, behind
\* any comments, strings that do not end, and characters that are no token.
TokensTrue == \A token \in {current, previous} : token.line = LineAt(lexer.text, token.start)

\* Tokens do not overlap, and each takes something from the text, so that the
\* loops of the parser get to the end of it: next_token reads what is behind the last
\* one and no symbol twice.
TokensAdvance ==
    [][lexer' # lexer =>
        \/ current'.type = "eof"
        \/ lexer.current <= current'.start /\ current'.start < lexer'.current]_vars

\* A run-time error names a line by the offset of its instruction: decode_line
\* gives, for every byte, the line of the token it was written for, although the table
\* has one entry for many bytes and keeps the entries of bytes that were taken back.
\* It is so while no entry is left in front of the bytes that are written next; that
\* the compiler keeps to this, but for one kind of program, is Intact of Parser.
LinesTrue ==
    \A k \in DOMAIN chunks \ left : \A o \in 0..(Count(chunks[k]) - 1) :
        decode_line(chunks[k], o) = LineAt(lexer.text, chunks[k].at[o + 1])

\* Whatever was taken back, and in whatever order the entries are then, the loop of
\* decode_line ends for every byte, and at an entry of the table that begins at
\* or before it.
DecodeEnds ==
    \A k \in DOMAIN chunks : \A o \in 0..(Count(chunks[k]) - 1) :
        \E i \in DOMAIN chunks[k].lines :
            /\ chunks[k].lines[i].offset <= o
            /\ i < Len(chunks[k].lines) => o < chunks[k].lines[i + 1].offset
            /\ decode_line(chunks[k], o) = chunks[k].lines[i].line

=============================================================================
