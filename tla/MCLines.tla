------------------------------ MODULE MCLines ------------------------------
(* Instances of Lines: every text of up to three symbols, and some that are  *)
(* longer, with lines of every kind.                                         *)
EXTENDS Lines

Symbols == { "a", "\n", "#", "'", "-", ">" }

Longer == { <<"a", "\n", "a", "\n", "a", "a">>, <<"a", "#", "a", "\n", " ", "a", "\n", "\n", "a">>,
            <<"1", ".", "25", "\n", "'", "a", "\n", "?", "!", "=">> }

AllTexts == UNION { [1..n -> Symbols] : n \in 0..3 } \cup Longer
=============================================================================
