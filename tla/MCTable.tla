------------------------------- MODULE MCTable -------------------------------
(***************************************************************************)
(* A small instance of Table: string objects of which two have the same    *)
(* characters, hashes that collide in a table of 4 entries and in one of 8 *)
(* and whose chains go round the end of the array.                         *)
(***************************************************************************)
EXTENDS Table

CONSTANTS s1, s2, s3, s4, s5, c1, c2, c3, c4

MCKey == {s1, s2, s3, s4, s5}
MCContent == {c1, c2, c3, c4}

MCChars == [k \in MCKey |->
    CASE k = s1 -> c1 [] k = s2 -> c2 [] k = s3 -> c3 [] k \in {s4, s5} -> c4]

MCHash == [c \in MCContent |->
    CASE c = c1 -> 3 [] c = c2 -> 7 [] c = c3 -> 3 [] c = c4 -> 0]

=============================================================================
