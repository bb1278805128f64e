----------------------------- MODULE MCClosures -----------------------------
(***************************************************************************)
(* Small instances of Closures.                                            *)
(***************************************************************************)
EXTENDS Closures, TLC

\* Values, closures and upvalues are interchangeable.
Symmetry ==
    Permutations(Plain) \cup Permutations(Closure) \cup Permutations(Upvalue)

=============================================================================
