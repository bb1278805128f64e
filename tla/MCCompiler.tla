----------------------------- MODULE MCCompiler -----------------------------
(***************************************************************************)
(* Small instances of Compiler.  Names are interchangeable.                *)
(***************************************************************************)
EXTENDS Compiler, TLC

Symmetry == Permutations(Name)

=============================================================================
