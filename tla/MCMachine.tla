------------------------------ MODULE MCMachine ------------------------------
(***************************************************************************)
(* Small instances of Machine.  Addresses are interchangeable.             *)
(***************************************************************************)
EXTENDS Machine, TLC

Symmetry == Permutations(Object)

\* The bound of the rooted run: the last address is in use only while an upvalue is
\* open.  (Three hold a script, a closure and its upvalue; the fourth is for another
\* closure that captures the variable, or for the script behind a run-time error.)
LastForUpvalues == heap = Object => open_upvalues # {}

=============================================================================
