------------------------------ MODULE MCMemory ------------------------------
(***************************************************************************)
(* Small instances of Memory.  The configuration gives no symmetry:        *)
(* CollectionEnds is a liveness property, for which TLC may not use one.   *)
(***************************************************************************)
EXTENDS Memory, TLC

=============================================================================
