---------------------------- MODULE Reachability ----------------------------
(***************************************************************************)
(* What "reachable" means for the raven heap: the set a tracing collector  *)
(* has to keep.  A heap graph is a function refs from every address to the *)
(* set of addresses its object points to.                                  *)
(*                                                                         *)
(* The reachable set is defined as the intersection of all the closed sets *)
(* that contain the roots, not by iterating a step: it says what is        *)
(* promised without saying how it is computed, and it can be reasoned      *)
(* about without induction.                                                *)
(***************************************************************************)

\* A set of objects that no pointer leaves.
Closed(S, refs) == \A o \in S : refs[o] \subseteq S

\* The least closed set that contains R.
ReachableFrom(R, refs) ==
    { o \in DOMAIN refs :
        \A S \in SUBSET DOMAIN refs : R \subseteq S /\ Closed(S, refs) => o \in S }

=============================================================================
