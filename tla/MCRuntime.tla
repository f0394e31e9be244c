----------------------------- MODULE MCRuntime ------------------------------
(***************************************************************************)
(* Three tasks and one mutex.  The tasks other than the initial one are    *)
(* interchangeable.                                                        *)
(***************************************************************************)
EXTENDS Runtime, TLC

Symmetry == Permutations(Task \ {Main})
=============================================================================
