---------------------------- MODULE MCLocalEngine ----------------------------
(***************************************************************************)
(* Instances of LocalEngine for TLC.                                       *)
(***************************************************************************)
EXTENDS LocalEngine, TLC

Symmetry == Permutations(Tasks) \cup Permutations(Ids) \cup Permutations(Writes)
            \cup Permutations(Cursors)
===============================================================================
