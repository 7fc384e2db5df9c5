---------------------------- MODULE MCPooledEngine ----------------------------
(***************************************************************************)
(* Instances of PooledEngine for TLC: calls a1 and a2 are made by one      *)
(* principal, b1 by another.                                               *)
(***************************************************************************)
EXTENDS PooledEngine, TLC

CONSTANTS alice, bob, b1

Callers == [c \in Calls |-> IF c = b1 THEN bob ELSE alice]

Symmetry == Permutations(Slots) \cup Permutations(Ids) \cup Permutations(Writes)
            \cup Permutations(Calls \ {b1})
===============================================================================
