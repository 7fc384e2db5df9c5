------------------------------ MODULE MCServerCalls ------------------------------
(* Instances of ServerCalls for TLC. *)
EXTENDS ServerCalls, TLC

Symmetric == Permutations(Calls) \cup Permutations(Handles)
================================================================================
