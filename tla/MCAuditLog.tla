------------------------------ MODULE MCAuditLog ------------------------------
(***************************************************************************)
(* Instances of AuditLog for TLC: two processes with one audit path, the   *)
(* first with two threads; or one process with two threads.                *)
(***************************************************************************)
EXTENDS AuditLog, TLC

CONSTANTS s1, s2, c1, c2, c3, path

Runs == [c \in Calls |-> IF c = c3 THEN s2 ELSE s1]
Paths == [s \in Servers |-> path]

Symmetry == Permutations(Files) \cup Permutations(Calls \ {c3})
===============================================================================
