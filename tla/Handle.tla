-------------------------------- MODULE Handle --------------------------------
(***************************************************************************)
(* engine.rs: what the local and the pooled engine share about transaction *)
(* handles: the savepoints a handle remembers, the state it is closed      *)
(* with, and what the caller of a statement is answered.                   *)
(***************************************************************************)
EXTENDS Lane

CONSTANTS
    Ids,            \* handle identifiers, a fresh one for every begin
    MaxSavepoints,  \* bound: savepoints set in one handle
    None            \* no handle, no lane, no argument

ASSUME MaxSavepointsAssumption == MaxSavepoints \in Nat

(***************************************************************************)
(* sofar is history: the statements of the handle its caller had had       *)
(* acknowledged when the savepoint was set.                                *)
(***************************************************************************)
SavepointType == [name: Names, sofar: SUBSET Writes]

\* HandleState of a closed handle; "none" was never closed, and "forgotten"
\* was dropped by note_closed once it was handle_expiry old.
ClosedStates == {"none", "committed", "rolled_back", "expired", "lost", "forgotten"}

Answers == {"none", "running", "done", "failed", "unknown", "undone"}

Refuse(p) == {Reply(p, "refused")}

\* track(): a call whose cancellation has already arrived stops here.
Track(p) == {Reply(p, "ok")} \cup (IF "interrupt" \in Faults THEN Refuse(p) ELSE {})

\* rposition and truncate of truncate_savepoints, 0 when check_savepoint fails.
LastNamed(savepoints, name) ==
    LET last == {i \in DOMAIN savepoints :
                    /\ savepoints[i].name = name
                    /\ \A j \in i + 1 .. Len(savepoints) : savepoints[j].name # name}
    IN IF last = {} THEN 0 ELSE CHOOSE i \in last : TRUE

\* What the caller of write w learns from a reply; a refused one can be retried.
AnswerOf(out) ==
    CASE out = "ok" -> "done"
      [] out = "second" -> "running"
      [] out = "unknown" -> "unknown"
      [] out = "refused" -> "none"
      [] OTHER -> "failed"
===============================================================================
