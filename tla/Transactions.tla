----------------------------- MODULE Transactions -----------------------------
(***************************************************************************)
(* What both engines of engine.rs promise of transaction handles, without  *)
(* connections, mutexes, savepoints or pools.  LocalEngine and             *)
(* PooledEngine are shown to implement it.                                 *)
(*                                                                         *)
(* A handle is open from its begin until it leaves (a commit, a rollback,  *)
(* a sweep, a shutdown or a lost connection takes it out of reach), and    *)
(* then it ends, once.  The writes its caller was told are done become     *)
(* durable together or not at all.  Handles move independently, and one    *)
(* step of an engine may move several: a sweep expires every due one.      *)
(***************************************************************************)
CONSTANTS
    Ids,        \* handle identifiers
    Writes      \* data-changing statements, each issued at most once

VARIABLES
    phase,      \* "fresh", "open", "leaving", then how it ended, then "forgotten"
    issued,     \* the writes sent in each handle
    done,       \* those of them that were answered as done and not undone
    durable     \* what the server has made durable, in a handle or outside any

vars == << phase, issued, done, durable >>

Init ==
    /\ phase = [i \in Ids |-> "fresh"]
    /\ issued = [i \in Ids |-> {}]
    /\ done = [i \in Ids |-> {}]
    /\ durable = {}

-------------------------------------------------------------------------------
(* What one handle does in a step                                          *)

InReach(i) == phase[i] \in {"open", "leaving"}

\* Of the writes sent in handle i, those this step makes durable.
Gains(i) == {w \in durable' \ durable : w \in issued'[i]}

\* A write may be sent, or taken back because it never started, in any step;
\* one that has taken effect is not sent again.
Sends(i) ==
    /\ done'[i] \subseteq issued'[i]
    /\ \A w \in durable' : w \in issued'[i] => w \in issued[i]

Keeps(i) == Sends(i) /\ done'[i] = done[i] /\ Gains(i) = {}

Rest(i) == phase'[i] = phase[i] /\ Keeps(i)

Begin(i) == phase[i] = "fresh" /\ phase'[i] = "open" /\ Keeps(i)

(***************************************************************************)
(* A write is answered as done, or rollback_to undoes some.  A call that   *)
(* already waits when its handle is rolled back may still be answered, if  *)
(* the ROLLBACK itself was interrupted; nothing of it becomes durable.     *)
(***************************************************************************)
Work(i) ==
    /\ phase[i] \notin {"fresh", "committed"} /\ phase'[i] = phase[i]
    /\ (done[i] \cup done'[i]) \cap durable' = {}
    /\ Sends(i) /\ Gains(i) = {}

Leave(i) == phase[i] = "open" /\ phase'[i] = "leaving" /\ Keeps(i)

\* The server commits.  The caller may not learn of it.
Commit(i) ==
    /\ InReach(i) /\ phase'[i] \in {"leaving", "committed", "lost"}
    /\ Sends(i) /\ done'[i] = done[i]
    /\ Gains(i) = done[i]

\* What is on record is what became of the work.
End(i) ==
    /\ InReach(i)
    /\ \/ phase'[i] = "committed" /\ done[i] \subseteq durable'
       \/ phase'[i] \in {"rolled_back", "expired"} /\ done[i] \cap durable' = {}
       \/ phase'[i] = "lost"
    /\ Keeps(i)

Forget(i) ==
    /\ phase[i] \in {"committed", "rolled_back", "expired", "lost"}
    /\ phase'[i] = "forgotten" /\ Keeps(i)

Step(i) ==
    \/ Rest(i) \/ Begin(i) \/ Work(i)
    \/ Leave(i) \/ Commit(i) \/ End(i) \/ Forget(i)

Next ==
    /\ durable \subseteq durable'
    /\ \A i \in Ids : Step(i)

Spec == Init /\ [][Next]_vars

-------------------------------------------------------------------------------
(***************************************************************************)
(* What this amounts to: of the writes sent in a handle either none is     *)
(* durable or exactly those its caller believes in, and the state a status *)
(* call reports of an ended handle says which.                             *)
(***************************************************************************)
Kept(i) == issued[i] \cap durable

AllOrNothing ==
    \A i \in Ids :
        /\ Kept(i) = {} \/ Kept(i) = done[i]
        /\ phase[i] = "committed" => Kept(i) = done[i]
        /\ phase[i] \in {"fresh", "open", "rolled_back", "expired"} => Kept(i) = {}
===============================================================================
