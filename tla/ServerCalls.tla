------------------------------ MODULE ServerCalls ------------------------------
(***************************************************************************)
(* The call pipeline (server/mod.rs): what Server::call does before and    *)
(* after a tool runs, the sweeper task, the audit writer's tasks and the   *)
(* shutdown, all on their own.                                             *)
(*                                                                         *)
(* The tool and the engine are one step, Execute: its effect on handles    *)
(* and changes is what LocalEngine and PooledEngine show it to be.  The    *)
(* audit log is reduced to whether it can be written; AuditLog has the     *)
(* rest.                                                                   *)
(***************************************************************************)
EXTENDS Naturals, Sequences, FiniteSets, SequencesExt

CONSTANTS
    Calls, Principals, Handles,
    Ops,           \* the tools called: a subset of AllOps
    ParkCap,       \* PARKED_INVALIDATION_CAP
    EndedCap,      \* ENDED_HANDLE_CAP of the engine
    RefusesReads,  \* audit_on_failure = refuse-all
    RefusesWrites, \* audit_on_failure is not continue
    DiskFails,     \* lines may be lost
    Deadlines,     \* a shutdown may meet its deadline
    None

AllOps == {"read", "begin", "commit", "rollback", "ddl", "restore"}

ASSUME ServerAssumption ==
    /\ Ops \subseteq AllOps
    /\ ParkCap \in Nat \ {0} /\ EndedCap \in Nat \ {0}
    /\ RefusesReads \in BOOLEAN /\ RefusesWrites \in BOOLEAN
    /\ DiskFails \in BOOLEAN /\ Deadlines \in BOOLEAN
    /\ IsFiniteSet(Handles) /\ None \notin Calls \cup Principals \cup Handles

VARIABLES
    pc,         \* each call: its request, its outcome and where it is in `call`
    handles,    \* the engine's handles: state and owner
    ended,      \* the engine's queue of handles that ended by themselves
    parked,     \* parked_invalidations, oldest first
    announced,  \* changes whose resources subscribers were told of
    pending,    \* audit lines handed to blocking tasks and not yet written
    log,        \* the lines in the audit file
    missed,     \* the lines that could not be written: counted, and the log degraded
    degraded,   \* whether the audit log is
    server      \* "up", the stages of shutdown, or "gone"; whether a deadline cut the
                \* shutdown short, and the calls it found at work

vars == <<pc, handles, ended, parked, announced, pending, log, missed,
          degraded, server>>

engineVars == <<handles, ended>>
auditVars == <<pending, log, missed>>
-------------------------------------------------------------------------------
\* A call's line, and the server's line for a handle nobody ended.
CallLine(c) == [of |-> c, who |-> pc[c].who]
EndLine(h, who) == [of |-> h, who |-> who]

NoOutcome == [kind |-> "none", handle |-> None, dry |-> FALSE]
Output(h, dry) == [kind |-> "output", handle |-> h, dry |-> dry]
Failure == [kind |-> "error", handle |-> None, dry |-> FALSE]
Asked == [kind |-> "asked", handle |-> None, dry |-> FALSE]

New == [at |-> "new", op |-> "read", who |-> None, handle |-> None, dry |-> FALSE,
        out |-> NoOutcome, after |-> {}]

Init ==
    /\ pc = [c \in Calls |-> New]
    /\ handles = [h \in Handles |-> [state |-> "unused", who |-> None]]
    /\ ended = <<>> /\ parked = <<>>
    /\ announced = {}
    /\ pending = {} /\ log = {} /\ missed = {}
    /\ degraded = FALSE
    /\ server = [at |-> "up", late |-> FALSE, inflight |-> {}]

Running == server.at # "gone"
Busy(c) == pc[c].at \notin {"new", "done"}
Goto(c, at) == pc' = [pc EXCEPT ![c].at = at]
Return(c, out) == pc' = [pc EXCEPT ![c].at = "returned", ![c].out = out]

ReadOnly(op) == op = "read"
Writes(op) == op \in {"ddl", "restore"}

\* A queue with a cap drops its oldest entries.
Newest(q, cap) == IF Len(q) <= cap THEN q ELSE SubSeq(q, Len(q) - cap + 1, Len(q))

\* The changes whose call had come back: noted when a commit is called.
Settled == {d \in Calls : pc[d].at = "done" /\ pc[d].out.kind = "output" /\ Writes(pc[d].op)}

(***************************************************************************)
(* A client's call.  A token without the tool's scope, and a log that      *)
(* cannot be written, refuse it before the tool runs.                      *)
(***************************************************************************)
Refuses(op) == IF ReadOnly(op) THEN RefusesReads ELSE RefusesWrites

Arrive(c) ==
    /\ server.at = "up" /\ pc[c].at = "new"
    /\ \E op \in Ops, who \in Principals, h \in Handles \cup {None}, dry, inScope \in BOOLEAN :
         LET admitted == inScope /\ ~(degraded' /\ Refuses(op))
         IN  /\ op \in {"commit", "rollback"} => h # None
             /\ op \notin {"commit", "rollback", "ddl"} => h = None
             /\ dry => op = "ddl" /\ h # None
             /\ h # None => handles[h].state # "unused"
             \* audit_admits tries to close the gap first
             /\ degraded' \in IF ~inScope THEN {degraded}
                             ELSE IF DiskFails THEN {FALSE, degraded} ELSE {FALSE}
             /\ pc' = [pc EXCEPT ![c] =
                  [at |-> IF admitted THEN "working" ELSE "returned",
                   op |-> op, who |-> who, handle |-> h, dry |-> dry,
                   out |-> IF admitted THEN NoOutcome ELSE Failure,
                   after |-> IF op = "commit" THEN Settled ELSE {}]]
    /\ UNCHANGED <<engineVars, parked, announced, auditVars, server>>

(***************************************************************************)
(* The tool.  Any statement may fail; when the client cancels the call the *)
(* engine is told and the tool still waited for, so it fails or it does    *)
(* not, as it would have anyway.                                           *)
(***************************************************************************)
Fails(c) ==
    /\ Return(c, Failure)
    /\ UNCHANGED engineVars

Mine(c, h) == handles[h].state = "open" /\ handles[h].who = pc[c].who

Begins(c) ==
    /\ pc[c].op = "begin"
    /\ \E h \in Handles :
         /\ handles[h].state = "unused"
         /\ handles' = [handles EXCEPT ![h] = [state |-> "open", who |-> pc[c].who]]
         /\ Return(c, Output(h, FALSE))
    /\ UNCHANGED ended

Ends(c) ==
    LET h == pc[c].handle
    IN  /\ pc[c].op \in {"commit", "rollback"}
        /\ Mine(c, h)
        /\ handles' = [handles EXCEPT ![h].state = IF pc[c].op = "commit" THEN "committed"
                                                   ELSE "rolled_back"]
        /\ Return(c, Output(h, FALSE))
        /\ UNCHANGED ended

Changes(c) ==
    LET h == pc[c].handle
    IN  /\ pc[c].op \in {"ddl", "restore"}
        /\ h # None => Mine(c, h)
        /\ Return(c, Output(h, pc[c].dry))
        /\ UNCHANGED engineVars

Reads(c) ==
    /\ pc[c].op = "read"
    /\ Return(c, Output(None, FALSE))
    /\ UNCHANGED engineVars

\* A destructive statement may first be handed back to be confirmed.
Asks(c) ==
    /\ pc[c].op \in {"ddl", "restore"}
    /\ Return(c, Asked)
    /\ UNCHANGED engineVars

Execute(c) ==
    /\ Running /\ pc[c].at = "working"
    /\ Begins(c) \/ Ends(c) \/ Changes(c) \/ Reads(c) \/ Asks(c) \/ Fails(c)
    /\ UNCHANGED <<parked, announced, auditVars, degraded, server>>

-------------------------------------------------------------------------------
(***************************************************************************)
(* After the tool: the audit line and the lines of the handles that ended  *)
(* meanwhile, one per handle, are handed over; nothing another task does   *)
(* between the two can be told apart.  Then the resources that changed.    *)
(***************************************************************************)
RecordEnded(others) ==
    /\ ended' = <<>>
    /\ pending' = pending \cup others \cup {EndLine(ended[i].handle, ended[i].who) : i \in DOMAIN ended}
    /\ UNCHANGED <<handles, log, missed>>

RecordToolCall(c) ==
    /\ Running /\ pc[c].at = "returned"
    /\ RecordEnded(IF pc[c].out = Asked THEN {} ELSE {CallLine(c)})
    /\ Goto(c, IF pc[c].out.kind = "output" THEN "recorded" ELSE "done")
    /\ UNCHANGED <<parked, announced, degraded, server>>

EntriesOf(q, h) == {i \in DOMAIN q : q[i].handle = h}
Without(q, h) ==
    IF EntriesOf(q, h) = {} THEN q
    ELSE RemoveAt(q, CHOOSE i \in EntriesOf(q, h) : \A j \in EntriesOf(q, h) : i <= j)

ParkInEntry(q, h, c) ==
    [i \in DOMAIN q |-> IF q[i].handle = h THEN [q[i] EXCEPT !.changes = @ \cup {c}] ELSE q[i]]

Park(q, h, c) ==
    IF EntriesOf(q, h) # {} THEN ParkInEntry(q, h, c)
    ELSE Newest(Append(q, [handle |-> h, changes |-> {c}]), ParkCap)

ParkedFor(q, h) == UNION {q[i].changes : i \in EntriesOf(q, h)}

\* What take_parked_invalidation found is announced after a commit alone.
PublishedAnyway(op, changes) == changes
Published(op, changes) == IF op = "commit" THEN changes ELSE {}

Announce(c) ==
    LET h == pc[c].out.handle
        shown == ~pc[c].out.dry
    IN  /\ Running /\ pc[c].at = "recorded"
        /\ CASE shown /\ pc[c].op = "restore" ->
                  announced' = announced \cup {c} /\ UNCHANGED parked
             [] shown /\ pc[c].op = "ddl" /\ h = None ->
                  announced' = announced \cup {c} /\ UNCHANGED parked
             [] shown /\ pc[c].op = "ddl" /\ h # None ->
                  parked' = Park(parked, h, c) /\ UNCHANGED announced
             [] shown /\ pc[c].op \in {"commit", "rollback"} ->
                  /\ parked' = Without(parked, h)
                  /\ announced' = announced \cup Published(pc[c].op, ParkedFor(parked, h))
             [] OTHER -> UNCHANGED <<parked, announced>>
        /\ Goto(c, "done")
        /\ UNCHANGED <<engineVars, auditVars, degraded, server>>
-------------------------------------------------------------------------------
\* A blocking task of the audit writer runs Sink::record.
WriteLine(l) ==
    /\ Running /\ l \in pending
    /\ pending' = pending \ {l}
    /\ \/ log' = log \cup {l} /\ degraded' = FALSE /\ UNCHANGED missed
       \/ DiskFails /\ missed' = missed \cup {l} /\ degraded' = TRUE /\ UNCHANGED log
    /\ UNCHANGED <<pc, engineVars, parked, announced, server>>

\* The engine rolls a handle back at its deadline (or finds its
\* connection lost: the pipeline treats both alike).
EndByItself(h) ==
    /\ server.at = "up" \/ (Running /\ \E c \in Calls : pc[c].at = "working")
    /\ handles[h].state = "open"
    /\ handles' = [handles EXCEPT ![h].state = "expired"]
    /\ ended' = Newest(Append(ended, [handle |-> h, who |-> handles[h].who]), EndedCap)
    /\ UNCHANGED <<pc, parked, announced, auditVars, degraded, server>>

\* The sweeper's turn; its engine.sweep() is EndByItself.
SweepTick ==
    /\ server.at = "up" /\ ended # <<>>
    /\ RecordEnded({})
    /\ UNCHANGED <<pc, parked, announced, degraded, server>>

(***************************************************************************)
(* Server::shutdown, while calls may still be at work: release the open    *)
(* handles and record them, close the writer, wait for its tasks, leave.   *)
(* A deadline lets it go on without the step it is in.                     *)
(***************************************************************************)
Shutdown(from, to) ==
    /\ server.at = from
    /\ server' = [server EXCEPT !.at = to]

BeginShutdown ==
    /\ server.at = "up"
    /\ server' = [server EXCEPT !.at = "releasing", !.inflight = {c \in Calls : Busy(c)}]
    /\ UNCHANGED <<pc, engineVars, parked, announced, auditVars, degraded>>

ReleaseEverything ==
    LET open == {h \in Handles : handles[h].state = "open"}
    IN  /\ Shutdown("releasing", "recording")
        /\ handles' = [h \in Handles |-> IF h \in open THEN [handles[h] EXCEPT !.state = "rolled_back"]
                                         ELSE handles[h]]
        /\ ended' = Newest(ended \o SetToSeq({[handle |-> h, who |-> handles[h].who] : h \in open}),
                          EndedCap)
        /\ UNCHANGED <<pc, parked, announced, auditVars, degraded>>

RecordReleased ==
    /\ Shutdown("recording", "closing")
    /\ RecordEnded({})
    /\ UNCHANGED <<pc, parked, announced, degraded>>

WritesAreDoneAnyway == TRUE
WritesAreDone == pending = {}

Leave ==
    /\ Shutdown("closing", "gone")
    /\ WritesAreDone
    /\ UNCHANGED <<pc, engineVars, parked, announced, auditVars, degraded>>

DeadlinePasses ==
    /\ Deadlines /\ server.at \in {"releasing", "recording", "closing"}
    /\ server' = [server EXCEPT !.at = IF @ = "closing" THEN "gone" ELSE "closing", !.late = TRUE]
    /\ UNCHANGED <<pc, engineVars, parked, announced, auditVars, degraded>>

CallStep(c) ==
    \/ Arrive(c) \/ Execute(c)
    \/ RecordToolCall(c) \/ Announce(c)

ShutdownStep == BeginShutdown \/ ReleaseEverything \/ RecordReleased \/ Leave \/ DeadlinePasses

Next ==
    \/ \E c \in Calls : CallStep(c)
    \/ \E l \in pending : WriteLine(l)
    \/ \E h \in Handles : EndByItself(h)
    \/ SweepTick \/ ShutdownStep

Spec == Init /\ [][Next]_vars
-------------------------------------------------------------------------------
(***************************************************************************)
(* What the pipeline promises.                                             *)
(***************************************************************************)
\* Subscribers hear of a change made under a handle once that handle is
\* committed, and never of one that was rolled back: park_invalidation and the
\* commit arm of Server::call.
OnlyCommittedAnnounced ==
    \A c \in announced : pc[c].handle # None => handles[pc[c].handle].state = "committed"

\* A change that came back before the commit of its handle was called is
\* announced when that commit comes back, whatever other calls ran meanwhile:
\* park_invalidation and take_parked_invalidation.  The queue must have had room.
CommittedIsAnnounced ==
    Cardinality(Handles) <= ParkCap =>
      \A k \in Calls :
        (pc[k].at = "done" /\ pc[k].op = "commit" /\ pc[k].out.kind = "output") =>
          \A c \in pc[k].after :
            (pc[c].handle = pc[k].handle /\ ~pc[c].dry) => c \in announced

\* After a shutdown that met no deadline, every call that got as far as its
\* audit line has it, and so has every handle that some call had not ended: the
\* line is in the file or counted among the missed ones.  The queue of ended handles must have
\* had room.
LinesSurviveShutdown ==
    (server.at = "gone" /\ ~server.late) =>
      /\ \A c \in Calls : (pc[c].at \in {"recorded", "done"} /\ pc[c].out.kind # "asked")
           => CallLine(c) \in log \cup missed
      /\ server.inflight = {} /\ Cardinality(Handles) <= EndedCap =>
           \A h \in Handles : handles[h].state \notin {"unused", "committed"} =>
             \/ EndLine(h, handles[h].who) \in log \cup missed
             \/ \E c \in Calls : pc[c].op = "rollback" /\ pc[c].handle = h /\ CallLine(c) \in log \cup missed

================================================================================
