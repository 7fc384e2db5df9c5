------------------------------ MODULE PgSession ------------------------------
(***************************************************************************)
(* One PostgreSQL session as engine.rs uses it through tokio_postgres: the *)
(* transaction block the server holds, its savepoints and its cursors, and *)
(* the answers a command can get.  The server is external code; what is    *)
(* modelled is what the engine relies on.                                  *)
(*                                                                         *)
(* A command sent to a session has a set of possible replies.  A reply is  *)
(* [st, out, kept]: the session (later: the lane, the engine) afterwards,  *)
(* the outcome the engine sees, and the writes it made durable.  Outcomes: *)
(*   "ok"                                                                  *)
(*   "aborted"   SQLSTATE 25P02, the block had already failed              *)
(*   "error"     any other error, a closed connection included            *)
(* and, of a COMMIT only, "never_sent", "rolled_back" and "unknown".       *)
(***************************************************************************)
EXTENDS Naturals, Sequences, FiniteSets

CONSTANTS
    Writes,     \* the user's writing statements, each issued at most once
    Cursors,    \* identifiers a DECLAREd cursor can get
    Names,      \* savepoint names a user can choose
    Faults,     \* which faults the environment may inject, see below
    Prefixed    \* connection.pooled: BEGIN carries the SET LOCAL prefix

(***************************************************************************)
(* "loss": the connection dies under a command or between two commands.    *)
(* "interrupt": a cancel request, or statement_timeout, ends a command of  *)
(*   the engine's own (BEGIN, SAVEPOINT, ROLLBACK, ...) with an error.     *)
(* "stall": the liveness probe times out although the session lives on.    *)
(***************************************************************************)
FaultKinds == {"loss", "interrupt", "stall"}

ASSUME FaultsAssumption == Faults \subseteq FaultKinds
ASSUME PrefixedAssumption == Prefixed \in BOOLEAN

\* The savepoint guarded() sets around every statement of a block.
SAVEPOINT_NAME == "ownpg_call"

(***************************************************************************)
(* A block is a stack of frames, one for the block and one per savepoint,  *)
(* each with the writes and the cursors made since it was set.  "nested"   *)
(* is a BEGIN sent into a live block, which the server only warns about.   *)
(***************************************************************************)
Frame == [name: Names \cup {SAVEPOINT_NAME, "block"},
          done: SUBSET Writes, portals: SUBSET Cursors]

Session == [alive: BOOLEAN, block: {"none", "read", "write", "nested"},
            failed: BOOLEAN, frames: Seq(Frame)]

NewFrame(name) == [name |-> name, done |-> {}, portals |-> {}]

Idle == [alive |-> TRUE, block |-> "none", failed |-> FALSE, frames |-> << >>]

\* A closed connection: the server has rolled its block back.
Dead == [alive |-> FALSE, block |-> "none", failed |-> FALSE, frames |-> << >>]

Opened(mode) ==
    [alive |-> TRUE, block |-> mode, failed |-> FALSE, frames |-> << NewFrame("block") >>]

Portals(s) == UNION {s.frames[i].portals : i \in DOMAIN s.frames}
Pending(s) == UNION {s.frames[i].done : i \in DOMAIN s.frames}

\* A block that would take another statement.
Working(s) == s.alive /\ ~s.failed /\ s.block # "none"

\* An error inside a block fails the block; outside it leaves nothing.
Errored(s) == IF s.block = "none" THEN s ELSE [s EXCEPT !.failed = TRUE]

Reply(st, out) == [st |-> st, out |-> out, kept |-> {}]

\* The replies R, and where they are "ok", what F does next.
Then(R, F(_)) ==
    UNION {IF r.out = "ok"
           THEN {[q EXCEPT !.kept = @ \cup r.kept] : q \in F(r.st)}
           ELSE {r} : r \in R}

Interrupted(s) ==
    IF "interrupt" \in Faults THEN {Reply(Errored(s), "error")} ELSE {}

Broken == IF "loss" \in Faults THEN {Reply(Dead, "error")} ELSE {}

\* A command of the engine's own that leaves the session as `good`.
Command(s, good) ==
    IF s.alive
    THEN {Reply(good, "ok")} \cup Interrupted(s) \cup Broken
    ELSE {Reply(s, "error")}

\* A command the server only takes inside a block that has not failed.
BlockCommand(s, good) ==
    IF s.failed THEN {Reply(s, "aborted")}
    ELSE IF s.block = "none" THEN {Reply(s, "error")}
    ELSE Command(s, good)

\* A statement of the user's, which can also fail by itself.
Statement(s, good) ==
    IF s.failed THEN {Reply(s, "aborted")}
    ELSE Command(s, good)
         \cup (IF s.alive THEN {Reply(Errored(s), "error")} ELSE {})

BeginBlock(s, mode) ==
    IF s.failed THEN {Reply(s, "aborted")}
    ELSE IF s.block # "none" THEN Command(s, [s EXCEPT !.block = "nested"])
    ELSE Command(s, Opened(mode))
         \cup (IF s.alive /\ Prefixed /\ "interrupt" \in Faults
               THEN {Reply(Errored(Opened(mode)), "error")} ELSE {})

Rollback(s) == Command(s, Idle)

Savepoint(s, name) ==
    BlockCommand(s, [s EXCEPT !.frames = Append(@, NewFrame(name))])

\* RELEASE of the innermost savepoint: its work joins the frame below.
Released(frames) ==
    LET n == Len(frames)
    IN Append(SubSeq(frames, 1, n - 2),
              [frames[n-1] EXCEPT !.done = @ \cup frames[n].done,
                                  !.portals = @ \cup frames[n].portals])

Release(s) ==
    IF Len(s.frames) < 2 THEN {Reply(Errored(s), "error")}
    ELSE BlockCommand(s, [s EXCEPT !.frames = Released(@)])

\* The innermost savepoint with this name, 0 when there is none.
Innermost(frames, name) ==
    LET last == {i \in 2 .. Len(frames) :
                    /\ frames[i].name = name
                    /\ \A j \in i + 1 .. Len(frames) : frames[j].name # name}
    IN IF last = {} THEN 0 ELSE CHOOSE i \in last : TRUE

RollbackToSavepoint(s, name) ==
    LET at == Innermost(s.frames, name)
    IN IF at = 0 THEN {Reply(Errored(s), "error")}
       ELSE Command(s, [s EXCEPT !.failed = FALSE,
                                 !.frames = Append(SubSeq(@, 1, at - 1),
                                                   NewFrame(name))])

\* What a statement adds goes to the innermost frame of the block.
Adding(s, done, portals) ==
    LET n == Len(s.frames)
    IN [s EXCEPT !.frames[n].done = @ \cup done,
                 !.frames[n].portals = @ \cup portals]

RunRead(s) == Statement(s, s)

\* The server refuses a write in a READ ONLY block.
RunWrite(s, w) ==
    IF s.block = "read" /\ ~s.failed /\ s.alive
    THEN {Reply(Errored(s), "error")}
    ELSE Statement(s, IF s.block = "none" THEN s ELSE Adding(s, {w}, {}))

DeclareCursor(s, k) ==
    Statement(s, IF s.block = "none" THEN s ELSE Adding(s, {}, {k}))

FetchForward(s, k) ==
    IF s.alive /\ ~s.failed /\ k \notin Portals(s)
    THEN {Reply(Errored(s), "error")}
    ELSE Statement(s, s)

Without(frames, K) ==
    [i \in DOMAIN frames |-> [name |-> frames[i].name, done |-> frames[i].done,
                              portals |-> frames[i].portals \ K]]

\* CLOSE of every cursor in K; an unknown one is an error in its block.
ClosePortals(s, K) ==
    IF K = {} THEN {Reply(s, "ok")}
    ELSE IF s.failed THEN {Reply(s, "aborted")}
    ELSE IF s.alive /\ ~(K \subseteq Portals(s)) THEN {Reply(Errored(s), "error")}
    ELSE Command(s, [s EXCEPT !.frames = Without(@, K)])
==============================================================================
