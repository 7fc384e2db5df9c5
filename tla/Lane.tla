--------------------------------- MODULE Lane ---------------------------------
(***************************************************************************)
(* engine.rs, struct Lane and the free functions that drive one connection *)
(* and its read transaction: guarded statements, COMMIT with its check,    *)
(* autocommit, and the paged reads that leave a cursor behind.  Every      *)
(* function is the set of replies it can return, in the code's order of    *)
(* commands; a `?` of the code is a Then.                                  *)
(***************************************************************************)
EXTENDS PgSession

CONSTANTS CursorCap     \* CURSOR_CAP, 8 in the code

ASSUME CursorCapAssumption == CursorCap \in Nat

(***************************************************************************)
(* s: the session; inRead: Lane.in_read_transaction; cursors: the keys of  *)
(* Lane.cursors.                                                           *)
(***************************************************************************)
LaneType == [s: Session, inRead: BOOLEAN, cursors: SUBSET Cursors]

\* Lane::new on a fresh connection.
NewLane == [s |-> Idle, inRead |-> FALSE, cursors |-> {}]

ForgetState(l) == [l EXCEPT !.inRead = FALSE, !.cursors = {}]

\* The replies R of the lane's session, as replies of the lane.
OnLane(l, R) == {[r EXCEPT !.st = [l EXCEPT !.s = r.st]] : r \in R}

\* rollback_savepoint logs a failure and goes on: only the session counts.
RollbackSavepoint(s) ==
    {r.st : r \in Then(RollbackToSavepoint(s, SAVEPOINT_NAME), Release)}

\* What guarded() does once the statement has answered r.
Unguard(r) ==
    IF r.out = "ok" THEN Release(r.st)
    ELSE {Reply(t, r.out) : t \in RollbackSavepoint(r.st)}

Guarded(s, Run(_)) ==
    Then(Savepoint(s, SAVEPOINT_NAME), LAMBDA t : UNION {Unguard(r) : r \in Run(t)})

(***************************************************************************)
(* commit_checked: a query that fails in a failed block, then COMMIT.  A   *)
(* connection lost under COMMIT is looked up in lost_commit_outcome, which *)
(* reports the truth or gives up.                                          *)
(***************************************************************************)
LostCommit(s) ==
    {[st |-> Dead, out |-> "ok", kept |-> Pending(s)],
     [st |-> Dead, out |-> "unknown", kept |-> Pending(s)],
     [st |-> Dead, out |-> "unknown", kept |-> {}],
     [st |-> Dead, out |-> "rolled_back", kept |-> {}]}

SendCommit(s) ==
    {[st |-> Idle, out |-> "ok", kept |-> Pending(s)],
     [st |-> Idle, out |-> "error", kept |-> {}]}   \* a deferred constraint
    \cup Interrupted(s)
    \cup (IF "loss" \in Faults THEN LostCommit(s) ELSE {})

CommitChecked(s) ==
    IF ~s.alive THEN {Reply(s, "never_sent")}
    ELSE IF s.failed THEN {Reply(s, "aborted")}
    ELSE SendCommit(s)
         \cup (IF "loss" \in Faults THEN {Reply(Dead, "never_sent")} ELSE {})

\* The session after roll_back_quietly.
RollBackQuietly(s) == IF s.alive THEN {r.st : r \in Rollback(s)} ELSE {s}

FinishBlock(s, statement) ==
    IF statement # "COMMIT" THEN Rollback(s)
    ELSE UNION {IF r.out \in {"aborted", "error"}
                THEN {Reply(t, r.out) : t \in RollBackQuietly(r.st)}
                ELSE {r} : r \in CommitChecked(s)}

(***************************************************************************)
(* settle_transaction: unlike finish_block it returns the error of a       *)
(* failed check without a ROLLBACK.                                        *)
(***************************************************************************)
SettleTransaction(s, out) ==
    IF out = "ok" THEN CommitChecked(s)
    ELSE {Reply(t, out) : t \in RollBackQuietly(s)}

\* A statement the server runs in a transaction of its own.
RunAlone(s, w) ==
    IF s.failed \/ s.block # "none" \/ ~s.alive THEN RunWrite(s, w)
    ELSE {[st |-> s, out |-> "ok", kept |-> {w}], Reply(s, "error")}
         \cup (IF "loss" \in Faults
               THEN {Reply(Dead, "error"),
                     [st |-> Dead, out |-> "error", kept |-> {w}]} ELSE {})

\* autocommit, and copy_in_on outside a handle.
Autocommit(s, w, outside) ==
    IF Prefixed /\ ~outside
    THEN Then(BeginBlock(s, "write"),
              LAMBDA t : UNION {SettleTransaction(r.st, r.out) : r \in RunWrite(t, w)})
    ELSE RunAlone(s, w)

\* Mutant: the block of a dry run is left open when its statement succeeds.
RunThenRollbackLeftOpen(s, w) ==
    Then(BeginBlock(s, "write"),
         LAMBDA t : UNION {IF g.out = "ok" THEN {g} ELSE {Reply(r.st, g.out) : r \in Rollback(g.st)} :
                           g \in Guarded(t, LAMBDA u : RunWrite(u, w))})

\* Mutant: the statement of a dry run is not put in a block.
RunThenRollbackUnblocked(s, w) == RunAlone(s, w)

RunThenRollback(s, w) ==
    Then(BeginBlock(s, "write"),
         LAMBDA t : UNION {{Reply(r.st, IF r.st.alive /\ r.out # "ok" THEN r.out ELSE g.out) :
                               r \in Rollback(g.st)} :
                           g \in Guarded(t, LAMBDA u : RunWrite(u, w))})

-------------------------------------------------------------------------------
(* The read transaction of a lane and its cursors.                         *)

RollbackAll(l) ==
    IF l.inRead THEN OnLane(ForgetState(l), Rollback(l.s))
    ELSE {Reply(ForgetState(l), "ok")}

FinishIfIdle(l) ==
    IF l.cursors = {} /\ l.inRead THEN RollbackAll(l) ELSE {Reply(l, "ok")}

\* Mutant: the cursor is dropped from the map without a CLOSE.
CloseCursorsUnsent(l, K) == {Reply([l EXCEPT !.cursors = @ \ K], "ok")}

\* close_cursor_now for each of K: the cursor is forgotten even if CLOSE fails.
CloseCursors(l, K) ==
    {Reply([l EXCEPT !.cursors = @ \ K, !.s = r.st], "ok") : r \in ClosePortals(l.s, K)}

\* Any cursor may have outlived cursor_expiry by now.
SweepExpired(l) == UNION {CloseCursors(l, K) : K \in SUBSET l.cursors}

BeginRead(l) ==
    IF l.inRead THEN {Reply(l, "ok")}
    ELSE {Reply([l EXCEPT !.s = r.st, !.inRead = (r.out = "ok")], r.out) :
             r \in BeginBlock(l.s, "read")}

\* settle_lane keeps the outcome of the read and drops its own.
SettleLane(l, out) ==
    LET settled == IF ~l.s.alive THEN {Reply(ForgetState(l), "ok")}
                   ELSE IF out = "aborted" THEN RollbackAll(l)
                   ELSE FinishIfIdle(l)
    IN {Reply(r.st, out) : r \in settled}

(***************************************************************************)
(* read_through_cursor: prepare, DECLARE and the first page inside a       *)
(* savepoint; a cursor with more rows is registered, and estimate_rows     *)
(* runs an EXPLAIN whose failure is ignored.                               *)
(***************************************************************************)
KeepCursor(l, k) ==
    {Reply([l EXCEPT !.s = r.st, !.cursors = @ \cup {k}], "ok") : r \in Guarded(l.s, RunRead)}

ReadThroughCursor(l, k) ==
    Then(OnLane(l, Guarded(l.s, LAMBDA s : DeclareCursor(s, k))),
         LAMBDA m : KeepCursor(m, k) \cup OnLane(m, ClosePortals(m.s, {k})))

\* read_on_lane with an owner, for the cursor identifier k.
ReadPaged(l, k) ==
    Then(SweepExpired(l), LAMBDA m :
        IF Cardinality(m.cursors) >= CursorCap THEN {Reply(m, "error")}
        ELSE Then(BeginRead(m), LAMBDA n :
                 UNION {SettleLane(r.st, r.out) : r \in ReadThroughCursor(n, k)}))

\* read_on_lane without an owner, copy_out_on_lane, and catalog_on_lane
\* behind a transaction pooler.
ReadWhole(l) ==
    Then(SweepExpired(l), LAMBDA m :
        Then(BeginRead(m), LAMBDA n :
            UNION {SettleLane(r.st, r.out) : r \in OnLane(n, Guarded(n.s, RunRead))}))

CatalogOnLane(l) ==
    IF Prefixed THEN ReadWhole(l)
    ELSE IF l.inRead
         THEN UNION {SettleLane(r.st, r.out) : r \in OnLane(l, Guarded(l.s, RunRead))}
         ELSE OnLane(l, RunRead(l.s))

\* fetch_on_lane: a page alone in its block is not guarded.
FetchFailed(l, k, shared, out) ==
    IF shared /\ l.s.alive
    THEN {Reply(r.st, out) : r \in CloseCursors(l, {k})}
    ELSE {Reply(r.st, out) : r \in RollbackAll(l)}

FetchOnLane(l, k) ==
    LET shared == l.cursors # {k}
        page == IF shared THEN Guarded(l.s, LAMBDA s : FetchForward(s, k))
                ELSE FetchForward(l.s, k)
    IN UNION {IF r.out = "ok"
              THEN {Reply(r.st, "ok")} \cup Then(CloseCursors(r.st, {k}), FinishIfIdle)
              ELSE FetchFailed(r.st, k, shared, r.out) : r \in OnLane(l, page)}
===============================================================================
