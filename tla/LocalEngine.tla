----------------------------- MODULE LocalEngine -----------------------------
(***************************************************************************)
(* engine.rs, Engine::start: the engine of `ownpg serve` on stdio.  One    *)
(* connection (the primary) carries reads, autocommitted writes and the    *)
(* one write handle; a second connection is opened for what may not run on *)
(* the first.  Each connection sits behind a mutex that a call holds from  *)
(* its first command to its last, so what a call does under one mutex is   *)
(* one step; a call that needs the second connection drops the first mutex *)
(* before it takes the second, and anything can happen in between.         *)
(*                                                                         *)
(* stdio serves one principal, so the ownership checks always pass here;   *)
(* module PooledEngine has several principals.                             *)
(***************************************************************************)
EXTENDS Handle

CONSTANTS
    Tasks,          \* concurrent tool calls
    Sweeper         \* the server's periodic sweep task

ASSUME SweeperAssumption == Sweeper \notin Tasks

VARIABLES
    primary,    \* Engine.primary: struct Primary, and the ids in Engine.ended
    secondary,  \* Engine.secondary: a lane or None
    durable,    \* the writes the server has made durable
    told,       \* what the caller of each write was answered
    pc,         \* where each task is: <<stage, argument>>
    stranded    \* history: ensure_alive gave a handle up and kept its live lane

vars == << primary, secondary, durable, told, pc, stranded >>

-------------------------------------------------------------------------------
(* Types                                                                   *)

(***************************************************************************)
(* struct WriteHandle.  done and sofar are history: the statements the     *)
(* caller has had acknowledged, now and when each savepoint was set.  due: *)
(* deadline() has passed.                                                  *)
(***************************************************************************)
WriteHandle == [id: Ids, savepoints: Seq(SavepointType),
                done: SUBSET Writes, due: BOOLEAN]

ASSUME NoneAssumption == None \notin Ids \cup Writes \cup WriteHandle \cup LaneType

Primary == [lane: LaneType, handle: WriteHandle \cup {None},
            closed: [Ids -> ClosedStates], ended: SUBSET Ids]

Stages == {"idle", "read", "page", "catalog", "write", "write_outside", "dry_run",
           "fetch", "close", "drop", "sweep", "sweep_open", "release"}

TypeOK ==
    /\ primary \in Primary
    /\ secondary \in LaneType \cup {None}
    /\ durable \subseteq Writes
    /\ told \in [Writes -> [out: Answers, by: Ids \cup {None}]]
    /\ pc \in [Tasks \cup {Sweeper} -> Stages \X (Writes \cup Cursors \cup {None})]
    /\ stranded \in BOOLEAN

Init ==
    /\ primary = [lane |-> NewLane, handle |-> None,
                  closed |-> [i \in Ids |-> "none"], ended |-> {}]
    /\ secondary = None
    /\ durable = {}
    /\ told = [w \in Writes |-> [out |-> "none", by |-> None]]
    /\ pc = [t \in Tasks \cup {Sweeper} |-> << "idle", None >>]
    /\ stranded = FALSE

-------------------------------------------------------------------------------
(* What a call does while it holds the primary mutex.  p is the Primary.   *)

OnPrimary(p, R) == {[r EXCEPT !.st = [p EXCEPT !.lane = r.st]] : r \in R}
OnSession(p, R) == OnPrimary(p, OnLane(p.lane, R))

\* write_handle.take() and note_closed(), which may forget old entries.
Close(p, state) ==
    LET old == {i \in Ids : p.closed[i] \notin {"none", "forgotten"}}
    IN {[p EXCEPT !.handle = None,
                  !.closed = [i \in Ids |-> IF i = p.handle.id THEN state
                                            ELSE IF i \in gone THEN "forgotten"
                                            ELSE p.closed[i]]] : gone \in SUBSET old}

\* The same after note_ended().
End(p, state) == Close([p EXCEPT !.ended = @ \cup {p.handle.id}], state)

Lose(p) == IF p.handle = None THEN {p} ELSE End(p, "lost")

(***************************************************************************)
(* ensure_alive: the handle is given up before the new connection is       *)
(* there.  Of a lane whose probe only stalled, that leaves the block open  *)
(* when no new connection can be had: an error of its own, "stranded".     *)
(***************************************************************************)
NotReplaced(p) == IF p.handle # None /\ p.lane.s.alive THEN "stranded" ELSE "error"

Reconnect(p) ==
    UNION {{Reply([q EXCEPT !.lane = NewLane], "ok"), Reply(q, NotReplaced(p))} : q \in Lose(p)}

EnsureAlive(p) ==
    IF p.lane.s.alive
    THEN {Reply(p, "ok")} \cup (IF "stall" \in Faults THEN Reconnect(p) ELSE {})
    ELSE Reconnect(p)

\* Mutant: an expired handle is given up without a ROLLBACK.
ExpireWriteHandleUnrolled(p) ==
    IF p.handle = None THEN {Reply(p, "ok")}
    ELSE IF ~p.handle.due THEN {Reply(p, "ok")}
    ELSE {Reply(q, "ok") : q \in End(p, "expired")}

ExpireWriteHandle(p) ==
    IF p.handle = None THEN {Reply(p, "ok")}
    ELSE IF ~p.handle.due THEN {Reply(p, "ok")}
    ELSE UNION {IF q.lane.s.alive THEN OnSession(q, Rollback(q.lane.s))
                ELSE {Reply(q, "ok")} : q \in End(p, "expired")}

\* check_handle
Holds(p, id) == IF p.handle = None THEN FALSE ELSE p.handle.id = id

Touch(p) == [p EXCEPT !.handle.due = FALSE]

FreshIds(p) == {i \in Ids : p.closed[i] = "none" /\ ~Holds(p, i)}

\* The start of every call that needs the connection to itself.
Settle(p) ==
    Then(OnPrimary(p, SweepExpired(p.lane)), LAMBDA q : OnPrimary(q, FinishIfIdle(q.lane)))

OpenHandle(p) ==
    {Reply([p EXCEPT !.handle = [id |-> i, savepoints |-> << >>, done |-> {}, due |-> FALSE]],
           "ok") : i \in FreshIds(p)}

StartBlock(p) ==
    Then(Track(p), LAMBDA q :
    Then(OnSession(q, BeginBlock(q.lane.s, "write")), OpenHandle))

BeginTransaction(p) ==
    Then(EnsureAlive(p), LAMBDA a :
    Then(ExpireWriteHandle(a), LAMBDA b :
        IF b.handle # None THEN Refuse(b)
        ELSE Then(Settle(b), LAMBDA c :
                 IF c.lane.cursors # {} THEN Refuse(c)
                 ELSE Then(OnPrimary(c, RollbackAll(c.lane)), StartBlock))))

TransactionStatus(p) ==
    Then(ExpireWriteHandle(p), LAMBDA q :
        IF q.lane.s.alive THEN {Reply(q, "ok")} ELSE {Reply(r, "ok") : r \in Lose(q)})

\* Mutant: the deadline of the handle is not looked at first.
ForHandleUnexpired(p, id) == IF Holds(p, id) THEN Track(p) ELSE Refuse(p)

\* How every call on the open handle `id` starts.
ForHandle(p, id) ==
    Then(ExpireWriteHandle(p), LAMBDA q : IF Holds(q, id) THEN Track(q) ELSE Refuse(q))

SetSavepoint(p, name) ==
    Then(OnSession(p, Savepoint(p.lane.s, name)), LAMBDA q :
        {Reply(Touch([q EXCEPT !.handle.savepoints =
                          Append(@, [name |-> name, sofar |-> q.handle.done])]), "ok")})

\* Mutant: the savepoint rolled back to is dropped as well.
UndoToAndDrop(p, name) ==
    LET at == LastNamed(p.handle.savepoints, name)
    IN IF at = 0 THEN Refuse(p)
       ELSE Then(OnSession(p, RollbackToSavepoint(p.lane.s, name)), LAMBDA q :
                {Reply(Touch([q EXCEPT
                     !.handle.savepoints = SubSeq(@, 1, at - 1),
                     !.handle.done = q.handle.savepoints[at].sofar]), "ok")})

UndoTo(p, name) ==
    LET at == LastNamed(p.handle.savepoints, name)
    IN IF at = 0 THEN Refuse(p)
       ELSE Then(OnSession(p, RollbackToSavepoint(p.lane.s, name)), LAMBDA q :
                {Reply(Touch([q EXCEPT
                     !.handle.savepoints = SubSeq(@, 1, at),
                     !.handle.done = q.handle.savepoints[at].sofar]), "ok")})

Acknowledge(p, w) == Touch([p EXCEPT !.handle.done = @ \cup {w}])

\* The first command is the backend pid query or the SET LOCAL of timed().
RunGuarded(p, w) ==
    IF ~p.lane.s.alive THEN UNION {Refuse(q) : q \in Lose(p)}
    ELSE UNION {IF r.st.lane.s.alive
                THEN {Reply(IF r.out = "ok" THEN Acknowledge(r.st, w) ELSE Touch(r.st), r.out)}
                ELSE {Reply(q, r.out) : q \in Lose(r.st)} :
                r \in OnSession(p, Then(Command(p.lane.s, p.lane.s), LAMBDA s :
                                       Guarded(s, LAMBDA t : RunWrite(t, w))))}

\* copy_in with a handle: reconnects first, and on an error leaves the handle.
CopyInHandle(p, id, w) ==
    Then(ExpireWriteHandle(p), LAMBDA a :
    Then(EnsureAlive(a), LAMBDA b :
        IF ~Holds(b, id) THEN Refuse(b)
        ELSE Then(Track(b), LAMBDA c :
             Then(OnSession(c, Guarded(c.lane.s, LAMBDA t : RunWrite(t, w))), LAMBDA d :
                 {Reply(Acknowledge(d, w), "ok")}))))

\* Mutant: the outcome of the command is recorded where its state belongs.
FinalOutcome(r, state) == IF r.out = "ok" THEN state ELSE r.out

\* Mutant: a COMMIT the server refused counts as one.
FinalAnyway(r, state) == IF r.st.lane.s.alive THEN state ELSE "lost"

\* The final state of a handle whose COMMIT or ROLLBACK was answered with r.
Final(r, state) ==
    IF r.out = "ok" THEN state
    ELSE IF r.st.lane.s.alive THEN "rolled_back" ELSE "lost"

Finish(p, statement, state) ==
    IF ~p.lane.s.alive THEN UNION {Refuse(q) : q \in Close(p, "lost")}
    ELSE UNION {{[r EXCEPT !.st = q] : q \in Close(r.st, Final(r, state))} :
                r \in OnSession(p, FinishBlock(p.lane.s, statement))}

\* What Finish answers is followed by drop_idle_secondary, a refusal is not.
FinishOrRefuse(p, statement, state) ==
    {[r EXCEPT !.out = IF @ = "refused" THEN @ ELSE "finished"] : r \in Finish(p, statement, state)}

\* Mutant: an open handle does not stop a statement outside it.
OutsideHandleUnchecked(p) ==
    Then(ExpireWriteHandle(p), LAMBDA a : Then(EnsureAlive(a), Settle))

\* A call that must not run inside a handle, up to its own statement.
OutsideHandle(p) ==
    Then(ExpireWriteHandle(p), LAMBDA a :
    Then(EnsureAlive(a), LAMBDA b : IF b.handle # None THEN Refuse(b) ELSE Settle(b)))

\* A read transaction sends the call on to the second connection.
HereOrSecond(p) ==
    Then(OutsideHandle(p), LAMBDA q : IF q.lane.inRead THEN {Reply(q, "second")} ELSE Track(q))

RunWriteAlone(p, w, outside) ==
    Then(HereOrSecond(p), LAMBDA q : OnSession(q, Autocommit(q.lane.s, w, outside)))

RunAndRollback(p, w) ==
    Then(HereOrSecond(p), LAMBDA q : OnSession(q, RunThenRollback(q.lane.s, w)))

\* copy_in without a handle has no second connection to go to.
CopyInAlone(p, w) ==
    {[r EXCEPT !.out = IF @ = "second" THEN "refused" ELSE @] : r \in RunWriteAlone(p, w, FALSE)}

\* Mutant: reads stay on the primary while it has a handle.
ReadHoldPrimary(p) ==
    Then(ExpireWriteHandle(p), LAMBDA a : Then(EnsureAlive(a), Track))

\* How every read starts: on the primary, or on to the second connection.
ReadHold(p) ==
    Then(ExpireWriteHandle(p), LAMBDA a :
    Then(EnsureAlive(a), LAMBDA b :
        IF b.handle # None THEN {Reply(b, "second")} ELSE Track(b)))

ReadWholeOnPrimary(p) ==
    Then(ReadHold(p), LAMBDA q : OnPrimary(q, ReadWhole(q.lane)))

CatalogOnPrimary(p) ==
    Then(ReadHold(p), LAMBDA q : OnPrimary(q, CatalogOnLane(q.lane)))

ReadPagedOnPrimary(p, k) ==
    Then(ReadHold(p), LAMBDA q : OnPrimary(q, ReadPaged(q.lane, k)))

\* fetch on one connection: "second" when it does not have the cursor.
FetchHere(l, k) ==
    Then(SweepExpired(l), LAMBDA m :
        IF k \in m.cursors THEN Then(Track(m), LAMBDA n : FetchOnLane(n, k))
        ELSE {Reply(m, "second")})

\* close_cursor on one connection.
CloseHere(l, k) ==
    IF k \in l.cursors THEN Then(CloseCursors(l, {k}), FinishIfIdle)
    ELSE {Reply(l, "second")}

\* The error of one part of a sweep does not stop the next.
Regardless(R) == {r.st : r \in R}

\* Mutant: the sweep leaves handles to the calls that use them.
SweepPrimaryReads(p) == Regardless(Settle(p))

SweepPrimary(p) ==
    UNION {Regardless(ExpireWriteHandle(q)) : q \in Regardless(Settle(p))}

\* The primary's part of release_everything.
ReleasePrimary(p) ==
    LET ended == IF p.handle = None THEN {p}
                 ELSE UNION {End([p EXCEPT !.lane.s = s], "rolled_back") :
                             s \in RollBackQuietly(p.lane.s)}
    IN UNION {IF q.lane.s.alive THEN Regardless(OnPrimary(q, RollbackAll(q.lane)))
              ELSE {[q EXCEPT !.lane = ForgetState(@)]} : q \in ended}

-------------------------------------------------------------------------------
(* What a call does while it holds the mutex of the second connection.     *)

EnsureSecondary(l) ==
    LET fresh == {Reply(NewLane, "ok"), Reply(l, "error")}
    IN IF l = None THEN fresh
       ELSE IF ~l.s.alive THEN fresh
       ELSE {Reply(l, "ok")} \cup (IF "stall" \in Faults THEN fresh ELSE {})

\* A read there is tracked under the second mutex.
SecondHold(l) == Then(EnsureSecondary(l), Track)

\* A write there runs once no read transaction is left on it either.
AloneOnSecondary(l) ==
    Then(EnsureSecondary(l), LAMBDA m :
    Then(SweepExpired(m), LAMBDA n :
    Then(FinishIfIdle(n), LAMBDA o : IF o.inRead THEN Refuse(o) ELSE Track(o))))

WriteOnSecondary(l, w, outside) ==
    Then(AloneOnSecondary(l), LAMBDA m : OnLane(m, Autocommit(m.s, w, outside)))

DryRunOnSecondary(l, w) ==
    Then(AloneOnSecondary(l), LAMBDA m : OnLane(m, RunThenRollback(m.s, w)))

DropIdle(l) == IF l = None THEN None ELSE IF l.cursors = {} THEN None ELSE l

-------------------------------------------------------------------------------
(* Actions on the primary                                                  *)

Free(t) == pc[t][1] = "idle"
Goto(t, stage, arg) == pc' = [pc EXCEPT ![t] = << stage, arg >>]
Finished(t) == Goto(t, "idle", None)

Unissued == {w \in Writes : told[w].out = "none"}

Tell(w, id, out) ==
    told' = [told EXCEPT ![w] = IF out = "refused" THEN [out |-> "none", by |-> None]
                                ELSE [out |-> AnswerOf(out), by |-> id]]

Strands(r) == stranded' = (stranded \/ r.out = "stranded")

\* A call answered with one of R that ends on the primary.
EndsHere(R) ==
    /\ \E r \in R : primary' = r.st /\ Strands(r)
    /\ UNCHANGED << secondary, durable, told, pc >>

\* A call that makes no write and may have to go on as `stage`.
MayGoOn(t, R, stage, arg) ==
    /\ \E r \in R : /\ primary' = r.st /\ Strands(r)
                    /\ IF r.out = "second" THEN Goto(t, stage, arg) ELSE UNCHANGED pc
    /\ UNCHANGED << secondary, durable, told >>

\* The same for the write w, inside the handle `id` or not (None).
Writing(t, w, id, R, stage) ==
    /\ \E r \in R : /\ primary' = r.st /\ Strands(r)
                    /\ durable' = durable \cup r.kept
                    /\ Tell(w, id, r.out)
                    /\ IF r.out = "second" THEN Goto(t, stage, w) ELSE UNCHANGED pc
    /\ UNCHANGED secondary

Begin(t) ==
    Free(t) /\ FreshIds(primary) # {} /\ EndsHere(BeginTransaction(primary))

Status(t) == Free(t) /\ EndsHere(TransactionStatus(primary))

Mark(t, id, name) ==
    /\ Free(t)
    /\ Holds(primary, id) => Len(primary.handle.savepoints) < MaxSavepoints
    /\ EndsHere(Then(ForHandle(primary, id), LAMBDA p : SetSavepoint(p, name)))

\* The statements after the savepoint are undone, for the caller as well.
RollbackTo(t, id, name) ==
    /\ Free(t)
    /\ \E r \in Then(ForHandle(primary, id), LAMBDA p : UndoTo(p, name)) :
          /\ primary' = r.st
          /\ told' = [w \in Writes |->
                         IF r.out = "ok" /\ told[w].by = id
                            /\ w \in primary.handle.done \ r.st.handle.done
                         THEN [told[w] EXCEPT !.out = "undone"] ELSE told[w]]
    /\ UNCHANGED << secondary, durable, pc, stranded >>

WriteInHandle(t, id, w) ==
    Free(t) /\ Writing(t, w, id, Then(ForHandle(primary, id), LAMBDA p : RunGuarded(p, w)), "idle")

CopyIn(t, id, w) ==
    Free(t) /\ Writing(t, w, id, CopyInHandle(primary, id, w), "idle")

FinishTransaction(t, id, statement, state) ==
    /\ Free(t)
    /\ \E r \in Then(ForHandle(primary, id), LAMBDA p : FinishOrRefuse(p, statement, state)) :
          /\ primary' = r.st
          /\ durable' = durable \cup r.kept
          /\ IF r.out = "finished" THEN Goto(t, "drop", None) ELSE UNCHANGED pc
    /\ UNCHANGED << secondary, told, stranded >>

Commit(t, id) == FinishTransaction(t, id, "COMMIT", "committed")
RollbackHandle(t, id) == FinishTransaction(t, id, "ROLLBACK", "rolled_back")

WriteAlone(t, w, outside) ==
    Free(t) /\ Writing(t, w, None, RunWriteAlone(primary, w, outside),
                       IF outside THEN "write_outside" ELSE "write")

CopyInWithout(t, w) ==
    Free(t) /\ Writing(t, w, None, CopyInAlone(primary, w), "idle")

DryRun(t, w) ==
    /\ Free(t)
    /\ \E r \in RunAndRollback(primary, w) :
          /\ primary' = r.st /\ Strands(r)
          /\ durable' = durable \cup r.kept
          /\ told' = [told EXCEPT ![w] = [out |-> IF r.out = "second" THEN "running"
                                                  ELSE "undone", by |-> None]]
          /\ IF r.out = "second" THEN Goto(t, "dry_run", w) ELSE UNCHANGED pc
    /\ UNCHANGED secondary

\* Identifiers no lane uses: the code draws 64 random bits.
FreshCursors ==
    LET used(l) == IF l = None THEN {} ELSE l.cursors \cup Portals(l.s)
    IN Cursors \ (used(primary.lane) \cup used(secondary))

Read(t) == Free(t) /\ MayGoOn(t, ReadWholeOnPrimary(primary), "read", None)
Catalog(t) == Free(t) /\ MayGoOn(t, CatalogOnPrimary(primary), "catalog", None)

ReadPage(t) ==
    Free(t) /\ \E k \in FreshCursors : MayGoOn(t, ReadPagedOnPrimary(primary, k), "page", None)

Fetch(t, k) ==
    Free(t) /\ MayGoOn(t, OnPrimary(primary, FetchHere(primary.lane, k)), "fetch", k)

CloseCursor(t, k) ==
    Free(t) /\ MayGoOn(t, OnPrimary(primary, CloseHere(primary.lane, k)), "close", k)

\* Mutant: the sweep never goes on to the second connection's end.
SweepKeepsSecond(t) ==
    /\ Free(t)
    /\ primary' \in SweepPrimary(primary)
    /\ Goto(t, "sweep_open", None)
    /\ UNCHANGED << secondary, durable, told, stranded >>

Sweep(t) ==
    /\ Free(t)
    /\ primary' \in SweepPrimary(primary)
    /\ Goto(t, IF primary'.handle = None THEN "sweep" ELSE "sweep_open", None)
    /\ UNCHANGED << secondary, durable, told, stranded >>

ReleaseEverything(t) ==
    /\ Free(t)
    /\ primary' \in ReleasePrimary(primary)
    /\ Goto(t, "release", None)
    /\ UNCHANGED << secondary, durable, told, stranded >>

-------------------------------------------------------------------------------
(* Actions on the second connection                                        *)

\* A task in `stage` whose reply is one of R.
OnTheSecond(t, stage, R) ==
    /\ pc[t][1] = stage
    /\ \E r \in R : secondary' = r.st
    /\ Finished(t)
    /\ UNCHANGED << primary, durable, told, stranded >>

ReadSecond(t) == OnTheSecond(t, "read", Then(SecondHold(secondary), ReadWhole))
CatalogSecond(t) == OnTheSecond(t, "catalog", Then(SecondHold(secondary), CatalogOnLane))

PageSecond(t) ==
    \E k \in FreshCursors :
        OnTheSecond(t, "page", Then(SecondHold(secondary), LAMBDA l : ReadPaged(l, k)))

WriteSecond(t, stage) ==
    /\ pc[t][1] = stage
    /\ LET w == pc[t][2]
       IN \E r \in WriteOnSecondary(secondary, w, stage = "write_outside") :
             /\ secondary' = r.st
             /\ durable' = durable \cup r.kept
             /\ Tell(w, None, r.out)
    /\ Finished(t)
    /\ UNCHANGED << primary, stranded >>

DrySecond(t) ==
    /\ pc[t][1] = "dry_run"
    /\ LET w == pc[t][2]
       IN /\ \E r \in DryRunOnSecondary(secondary, w) :
                /\ secondary' = r.st
                /\ durable' = durable \cup r.kept
          /\ told' = [told EXCEPT ![w].out = "undone"]
    /\ Finished(t)
    /\ UNCHANGED << primary, stranded >>

\* Without a second connection the cursor is unknown.
FetchSecond(t) ==
    OnTheSecond(t, "fetch", IF secondary = None THEN {Reply(None, "error")}
                            ELSE FetchHere(secondary, pc[t][2]))

CloseSecond(t) ==
    OnTheSecond(t, "close", IF secondary = None THEN {Reply(None, "error")}
                            ELSE CloseHere(secondary, pc[t][2]))

DropSecond(t) == OnTheSecond(t, "drop", {Reply(DropIdle(secondary), "ok")})

\* sweep() goes on to drop_idle_secondary when it saw no open handle.
SweepSecond(t, stage) ==
    /\ pc[t][1] = stage
    /\ secondary' \in (IF secondary = None THEN {None}
                       ELSE Regardless(Then(SweepExpired(secondary), FinishIfIdle)))
    /\ IF stage = "sweep" THEN Goto(t, "drop", None) ELSE Finished(t)
    /\ UNCHANGED << primary, durable, told, stranded >>

ReleaseSecond(t) ==
    OnTheSecond(t, "release",
        IF secondary = None THEN {Reply(None, "ok")}
        ELSE IF secondary.s.alive THEN RollbackAll(secondary)
        ELSE {Reply(ForgetState(secondary), "ok")})

-------------------------------------------------------------------------------
(* The environment                                                         *)

LosePrimary ==
    /\ "loss" \in Faults /\ primary.lane.s.alive
    /\ primary' = [primary EXCEPT !.lane.s = Dead]
    /\ UNCHANGED << secondary, durable, told, pc, stranded >>

LoseSecondary ==
    /\ "loss" \in Faults /\ secondary # None
    /\ secondary.s.alive
    /\ secondary' = [secondary EXCEPT !.s = Dead]
    /\ UNCHANGED << primary, durable, told, pc, stranded >>

\* handle_expiry without a call, or transaction_timeout, has passed.
DeadlinePasses ==
    /\ primary.handle # None
    /\ ~primary.handle.due
    /\ primary' = [primary EXCEPT !.handle.due = TRUE]
    /\ UNCHANGED << secondary, durable, told, pc, stranded >>

PrimaryNext(t) ==
    \/ Begin(t) \/ Status(t)
    \/ \E id \in Ids : \/ Commit(t, id) \/ RollbackHandle(t, id)
                       \/ \E name \in Names : Mark(t, id, name) \/ RollbackTo(t, id, name)
                       \/ \E w \in Unissued : WriteInHandle(t, id, w) \/ CopyIn(t, id, w)
    \/ \E w \in Unissued : \/ \E outside \in BOOLEAN : WriteAlone(t, w, outside)
                           \/ CopyInWithout(t, w)
                           \/ DryRun(t, w)
    \/ Read(t) \/ Catalog(t) \/ ReadPage(t)
    \/ \E k \in Cursors : Fetch(t, k) \/ CloseCursor(t, k)
    \/ ReleaseEverything(t)

SecondNext(t) ==
    \/ ReadSecond(t) \/ CatalogSecond(t) \/ PageSecond(t)
    \/ WriteSecond(t, "write") \/ WriteSecond(t, "write_outside") \/ DrySecond(t)
    \/ FetchSecond(t) \/ CloseSecond(t) \/ DropSecond(t)
    \/ ReleaseSecond(t)

SweepNext ==
    \/ Sweep(Sweeper)
    \/ SweepSecond(Sweeper, "sweep") \/ SweepSecond(Sweeper, "sweep_open")
    \/ DropSecond(Sweeper)

Next ==
    \/ \E t \in Tasks : PrimaryNext(t) \/ SecondNext(t)
    \/ SweepNext
    \/ LosePrimary \/ LoseSecondary \/ DeadlinePasses

Spec == Init /\ [][Next]_vars

(***************************************************************************)
(* The sweeper is a task of its own that runs for as long as the server    *)
(* does, and a call that waits for a mutex gets it: tokio's mutexes are    *)
(* first come, first served.                                               *)
(***************************************************************************)
Fairness == WF_vars(SweepNext) /\ \A t \in Tasks : WF_vars(SecondNext(t))

LiveSpec == Spec /\ Fairness

-------------------------------------------------------------------------------
(* Properties                                                              *)

(***************************************************************************)
(* The primary never carries a write handle and a read transaction or a    *)
(* cursor at once: begin_transaction ends the first, and no later call     *)
(* starts a read on a connection with a handle.                            *)
(***************************************************************************)
HandleExcludesReads ==
    primary.handle # None => ~primary.lane.inRead /\ primary.lane.cursors = {}

(***************************************************************************)
(* A transaction block the server holds in working order is one the engine *)
(* knows of: the write handle's on the primary, or a read transaction.  A  *)
(* block nobody knows of would swallow the next autocommitted write.  It   *)
(* takes a live connection given up without another to replace it to have  *)
(* one.                                                                    *)
(***************************************************************************)
NoWorkingOrphan ==
    ~stranded =>
    /\ Working(primary.lane.s) =>
          IF primary.handle # None THEN primary.lane.s.block = "write"
          ELSE primary.lane.inRead /\ primary.lane.s.block = "read"
    /\ (IF secondary = None THEN FALSE ELSE Working(secondary.s)) =>
          secondary.inRead /\ secondary.s.block = "read"

(***************************************************************************)
(* A write outside a handle that was answered as done is durable, unless a *)
(* handle was stranded before: its block takes such a write in.            *)
(***************************************************************************)
AcknowledgedWritesAreDurable ==
    ~stranded =>
    \A w \in Writes : told[w].out = "done" /\ told[w].by = None => w \in durable

(***************************************************************************)
(* COMMIT keeps exactly the statements its caller believes in: those that  *)
(* were acknowledged and not undone by rollback_to, and none that failed.  *)
(***************************************************************************)
CommittedExactly ==
    \A w \in Writes :
        told[w].by # None =>
            (primary.closed[told[w].by] = "committed" =>
                (w \in durable <=> told[w].out = "done"))

(***************************************************************************)
(* run_and_rollback promises that its statement changes nothing.           *)
(***************************************************************************)
DryRunsChangeNothing ==
    \A w \in durable : told[w].by = None => told[w].out # "undone"

(***************************************************************************)
(* WriteHandle.savepoints is the stack of savepoints on the server, above  *)
(* the block itself and below the engine's own ownpg_call, so rollback_to  *)
(* never names a savepoint the server does not have.                       *)
(***************************************************************************)
SavepointsMirrorServer ==
    primary.handle # None /\ primary.lane.s.alive =>
        LET set == primary.handle.savepoints
            frames == primary.lane.s.frames
        IN /\ Len(set) < Len(frames)
           /\ \A j \in DOMAIN set : frames[j + 1].name = set[j].name
           /\ \A j \in Len(set) + 2 .. Len(frames) : frames[j].name = SAVEPOINT_NAME

(***************************************************************************)
(* In a working read transaction the registered cursors are exactly the    *)
(* declared ones: one failing fetch takes no other cursor with it, and no  *)
(* closed or exhausted cursor stays open on the server.                    *)
(***************************************************************************)
Mirrored(l) == Working(l.s) => l.cursors = Portals(l.s)

CursorsMirrorServer ==
    /\ Mirrored(primary.lane)
    /\ IF secondary = None THEN TRUE ELSE Mirrored(secondary)

(***************************************************************************)
(* A handle whose deadline has passed does no more work: no call has a     *)
(* statement acknowledged in it, moves its savepoints or commits it.       *)
(***************************************************************************)
DueHandleIsFinished ==
    [][primary.handle # None =>
         (primary.handle.due =>
            /\ durable' \cap {w \in Writes : told[w].by = primary.handle.id} \subseteq durable
            /\ Holds(primary', primary.handle.id) => primary'.handle = primary.handle)]_vars

(***************************************************************************)
(* A handle whose deadline has passed is closed even if nobody calls.      *)
(***************************************************************************)
DueHandleCloses ==
    \A i \in Ids :
        (IF Holds(primary, i) THEN primary.handle.due ELSE FALSE) ~> primary.closed[i] # "none"

(***************************************************************************)
(* The second connection goes away with the handle it was opened for: a    *)
(* read that opens it after the handle has ended does not keep it.         *)
(***************************************************************************)
SecondIdle ==
    IF secondary = None THEN FALSE
    ELSE primary.handle = None /\ secondary.cursors = {}

SecondConnectionCloses == SecondIdle ~> ~SecondIdle

(***************************************************************************)
(* The engine keeps the promises of Transactions: a handle is open from    *)
(* begin_transaction until it ends, ends once and as noted, and what its   *)
(* caller was told is done becomes durable together or not at all, however *)
(* calls, sweeps, losses and interrupted commands come.                    *)
(***************************************************************************)
PhaseOf(i) ==
    IF Holds(primary, i) THEN "open"
    ELSE IF primary.closed[i] = "none" THEN "fresh" ELSE primary.closed[i]

Promised == INSTANCE Transactions WITH
    phase <- [i \in Ids |-> PhaseOf(i)],
    issued <- [i \in Ids |-> {w \in Writes : told[w].by = i}],
    done <- [i \in Ids |-> {w \in Writes : told[w] = [out |-> "done", by |-> i]}]

HandlesKeepPromises == Promised!Spec
===============================================================================
