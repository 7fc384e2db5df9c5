----------------------------- MODULE PooledEngine -----------------------------
(***************************************************************************)
(* engine.rs, Engine::start_pooled: the engine of the HTTP server.  Many   *)
(* principals share a pool of connections.  A write handle owns one of     *)
(* them and lives in a table (Engine.pooled_handles) behind a mutex, with  *)
(* its own connection behind a second one.  A call finds its handle in the *)
(* table, lets the table go and only then waits for the handle, which may  *)
(* by then have been swept, committed or lost; an Arc keeps the handle and *)
(* its connection until the last such call is done.                        *)
(*                                                                         *)
(* What a call does under one mutex is one step.  Lanes that cursors have  *)
(* pinned are not part of this module: a read here finishes its page.      *)
(***************************************************************************)
EXTENDS Handle

CONSTANTS
    Calls,          \* concurrent tool calls
    Principals,
    PrincipalOf,    \* who makes each call
    Slots,          \* the pool's places, settings.http.pool_size of them
    Ops             \* bound: the operations the calls ask for

HandleOps == {"status", "run", "copy_in", "savepoint", "rollback_to"}
FinishOps == {"commit", "rollback"}
LaneOps == {"read", "catalog", "write", "write_outside", "dry_run"}

ASSUME PrincipalOfAssumption == PrincipalOf \in [Calls -> Principals]
ASSUME OpsAssumption == Ops \subseteq HandleOps \cup FinishOps \cup LaneOps

\* The argument of a call is a statement or the name of a savepoint.
ASSUME ArgumentsAssumption == Names \cap Writes = {}

VARIABLES
    conns,      \* the session in each place of the pool
    handles,    \* every PooledHandle there ever was
    open,       \* the keys of PooledHandles.open
    closed,     \* PooledHandles.closed
    ended,      \* Engine.ended, the handles ended behind their caller's back
    shutdown,   \* release_everything: has it the table, and is it done
    draining,   \* the handles it has taken out of the table
    durable,    \* the writes the server has made durable
    told,       \* what the caller of each write was answered
    pc          \* where each call is

table == << open, closed, ended >>
vars == << conns, handles, open, closed, ended, shutdown, draining, durable, told, pc >>

-------------------------------------------------------------------------------
(* Types                                                                   *)

(***************************************************************************)
(* struct PooledHandle with its WriteHandle.  done is history: the         *)
(* statements the caller has had acknowledged.  due: deadline() has passed.*)
(***************************************************************************)
PooledHandle == [conn: Slots, owner: Principals, savepoints: Seq(SavepointType),
                 done: SUBSET Writes, due: BOOLEAN]

(***************************************************************************)
(* at: "checkout"  pooled_begin has passed its checks and waits            *)
(*     "insert"    it has a connection with a block                        *)
(*     "wait"      a call on handle id has its Arc and waits for the mutex *)
(*     "inside"    it has the mutex                                        *)
(*     "lose"      it has found the connection closed and calls            *)
(*                 pooled_lose                                             *)
(*     "finish"    pooled_finish has taken handle id out of the table      *)
(*     "note"      it has ended the block, and out is the final state      *)
(*     "using"     a call without a handle has the connection conn         *)
(***************************************************************************)
Stages == {"idle", "checkout", "insert", "wait", "inside", "lose", "finish", "note", "using"}

Call == [at: Stages, op: Ops \cup {"begin", "none"}, id: Ids \cup {None},
         conn: Slots \cup {None}, arg: Writes \cup Names \cup {None}, out: ClosedStates]

\* What the caller of a write was answered, in which handle it was made, and
\* for whom.
Told == [out: Answers, by: Ids \cup {None}, for: Principals \cup {None}]

AtRest == [at |-> "idle", op |-> "none", id |-> None, conn |-> None, arg |-> None,
           out |-> "none"]

ASSUME NoneAssumption ==
    None \notin Ids \cup Slots \cup Writes \cup Names \cup Principals /\ None \notin PooledHandle

TypeOK ==
    /\ conns \in [Slots -> Session]
    /\ handles \in [Ids -> PooledHandle \cup {None}]
    /\ open \subseteq {i \in Ids : handles[i] # None}
    /\ closed \in [Ids -> ClosedStates]
    /\ ended \subseteq Ids
    /\ shutdown \in {"no", "holding", "done"}
    /\ draining \subseteq {i \in Ids : handles[i] # None}
    /\ durable \subseteq Writes
    /\ told \in [Writes -> Told]
    /\ pc \in [Calls -> Call]

\* A place without a connection and one with a closed connection are alike:
\* the pool connects anew.
Init ==
    /\ conns = [k \in Slots |-> Dead]
    /\ handles = [i \in Ids |-> None]
    /\ open = {}
    /\ closed = [i \in Ids |-> "none"]
    /\ ended = {}
    /\ shutdown = "no"
    /\ draining = {}
    /\ durable = {}
    /\ told = [w \in Writes |-> [out |-> "none", by |-> None, for |-> None]]
    /\ pc = [c \in Calls |-> AtRest]

-------------------------------------------------------------------------------
(* Who holds what                                                          *)

\* Mutant: pooled_lose is called before the guard of the handle is dropped.
LockedUntilLost(i) == \E c \in Calls : pc[c].at \in {"inside", "lose"} /\ pc[c].id = i

\* The mutex of handle i is taken.
Locked(i) == \E c \in Calls : pc[c].at = "inside" /\ pc[c].id = i

\* Mutant: a handle gives its connection back when it leaves the table.
ReferencedByTable(i) == i \in open \cup draining

\* The Arc of handle i is still referenced.
Referenced(i) == i \in open \cup draining \/ \E c \in Calls : pc[c].id = i

Taken(k) ==
    \/ \E c \in Calls : pc[c].conn = k
    \/ \E i \in {j \in Ids : handles[j] # None} : Referenced(i) /\ handles[i].conn = k

\* Nobody has the table's mutex; only a shutdown keeps it from step to step.
TableFree == shutdown # "holding"

OpenFor(ids, principal) == {i \in ids : handles[i].owner = principal}

HandleCap == IF Cardinality(Slots) > 1 THEN Cardinality(Slots) - 1 ELSE 1

Fresh == {i \in Ids : handles[i] = None}

Idling(c) == pc[c].at = "idle"
Finished(c) == pc' = [pc EXCEPT ![c] = AtRest]
Goto(c, stage) == pc' = [pc EXCEPT ![c].at = stage]

-------------------------------------------------------------------------------
(* The table                                                               *)

\* note_closed, which may forget entries that are handle_expiry old.
NoteClosed(ids, state) ==
    LET old == {i \in Ids : closed[i] \notin {"none", "forgotten"}}
    IN \E gone \in SUBSET old :
          closed' = IF ids = {} THEN closed
                    ELSE [i \in Ids |-> IF i \in ids THEN state
                                        ELSE IF i \in gone THEN "forgotten" ELSE closed[i]]

\* The sweep passes over a handle some call has locked.
Expired == {i \in open : handles[i].due /\ ~Locked(i)}

\* roll_back_quietly on the connections of the handles in ids.
RollBackEach(ids) ==
    LET places == {handles[i].conn : i \in ids}
        sessions == UNION {RollBackQuietly(conns[k]) : k \in places}
    IN \E after \in [places -> sessions] :
          /\ \A k \in places : after[k] \in RollBackQuietly(conns[k])
          /\ conns' = [k \in Slots |-> IF k \in places THEN after[k] ELSE conns[k]]

\* pooled_sweep, and the handles its caller then takes out of the table.
PooledSweep(taken) ==
    /\ RollBackEach(Expired)
    /\ open' = open \ (Expired \cup taken)
    /\ ended' = ended \cup Expired
    /\ NoteClosed(Expired, "expired")

Serves(ids, id, c) == id \in ids /\ handles[id].owner = PrincipalOf[c]

-------------------------------------------------------------------------------
(* The pool                                                                *)

\* Mutant: what came back in a block goes out in it.
ReadyForReuseAsIs(s) == IF s.alive THEN {s} ELSE {}

\* ready_for_reuse: a block that came back open is rolled back.
ReadyForReuse(s) == IF s.alive THEN {Idle} ELSE {}

\* A connection out of place k: a reused one, or a new one in the place of
\* one that is gone, too old or could not be reset.
Recycled(k) == ReadyForReuse(conns[k]) \cup {Idle}

\* checkout() gives up: every place is taken, the database cannot be reached,
\* or the pool has been closed.
PoolFails ==
    \/ \A k \in Slots : Taken(k)
    \/ "loss" \in Faults
    \/ shutdown = "done"

Available == IF shutdown = "done" THEN {} ELSE {k \in Slots : ~Taken(k)}

-------------------------------------------------------------------------------
(* pooled_begin                                                            *)

\* It counts the handles and lets the table go before it waits for the pool.
Begin(c) ==
    /\ Idling(c) /\ TableFree
    /\ Cardinality(Fresh) > Cardinality({d \in Calls : pc[d].op = "begin"})
    /\ PooledSweep({})
    /\ IF OpenFor(open', PrincipalOf[c]) # {} \/ Cardinality(open') >= HandleCap
       THEN UNCHANGED pc
       ELSE pc' = [pc EXCEPT ![c] = [AtRest EXCEPT !.at = "checkout", !.op = "begin"]]
    /\ UNCHANGED << handles, shutdown, draining, durable, told >>

\* The connection goes back to the pool when BEGIN fails.
OpenBlock(c) ==
    /\ pc[c].at = "checkout"
    /\ \/ PoolFails /\ Finished(c) /\ UNCHANGED conns
       \/ \E k \in Available : \E s \in Recycled(k) :
          \E r \in Then(Track(s), LAMBDA t : BeginBlock(t, "write")) :
             /\ conns' = [conns EXCEPT ![k] = r.st]
             /\ IF r.out = "ok"
                THEN pc' = [pc EXCEPT ![c].at = "insert", ![c].conn = k]
                ELSE Finished(c)
    /\ UNCHANGED << handles, table, shutdown, draining, durable, told >>

\* Mutant: the table is not looked at again after the wait.
InsertHandleAnyway(c) ==
    /\ pc[c].at = "insert" /\ TableFree
    /\ LET k == pc[c].conn
       IN \E i \in Fresh :
             /\ handles' = [handles EXCEPT ![i] =
                               [conn |-> k, owner |-> PrincipalOf[c], savepoints |-> << >>,
                                done |-> {}, due |-> FALSE]]
             /\ open' = open \cup {i}
             /\ UNCHANGED conns
    /\ Finished(c)
    /\ UNCHANGED << closed, ended, shutdown, draining, durable, told >>

\* The principal may have got a handle in the meantime; the cap is not
\* looked at again.
InsertHandle(c) ==
    /\ pc[c].at = "insert" /\ TableFree
    /\ LET k == pc[c].conn
       IN IF OpenFor(open, PrincipalOf[c]) # {}
          THEN /\ \E s \in RollBackQuietly(conns[k]) : conns' = [conns EXCEPT ![k] = s]
               /\ UNCHANGED << handles, open >>
          ELSE \E i \in Fresh :
               /\ handles' = [handles EXCEPT ![i] =
                                 [conn |-> k, owner |-> PrincipalOf[c], savepoints |-> << >>,
                                  done |-> {}, due |-> FALSE]]
               /\ open' = open \cup {i}
               /\ UNCHANGED conns
    /\ Finished(c)
    /\ UNCHANGED << closed, ended, shutdown, draining, durable, told >>

-------------------------------------------------------------------------------
(* Calls on a handle.  x is [s, h]: the handle and its session.            *)

Lost(x) == {Reply(x, "lost")}
OnBlock(x, R) == {[r EXCEPT !.st = [x EXCEPT !.s = r.st]] : r \in R}

\* touch() moves the idle deadline; transaction_timeout may still have passed.
Touched(h) == {h, [h EXCEPT !.due = FALSE]}

MarkIn(x, name) ==
    IF ~x.s.alive THEN Lost(x)
    ELSE Then(Track(x), LAMBDA y :
         Then(OnBlock(y, Savepoint(y.s, name)), LAMBDA z :
             {Reply([z EXCEPT !.h = h], "ok") :
                h \in Touched([z.h EXCEPT !.savepoints =
                                  Append(@, [name |-> name, sofar |-> z.h.done])])}))

UndoIn(x, name) ==
    LET at == LastNamed(x.h.savepoints, name)
    IN IF at = 0 THEN Refuse(x)
       ELSE IF ~x.s.alive THEN Lost(x)
       ELSE Then(Track(x), LAMBDA y :
            Then(OnBlock(y, RollbackToSavepoint(y.s, name)), LAMBDA z :
                {Reply([z EXCEPT !.h = h], "ok") :
                   h \in Touched([z.h EXCEPT !.savepoints = SubSeq(@, 1, at),
                                             !.done = z.h.savepoints[at].sofar])}))

\* Mutant: a statement of a handle runs without the savepoint around it.
GuardedStatementBare(s, w) == RunAlone(s, w)

\* guarded_statement, and the COPY of copy_in_on inside a handle: SAVEPOINT
\* is refused where there is no block, and the statement is not sent.
GuardedStatement(s, w) == Guarded(s, LAMBDA t : RunWrite(t, w))

Ran(r, w) ==
    IF r.out = "ok" THEN Touched([r.st.h EXCEPT !.done = @ \cup {w}]) ELSE Touched(r.st.h)

\* Under the SET LOCAL of timed(), when the call has its own timeout.
RunIn(x, w) ==
    IF ~x.s.alive THEN Lost(x)
    ELSE Then(Track(x), LAMBDA y :
         UNION {IF r.st.s.alive THEN {[r EXCEPT !.st.h = h] : h \in Ran(r, w)}
                ELSE {[r EXCEPT !.out = "lost"]} :
                r \in OnBlock(y, Then(Command(y.s, y.s), LAMBDA s : GuardedStatement(s, w)))})

\* An error leaves the handle as it was, even when the connection is gone.
CopyInto(x, w) ==
    IF ~x.s.alive THEN Lost(x)
    ELSE Then(Track(x), LAMBDA y :
         UNION {IF r.out = "ok" THEN {[r EXCEPT !.st.h = h] : h \in Ran(r, w)} ELSE {r} :
                r \in OnBlock(y, GuardedStatement(y.s, w))})

StatusOf(x) == IF x.s.alive THEN {Reply(x, "ok")} ELSE Lost(x)

OnHandle(x, op, arg) ==
    CASE op = "status" -> StatusOf(x)
      [] op = "run" -> RunIn(x, arg)
      [] op = "copy_in" -> CopyInto(x, arg)
      [] op = "savepoint" -> MarkIn(x, arg)
      [] op = "rollback_to" -> UndoIn(x, arg)

Unissued == {w \in Writes : told[w].out = "none"}

Arguments(op) ==
    CASE op \in {"run", "copy_in"} -> Unissued
      [] op \in {"savepoint", "rollback_to"} -> Names
      [] OTHER -> {None}

\* Keeps every handle within MaxSavepoints.
MayMark(id) ==
    handles[id] # None =>
        Len(handles[id].savepoints)
            + Cardinality({c \in Calls : pc[c].id = id /\ pc[c].op = "savepoint"}) < MaxSavepoints

\* Mutant: any principal is served.
LookUpForAnyone(c, id, op, arg) ==
    /\ Idling(c) /\ TableFree
    /\ op = "savepoint" => MayMark(id)
    /\ PooledSweep({})
    /\ IF id \in open'
       THEN /\ pc' = [pc EXCEPT ![c] = [AtRest EXCEPT !.at = "wait", !.op = op, !.id = id,
                                                      !.arg = arg]]
            /\ told' = IF arg \in Writes
                       THEN [told EXCEPT ![arg] = [out |-> "running", by |-> id,
                                                   for |-> PrincipalOf[c]]]
                       ELSE told
       ELSE UNCHANGED << pc, told >>
    /\ UNCHANGED << handles, shutdown, draining, durable >>

\* pooled_lookup, and the same start of pooled_status.
LookUp(c, id, op, arg) ==
    /\ Idling(c) /\ TableFree
    /\ op = "savepoint" => MayMark(id)
    /\ PooledSweep({})
    /\ IF Serves(open', id, c)
       THEN /\ pc' = [pc EXCEPT ![c] = [AtRest EXCEPT !.at = "wait", !.op = op, !.id = id,
                                                      !.arg = arg]]
            /\ told' = IF arg \in Writes
                       THEN [told EXCEPT ![arg] = [out |-> "running", by |-> id,
                                                   for |-> PrincipalOf[c]]]
                       ELSE told
       ELSE UNCHANGED << pc, told >>
    /\ UNCHANGED << handles, shutdown, draining, durable >>

LockHandle(c) ==
    /\ pc[c].at = "wait" /\ ~Locked(pc[c].id)
    /\ Goto(c, "inside")
    /\ UNCHANGED << conns, handles, table, shutdown, draining, durable, told >>

\* The statements after the savepoint are undone, for the caller as well.
Tell(c, out, undone) ==
    told' = [w \in Writes |->
                IF w = pc[c].arg
                THEN IF out = "refused" THEN [out |-> "none", by |-> None, for |-> None]
                     ELSE [told[w] EXCEPT !.out = AnswerOf(out)]
                ELSE IF w \in undone THEN [told[w] EXCEPT !.out = "undone"] ELSE told[w]]

Work(c) ==
    /\ pc[c].at = "inside"
    /\ LET id == pc[c].id
           h == handles[id]
       IN \E r \in OnHandle([s |-> conns[h.conn], h |-> h], pc[c].op, pc[c].arg) :
             /\ conns' = [conns EXCEPT ![h.conn] = r.st.s]
             /\ handles' = [handles EXCEPT ![id] = r.st.h]
             /\ durable' = durable \cup r.kept
             /\ Tell(c, r.out, h.done \ r.st.h.done)
             /\ IF r.out = "lost" THEN Goto(c, "lose") ELSE Finished(c)
    /\ UNCHANGED << table, shutdown, draining >>

\* Mutant: the handle is noted as lost even if it has ended meanwhile.
LoseAnyway(c) ==
    /\ pc[c].at = "lose" /\ TableFree
    /\ LET lost == {pc[c].id}
       IN open' = open \ lost /\ ended' = ended \cup lost /\ NoteClosed(lost, "lost")
    /\ Finished(c)
    /\ UNCHANGED << conns, handles, shutdown, draining, durable, told >>

\* pooled_lose: by now the handle may have left the table another way.
Lose(c) ==
    /\ pc[c].at = "lose" /\ TableFree
    /\ LET lost == {pc[c].id} \cap open
       IN open' = open \ lost /\ ended' = ended \cup lost /\ NoteClosed(lost, "lost")
    /\ Finished(c)
    /\ UNCHANGED << conns, handles, shutdown, draining, durable, told >>

-------------------------------------------------------------------------------
(* pooled_finish                                                           *)

\* Mutant: the handle stays in the table until its end is noted.
FinishTransactionKeeping(c, id, op) ==
    /\ Idling(c) /\ TableFree
    /\ PooledSweep({})
    /\ pc' = IF Serves(open', id, c)
             THEN [pc EXCEPT ![c] = [AtRest EXCEPT !.at = "finish", !.op = op, !.id = id]]
             ELSE pc
    /\ UNCHANGED << handles, shutdown, draining, durable, told >>

\* The handle leaves the table before its connection has been waited for.
FinishTransaction(c, id, op) ==
    /\ Idling(c) /\ TableFree
    /\ IF Serves(open \ Expired, id, c)
       THEN /\ PooledSweep({id})
            /\ pc' = [pc EXCEPT ![c] = [AtRest EXCEPT !.at = "finish", !.op = op, !.id = id]]
       ELSE PooledSweep({}) /\ UNCHANGED pc
    /\ UNCHANGED << handles, shutdown, draining, durable, told >>

StatementOf(op) == IF op = "commit" THEN "COMMIT" ELSE "ROLLBACK"
StateOf(op) == IF op = "commit" THEN "committed" ELSE "rolled_back"

\* Mutant: the outcome of the command is recorded where its state belongs.
FinalStateOutcome(r, op) == IF r.out = "ok" THEN StateOf(op) ELSE r.out

\* The final state of a handle whose COMMIT or ROLLBACK was answered with r.
FinalState(r, op) ==
    IF r.out = "ok" THEN StateOf(op) ELSE IF r.st.alive THEN "rolled_back" ELSE "lost"

\* A cancelled call returns here: the handle is in no table any more.
EndBlock(c) ==
    /\ pc[c].at = "finish" /\ ~Locked(pc[c].id)
    /\ LET k == handles[pc[c].id].conn
           op == pc[c].op
           note(state) == pc' = [pc EXCEPT ![c].at = "note", ![c].out = state]
       IN IF ~conns[k].alive THEN note("lost") /\ UNCHANGED << conns, durable >>
          ELSE \E r \in Then(Track(conns[k]), LAMBDA s : FinishBlock(s, StatementOf(op))) :
                  /\ conns' = [conns EXCEPT ![k] = r.st]
                  /\ durable' = durable \cup r.kept
                  /\ IF r.out = "refused" THEN Finished(c) ELSE note(FinalState(r, op))
    /\ UNCHANGED << handles, table, shutdown, draining, told >>

NoteFinal(c) ==
    /\ pc[c].at = "note" /\ TableFree
    /\ NoteClosed({pc[c].id}, pc[c].out)
    /\ Finished(c)
    /\ UNCHANGED << conns, handles, open, ended, shutdown, draining, durable, told >>

-------------------------------------------------------------------------------
(* Calls without a handle, each on a connection of its own                 *)

LaneArguments(op) == IF op \in {"read", "catalog"} THEN {None} ELSE Unissued

\* checkout() of a read, an autocommitted write, a COPY or a dry run.
Take(c, op, arg) ==
    /\ Idling(c)
    /\ LET issue(out) == told' = IF arg \in Writes
                                 THEN [told EXCEPT ![arg] = [out |-> out, by |-> None,
                                                             for |-> PrincipalOf[c]]]
                                 ELSE told
       IN \/ PoolFails /\ issue("failed") /\ UNCHANGED << conns, pc >>
          \/ \E k \in Available : \E s \in Recycled(k) :
                /\ conns' = [conns EXCEPT ![k] = s]
                /\ pc' = [pc EXCEPT ![c] = [AtRest EXCEPT !.at = "using", !.op = op,
                                                          !.conn = k, !.arg = arg]]
                /\ issue("running")
    /\ UNCHANGED << handles, table, shutdown, draining, durable >>

OfSession(R) == {[r EXCEPT !.st = r.st.s] : r \in R}

OnTaken(s, op, arg) ==
    CASE op = "read" -> OfSession(ReadWhole([NewLane EXCEPT !.s = s]))
      [] op = "catalog" -> OfSession(CatalogOnLane([NewLane EXCEPT !.s = s]))
      [] op = "write" -> Autocommit(s, arg, FALSE)
      [] op = "write_outside" -> Autocommit(s, arg, TRUE)
      [] op = "dry_run" -> RunThenRollback(s, arg)

Use(c) ==
    /\ pc[c].at = "using"
    /\ LET k == pc[c].conn
           arg == pc[c].arg
           op == pc[c].op
       IN \E r \in Then(Track(conns[k]), LAMBDA s : OnTaken(s, op, arg)) :
             /\ conns' = [conns EXCEPT ![k] = r.st]
             /\ durable' = durable \cup r.kept
             /\ told' = IF arg \in Writes
                        THEN [told EXCEPT ![arg].out = IF op = "dry_run" THEN "undone"
                                                       ELSE AnswerOf(IF r.out = "refused"
                                                                     THEN "error" ELSE r.out)]
                        ELSE told
    /\ Finished(c)
    /\ UNCHANGED << handles, table, shutdown, draining >>

-------------------------------------------------------------------------------
(* The sweeper, the shutdown and the environment                           *)

\* Mutant: the sweep does not reach the pooled handles.
SweepCursorsOnly == TableFree /\ UNCHANGED vars

Sweep ==
    /\ TableFree
    /\ PooledSweep({})
    /\ UNCHANGED << handles, shutdown, draining, durable, told, pc >>

\* release_everything takes the table, then one handle after the other.
ReleaseHandles ==
    /\ shutdown = "no"
    /\ shutdown' = "holding"
    /\ draining' = open
    /\ open' = {}
    /\ UNCHANGED << conns, handles, closed, ended, durable, told, pc >>

ReleaseHandle(i) ==
    /\ i \in draining /\ ~Locked(i)
    /\ RollBackEach({i})
    /\ draining' = draining \ {i}
    /\ ended' = ended \cup {i}
    /\ NoteClosed({i}, "rolled_back")
    /\ UNCHANGED << handles, open, shutdown, durable, told, pc >>

ClosePool ==
    /\ shutdown = "holding" /\ draining = {}
    /\ shutdown' = "done"
    /\ UNCHANGED << conns, handles, table, draining, durable, told, pc >>

LoseConnection(k) ==
    /\ "loss" \in Faults /\ conns[k].alive
    /\ conns' = [conns EXCEPT ![k] = Dead]
    /\ UNCHANGED << handles, table, shutdown, draining, durable, told, pc >>

\* handle_expiry without a call, or transaction_timeout, has passed.
DeadlinePasses(i) ==
    /\ i \in open /\ ~handles[i].due
    /\ handles' = [handles EXCEPT ![i].due = TRUE]
    /\ UNCHANGED << conns, table, shutdown, draining, durable, told, pc >>

Start(c) ==
    \/ Begin(c)
    \/ \E id \in Ids : \/ \E op \in Ops \cap HandleOps : \E arg \in Arguments(op) :
                             LookUp(c, id, op, arg)
                       \/ \E op \in Ops \cap FinishOps : FinishTransaction(c, id, op)
    \/ \E op \in Ops \cap LaneOps : \E arg \in LaneArguments(op) : Take(c, op, arg)

GoOn(c) ==
    \/ OpenBlock(c) \/ InsertHandle(c)
    \/ LockHandle(c) \/ Work(c) \/ Lose(c)
    \/ EndBlock(c) \/ NoteFinal(c)
    \/ Use(c)

Shutdown == ReleaseHandles \/ (\E i \in Ids : ReleaseHandle(i)) \/ ClosePool

Next ==
    \/ \E c \in Calls : Start(c) \/ GoOn(c)
    \/ Sweep \/ Shutdown
    \/ \E k \in Slots : LoseConnection(k)
    \/ \E i \in Ids : DeadlinePasses(i)

Spec == Init /\ [][Next]_vars

(***************************************************************************)
(* A call that has started is polled until it returns; the mutex of a      *)
(* handle is first come, first served (tokio), so a waiting call gets it   *)
(* in the end; the sweeper is a task of its own, and so is a shutdown.     *)
(***************************************************************************)
Fairness ==
    /\ \A c \in Calls : WF_vars(GoOn(c)) /\ SF_vars(LockHandle(c)) /\ SF_vars(EndBlock(c))
    /\ WF_vars(Sweep)
    /\ WF_vars(ClosePool) /\ \A i \in Ids : SF_vars(ReleaseHandle(i))

LiveSpec == Spec /\ Fairness

-------------------------------------------------------------------------------
(* Properties                                                              *)

(***************************************************************************)
(* A place of the pool serves one user at a time: two handles some call    *)
(* can still reach, two calls, or a handle and a call never share one.     *)
(***************************************************************************)
Reached(i) == i \in open \cup draining \/ \E c \in Calls : pc[c].id = i
HandlesAt(k) == {i \in Ids : Reached(i) /\ handles[i] # None /\ handles[i].conn = k}
CallsAt(k) == {c \in Calls : pc[c].conn = k}

ConnectionsAreExclusive ==
    \A k \in Slots :
        /\ \A i, j \in HandlesAt(k) : i = j
        /\ \A c, d \in CallsAt(k) : c = d
        /\ HandlesAt(k) = {} \/ CallsAt(k) = {}

(***************************************************************************)
(* "second_handle": a principal has at most one open handle, even when two *)
(* of its begins wait for a connection at once.                            *)
(***************************************************************************)
OneHandlePerPrincipal ==
    \A i, j \in open : handles[i].owner = handles[j].owner => i = j

(***************************************************************************)
(* The block of an open handle holds the writes of its own owner made      *)
(* under its own identifier, and nothing that a connection brought along   *)
(* from the pool or another principal sent.                                *)
(***************************************************************************)
BlocksHoldOwnWrites ==
    \A i \in open :
        /\ conns[handles[i].conn].block \in {"none", "write"}
        /\ \A w \in Pending(conns[handles[i].conn]) :
              told[w].by = i /\ told[w].for = handles[i].owner

(***************************************************************************)
(* An open handle is not without its block: until the table says otherwise *)
(* its connection is closed or inside the block the handle was begun with. *)
(***************************************************************************)
OpenHandlesHaveABlock ==
    \A i \in open : conns[handles[i].conn].alive => conns[handles[i].conn].block = "write"

(***************************************************************************)
(* What a status call says of a closed handle stays so until it is         *)
(* forgotten: no call that lost a race notes another end.                  *)
(***************************************************************************)
EndsAreFinal ==
    [][\A i \in Ids : closed[i] # "none" => closed'[i] \in {closed[i], "forgotten"}]_vars

(***************************************************************************)
(* A call without a handle that was answered as done is durable, and a dry *)
(* run changes nothing, whatever state its connection came out of the pool *)
(* in.                                                                     *)
(***************************************************************************)
LanesKeepTheirWord ==
    \A w \in Writes :
        told[w].by = None =>
            /\ told[w].out = "done" => w \in durable
            /\ told[w].out = "undone" => w \notin durable

(***************************************************************************)
(* A due handle that no call is using is closed without anybody's help.    *)
(***************************************************************************)
Abandoned(i) ==
    /\ i \in open
    /\ handles[i].due
    /\ \A c \in Calls : pc[c].id # i

DueHandlesClose == \A i \in Ids : Abandoned(i) ~> ~Abandoned(i)

(***************************************************************************)
(* Calls and the shutdown never wait for each other's mutexes in a circle: *)
(* every call returns, one that waits for a table the shutdown holds too.  *)
(***************************************************************************)
CallsReturn == \A c \in Calls : pc[c].at # "idle" ~> pc[c].at = "idle"
(***************************************************************************)
(* The pooled engine keeps the same promises as the local one: whatever    *)
(* calls, sweeps, losses and a shutdown do to a handle at once, it leaves  *)
(* the table once, ends once and as noted, does no work after its end, and *)
(* becomes durable whole or not at all.  A handle that a call or the       *)
(* shutdown has taken out of the table is leaving.                         *)
(***************************************************************************)
PhaseOf(i) ==
    IF handles[i] = None THEN "fresh"
    ELSE IF i \in open THEN "open"
    ELSE IF closed[i] = "none" THEN "leaving" ELSE closed[i]

Promised == INSTANCE Transactions WITH
    phase <- [i \in Ids |-> PhaseOf(i)],
    issued <- [i \in Ids |-> {w \in Writes : told[w].by = i}],
    done <- [i \in Ids |-> {w \in Writes : told[w].by = i /\ told[w].out = "done"}]

HandlesKeepPromises == Promised!Spec
===============================================================================
