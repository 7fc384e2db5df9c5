--------------------------------- MODULE Tools ---------------------------------
(***************************************************************************)
(* The life of a call to a tool that sends SQL: the statement it renders   *)
(* or takes, the classifier's word on it, the listing of what a CASCADE    *)
(* reaches, the confirmation gate, and the run (tools/write.rs,            *)
(* tools/maintenance.rs, tools/read.rs).                                   *)
(*                                                                         *)
(* Around the calls: other sessions create objects, the clock moves, the   *)
(* process restarts, and a client sends a call again with a confirmation   *)
(* it was handed, or with one it has sent before.  What PostgreSQL does    *)
(* with a statement is stated on its own, without the classifier.          *)
(***************************************************************************)
EXTENDS Toolbox

CONSTANTS
    MaxCalls,     \* bound: calls to tools, each made once and in order
    Principals,
    Nonces,
    Catalogue,    \* requests made by one call on its own
    Retried,      \* requests that several calls make, with confirmations sent back
    Modes,        \* the access modes a server is started in
    Poolings,     \* whether a pooler stands before PostgreSQL
    MaxTime,      \* bound: ticks of the clock on the wall
    MaxStarts,    \* bound: starts of the process
    Ttl, KeyFile, None

ASSUME ToolsAssumption ==
    /\ None \notin {"confirmed_argument", "confirmed_elicitation"}
    /\ MaxTime \in Nat /\ MaxStarts \in Nat /\ MaxCalls \in Nat \ {0}
    /\ Ttl \in Nat /\ KeyFile \in BOOLEAN

Calls == 1..MaxCalls

Gate == INSTANCE ConfirmGate

VARIABLES
    mode,         \* settings.mode
    pooled,       \* a connection pooler was found
    menu,         \* the requests of this behaviour
    dependents,   \* objects that hang from what a CASCADE drops: [schema, id]
    gate,         \* the confirmation gate
    now,          \* the clock on the wall
    starts,       \* the times the process started at
    sent,         \* sealed confirmations handed to clients
    call          \* the calls
vars == <<mode, pooled, menu, dependents, gate, now, starts, sent, call>>

-----------------------------------------------------------------------------
(* Tools and what they make of a request. *)

ReadTools == {"pg_run_query", "pg_count", "pg_explain"}
Offered(tool) == IF tool \in ReadTools THEN AllowsReads(mode) ELSE AllowsWrites(mode)

Maintenance == {"pg_vacuum", "pg_analyze", "pg_reindex", "pg_refresh", "pg_backend"}

\* The tools whose arguments have no `confirm`, and those without `transaction`.
Unconfirmable ==
    ReadTools \union {"pg_insert", "pg_analyze", "pg_reindex", "pg_refresh", "pg_copy",
                      "pg_privileges"}
Handleless == ReadTools \union Maintenance

\* A statement in a request is one the parser gives; the maintenance tools take no SQL.
ASSUME RequestsAssumption ==
    \A r \in Catalogue \union Retried :
        /\ r.sql \in StatementType /\ WellMarked(r.sql) /\ r.where \in Conditions
        /\ r.tool \in Maintenance => r.text = "none"
        /\ r.tool = "pg_backend" => r.op \in {"cancel", "terminate"}

Rendering(r) ==
    CASE r.tool = "pg_table" -> Table(r)
      [] r.tool = "pg_column" -> Column(r)
      [] r.tool = "pg_constraint" -> Constraint(r)
      [] r.tool = "pg_index" -> Index(r)
      [] r.tool = "pg_view" -> View(r)
      [] r.tool = "pg_sequence" -> SequenceTool(r)
      [] r.tool = "pg_routine" -> Routine(r)
      [] r.tool = "pg_trigger" -> Trigger(r)
      [] r.tool = "pg_type" -> Type(r)
      [] r.tool = "pg_extension" -> Extension(r)
      [] r.tool = "pg_comment" -> Comment(r)
      [] r.tool = "pg_publication" -> Publication(r)
      [] r.tool = "pg_role" -> Role(r)
      [] r.tool = "pg_grant" -> Grant(r)
      [] r.tool = "pg_policy" -> Policy(r)
      [] r.tool = "pg_privileges" -> Privileges(r)
      [] r.tool = "pg_insert" -> Insert(r)
      [] r.tool = "pg_update" -> Update(r)
      [] r.tool = "pg_delete" -> Delete(r)
      [] r.tool = "pg_merge" -> Merge(r)
      [] r.tool = "pg_vacuum" -> Vacuum(r)
      [] r.tool = "pg_analyze" -> Analyze(r)
      [] r.tool = "pg_reindex" -> Reindex(r)
      [] r.tool = "pg_refresh" -> Refresh(r)
      [] r.tool = "pg_backend" -> Backend(r)
      [] OTHER -> {}

-----------------------------------------------------------------------------
(* A prepared call is [stmt, found, route]: the statement, its             *)
(* classification, and how it goes on.  None is prepared when it is        *)
(* refused.                                                                *)

Prepared(s, c, route) == {[stmt |-> s, found |-> c, route |-> route]}

\* classify_checked
Checked(s, route) ==
    LET c == Classification(s)
    IN  IF Authorized(c, mode, pooled) THEN Prepared(s, c, route) ELSE {}

\* refuse_non_read
RunQuery(r) == {p \in Checked(r.sql, "read") : p.found.class = "read"}

\* A count is of one table; an estimate with a filter is checked as the count is, and
\* explained.  No filter and no `exact` reads the catalog only.
Count(r) ==
    LET counted == Holding([On("SelectStmt", {}) EXCEPT !.where = r.where], r)
    IN  IF r.foreign \/ ~TextAccepted(r) THEN {}
        ELSE IF Given(r, "exact") \/ Given(r, "filter") THEN Checked(counted, "read")
        ELSE Prepared(On("SelectStmt", {}), Classification(On("SelectStmt", {})), "read")

Explainable == WriteKinds \union {"SelectStmt", "CreateTableAsStmt", "RefreshMatViewStmt"}
Explained(r) ==
    [r.sql EXCEPT !.kind = "ExplainStmt",
                  !.marks = MarksOf(r, {"analyze"}),
                  !.inner = @ \union Nodes(r.sql)]
Explain(r) ==
    IF r.sql.kind \notin Explainable THEN {}
    ELSE LET checked == Checked(Explained(r), "read")
         IN  {IF p.found.class = "read" THEN p ELSE [p EXCEPT !.route = "rollback"] : p \in checked}

RunWrite(r) ==
    {p \in Checked(r.sql, "execute") : p.found.class \in {"write", "procedure"}
                                       /\ p.found.kind # "CopyStmt"}

\* COPY FROM STDIN goes on without authorize and without the gate; COPY TO reads.
Copy(r) ==
    LET in == On("CopyStmt", {"from"})
        out == [On("CopyStmt", {}) EXCEPT !.inner = Nodes(r.sql), !.relations = r.sql.relations,
                                          !.functions = r.sql.functions, !.ctes = r.sql.ctes]
        query == {p \in Checked(r.sql, "read") : p.found.class = "read"
                                                 /\ p.found.kind = "SelectStmt"}
    IN  CASE r.op = "in" /\ Given(r, "table") /\ ~r.foreign /\ Given(r, "data") ->
                Prepared(in, Classification(in), "copy")
          [] r.op = "out" /\ Given(r, "query") ->
                {[p EXCEPT !.stmt = out, !.found = Classification(out)] : p \in query}
          [] r.op = "out" /\ ~Given(r, "query") /\ Given(r, "table") /\ ~r.foreign ->
                Prepared(On("CopyStmt", {}), Classification(On("CopyStmt", {})), "read")
          [] OTHER -> {}

\* A tool that renders: verify, and for all but maintenance authorize.  The query of a
\* view is checked on its own first.
Render(r) ==
    LET queryChecked == r.tool = "pg_view" /\ r.op = "create" => Checked(r.sql, "read") # {}
        verified == {q \in Rendering(r) : q.stmt.kind \in q.expected /\ queryChecked}
        forced(c) == [c EXCEPT !.destructive = @ \/ Forced(r)]
    IN  UNION {IF r.tool \in Maintenance
               THEN Prepared(q.stmt, forced(Classification(q.stmt)), "maintain")
               ELSE Checked(q.stmt, "execute") : q \in verified}

Prepare(r) ==
    CASE r.tool = "pg_run_query" -> RunQuery(r)
      [] r.tool = "pg_count" -> Count(r)
      [] r.tool = "pg_explain" -> Explain(r)
      [] r.tool = "pg_run_write" -> RunWrite(r)
      [] r.tool = "pg_copy" -> Copy(r)
      [] OTHER -> Render(r)

-----------------------------------------------------------------------------
(* What PostgreSQL makes of a statement.  "read only", "rolled back",      *)
(* "block" and "alone" are the places a statement runs in.                 *)

\* What a statement changes, by kind and by the functions it calls.
KindEffects(n) ==
    CASE n.kind \in WriteKinds -> {"rows"}
      [] n.kind = "CopyStmt" -> IF "from" \in n.marks THEN {"rows"} ELSE {}
      [] n.kind = "SelectStmt" -> IF "into" \in n.marks THEN {"schema"}
                                  ELSE IF "locking" \in n.marks THEN {"row locks"} ELSE {}
      [] n.kind \in ProcedureKinds -> {"rows", "schema"}
      [] n.kind \in MaintenanceKinds -> {"storage"}
      [] n.kind \in DdlKinds \union RolesKinds -> {"schema"}
      [] n.kind = "VariableSetStmt" -> {"session"}
      [] OTHER -> {}
FunctionEffects(f) ==
    CASE f.does = "reach out" -> {"beyond the database"}
      [] f.does = "notify or lock" -> {"other sessions"}
      [] f.does = "reset statistics" -> {"statistics"}
      [] f.does = "lock in transaction" -> {"other sessions"}
      [] OTHER -> {}

\* EXPLAIN without ANALYZE runs nothing.
Effects(s) ==
    IF s.kind = "ExplainStmt" /\ "analyze" \notin s.marks THEN {}
    ELSE UNION {KindEffects(n) : n \in Nodes(s)} \union UNION {FunctionEffects(f) : f \in s.functions}
            \union IF \E n \in Nodes(s) : n.kind = "CopyStmt" /\ n.marks \intersect {"program", "file"} # {}
                   THEN {"beyond the database"} ELSE {}

\* READ ONLY stops what changes rows, schema and storage; it stops nothing else.
Stopped(place) == IF place = "read only" THEN {"rows", "schema", "storage", "row locks"}
                  ELSE IF place = "rolled back" THEN {"rows", "schema", "storage", "row locks"} ELSE {}
EffectsIn(s, place) == Effects(s) \ Stopped(place)

NeedsAlone(s) ==
    \/ s.kind \in {"IndexStmt", "DropStmt", "ReindexStmt", "AlterTableStmt"} /\ "concurrently" \in s.marks
    \/ s.kind \in {"VacuumStmt", "CreatedbStmt", "DropdbStmt"}

Cascades(s) ==
    /\ "cascade" \in s.marks
    /\ \/ s.kind \in {"DropStmt", "TruncateStmt"}
       \/ s.kind = "AlterTableStmt" /\ s.marks \intersect {"drop column", "drop constraint"} # {}

\* The rows of a table that a condition picks: `narrow` picks one of two, and a column
\* compared with itself picks both.
Holds[e \in Conditions, row \in 1..2] ==
    CASE e.op = "absent" -> TRUE
      [] e.op = "const" -> e.holds
      [] e.op = "self" -> TRUE
      [] e.op = "narrow" -> row = 1
      [] e.op = "and" -> \A i \in DOMAIN e.args : Holds[e.args[i], row]
      [] e.op = "or" -> \E i \in DOMAIN e.args : Holds[e.args[i], row]
      [] e.op = "not" -> ~Holds[e.args[1], row]
      [] e.op \in {"cast", "apply"} -> Holds[e.args[1], row]
PicksEveryRow(e) == \A row \in 1..2 : Holds[e, row]

\* Statements after which data, access or a guarantee cannot be had back.
Loses(s) ==
    \/ s.kind \in {"DropStmt", "TruncateStmt", "DropRoleStmt", "DropOwnedStmt", "DropdbStmt",
                    "DoStmt", "CallStmt"}
    \/ \E n \in Nodes(s) : n.kind \in {"DeleteStmt", "UpdateStmt"} /\ PicksEveryRow(n.where)
    \/ \E n \in Nodes(s) : n.marks \intersect {"drop column", "drop constraint", "retype using", "set table",
                                              "drop table"} # {}

-----------------------------------------------------------------------------
(* The process and its calls. *)

Idle == [stage |-> "idle", request |-> None, principal |-> None, confirm |-> FALSE,
         dryRun |-> FALSE, handle |-> FALSE, elicits |-> FALSE, pending |-> None,
         answer |-> "missing", prepared |-> None, present |-> {}, listed |-> {}, verdict |-> None,
         place |-> None, dropped |-> {}]

Init ==
    /\ mode \in Modes /\ pooled \in Poolings
    /\ menu \in {{r} : r \in Catalogue} \union {Retried}
    /\ menu = Retried => mode = "read-write" /\ ~pooled
    /\ dependents = {}
    /\ gate = Gate!NewGate(0, 1)
    /\ now = 0 /\ starts = <<0>>
    /\ sent = {}
    /\ call = [c \in Calls |-> Idle]

\* One call makes a request of the catalogue; the retried ones have all the calls, and
\* those leave the `confirm` argument alone.
Alone == menu # Retried
Makes(c) == call[c].stage = "idle" /\ IF Alone THEN c = 1 ELSE \A d \in 1..(c - 1) : call[d].stage # "idle"
FirstPrincipal == CHOOSE q \in Principals : TRUE

Becomes(c, state) == call' = [call EXCEPT ![c] = state]

\* What `prepare` leaves of a request: a call that is prepared, or one that is refused.
Arrived(r, p, confirm, elicits, dryRun, handle, answer, pending) ==
    LET made == Prepare(r)
    IN  [Idle EXCEPT !.stage = IF made = {} THEN "refused" ELSE "prepared",
                     !.request = r, !.principal = p, !.confirm = confirm, !.dryRun = dryRun,
                     !.handle = handle, !.elicits = elicits, !.pending = pending,
                     !.answer = answer,
                     !.prepared = IF made = {} THEN None ELSE CHOOSE m \in made : TRUE]

\* The tool takes the arguments, renders or classifies, and is authorized.
Arrive(c, r, p, confirm, elicits) ==
    /\ Makes(c) /\ Offered(r.tool)
    /\ confirm => r.tool \notin Unconfirmable /\ Alone /\ ~elicits
    /\ c = 1 => p = FirstPrincipal
    /\ \E dryRun, handle \in BOOLEAN, answer \in {"accepted", "declined", "missing"},
          pending \in sent \union {None} :
          /\ pending = None => answer = "missing"
          /\ dryRun => Alone /\ r.tool \notin ReadTools /\ ~confirm /\ ~elicits /\ ~handle
          /\ handle => Alone /\ r.tool \notin Handleless
          /\ Becomes(c, Arrived(r, p, confirm, elicits, dryRun, handle, answer, pending))
    /\ UNCHANGED <<mode, pooled, menu, dependents, gate, now, starts, sent>>

\* cascade_listing, from catalog rows read on a connection of its own.
OutsideServed(objects) == {d \in objects : d.schema # ServedSchema}
Listing(p) == IF p.route = "execute" /\ p.found.targets # {} THEN dependents ELSE {}
ListingRefusedWhole(listed) == listed # {} /\ OutsideServed(listed) = listed
ListingRefused(listed) == OutsideServed(listed) # {}
List(c) ==
    LET p == call[c].prepared
        listed == Listing(p)
    IN  /\ call[c].stage = "prepared"
        /\ Becomes(c, [call[c] EXCEPT
                          !.listed = listed, !.present = dependents,
                          !.stage = IF ListingRefused(listed) THEN "refused"
                                    ELSE IF call[c].dryRun THEN "replied" ELSE "listed"])
        /\ UNCHANGED <<mode, pooled, menu, dependents, gate, now, starts, sent>>

\* The gate is asked of a statement the classifier, the listing or the tool calls
\* destructive; COPY and what only reads is not brought before it.
Destroys(c) ==
    /\ call[c].prepared.route \in {"execute", "maintain"}
    /\ call[c].prepared.found.destructive \/ call[c].listed # {}
Ungated(c) ==
    /\ call[c].stage = "listed" /\ ~Destroys(c)
    /\ Becomes(c, [call[c] EXCEPT !.stage = "cleared", !.verdict = "allowed"])
    /\ UNCHANGED <<mode, pooled, menu, dependents, gate, now, starts, sent>>

Unused == Nonces \ {s.nonce : s \in sent}
Gated(c) ==
    LET k == call[c]
        statement == [tool |-> k.request.tool, sql |-> k.prepared.stmt]
        said == Gate!Check(gate, [confirm |-> k.confirm, pending |-> k.pending, answer |-> k.answer,
                                  elicits |-> k.elicits, principal |-> k.principal,
                                  statement |-> statement], now, None)
        sealed == Gate!Seal(gate, CHOOSE n \in Unused : TRUE, statement, k.principal, now)
    IN  /\ k.stage = "listed" /\ Destroys(c)
        /\ said.verdict = "ask" => Unused # {}
        /\ Becomes(c, [k EXCEPT
                          !.verdict = said.verdict,
                          !.stage = CASE said.verdict \in {"confirmed_argument", "confirmed_elicitation"} ->
                                           "cleared"
                                      [] said.verdict = "ask" -> "asked"
                                      [] OTHER -> "refused"])
        /\ gate' = said.gate
        /\ sent' = IF said.verdict = "ask" THEN sent \union {sealed} ELSE sent
        /\ UNCHANGED <<mode, pooled, menu, dependents, now, starts>>

\* run_write refuses a handle to what runs outside a transaction; behind a pooler all
\* else runs in a block of its own.  What only reads takes no notice of a handle.
HandleRefused(c) == call[c].handle /\ call[c].prepared.found.outside
PlaceOf(c) ==
    CASE call[c].prepared.route = "read" -> "read only"
      [] call[c].prepared.route = "rollback" -> "rolled back"
      [] OTHER -> IF call[c].handle \/ (pooled /\ ~call[c].prepared.found.outside)
                  THEN "block" ELSE "alone"

RunRefused(c) ==
    /\ call[c].stage = "cleared" /\ HandleRefused(c)
    /\ Becomes(c, [call[c] EXCEPT !.stage = "refused"])
    /\ UNCHANGED <<mode, pooled, menu, dependents, gate, now, starts, sent>>

Run(c) ==
    LET gone == IF Cascades(call[c].prepared.stmt) THEN dependents ELSE {}
    IN  /\ call[c].stage = "cleared" /\ ~HandleRefused(c)
        /\ Becomes(c, [call[c] EXCEPT !.stage = "ran", !.place = PlaceOf(c), !.dropped = gone])
        /\ dependents' = dependents \ gone
        /\ UNCHANGED <<mode, pooled, menu, gate, now, starts, sent>>

-----------------------------------------------------------------------------
(* Around the calls. *)

\* Another session makes an object that hangs from what the calls of this behaviour drop.
Depend(d) ==
    /\ Alone /\ d \notin dependents
    /\ \E c \in Calls : call[c].stage \in {"prepared", "listed", "cleared"}
                        /\ Cascades(call[c].prepared.stmt)
    /\ dependents' = dependents \union {d}
    /\ UNCHANGED <<mode, pooled, menu, gate, now, starts, sent, call>>

Tick ==
    /\ ~Alone /\ now < MaxTime
    /\ now' = now + 1
    /\ UNCHANGED <<mode, pooled, menu, dependents, gate, starts, sent, call>>

\* The process ends, its calls with it, and starts again.
Restart ==
    /\ ~Alone /\ Len(starts) < MaxStarts
    /\ starts' = Append(starts, now)
    /\ gate' = Gate!NewGate(now, Len(starts) + 1)
    /\ call' = [c \in Calls |-> IF call[c].stage \in {"prepared", "listed", "cleared"}
                               THEN [call[c] EXCEPT !.stage = "lost"] ELSE call[c]]
    /\ UNCHANGED <<mode, pooled, menu, dependents, now, sent>>

Next ==
    \/ \E c \in Calls :
          \/ \E r \in menu, p \in Principals, confirm, elicits \in BOOLEAN :
                 Arrive(c, r, p, confirm, elicits)
          \/ List(c) \/ Ungated(c) \/ Gated(c) \/ RunRefused(c) \/ Run(c)
    \/ \E d \in [schema : {ServedSchema, "other"}, id : {1}] : Depend(d)
    \/ Tick \/ Restart

Spec == Init /\ [][Next]_vars

-----------------------------------------------------------------------------
(* Properties. *)

Ran(c) == call[c].stage = "ran"
StatementRun(c) == call[c].prepared.stmt

\* In read-only mode no call changes anything: not the data, which the READ ONLY
\* transaction looks after, and not what such a transaction leaves alone (other
\* sessions, statistics, what lies beyond the database), which only the classifier
\* keeps out.
ReadOnlyChangesNothing ==
    mode = "read-only" => \A c \in Calls : Ran(c) => EffectsIn(StatementRun(c), call[c].place) = {}

\* The conditions the classifier looks through: it goes down into "and" and "or", and into
\* a "not", a cast or any other operator only as long as all below is constant.
LooksThrough[e \in Conditions] ==
    /\ e.op \in {"not", "cast", "apply"} => IsConstant[e]
    /\ e.op \in {"and", "or"} => \A i \in DOMAIN e.args : LooksThrough[e.args[i]]
Decided(s) == \A n \in Nodes(s) : LooksThrough[n.where]

\* Of those, is_absent_or_constant decides every one: the hypothesis under which
\* LossNeedsConsent is proved.
ConditionsDecided ==
    \A e \in Conditions : LooksThrough[e] /\ PicksEveryRow(e) => AbsentOrConstant(e)

\* What is dropped, emptied, or overwritten in every row was agreed to: by an argument of
\* that call, or by an answer to the prompt.  The loss is read off the rows a condition
\* picks, not off the shape of the condition.
LossNeedsConsent ==
    \A c \in Calls :
        Ran(c) /\ Loses(StatementRun(c)) /\ Decided(StatementRun(c)) =>
            \/ call[c].verdict \in {"confirmed_argument", "confirmed_elicitation"}
            \/ Stopped(call[c].place) # {}

\* A prompt that was agreed to once lets one statement through, for the principal it was
\* shown to, however often and wherever it is sent again.  With the key in a file the
\* ledger is lost with the process: a confirmation of the very second the process starts
\* in is of either process.
ConfirmedOnce ==
    \A c, d \in Calls :
        LET p == call[c].pending
        IN  /\ call[c].stage \in {"cleared", "ran"} /\ call[c].verdict = "confirmed_elicitation" =>
                  p.principal = call[c].principal /\ p \in sent
            /\ (/\ c # d
                /\ call[c].verdict = "confirmed_elicitation"
                /\ call[d].verdict = "confirmed_elicitation"
                /\ call[d].pending = p) => \E i \in 2..Len(starts) : starts[i] = p.issuedAt

\* TRUNCATE ... CASCADE is no target of the listing (classify.rs cascade_targets).
Listed(s) == s.kind # "TruncateStmt"

\* What a call reads, changes or takes down with it is in the served schema.  An object
\* elsewhere that hung from what is dropped when it was listed refused the call; one made
\* since then goes down with it.  What is named without a schema is in the served schema
\* by the search path, which a pooler does not keep: there only a name that begins with
\* "pg_" goes without a schema.
ServedSchemaOnly ==
    \A c \in Calls : Ran(c) =>
        /\ \A r \in StatementRun(c).relations :
              \/ InScope(r.schema)
              \/ r.schema = NoSchema /\ (pooled => r.name \in StatementRun(c).ctes \union CatalogNames)
        /\ Listed(StatementRun(c)) => OutsideServed(call[c].dropped \intersect call[c].present) = {}

\* DROP INDEX and DETACH PARTITION are not looked at for CONCURRENTLY.
Unmarked(s) == s.kind \in {"DropStmt", "AlterTableStmt"}

\* What PostgreSQL refuses in a transaction block is not sent in one: neither in the
\* caller's handle, which it would abort, nor in the block a pooled run makes.
OutsideBlocks ==
    \A c \in Calls : Ran(c) /\ NeedsAlone(StatementRun(c)) /\ ~Unmarked(StatementRun(c)) =>
        call[c].place = "alone"

\* A tool runs the operations it describes: with its arguments complete, names in the
\* served schema, no SQL inside that is refused and nothing that hangs from what it
\* drops, a call that is confirmed is not refused.  pg_trigger (ddl/routine.rs:34) says
\* that it drops triggers, pg_policy that it drops policies.
Complete(r) == Rendering(r) # {} /\ r.text = "none" /\ ~r.foreign /\ r.tool # "pg_view"
OperationsRun ==
    \A c \in Calls :
        (/\ mode = "read-write" /\ ~pooled
         /\ call[c].stage # "idle" /\ Alone /\ ~call[c].handle
         /\ call[c].confirm
         /\ Complete(call[c].request) /\ dependents = {}) => call[c].stage # "refused"
================================================================================
