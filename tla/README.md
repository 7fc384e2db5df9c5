# ownpg in TLA+

ownpg is an MCP server for PostgreSQL: a client (a language model's host)
calls tools, the server turns each call into SQL on a few connections it
keeps, and promises things about what was done: a transaction handle commits
what its caller was told, a cursor stays readable until it expires, a
destructive statement runs when somebody agreed to it, an audit log cannot lose
a line unnoticed. This directory specifies those promises, checks them with TLC
and proves with TLAPS the ones about both engines, the call pipeline, the audit
log, the host programs, the signing keys and the HTTP sessions.

Paths below are relative to the repository; `engine.rs` is
`crates/ownpg-core/src/engine.rs` and so on.

## 1. The system and its parts

| Component | State it keeps | Operations | Hard because | Module |
|---|---|---|---|---|
| **local engine** (`engine.rs`, `Engine::start`, the stdio server) | one primary connection with at most one write handle, its savepoints, a read transaction with cursors; a second connection opened on demand; the final states of closed handles | begin, status, commit, rollback, savepoint, rollback_to, statements in and outside a handle, COPY in and out, dry runs, catalog reads, paged reads, fetch, close_cursor, sweep, release | calls interleave at every release of a mutex; every command can fail, be cancelled or lose the connection; handles and cursors expire under the calls that use them | `LocalEngine` |
| **pooled engine** (`engine.rs`, `Engine::start_pooled`, the HTTP server) | a pool of connections, a table of handles with their owners, lanes pinned by cursors | the same operations for several principals | check, await, insert; a handle removed while a call waits for it | `PooledEngine` |
| **session and connector** (`connect/mod.rs`) | a `tokio_postgres` client | connect, liveness probe, reset before reuse | a probe that times out on a live connection; a connection that comes back to the pool inside a block | `PgSession`, `Lane` |
| **server call pipeline** (`server/mod.rs`) | calls in flight, handle owners, resource invalidations parked until a commit, the audit writer's queue | call, sweep, shutdown | events of one handle arrive out of order; a shutdown with a deadline | `ServerCalls` |
| **confirmation gate** (`tools/confirm.rs`) | a signing key, the ledger of spent confirmations | seal, check, answer | the ledger is pruned by time and empty after a restart | `ConfirmGate`, `Tools` |
| **statement classifier** (`classify.rs`) | none | a statement's class, what it changes, loses and takes down, what it may not be run in | many forms, few of them tested together | `Classify` |
| **tools** (`tools/*.rs`, `tools/ddl/*.rs`, `tool_specs.rs`, `render.rs`) | none of their own | one statement per operation, rendered from its arguments, on a path of checks | the rendered text is classified again; checks and run are apart in time | `Toolbox`, `Requests`, `Tools` |
| **host programs** (`tools/host.rs`) | staging files, password files, child processes | dump, globals, base backup, restore, upgrade check, and the sweeps of leftovers | every await may be the last: cancelled, out of time, dropped, or the process dies | `HostJobs` |
| **audit log** (`audit.rs`) | a hash-chained file, its rotated predecessors, the count of unreported failures | admit, record, rotate, prune, recover, verify | torn lines, crashes in a rotation, several processes, a failure that races the marker of an earlier one | `AuditLog` |
| **signing keys** (`server/http/jwks.rs`) | cached keys with their age | lookup, refresh | requests share one refresh; stale keys while the endpoint is down | `Jwks`, `Gateway` |
| **HTTP transport** (`server/http/*.rs`) | sessions' owners, limits, connections | guard a request, bind a session, drain | a session is created between the read of the live ones and the purge; clients leave at any await | `Gateway` |
| **configuration** (`config/*.rs`) | none | resolve settings and passwords from six kinds of places | precedence, and what is refused | `Config` |
| SSH, stdio framing, result shaping, resources, prompts, metrics, CLI | little | I/O and formatting | | not modelled |

How they interact: a transport hands a request to `Server::call`, which admits
it (audit, limits), registers its cancellation token, runs the tool, and the
tool renders or takes a statement, classifies it, asks the confirmation gate
when the statement loses something, and calls the engine once or a few times.
The engine takes a mutex (local) or a lane from the pool (pooled), sends
commands to PostgreSQL and returns a result or a typed error. Afterwards the
server writes the audit line and parks or publishes resource invalidations. A
sweeper task calls `Engine::sweep` every few seconds, which expires handles and
cursors and drops the idle second connection. A client's cancellation is a flag
on the call and a cancel request to PostgreSQL.

What makes each part correct:

* **engines**: a handle's acknowledged work becomes durable together or not at
  all, and the recorded end of the handle says which; the block on the server
  and the handle the engine believes in go together; no error path leaves a
  block or a cursor that no call would end; due handles are closed even if
  nobody calls; in the pool a handle serves its owner alone and no connection
  goes out again inside a block.
* **call pipeline**: what is announced as changed was committed, and what was
  committed is announced; a line handed to the audit writer is written.
* **classifier, tools and gate**: in read-only mode nothing changes; nothing is
  lost without consent; one consent runs one statement once; nothing outside
  the served schema is touched; what may not run in a block does not.
* **host programs**: a call that ended leaves nothing behind, a restore is whole
  or absent unless it was asked otherwise, and a sweep takes no live job's files.
* **audit log**: what any sequence of failures and crashes leaves on the disk
  verifies, and a lost line is visible.
* **HTTP transport and signing keys**: a session serves whoever opened it; a
  withdrawn key expires; the issuer is spared.

`PROJECT.json` lists every component with its status, and under `hazards` the
places in the code where a test would hardly reach.

## 2. The plan

Done, in the order written:

1. `PgSession`, `Lane`, `Handle`, `LocalEngine` and their proofs: the
   transaction core.
2. `PooledEngine` on the same `Lane` and `Handle`, and its proofs.
3. `Transactions`, what both engines promise of a handle, with both shown to
   implement it, the proof of what that amounts to, and the proofs of both
   engines' refinement and of their properties over history.
4. `AuditLog`: the chain over files and processes, with `verify_chain` as the
   condition of correctness, and its proofs.
5. `ServerCalls`: the pipeline around the engine, the sweeper and the shutdown,
   and its proofs.
6. `ConfirmGate`, `Classify`, `Toolbox`, `Requests`, `Tools`: the life of a call
   to a tool that sends SQL, and its proofs.
7. `Jwks`, `Config`, `Gateway`: the HTTP front, from the configuration it starts
   with; the proofs about keys and about sessions.
8. `HostJobs`: the tools that run programs, and its proofs.

Left:

* lanes that cursors pin to the pool (`fetch`, `checkout`, `reuse_pinned`,
  `prune_pinned`): a fetch takes a lane with every cursor on it out of the list
  for as long as it runs;
* several servers with one state key file, each with a ledger of its own;
* per-call timeouts, and which call a late cancel request hits.

## 3. The modules and how they correspond to the code

### PgSession (external: PostgreSQL through `tokio_postgres`)

One session as the engine relies on it: alive or not, the block it is in, failed
or not, and a stack of *frames* (one for the block, one per savepoint), each
with the writes and the cursors made since it was set. A command has a set of
possible replies `[st, out, kept]`: the session afterwards, the outcome the
engine sees, and the writes it made durable. `Then(R, F)` is the `?` of the
code: it goes on with `F` where the reply is ok and adds up what was kept.

`Faults` says what the environment may do: `"loss"` kills the connection under
a command, or between two; `"interrupt"` ends one of the engine's own commands
(BEGIN, SAVEPOINT, ROLLBACK ...) with an error, as a cancel request or
`statement_timeout` does; `"stall"` lets a liveness probe time out on a
connection that lives on. User statements may fail by themselves at any time.

### Lane (`engine.rs`: `struct Lane` and the free functions on it)

Each function of the code is an operator giving the set of replies it can
return, in the code's order of commands: `Guarded` (`guarded`: SAVEPOINT, the
statement, RELEASE or ROLLBACK TO), `CommitChecked` (`commit_checked` with
`lost_commit_outcome`), `FinishBlock`, `SettleTransaction`, `Autocommit`,
`RunThenRollback` (`run_and_rollback`), `BeginRead`, `RollbackAll`,
`FinishIfIdle`, `CloseCursors`, `SweepExpired`, `ReadPaged`, `ReadWhole`,
`FetchOnLane`, and so on. An error the code logs and drops is a reply whose
outcome is dropped.

### Handle (`engine.rs`: what both engines share about handles)

The savepoints a handle remembers, the states it is closed with
(`HandleState`, plus "forgotten" for what `note_closed` dropped), `Track`
(`track`: a call whose cancellation has already arrived stops), `LastNamed`
(the last savepoint of a name, which ROLLBACK TO truncates after) and
`AnswerOf`, what a caller learns from a reply.

### LocalEngine (`engine.rs`: `Engine::start` and its methods)

`primary` is `struct Primary`: the lane, the write handle with its savepoints,
and the states of closed handles (`ended` is the engine's own list of them).
`secondary` is the second lane or `None`. Two variables are history: `durable`,
what the server has made durable, and `told`, what the caller of each write was
answered and in which handle; so are `done` and `sofar` in a handle (the
statements acknowledged, now and at each savepoint). `stranded`, a third, becomes
true when `ensure_alive` has given a handle up, could not connect, and kept the
connection with the handle's block. `pc` says at which stage each call is.

A step is what a call does while it holds one mutex: the code keeps the
primary's mutex from a method's first command to its last, so nothing of the
engine interleaves inside, while a connection loss or a cancel request can hit
any command inside it. Where the code drops the primary's mutex and takes the
second one's (`read_hold`, `run_write`, `run_and_rollback`, `fetch`,
`close_cursor`, `sweep`, `drop_idle_secondary`, `release_everything`), the
action ends with the call at a stage, and the rest is another action
(`ReadSecond`, `WriteSecond`, `FetchSecond`, `SweepSecond`, `DropSecond`, ...).
The environment loses connections between calls and lets deadlines pass.

Simplifications, all of data or in the direction of more behaviours: time is the
Boolean `due` of a handle, and any cursor may have expired at any sweep;
statement texts, rows, sizes and messages are left out; any closed handle may
have been forgotten by `note_closed`; `release_everything` may run at any time
and the engine goes on after it (in the code the server exits); `Prefixed` is
`connection.pooled`. Not modelled: the progress connection, the registry of
cancel tokens (a cancellation is an interrupted command or a refusal at
`track`), and timeouts per call.

### PooledEngine (`engine.rs`: `Engine::start_pooled` and the `pooled_*` methods)

`conns` is the session in each place of the pool (a place without a connection
and one with a closed connection are alike: the pool connects anew). `handles`
is every handle there ever was, `open` the keys of the table that maps
identifiers to them, `closed` and `ended` the two records of how handles ended.
`shutdown` and `draining` are `release_everything`, which keeps the table's mutex
while it takes the handles one by one. `durable`, `told` and `done` in a handle
are history, as in `LocalEngine`.

`pc` is where each call is. A handle call finds its handle in the table, drops
the table's mutex and waits for the handle's (`LookUp` to "wait", `LockHandle`
to "inside"), works (`Work`), and goes through the table again when it found the
connection closed (`Lose`, which is `pooled_lose`). COMMIT and ROLLBACK take the
handle out of the table first, then wait for its mutex, end the block and note
the final state (`FinishTransaction`, `EndBlock`, `NoteFinal`). `begin` counts
under the table's mutex, waits for a connection without it and inserts under it
again (`Begin`, `OpenBlock`, `InsertHandle`). A call without a handle has a
connection of its own (`Take`, `Use`).

What the code does under one mutex is one step, so the steps are exactly the
points where another call can come between. The mutexes are read off the
stages: a handle is `Locked` while a call is "inside" it, and the table is
`TableFree` except while a shutdown keeps it. The `Arc` that keeps a handle and
its connection alive after it left the table is `Referenced`. `Recycled` is
what the pool hands out: a connection that came back, after `ready_for_reuse`,
or a new one.

Simplifications: a deadline is the Boolean `due`, and whether `touch` moves it
is open (`Touched`), because the deadline of the whole transaction may have
passed; `Ops` bounds the operations an instance asks for. Not modelled: lanes
pinned by cursors (a read finishes its page), and cancel tokens and per-call
timeouts other than as interrupted commands.

### Transactions (what `engine.rs` and README.md promise of a handle)

A handle is fresh, open, leaving (out of the table, its end not yet on record),
then ended as committed, rolled_back, expired or lost, then perhaps forgotten.
`issued` are the writes sent in it, `done` those answered as done and not
undone, `durable` what the server made durable. A commit makes `done` durable
and nothing else of the handle; an end on record agrees with what became of the
work. Several handles may move in one step, because a sweep ends every due one.

Both engines have the refinement mapping in a definition `Promised ==
INSTANCE Transactions WITH ...`, and `HandlesKeepPromises` is `Promised!Spec`.
A call that already waits for a handle may still be answered after the handle's
ROLLBACK was interrupted; nothing of it becomes durable, and `Work` allows that.

### ServerCalls (`server/mod.rs`)

`pc` is where a call is: arrived, executing, handing its line over, announcing,
done. The tool and the engine are one step,
`Execute`, with the effect on handles that the engine modules show; the sweeper
expires handles and lists them for `record_ended`; `parked` holds the
invalidations of DDL until its handle commits, at most `ParkCap`; the audit
writer's tasks run on their own, and the shutdown waits for them until its
deadline. Left out: tool registration, list and subscribe requests, the
in-flight registry. `AllOps` also has `restore` (a host program that announces
everything), which the run does not ask for.

### AuditLog (`audit.rs`)

`disk` is the lines, name and lock of each inode, `sink` what each process
believes of its file. A line's hash is its own number; each line names the line
before it. `recover_tail` reads at most `TAIL_SCAN_BYTES` of a file and nothing
bounds a line, so an entry or a pruned marker may be `long`: what a reopened file
links to is then the hash of the line's tail (`TailHash`), which is no line's. `record` is the steps `Record`, `GapLoad`, `GapMark`, `GapClear`,
`WriteEntry` under the log's lock, cut where `note_failure` (`NoteCount`,
`NoteFlag`), which takes no lock, can come between; `admit` is `Admit` and the
same gap steps. `WriteLine` writes a line in full, cuts it back, or leaves a part
of it; `KeepCurrent` is rotation with the carried hash, and `Pruned`. `Crash`
leaves a line in part or without its newline; `Move` is somebody moving the file.
`Verifies` is `verify_chain`. `probe` and `flush` are left out.

### ConfirmGate, Classify, Toolbox, Requests, Tools

`ConfirmGate` is the gate's own operations: seal, check, spend, prune the
ledger. Sealing is ideal: what opens was sealed with this key and has not been
changed.

`Classify` is `classify.rs` over abstract trees: a statement is the kind of its
top node and of everything nested in it, the marks on each, its condition, and
the names it holds. `ClassFound`, `NoteDestructive`, `CascadeTargets`,
`OutsideTransaction`, `Authorized` follow the walk of the code, the WHERE check
(`MatchesEveryRow`) included. A dozen node kinds stand for
the hundreds of `pg_query`; what is left falls into the kinds the code treats alike.

`Toolbox` has, for each operation of each tool, the arguments it needs, those
that exclude each other, and the statement it renders; `Requests` enumerates for
each the subsets of its arguments that matter. `Tools` is the life of a call:
classify, authorize, list what a CASCADE reaches, ask, check the answer, dry run
or run. Around it other sessions create objects (`Depend`), the clock moves, the
process restarts, and clients send confirmations again, or those of other calls.
What PostgreSQL does with a statement (`Effects`, `Loses`, `NeedsAlone`) is
stated on its own, without the classifier, so that the two can disagree.
The two tests of a condition are recursive functions over `Conditions`, a set that
holds with a condition what it is made of; so are `Holds` and `LooksThrough` in `Tools`.
A step changes one call (`Becomes`); `Arrived` is a call that came in, prepared or
refused.

### Config (`config/resolve.rs`, `libpq.rs`, `http.rs`, `keychain.rs`, `profile.rs`)

Each place a setting can come from is a partial function from settings to
values: flags, `OWNPG_*`, the profile, and the libpq layer (DSN over service
section over `PG*`). `Takes` says which places may give which setting,
`PresetOf` what stands when none does. `Resolves` holds when the start is not
refused: a malformed value refuses the start even where a stronger place
overrides it. `Password` is the order environment, profile, `password_env`,
keychain, libpq, password file; `TriesFallback` and `FallbackPassword` are the
second attempt as `postgres@127.0.0.1`, made only when nobody gave a user, host,
hostaddr or SSH route, with the same password unless that came from the file. A keychain account binds scope, user, host key, port and
route. The syntax of a DSN, of TOML and of URLs, warnings, and the
`config` commands that write files are left out.

### Jwks and Gateway (`server/http/jwks.rs`, `mod.rs`, `auth.rs`, `limit.rs`)

`Jwks` is the pure part: which members of a document are keys, which key
verifies which algorithm, when a cached set is fresh, throttled or stale, what a
call makes of its snapshot and what `refresh` finds under its mutex.

`Gateway` starts with the settings one of `Starts` resolves to, or is refused. A
request is one record: its stage, what the client asked, the session it names,
the set of keys it had looked at when it suspended (`seen`). A stage is an
await of the code: waiting for the mutex of the refresh, for the key endpoint,
for the end of its document, running in the service, a stream, between the read of the live sessions and the
table of owners (`ReadLive`, `Bind`). What lies between two awaits is one
action: `Authenticate` is the guard from the method to the service. A fetch is three:
`EnterRefresh` sends the request, `EndpointAnswers` is the moment the endpoint
decides what it says, and `FetchEnds` the last byte, when `fetched_at` is read;
they lie at most `FetchTimeout` apart. `asked` is history: when the endpoint was
asked. A client may
leave at each await; a mutex it holds is released. `Signal`, `Drained`, `SecondSignal`,
`DeadlinePasses` and `Teardown` are the stop.

### HostJobs (`tools/host.rs`)

A call goes from its checks through the sweep of leftovers, the password file,
staging and the child process to the rename and the answer; it can be cancelled,
run out of time or be dropped at an await, and the process can die between any
two steps while its children live on. `staged` and `final` are the output
directory, `passfiles` the private directory, `restored` what reached the database. Ages
are in ticks. A staging entry is `bare` when it was created and could not be
restricted, which happens before it has a guard. Assumptions: the clock does not tick while a call prepares itself
or is past its deadline (its timer fires first); a file's age counts from its
creation.

### The MC modules

`MCLocalEngine`, `MCPooledEngine`, `MCAuditLog` and `MCServerCalls` have the
symmetry sets: tasks, calls, handle ids, writes, cursors, places and inodes that
nothing tells apart. In `MCPooledEngine` calls `a1` and `a2` belong to one
principal and `b1` to another; the liveness runs use no symmetry. `MCTools`
has the catalogue of requests, `MCGateway` the tokens, key documents and starts and a
view (`Observed`) under which requests that are permuted, or ended differently, are alike,
`MCHostJobs` the calls and settings. `MCConfig` checks `Config` as a function:
three named assumptions, evaluated in the `Gateway` run over a few thousand
starts, compare it with definitions written from the documented order:

* `TheStrongestPlaceWins`: a setting given in any of its places is that of the
  strongest one;
* `NoPlaceHidesAMistake`: a malformed value refuses the start wherever it stands;
* `FilePasswordsKeepTheirTarget`: a password from the password file is sent only
  to the host, port and user its line was looked up for.

`MCTools` likewise evaluates `TheConditionsAreDecided`, the one fact about conditions
that the proofs suppose (section 5), on some 3700 conditions two levels deep.

## 4. The runs

| Run | Instance | Properties |
|---|---|---|
| `LocalEngine_faults` | one caller and the sweeper, one handle id, two writes, two savepoint names, two savepoints, loss and interruption, `Prefixed` | `TypeOK`, `NoWorkingOrphan`, `CommittedExactly`, `SavepointsMirrorServer`, `DueHandleIsFinished`, `HandlesKeepPromises` |
| `LocalEngine_interleaved` | two callers and the sweeper, one handle id, one write, two cursors, loss, stalled probes | `HandleExcludesReads`, `AcknowledgedWritesAreDurable`, `CursorsMirrorServer`, `DryRunsChangeNothing` |
| `LocalEngine_live` | two callers and the sweeper, a handle, a cursor, loss, fairness | `DueHandleCloses`, `SecondConnectionCloses` |
| `PooledEngine_races` | two calls of one principal, two places, one handle, two writes, one savepoint, loss and interruption, `Prefixed` | `TypeOK`, `OpenHandlesHaveABlock`, `EndsAreFinal`, `HandlesKeepPromises` |
| `PooledEngine_owners` | three calls of two principals, three places, two handles, one write, interruption, `Prefixed` | `ConnectionsAreExclusive`, `OneHandlePerPrincipal`, `BlocksHoldOwnWrites`, `LanesKeepTheirWord` |
| `PooledEngine_live` | two calls of one principal, two places, one handle, one write, loss, fairness | `DueHandlesClose`, `CallsReturn` |
| `AuditLog_chain` | two processes on one path, two threads of the first, three files of two lines, one kept, five lines, two lost entries, every fault | `SoundFilesVerify`, `LossIsVisible`, `GapsAddUp`, `FailingLogIsDegraded` |
| `ServerCalls_resources` | three calls of one principal, one handle, two parked invalidations, two ended handles, a failing disk, a shutdown with a deadline | `OnlyCommittedAnnounced`, `CommittedIsAnnounced`, `LinesSurviveShutdown` |
| `Tools_calls` | every request of the catalogue in one call; three calls that retry with two confirmations, two principals, two starts; three access modes, with and without a pooler | `ReadOnlyChangesNothing`, `LossNeedsConsent`, `ConfirmedOnce`, `ServedSchemaOnly`, `OutsideBlocks` |
| `Tools_operations` | the same in read-write mode, without a pooler | violation of `OperationsRun` |
| `Gateway` | three requests, two connections, two sessions, three ticks, one change of the key endpoint, fetches of up to a tick, the three auth modes | `SessionsServeTheirOwner`, `WithdrawnKeysExpire`, `EndpointIsSpared` |
| `HostJobs` | two calls, one name, four ticks, one crash | `NothingLeftBehind`, `RestoresAreWhole`, `SweepsSpareRunningJobs` |

### What they show

**Engines.** `HandlesKeepPromises` is the refinement: each step of an engine is a
step of `Transactions`. `CommittedExactly` says the same of the caller's own
answers, for the writes of a handle that was reported committed.
`NoWorkingOrphan`: a block that works on either connection belongs to the
handle or to a known read transaction. It and `AcknowledgedWritesAreDurable` speak
of the states before a handle is `stranded`, because the code breaks both
afterwards (the first disagreement below). `SavepointsMirrorServer` and
`CursorsMirrorServer`: what the engine remembers is what the server has, after
any failure of SAVEPOINT, RELEASE or ROLLBACK TO, or of a FETCH.
`AcknowledgedWritesAreDurable`: a write outside a handle that was reported done
is durable, although the mutex was let go between the check and the write.
`OpenHandlesHaveABlock`, `ConnectionsAreExclusive`, `BlocksHoldOwnWrites`,
`LanesKeepTheirWord`: two users of the pool never meet on one connection, nor
through what the first left on it.

**Audit log.** `SoundFilesVerify`: of the files nobody damaged, those that
do not verify are those opened again behind a line too long for `recover_tail`.
`LossIsVisible`: an acknowledged entry is in its file, or the file does not
verify, or it was pruned after every process had closed it. `GapsAddUp`: what
the markers say was lost and what they have yet to say is what was lost.
`FailingLogIsDegraded`: while entries fail to be written the log is degraded, so
that `admit` refuses.

**Pipeline.** Nobody hears of a change whose handle was not committed; what came
back before the commit was called is announced when the commit comes back, if
the parked list had room; after a shutdown that met no deadline every line is in
the file or counted as missed.

**Tools.** The five properties compare what PostgreSQL does with what the
checks let through. Three carve-outs name forms where the code is known to
differ, listed below (`Unmarked`, `Listed`, `Decided`).

**Gateway.** A request served in a session comes from whoever opened it, by
secret or by subject and kind. `WithdrawnKeysExpire`: a key the issuer has
withdrawn lets nobody in for longer than its set may be used and the time the set
may have been on its way. `EndpointIsSpared` looks at the history of all requests
for keys: any two are an interval apart, and one is under way at a time.

**Host programs.** A call that ended leaves no program, no password file and no
staging file but a `bare` one; a whole restore stays whole also when it is killed; a sweep never takes
the staging file of a program that still runs under a live call.

### Bounds and why they are enough

*Local engine.* Savepoint properties need two savepoints, two names (the same
twice, or two) and two writes (before and after one): `faults`. Cursor
properties need two cursors in one read transaction (one fails, the other must
live) and two calls (one between the mutexes, one changing what it saw):
`interleaved`, in which a probe may also stall with and without a connection to
replace the old one. One handle id is enough because the engine holds at most one
handle and an identifier is never reused. Each write is issued at most once;
`CursorCap` is `CURSOR_CAP` made small so that the cap is reached.

*Pooled engine.* Two calls are enough for every race over one handle (one waits,
the other ends it), beside the sweep, the shutdown and the environment:
`races`. Sharing needs two principals, two begins of one of them at once, and
a third place so that both have a handle while a call without one takes the
last connection: `owners`. Places are reused after a call that left one inside a
block, because interruption leaves it so.

*Audit log.* Two lines per file and five in all let a file fill up, be rotated and,
when it has expired (`KeepDays`: any of the oldest may have), be pruned, with a
crash or a failure at each place, and let a file be reopened behind a long line.
Two closed files, which is what pruning by number takes, need more lines than an
instance that is checked in minutes can have: for that TLC shows nothing, and the
theorems of section 5, which hold for any limits, do.

*Call pipeline.* Three calls: DDL in a handle, its commit, and a third beside
them. With one handle neither list of two overflows, and the two properties that
need room promise nothing once it is gone; the theorems hold for any number of
handles and any caps.

*Tools.* A call of the catalogue is alone, because the checks on it read no
state but the arguments; three calls with two nonces let one confirmation be
asked for, spent, and sent again after a restart and after its lifetime of one tick.

*Gateway.* Three requests: one fetches, one waits for it with an older set, one
brings an unknown key; two connections so that the limit is met; `MaxStale` 2
and lifetimes of 1 and 2, so that a set can be fresh, old and stale, and a fetch of
one tick, so that the bound of three, `LongestUse` and `FetchTimeout`, is reached
within `MaxTime` 3.

*Host programs.* Two calls on one name: one runs while the other sweeps or
publishes. Ages of 2 and 3 ticks against a longest timeout of 2 keep the code's
order (86 400 s, 86 400 s, 90 000 s).

Deadlock checking is off in every run: with all writes, calls, requests or
lines of the instance used up it stops.

Every property of a passing run has a mutant in `PROJECT.json`: a change of one
operator that a plausible bug would make, under which the same run fails. The
mutated operators stand beside the originals.

### Fairness

The local engine's `LiveSpec` assumes weak fairness of the sweeper's steps,
because the server spawns it as a task that loops until shutdown
(`server/mod.rs`), and of the second part of a call, because a call that waits
for a tokio mutex gets it (first come, first served) and no caller can hold one
for ever: commands have timeouts. The pooled one assumes that a call that can go
on does (weak fairness), that a call or the shutdown which waits for a handle's
mutex again and again gets it (strong fairness of the steps that take it), that
the sweeper runs and that a shutdown which has begun ends. New calls, deadlines
and losses may never come. The other modules state safety only: a tool's, a
client's or the issuer's answer may never come, and what ends their waits is a
timeout of I/O that the models take at any moment.

### Disagreements found

One is a run: `Tools_operations` shows that a call whose arguments are right and
whose effect is allowed can still be refused whatever it does. DROP TRIGGER and
DROP POLICY name a table before the object; `qualified_name` reads the table as
a schema, and `authorize` refuses the statement, although `tools/ddl/routine.rs:34`
and `tools/roles.rs:17` offer both.

The others were met while modelling; the models do what the code does, and the
properties are stated so as to allow for it:

* *engines*: `ensure_alive` (`engine.rs:1080`) gives the handle up, then
  connects; if the probe timed out on a connection that lives on and the connect
  fails, the old block stays open and a later write without a handle runs inside
  it, answered as done and undone with the block (`stranded`). A write that found the primary busy with cursors runs beside a handle
  opened in between (`engine.rs:1518`; the refusal at 1499 says it would not).
  `pooled_begin` compares with the cap, waits, and inserts without counting
  again (`engine.rs:1755-1782`). The pooled sweep passes over a due handle whose
  mutex a call holds (`engine.rs:1723`), and the next call is served. A pooled
  commit cancelled at `track` has left the table and records no end
  (`engine.rs:1868-1880`).
* *audit log and pipeline*: `recover_tail` (`audit.rs:794-812`) hashes at most the
  last `TAIL_SCAN_BYTES` of the last line, and nothing bounds the line: behind a
  longer one a restart writes a marker that links to no line, and `verify_chain`
  reports a file nobody damaged (`OpenedBehindLong`). `note_failure` runs after the lock is released; when
  `close_gap` clears the flag after it, that loss is in no marker until the next
  failure. A
  call still running when the shutdown reaches its deadline hands no line over.
* *classifier and tools*: DROP INDEX CONCURRENTLY and DETACH PARTITION
  CONCURRENTLY are not marked as outside a block (`Unmarked`); REINDEX always is.
  TRUNCATE ... CASCADE lists nothing (`Listed`). Below a `NOT`, a cast or another
  operator the WHERE check sees constants only (`classify.rs:1071-1140`): DELETE ...
  WHERE (a = a)::boolean takes every row and is not called destructive, although
  `write.rs:18`, `write.rs:20`, `README.md:32` and `SECURITY.md:25` say that what
  matches every row is (`Decided`). A SELECT INTO below a UNION
  is not seen. The listing of a CASCADE is made before the statement runs and is
  not part of what was confirmed. `pg_count` runs its filter without the class
  check, COPY out returns rows in write-only mode, and views cannot be created
  there; maintenance and COPY in skip `authorize`; a pooled engine refuses DROP
  EXTENSION, EVENT TRIGGER and PUBLICATION and CREATE TEMPORARY TABLE. A
  confirmation issued in the second of a restart passes again.
* *HTTP*: a set of keys is as old as the end of its fetch (`jwks.rs:396-401`), not
  as the issuer's answer, and may be used the longer for it, by up to the timeout
  of a fetch (`FetchTimeout` in `WithdrawnKeysExpire`). A fetch of the keys whose client leaves has used up the attempt of
  that minute, and others get 503 until it is over. Two opens of a session at
  once can lose an owner (`http/mod.rs:170-183`): the session then serves nobody.
  A client that leaves before `bind` leaves a session without an owner. An open
  GET stream holds the drain until its deadline. The limit on failed tokens is
  asked only after the token was checked. On stdio a second signal leaves without
  the shutdown.
* *host programs*: when the new staging entry cannot be restricted
  (`host.rs:406`, `host.rs:418`) the call ends and the entry stays, and blocks its
  name until the sweep after 25 hours. The guard of a staging file is not disarmed after the rename,
  so it can remove the staging of the next call with that name;
  `refuse_existing` and the rename are apart, and two calls can overwrite one
  output although `host.rs:377` says nothing is; a deadline is not polled while
  progress is reported; a killed `pg_restore` may have committed though it is
  reported as failed; after a crash the children live on and the name is blocked
  for a day.

## 5. What is proved

`LocalEngineProofs`: for every set of tasks, handle ids, writes, cursors and
savepoint names, every cap, with or without `Prefixed`, and every choice of
faults, stalled probes included:

* `EngineInvariant`: `Spec => [](~stranded => EngineInv)`, the inductive invariant
  (with `stranded \in BOOLEAN`);
* `TypeCorrect`: `Spec => [](~stranded => TypeOK)`;
* `HandleIsExclusive`: `Spec => [](~stranded => HandleExcludesReads)`;
* `NoBlockIsOrphaned`: `Spec => []NoWorkingOrphan`;
* `CursorsAreMirrored`: `Spec => [](~stranded => CursorsMirrorServer)`;
* `OnlyAStallStrands`: `Spec => []~stranded` where `Faults` does not include
  `"stall"`.

`stranded` is the one case in which the code leaves a working block that nobody owns:
a liveness probe timed out on a connection that lives on, `ensure_alive` gave the
handle up, and connecting failed too (the first disagreement above). Until then
everything holds under any faults; afterwards a write may run in that block, and
`NoWorkingOrphan` and `AcknowledgedWritesAreDurable` say so in their own statements.
A stalled probe after which the reconnection succeeds strands nothing.

`EngineInv` is stronger than these properties because none of them is
inductive: that no working block is an orphan says nothing of the savepoint
stack, so RELEASE could empty it; nor of a read transaction whose session has
failed, so a rollback could leave it open. `EngineInv` classifies lanes: a
*held* lane (the handle's: its session, while it lives, is in the write block
and has no cursor declared, and the lane has no read transaction and no cursor),
a *reading* lane (in a read block as long as it lives, with exactly the
registered cursors declared while the block works), a *resting* lane (no read transaction, no
cursor, no block that works). The primary is held exactly when it has a handle,
the second lane is never held, and every session is in order (it has frames
exactly in a block, fails only in a block, has no block once lost).

For the cursors it has to be followed what every command does to the portals of
every frame (`Holding`, in `LaneProofs`): the ROLLBACK TO of a guarded statement
takes back the cursor its DECLARE made, and no other; RELEASE moves the portals
of a savepoint one frame down; and a failed block, whose frames may hold any
portals, is left only by its end. A paged read declares under a name no frame
has, which is why its step needs that an engine that expires a handle or
reconnects registers no cursor on the way (`ReadHoldNarrow`).

About history, with one hypothesis more, that no caller names a savepoint
`ownpg_call` (`SAVEPOINT_NAME \notin Names`):

* `HistoryInvariant`: `Spec => [](~stranded => HistoryInv)`, the inductive invariant;
* `AcknowledgedAreDurable`: `Spec => []AcknowledgedWritesAreDurable`;
* `DryRunsAreUndone`: `Spec => [](~stranded => DryRunsChangeNothing)`;
* `CommitsAreExact`: `Spec => [](~stranded => CommittedExactly)`;
* `SavepointsAreMirrored`: `Spec => [](~stranded => SavepointsMirrorServer)`;
* `DueHandlesFinish`: `Spec /\ []~stranded => DueHandleIsFinished`;
* `PromisesAreKept`: `Spec /\ []~stranded => HandlesKeepPromises`, the refinement
  of `Transactions`.

`HistoryInv` adds three things to `EngineInv`. The handle mirrors its session
(`SoundPrimary`): the savepoints it remembers are the server's frames, name by
name, and what its caller was told is done is what those frames hold, frame by
frame: without the frames one cannot say what a ROLLBACK TO takes back. What callers were
told agrees with what is durable or can still become so (`Records`): a write
told done alone is durable, one told done in a handle is durable exactly when the
handle is on record as committed. And a call that let the mutex go between its
check and its write has that write to itself (`OnTheirWay`). The refinement goes handle
by handle: a step moves at most one handle to its next phase by itself, and the
same facts say that its work becomes durable with COMMIT and no other way.

The hypothesis on names is a limit of the result, not of the code's callers:
`validate_ident` (`render.rs:8`) reserves no name, so a caller may name a
savepoint `ownpg_call`. The runs do not do so either.

`LaneProofs` shows what each command and each function of `Lane` preserves, in
the form "from a session (lane) in S every reply is in T": a statement keeps
its block, COMMIT and ROLLBACK leave no working block on any path, and so on.
`LocalEngineProofs` lifts these to the primary and to the actions, one lemma
per operation, and puts `Next` together.

`PooledEngineProofs`: for every set of calls, principals, pool places, handle
ids, writes and savepoint names, every choice of operations, with or without
`Prefixed`, and every choice of faults:

* `PooledInvariant`: `Spec => []PooledInv`, the inductive invariant;
* `PooledTypeCorrect`: `Spec => []TypeOK`;
* `OneHandle`: `Spec => []OneHandlePerPrincipal`;
* `ExclusiveConnections`: `Spec => []ConnectionsAreExclusive`;
* `OpenHandlesKeepTheirBlock`: `Spec => []OpenHandlesHaveABlock`;
* `EndsStayFinal`: `Spec => EndsAreFinal`;

and, where no caller names a savepoint `ownpg_call` (`SAVEPOINT_NAME \notin Names`):

* `PooledHistory`: `Spec => []HistoryInv`, its second inductive invariant;
* `OwnWritesOnly`: `Spec => []BlocksHoldOwnWrites`;
* `LanesAnswerTruly`: `Spec => []LanesKeepTheirWord`;
* `PooledPromisesKept`: `Spec => HandlesKeepPromises`, the refinement of
  `Transactions`.

`ArgumentsAssumption` only keeps two kinds of arguments apart: a savepoint's name
is not a statement.

`PooledInv` says what each stage of a call may rely on while it holds no mutex
(`CallOK`: a begin that waits for the table brings a connection inside a block,
a call without a handle one outside any); that an open handle has its block and
no end on record (`HandleOK`); that a handle a call is ending has left the
table and the shutdown's list, has no end on record and is ended by that call
alone (`EndingOK`); and that two users of one place are the same (`Sharing`).
Each part carries another: the block of a handle survives a step of somebody
else only because places are not shared; places are not shared only because a
handle keeps its place for as long as some call reaches it, table or not; and
an end is noted once only because leaving the table is what gives a call the
right to note it. `OnHandleKeeps` shows that whatever a call does inside a
handle keeps its connection, its owner and the block; `StepKeeps` reduces each
action to what it moves; then there is one lemma per action.

`HistoryInv` adds what callers were told. For a handle (`HandleSound`): it
remembers exactly the statements its caller was told are done; as long as any
call can reach it, its session holds nothing but what was sent in it, frame for
frame as the handle's own savepoints have it (`OpenWork`), or the block is over
for good (`Settled`); and an end on record, or in the hands of a call about to
note it, is what became of the work. For a write outside any handle
(`ToldAlone`): *done* means durable and *undone* means not. For a call
(`CallSound`): one call carries a statement from issue to answer, which is why
no answer is overwritten by another's. The unlocked stretches are what makes
this hard: a call that waits for the mutex while its handle is swept, lost or
rolled back works on a block that is over, and `OnHandleLoose` shows that it
then gets no success but from a status call. Per step there are two kinds of
handles: those it has no business with rest (`HandleRests`; its connection may
still be lost under it, or swept), and rest is shown once to keep the invariant
and the promises; the one handle a step works in, ends or inserts has its own
lemma (`HandleWorkGoes`, `EndedGoes`, `NewHandleGoes`).

`LaneProofs` also has, for every set of handles and writes and any variables in
the place of those of `Transactions`:

* `EveryHandleAllOrNothing`: `Spec => []AllOrNothing`, of `Transactions`. What
  implements `Transactions` has it too, so it is what `HandlesKeepPromises`
  gives a caller. The strengthening adds that only what was sent is done.

`GatewayProofs`, for any number of requests, any requests, starts and documents
of the endpoint, any intervals that satisfy `JwksAssumption` (`DefaultTtl`
lies between the shortest and the longest lifetime, the interval of the refresh
is not zero):

* `KeysInvariant`: `Spec => []KeysOK`, the inductive invariant;
* `EndpointSpared`: `Spec => []EndpointIsSpared`;
* `WithdrawnExpire`: `Spec => WithdrawnKeysExpire`;
* `SessionsInvariant`: `Spec => []SessionsOK`, the inductive invariant of the
  table of owners;
* `OwnersServed`: `Spec => []SessionsServeTheirOwner`.

`KeysOK` relates the cache to what the issuer does: a key in it was listed no
earlier than the set's time less `FetchTimeout`, its lifetime is bounded
(`CacheOK`), and a suspended request
has looked at a set no newer than the cache's (`RequestsOK`). `FetchOK` is about the
request that has the mutex: only it asks the endpoint, the keys of the document it
reads were listed since the attempt began, and the last time in `asked` is the
cache's `lastAttempt`, which is what spreads the requests over all of history. `RequestsOK` is
what makes `WithdrawnKeysExpire` hold: when a refresh fails, a request goes on
because *its* set was usable, and then looks its key up in the *cache's*, which
somebody else may have replaced meanwhile. Each action of one request is reduced
to one of three moves (`GoesOn`, `Waits`, `AsksAgain`), and each move is shown
to keep the invariant and to be `Careful`.

`SessionsOK` says whom a principal key stands for: every request that acts under
a key is the person the key was made from, and a session's owner in the table is
the key of the person who opened it. It needs that the merge of the token
sources refuses a name that comes twice, or two persons would share a key. TLC
checks the property with tokens and without; the instance with OAuth subjects
and sessions takes too long for a run, and there the proof stands alone.

`HostJobsProofs`, for any calls, names, requests and crashes, where the longest
timeout is below the age a sweep asks for (`HostJobsAssumption`; 86 400 s and
90 000 s in the code):

* `JobsInvariant`: `Spec => []JobsInv`, the inductive invariant;
* `NothingIsLeft`: `Spec => []NothingLeftBehind`;
* `WholeRestores`: `Spec => []RestoresAreWhole`;
* `SweepsSpare`: `Spec => SweepsSpareRunningJobs`.

That an ended call leaves nothing is not inductive: the guard of one call could
remove, or miss, what another has under the same name. `JobsInv` says whose each output is, that it
is of the kind that call's guard removes, and that a running call's output is
younger than its timeout, which is what keeps a sweep from it. A `bare` entry is
that of a call that has ended (`BareOK`), and nothing else is known of it.

`ServerCallsProofs`, for any calls, principals, handles and caps:

* `CallsInvariant`: `Spec => []CallsInv`, the inductive invariant;
* `CommittedAnnounced`: `Spec => []OnlyCommittedAnnounced`;
* `CommitsAnnounce`: `Spec => []CommittedIsAnnounced`;
* `LinesSurvive`: `Spec => []LinesSurviveShutdown`.

`CallsInv` follows a change from the call that made it to the queue and from
there to the announcement: a handle has at most one entry, so with room for
every handle (`Cardinality(Handles) <= ParkCap`, a hypothesis of the property
itself, `EndedCap` likewise for the ended ones) no entry is pushed out. For the
shutdown it says where the line of an ended handle is: written, counted as missed, pending, or still
in the list that the next sweep or the shutdown records.

`AuditLogProofs`, for any processes, threads, paths, files, caps and faults:

* `AuditInvariant`: `Spec => []AuditInv`, the inductive invariant;
* `SoundFiles`: `Spec => []SoundFilesVerify`;
* `LossVisible`: `Spec => []LossIsVisible`;
* `GapsSum`: `Spec => []GapsAddUp`;
* `FailingIsDegraded`: `Spec => []FailingLogIsDegraded`.

`AuditInv` has a file be one chain up to its first torn line, in which a marker behind
a long line links to that line's tail (`HashFor`), and ties the
process to it: whoever holds the file's lock links to its last line and has its
length, or knows it is behind by the bytes of a failed write, in every state in which
it may write next. Which thread of a
process is where between `GapLoad` and `WriteEntry` is what makes the sums of
the markers come out.

`ToolsProofs`, for every catalogue of requests, any SQL in them, every mode, with
or without a pooler, any number of calls, principals and confirmations, any times
and starts:

* `CallsStaySound`: `Spec => []CallsSound`, the inductive invariant of the calls;
* `NothingChangesReadOnly`: `Spec => []ReadOnlyChangesNothing`;
* `OutsideEveryBlock`: `Spec => []OutsideBlocks`;
* `OnlyServedSchema`: `Spec => []ServedSchemaOnly`;
* `LossIsAgreedTo`: `ConditionsDecided` implies `Spec => []LossNeedsConsent`;
* `GateStaysSound`: `Spec => []GateSound`, the inductive invariant of the gate;
* `PromptsAreSpentOnce`: `Spec => []ConfirmedOnce`.

The properties speak of calls that ran, and what makes them true was decided when
the call was prepared, steps before. `CallsSound` carries it along: a call under way
holds a prepared statement that is `Sound` (a read-only tool's does no harm on
its route; what must stand alone was found and is on no route with a block; what
it names is in scope; a CASCADE has targets to list; what loses something was
called destructive), its listing was of all there was when it was made, the gate
cleared it if it destroys, and it ran where its route and handle put it. The weight
is in `PreparedIsSound`: every tool's preparation, each of its renderings
(`RenderingIsWellMade`) and any SQL, against what PostgreSQL does with the statement.
The classifier's part are lemmas about `Strongest` (the class of a statement is at
least that of each node) and about each of its findings (`ReadsAreHarmless`,
`AloneIsFound`, `CascadeIsFound`, `LossIsFound`).

`GateSound` strengthens `ConfirmedOnce` by what keeps an answered prompt from being
answered again: it is older than its lifetime, or sealed before the process started,
or in the ledger with a time not before its sealing, so that the ledger is pruned of
it only when it has expired (`Done`). A restart empties the ledger, and
only the second case is left; a prompt sealed in the very second of a restart is
the exception the property names (`Reborn`).

The hypotheses: `ConditionsAssumption` (a condition's parts are conditions),
`ToolsAssumption`, and `RequestsAssumption` (SQL is what the parser gives, where the
marks of ALTER TABLE stand on DDL nodes only; the maintenance tools take no SQL text).
`LossIsAgreedTo` has one more, `ConditionsDecided`: a condition the classifier looks
through (`LooksThrough`: below a `not`, a cast or another operator there are only
constants) that picks every row passes its test. That is an induction over conditions,
which this proof system cannot do; TLC evaluates it (`TheConditionsAreDecided`).

Only model-checked: `ConditionsDecided`, as said; `Config`, a function that TLC
evaluates; and liveness (`DueHandleCloses`, `SecondConnectionCloses`,
`DueHandlesClose`, `CallsReturn`), which the proof system does not reach. Every
other property of a passing run is a theorem.

## 6. What is not modelled, and why

* *Lanes pinned by cursors* in the pooled engine: in the plan. `PooledEngine`
  finishes the page of every read in one call.
* *Per-call timeouts and the cancel-token registry*: a command may be
  interrupted at any moment, which covers what a wrong timeout or a late cancel
  does to the engine, but not whose call it hits.
* *Tools that only read*: monitoring, health, object listings and the catalogue
  queries keep no state and take no decision another part relies on.
* *pg_query's own parser*, and the node kinds the tools never send.
* *SSH, TLS, connecting*: I/O.
* *stdio framing, command line, doctor and config commands, result shaping,
  errors, resources, prompts, metrics*: I/O, formatting and wording. That
  `prompts/get` and subscriptions leave no audit line is read from the source
  and not modelled.
* *Liveness of the stop of the HTTP server*: the instance in which a request
  holds it up is too large to check with fairness.

`PROJECT.json` has the status and the reason for each component.
