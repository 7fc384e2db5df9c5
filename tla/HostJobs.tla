-------------------------------- MODULE HostJobs --------------------------------
(***************************************************************************)
(* The tools that run a PostgreSQL program on the host (tools/host.rs):    *)
(* pg_dump, pg_dumpall_globals, pg_basebackup, pg_restore and              *)
(* pg_upgrade_check.  An output is written under a staging name and takes  *)
(* its own name when the program has succeeded; a password goes into a     *)
(* file beside it for as long as the program runs.                         *)
(*                                                                         *)
(* Jobs are calls on several threads of one process.  A stretch of code    *)
(* without an await is cut where it touches the file system twice; the     *)
(* process may die at every cut, and its children live on.                 *)
(***************************************************************************)
EXTENDS Integers, FiniteSets

CONSTANTS
    Jobs,             \* calls, in any order
    Names,            \* file names inside output_dir
    Asks,             \* arguments: see the operators on them below
    Setups,           \* settings: [outputDir, programs, tunnel, password]
    Archive,          \* the objects an archive holds
    TimeoutCap,       \* 86_400 seconds, in ticks
    StalePartialAge, StalePassfileAge,
    MaxTime,          \* bound: ticks of the clock
    MaxCrashes,       \* bound: deaths of the process
    None

ASSUME HostJobsAssumption ==
    /\ TimeoutCap \in Nat \ {0} /\ StalePartialAge \in Nat /\ StalePassfileAge \in Nat
    /\ TimeoutCap < StalePartialAge
    /\ MaxTime \in Nat /\ MaxCrashes \in Nat /\ None \notin Jobs \union Asks
    /\ \A ask \in Asks : ask.timeout \in Nat /\ ask.single \in {"on", "off", "unset"}

VARIABLES
    setup,
    now,
    crashes,
    job,        \* of each job: [stage, ask, deadline]
    child,      \* its program: "none", "running", "ok" or "failed"
    staged,     \* of each name: the staging entry for it, [job, since, directory, bare], or None
    final,      \* of each name: the entry there, [directory], or None
    passfiles,  \* [job, since]
    restored    \* of each job: the objects its restore has committed

vars == <<setup, now, crashes, job, child, staged, final, passfiles, restored>>

-----------------------------------------------------------------------------
(* Arguments. *)

Restores(ask) == ask.tool = "pg_restore"
Directory(ask) == ask.tool = "pg_basebackup" \/ (ask.tool = "pg_dump" /\ ask.format = "directory")
Writes(ask) == ask.tool \in {"pg_dump", "pg_dumpall_globals", "pg_basebackup"}

Stages(ask) == Writes(ask) /\ ~ask.dryRun

Batched(ask) == ask.jobs \/ ask.transactionSize
SingleWhenAsked(ask) == ask.single = "on"
Single(ask) == ask.single = "on" \/ (ask.single = "unset" /\ ~Batched(ask))

\* Refusals before output_dir is looked at, and after.
RefusedAtOnce(ask) ==
    \/ ask.tool \in {"pg_dump", "pg_restore"} /\ ask.dataOnly /\ ask.schemaOnly
    \/ Restores(ask) /\ Single(ask) /\ Batched(ask)
    \/ Restores(ask) /\ ask.ifExists = "on" /\ ~ask.clean
RefusedLater(ask) ==
    \/ ask.tool # "pg_upgrade_check" /\ ask.name \notin Names
    \/ ~ask.wellFormed
    \/ ask.tool = "pg_dump" /\ ask.jobs /\ ask.format # "directory"

Consents(ask) == ~(Restores(ask) /\ ask.clean) \/ ask.confirm # "no"
ProgramOf(ask) ==
    CASE ask.tool = "pg_dumpall_globals" -> "pg_dumpall"
      [] ask.tool = "pg_upgrade_check" -> "pg_upgrade"
      [] OTHER -> ask.tool

Unclamped(seconds) == IF seconds < 1 THEN 1 ELSE seconds
Clamped(seconds) == IF seconds < 1 THEN 1 ELSE IF seconds > TimeoutCap THEN TimeoutCap ELSE seconds

-----------------------------------------------------------------------------
(* Files. *)

Stale(file, age) == now - file.since >= age

\* sweep_stale_partials and sweep_stale_passfiles.  A file is as old as its creation: the
\* program may write nothing for as long as it runs.
PartialsSwept ==
    [n \in Names |-> IF staged[n] # None /\ Stale(staged[n], StalePartialAge) THEN None ELSE staged[n]]
PassfilesSwept == {f \in passfiles : ~Stale(f, StalePassfileAge)}

WithoutPassfile(j) == {f \in passfiles : f.job # j}

\* StagingGuard::drop removes what has the staging name, whoever made it, when it is of the
\* kind the job stages; run_program by itself does so only once the program has ended.
Discards(j, name) ==
    /\ Stages(job[j].ask) /\ job[j].ask.name = name
    /\ staged[name] # None /\ staged[name].directory = Directory(job[j].ask)
GuardedWhenRun(j) ==
    [n \in Names |-> IF job[j].stage = "running" /\ Discards(j, n) THEN None ELSE staged[n]]
Guarded(j) == [n \in Names |-> IF Discards(j, n) THEN None ELSE staged[n]]

-----------------------------------------------------------------------------

Init ==
    /\ setup \in Setups
    /\ now = 0 /\ crashes = 0
    /\ job = [j \in Jobs |-> [stage |-> "idle", ask |-> None, deadline |-> 0]]
    /\ child = [j \in Jobs |-> "none"]
    /\ staged = [n \in Names |-> None]
    /\ final = [n \in Names |-> None]
    /\ passfiles = {}
    /\ restored = [j \in Jobs |-> {}]

Over == {"served", "refused", "failed", "dropped"}
At(j, stage) == job[j].stage = stage
Go(j, stage) == job' = [job EXCEPT ![j].stage = stage]

\* The job returns or is dropped: its program is killed, its password file and what it had
\* staged go.
EndLeaving(j, stage, files) ==
    /\ Go(j, stage)
    /\ child' = [child EXCEPT ![j] = IF @ = "running" THEN "failed" ELSE @]
    /\ passfiles' = {f \in files : f.job # j}
    /\ staged' = Guarded(j)
EndJob(j, stage) == EndLeaving(j, stage, passfiles)

-----------------------------------------------------------------------------
(* One action per stretch between two looks at the file system or awaits. *)

\* The arguments and output_dir, which sweeps partial outputs.
Arrive(j, ask) ==
    /\ At(j, "idle")
    /\ LET reads == ~RefusedAtOnce(ask) /\ setup.outputDir = "private"
       IN  /\ staged' = IF reads THEN PartialsSwept ELSE staged
           /\ job' = [job EXCEPT ![j].ask = ask,
                                 ![j].stage = IF ~reads \/ RefusedLater(ask) THEN "refused"
                                              ELSE IF Restores(ask) \/ Stages(ask) THEN "naming"
                                              ELSE "ready"]
    /\ UNCHANGED <<setup, now, crashes, child, final, passfiles, restored>>

\* refuse_existing or existing_input.
LookUpName(j) ==
    /\ At(j, "naming")
    /\ LET exists == final[job[j].ask.name] # None
       IN  Go(j, IF Restores(job[j].ask)
                 THEN IF exists THEN "ready" ELSE "refused"
                 ELSE IF exists THEN "refused" ELSE "staging")
    /\ UNCHANGED <<setup, now, crashes, child, staged, final, passfiles, restored>>

\* prepared_file and prepared_directory create the staging name, or fail, because it is taken
\* or otherwise; a `bare` entry was created, but restrict_file or restrict_directory failed on
\* it, before there was a StagingGuard.
Stage(j) ==
    LET name == job[j].ask.name
        entry(bare) == [job |-> j, since |-> now, directory |-> Directory(job[j].ask),
                        bare |-> bare]
    IN  /\ At(j, "staging")
        /\ \/ Go(j, "refused") /\ UNCHANGED staged
           \/ /\ staged[name] = None
              /\ \E bare \in BOOLEAN :
                    /\ staged' = [staged EXCEPT ![name] = entry(bare)]
                    /\ Go(j, IF bare THEN "refused" ELSE "ready")
        /\ UNCHANGED <<setup, now, crashes, child, final, passfiles, restored>>

\* run_program up to connection_env: the program is looked for, a dry run ends, and a
\* destructive restore needs consent.
Check(j) ==
    LET ask == job[j].ask
    IN  /\ At(j, "ready")
        /\ IF ProgramOf(ask) \notin setup.programs THEN EndJob(j, "refused")
           ELSE IF ask.dryRun THEN EndJob(j, "served")
           ELSE IF ~Consents(ask) THEN EndJob(j, "refused")
           ELSE Go(j, "admitted") /\ UNCHANGED <<child, passfiles, staged>>
        /\ UNCHANGED <<setup, now, crashes, final, restored>>

\* connection_env.  The password file may fail, before or after the sweep for stale ones; a
\* NamedTempFile goes with the call that made it.
Connect(j) ==
    /\ At(j, "admitted")
    /\ \/ setup.tunnel /\ EndJob(j, "failed")
       \/ /\ ~setup.tunnel /\ setup.password
          /\ \E files \in {passfiles, PassfilesSwept} : EndLeaving(j, "failed", files)
       \/ /\ ~setup.tunnel
          /\ passfiles' = IF setup.password
                          THEN PassfilesSwept \union {[job |-> j, since |-> now]} ELSE passfiles
          /\ Go(j, "starting")
          /\ UNCHANGED <<child, staged>>
    /\ UNCHANGED <<setup, now, crashes, final, restored>>

Spawn(j) ==
    /\ At(j, "starting")
    /\ \/ /\ job' = [job EXCEPT ![j].stage = "running",
                                ![j].deadline = now + Clamped(job[j].ask.timeout)]
          /\ child' = [child EXCEPT ![j] = "running"]
          /\ UNCHANGED <<passfiles, staged>>
       \/ EndJob(j, "failed")
    /\ UNCHANGED <<setup, now, crashes, final, restored>>

\* The client cancels, or the deadline passes: the program is killed, if it has not ended
\* by then, and what it staged goes.
Kill(j) ==
    /\ At(j, "running")
    /\ EndJob(j, "failed")
    /\ UNCHANGED <<setup, now, crashes, final, restored>>
Cancel(j) == Kill(j)
DeadlineFires(j) == now >= job[j].deadline /\ Kill(j)

\* The program has ended: its output takes its own name, or goes.  A rename replaces a
\* file by a file, and fails when the staging name is gone.
Renames(name) ==
    /\ staged[name] # None
    /\ final[name] # None => ~final[name].directory /\ ~staged[name].directory

Settle(j) ==
    LET ask == job[j].ask
    IN  /\ At(j, "running") /\ child[j] # "running"
        /\ IF child[j] = "ok" /\ Writes(ask) /\ Renames(ask.name)
           THEN /\ final' = [final EXCEPT ![ask.name] = [directory |-> staged[ask.name].directory]]
                /\ staged' = [staged EXCEPT ![ask.name] = None]
                /\ passfiles' = WithoutPassfile(j)
                /\ Go(j, "settled")
                /\ UNCHANGED child
           ELSE /\ UNCHANGED final
                /\ EndJob(j, IF child[j] = "ok" /\ ~Writes(ask) THEN "served" ELSE "failed")
        /\ UNCHANGED <<setup, now, crashes, restored>>

\* The digest of the output is taken on a thread of its own before the reply.
Return(j) ==
    /\ At(j, "settled")
    /\ EndJob(j, "served")
    /\ UNCHANGED <<setup, now, crashes, final, restored>>

\* The task is dropped at an await: with its connection, or with the runtime.
Drop(j) ==
    /\ job[j].stage \in {"admitted", "starting", "running", "settled"}
    /\ EndJob(j, "dropped")
    /\ UNCHANGED <<setup, now, crashes, final, restored>>

-----------------------------------------------------------------------------
(* Around the jobs. *)

\* pg_restore commits everything at its end, or as it goes.
ProgramRestores(j) ==
    /\ child[j] = "running" /\ Restores(job[j].ask) /\ ~Single(job[j].ask)
    /\ \E o \in Archive \ restored[j] : restored' = [restored EXCEPT ![j] = @ \union {o}]
    /\ UNCHANGED <<setup, now, crashes, job, child, staged, final, passfiles>>

ProgramEnds(j) ==
    /\ child[j] = "running"
    /\ \E end \in {"ok", "failed"} :
          /\ child' = [child EXCEPT ![j] = end]
          /\ restored' = IF end = "ok" /\ Restores(job[j].ask)
                         THEN [restored EXCEPT ![j] = Archive] ELSE restored
    /\ UNCHANGED <<setup, now, crashes, job, staged, final, passfiles>>

\* Somebody takes a finished output away.
Take(n) ==
    /\ final[n] # None
    /\ final' = [final EXCEPT ![n] = None]
    /\ UNCHANGED <<setup, now, crashes, job, child, staged, passfiles, restored>>

Crash ==
    /\ crashes < MaxCrashes /\ crashes' = crashes + 1
    /\ job' = [j \in Jobs |-> IF At(j, "idle") \/ job[j].stage \in Over THEN job[j]
                              ELSE [job[j] EXCEPT !.stage = "lost"]]
    /\ UNCHANGED <<setup, now, child, staged, final, passfiles, restored>>

\* A tick is long against the work between two awaits, and timers fire on time.
Tick ==
    /\ now < MaxTime
    /\ \A j \in Jobs : job[j].stage \in Over \union {"idle", "lost", "settled"}
                           \/ (At(j, "running") /\ now < job[j].deadline)
    /\ now' = now + 1
    /\ UNCHANGED <<setup, crashes, job, child, staged, final, passfiles, restored>>

Next ==
    \/ \E j \in Jobs :
          \/ \E ask \in Asks : Arrive(j, ask)
          \/ LookUpName(j) \/ Stage(j) \/ Check(j) \/ Connect(j) \/ Spawn(j)
          \/ Cancel(j) \/ DeadlineFires(j) \/ Settle(j) \/ Return(j) \/ Drop(j)
          \/ ProgramRestores(j) \/ ProgramEnds(j)
    \/ \E n \in Names : Take(n)
    \/ Crash \/ Tick

Spec == Init /\ [][Next]_vars

-----------------------------------------------------------------------------
(* Properties. *)

\* A sweep for leftovers never takes the output of a program that still runs under a live
\* call, however long the call may run.
SweepsSpareRunningJobs ==
    [][\A j, k \in Jobs :
          At(k, "idle") /\ ~At(k, "idle")' /\ At(j, "running") =>
              \A n \in Names : staged[n] # None /\ staged[n].job = j => staged'[n] = staged[n]]_vars

\* A call that has ended, in whatever way, has no program running, no partial output and no
\* file with a password left behind.  Only the death of the process leaves any - but for the
\* empty entry a call has created and could not restrict, which waits for the sweep.
NothingLeftBehind ==
    \A j \in Jobs :
        job[j].stage \in Over =>
            /\ child[j] # "running"
            /\ \A n \in Names : staged[n] # None /\ staged[n].job = j => staged[n].bare
            /\ \A f \in passfiles : f.job # j

\* A restore that was not asked to run in parallel, in batches or without a transaction
\* restores everything or nothing, also when it is killed or the process dies.
RestoresAreWhole ==
    \A j \in Jobs :
        job[j].ask # None /\ ~Batched(job[j].ask) /\ job[j].ask.single # "off" =>
            restored[j] \in {{}, Archive}
================================================================================
