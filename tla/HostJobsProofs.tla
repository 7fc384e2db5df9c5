----------------------------- MODULE HostJobsProofs -----------------------------
(***************************************************************************)
(* Theorems about HostJobs, for any number of calls, any arguments and     *)
(* settings, and any number of crashes.                                    *)
(***************************************************************************)
EXTENDS HostJobs, TLAPS

-------------------------------------------------------------------------------
(* The invariant. *)

Early == {"idle", "naming", "staging"}
AllStages == Early \union {"ready", "admitted", "starting", "running", "settled", "lost"} \union Over

StagedEntries == [job : Jobs, since : Int, directory : BOOLEAN, bare : BOOLEAN]

Typed ==
    /\ now \in Nat
    /\ job \in [Jobs -> [stage : AllStages, ask : Asks \union {None}, deadline : Int]]
    /\ child \in [Jobs -> {"none", "running", "ok", "failed"}]
    /\ staged \in [Names -> {None} \union StagedEntries]
    /\ passfiles \subseteq [job : Jobs, since : Int]
    /\ restored \in [Jobs -> SUBSET Archive]

HasAsk(j) == job[j].stage = "idle" \/ job[j].ask \in Asks

\* What a job has staged has its name and its kind, and it is younger than any sweep asks
\* for as long as the program may run.  A bare entry is that of a call that has ended.
Made(j, n) == staged[n] # None /\ staged[n].job = j
Owns(j, n) == Made(j, n) /\ ~staged[n].bare
BareOK(j) == \A n \in Names : Made(j, n) /\ staged[n].bare => job[j].stage \in Over
OutputOK(j) ==
    \A n \in Names : Owns(j, n) =>
        /\ job[j].stage \in {"ready", "admitted", "starting", "running", "lost"}
        /\ Stages(job[j].ask) /\ job[j].ask.name = n
        /\ staged[n].directory = Directory(job[j].ask)
        /\ job[j].stage \in {"ready", "admitted", "starting"} => staged[n].since = now
        /\ job[j].stage = "running" => job[j].deadline <= staged[n].since + TimeoutCap

PassfileOK(j) == \A f \in passfiles : f.job = j => job[j].stage \in {"starting", "running", "lost"}

ProgramOK(j) ==
    /\ child[j] = "running" => job[j].stage \in {"running", "lost"}
    /\ job[j].stage = "running" => now <= job[j].deadline

RestoreOK(j) ==
    /\ job[j].stage = "idle" => restored[j] = {}
    /\ job[j].stage # "idle" /\ ~Batched(job[j].ask) /\ job[j].ask.single # "off" =>
          restored[j] \in {{}, Archive}

\* Only a restore or a call with an output looks at a name, and only the latter stages it.
NameOK(j) ==
    /\ job[j].stage = "naming" => Restores(job[j].ask) \/ Stages(job[j].ask)
    /\ job[j].stage = "staging" => Stages(job[j].ask)

JobOK(j) ==
    /\ HasAsk(j) /\ NameOK(j) /\ OutputOK(j) /\ BareOK(j) /\ PassfileOK(j)
    /\ ProgramOK(j) /\ RestoreOK(j)

JobsInv == Typed /\ \A j \in Jobs : JobOK(j)

\* A step of the job j: the others and what is theirs stay, but for files that go.
OnlyJob(j) ==
    /\ now' = now
    /\ \A k \in Jobs \ {j} : job'[k] = job[k] /\ child'[k] = child[k] /\ restored'[k] = restored[k]
    /\ \A n \in Names : staged'[n] = None \/ staged'[n] = staged[n] \/ staged'[n].job = j
    /\ \A f \in passfiles' : f \in passfiles \/ f.job = j

LEMMA OthersKeep ==
    ASSUME JobsInv, NEW j \in Jobs, NEW k \in Jobs \ {j}, OnlyJob(j)
    PROVE  JobOK(k)'
  <1>1. JobOK(k)
    BY DEF JobsInv
  <1>2. job'[k] = job[k] /\ child'[k] = child[k] /\ restored'[k] = restored[k] /\ now' = now
    BY DEF OnlyJob
  <1>3. \A n \in Names : staged'[n] # None /\ staged'[n].job = k => staged'[n] = staged[n]
    BY DEF OnlyJob
  <1>4. OutputOK(k)' /\ BareOK(k)'
    BY <1>1, <1>2, <1>3 DEF JobOK, OutputOK, BareOK, Owns, Made
  <1>5. PassfileOK(k)'
    BY <1>1, <1>2 DEF JobOK, PassfileOK, OnlyJob
  <1>6. HasAsk(k)' /\ NameOK(k)' /\ ProgramOK(k)' /\ RestoreOK(k)'
    BY <1>1, <1>2 DEF JobOK, HasAsk, NameOK, ProgramOK, RestoreOK
  <1> QED
    BY <1>4, <1>5, <1>6 DEF JobOK

LEMMA StepOf ==
    ASSUME JobsInv, NEW j \in Jobs, OnlyJob(j), Typed', JobOK(j)'
    PROVE  JobsInv'
  BY OthersKeep DEF JobsInv

LEMMA GoIs ==
    ASSUME Typed, NEW j \in Jobs, NEW stage \in AllStages, Go(j, stage)
    PROVE  /\ job' \in [Jobs -> [stage : AllStages, ask : Asks \union {None}, deadline : Int]]
           /\ job'[j].stage = stage /\ job'[j].ask = job[j].ask /\ job'[j].deadline = job[j].deadline
           /\ \A k \in Jobs \ {j} : job'[k] = job[k]
  BY DEF Typed, Go

\* A job that ends takes with it whatever it has staged, its password file and its program.
LEMMA EndKeeps ==
    ASSUME JobsInv, NEW j \in Jobs, NEW stage \in Over, NEW files \in SUBSET passfiles,
           EndLeaving(j, stage, files), job[j].stage # "idle", UNCHANGED <<now, restored>>
    PROVE  JobsInv'
  <1>1. Typed /\ JobOK(j)
    BY DEF JobsInv
  <1>2. Go(j, stage) /\ stage \in AllStages
    BY DEF EndLeaving, AllStages
  <1>3. /\ job' \in [Jobs -> [stage : AllStages, ask : Asks \union {None}, deadline : Int]]
        /\ job'[j].stage = stage /\ job'[j].ask = job[j].ask
        /\ \A k \in Jobs \ {j} : job'[k] = job[k]
    BY <1>1, <1>2, GoIs
  <1>4. /\ child' \in [Jobs -> {"none", "running", "ok", "failed"}]
        /\ child'[j] # "running" /\ \A k \in Jobs \ {j} : child'[k] = child[k]
    BY <1>1 DEF EndLeaving, Typed
  <1>5. passfiles' \subseteq passfiles /\ \A f \in passfiles' : f.job # j
    BY DEF EndLeaving
  <1>6. /\ staged' \in [Names -> {None} \union StagedEntries]
        /\ \A n \in Names : staged'[n] = None \/ (staged'[n] = staged[n] /\ ~Discards(j, n))
    BY <1>1 DEF EndLeaving, Guarded, Typed
  <1>7. \A n \in Names : ~Owns(j, n)'
    BY <1>1, <1>6 DEF JobOK, OutputOK, Owns, Made, Discards
  <1>8. Typed'
    BY <1>1, <1>3, <1>4, <1>5, <1>6 DEF Typed
  <1>9. OnlyJob(j)
    BY <1>3, <1>4, <1>5, <1>6 DEF OnlyJob
  <1>10. OutputOK(j)' /\ PassfileOK(j)' /\ ProgramOK(j)'
    BY <1>3, <1>4, <1>5, <1>7 DEF OutputOK, PassfileOK, ProgramOK, Over
  <1>11. HasAsk(j)' /\ NameOK(j)' /\ BareOK(j)' /\ RestoreOK(j)'
    BY <1>1, <1>3 DEF JobOK, HasAsk, NameOK, BareOK, RestoreOK, Over
  <1> QED
    BY <1>8, <1>9, <1>10, <1>11, StepOf DEF JobOK

LEMMA EndJobKeeps ==
    ASSUME JobsInv, NEW j \in Jobs, NEW stage \in Over, EndJob(j, stage), job[j].stage # "idle",
           UNCHANGED <<now, restored>>
    PROVE  JobsInv'
  BY EndKeeps DEF EndJob

-------------------------------------------------------------------------------
(* The actions. *)

LEMMA SweepKeeps ==
    ASSUME Typed
    PROVE  /\ PartialsSwept \in [Names -> {None} \union StagedEntries]
           /\ \A n \in Names : PartialsSwept[n] = None \/ PartialsSwept[n] = staged[n]
  BY DEF PartialsSwept, Typed

LEMMA ArriveKeeps ==
    ASSUME JobsInv, NEW j \in Jobs, NEW ask \in Asks, Arrive(j, ask)
    PROVE  JobsInv'
  <1>1. Typed /\ JobOK(j) /\ job[j].stage = "idle"
    BY DEF JobsInv, Arrive, At
  <1>2. PICK stage \in {"refused", "naming", "ready"} :
            /\ job' = [job EXCEPT ![j].ask = ask, ![j].stage = stage]
            /\ stage = "naming" => Restores(ask) \/ Stages(ask)
    BY DEF Arrive
  <1>3. /\ job' \in [Jobs -> [stage : AllStages, ask : Asks \union {None}, deadline : Int]]
        /\ job'[j].stage = stage /\ job'[j].ask = ask
        /\ \A k \in Jobs \ {j} : job'[k] = job[k]
    BY <1>1, <1>2 DEF Typed, AllStages, Early, Over
  <1>4. /\ staged' \in [Names -> {None} \union StagedEntries]
        /\ \A n \in Names : staged'[n] = None \/ staged'[n] = staged[n]
    BY <1>1, SweepKeeps DEF Arrive, Typed
  <1>5. UNCHANGED <<now, child, passfiles, restored>>
    BY DEF Arrive
  <1>6. Typed'
    BY <1>1, <1>3, <1>4, <1>5 DEF Typed
  <1>7. OnlyJob(j)
    BY <1>3, <1>4, <1>5 DEF OnlyJob
  <1>8. \A n \in Names : ~Made(j, n)'
    BY <1>1, <1>4 DEF JobOK, OutputOK, BareOK, Owns, Made, Over
  <1>9. \A f \in passfiles : f.job # j
    BY <1>1 DEF JobOK, PassfileOK
  <1>10. child[j] # "running" /\ restored[j] = {}
    BY <1>1 DEF JobOK, ProgramOK, RestoreOK
  <1>11. HasAsk(j)' /\ NameOK(j)' /\ OutputOK(j)' /\ BareOK(j)'
    BY <1>2, <1>3, <1>8 DEF HasAsk, NameOK, OutputOK, BareOK, Owns
  <1>12. PassfileOK(j)' /\ ProgramOK(j)' /\ RestoreOK(j)'
    BY <1>3, <1>5, <1>9, <1>10 DEF PassfileOK, ProgramOK, RestoreOK
  <1>13. JobOK(j)'
    BY <1>11, <1>12 DEF JobOK
  <1> QED
    BY <1>6, <1>7, <1>13, StepOf

\* A job moves on from a stage before the output is staged, or while nothing of it is kept.
LEMMA GoKeeps ==
    ASSUME JobsInv, NEW j \in Jobs, NEW stage \in AllStages \ {"idle", "naming", "running"},
           Go(j, stage), stage = "staging" => Stages(job[j].ask),
           job[j].stage \notin {"idle", "running", "lost"}, UNCHANGED <<now, child, staged, passfiles, restored>>,
           \/ job[j].stage \in {"naming", "staging"}
           \/ job[j].stage = "ready" /\ stage = "admitted"
           \/ job[j].stage = "admitted" /\ stage = "starting"
    PROVE  JobsInv'
  <1>1. Typed /\ JobOK(j)
    BY DEF JobsInv
  <1>2. /\ job' \in [Jobs -> [stage : AllStages, ask : Asks \union {None}, deadline : Int]]
        /\ job'[j].stage = stage /\ job'[j].ask = job[j].ask
        /\ \A k \in Jobs \ {j} : job'[k] = job[k]
    BY <1>1, GoIs
  <1>3. Typed'
    BY <1>1, <1>2 DEF Typed
  <1>4. OnlyJob(j)
    BY <1>2 DEF OnlyJob
  <1>5. OutputOK(j)' /\ BareOK(j)'
    BY <1>1, <1>2 DEF JobOK, OutputOK, BareOK, Owns, Made, Over
  <1>6. PassfileOK(j)'
    BY <1>1, <1>2 DEF JobOK, PassfileOK
  <1>7. HasAsk(j)' /\ NameOK(j)' /\ ProgramOK(j)' /\ RestoreOK(j)'
    BY <1>1, <1>2 DEF JobOK, HasAsk, NameOK, ProgramOK, RestoreOK
  <1>8. JobOK(j)'
    BY <1>5, <1>6, <1>7 DEF JobOK
  <1> QED
    BY <1>3, <1>4, <1>8, StepOf

LEMMA LookUpNameKeeps ==
    ASSUME JobsInv, NEW j \in Jobs, LookUpName(j)
    PROVE  JobsInv'
  <1>1. job[j].stage = "naming" /\ UNCHANGED <<now, child, staged, passfiles, restored>>
    BY DEF LookUpName, At
  <1>2. PICK stage \in {"ready", "refused", "staging"} :
            Go(j, stage) /\ (stage = "staging" => ~Restores(job[j].ask))
    BY DEF LookUpName
  <1>3. stage \in AllStages \ {"idle", "naming", "running"}
    BY DEF AllStages, Early, Over
  <1>4. stage = "staging" => Stages(job[j].ask)
    BY <1>1, <1>2 DEF JobsInv, JobOK, NameOK
  <1> QED
    BY <1>1, <1>2, <1>3, <1>4, GoKeeps

LEMMA StageKeeps ==
    ASSUME JobsInv, NEW j \in Jobs, Stage(j)
    PROVE  JobsInv'
  <1> DEFINE name == job[j].ask.name
             entry(bare) == [job |-> j, since |-> now, directory |-> Directory(job[j].ask),
                             bare |-> bare]
  <1>1. job[j].stage = "staging" /\ UNCHANGED <<now, child, passfiles, restored>>
    BY DEF Stage, At
  <1>2. Typed /\ JobOK(j)
    BY DEF JobsInv
  <1>3. CASE Go(j, "refused") /\ staged' = staged
    <2>1. "refused" \in AllStages \ {"idle", "naming", "running"}
      BY DEF AllStages, Over
    <2> QED
      BY <1>1, <1>3, <2>1, GoKeeps
  <1>4. ASSUME NEW bare \in BOOLEAN, staged' = [staged EXCEPT ![name] = entry(bare)],
               Go(j, IF bare THEN "refused" ELSE "ready")
        PROVE  JobsInv'
    <2>1. PICK stage \in {"refused", "ready"} : Go(j, stage) /\ stage = IF bare THEN "refused" ELSE "ready"
      BY <1>4
    <2>2. /\ job' \in [Jobs -> [stage : AllStages, ask : Asks \union {None}, deadline : Int]]
          /\ job'[j].stage = stage /\ job'[j].ask = job[j].ask
          /\ \A k \in Jobs \ {j} : job'[k] = job[k]
      <3>1. stage \in AllStages
        BY DEF AllStages, Over
      <3> QED
        BY <1>2, <2>1, <3>1, GoIs
    <2>3. entry(bare) \in StagedEntries
      BY <1>2 DEF Typed, Directory, StagedEntries
    <2>4. /\ staged' \in [Names -> {None} \union StagedEntries]
          /\ \A n \in Names : staged'[n] = staged[n] \/ (n = name /\ staged'[n] = entry(bare))
      <3> HIDE DEF entry, name
      <3> QED
        BY <1>2, <1>4, <2>3 DEF Typed
    <2>5. \A n \in Names : ~Made(j, n)
      BY <1>1, <1>2 DEF JobOK, OutputOK, BareOK, Owns, Over
    <2>6. Typed'
      BY <1>1, <1>2, <2>2, <2>4 DEF Typed
    <2>7. OnlyJob(j)
      <3>1. \A n \in Names : staged'[n] = staged[n] \/ staged'[n].job = j
        BY <2>4
      <3> QED
        BY <1>1, <2>2, <3>1 DEF OnlyJob
    <2>8. \A n \in Names : Made(j, n)' => n = name /\ staged'[n] = entry(bare)
      BY <2>4, <2>5 DEF Made
    <2>9. OutputOK(j)'
      <3>1. SUFFICES ASSUME NEW n \in Names, Owns(j, n)'
                     PROVE  /\ Stages(job[j].ask) /\ job[j].ask.name = n
                            /\ staged'[n].directory = Directory(job[j].ask)
                            /\ staged'[n].since = now
                            /\ stage = "ready"
        BY <1>1, <2>2 DEF OutputOK
      <3>2. n = name /\ staged'[n] = entry(bare) /\ ~staged'[n].bare
        BY <2>8, <3>1 DEF Owns
      <3>3. stage = "ready"
        BY <2>1, <3>2
      <3>4. Stages(job[j].ask)
        BY <1>1, <1>2 DEF JobOK, NameOK
      <3> QED
        BY <3>2, <3>3, <3>4
    <2>10. BareOK(j)'
      <3>1. SUFFICES ASSUME NEW n \in Names, Made(j, n)', staged'[n].bare
                     PROVE  stage \in Over
        BY <2>2 DEF BareOK
      <3>2. stage = "refused"
        BY <2>1, <2>8, <3>1
      <3> QED
        BY <3>2 DEF Over
    <2>11. PassfileOK(j)'
      BY <1>1, <1>2, <2>2 DEF JobOK, PassfileOK
    <2>12. HasAsk(j)' /\ NameOK(j)' /\ ProgramOK(j)' /\ RestoreOK(j)'
      BY <1>1, <1>2, <2>2 DEF JobOK, HasAsk, NameOK, ProgramOK, RestoreOK
    <2> QED
      BY <2>6, <2>7, <2>9, <2>10, <2>11, <2>12, StepOf DEF JobOK
  <1> QED
    BY <1>3, <1>4 DEF Stage

LEMMA CheckKeeps ==
    ASSUME JobsInv, NEW j \in Jobs, Check(j)
    PROVE  JobsInv'
  <1>1. job[j].stage = "ready" /\ UNCHANGED <<now, restored>>
    BY DEF Check, At
  <1>2. ASSUME NEW stage \in {"refused", "served"}, EndJob(j, stage)
        PROVE  JobsInv'
    BY <1>1, <1>2, EndJobKeeps DEF Over
  <1>3. ASSUME Go(j, "admitted"), UNCHANGED <<child, passfiles, staged>>
        PROVE  JobsInv'
    <2>1. "admitted" \in AllStages \ {"idle", "naming", "running"}
      BY DEF AllStages
    <2> QED
      BY <1>1, <1>3, <2>1, GoKeeps
  <1> QED
    BY <1>2, <1>3 DEF Check

LEMMA ConnectKeeps ==
    ASSUME JobsInv, NEW j \in Jobs, Connect(j)
    PROVE  JobsInv'
  <1>1. job[j].stage = "admitted" /\ UNCHANGED <<now, restored>>
    BY DEF Connect, At
  <1>2. ASSUME NEW files \in SUBSET passfiles, EndLeaving(j, "failed", files)
        PROVE  JobsInv'
    BY <1>1, <1>2, EndKeeps DEF Over
  <1>3. ASSUME passfiles' = IF setup.password
                            THEN PassfilesSwept \union {[job |-> j, since |-> now]} ELSE passfiles,
               Go(j, "starting"), UNCHANGED <<child, staged>>
        PROVE  JobsInv'
    <2>1. Typed /\ JobOK(j) /\ "starting" \in AllStages
      BY DEF JobsInv, AllStages
    <2>2. /\ job' \in [Jobs -> [stage : AllStages, ask : Asks \union {None}, deadline : Int]]
          /\ job'[j].stage = "starting" /\ job'[j].ask = job[j].ask
          /\ \A k \in Jobs \ {j} : job'[k] = job[k]
      BY <1>3, <2>1, GoIs
    <2>3. /\ passfiles' \subseteq [job : Jobs, since : Int]
          /\ \A f \in passfiles' : f \in passfiles \/ f.job = j
      BY <1>3, <2>1 DEF PassfilesSwept, Typed
    <2>4. Typed'
      BY <1>1, <1>3, <2>1, <2>2, <2>3 DEF Typed
    <2>5. OnlyJob(j)
      BY <1>1, <1>3, <2>2, <2>3 DEF OnlyJob
    <2>6. OutputOK(j)' /\ BareOK(j)'
      BY <1>1, <1>3, <2>1, <2>2 DEF JobOK, OutputOK, BareOK, Owns, Made, Over
    <2>7. HasAsk(j)' /\ NameOK(j)' /\ PassfileOK(j)'
      BY <1>1, <2>1, <2>2 DEF JobOK, HasAsk, NameOK, PassfileOK
    <2>8. ProgramOK(j)' /\ RestoreOK(j)'
      BY <1>1, <1>3, <2>1, <2>2 DEF JobOK, ProgramOK, RestoreOK
    <2> QED
      BY <2>4, <2>5, <2>6, <2>7, <2>8, StepOf DEF JobOK
  <1>4. PassfilesSwept \in SUBSET passfiles
    BY DEF PassfilesSwept
  <1> QED
    BY <1>2, <1>3, <1>4 DEF Connect, EndJob

\* The program may run for at most a day, whatever the call asks for.
LEMMA ClampedIs ==
    ASSUME NEW seconds \in Nat
    PROVE  Clamped(seconds) \in Nat /\ Clamped(seconds) <= TimeoutCap
  BY HostJobsAssumption DEF Clamped

LEMMA SpawnKeeps ==
    ASSUME JobsInv, NEW j \in Jobs, Spawn(j)
    PROVE  JobsInv'
  <1>1. job[j].stage = "starting" /\ UNCHANGED <<now, restored>>
    BY DEF Spawn, At
  <1>2. ASSUME EndJob(j, "failed")
        PROVE  JobsInv'
    BY <1>1, <1>2, EndJobKeeps DEF Over
  <1>3. ASSUME job' = [job EXCEPT ![j].stage = "running",
                                  ![j].deadline = now + Clamped(job[j].ask.timeout)],
               child' = [child EXCEPT ![j] = "running"], UNCHANGED <<passfiles, staged>>
        PROVE  JobsInv'
    <2> DEFINE limit == Clamped(job[j].ask.timeout)
    <2>1. Typed /\ JobOK(j) /\ "running" \in AllStages
      BY DEF JobsInv, AllStages
    <2>2. limit \in Nat /\ limit <= TimeoutCap /\ now \in Nat /\ TimeoutCap \in Nat
      <3>1. job[j].ask.timeout \in Nat
        BY <1>1, <2>1, HostJobsAssumption DEF JobOK, HasAsk
      <3> QED
        BY <2>1, <3>1, ClampedIs, HostJobsAssumption DEF Typed
    <2>3. /\ job' \in [Jobs -> [stage : AllStages, ask : Asks \union {None}, deadline : Int]]
          /\ job'[j].stage = "running" /\ job'[j].ask = job[j].ask
          /\ job'[j].deadline = now + limit
          /\ \A k \in Jobs \ {j} : job'[k] = job[k]
      <3>1. PICK due \in Int : due = now + limit
        BY <2>2
      <3>2. job' = [job EXCEPT ![j].stage = "running", ![j].deadline = due]
        BY <1>3, <3>1
      <3> HIDE DEF limit
      <3> QED
        BY <2>1, <3>1, <3>2 DEF Typed
    <2> HIDE DEF limit
    <2>4. /\ child' \in [Jobs -> {"none", "running", "ok", "failed"}]
          /\ \A k \in Jobs \ {j} : child'[k] = child[k]
      BY <1>3, <2>1 DEF Typed
    <2>5. Typed'
      BY <1>1, <1>3, <2>1, <2>3, <2>4 DEF Typed
    <2>6. OnlyJob(j)
      BY <1>1, <1>3, <2>3, <2>4 DEF OnlyJob
    <2>7. OutputOK(j)' /\ BareOK(j)'
      BY <1>1, <1>3, <2>1, <2>2, <2>3 DEF JobOK, OutputOK, BareOK, Owns, Made, Over
    <2>8. HasAsk(j)' /\ NameOK(j)' /\ PassfileOK(j)'
      BY <1>1, <1>3, <2>1, <2>3 DEF JobOK, HasAsk, NameOK, PassfileOK
    <2>9. ProgramOK(j)' /\ RestoreOK(j)'
      BY <1>1, <2>1, <2>2, <2>3 DEF JobOK, ProgramOK, RestoreOK
    <2> QED
      BY <2>5, <2>6, <2>7, <2>8, <2>9, StepOf DEF JobOK
  <1> QED
    BY <1>2, <1>3 DEF Spawn

LEMMA KillKeeps ==
    ASSUME JobsInv, NEW j \in Jobs, Kill(j)
    PROVE  JobsInv'
  BY EndJobKeeps DEF Kill, At, Over

LEMMA ReturnKeeps ==
    ASSUME JobsInv, NEW j \in Jobs, Return(j)
    PROVE  JobsInv'
  BY EndJobKeeps DEF Return, At, Over

LEMMA DropKeeps ==
    ASSUME JobsInv, NEW j \in Jobs, Drop(j)
    PROVE  JobsInv'
  BY EndJobKeeps DEF Drop, Over

LEMMA SettleKeeps ==
    ASSUME JobsInv, NEW j \in Jobs, Settle(j)
    PROVE  JobsInv'
  <1> DEFINE name == job[j].ask.name
  <1>1. job[j].stage = "running" /\ child[j] # "running" /\ UNCHANGED <<now, restored>>
    BY DEF Settle, At
  <1>2. ASSUME NEW stage \in {"served", "failed"}, EndJob(j, stage)
        PROVE  JobsInv'
    BY <1>1, <1>2, EndJobKeeps DEF Over
  <1>3. ASSUME staged' = [staged EXCEPT ![name] = None], passfiles' = WithoutPassfile(j),
               Go(j, "settled"), child' = child
        PROVE  JobsInv'
    <2>1. Typed /\ JobOK(j) /\ "settled" \in AllStages
      BY DEF JobsInv, AllStages
    <2>2. /\ job' \in [Jobs -> [stage : AllStages, ask : Asks \union {None}, deadline : Int]]
          /\ job'[j].stage = "settled" /\ job'[j].ask = job[j].ask
          /\ \A k \in Jobs \ {j} : job'[k] = job[k]
      BY <1>3, <2>1, GoIs
    <2>3. /\ staged' \in [Names -> {None} \union StagedEntries]
          /\ \A n \in Names : staged'[n] = IF n = name THEN None ELSE staged[n]
      <3> HIDE DEF name
      <3> QED
        BY <1>3, <2>1 DEF Typed
    <2>4. passfiles' \subseteq passfiles /\ \A f \in passfiles' : f.job # j
      BY <1>3 DEF WithoutPassfile
    <2>5. \A n \in Names : ~Made(j, n)'
      BY <1>1, <2>1, <2>3 DEF JobOK, OutputOK, BareOK, Owns, Made, Over
    <2>6. Typed'
      BY <1>1, <1>3, <2>1, <2>2, <2>3, <2>4 DEF Typed
    <2>7. OnlyJob(j)
      BY <1>1, <1>3, <2>2, <2>3, <2>4 DEF OnlyJob
    <2>8. HasAsk(j)' /\ NameOK(j)' /\ OutputOK(j)' /\ BareOK(j)' /\ PassfileOK(j)'
      BY <1>1, <2>1, <2>2, <2>4, <2>5
         DEF JobOK, HasAsk, NameOK, OutputOK, BareOK, Owns, PassfileOK
    <2>9. ProgramOK(j)' /\ RestoreOK(j)'
      BY <1>1, <1>3, <2>1, <2>2 DEF JobOK, ProgramOK, RestoreOK
    <2> QED
      BY <2>6, <2>7, <2>8, <2>9, StepOf DEF JobOK
  <1> QED
    BY <1>2, <1>3 DEF Settle

\* What a program does to the database, and its end.
LEMMA ProgramKeeps ==
    ASSUME JobsInv, NEW j \in Jobs, job[j].stage # "idle", UNCHANGED <<now, job, staged, passfiles>>,
           NEW end \in {"running", "ok", "failed"}, child[j] = "running",
           child' = [child EXCEPT ![j] = end],
           NEW objects \in SUBSET Archive, restored' = [restored EXCEPT ![j] = objects],
           objects \in {restored[j], Archive} \/ (Restores(job[j].ask) /\ ~Single(job[j].ask))
    PROVE  JobsInv'
  <1>1. Typed /\ JobOK(j)
    BY DEF JobsInv
  <1>2. /\ child' \in [Jobs -> {"none", "running", "ok", "failed"}]
        /\ child'[j] = end /\ \A k \in Jobs \ {j} : child'[k] = child[k]
    BY <1>1 DEF Typed
  <1>3. /\ restored' \in [Jobs -> SUBSET Archive]
        /\ restored'[j] = objects /\ \A k \in Jobs \ {j} : restored'[k] = restored[k]
    BY <1>1 DEF Typed
  <1>4. Typed'
    BY <1>1, <1>2, <1>3 DEF Typed
  <1>5. OnlyJob(j)
    BY <1>2, <1>3 DEF OnlyJob
  <1>6. HasAsk(j)' /\ NameOK(j)' /\ OutputOK(j)' /\ BareOK(j)' /\ PassfileOK(j)'
    BY <1>1 DEF JobOK, HasAsk, NameOK, OutputOK, Owns, Made, BareOK, PassfileOK
  <1>7. ProgramOK(j)'
    BY <1>1, <1>2 DEF JobOK, ProgramOK
  <1>8. RestoreOK(j)'
    <2>1. ~Batched(job[j].ask) /\ job[j].ask.single # "off" => Single(job[j].ask)
      BY <1>1, HostJobsAssumption DEF JobOK, HasAsk, Single
    <2> QED
      BY <1>1, <1>3, <2>1 DEF JobOK, RestoreOK
  <1> QED
    BY <1>4, <1>5, <1>6, <1>7, <1>8, StepOf DEF JobOK

LEMMA ProgramRestoresKeeps ==
    ASSUME JobsInv, NEW j \in Jobs, ProgramRestores(j)
    PROVE  JobsInv'
  <1>1. Typed /\ child[j] = "running" /\ UNCHANGED <<now, job, child, staged, passfiles>>
    BY DEF JobsInv, ProgramRestores
  <1>2. job[j].stage # "idle"
    BY <1>1 DEF JobsInv, JobOK, ProgramOK
  <1>3. child' = [child EXCEPT ![j] = "running"]
    BY <1>1 DEF Typed
  <1>4. PICK o \in Archive : restored' = [restored EXCEPT ![j] = restored[j] \union {o}]
    BY <1>1 DEF ProgramRestores, Typed
  <1>5. restored[j] \union {o} \in SUBSET Archive
    BY <1>1 DEF Typed
  <1> QED
    BY <1>1, <1>2, <1>3, <1>4, <1>5, ProgramKeeps DEF ProgramRestores

LEMMA ProgramEndsKeeps ==
    ASSUME JobsInv, NEW j \in Jobs, ProgramEnds(j)
    PROVE  JobsInv'
  <1>1. Typed /\ child[j] = "running" /\ UNCHANGED <<now, job, staged, passfiles>>
    BY DEF JobsInv, ProgramEnds
  <1>2. job[j].stage # "idle"
    BY <1>1 DEF JobsInv, JobOK, ProgramOK
  <1>3. PICK end \in {"ok", "failed"} :
            /\ child' = [child EXCEPT ![j] = end]
            /\ restored' = IF end = "ok" /\ Restores(job[j].ask)
                           THEN [restored EXCEPT ![j] = Archive] ELSE restored
    BY DEF ProgramEnds
  <1>4. PICK objects \in {restored[j], Archive} : restored' = [restored EXCEPT ![j] = objects]
    BY <1>1, <1>3 DEF Typed
  <1>5. objects \in SUBSET Archive
    BY <1>1, <1>4 DEF Typed
  <1> QED
    BY <1>1, <1>2, <1>3, <1>4, <1>5, ProgramKeeps

LEMMA TakeKeeps ==
    ASSUME JobsInv, NEW n \in Names, Take(n)
    PROVE  JobsInv'
  BY DEF Take, JobsInv, Typed, JobOK, HasAsk, NameOK, OutputOK, Owns, Made, BareOK, PassfileOK, ProgramOK, RestoreOK

LEMMA CrashKeeps ==
    ASSUME JobsInv, Crash
    PROVE  JobsInv'
  <1>1. Typed /\ UNCHANGED <<now, child, staged, passfiles, restored>>
    BY DEF JobsInv, Crash
  <1>2. "lost" \in AllStages
    BY DEF AllStages
  <1>3. \A j \in Jobs : job'[j] = job[j] \/ (job[j].stage \notin Over \union {"idle"} /\ job'[j] = [job[j] EXCEPT !.stage = "lost"])
    BY DEF Crash, At
  <1>4. job' \in [Jobs -> [stage : AllStages, ask : Asks \union {None}, deadline : Int]]
    BY <1>1, <1>2 DEF Crash, At, Typed
  <1>5. Typed'
    BY <1>1, <1>4 DEF Typed
  <1>6. ASSUME NEW j \in Jobs
        PROVE  JobOK(j)'
    <2>1. JobOK(j)
      BY DEF JobsInv
    <2>2. CASE job'[j] = job[j]
      BY <1>1, <2>1, <2>2
         DEF JobOK, HasAsk, NameOK, OutputOK, Owns, Made, BareOK, PassfileOK, ProgramOK, RestoreOK
    <2>3. CASE job[j].stage \notin Over \union {"idle"} /\ job'[j] = [job[j] EXCEPT !.stage = "lost"]
      <3>1. job'[j].stage = "lost" /\ job'[j].ask = job[j].ask /\ job[j].stage # "idle"
        BY <1>1, <2>3 DEF Typed
      <3>2. OutputOK(j)' /\ PassfileOK(j)'
        BY <1>1, <2>1, <2>3, <3>1 DEF JobOK, OutputOK, Owns, Made, PassfileOK
      <3>4. BareOK(j)'
        <4>1. job[j].stage \notin Over
          BY <2>3
        <4>2. \A n \in Names : Made(j, n) => ~staged[n].bare
          BY <2>1, <4>1 DEF JobOK, BareOK
        <4> QED
          BY <1>1, <4>2 DEF BareOK, Made
      <3>3. HasAsk(j)' /\ NameOK(j)' /\ ProgramOK(j)' /\ RestoreOK(j)'
        BY <1>1, <2>1, <3>1 DEF JobOK, HasAsk, NameOK, ProgramOK, RestoreOK
      <3> QED
        BY <3>2, <3>3, <3>4 DEF JobOK
    <2> QED
      BY <1>3, <2>2, <2>3
  <1> QED
    BY <1>5, <1>6 DEF JobsInv

LEMMA TickKeeps ==
    ASSUME JobsInv, Tick
    PROVE  JobsInv'
  <1>1. Typed /\ now' = now + 1 /\ UNCHANGED <<job, child, staged, passfiles, restored>>
    BY DEF JobsInv, Tick
  <1>2. Typed'
    BY <1>1 DEF Typed
  <1>3. ASSUME NEW j \in Jobs
        PROVE  JobOK(j)'
    <2>1. JobOK(j)
      BY DEF JobsInv
    <2>2. /\ job[j].stage \notin {"ready", "admitted", "starting"}
          /\ job[j].stage = "running" => now < job[j].deadline
      BY DEF Tick, At, Over
    <2>3. ProgramOK(j)'
      BY <1>1, <2>1, <2>2 DEF JobOK, ProgramOK, Typed
    <2>4. OutputOK(j)' /\ BareOK(j)'
      BY <1>1, <2>1, <2>2 DEF JobOK, OutputOK, BareOK, Owns, Made
    <2> QED
      BY <1>1, <2>1, <2>3, <2>4 DEF JobOK, HasAsk, NameOK, PassfileOK, RestoreOK
  <1> QED
    BY <1>2, <1>3 DEF JobsInv

-------------------------------------------------------------------------------
(* Theorems. *)

LEMMA InitHolds == Init => JobsInv
  BY DEF Init, JobsInv, Typed, AllStages, Early, JobOK, HasAsk, NameOK, OutputOK, Owns, Made, BareOK, PassfileOK,
         ProgramOK, RestoreOK

LEMMA StepKeeps == JobsInv /\ [Next]_vars => JobsInv'
  <1> SUFFICES ASSUME JobsInv, [Next]_vars
               PROVE  JobsInv'
    OBVIOUS
  <1>1. ASSUME NEW j \in Jobs,
               \/ \E ask \in Asks : Arrive(j, ask)
               \/ LookUpName(j) \/ Stage(j) \/ Check(j) \/ Connect(j) \/ Spawn(j)
        PROVE  JobsInv'
    BY <1>1, ArriveKeeps, LookUpNameKeeps, StageKeeps, CheckKeeps, ConnectKeeps, SpawnKeeps
  <1>2. ASSUME NEW j \in Jobs, Cancel(j) \/ DeadlineFires(j) \/ Settle(j) \/ Return(j) \/ Drop(j)
        PROVE  JobsInv'
    BY <1>2, KillKeeps, SettleKeeps, ReturnKeeps, DropKeeps DEF Cancel, DeadlineFires
  <1>3. ASSUME NEW j \in Jobs, ProgramRestores(j) \/ ProgramEnds(j)
        PROVE  JobsInv'
    BY <1>3, ProgramRestoresKeeps, ProgramEndsKeeps
  <1>4. ASSUME UNCHANGED vars
        PROVE  JobsInv'
    BY <1>4 DEF vars, JobsInv, Typed, JobOK, HasAsk, NameOK, OutputOK, Owns, Made, BareOK, PassfileOK, ProgramOK,
                RestoreOK
  <1> QED
    BY <1>1, <1>2, <1>3, <1>4, TakeKeeps, CrashKeeps, TickKeeps DEF Next

\* Through every interleaving of calls, every failing call of the file system and every crash:
\* what is staged belongs to a call that may still want it, is of the kind that call's guard
\* removes, and is younger than any sweep asks for as long as the call may run; or it is the
\* bare entry of a call that has ended, which created it and could not restrict it.
THEOREM JobsInvariant == Spec => []JobsInv
  BY InitHolds, StepKeeps, PTL DEF Spec

\* A call that has ended leaves no program, no password file and no partial output but a bare
\* entry, whatever the calls, the outputs and their order (tools/host.rs, StagingGuard, the
\* NamedTempFile and the kill on drop).
THEOREM NothingIsLeft == Spec => []NothingLeftBehind
  <1>1. JobsInv => NothingLeftBehind
    BY DEF JobsInv, JobOK, OutputOK, Owns, Made, PassfileOK, ProgramOK, NothingLeftBehind, Over
  <1> QED
    BY <1>1, JobsInvariant, PTL

\* A restore in one transaction restores all of its archive or nothing, for any archive and
\* through every kill and crash (single_transaction unless parallel or batched).
THEOREM WholeRestores == Spec => []RestoresAreWhole
  <1>1. JobsInv => RestoresAreWhole
    BY DEF JobsInv, JobOK, RestoreOK, RestoresAreWhole
  <1> QED
    BY <1>1, JobsInvariant, PTL

\* No sweep takes the output of a program under a live call: the age a sweep asks for is more
\* than the longest timeout a call may ask for (STALE_PARTIAL_AGE against the clamp).
THEOREM SweepsSpare == Spec => SweepsSpareRunningJobs
  <1> DEFINE spares ==
        \A j, k \in Jobs :
          At(k, "idle") /\ ~At(k, "idle")' /\ At(j, "running") =>
              \A n \in Names : staged[n] # None /\ staged[n].job = j => staged'[n] = staged[n]
  <1>1. JobsInv /\ [Next]_vars => spares
    <2>1. SUFFICES ASSUME JobsInv, [Next]_vars, NEW j \in Jobs, NEW k \in Jobs,
                          job[k].stage = "idle", job'[k].stage # "idle", job[j].stage = "running",
                          NEW n \in Names, staged[n] # None, staged[n].job = j
                   PROVE  staged'[n] = staged[n]
      BY DEF At
    <2>2. \E ask \in Asks : Arrive(k, ask)
      <3>1. Typed
        BY <2>1 DEF JobsInv
      <3>2. ~Crash /\ ~Tick /\ ~(\E m \in Names : Take(m)) /\ ~UNCHANGED vars
        BY <2>1 DEF Crash, Tick, Take, At, vars
      <3>3. ASSUME NEW i \in Jobs, ProgramRestores(i) \/ ProgramEnds(i)
            PROVE  FALSE
        BY <2>1, <3>3 DEF ProgramRestores, ProgramEnds
      <3>4. ASSUME NEW i \in Jobs, NEW stage \in AllStages, Go(i, stage), job[i].stage # "idle"
            PROVE  FALSE
        BY <2>1, <3>1, <3>4, GoIs
      <3>5. ASSUME NEW i \in Jobs, NEW stage \in Over, EndJob(i, stage), job[i].stage # "idle"
            PROVE  FALSE
        BY <3>4, <3>5 DEF EndJob, EndLeaving, AllStages
      <3>6. ASSUME NEW i \in Jobs, LookUpName(i) \/ Stage(i)
            PROVE  FALSE
        BY <3>4, <3>6 DEF LookUpName, Stage, At, AllStages, Early, Over
      <3>7. ASSUME NEW i \in Jobs, Check(i) \/ Connect(i)
            PROVE  FALSE
        BY <3>4, <3>5, <3>7 DEF Check, Connect, EndLeaving, At, AllStages, Over
      <3>8. ASSUME NEW i \in Jobs, Spawn(i)
            PROVE  FALSE
        <4>1. i # k /\ ~EndJob(i, "failed")
          BY <2>1, <3>5, <3>8 DEF Spawn, At, Over
        <4> QED
          BY <2>1, <3>1, <3>8, <4>1 DEF Spawn, Typed
      <3>9. ASSUME NEW i \in Jobs, Kill(i) \/ Settle(i) \/ Return(i) \/ Drop(i)
            PROVE  FALSE
        BY <3>4, <3>5, <3>9 DEF Kill, Settle, Return, Drop, At, AllStages, Over
      <3>10. PICK i \in Jobs : \E ask \in Asks : Arrive(i, ask)
        BY <2>1, <3>2, <3>3, <3>6, <3>7, <3>8, <3>9 DEF Next, Cancel, DeadlineFires
      <3>11. i = k
        BY <2>1, <3>1, <3>10 DEF Arrive, Typed
      <3> QED
        BY <3>10, <3>11
    <2>3. Typed /\ JobOK(j)
      BY <2>1 DEF JobsInv
    <2>4. /\ now \in Nat /\ staged[n].since \in Int /\ job[j].deadline \in Int
          /\ now <= job[j].deadline /\ job[j].deadline <= staged[n].since + TimeoutCap
      BY <2>1, <2>3 DEF Typed, JobOK, ProgramOK, OutputOK, BareOK, Owns, Made, StagedEntries, Over
    <2>5. ~Stale(staged[n], StalePartialAge)
      BY <2>4, HostJobsAssumption DEF Stale
    <2> QED
      BY <2>2, <2>5 DEF Arrive, PartialsSwept
  <1>2. Spec => [][spares]_vars
    <2> HIDE DEF spares
    <2> QED
      BY <1>1, JobsInvariant, PTL DEF Spec
  <1> QED
    BY <1>2 DEF SweepsSpareRunningJobs

===============================================================================
