------------------------------- MODULE MCHostJobs -------------------------------
(* HostJobs with a handful of calls: every tool, every refusal, every format. *)
EXTENDS HostJobs

Plain(tool) ==
    [tool |-> tool, name |-> "x", wellFormed |-> TRUE, format |-> "plain", jobs |-> FALSE,
     transactionSize |-> FALSE, single |-> "unset", dataOnly |-> FALSE, schemaOnly |-> FALSE,
     clean |-> FALSE, ifExists |-> "unset", confirm |-> "no", timeout |-> 1, dryRun |-> FALSE]
Dump == Plain("pg_dump")
Restore == Plain("pg_restore")

TheAsks ==
    {Dump, [Dump EXCEPT !.timeout = 5], [Dump EXCEPT !.format = "directory", !.jobs = TRUE],
     [Dump EXCEPT !.jobs = TRUE], [Dump EXCEPT !.dataOnly = TRUE, !.schemaOnly = TRUE],
     [Dump EXCEPT !.name = "../x"], [Dump EXCEPT !.dryRun = TRUE],
     Plain("pg_dumpall_globals"), Plain("pg_basebackup"), Plain("pg_upgrade_check"),
     Restore, [Restore EXCEPT !.jobs = TRUE], [Restore EXCEPT !.jobs = TRUE, !.single = "on"],
     [Restore EXCEPT !.single = "off"], [Restore EXCEPT !.ifExists = "on"],
     [Restore EXCEPT !.clean = TRUE], [Restore EXCEPT !.clean = TRUE, !.confirm = "argument"]}

Programs == {"pg_dump", "pg_dumpall", "pg_restore", "pg_basebackup"}
TheSetups ==
    {[outputDir |-> d, programs |-> Programs, tunnel |-> t, password |-> p] :
        d \in {"private", "shared"}, t \in BOOLEAN, p \in BOOLEAN}
================================================================================
