SPECIFICATION Spec
CONSTANTS
 None = None
 Calls = {k1,k2,k3}
 Principals = {p}
 Handles = {h1}
 Ops = {"begin","ddl","commit","rollback","read"}
 ParkCap = 2
 EndedCap = 2
 RefusesReads = FALSE
 RefusesWrites = TRUE
 DiskFails = TRUE
 Deadlines = TRUE
SYMMETRY Symmetric
INVARIANTS
  OnlyCommittedAnnounced
  CommittedIsAnnounced
  LinesSurviveShutdown
CHECK_DEADLOCK FALSE
