SPECIFICATION Spec
CONSTANTS
    Tasks = {t1, t2}
    Sweeper = sweeper
    Ids = {h1}
    Writes = {w1}
    Cursors = {k1, k2}
    Names = {s1}
    CursorCap = 2
    MaxSavepoints = 0
    Faults = {"loss", "stall"}
    Prefixed = FALSE
    None = None
CHECK_DEADLOCK FALSE
SYMMETRY Symmetry
INVARIANTS
    HandleExcludesReads
    AcknowledgedWritesAreDurable
    CursorsMirrorServer
    DryRunsChangeNothing
