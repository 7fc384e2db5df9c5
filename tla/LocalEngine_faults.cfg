SPECIFICATION Spec
CONSTANTS
    Tasks = {t1}
    Sweeper = sweeper
    Ids = {h1}
    Writes = {w1, w2}
    Cursors = {}
    Names = {s1, s2}
    CursorCap = 1
    MaxSavepoints = 2
    Faults = {"loss", "interrupt"}
    Prefixed = TRUE
    None = None
CHECK_DEADLOCK FALSE
SYMMETRY Symmetry
INVARIANTS
    TypeOK
    NoWorkingOrphan
    CommittedExactly
    SavepointsMirrorServer
PROPERTIES
    DueHandleIsFinished
    HandlesKeepPromises
