SPECIFICATION LiveSpec
CONSTANTS
    Tasks = {t1, t2}
    Sweeper = sweeper
    Ids = {h1}
    Writes = {}
    Cursors = {k1}
    Names = {s1}
    CursorCap = 1
    MaxSavepoints = 0
    Faults = {"loss"}
    Prefixed = FALSE
    None = None
CHECK_DEADLOCK FALSE
PROPERTIES
    DueHandleCloses
    SecondConnectionCloses
