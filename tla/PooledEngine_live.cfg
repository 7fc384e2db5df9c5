SPECIFICATION LiveSpec
CONSTANTS
    Calls = {a1, a2}
    Principals = {alice, bob}
    alice = alice
    bob = bob
    b1 = b1
    PrincipalOf <- Callers
    Slots = {k1, k2}
    Ids = {h1}
    Writes = {w1}
    Cursors = {}
    Names = {}
    CursorCap = 1
    MaxSavepoints = 0
    Ops = {"status", "run", "commit", "read", "catalog"}
    Faults = {"loss"}
    Prefixed = FALSE
    None = None
CHECK_DEADLOCK FALSE
PROPERTIES
    DueHandlesClose
    CallsReturn
