SPECIFICATION Spec
CONSTANTS
    Calls = {a1, a2}
    Principals = {alice, bob}
    alice = alice
    bob = bob
    b1 = b1
    PrincipalOf <- Callers
    Slots = {k1, k2}
    Ids = {h1}
    Writes = {w1, w2}
    Cursors = {}
    Names = {s1}
    CursorCap = 1
    MaxSavepoints = 1
    Ops = {"status", "run", "copy_in", "savepoint", "rollback_to", "commit", "rollback"}
    Faults = {"loss", "interrupt"}
    Prefixed = TRUE
    None = None
CHECK_DEADLOCK FALSE
SYMMETRY Symmetry
INVARIANTS
    TypeOK
    OpenHandlesHaveABlock
PROPERTIES
    EndsAreFinal
    HandlesKeepPromises
