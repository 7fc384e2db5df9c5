SPECIFICATION Spec
CONSTANTS
    Calls = {a1, a2, b1}
    Principals = {alice, bob}
    alice = alice
    bob = bob
    b1 = b1
    PrincipalOf <- Callers
    Slots = {k1, k2, k3}
    Ids = {h1, h2}
    Writes = {w1}
    Cursors = {}
    Names = {}
    CursorCap = 1
    MaxSavepoints = 0
    Ops = {"run", "commit", "write_outside", "dry_run"}
    Faults = {"interrupt"}
    Prefixed = TRUE
    None = None
CHECK_DEADLOCK FALSE
SYMMETRY Symmetry
INVARIANTS
    ConnectionsAreExclusive
    OneHandlePerPrincipal
    BlocksHoldOwnWrites
    LanesKeepTheirWord
