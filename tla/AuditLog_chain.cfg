SPECIFICATION Spec
CONSTANTS
    s1 = s1
    s2 = s2
    c1 = c1
    c2 = c2
    c3 = c3
    path = path
    Servers = {s1, s2}
    Calls = {c1, c2}
    ServerOf <- Runs
    BaseOf <- Paths
    PerProcess = FALSE
    Files = {f1, f2, f3}
    FileCap = 2
    KeepFiles = 1
    KeepDays = TRUE
    MaxLines = 5
    MaxLost = 2
    Faults = {"write", "cut", "open", "rename", "crash", "move"}
    None = None
CHECK_DEADLOCK FALSE
SYMMETRY Symmetry
INVARIANTS
    SoundFilesVerify
    LossIsVisible
    GapsAddUp
    FailingLogIsDegraded
