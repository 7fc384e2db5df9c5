CONSTANTS
    Jobs = {j1, j2}
    Names = {"x"}
    Asks <- TheAsks
    Setups <- TheSetups
    Archive = {o1, o2}
    TimeoutCap = 2
    StalePartialAge = 3
    StalePassfileAge = 2
    MaxTime = 4
    MaxCrashes = 1
    None = None
SPECIFICATION Spec
INVARIANTS
    NothingLeftBehind
    RestoresAreWhole
PROPERTIES
    SweepsSpareRunningJobs
CHECK_DEADLOCK FALSE
