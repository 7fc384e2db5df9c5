CONSTANTS
    MaxRequests = 3
    Asks <- TheAsks
    Starts <- TheStarts
    Canonical <- TheCanonical
    SocketPaths = {"/run"}
    LocalHosts = {"localhost", "127.0.0.1", "::1"}
    Bad = Bad
    Answers <- TheAnswers
    Sessions = {s1, s2}
    Leeway = 0
    MaxTime = 3
    MaxChanges = 1
    RefreshInterval = 1
    MaxStale = 2
    FetchTimeout = 1
    MinTtl = 1
    MaxTtl = 2
    DefaultTtl = 1
    Issuer = "issuer"
    Audience = "server"
    None = None
SPECIFICATION Spec
VIEW Observed
INVARIANTS
    SessionsServeTheirOwner
    EndpointIsSpared
PROPERTIES
    WithdrawnKeysExpire
CHECK_DEADLOCK FALSE
