CONSTANTS
    MaxCalls = 3
    Principals = {alice, bob}
    Nonces = {n1, n2}
    Catalogue <- TheCatalogue
    Conditions <- TheConditions
    CatalogNames = {"pg_class"}
    Retried <- TheRetried
    Modes = {"read-write"}
    Poolings = {FALSE}
    MaxTime = 2
    MaxStarts = 2
    Ttl = 1
    KeyFile = TRUE
    None = None
SPECIFICATION Spec
INVARIANTS
    OperationsRun
CHECK_DEADLOCK FALSE
