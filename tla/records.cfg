\* A ring of one, two moments, one sweep at a time.
SPECIFICATION RecSpec
CONSTANTS
    r1 = r1
    k1 = k1
    r2 = r2
    Nodes <- MCNodes
    RootOf <- MCRootOf
    Callers <- MCCallers
    PolicyChoices <- MCPolicies
    RingSize = 1
    Retention = 0
    SweepLiveRuns = FALSE
    NoMode = NoMode
    MaxClock = 1
    MaxSweeps = 1
INVARIANTS
    RecTypeOK
    LogsFollowTheirRoot
    ReferencesLoad
PROPERTIES
    RingKeepsNewest
CHECK_DEADLOCK FALSE
