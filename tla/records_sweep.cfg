\* Sweeps may reach into a run in progress.
SPECIFICATION RecSpec
CONSTANTS
    r1 = r1
    k1 = k1
    r2 = r2
    Nodes <- MCNodes
    RootOf <- MCRootOf
    Callers <- MCCallers
    PolicyChoices <- OnePolicy
    RingSize = 1
    Retention = 0
    SweepLiveRuns = TRUE
    NoMode = NoMode
    MaxClock = 1
    MaxSweeps = 1
INVARIANTS
    RecordedLogIsWhole
CHECK_DEADLOCK FALSE
