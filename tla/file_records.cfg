\* A ring of one for three dev records: every prune has a victim.
SPECIFICATION FileSpec
CONSTANTS
    d1 = d1
    d2 = d2
    d3 = d3
    u1 = u1
    u2 = u2
    Ids <- MCIds
    Users <- MCUsers
    Created <- MCCreated
    Setups <- MCSetups
    Cutoff <- MCCutoff
    RingSize = 1
INVARIANTS
    FileTypeOK
    ReadersSeeWhole
    RingSound
    FailedStoresKeepNothing
    CountedOnce
CHECK_DEADLOCK FALSE
