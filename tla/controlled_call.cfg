\* The token and the connection are all that invocations share: two suffice, and one
\* server behind one of them.
SPECIFICATION FairRemoteSpec
CONSTANTS
    i1 = i1
    i2 = i2
    Invocations <- MCInvocations
    Served <- MCServed
INVARIANTS
    CallTypeOK
    AnswerWins
    NothingLeftRunning
PROPERTIES
    CancelReachesAll
    TornRunEnds
CHECK_DEADLOCK FALSE
