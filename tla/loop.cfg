SPECIFICATION NodeSpec
CONSTANTS
    search = search
    write = write
    weather = weather
    news = news
    Sections <- MCSections
    Toolbox <- MCToolbox
    Permitted <- MCPermitted
    Setups <- MCSetups
    Usages <- MCUsages
    Floor = 1
    ChildOvershoot = 2
    ChildMost = 1
    MaxIterations = 2
    MaxToolCalls = 2
    MaxTurnCost = 2
    NoGrant = NoGrant
    NoPrice = NoPrice
    NoUsage = NoUsage
INVARIANTS
    LoopTypeOK
    TranscriptAnswered
    NodeGrantHolds
    EnvelopeMatchesDoor
CHECK_DEADLOCK FALSE
