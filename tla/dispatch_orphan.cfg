SPECIFICATION TreeSpec
CONSTANTS
    c1 = c1
    c2 = c2
    root = root
    a = a
    b = b
    g = g
    Nodes <- MCNodes
    Root = root
    Parent <- MCParent
    NodeOf <- MCNodeOf
    Custom <- MCCustom
    Structured = FALSE
    HasBackend = TRUE
    Tokens <- MCNoNodes
    Abandoned <- MCNoNodes
    Receipts <- MCNoReceipts
    Calls <- MCCalls
    RequestOf <- MCRequestOf
    Usages <- MCUsages
    MaxLlmCalls = NoLimit
    SpendLimit = 1
    TimeLimited = FALSE
    Concurrency = 2
    MaxCost = 2
    NoLimit = NoLimit
    NoPrice = NoPrice
    NoUsage = NoUsage
INVARIANTS
    EveryCallSettledAtReturn
CHECK_DEADLOCK FALSE
