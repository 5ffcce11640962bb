SPECIFICATION TreeFairSpec
CONSTANTS
    c1 = c1
    c2 = c2
    root = root
    a = a
    b = b
    g = g
    Nodes <- MCNodes
    Root = root
    Parent <- MCParent
    NodeOf <- MCNodeOf
    Custom <- MCCustom
    Structured = TRUE
    HasBackend = TRUE
    Tokens <- MCNoNodes
    Abandoned <- MCBranch
    Receipts <- MCReceipts
    Calls <- MCCalls
    RequestOf <- MCRequestOf
    Usages <- MCUsages
    MaxLlmCalls = NoLimit
    SpendLimit = 1
    TimeLimited = FALSE
    Concurrency = 1
    MaxCost = 2
    NoLimit = NoLimit
    NoPrice = NoPrice
    NoUsage = NoUsage
PROPERTIES
    NobodyWaitsForever
INVARIANTS
    DollarsAddUp
CHECK_DEADLOCK FALSE
