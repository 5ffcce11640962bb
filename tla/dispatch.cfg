SPECIFICATION TreeSpec
CONSTANTS
    c1 = c1
    c2 = c2
    root = root
    a = a
    b = b
    g = g
    Nodes <- MCNodes
    Root = root
    Parent <- MCParent
    NodeOf <- MCNodeOf
    Custom <- MCCustom
    Structured = TRUE
    HasBackend = TRUE
    Tokens <- MCTokens
    Abandoned <- MCBranch
    Receipts <- MCNoReceipts
    Calls <- MCCalls
    RequestOf <- MCRequestOf
    Usages <- MCUsages
    MaxLlmCalls = 1
    SpendLimit = 1
    TimeLimited = TRUE
    Concurrency = 1
    MaxCost = 2
    NoLimit = NoLimit
    NoPrice = NoPrice
    NoUsage = NoUsage
INVARIANTS
    TreeTypeOK
    RegisterIsTheTree
PROPERTIES
    NothingStartsAfterTrip
    CallerStopNotRelabelled
    TreeUsesDoor
CHECK_DEADLOCK FALSE
