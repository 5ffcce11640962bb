\* Five calls, two chairs, all three fuses armed.
SPECIFICATION Spec
CONSTANTS
    c1 = c1
    c2 = c2
    c3 = c3
    c4 = c4
    c5 = c5
    Calls <- MCCalls
    RequestOf <- MCRequestOf
    Usages <- MCUsages
    MaxLlmCalls = 3
    SpendLimit = 2
    TimeLimited = TRUE
    Concurrency = 2
    MaxCost = 2
    NoLimit = NoLimit
    NoPrice = NoPrice
    NoUsage = NoUsage
INVARIANTS
    TypeOK
    RoomSound
    CallLimitHolds
    BooksAddUp
    OvershootBounded
PROPERTIES
    HaltIsFinal
    NoOvertaking
    MeterSpec
CHECK_DEADLOCK FALSE
