SPECIFICATION FairSpec
CONSTANTS
    k1 = k1
    w1 = w1
    w2 = w2
    work = work
    Keys = {k1}
    Workers = {w1, w2}
    Steady = {w1}
    NoOwner = NoOwner
    Kinds = {work}
    KindOf <- MCKindOf
    Handles <- MCHandles
    Priorities = {0}
    Concurrency = 2
    ReservedP0 = 0
    MaxAttempts = 2
    LeaseTTL = 0
    AgingStep = 1
    Delays = {0}
    BackoffBase = 1
    BackoffMax = 1
    MaxNow = 20
    MaxClaims = 3
    MaxBeats = 1
    MaxErrors = 1
INVARIANTS
    NoAbandonedLock
    DeadAudited
PROPERTIES
    EveryJobSettles
CHECK_DEADLOCK FALSE
