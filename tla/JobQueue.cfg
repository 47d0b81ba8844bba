\* Two jobs of any priorities, each claimed up to twice by a
\* process that loses leases, crashes and claims its own lost job again.
SPECIFICATION Spec
SYMMETRY Symmetry
CONSTANTS
    w1 = w1
    work = work
    Keys = {k1, k2}
    Workers = {w1}
    NoOwner = NoOwner
    Kinds = {work}
    KindOf <- MCKindOf
    Handles <- MCHandles
    Priorities = {0, 1}
    MaxAttempts = 2
    LeaseTTL = 0
    AgingStep = 1
    Delays = {0}
    BackoffBase = 1
    BackoffMax = 1
    MaxNow = 2
    MaxClaims = 2
INVARIANTS
    OpenTxOwnsLease
    AttemptsBounded
PROPERTIES
    KeepsPromise
    NoOvertaking
CHECK_DEADLOCK FALSE
