SPECIFICATION MCSpec
CONSTANTS
    People = {alice}
    Planner = Planner
    NoOne = NoOne
    MaxAttempts = 2
    MaxActions = 2
    Interrupted = {"execute", "investigate"}
    MaxPlans = 1
    MaxReleases = 1
    MaxRequests = 0
INVARIANTS
    AtMostOnce
    HonestRecord
    NeverForgotten
PROPERTIES
    ClosedForGood
    Closes
CHECK_DEADLOCK FALSE
