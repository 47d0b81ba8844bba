SPECIFICATION Spec
CONSTANTS
    alice = alice
    bob = bob
    People = {alice}
    Planner = Planner
    NoOne = NoOne
    MaxAttempts = 2
    MaxActions = 1
    Interrupted = {"execute"}
    MaxPlans = 1
    MaxReleases = 0
    MaxRequests = 1
PROPERTIES
    ZombieChangesNothing
CHECK_DEADLOCK FALSE
