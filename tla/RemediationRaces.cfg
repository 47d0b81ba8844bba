\* Two people whose requests race each other, the timeout and the executor; the job
\* that verifies the result may be lost.
SPECIFICATION Spec
CONSTANTS
    alice = alice
    bob = bob
    People = {alice, bob}
    Planner = Planner
    NoOne = NoOne
    MaxAttempts = 1
    MaxActions = 1
    Interrupted = {"verify"}
    MaxPlans = 2
    MaxReleases = 0
    MaxRequests = 2
SYMMETRY Symmetry
INVARIANTS
    OnlyAuthorisedChanges
    ExecutesWhatWasApproved
CHECK_DEADLOCK FALSE
