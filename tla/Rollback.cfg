\* Two incidents with the same plan, one bad release.
CONSTANTS
    Executors = {x1, x2}
    MaxRevision = 4
    MaxReleases = 1
    Restarts = {0, 1}
SPECIFICATION ClusterSpec
CHECK_DEADLOCK FALSE
INVARIANT StaysUndone
