CONSTANTS
    Webhooks = {h1, h2}
    Workers = {k1}
    Nobody = Nobody
    Fingerprints = {1, 2}
    MaxBatch = 2
    MaxIncidents = 3
    MaxAlerts = 2
SPECIFICATION Spec
INVARIANT CannotDeadlock
