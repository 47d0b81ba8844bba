\* Two webhooks of up to two alerts, duplicates among them, and one worker; three
\* incidents, so that a fingerprint's incident closes and reopens twice.
CONSTANTS
    Webhooks = {h1, h2}
    Workers = {k1}
    Nobody = Nobody
    Fingerprints = {1, 2}
    MaxBatch = 2
    MaxIncidents = 3
    MaxAlerts = 2
SPECIFICATION Spec
SYMMETRY Symmetry
INVARIANTS OneOpenIncident EveryAlertCounted IncidentsInOrder
