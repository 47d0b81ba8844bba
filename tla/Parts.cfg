\* Each part at the smallest size at which its hazards happen; see the README.
CONSTANTS
    Pair = {p1, p2}
    \* AuditLog: three transactions, four rows
    Writers = {p1, p2, p3}
    Contents = {"c1", "c2"}
    Nobody = Nobody
    MaxSeq = 4
    \* Stream: two calls of two incidents, one connection lost
    Tables = {"llm"}
    Incidents = {p1, p2}
    MaxCalls = 2
    MaxCuts = 1
    Batch = 2
    \* Verify: two overlapping runs
    Settle = 1
    Interval = 1
    HealthyChecks = 2
    Timeout = 2
    MaxAttempts = 2
    MaxTime = 3
    \* Cluster: two executors, one release between
    Executors = {p1, p2}
    MaxRevision = 4
    MaxReleases = 1
    Restarts = {0, 1}
    \* Lab
    Services = {"checkout", "ad"}
    Acceptance <- AcceptanceRuns
    \* Evaluate
    EvalCatalogue <- ThreeScenarios
    Variants = {"default", "canary"}
    TokenBudget = 3
    MaxTokens = 2
    \* Scoring
    Label <- TheLabel
    Alphabet <- FourServices
    NumScenarios = 5
    Sightings <- SixSightings
    Against <- FourBaselines
    Unit = 2
    \* Replay
    AgentRuns <- ThreeRuns
    Fingerprints <- TwoFingerprints
    MaxQueries = 2
    MaxReruns = 1
    \* Policy
    Evidence <- ThreeRows
    Foreign = {"x"}
    ShownTo <- Seen
    Causes <- TwentyCauses
    MaxCauses = 2
    PlanActions <- SixActions
    Targets = {"checkout", "cart"}
    MinConfidence = 50
    ChangeWindows <- FourWindows
    Hours = {5, 23}
    \* Chunking and Knowledge
    Documents <- SmallDocuments
    Presets <- TwoPresets
    Ingesters = {p1, p2}
    KbTargets <- ThreeTargets
    Pieces <- OneOrTwo
    RRF_K = 2
    Candidates = 3
    MaxIngests = 3
SPECIFICATION PartsSpec
SYMMETRY Symmetry
CHECK_DEADLOCK FALSE
INVARIANTS
    ChainIntact TamperingReported
    AuditDelivered ActivityDelivered  VerdictEarned
    AcceptanceSound CountedOnce WindowBudget PassEarned
    ReplayFaithful ReviewHolds KnowledgeSound
PROPERTIES NoLateRows RollbackOfWhatIsThere
