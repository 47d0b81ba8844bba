CONSTANTS
    \* Investigation: two investigators, two overlapping attempts
    Investigators = {metrics, changes}
    MaxSteps = 2
    MaxRewrites = 1
    Budget = 4
    StepTokens = 1
    MaxAttempts = 2
    \* Sources: two calls each
    Callers = {metrics, changes}
    Threshold = 2
    Cooldown = 1
    Retries = 1
    MaxClock = 1
    MaxToolCalls = 2
    Results = {"r1", "r2"}
    \* Llm and Transcript
    Steppers = {metrics, changes}
    Concurrency = 1
    LlmRetries = 1
    MaxProcesses = 4
    MaxTurns = 7
    MaxActions = 2
SPECIFICATION AgentsSpec
SYMMETRY Symmetry
INVARIANTS
    EntriesOnce CompletedNotAskedAgain Overshoot DiagnosisSupported
    OutageLoad ShownIsStored FewAtATime RequestAccepted
CHECK_DEADLOCK FALSE
