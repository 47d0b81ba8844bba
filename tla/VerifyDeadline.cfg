CONSTANTS
    Settle = 1
    Interval = 1
    HealthyChecks = 2
    Timeout = 2
    MaxAttempts = 2
    MaxTime = 5
SPECIFICATION VerifySpec
CHECK_DEADLOCK FALSE
INVARIANT OriginalDeadline
