\* Finding: a revoke whose write fails is reported as done.
SPECIFICATION AccessSpec
CONSTANTS
    g1 = g1
    g2 = g2
    b1 = b1
    b2 = b2
    NoGrant = NoGrant
    Grant = {g1}
    Browser = {b1}
    Ttl = {2}
    MaxFailures = 2
    FailureWindow = 2
    Lockout = 2
    PurgeAfter = 0
    MaxTime = 4
    CountMax = 3
    SavesFail = TRUE
    Restarts = TRUE
PROPERTY AnswersOnlyHonoured
