\* Finding: a task that is still copying past the deadline is joined by a new one.
SPECIFICATION BacktestSpec
CONSTANTS
    MaxJobs = 2
    Timeout = 2
    StaleSlack = 1
    WritesFail = FALSE
INVARIANT RefusesWhileInFlight
