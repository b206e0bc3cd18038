\* Two windows asking for two mode changes of an engine of each kind, or three
\* backtests whose copies may take the whole of their timeout.
SPECIFICATION Spec
CONSTANTS
    w1 = w1
    w2 = w2
    Mode = {"paper", "live"}
    Window = {w1, w2}
    QueueExpiry = 1
    ApplyingFor = 1
    RequestWindow = 2
    ResultShown = 0
    MaxAsks = 2
    MaxJobs = 3
    Timeout = 1
    StaleSlack = 1
    WritesFail = TRUE
INVARIANT OneInFlight DoneIsOwn
PROPERTY ForgottenOnlyOnceTold VerdictStands RequestsSettle NeverStuck
CHECK_DEADLOCK FALSE
