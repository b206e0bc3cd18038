\* One part of the web process at work: two fetches of one signal under bans of several
\* lengths; one load of the health page over a box that changes once; every build's
\* loop past its deadline; trades and charts of a few bars, tables of four rows; one
\* grant and two browsers over four ticks; both logins over one gate, two tokens and
\* two devices; two clicks on one path that do not overlap; two audited writes with lost
\* answers and failed appends; two tabs handing over two codes or results.
SPECIFICATION OpsSpec
CONSTANTS
    f1 = f1
    f2 = f2
    Fetch = {f1, f2}
    Concurrency = 2
    ReplayTtl = 3
    Retry = 1
    Cooldown = 1
    BanMax = 3
    BanFor = {0, 1, 4}
    FetchTime = 1
    MaxMono = 5
    VetoThresholds = {5}
    Period = 2
    Mult = 1
    Step = 1
    MaxStep = 2
    TfMin = 5
    FundingBps = 1
    FeeBps = 1
    Stop <- MCStop
    Target <- MCTarget
    FixedPct = 1
    Distances = {1, 2}
    Fee = 1
    RowStale = 2
    FileStale = 2
    RunGap = 2
    PageSize = 2
    StallBars = 2
    AnchorSlack = 2
    StallAge = 2
    SarWindow = 2
    SarMinSample = 1
    PairLimit = 2
    Begins <- MCBegins
    DayTicks = 2
    Presets = {1, 2}
    TradeFee = 0
    PerTrade = 2
    ProfitFee = 1
    ProfitPage = 1
    Runner = 1
    Roster <- MCRoster
    Needed = {"k"}
    CohortWidth = 10
    AgentStale = 1
    EngineBox = "engine"
    RedisBox = "redis"
    ApiBox = "engine"
    BoxStates <- MCBoxStates
    MaxMoves = 1
    Bars <- MCBars
    ChartBars <- MCChartBars
    RowChoices <- MCRows
    MaxBars = 4
    MaxChart = 5
    MaxRows = 4
    Moments = {3, 5, 6}
    Builds <- MCBuilds
    Warn = 1
    Kill = 2
    WarmUp = 1
    MinCycles = 3
    MaxCycles = 4
    MaxIdle = 4
    p1 = p1
    e1 = e1
    e2 = e2
    c1 = c1
    c2 = c2
    t1 = t1
    t2 = t2
    b1 = b1
    b2 = b2
    g1 = g1
    d1 = d1
    d2 = d2
    Path = {p1}
    Editor = {e1, e2}
    Default <- MCDefault
    RuleChoices <- MCRules
    EditsOverlap = FALSE
    Faults = TRUE
    Caller = {c1, c2}
    Slack = 1
    PageRows = 2
    TailLimit = 2
    MaxClock = 3
    Tab = {t1, t2}
    MaxKeys = 2
    ResultsMax = 1
    Grant = {g1}
    Browser = {b1, b2}
    NoGrant = NoGrant
    Ttl = {2}
    MaxFailures = 2
    FailureWindow = 2
    Lockout = 2
    PurgeAfter = 0
    MaxTime = 4
    CountMax = 3
    SavesFail = FALSE
    Restarts = TRUE
    Totp = TRUE
    MaxTimeStep = 2
    Token = {t1, t2}
    TokenSavesFail = FALSE
    Device = {d1, d2}
    ProcessesOverlap = FALSE
    DeviceSavesFail = FALSE
    WebRestarts = TRUE
INVARIANT OwnerPowersMeanOwnerSignIn GuessesAreThrottled AcceptedOnce RevokedTokensStayDead RegistryIsAsAsked ConflictsAreFlagged EveryChangeIsLogged PendingMeansOwed ShownOnce
INVARIANT StaleIsRefetched NoInventedWin BrokenWasDown VerdictFollowsWork PathsDecide StopsAreKnowable NoRowIsLost DaysAreWhole PeakIsFunded
PROPERTY AnswersOnlyHonoured DeadStaysDead LockoutIsNotExtended OnlyConfirmedRestores NoFetchInsideABan
CHECK_DEADLOCK FALSE
