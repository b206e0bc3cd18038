\* Finding: a leg beyond the first target counts though the trade reached it only after
\* its stop.
SPECIFICATION Spec
CONSTANTS
    f1 = f1
    f2 = f2
    Fetch = {f1, f2}
    Concurrency = 2
    ReplayTtl = 3
    Retry = 1
    Cooldown = 1
    BanMax = 3
    BanFor = {0, 1, 4}
    FetchTime = 1
    MaxMono = 6
    VetoThresholds = {5}
    Period = 2
    Mult = 1
    Step = 1
    MaxStep = 2
    TfMin = 5
    FundingBps = 1
    FeeBps = 1
    Stop <- MCStop
    Target <- MCTarget
    FixedPct = 1
    Distances = {1, 2}
    Fee = 1
    RowStale = 2
    FileStale = 2
    RunGap = 2
    PageSize = 2
    StallBars = 2
    AnchorSlack = 2
    StallAge = 2
    SarWindow = 2
    SarMinSample = 1
    PairLimit = 2
    Begins <- MCBegins
    DayTicks = 2
    Presets = {1, 2}
    TradeFee = 0
    PerTrade = 2
    ProfitFee = 1
    ProfitPage = 1
    Runner = 1
    Roster <- MCRoster
    Needed = {"k"}
    CohortWidth = 10
    AgentStale = 1
    EngineBox = "engine"
    RedisBox = "redis"
    ApiBox = "engine"
    BoxStates <- MCBoxStates
    MaxMoves = 2
    Bars <- MCBars
    ChartBars <- MCChartBars
    RowChoices <- MCRows
    MaxBars = 4
    MaxChart = 5
    MaxRows = 4
    Moments = {3, 5, 6}
    Builds <- MCBuilds
    Warn = 1
    Kill = 2
    WarmUp = 1
    MinCycles = 3
    MaxCycles = 4
    MaxIdle = 4
INVARIANT WinsAreNeverInvented
CHECK_DEADLOCK FALSE
