\* Two fetches of a signal the engine calls closed, Binance answering or not.
SPECIFICATION CandlesSpec
CONSTANTS
    Fetch = {"f1", "f2"}
    Concurrency = 2
    ReplayTtl = 3
    Retry = 1
    Cooldown = 1
    BanMax = 3
    BanFor = {0, 1, 4}
    FetchTime = 1
    MaxMono = 6
INVARIANT DegradedIsRetried
CHECK_DEADLOCK FALSE
