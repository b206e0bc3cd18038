\* Any Redis command may fail or lose its reply, keys may vanish, the agent may die.
SPECIFICATION Spec
CONSTANTS
    naked = naked  silence = silence  unreachable = unreachable
    up2h = up2h  up3h = up3h
    nakedC = nakedC  silenceC = silenceC  signingC = signingC
    diag = diag  docker = docker
    Fingerprint = {naked, unreachable}
    Source = {diag}
    Condition = {nakedC}
    CondSource <- PairCondSource
    CondOf <- PairCondOf
    FailureOf <- CoreFailureOf
    Severities <- PairSeverities
    FiresBlind = {}
    Dedup = 1
    Expiry = 2
    CountMax = 2
    MaxBlind = 1
    Replies = {"ok", "refused", "lost"}
    Forgets = TRUE
    DetectorsRaise = FALSE
    Crashes = TRUE
INVARIANT PagedIsShown
PROPERTY RecoveryMeansCleared PageMeansSeen
