\* The agent may die between any two commands; Redis keeps its keys.
SPECIFICATION FairSpec
CONSTANTS
    naked = naked  silence = silence  unreachable = unreachable
    up2h = up2h  up3h = up3h
    nakedC = nakedC  silenceC = silenceC  signingC = signingC
    diag = diag  docker = docker
    Fingerprint = {naked, unreachable}
    Source = {diag}
    Condition = {nakedC}
    CondSource <- PairCondSource
    CondOf <- PairCondOf
    FailureOf <- CoreFailureOf
    Severities <- PairSeverities
    FiresBlind = {}
    Dedup = 2
    Expiry = 3
    CountMax = 2
    MaxBlind = 1
    Replies = {"ok"}
    Forgets = FALSE
    DetectorsRaise = FALSE
    Crashes = TRUE
PROPERTY NoRepageInWindow HeldIsPaged
