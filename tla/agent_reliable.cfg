\* Redis answers, nothing crashes, a source is never blind as long as the TTL.
SPECIFICATION FairSpec
CONSTANTS
    naked = naked  silence = silence  unreachable = unreachable
    up2h = up2h  up3h = up3h
    nakedC = nakedC  silenceC = silenceC  signingC = signingC
    diag = diag  docker = docker
    Fingerprint = {naked, unreachable, silence}
    Source = {diag}
    Condition = {nakedC, silenceC}
    CondSource <- CoreCondSource
    CondOf <- CoreCondOf
    FailureOf <- CoreFailureOf
    Severities <- CoreSeverities
    FiresBlind = {}
    Dedup = 2
    Expiry = 4
    CountMax = 3
    MaxBlind = 2
    Replies = {"ok"}
    Forgets = FALSE
    DetectorsRaise = FALSE
    Crashes = FALSE
INVARIANT OpenIsTracked HighIsPaged
PROPERTY KeepsContract HeartbeatCountsActive EscalationReopens ClearedIsTold
