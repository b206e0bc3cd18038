\* Finding: the signing fingerprint carries the status text.
SPECIFICATION Spec
CONSTANTS
    naked = naked  silence = silence  unreachable = unreachable
    up2h = up2h  up3h = up3h
    nakedC = nakedC  silenceC = silenceC  signingC = signingC
    diag = diag  docker = docker
    Fingerprint = {up2h, up3h}
    Source = {docker}
    Condition = {signingC}
    CondSource <- SigningCondSource
    CondOf <- SigningCondOf
    FailureOf <- SigningFailureOf
    Severities <- SigningSeverities
    FiresBlind = {}
    Dedup = 2
    Expiry = 4
    CountMax = 3
    MaxBlind = 2
    Replies = {"ok"}
    Forgets = FALSE
    DetectorsRaise = FALSE
    Crashes = FALSE
PROPERTY RecoveryMeansCleared
