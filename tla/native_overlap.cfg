\* Finding: the registry's lock does not reach the other process.
SPECIFICATION NativeSpec
CONSTANTS
    t1 = t1
    d1 = d1
    d2 = d2
    Totp = FALSE
    MaxTimeStep = 1
    Token = {t1}
    TokenSavesFail = FALSE
    Device = {d1, d2}
    ProcessesOverlap = TRUE
    DeviceSavesFail = FALSE
    WebRestarts = FALSE
INVARIANT RegistryIsAsAsked
