SPECIFICATION Spec
CONSTANTS
    RunCalls = {c1}
    RecoveryCalls = {r1}
    CancelCalls = {k1}
    NoOwner = NoOwner
    Mode = "in-place"
    Rounds = 0
    NeedsConsent = TRUE
    Lingering = TRUE
    Answering = {"ok", "write", "bad"}
    MaxTotalAttempts = 3
    MaxCrashes = 1
    MaxEpoch = 3
SYMMETRY Symmetry
INVARIANTS
    RunIsSound
PROPERTIES
    StoreIsRespected
    WritesNeedConsent
CHECK_DEADLOCK FALSE
