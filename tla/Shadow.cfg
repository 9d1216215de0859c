SPECIFICATION Spec
CONSTANTS
    RunCalls = {c1, c2}
    RecoveryCalls = {r1}
    CancelCalls = {}
    NoOwner = NoOwner
    Mode = "shadow"
    Rounds = 0
    NeedsConsent = FALSE
    Lingering = FALSE
    Answering = {"ok", "bad"}
    MaxTotalAttempts = 4
    MaxCrashes = 0
    MaxEpoch = 3
SYMMETRY Symmetry
INVARIANTS
    Isolation
    ApprovedIsWhatWasReviewed
PROPERTIES
    DoubtNeedsDecision
    WritersStartClean
CHECK_DEADLOCK FALSE
