SPECIFICATION TimelySpec
CONSTANTS
    RunCalls = {c1, c2}
    RecoveryCalls = {r1, r2}
    CancelCalls = {}
    NoOwner = NoOwner
    Mode = "worktree"
    Rounds = 1
    NeedsConsent = FALSE
    Lingering = FALSE
    Answering = {"ok", "blockers", "blocked"}
    MaxTotalAttempts = 5
    MaxCrashes = 1
    MaxEpoch = 4
INVARIANTS
    ApprovedIsShownWhole
PROPERTIES
    RunsAreSettled
CHECK_DEADLOCK FALSE
