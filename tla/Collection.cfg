SPECIFICATION Spec
CONSTANTS
    Maintainers = {m1, m2}
    Policies <- AllPolicies
    FailedRetention = 1
    ConflictRetention = 2
    RetainTerminal = 2
    MaxAge = 3
    MaxFaults = 2
    Contents = {x, y}
    Keepers = {kept}
    Forgotten = {old}
    Writers = {w1, w2}
    NoContent = NoContent
    Callers = {c1, c2}
    MaxTurns = 2
    Versions = {v1, v2}
    MaxThreads = 4
    MaxSaves = 4
    MaxProcs = 2
    Exporters = {e1, e2}
    Files = 2
    MaxStates = 2
    MaxDeaths = 2
    NoBundle = NoBundle
    Reports = {"long", "short", "void"}
    Entries <- Lines
    Large = {"long"}
    Void = "void"
    NoRow = NoRow
    Ordinals = {1, 2, 3}
    Wanted = {0, 2}
    Window = 1
    Recent = 1
    PageSize = 1
    MaxRetries = 1
INVARIANTS
    ReferencedFilesStay
CHECK_DEADLOCK FALSE
