SPECIFICATION Spec
CONSTANTS
    Clients = {c1, c2}
    NoClient = NoClient
    MaxOps = 4
    MaxCrashes = 1
SYMMETRY Symmetry
CONSTRAINT Bound
INVARIANTS
    RunsMatchItems
    ReportsWhatItAsked
    OfferedIsAccepted
PROPERTIES
    SettleNeverChooses
CHECK_DEADLOCK FALSE
