SPECIFICATION Spec
CONSTANTS
    Calls = {c1, c2}
    NoOwner = NoOwner
    Roles <- SomeRoles
    Presets <- SomePresets
    Teams <- SomeTeams
    Answers <- SomeAnswers
    MaxParts = 2
    MaxParallel = 4
    MaxPerPhase = 2
    MaxTotal = 3
    Retains = TRUE
    MaxEpoch = 3
    MaxTroubles = 1
SYMMETRY Symmetry
INVARIANTS
    BudgetIsKept
    VerdictIsEarned
    DeliverableIsHonest
PROPERTIES
    SettledAnswersStay
CHECK_DEADLOCK FALSE
