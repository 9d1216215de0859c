SPECIFICATION Spec
CONSTANTS
    Publishers = {c1, c2, c3}
    Nobody = Nobody
    Paths = {1, 2, 3}
    Parent <- MCParent
    Plans <- AllPlans
    MaxEdits = 1
    MaxCrashes = 1
SYMMETRY Symmetry
INVARIANTS
    JournalsTellTheTruth
    TakeoversDoNotConflict
PROPERTIES
    OriginalIsRespected
    DiscardStrandsNothing
    PublishedIsApplied
CHECK_DEADLOCK FALSE
