SPECIFICATION Spec
CONSTANTS
    Refs = {1}
    Digests = {d1, d2}
    NoDigest = NoDigest
    Clients = {c1, c2}
    NoClient = NoClient
    CatalogLimit = 1
    MaxOps = 4
    MaxCrashes = 1
SYMMETRY Symmetry
INVARIANTS
    RegistriesAreSound
PROPERTIES
    SyncIsCareful
    UsedVersionsStay
CHECK_DEADLOCK FALSE
