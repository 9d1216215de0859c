SPECIFICATION Spec
CONSTANTS
    o1 = o1
    o2 = o2
    read = read
    reader = reader
    NoOwner = NoOwner
    NoRecon = NoRecon
    Owners = {o1, o2}
    Steps = {read}
    Writers = {}
    Parts = {reader}
    StepOf <- MCStepOf
    Recons = {NoRecon}
    MaxEpoch = 3
    MaxAttempts = 2
SYMMETRY Symmetry
CONSTRAINT FewStatuses
INVARIANTS
    OnlyNewestTokenWrites
    AttemptsFollowEpochs
PROPERTIES
    OutcomesStand
CHECK_DEADLOCK FALSE
