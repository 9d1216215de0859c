CONSTANTS
    Runners = {r1, r2}
    Cancellers = {x1}
    NoRunner = NoRunner
    MaxDeaths = 1
SPECIFICATION RunnerSpec
INVARIANTS
    StartedOnce
    UncertainWriteIsUnknown
    AnsweredIsSettled
PROPERTIES
    EveryCallEnds
CHECK_DEADLOCK FALSE
