SPECIFICATION FairSpec
CONSTANTS
    App = {a1, a2}
    Op = {o1, o2}
    Work = {w1}
    NoApp = NoApp
    NoOp = NoOp
    NoWork = NoWork
    MaxEpoch = 2
INVARIANTS
    DeliveryFenced
    KeyConfined
    ClosedMeansLocked
    RotationExclusive
    StaleWorkStopped
PROPERTIES
    LockWins
    RefinesBoundary
    LockCompletes
    StaleWorkEnds
CHECK_DEADLOCK FALSE
