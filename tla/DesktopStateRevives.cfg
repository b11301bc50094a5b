SPECIFICATION FairSpec
CONSTANTS
    App = {a1}
    Op = {o1}
    Work = {w1}
    NoApp = NoApp
    NoOp = NoOp
    NoWork = NoWork
    MaxEpoch = 3
PROPERTIES
    FenceNeverRevives
CHECK_DEADLOCK FALSE
