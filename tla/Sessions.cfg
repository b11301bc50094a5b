SPECIFICATION FairSpec
CONSTANTS
    Attempt = {a1, a2}
    Id = {x}
    Send = {s}
    Cancel = {k}
    None = None
    Capacity = 1
    MaxEpoch = 1
INVARIANTS
    SessionReachable
    EndedIsOver
PROPERTIES
    ControlsOwn
    StopEnds
CHECK_DEADLOCK FALSE
