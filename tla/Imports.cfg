SPECIFICATION FairSpec
CONSTANTS
    Attempt = {a1, a2}
    Id = {d1}
    NoId = NoId
    NoAttempt = NoAttempt
    MaxMoves = 2
CHECK_DEADLOCK FALSE
INVARIANTS
    CanceledWritesNothing
    OneWorker
    Cancelable
PROPERTY
    CancelEnds
