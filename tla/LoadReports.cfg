SPECIFICATION FairSpec
CONSTANTS
    Profile = {p1, p2}
    Run = {r1}
    Opener = {u1}
    NoRun = NoRun
    MaxInst = 2
    MaxMoves = 3
    StoreErrors = TRUE
    Rotations = TRUE
CHECK_DEADLOCK FALSE
INVARIANTS
    ReportConfined
    ReportInOnePlace
    DeletedKeepsNothing
PROPERTIES
    CrossedRunEnds
    RefinesCustody
