SPECIFICATION Spec
CONSTANTS
    Profile = {p1, p2}
    Run = {r1}
    Opener = {u1}
    NoRun = NoRun
    MaxInst = 2
    MaxMoves = 3
    StoreErrors = FALSE
    Rotations = TRUE
SYMMETRY Symmetry
CHECK_DEADLOCK FALSE
INVARIANT
    HeldSurvivesRotation
