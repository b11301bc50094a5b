SPECIFICATION Spec
CONSTANTS
    Profile = {p1, p2}
    Chooser = {c1}
    Writer = {w1}
    Ingester = {i1}
    MaxGrants = 2
    MaxPicked = 2
    MaxInst = 2
    MaxMoves = 3
    MaxSeq = 3
SYMMETRY Symmetry
CHECK_DEADLOCK FALSE
INVARIANTS
    GrantsOfThisSession
    KeyIngestedOnce
PROPERTIES
    RefinesGrantBook
