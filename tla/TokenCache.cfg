SPECIFICATION FairSpec
CONSTANTS
    Key = {web, svc}
    Partition = {w}
    PartitionOf <- OneWorkspace
    Interactive = {web}
    Call = {c1, c2}
    SignIn = {s1}
    None = None
    MaxEvents = 1
CHECK_DEADLOCK FALSE
INVARIANTS
    EntryCurrent
    AnswerOfItsSession
    DeletedApart
    SingleFlight
    RotationKept
PROPERTIES
    NeverResent
    CallEnds
