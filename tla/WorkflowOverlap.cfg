CONSTANTS
    k4 = k4
    p2 = p2
    k3 = k3
    Run = Run
    NoCheckpoint = NoCheckpoint
    Torn = Torn
    NoHash = NoHash
    OtherHash = OtherHash
    NoDecision = NoDecision
    Calls = {k1, k2}
    CliCalls = {k1}
    k1 = k1
    k2 = k2
    p1 = p1
    Ids = {p1}
    MaxVersion = 1
    Overlap = TRUE
    Mixed = TRUE
    MayCrash = TRUE
    MayEdit = TRUE
SPECIFICATION Spec
INVARIANTS
    TypeOK
    LoadOnlyTrusted
PROPERTIES
    DeletedForGood
    CallsEnd
    DecisionConsumesCheckpoint
