CONSTANTS
    k4 = k4
    Run = Run
    NoCheckpoint = NoCheckpoint
    Torn = Torn
    NoHash = NoHash
    OtherHash = OtherHash
    NoDecision = NoDecision
    Calls = {k1, k2, k3, k4}
    CliCalls = {k1, k2}
    k1 = k1
    k2 = k2
    k3 = k3
    p1 = p1
    p2 = p2
    Ids = {p1, p2}
    MaxVersion = 2
    Overlap = FALSE
    Mixed = FALSE
    MayCrash = FALSE
    MayEdit = TRUE
SPECIFICATION Spec
INVARIANTS
    PendingUntilDecided
    StatusIsTruthful
PROPERTIES
    ImplementsGate
