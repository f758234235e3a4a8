CONSTANTS
    w1 = w1
    w2 = w2
    w3 = w3
    plain = plain
    secret = secret
    Workers = {w1, w2}
    Contents = {plain, secret}
    Sensitive = {secret}
    MaxVersion = 1
    MaxCommands = 3
    MaxTroubles = 2
SPECIFICATION Spec
SYMMETRY WorkerSymmetry
INVARIANTS TypeOK FileTellsItsReview DecisionIsFinal NothingTakesEffectUnreviewed
CHECK_DEADLOCK FALSE
