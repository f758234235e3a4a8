CONSTANTS
    p1 = p1
    p2 = p2
    NoId = NoId
    MaxBatch = 2
    Ids = {p1, p2}
    Fields <- MCFields
    Required <- MCRequired
    Values = {"ops", "law", "now", "old", "eligible", "retired", "true", "no"}
    Empty = "none"
    RequestedPeriod = "now"
    Eligible = "eligible"
    Registered = "true"
    Batches <- MCBatches
SPECIFICATION Spec
INVARIANTS
    TypeOK
    CheckpointIffClean
    EnrichmentOnlyFillsGaps
    LoadableRecordsAreFaithful
PROPERTY RunEnds
