CONSTANTS
    Limit = 1
    PipeSize = 2
    MaxOutput = 3
SPECIFICATION Spec
INVARIANTS
    TypeOK
    FinishedMeansComplete
    TimeoutStopsGroup
PROPERTY SupervisorReturns
