CONSTANTS
    s1 = s1
    s2 = s2
    s3 = s3
    foreign = foreign
    open = open
    strict = strict
    writer = writer
    NoStep = NoStep
    NoTool = NoTool
    StepOrder <- MCStepOrder
    Graphs <- MCGraphs
    Tools = {open, strict, writer}
    Accepting = {open, writer}
    Writing = {writer}
    HighRisk = {writer}
    ApprovedWrite = {writer}
    ApprovedHighRisk = {}
    MaxAttempts = 2
SPECIFICATION Spec
INVARIANTS
    TypeOK
    GroupsAreTopological
    CallsPassedTheGates
    AbortIsFinal
    AttemptsAreHonest
PROPERTY
    TimedOutStaysDenied
    ImplementsLedger
    PlanEnds
