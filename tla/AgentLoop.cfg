CONSTANTS
    Asked <- MCAsked
    Memories <- MCMemories
    Providers = {"mock", "oci"}
    Budgets = {1, 2}
    ToolAttempts = 2
    Threshold = 2
    MaxRuns = 3
    MaxTroubles = 1
SPECIFICATION Spec
INVARIANTS TypeOK BudgetIsKept RecordsAgree AnswerIsReal ConversationIsWhole
CHECK_DEADLOCK FALSE
