CONSTANTS
    Tables = {sales}
    NoItem = account
    Provisioners = {p1, p2}
    Queriers = {p2}
    Problems <- MCProblems
    Faults <- MCFaults
    Accounts0 <- MCAccounts
    MaxTroubles = 1
SPECIFICATION Spec
INVARIANTS TypeOK ReportIsTrue RejectionLeavesAccountAlone ChangesAreAudited OnePassSuffices
PROPERTIES RetriesRepair
