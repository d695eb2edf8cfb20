CONSTANTS
    AutoCommitDDL = FALSE
    MaxLen = 6
    Plans <- MCPlans
SPECIFICATION FairSpec
INVARIANTS
    DurableAtCommitPoint
    SuccessIsComplete
    ReportLocatesFailure
    NothingLeftOpen
PROPERTIES
    Terminates
    ImplementsPlanExecution
