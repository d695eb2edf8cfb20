CONSTANTS
    AutoCommitDDL = TRUE
    MaxLen = 3
    Plans <- MCPlans
SPECIFICATION Spec
INVARIANTS
    FailedGroupRolledBack
