CONSTANTS
    AutoCommitDDL = TRUE
    MaxLen = 6
    Plans <- MCPlans
SPECIFICATION Spec
INVARIANTS
    EffectsFollowPlanOrder
    ExecutedCountIsDurable
