CONSTANTS
    NumViews = 3
    Fuses = TRUE
    Inputs <- ViewPairs
SPECIFICATION Spec
INVARIANTS
    RebuildAccepted
    AppliedMatchesDesired
    UnaffectedStayInPlace
