CONSTANTS
    NumTables = 3
    Inputs <- KeptTablesUnchanged
SPECIFICATION Spec
INVARIANTS
    OnlyDropTableRefused
    AppliedMatchesDesired
    NamedCyclesAreBroken
