CONSTANTS
    N = 4
    Inputs <- Graph
SPECIFICATION Spec
INVARIANTS
    DependenciesFirst
    EveryEntryOnce
    OnlyCyclesAreLeft
    ComputesTopologicalSort
