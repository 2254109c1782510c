SPECIFICATION Spec
CONSTANTS
    n1 = n1
    n2 = n2
    n3 = n3
    Node <- Tasks
    Unknown = Unknown
    Graphs <- AllGraphs
    Scopes <- SomeScopes
    MaxParallelism = 2
SYMMETRY Symmetry
INVARIANTS
    CycleVerdict
    OrderIsTopological
    WavesAreSafe
    ScopesKeepApart
