SPECIFICATION SessionSpec
CONSTANTS
    p1 = p1
    p2 = p2
    Proc <- Terminals
    MaxFiles = 2
    MaxClock = 5
    MaxRuns = 2
    MaxEvents = 1
    MaxFaults = 1
    SharedTick = FALSE
SYMMETRY Symmetry
CHECK_DEADLOCK FALSE
INVARIANTS
    LossIsBounded
    ChainUnbroken
    TreeShowsConversation
