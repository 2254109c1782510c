SPECIFICATION Spec
CONSTANTS
    MaxAttempts = 3
    MaxCalls = 2
    KeepRecent = 2
    MaxRepairs = 1
    MaxTurns = 2
    MaxLoops = 2
    MaxSaid = 8
    PatchesLast = FALSE
INVARIANTS
    RequestsAreAnswerable
CHECK_DEADLOCK FALSE
