SPECIFICATION FairSpec
CONSTANTS
    MaxAttempts = 3
    MaxCalls = 2
    KeepRecent = 2
    MaxRepairs = 1
    MaxTurns = 2
    MaxLoops = 3
    MaxSaid = 8
    PatchesLast = TRUE
INVARIANTS
    TranscriptIsWhole
    RequestsAreAnswerable
PROPERTIES
    LoopNeverHangs
CHECK_DEADLOCK FALSE
