SPECIFICATION Spec
CONSTANTS
    MaxPolls = 2
    MaxChanges = 1
    MaxRequests = 3
    MaxFaults = 1
    MaxPipe = 3
CHECK_DEADLOCK FALSE
INVARIANTS
    MirrorCatchesUp
    ChoiceIsKept
PROPERTIES
    StartSettles
