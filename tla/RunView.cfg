SPECIFICATION ViewSpec
CONSTANTS
    MaxSteps = 4
    MaxPatches = 2
    MaxClicks = 4
    MaxDown = 4
CHECK_DEADLOCK FALSE
INVARIANTS
    LiveTextIsUncommitted
    ShownIsCurrent
    ListIsCurrent
