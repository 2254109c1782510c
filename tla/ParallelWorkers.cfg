SPECIFICATION Spec
CONSTANTS
    Items = 4
    Limit = 5
    MaxWorkers = 3
    Holder <- HolderDef
    a = a
    b = b
    Path <- Files
    Work <- Jobs
    Nobody = Nobody
CHECK_DEADLOCK FALSE
INVARIANTS
    OneEditor
    NoLostWakeup
PROPERTIES
    ArrivalOrder
    PoolSettles
