SPECIFICATION Spec
CONSTANTS
    Requests = {r1, r2, r3}
    Keys = {k1, k2}
    None = None
    MaxConcurrent = 1
    MaxQueue = 1
    k1 = k1
    k2 = k2
    Key <- const_Key
    r1 = r1
    r2 = r2
    r3 = r3
    Priority <- const_Priority
    MaxPriority = 1
    MaxClears = 1
INVARIANTS
    SlotsAreUsed
    LeasesHold
    NobodyIsStranded
CHECK_DEADLOCK FALSE
