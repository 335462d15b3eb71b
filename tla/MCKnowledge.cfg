SPECIFICATION CacheSpec
CONSTANTS
    q1 = q1
    q2 = q2
    Query = {q1, q2}
    Areas <- MCAreas
    MaxReq = 3
    Capacity = 1
INVARIANTS
    PurgesHold
    RetiredStaysRetired
    IndexFollowsRows
CHECK_DEADLOCK FALSE
