SPECIFICATION FairSpec
CONSTANTS
    Replicas = {w1, w2}
    Api = api
    Endpoints = {e1}
    Events = {v1}
    TestEvent = test
    MaxAttempts = 2
    SlowReceivers = FALSE
    MaxQueued = 1
    MaxRetries = 1
    MaxCrashes = 1
INVARIANTS
    RecordAgrees
    OneAttemptInFlight
PROPERTIES
    EventuallySettled
CHECK_DEADLOCK FALSE
