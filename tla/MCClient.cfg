SPECIFICATION Spec
CONSTANTS
    Areas <- const_Areas
    MaxTokens = 2
    MaxCalls = 2
    MaxVisits = 2
INVARIANTS
    FormsHold
    OwnChangesHold
CHECK_DEADLOCK FALSE
