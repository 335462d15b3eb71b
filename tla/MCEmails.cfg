SPECIFICATION FairEmailSpec
CONSTANTS
    Agents = {a1}
    Pollers = {w1, w2}
    Statuses = {"open", "solved"}
    FirstStatus = "open"
    MaxSends = 2
    BatchSize = 2
    MaxEmails = 2
    MaxFaults = 1
INVARIANTS
    OutboxHolds
PROPERTIES
    EventuallyDecided
CHECK_DEADLOCK FALSE
