SPECIFICATION FairSyncSpec
CONSTANTS
    Admins = {a1, a2}
    Handlers = {h1, h2}
    Subscriptions = {s1}
    Customers = {c1, c2}
    None = None
    PaidTiers = {"starter"}
    Prices = {"starter", "legacy"}
    SameSecond = FALSE
    MaxCheckouts = 2
    MaxEvents = 2
    MaxCrashes = 1
INVARIANTS
    PaidByTheCustomerOnFile
    NewestEventWins
PROPERTIES
    EventuallyProcessed
CHECK_DEADLOCK FALSE
