SPECIFICATION SyncSpec
CONSTANTS
    Admins = {a1}
    Handlers = {h1}
    Subscriptions = {s1, s2}
    Customers = {c1, c2}
    None = None
    PaidTiers = {"starter"}
    Prices = {"starter"}
    SameSecond = FALSE
    MaxCheckouts = 2
    MaxEvents = 4
    MaxCrashes = 0
PROPERTIES
    LiveSubscriptionKeepsThePlan
CHECK_DEADLOCK FALSE
