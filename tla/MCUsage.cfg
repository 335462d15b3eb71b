SPECIFICATION FairSpec
CONSTANTS
    Orgs = {o1}
    Requests = {r1}
    Sweepers = {s1}
    Tiers = {"free", "starter"}
    OverageTiers = {"starter"}
    Allowance <- const_Allowance
    BatchSize = 2
    SweepLimit = 2
    MaxPeriod = 3
    MaxUnits = 4
    MaxFaults = 2
INVARIANTS
    TypeOK
    ReportedWereBilled
PROPERTIES
    MarkOnlyAdvances
    BillsLikeMeteredBilling
    CountedIsEventuallyBilled
CHECK_DEADLOCK FALSE
