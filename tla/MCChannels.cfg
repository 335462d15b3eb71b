SPECIFICATION Spec
CONSTANTS
    None = None
    First = First
    Main = Main
    Other = Other
    Areas <- MCAreas
    MaxReq = 3
    MaxMail = 2
    Recent = 1
    Page = 1
    MaxTries = 2
    MaxPending = 1
    Limit = 2
    Items = 2
INVARIANTS
    MailsHold
    ChatsHold
    ConnectionHolds
    
    ImportedOnce
    GuardsHold
    SubmissionsHold
CHECK_DEADLOCK FALSE
