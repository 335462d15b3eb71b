SPECIFICATION Spec
CONSTANTS
    Owner = Owner
    Partner = Partner
    Session = row1
    Challenge = row1
    Confirm = row1
    Reset = row2
    Invite = row2
    Device = row1
    Newcomer = Newcomer
    Guest = Guest
    Home = Home
    None = None
    Areas <- MCAreas
    MaxReq = 3
    MaxAttempts = 1
    Seats = 3
    KeyCap = 1
    MaxFaults = 1
    MaxExpired = 1
INVARIANTS
    SecretsHold
    SignedOutEverywhere
    RotationHolds
    TeamHolds
CHECK_DEADLOCK FALSE
