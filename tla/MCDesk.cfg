SPECIFICATION Spec
CONSTANTS
    First = First
    Alice = Alice
    Bob = Bob
    Agent = Agent
    Lead = Lead
    Team = Team
    None = None
    Areas <- MCAreas
    Rules <- MCRules
    MaxReq = 3
    MaxTime = 2
    ResponseDue = 1
    ResolutionDue = 1
    EscalateAfter = 1
    Window = 1
INVARIANTS
    PromisesHold
    SweepActs
    TagsSurvive
    EventsTellChanges
    CustomersHold
CHECK_DEADLOCK FALSE
