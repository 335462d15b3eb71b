SPECIFICATION Spec
CONSTANTS
    Requests = {r1, r2}
    Messages = {m1, m2}
    Presses = {h1}
    Kinds = {"refund", "urgent", "general"}
    Modes = {"copilot", "autopilot"}
    AllowanceLimit = 1
    MaxReplies = 1
    RuleKinds = {"refund"}
    None = None
    MaxRuleRuns = 1
    MaxEvents = 1
SYMMETRY Symmetry
INVARIANTS
    AnswersAreDue
    SeriousIsEscalated
    HandoffMarkSurvives
CHECK_DEADLOCK FALSE
