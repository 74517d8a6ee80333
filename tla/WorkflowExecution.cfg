SPECIFICATION BuiltSpec
CONSTANTS
    Workflows = {w1}
    Steps = {s1, s2}
    Branches = {default, other}
    StepTypes = {"agent", "condition"}
    GivenOrders = {}
    MaxStepOrder = 1
    Requests = {q1}
    None = None
    Runs = {run1}
    DefaultBranch = default
INVARIANTS
    TypeOK
    OneOutcomePerStep
    ClosedRunAccounts
PROPERTY ExecutionEnds
CHECK_DEADLOCK FALSE
