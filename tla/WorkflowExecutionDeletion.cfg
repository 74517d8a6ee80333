SPECIFICATION BuiltSpec
CONSTANTS
    Workflows = {w1}
    Steps = {s1, s2}
    Branches = {default}
    StepTypes = {"agent"}
    GivenOrders = {}
    MaxStepOrder = 1
    Requests = {}
    None = None
    Runs = {run1}
    DefaultBranch = default
INVARIANT EveryStepHasOutcome
CHECK_DEADLOCK FALSE
