SPECIFICATION Spec
CONSTANTS
    Workflows = {w1}
    Steps = {s1}
    Branches = {default}
    StepTypes = {agent, condition}
    GivenOrders = {}
    MaxStepOrder = 0
    Requests = {r1}
    None = None
INVARIANT ConfigMatchesType
SYMMETRY Symmetry
CHECK_DEADLOCK FALSE
