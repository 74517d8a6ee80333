SPECIFICATION Spec
CONSTANTS
    Workflows = {w1}
    Steps = {s1, s2}
    Branches = {default}
    StepTypes = {agent}
    GivenOrders = {}
    MaxStepOrder = 1
    Requests = {r1, r2}
    None = None
INVARIANT NoCycle
SYMMETRY Symmetry
CHECK_DEADLOCK FALSE
