SPECIFICATION MCSpec
CONSTANTS
    Workflows = {w1, w2}
    Steps = {s1, s2, s3}
    Branches = {default}
    StepTypes = {agent}
    GivenOrders = {3}
    MaxStepOrder = 3
    Requests = {r1, r2}
    None = None
INVARIANTS
    TypeOK
    EntryWithinWorkflow
    EdgesWithinWorkflow
    StepOrdersAreKept
    NoCycle
PROPERTY ImplementsStepGraph
SYMMETRY Symmetry
CHECK_DEADLOCK FALSE
