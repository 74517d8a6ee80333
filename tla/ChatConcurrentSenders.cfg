SPECIFICATION Spec
CONSTANTS
    Senders = {s1, s2}
    Tools = {search}
    ToolNames = {search}
    MAX_TOOL_ROUNDS = 2
    MaxTurns = 2
    MaxSends = 2
    MaxCalls = 1
    MaxCallsInAll = 4
SYMMETRY Symmetry
INVARIANTS
    RequestsWellFormed
CHECK_DEADLOCK FALSE
