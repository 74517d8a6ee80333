SPECIFICATION GatewaySpec
CONSTANTS
    Senders = {s1}
    Tools = {search}
    ToolNames = {search}
    MAX_TOOL_ROUNDS = 2
    MaxTurns = 2
    MaxSends = 3
    MaxCalls = 2
    MaxCallsInAll = 5
    Sockets = {c1}
    Users = {alice, mallory}
    Owner = alice
    Nobody = Nobody
    MaxLiveSends = 1
INVARIANTS
    GatewayTypeOK
    RequestsWellFormed
    RequestKeepsTurn
    ToolAccounting
    OnlyTheOwnerListens
    HeardIsStored
PROPERTY
    ImplementsThread
CHECK_DEADLOCK FALSE
