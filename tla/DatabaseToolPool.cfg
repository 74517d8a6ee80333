SPECIFICATION Spec
CONSTANTS
    Keys = {kp, km}
    Postgres = {kp}
    Pools = {p1, p2, p3}
    Queries = {q1, q2, q3}
    CONNECT_TIMEOUT = 1
    QUERY_TIMEOUT = 2
    POOL_IDLE = 6
    MaxConnections = 2
    Lag = 1
    None = None
SYMMETRY Symmetry
INVARIANTS
    TypeOK
    PoolsAreAccounted
    IdleMeansIdle
CHECK_DEADLOCK FALSE
