-------------------------- MODULE DatabaseToolPool --------------------------
(***************************************************************************)
(* DatabaseToolExecutor: the map from a configuration to its connection    *)
(* pool, the idle timers that end pools, the queries that use them, and    *)
(* onModuleDestroy.  A query is handed to a pool in one synchronous piece  *)
(* (getPool and the driver call); afterwards it waits for a connection     *)
(* and runs, while other queries, timers and the shutdown come in between. *)
(*                                                                         *)
(* Time is counted in ticks.  A limit of the driver takes effect at most   *)
(* Lag ticks late; an idle timer never fires early but may fire any time   *)
(* later.  The drivers are external: a query may fail at any moment.  What *)
(* a postgres query may run for is a limit of the server only: one that is *)
(* silent, or out of reach, leaves the query running for ever.             *)
(***************************************************************************)
EXTENDS Integers, FiniteSets

CONSTANTS
    Keys,           \* hashes of whole configurations
    Postgres,       \* those whose engine is postgres, the others mysql
    Pools,          \* pools ever created
    Queries,        \* bound: executions at one time
    CONNECT_TIMEOUT, QUERY_TIMEOUT, POOL_IDLE,  \* in ticks
    MaxConnections, \* max and connectionLimit
    Lag,            \* how late a driver's limit may take effect
    None

ASSUME PostgresAreKeys == Postgres \subseteq Keys
ASSUME Names == None \notin Pools /\ Pools \cap {"up", "closing", "down"} = {}
ASSUME Durations ==
    /\ CONNECT_TIMEOUT \in Nat /\ QUERY_TIMEOUT \in Nat /\ POOL_IDLE \in Nat
    /\ Lag \in Nat /\ MaxConnections \in Nat \ {0}
\* 5 and 10 seconds against 30.
ASSUME IdleOutlastsQueries ==
    CONNECT_TIMEOUT + Lag + QUERY_TIMEOUT + Lag < POOL_IDLE

VARIABLES
    pools,      \* the map of the executor: the pool cached under a key
    status,     \* of each pool
    timers,     \* ticks left on each pending idle timer of a pool
    query,      \* the executions in flight
    shutdown    \* onModuleDestroy: where it is, or the pool whose end it awaits

vars == <<pools, status, timers, query, shutdown>>

NoQuery == [pc |-> "idle", key |-> None, pool |-> None, left |-> 0]
Query ==
    [pc : {"idle", "waiting", "running"},
     key : Keys \cup {None},
     pool : Pools \cup {None},
     left : 0..(CONNECT_TIMEOUT + QUERY_TIMEOUT + Lag)]

Init ==
    /\ pools = [k \in Keys |-> None]
    /\ status = [p \in Pools |-> "unused"]
    /\ timers = [p \in Pools |-> {}]
    /\ query = [q \in Queries |-> NoQuery]
    /\ shutdown = "up"

----------------------------------------------------------------------------
\* Whether the driver ends what the query does now: pg gives up waiting after
\* connectionTimeoutMillis, its queue included, and mysql2 cuts execute off
\* after its timeout.  mysql2 queues without a limit, and pg leaves
\* statement_timeout to the server.
Limited(q) ==
    query[q].pc = IF query[q].key \in Postgres THEN "waiting" ELSE "running"

\* A postgres query that has run longer than its statement_timeout, so the
\* server does not enforce it or cannot tell.
Overdue(q) ==
    query[q].pc = "running" /\ query[q].key \in Postgres /\ query[q].left = 0

\* Mutant of Enqueue: the pool is made with the idle time as connection timeout.
EnqueueForIdleTime(q, k, p) ==
    query' = [query EXCEPT ![q] =
        [pc |-> "waiting", key |-> k, pool |-> p,
         left |-> IF k \in Postgres THEN POOL_IDLE + Lag ELSE 0]]

\* pool.query and pool.execute join the queue of the pool.
Enqueue(q, k, p) ==
    query' = [query EXCEPT ![q] =
        [pc |-> "waiting", key |-> k, pool |-> p,
         left |-> IF k \in Postgres THEN CONNECT_TIMEOUT + Lag ELSE 0]]

\* Mutant of rescheduleIdleClose: the pending timer is not cleared.
scheduleAnotherIdleClose(p) ==
    timers' = [timers EXCEPT ![p] = @ \cup {POOL_IDLE}]

rescheduleIdleClose(p) == timers' = [timers EXCEPT ![p] = {POOL_IDLE}]

\* getPool with a cached pool.
ExecuteCached(q, k) ==
    /\ query[q].pc = "idle"
    /\ pools[k] # None
    /\ rescheduleIdleClose(pools[k])
    /\ Enqueue(q, k, pools[k])
    /\ UNCHANGED <<pools, status, shutdown>>

\* getPool without one: it creates the pool, schedules its end, caches it.
ExecuteFresh(q, k, p) ==
    /\ query[q].pc = "idle"
    /\ pools[k] = None
    /\ status[p] = "unused"
    /\ status' = [status EXCEPT ![p] = "open"]
    /\ timers' = [timers EXCEPT ![p] = {POOL_IDLE}]
    /\ pools' = [pools EXCEPT ![k] = p]
    /\ Enqueue(q, k, p)
    /\ UNCHANGED shutdown

RunningOn(p) == {q \in Queries : query[q].pc = "running" /\ query[q].pool = p}

\* The pool gives the query one of its connections.
Connect(q) ==
    /\ query[q].pc = "waiting"
    /\ status[query[q].pool] = "open"
    /\ Cardinality(RunningOn(query[q].pool)) < MaxConnections
    /\ query' = [query EXCEPT ![q].pc = "running", ![q].left = QUERY_TIMEOUT + Lag]
    /\ UNCHANGED <<pools, status, timers, shutdown>>

\* The query returns its rows, fails, or is cut off by a limit: execute
\* answers in every case and never throws.
Answer(q) ==
    /\ query[q].pc # "idle"
    /\ query' = [query EXCEPT ![q] = NoQuery]
    /\ UNCHANGED <<pools, status, timers, shutdown>>

----------------------------------------------------------------------------
\* Mutant of IdleClose: the pool ends but stays cached.
IdleCloseCached(p, k) ==
    /\ 0 \in timers[p]
    /\ pools[k] = p
    /\ timers' = [timers EXCEPT ![p] = @ \ {0}]
    /\ status' = [status EXCEPT ![p] = "idledOut"]
    /\ UNCHANGED <<pools, query, shutdown>>

\* The callback of scheduleIdleClose deletes the key the pool was cached under
\* (a pool with a pending timer still is, by PoolsAreAccounted) and ends the
\* pool; the promise of pool.end is not awaited.
IdleClose(p, k) ==
    /\ 0 \in timers[p]
    /\ pools[k] = p
    /\ timers' = [timers EXCEPT ![p] = @ \ {0}]
    /\ pools' = [pools EXCEPT ![k] = None]
    /\ status' = [status EXCEPT ![p] = "idledOut"]
    /\ UNCHANGED <<query, shutdown>>

----------------------------------------------------------------------------
\* onModuleDestroy walks over the map, which requests may still extend.
BeginShutdown ==
    /\ shutdown = "up"
    /\ shutdown' = "closing"
    /\ UNCHANGED <<pools, status, timers, query>>

DestroyPool(k) ==
    LET p == pools[k]
    IN  /\ shutdown = "closing"
        /\ p # None
        /\ timers' = [timers EXCEPT ![p] = {}]
        /\ pools' = [pools EXCEPT ![k] = None]
        /\ status' = [status EXCEPT ![p] = "destroyed"]
        /\ shutdown' = p
        /\ UNCHANGED query

\* The awaited pool.end() resolves once the pool's connections are back.
PoolEnded ==
    /\ shutdown \in Pools
    /\ RunningOn(shutdown) = {}
    /\ shutdown' = "closing"
    /\ UNCHANGED <<pools, status, timers, query>>

EndShutdown ==
    /\ shutdown = "closing"
    /\ \A k \in Keys : pools[k] = None
    /\ shutdown' = "down"
    /\ UNCHANGED <<pools, status, timers, query>>

----------------------------------------------------------------------------
Less(n) == IF n = 0 THEN 0 ELSE n - 1

\* Time passes, unless a limit of a driver has run out: then its query is
\* answered first.  It passes over a postgres query that runs.
Tick ==
    /\ \A q \in Queries :
         query[q].pc # "idle" /\ Limited(q) => query[q].left > 0
    /\ timers' = [p \in Pools |-> {Less(n) : n \in timers[p]}]
    /\ query' = [q \in Queries |-> [query[q] EXCEPT !.left = Less(@)]]
    /\ UNCHANGED <<pools, status, shutdown>>

Next ==
    \/ \E q \in Queries : Connect(q) \/ Answer(q)
    \/ \E q \in Queries, k \in Keys : ExecuteCached(q, k)
    \/ \E q \in Queries, k \in Keys, p \in Pools : ExecuteFresh(q, k, p)
    \/ \E p \in Pools, k \in Keys : IdleClose(p, k)
    \/ \E k \in Keys : DestroyPool(k)
    \/ BeginShutdown \/ PoolEnded \/ EndShutdown \/ Tick

Spec == Init /\ [][Next]_vars

----------------------------------------------------------------------------
TypeOK ==
    /\ pools \in [Keys -> Pools \cup {None}]
    /\ status \in [Pools -> {"unused", "open", "idledOut", "destroyed"}]
    /\ timers \in [Pools -> SUBSET (0..POOL_IDLE)]
    /\ query \in [Queries -> Query]
    /\ shutdown \in {"up", "closing", "down"} \cup Pools
    /\ \A q \in Queries :
         query[q].pc # "idle" => query[q].key \in Keys /\ query[q].pool \in Pools

\* The cache and the pools agree: getPool never hands out a pool that was
\* ended, no pool is cached under two configurations, and an open pool is never
\* forgotten: it is in the map, with one idle timer pending, so that it ends.
PoolsAreAccounted ==
    /\ \A k \in Keys : pools[k] # None => status[pools[k]] = "open"
    /\ \A p \in Pools : status[p] = "open" =>
         /\ \E k \in Keys : pools[k] = p
         /\ \A k, l \in Keys : pools[k] = p /\ pools[l] = p => k = l
         /\ \E n \in 0..POOL_IDLE : timers[p] = {n}
    /\ \A p \in Pools : status[p] # "open" => timers[p] = {}

\* The idle timer, which runs from the last use of a pool and not from its last
\* answer, ends a postgres pool only under queries whose server let them run
\* past statement_timeout: never under one that waits for a connection, nor
\* under one that is within its limit, because both limits together are
\* shorter than the idle time and every use of the pool starts it again.
IdleMeansIdle ==
    \A q \in Queries :
        /\ query[q].pc # "idle" /\ query[q].key \in Postgres
        /\ status[query[q].pool] = "idledOut"
        => Overdue(q)
=============================================================================
