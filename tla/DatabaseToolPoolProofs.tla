----------------------- MODULE DatabaseToolPoolProofs -----------------------
(***************************************************************************)
(* Proofs about DatabaseToolPool for every number of pools, queries and    *)
(* connections and for all durations that satisfy IdleOutlastsQueries.     *)
(* Nothing is assumed of a postgres server that runs a query.              *)
(***************************************************************************)
EXTENDS DatabaseToolPool, TLAPS

\* The idle timer of a postgres pool runs behind each of its queries: what is
\* left on it covers what is left of the query's limits, and more, for as long
\* as anything is left of them.
TimerInvOf(q) ==
    LET p == query[q].pool
        left == query[q].left
    IN  query[q].pc # "idle" /\ query[q].key \in Postgres =>
          /\ status[p] # "unused"
          /\ query[q].pc = "waiting" =>
               /\ left <= CONNECT_TIMEOUT + Lag
               /\ \A n \in timers[p] : n >= POOL_IDLE - CONNECT_TIMEOUT - Lag + left
          /\ query[q].pc = "running" =>
               /\ left <= QUERY_TIMEOUT + Lag
               /\ left > 0 =>
                    \A n \in timers[p] :
                      n >= POOL_IDLE - CONNECT_TIMEOUT - QUERY_TIMEOUT - Lag - Lag + left

TimerInv == \A q \in Queries : TimerInvOf(q)

IInv == TypeOK /\ PoolsAreAccounted /\ TimerInv /\ IdleMeansIdle

LEMMA InitIInv == Init => IInv
BY Names, Durations
   DEF Init, IInv, TypeOK, PoolsAreAccounted, TimerInv, TimerInvOf, IdleMeansIdle,
       NoQuery, Query

\* A query joins the queue of a pool.
LEMMA ExecuteIInv ==
    ASSUME IInv, NEW q \in Queries, NEW k \in Keys,
           ExecuteCached(q, k) \/ \E p \in Pools : ExecuteFresh(q, k, p)
    PROVE  IInv'
<1> USE Names, Durations, IdleOutlastsQueries
<1> USE DEF IInv, TypeOK
<1>1. CONNECT_TIMEOUT + Lag \in 0..(CONNECT_TIMEOUT + QUERY_TIMEOUT + Lag)
  OBVIOUS
<1>2. ASSUME NEW p \in Pools,
             query' = [query EXCEPT ![q] =
               [pc |-> "waiting", key |-> k, pool |-> p,
                left |-> IF k \in Postgres THEN CONNECT_TIMEOUT + Lag ELSE 0]]
      PROVE  query' \in [Queries -> Query]
  BY <1>1, <1>2 DEF Query
<1>3. CASE ExecuteCached(q, k)
  <2> DEFINE p == pools[k]
  <2>1. p \in Pools /\ status[p] = "open" BY <1>3 DEF ExecuteCached, PoolsAreAccounted
  <2>2. /\ UNCHANGED <<pools, status, shutdown>>
        /\ timers' = [timers EXCEPT ![p] = {POOL_IDLE}]
        /\ query' = [query EXCEPT ![q] =
             [pc |-> "waiting", key |-> k, pool |-> p,
              left |-> IF k \in Postgres THEN CONNECT_TIMEOUT + Lag ELSE 0]]
    BY <1>3 DEF ExecuteCached, rescheduleIdleClose, Enqueue
  <2> HIDE DEF p
  <2>3. TypeOK'
    <3>1. query' \in [Queries -> Query] BY <1>2, <2>1, <2>2
    <3>2. \A r \in Queries : query'[r].pc # "idle" =>
            query'[r].key \in Keys /\ query'[r].pool \in Pools
      BY <2>1, <2>2
    <3>3. timers' \in [Pools -> SUBSET (0..POOL_IDLE)] BY <2>1, <2>2
    <3>4. QED BY <2>2, <3>1, <3>2, <3>3
  <2>4. PoolsAreAccounted' BY <2>1, <2>2 DEF PoolsAreAccounted
  <2>5. TimerInv' BY <2>1, <2>2 DEF TimerInv, TimerInvOf, Query
  <2>6. IdleMeansIdle' BY <2>1, <2>2 DEF IdleMeansIdle, Overdue
  <2>7. QED BY <2>3, <2>4, <2>5, <2>6
<1>4. ASSUME NEW p \in Pools, ExecuteFresh(q, k, p) PROVE IInv'
  <2>1. /\ UNCHANGED shutdown
        /\ pools[k] = None /\ status[p] = "unused"
        /\ status' = [status EXCEPT ![p] = "open"]
        /\ timers' = [timers EXCEPT ![p] = {POOL_IDLE}]
        /\ pools' = [pools EXCEPT ![k] = p]
        /\ query' = [query EXCEPT ![q] =
             [pc |-> "waiting", key |-> k, pool |-> p,
              left |-> IF k \in Postgres THEN CONNECT_TIMEOUT + Lag ELSE 0]]
    BY <1>4 DEF ExecuteFresh, Enqueue
  <2>2. TypeOK'
    <3>1. query' \in [Queries -> Query] BY <1>2, <2>1
    <3>2. \A r \in Queries : query'[r].pc # "idle" =>
            query'[r].key \in Keys /\ query'[r].pool \in Pools
      BY <2>1
    <3>3. timers' \in [Pools -> SUBSET (0..POOL_IDLE)] BY <2>1
    <3>4. status' \in [Pools -> {"unused", "open", "idledOut", "destroyed"}] BY <2>1
    <3>5. pools' \in [Keys -> Pools \cup {None}] BY <2>1
    <3>6. QED BY <2>1, <3>1, <3>2, <3>3, <3>4, <3>5
  <2>3. PoolsAreAccounted'
    <3>1. /\ \A l \in Keys : pools'[l] = IF l = k THEN p ELSE pools[l]
          /\ \A r \in Pools : status'[r] = IF r = p THEN "open" ELSE status[r]
          /\ \A r \in Pools : timers'[r] = IF r = p THEN {POOL_IDLE} ELSE timers[r]
      BY <2>1
    <3>2. \A l \in Keys : pools[l] # p
      BY <2>1 DEF PoolsAreAccounted
    <3>3. \A l \in Keys : pools'[l] # None => status'[pools'[l]] = "open"
      BY <3>1 DEF PoolsAreAccounted
    <3>4. ASSUME NEW r \in Pools, status'[r] = "open"
          PROVE  /\ \E l \in Keys : pools'[l] = r
                 /\ \A l, m \in Keys : pools'[l] = r /\ pools'[m] = r => l = m
                 /\ \E n \in 0..POOL_IDLE : timers'[r] = {n}
      <4>1. CASE r = p BY <4>1, <3>1, <3>2
      <4>2. CASE r # p BY <4>2, <3>1, <3>4, <2>1 DEF PoolsAreAccounted
      <4>3. QED BY <4>1, <4>2
    <3>5. \A r \in Pools : status'[r] # "open" => timers'[r] = {}
      BY <3>1 DEF PoolsAreAccounted
    <3>6. QED BY <3>3, <3>4, <3>5 DEF PoolsAreAccounted
  <2>4. TimerInv' BY <2>1 DEF TimerInv, TimerInvOf, Query
  <2>5. IdleMeansIdle' BY <2>1 DEF IdleMeansIdle, Overdue
  <2>6. QED BY <2>2, <2>3, <2>4, <2>5
<1>5. QED BY <1>3, <1>4

\* A query gets a connection, or its answer.
LEMMA QueryIInv ==
    ASSUME IInv, NEW q \in Queries, Connect(q) \/ Answer(q)
    PROVE  IInv'
<1> USE Names, Durations, IdleOutlastsQueries
<1> USE DEF IInv, TypeOK
<1>1. CASE Connect(q)
  <2>1. /\ UNCHANGED <<pools, status, timers, shutdown>>
        /\ query[q].pc = "waiting"
        /\ query' = [query EXCEPT ![q] =
             [query[q] EXCEPT !.pc = "running", !.left = QUERY_TIMEOUT + Lag]]
    BY <1>1 DEF Connect, Query
  <2>2. [query[q] EXCEPT !.pc = "running", !.left = QUERY_TIMEOUT + Lag] \in Query
    <3>1. query[q] \in Query OBVIOUS
    <3>2. QUERY_TIMEOUT + Lag \in 0..(CONNECT_TIMEOUT + QUERY_TIMEOUT + Lag) OBVIOUS
    <3>3. QED BY <3>1, <3>2 DEF Query
  <2>3. TypeOK' BY <2>1, <2>2 DEF Query
  <2>4. PoolsAreAccounted' BY <2>1 DEF PoolsAreAccounted
  <2>5. TimerInv' BY <2>1 DEF TimerInv, TimerInvOf, Query
  <2>6. IdleMeansIdle' BY <2>1 DEF IdleMeansIdle, Overdue, Query
  <2>7. QED BY <2>3, <2>4, <2>5, <2>6
<1>2. CASE Answer(q)
  <2>1. TypeOK' BY <1>2 DEF Answer, NoQuery, Query
  <2>2. PoolsAreAccounted' BY <1>2 DEF Answer, PoolsAreAccounted
  <2>3. TimerInv' /\ IdleMeansIdle'
    BY <1>2 DEF Answer, NoQuery, TimerInv, TimerInvOf, IdleMeansIdle, Overdue
  <2>4. QED BY <2>1, <2>2, <2>3
<1>3. QED BY <1>1, <1>2

\* The one step that could break IdleMeansIdle: when a timer fires, nothing is
\* left of the limits of any query on a postgres pool, so every such query is
\* one that the server should have ended.
LEMMA IdleCloseIInv ==
    ASSUME IInv, NEW p \in Pools, NEW k \in Keys, IdleClose(p, k)
    PROVE  IInv'
<1> USE Names, Durations, IdleOutlastsQueries
<1> USE DEF IInv, TypeOK
<1>1. /\ UNCHANGED <<query, shutdown>>
      /\ 0 \in timers[p] /\ pools[k] = p /\ status[p] = "open"
      /\ timers' = [timers EXCEPT ![p] = @ \ {0}]
      /\ pools' = [pools EXCEPT ![k] = None]
      /\ status' = [status EXCEPT ![p] = "idledOut"]
  BY DEF IdleClose, PoolsAreAccounted
<1>2. ASSUME NEW q \in Queries, query[q].pc # "idle", query[q].key \in Postgres
      PROVE  query[q].pool = p => Overdue(q)
  <2>1. query[q].left \in Nat /\ query[q].pc \in {"waiting", "running"}
    BY <1>2 DEF Query
  <2>2. TimerInvOf(q) BY DEF TimerInv
  <2>3. QED BY <1>1, <1>2, <2>1, <2>2 DEF TimerInvOf, Overdue
<1>3. TypeOK' BY <1>1
<1>4. PoolsAreAccounted'
  <2>1. timers'[p] = {} BY <1>1 DEF PoolsAreAccounted
  <2>2. \A l \in Keys : pools[l] = p => l = k BY <1>1 DEF PoolsAreAccounted
  <2>3. /\ \A l \in Keys : pools'[l] = IF l = k THEN None ELSE pools[l]
        /\ \A r \in Pools : status'[r] = IF r = p THEN "idledOut" ELSE status[r]
        /\ \A r \in Pools \ {p} : timers'[r] = timers[r]
    BY <1>1
  <2>4. QED BY <2>1, <2>2, <2>3, <1>1 DEF PoolsAreAccounted
<1>5. TimerInv' BY <1>1, <1>2 DEF TimerInv, TimerInvOf
<1>6. IdleMeansIdle' BY <1>1, <1>2 DEF IdleMeansIdle, Overdue
<1>7. QED BY <1>3, <1>4, <1>5, <1>6

LEMMA ShutdownIInv ==
    ASSUME IInv,
           \/ \E k \in Keys : DestroyPool(k)
           \/ BeginShutdown \/ PoolEnded \/ EndShutdown
    PROVE  IInv'
<1> USE Names, Durations
<1> USE DEF IInv, TypeOK, PoolsAreAccounted, TimerInv, TimerInvOf, IdleMeansIdle, Overdue
<1>1. ASSUME NEW k \in Keys, DestroyPool(k) PROVE IInv'
  BY <1>1 DEF DestroyPool
<1>2. CASE BeginShutdown \/ PoolEnded \/ EndShutdown
  BY <1>2 DEF BeginShutdown, PoolEnded, EndShutdown
<1>3. QED BY <1>1, <1>2

\* A tick takes at most as much from a timer as from the limits behind it.
LEMMA TickIInv ==
    ASSUME IInv, Tick
    PROVE  IInv'
<1> USE Names, Durations, IdleOutlastsQueries
<1> USE DEF IInv, TypeOK
<1>1. /\ UNCHANGED <<pools, status, shutdown>>
      /\ \A p \in Pools : timers'[p] = {Less(n) : n \in timers[p]}
      /\ timers' = [p \in Pools |-> {Less(n) : n \in timers[p]}]
      /\ query' = [q \in Queries |-> [query[q] EXCEPT !.left = Less(@)]]
  BY DEF Tick
<1>2. \A n \in Nat : Less(n) \in Nat /\ Less(n) <= n /\ Less(n) >= n - 1
  BY DEF Less
<1>3. \A q \in Queries :
        /\ query'[q] \in Query
        /\ query'[q].pc = query[q].pc /\ query'[q].key = query[q].key
        /\ query'[q].pool = query[q].pool /\ query'[q].left = Less(query[q].left)
  BY <1>1, <1>2 DEF Query
<1>4. TypeOK'
  <2>1. timers' \in [Pools -> SUBSET (0..POOL_IDLE)] BY <1>1, <1>2
  <2>2. query' \in [Queries -> Query] BY <1>1, <1>3
  <2>3. QED BY <1>1, <1>3, <2>1, <2>2
<1>5. PoolsAreAccounted'
  <2>1. \A p \in Pools : timers[p] = {} => timers'[p] = {} BY <1>1
  <2>2. ASSUME NEW p \in Pools, NEW n \in 0..POOL_IDLE, timers[p] = {n}
        PROVE  \E m \in 0..POOL_IDLE : timers'[p] = {m}
    <3>1. timers'[p] = {Less(n)} BY <1>1, <2>2
    <3>2. Less(n) \in 0..POOL_IDLE BY <1>2
    <3>3. QED BY <3>1, <3>2
  <2>3. \A p \in Pools : status[p] = "open" =>
          \E n \in 0..POOL_IDLE : timers'[p] = {n}
    <3> SUFFICES ASSUME NEW p \in Pools, status[p] = "open"
                 PROVE  \E n \in 0..POOL_IDLE : timers'[p] = {n}
      OBVIOUS
    <3>1. PICK n \in 0..POOL_IDLE : timers[p] = {n} BY DEF PoolsAreAccounted
    <3>2. QED BY <2>2, <3>1
  <2>4. /\ pools' = pools /\ status' = status BY <1>1
  <2>5. QED BY <2>1, <2>3, <2>4 DEF PoolsAreAccounted
<1>6. TimerInv'
  <2> SUFFICES ASSUME NEW q \in Queries PROVE TimerInvOf(q)'
    BY DEF TimerInv
  <2> SUFFICES ASSUME query[q].pc # "idle", query[q].key \in Postgres
               PROVE  TimerInvOf(q)'
    BY <1>3 DEF TimerInvOf
  <2> DEFINE p == query[q].pool
             left == query[q].left
  <2>1. p \in Pools /\ left \in Nat /\ (left > 0 => Less(left) = left - 1)
    BY DEF Query, Less
  <2>2. TimerInvOf(q) BY DEF TimerInv
  <2>3. \A m \in timers'[p] : \E n \in timers[p] : n \in Nat /\ m \in Nat /\ m >= n - 1
    BY <1>1, <1>2, <2>1
  <2>4. \A n \in timers[p] : n \in Nat BY <2>1
  <2> HIDE DEF p, left
  <2>5. status[p] # "unused" BY <2>2 DEF TimerInvOf, p
  <2>6. ASSUME query[q].pc = "waiting"
        PROVE  /\ Less(left) <= CONNECT_TIMEOUT + Lag
               /\ \A m \in timers'[p] : m >= POOL_IDLE - CONNECT_TIMEOUT - Lag + Less(left)
    <3>1. left > 0 BY <2>6 DEF Tick, Limited, Query, left
    <3>2. /\ left <= CONNECT_TIMEOUT + Lag
          /\ \A n \in timers[p] : n >= POOL_IDLE - CONNECT_TIMEOUT - Lag + left
      BY <2>2, <2>6 DEF TimerInvOf, p, left
    <3>3. QED BY <3>1, <3>2, <2>1, <2>3
  <2>7. ASSUME query[q].pc = "running"
        PROVE  /\ Less(left) <= QUERY_TIMEOUT + Lag
               /\ Less(left) > 0 =>
                    \A m \in timers'[p] :
                      m >= POOL_IDLE - CONNECT_TIMEOUT - QUERY_TIMEOUT - Lag - Lag
                             + Less(left)
    <3>1. /\ left <= QUERY_TIMEOUT + Lag
          /\ left > 0 =>
               \A n \in timers[p] :
                 n >= POOL_IDLE - CONNECT_TIMEOUT - QUERY_TIMEOUT - Lag - Lag + left
      BY <2>2, <2>7 DEF TimerInvOf, p, left
    <3>2. left = 0 => Less(left) = 0 BY DEF Less
    <3>3. QED BY <3>1, <3>2, <2>1, <2>3
  <2>8. /\ query'[q].pc = query[q].pc /\ query'[q].pool = p
        /\ query'[q].left = Less(left) /\ status' = status
    BY <1>1, <1>3 DEF p, left
  <2>9. QED BY <2>5, <2>6, <2>7, <2>8 DEF TimerInvOf
<1>7. IdleMeansIdle' BY <1>1, <1>3 DEF IdleMeansIdle, Overdue, Less
<1>8. QED BY <1>4, <1>5, <1>6, <1>7

\* The inductive invariant.
THEOREM PoolInvariance == Spec => []IInv
<1>1. IInv /\ [Next]_vars => IInv'
  <2> SUFFICES ASSUME IInv, [Next]_vars PROVE IInv'
    OBVIOUS
  <2>1. CASE UNCHANGED vars
    BY <2>1 DEF vars, IInv, TypeOK, PoolsAreAccounted, TimerInv, TimerInvOf, IdleMeansIdle,
           Overdue
  <2>2. CASE \E q \in Queries : Connect(q) \/ Answer(q)
    BY <2>2, QueryIInv
  <2>3. CASE \E q \in Queries, k \in Keys :
               ExecuteCached(q, k) \/ \E p \in Pools : ExecuteFresh(q, k, p)
    BY <2>3, ExecuteIInv
  <2>4. CASE \E p \in Pools, k \in Keys : IdleClose(p, k)
    BY <2>4, IdleCloseIInv
  <2>5. CASE \/ \E k \in Keys : DestroyPool(k)
             \/ BeginShutdown \/ PoolEnded \/ EndShutdown
    BY <2>5, ShutdownIInv
  <2>6. CASE Tick
    BY <2>6, TickIInv
  <2>7. QED BY <2>1, <2>2, <2>3, <2>4, <2>5, <2>6 DEF Next
<1>2. QED BY <1>1, InitIInv, PTL DEF Spec

\* The executor's map, the pools, timers and executions keep their types.
THEOREM PoolTypeCorrect == Spec => []TypeOK
<1>1. IInv => TypeOK BY DEF IInv
<1>2. QED BY <1>1, PoolInvariance, PTL

\* No pool is ended while cached, and no open pool is forgotten.
THEOREM PoolsAccounted == Spec => []PoolsAreAccounted
<1>1. IInv => PoolsAreAccounted BY DEF IInv
<1>2. QED BY <1>1, PoolInvariance, PTL

\* An idle timer never ends a postgres pool under a query that waits for it, nor
\* under one that runs within its limit: at most under one that a silent server
\* has left running.
THEOREM IdlePoolsAreIdle == Spec => []IdleMeansIdle
<1>1. IInv => IdleMeansIdle BY DEF IInv
<1>2. QED BY <1>1, PoolInvariance, PTL
=============================================================================
