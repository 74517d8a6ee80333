------------------------- MODULE MCDatabaseToolPool -------------------------
EXTENDS DatabaseToolPool, TLC

\* Pools and executions are not told from each other by name; the keys are, by
\* their engine.
Symmetry == Permutations(Pools) \cup Permutations(Queries)
=============================================================================
