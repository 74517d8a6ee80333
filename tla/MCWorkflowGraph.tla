-------------------------- MODULE MCWorkflowGraph --------------------------
(***************************************************************************)
(* Small instances of WorkflowGraph for TLC.                               *)
(***************************************************************************)
EXTENDS WorkflowGraph, TLC

\* Ids are only compared for equality, so any renaming of them is a symmetry
\* of the safety properties.
Symmetry ==
    Permutations(Workflows) \cup Permutations(Steps) \cup Permutations(Requests)

\* The column is one longer than appending to an empty workflow ever gets, so
\* a request that names an order names its last.  No property relates orders to
\* edges or entries, so while there is such an order nothing adds an edge or
\* names an entry.
OrdersOrEdges ==
    \/ /\ edges = {}
       /\ \A r \in Requests :
            request[r].pc \notin {"canReach", "insertEdge", "updateWorkflow"}
    \/ /\ \A s \in Steps : stepOrder[s] # MaxStepOrder
       /\ \A r \in Requests : request[r].order # MaxStepOrder

MCSpec == Init /\ [][Next /\ EdgeWritesSerial' /\ OrdersOrEdges']_vars
=============================================================================
