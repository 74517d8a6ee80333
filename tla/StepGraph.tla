------------------------------ MODULE StepGraph ------------------------------
(***************************************************************************)
(* What the workflow editor promises of a workflow's graph, and no more:   *)
(* steps come and go, an arc joins two existing steps and appears only     *)
(* when it closes no cycle at that instant, and arcs disappear with their  *)
(* steps or on their own.  WorkflowGraph is shown to implement this.       *)
(***************************************************************************)
EXTENDS Reachability

CONSTANT Steps

VARIABLES nodes, arcs

vars == <<nodes, arcs>>

TypeOK == nodes \subseteq Steps /\ arcs \subseteq nodes \X nodes

Init == nodes = {} /\ arcs = {}

AddNode(n) ==
    /\ n \notin nodes
    /\ nodes' = nodes \cup {n}
    /\ arcs' = arcs

Connect(a, b) ==
    /\ {a, b} \subseteq nodes
    /\ ~Reachable(Steps, arcs, b, a)
    /\ arcs' = arcs \cup {<<a, b>>}
    /\ nodes' = nodes

Shrink ==
    /\ nodes' \subseteq nodes
    /\ arcs' \subseteq arcs \cap (nodes' \X nodes')

Next ==
    \/ \E n \in Steps : AddNode(n)
    \/ \E a, b \in Steps : Connect(a, b)
    \/ Shrink

Spec == Init /\ [][Next]_vars

\* The graph never contains a cycle.
NoCycle == Acyclic(Steps, arcs)
==============================================================================
