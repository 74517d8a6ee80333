------------------------------ MODULE CanReach ------------------------------
(***************************************************************************)
(* WorkflowsService.canReach: the depth-first walk addEdge runs in memory  *)
(* over the edges it read.  adjacency[s] lists the targets of s's edges in *)
(* the order the SELECT returned them, with repetitions when two branches  *)
(* of a step lead to the same target.  WorkflowGraph takes the answer to   *)
(* be Reachable; this module is why it may.                                *)
(***************************************************************************)
EXTENDS Integers, Sequences, Reachability

CONSTANTS Steps, Adjacencies

ASSUME AdjacencyLists == Adjacencies \subseteq [Steps -> Seq(Steps)]

VARIABLES adjacency, from, target, stack, visited, answer

vars == <<adjacency, from, target, stack, visited, answer>>

Elements(q) == {q[i] : i \in DOMAIN q}

\* The edges the adjacency lists stand for.
Edges == {e \in Steps \X Steps : e[2] \in Elements(adjacency[e[1]])}

Init ==
    /\ adjacency \in Adjacencies
    /\ from \in Steps /\ target \in Steps
    /\ stack = <<from>>
    /\ visited = {}
    /\ answer = "none"

\* One turn of the loop: pop, compare, skip what was seen, push the rest.
current == stack[Len(stack)]
popped == SubSeq(stack, 1, Len(stack) - 1)

Found ==
    /\ answer = "none" /\ stack # <<>>
    /\ current = target
    /\ answer' = "true"
    /\ stack' = popped
    /\ UNCHANGED <<adjacency, from, target, visited>>

\* Mutant of Skip: compares without popping.
SkipKeepsStack ==
    /\ answer = "none" /\ stack # <<>>
    /\ current # target /\ current \in visited
    /\ UNCHANGED vars

Skip ==
    /\ answer = "none" /\ stack # <<>>
    /\ current # target /\ current \in visited
    /\ stack' = popped
    /\ UNCHANGED <<adjacency, from, target, visited, answer>>

\* Mutant of Visit: the neighbours replace what was still to be visited.
VisitDropsStack ==
    /\ answer = "none" /\ stack # <<>>
    /\ current # target /\ current \notin visited
    /\ visited' = visited \cup {current}
    /\ stack' = adjacency[current]
    /\ UNCHANGED <<adjacency, from, target, answer>>

Visit ==
    /\ answer = "none" /\ stack # <<>>
    /\ current # target /\ current \notin visited
    /\ visited' = visited \cup {current}
    /\ stack' = popped \o adjacency[current]
    /\ UNCHANGED <<adjacency, from, target, answer>>

Exhausted ==
    /\ answer = "none" /\ stack = <<>>
    /\ answer' = "false"
    /\ UNCHANGED <<adjacency, from, target, stack, visited>>

Next == Found \/ Skip \/ Visit \/ Exhausted

\* The loop is plain synchronous code: it runs until it returns.
Spec == Init /\ [][Next]_vars /\ WF_vars(Next)

-----------------------------------------------------------------------------
TypeOK ==
    /\ adjacency \in [Steps -> Seq(Steps)]
    /\ from \in Steps /\ target \in Steps
    /\ stack \in Seq(Steps)
    /\ visited \subseteq Steps
    /\ answer \in {"none", "true", "false"}

\* The answer is "true" exactly when the target can be reached, also on a
\* graph that already has cycles.
Correct ==
    answer # "none" => (answer = "true" <=> Reachable(Steps, Edges, from, target))

\* The walk ends, also on a graph that already has cycles.
Terminates == <>(answer # "none")
=============================================================================
