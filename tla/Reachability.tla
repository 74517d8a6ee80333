---------------------------- MODULE Reachability ----------------------------
(***************************************************************************)
(* Reachability in a finite directed graph, without recursion.  A graph on *)
(* the vertices V is a set E of arcs <<a, b>>.  A set of vertices is       *)
(* closed when no arc leaves it, and b is reachable from a when every      *)
(* closed set that holds a holds b: the smallest such set is exactly what  *)
(* a walk along the arcs visits.  This is the meaning WorkflowsService     *)
(* gives "would `target` be reachable by walking forward from `from`?".    *)
(***************************************************************************)

Closed(E, S) == \A e \in E : e[1] \in S => e[2] \in S

Reachable(V, E, a, b) ==
    \A S \in SUBSET V : a \in S /\ Closed(E, S) => b \in S

\* No arc can be followed by a walk back to its source.
Acyclic(V, E) == \A e \in E : ~Reachable(V, E, e[2], e[1])
=============================================================================
