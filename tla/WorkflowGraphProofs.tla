------------------------- MODULE WorkflowGraphProofs -------------------------
(***************************************************************************)
(* Proofs about WorkflowGraph for every set of workflows, steps, branches  *)
(* and concurrent requests.  The safety invariants are not inductive: they *)
(* hold because of what a request learned before it writes, so each        *)
(* strengthening says what the local variables of a waiting request still  *)
(* guarantee about the tables while other requests change them.            *)
(***************************************************************************)
EXTENDS WorkflowGraph, TLAPS

----------------------------------------------------------------------------
\* Facts about Reachability.  Closed sets do the work a path would do: to show
\* that b cannot be reached from a, exhibit a closed set that holds a and not b.

\* Every vertex is reachable from itself, by the empty walk.
LEMMA ReachableRefl ==
    ASSUME NEW V, NEW E, NEW a
    PROVE  Reachable(V, E, a, a)
BY DEF Reachable

\* Removing arcs makes nothing reachable: canReach's answer "no" stays true
\* while edges are only deleted.
LEMMA ReachableShrinks ==
    ASSUME NEW V, NEW F, NEW E \in SUBSET F, NEW a, NEW b,
           Reachable(V, E, a, b)
    PROVE  Reachable(V, F, a, b)
<1>1. ASSUME NEW S \in SUBSET V, a \in S, Closed(F, S) PROVE b \in S
  <2>1. Closed(E, S) BY <1>1 DEF Closed
  <2>2. QED BY <1>1, <2>1 DEF Reachable
<1>2. QED BY <1>1 DEF Reachable

\* Removing arcs makes no cycle.
LEMMA AcyclicShrinks ==
    ASSUME NEW V, NEW F, NEW E \in SUBSET F, Acyclic(V, F)
    PROVE  Acyclic(V, E)
BY ReachableShrinks DEF Acyclic

\* An arc out of a closed set does not exist: what is not reachable from a
\* has a closed set that shows it.
LEMMA Separation ==
    ASSUME NEW V, NEW E, NEW a, NEW b, ~Reachable(V, E, a, b)
    PROVE  \E S \in SUBSET V : a \in S /\ Closed(E, S) /\ b \notin S
BY DEF Reachable

\* The check of addEdge is the right one: an arc from a to b closes no cycle
\* when a cannot be reached from b.
LEMMA AcyclicAdd ==
    ASSUME NEW V, NEW E, NEW u \in V, NEW v \in V,
           Acyclic(V, E), ~Reachable(V, E, v, u)
    PROVE  Acyclic(V, E \cup {<<u, v>>})
<1> DEFINE F == E \cup {<<u, v>>}
<1>1. PICK T \in SUBSET V : v \in T /\ Closed(E, T) /\ u \notin T
  BY Separation
<1>2. Closed(F, T)
  BY <1>1 DEF Closed
<1>3. ~Reachable(V, F, v, u)
  BY <1>1, <1>2 DEF Reachable
<1>4. ASSUME NEW e \in E PROVE ~Reachable(V, F, e[2], e[1])
  <2>1. PICK S \in SUBSET V : e[2] \in S /\ Closed(E, S) /\ e[1] \notin S
    <3>1. ~Reachable(V, E, e[2], e[1]) BY <1>4 DEF Acyclic
    <3>2. QED BY <3>1, Separation
  <2>2. CASE u \notin S
    <3>1. Closed(F, S) BY <2>1, <2>2 DEF Closed
    <3>2. QED BY <2>1, <3>1 DEF Reachable
  <2>3. CASE u \in S
    \* The closed set of e and that of the new arc together: the source of e
    \* is in neither, since T would carry it to its target and on to u.
    <3>1. CASE e[1] \notin T
      <4>1. Closed(F, S \cup T) BY <1>1, <2>1 DEF Closed
      <4>2. e[2] \in S \cup T /\ e[1] \notin S \cup T BY <2>1, <3>1
      <4>3. QED BY <4>1, <4>2 DEF Reachable
    <3>2. CASE e[1] \in T
      \* Then S \cap T is closed, holds e[2] and neither e[1] nor u.
      <4>1. e[2] \in S \cap T BY <1>1, <2>1, <3>2 DEF Closed
      <4>2. Closed(F, S \cap T) BY <1>1, <2>1 DEF Closed
      <4>3. e[1] \notin S \cap T BY <2>1
      <4>4. QED BY <4>1, <4>2, <4>3 DEF Reachable
    <3>3. QED BY <3>1, <3>2
  <2>4. QED BY <2>2, <2>3
<1>5. QED BY <1>3, <1>4 DEF Acyclic

\* Looking at the arcs of one part of the graph is enough when no arc leaves
\* that part: canReach reads the edges of one workflow only.
LEMMA ReachableWithin ==
    ASSUME NEW V, NEW E, NEW P \in SUBSET V, NEW D,
           \A e \in E : e[1] \in P => e \in D /\ e[2] \in P,
           NEW a \in P, NEW b,
           ~Reachable(V, D, a, b)
    PROVE  ~Reachable(V, E, a, b)
<1>1. PICK S \in SUBSET V : a \in S /\ Closed(D, S) /\ b \notin S
  BY Separation
<1>2. Closed(E, S \cap P)
  BY <1>1 DEF Closed
<1>3. QED BY <1>1, <1>2 DEF Reachable

----------------------------------------------------------------------------
\* What the requests in flight still know.

\* The fields of a request that its next statement uses are set.
RequestTyped ==
    \A r \in Requests :
        LET q == request[r]
        IN  /\ q.pc \in {"nextStepOrder", "insertStep"} =>
                 q.workflow \in Workflows /\ q.type \in StepTypes
            /\ q.pc = "insertStep" => q.order \in Nat
            /\ q.pc \in {"setEntry", "updateWorkflow", "updateStep", "canReach",
                         "insertEdge"} => q.workflow \in Workflows /\ q.step \in Steps
            /\ q.pc \in {"canReach", "insertEdge"} =>
                 q.to \in Steps /\ q.branch \in Branches

TypeInv == TypeOK /\ RequestTyped

\* A step row belongs to a live workflow, and its id has been handed out.
RowsOwned ==
    \A s \in Steps : workflowOf[s] # None =>
        workflowOf[s] \in workflows /\ s \in usedSteps

\* s was found in (or inserted into) workflow w: since ids are not reused, it
\* is still there or deleted, never in another workflow.
WasIn(s, w) == s \in usedSteps /\ workflowOf[s] \in {w, None}

RequestOwned ==
    \A r \in Requests :
        LET q == request[r]
        IN  /\ q.pc \in {"setEntry", "updateWorkflow", "canReach", "insertEdge"} =>
                 WasIn(q.step, q.workflow)
            /\ q.pc \in {"canReach", "insertEdge"} => WasIn(q.to, q.workflow)

Ownership == RowsOwned /\ RequestOwned /\ EntryWithinWorkflow /\ EdgesWithinWorkflow

\* What canReach answered still holds when the edge is inserted.
CheckStillHolds ==
    \A r \in Requests : request[r].pc = "insertEdge" =>
        ~Reachable(Steps, Arcs(EdgesOf(request[r].workflow)),
                   request[r].to, request[r].step)

SerialInv == CheckStillHolds /\ NoCycle /\ EdgeWritesSerial

\* nextStepOrder fills in the order of a request and stays in its type.
LEMMA RequestOrder ==
    ASSUME NEW q \in Request, NEW n \in Nat \cup {None}
    PROVE  [q EXCEPT !.pc = "insertStep", !.order = n] \in Request
BY DEF Request, PC

\* Every edit keeps the types.
LEMMA TypeInvStep ==
    ASSUME TypeInv, [Next]_vars
    PROVE  TypeInv'
<1> USE NoneIsNotAnId, OrdersAreNaturals
<1> USE DEF TypeInv, TypeOK
<1>1. ASSUME NEW w \in Workflows, Create(w) PROVE TypeInv'
  BY <1>1 DEF Create, RequestTyped
<1>2. ASSUME NEW w \in Workflows, Remove(w) PROVE TypeInv'
  BY <1>2 DEF Remove, DeleteSteps, ClearEntry, RequestTyped, StepsOf
<1>3. ASSUME NEW w \in Workflows, UpdateClearEntry(w) PROVE TypeInv'
  BY <1>3 DEF UpdateClearEntry, RequestTyped
<1>4. ASSUME NEW s \in Steps, RemoveStep(s) PROVE TypeInv'
  BY <1>4 DEF RemoveStep, DeleteSteps, ClearEntry, RequestTyped
<1>5. ASSUME NEW e \in edges, RemoveEdge(e) PROVE TypeInv'
  BY <1>5 DEF RemoveEdge, RequestTyped
<1>6. ASSUME NEW r \in Requests, RequestStep(r) PROVE TypeInv'
  <2>1. ASSUME NEW w \in Workflows, NEW s \in Steps, UpdateCheckEntry(r, w, s)
        PROVE TypeInv'
    BY <2>1 DEF UpdateCheckEntry, RequestTyped, Request, Idle, PC, tables
  <2>2. CASE UpdateWrite(r)
    BY <2>2 DEF UpdateWrite, RequestTyped, Request, Idle, PC, StepRows
  <2>3. ASSUME NEW w \in Workflows, NEW t \in StepTypes,
               NEW n \in GivenOrders \cup {None}, AddStepRead(r, w, t, n)
        PROVE TypeInv'
    <3>1. n \in Nat \cup {None} /\ (n # None => n \in Nat)
      BY <2>3, OrdersAreNaturals
    <3>2. request' \in [Requests -> Request]
      BY <2>3, <3>1 DEF AddStepRead, Request, Idle, PC
    <3>3. RequestTyped'
      BY <2>3, <3>1 DEF AddStepRead, RequestTyped, Request, Idle, PC
    <3>4. QED BY <2>3, <3>2, <3>3 DEF AddStepRead, tables
  <2>4. CASE NextStepOrder(r)
    <3>1. PICK n \in 0..(MaxStepOrder + 1) :
             request' = [request EXCEPT ![r] =
               [request[r] EXCEPT !.pc = "insertStep", !.order = n]]
      BY <2>4 DEF NextStepOrder
    <3>2. n \in Nat
      BY <3>1, OrdersAreNaturals
    <3>3. request' \in [Requests -> Request]
      <4>1. n \in Nat \cup {None} BY <3>2
      <4>2. [request[r] EXCEPT !.pc = "insertStep", !.order = n] \in Request
        BY <4>1, RequestOrder
      <4>3. QED BY <3>1, <4>2
    <3>4. RequestTyped'
      <4>1. request[r].workflow \in Workflows /\ request[r].type \in StepTypes
        BY <2>4 DEF NextStepOrder, RequestTyped
      <4>2. request'[r].pc = "insertStep" /\ request'[r].order \in Nat
            /\ request'[r].workflow = request[r].workflow
            /\ request'[r].type = request[r].type
        BY <3>1, <3>2 DEF Request
      <4>3. \A q \in Requests \ {r} : request'[q] = request[q]
        BY <3>1
      <4>4. QED BY <4>1, <4>2, <4>3 DEF RequestTyped
    <3>5. QED BY <2>4, <3>3, <3>4 DEF NextStepOrder, tables
  <2>5. ASSUME NEW s \in Steps, InsertStep(r, s) PROVE TypeInv'
    <3>1. request[r].order \in 0..MaxStepOrder
      BY <2>5 DEF InsertStep, RequestTyped, OrderAccepted
    <3>2. stepOrder' \in [Steps -> 0..MaxStepOrder]
      BY <2>5, <3>1 DEF InsertStep
    <3>3. request' \in [Requests -> Request] /\ RequestTyped'
      <4>1. PICK q \in Request :
              /\ request' = [request EXCEPT ![r] = q]
              /\ \/ q = Idle
                 \/ q.pc = "setEntry" /\ q.workflow \in Workflows /\ q.step \in Steps
        <5> DEFINE q == IF request[r].isFirstStep
                        THEN [Idle EXCEPT !.pc = "setEntry", !.step = s,
                                          !.workflow = request[r].workflow]
                        ELSE Idle
        <5>1. request' = [request EXCEPT ![r] = q] BY <2>5 DEF InsertStep, Idle
        <5>2. request[r].workflow \in Workflows BY <2>5 DEF InsertStep, RequestTyped
        <5>3. q \in Request BY <5>2 DEF Request, Idle, PC
        <5>4. q = Idle \/ (q.pc = "setEntry" /\ q.workflow \in Workflows /\ q.step \in Steps)
          BY <5>2 DEF Idle
        <5> HIDE DEF q
        <5>5. QED BY <5>1, <5>3, <5>4
      <4>2. request' \in [Requests -> Request] BY <4>1
      <4>3. request'[r] = q /\ \A o \in Requests \ {r} : request'[o] = request[o] BY <4>1
      <4>4. RequestTyped' BY <4>1, <4>3 DEF RequestTyped, Idle
      <4>5. QED BY <4>2, <4>4
    <3>4. UNCHANGED <<workflows, usedWorkflows, entryStepId, edges>>
          /\ usedSteps' \subseteq Steps
          /\ workflowOf' \in [Steps -> Workflows \cup {None}]
          /\ stepType' \in [Steps -> StepTypes \cup {None}]
          /\ configType' \in [Steps -> StepTypes \cup {None}]
      BY <2>5 DEF InsertStep, RequestTyped, Request
    <3>5. QED BY <3>2, <3>3, <3>4
  <2>6. CASE InsertStepFails(r)
    BY <2>6 DEF InsertStepFails, RequestTyped, Request, Idle, PC, tables
  <2>7. CASE SetEntry(r)
    BY <2>7 DEF SetEntry, RequestTyped, Request, Idle, PC, StepRows
  <2>8. ASSUME NEW s \in Steps, NEW t \in StepTypes \cup {None},
               NEW hasConfig \in BOOLEAN, NEW n \in GivenOrders \cup {None},
               UpdateStepRead(r, s, t, hasConfig, n)
        PROVE TypeInv'
    <3>1. n \in Nat \cup {None}
      BY <2>8, OrdersAreNaturals
    <3>2. request' \in [Requests -> Request]
      <4> DEFINE config == IF ~hasConfig THEN None ELSE IF t = None THEN stepType[s] ELSE t
                 q == [Idle EXCEPT !.pc = "updateStep", !.workflow = workflowOf[s],
                                   !.step = s, !.type = t, !.order = n, !.config = config]
      <4>1. config \in StepTypes \cup {None} /\ workflowOf[s] \in Workflows \cup {None}
        OBVIOUS
      <4>2. request' = [request EXCEPT ![r] = q] BY <2>8 DEF UpdateStepRead
      <4> HIDE DEF config
      <4>3. q \in Request BY <3>1, <4>1 DEF Request, Idle, PC
      <4> HIDE DEF q
      <4>4. QED BY <4>2, <4>3
    <3>3. RequestTyped'
      BY <2>8, <3>1
         DEF UpdateStepRead, RequestTyped, Request, Idle, PC, StepRows
    <3>4. QED BY <2>8, <3>2, <3>3 DEF UpdateStepRead, tables
  <2>9. CASE UpdateStepWrite(r)
    <3>1. request[r] \in Request /\ request[r].step \in Steps
      BY <2>9 DEF UpdateStepWrite, RequestTyped
    <3>2. stepOrder' \in [Steps -> 0..MaxStepOrder]
      <4>1. CASE stepOrder' = stepOrder
        BY <4>1
      <4>2. CASE /\ request[r].order # None
                 /\ OrderAccepted(request[r].workflow, request[r].step,
                                  request[r].order)
                 /\ stepOrder' =
                      [stepOrder EXCEPT ![request[r].step] = request[r].order]
        <5>1. request[r].order \in 0..MaxStepOrder
          BY <4>2, <3>1 DEF OrderAccepted, Request
        <5>2. QED BY <4>2, <5>1, <3>1
      <4>3. QED BY <2>9, <4>1, <4>2 DEF UpdateStepWrite
    <3>3. request' \in [Requests -> Request] /\ RequestTyped'
      BY <2>9 DEF UpdateStepWrite, RequestTyped, Request, Idle, PC
    <3>4. UNCHANGED <<workflows, usedWorkflows, entryStepId, workflowOf,
                      usedSteps, edges>>
          /\ stepType' \in [Steps -> StepTypes \cup {None}]
          /\ configType' \in [Steps -> StepTypes \cup {None}]
      BY <2>9, <3>1 DEF UpdateStepWrite, Request
    <3>5. QED BY <3>2, <3>3, <3>4
  <2>10. ASSUME NEW w \in Workflows, NEW a \in Steps, NEW b \in Steps,
                NEW branch \in Branches, AddEdgeCheckSteps(r, w, a, b, branch)
         PROVE TypeInv'
    BY <2>10 DEF AddEdgeCheckSteps, RequestTyped, Request, Idle, PC, tables
  <2>11. CASE AddEdgeCanReach(r)
    <3>1. PICK q \in {Idle, [request[r] EXCEPT !.pc = "insertEdge"]} :
            /\ request[r].pc = "canReach" /\ request' = [request EXCEPT ![r] = q]
            /\ UNCHANGED tables
      BY <2>11 DEF AddEdgeCanReach
    <3>2. q \in Request
      <4>1. Idle \in Request BY DEF Request, Idle, PC
      <4>2. [request[r] EXCEPT !.pc = "insertEdge"] \in Request
        <5>1. request[r] \in Request BY DEF TypeInv, TypeOK
        <5>2. QED BY <5>1 DEF Request, PC
      <4>3. QED BY <4>1, <4>2
    <3>3. request' \in [Requests -> Request] BY <3>1, <3>2
    <3>4. request'[r] = q /\ \A o \in Requests \ {r} : request'[o] = request[o] BY <3>1
    <3>5. RequestTyped' BY <3>1, <3>4 DEF RequestTyped, Idle, Request
    <3>6. QED BY <3>1, <3>3, <3>5 DEF tables
  <2>12. CASE AddEdgeInsert(r)
    BY <2>12 DEF AddEdgeInsert, RequestTyped, Request, Idle, PC, Edge
  <2>13. CASE Abort(r)
    BY <2>13 DEF Abort, RequestTyped, Request, Idle, PC, tables
  <2>14. QED
    BY <1>6, <2>1, <2>2, <2>3, <2>4, <2>5, <2>6, <2>7, <2>8, <2>9, <2>10,
       <2>11, <2>12, <2>13 DEF RequestStep
<1>7. CASE UNCHANGED vars
  BY <1>7 DEF vars, tables, RequestTyped
<1>8. QED BY <1>1, <1>2, <1>3, <1>4, <1>5, <1>6, <1>7 DEF Next

\* The empty database has them, and nothing refers to anything.
LEMMA InitInv == Init => TypeInv /\ Ownership
<1>1. Init => TypeInv
  BY NoneIsNotAnId, OrdersAreNaturals
     DEF Init, TypeInv, TypeOK, RequestTyped, Request, Idle, PC
<1>2. Init => Ownership
  BY NoneIsNotAnId DEF Init, Idle, Ownership, RowsOwned, RequestOwned,
     EntryWithinWorkflow, EdgesWithinWorkflow
<1>3. QED BY <1>1, <1>2

\* Type correctness.
THEOREM WorkflowGraphTypeInv == Spec => []TypeInv
<1>1. Init => TypeInv
  BY InitInv
<1>2. TypeInv /\ [Next]_vars => TypeInv'
  BY TypeInvStep
<1>3. QED BY <1>1, <1>2, PTL DEF Spec

\* Every table and every local variable of a request keeps its type.
THEOREM WorkflowGraphTypeOK == Spec => []TypeOK
<1>1. TypeInv => TypeOK BY DEF TypeInv
<1>2. QED BY <1>1, WorkflowGraphTypeInv, PTL

\* Entry pointers and edges never leave the workflow they belong to, whatever
\* interleaving of edits, deletions and failures produced them.
LEMMA OwnershipStep ==
    ASSUME TypeInv, TypeInv', Ownership, [Next]_vars
    PROVE  Ownership'
<1> USE NoneIsNotAnId DEF TypeInv, TypeOK
<1> USE DEF Ownership, RowsOwned, RequestOwned, WasIn, EntryWithinWorkflow,
            EdgesWithinWorkflow
<1>1. ASSUME NEW w \in Workflows, Create(w) PROVE Ownership'
  BY <1>1 DEF Create
<1>2. ASSUME NEW w \in Workflows, Remove(w) PROVE Ownership'
  <2>1. \A s \in Steps :
           workflowOf'[s] = IF workflowOf[s] = w THEN None ELSE workflowOf[s]
    BY <1>2 DEF Remove, DeleteSteps, StepsOf
  <2>2. workflows' = workflows \ {w} /\ usedSteps' = usedSteps /\ request' = request
    BY <1>2 DEF Remove
  <2>3. RowsOwned' BY <2>1, <2>2
  <2>4. RequestOwned'
    <3>1. \A s \in Steps, x \in Workflows : WasIn(s, x) => WasIn(s, x)'
      BY <2>1, <2>2
    <3>2. QED BY <3>1, <2>2 DEF RequestTyped
  <2>5. EntryWithinWorkflow'
    <3>1. \A x \in Workflows :
             entryStepId'[x] = IF x = w \/ entryStepId[x] \in StepsOf(w)
                               THEN None ELSE entryStepId[x]
      BY <1>2 DEF Remove, ClearEntry
    <3>2. QED BY <2>1, <2>2, <3>1 DEF StepsOf
  <2>6. EdgesWithinWorkflow'
    <3>1. edges' \subseteq {e \in edges : workflowOf[e.from] # w /\ workflowOf[e.to] # w}
      BY <1>2 DEF Remove, DeleteSteps, StepsOf, Edge
    <3>2. QED BY <2>1, <2>2, <3>1 DEF Edge
  <2>7. QED BY <2>3, <2>4, <2>5, <2>6
<1>3. ASSUME NEW w \in Workflows, UpdateClearEntry(w) PROVE Ownership'
  BY <1>3 DEF UpdateClearEntry
<1>4. ASSUME NEW s \in Steps, RemoveStep(s) PROVE Ownership'
  <2>1. \A t \in Steps : workflowOf'[t] = IF t = s THEN None ELSE workflowOf[t]
    BY <1>4 DEF RemoveStep, DeleteSteps
  <2>2. workflows' = workflows /\ usedSteps' = usedSteps /\ request' = request
    BY <1>4 DEF RemoveStep
  <2>3. RowsOwned' BY <2>1, <2>2
  <2>4. RequestOwned'
    <3>1. \A t \in Steps, x \in Workflows : WasIn(t, x) => WasIn(t, x)'
      BY <2>1, <2>2
    <3>2. QED BY <3>1, <2>2 DEF RequestTyped
  <2>5. EntryWithinWorkflow'
    BY <1>4, <2>1, <2>2 DEF RemoveStep, ClearEntry
  <2>6. EdgesWithinWorkflow'
    BY <1>4, <2>1, <2>2 DEF RemoveStep, DeleteSteps, Edge
  <2>7. QED BY <2>3, <2>4, <2>5, <2>6
<1>5. ASSUME NEW e \in edges, RemoveEdge(e) PROVE Ownership'
  BY <1>5 DEF RemoveEdge
<1>6. ASSUME NEW r \in Requests, RequestStep(r) PROVE Ownership'
  <2>1. ASSUME NEW w \in Workflows, NEW s \in Steps, UpdateCheckEntry(r, w, s)
        PROVE Ownership'
    BY <2>1 DEF UpdateCheckEntry, Idle, Request, tables
  <2>2. CASE UpdateWrite(r)
    BY <2>2 DEF UpdateWrite, StepRows, Idle, Request, RequestTyped
  <2>3. ASSUME NEW w \in Workflows, NEW t \in StepTypes,
               NEW n \in GivenOrders \cup {None}, AddStepRead(r, w, t, n)
        PROVE Ownership'
    BY <2>3 DEF AddStepRead, Idle, Request, tables
  <2>4. CASE NextStepOrder(r)
    BY <2>4 DEF NextStepOrder, Request, tables
  <2>5. ASSUME NEW s \in Steps, InsertStep(r, s) PROVE Ownership'
    BY <2>5 DEF InsertStep, Idle, Request, RequestTyped, Edge
  <2>6. CASE InsertStepFails(r)
    BY <2>6 DEF InsertStepFails, Idle, Request, tables
  <2>7. CASE SetEntry(r)
    BY <2>7 DEF SetEntry, StepRows, Idle, Request, RequestTyped
  <2>8. ASSUME NEW s \in Steps, NEW t \in StepTypes \cup {None},
               NEW hasConfig \in BOOLEAN, NEW n \in GivenOrders \cup {None},
               UpdateStepRead(r, s, t, hasConfig, n)
        PROVE Ownership'
    BY <2>8 DEF UpdateStepRead, Idle, Request, tables
  <2>9. CASE UpdateStepWrite(r)
    BY <2>9 DEF UpdateStepWrite, Idle, Request
  <2>10. ASSUME NEW w \in Workflows, NEW a \in Steps, NEW b \in Steps,
                NEW branch \in Branches, AddEdgeCheckSteps(r, w, a, b, branch)
         PROVE Ownership'
    BY <2>10 DEF AddEdgeCheckSteps, Idle, Request, tables
  <2>11. CASE AddEdgeCanReach(r)
    BY <2>11 DEF AddEdgeCanReach, Idle, Request, tables
  <2>12. CASE AddEdgeInsert(r)
    BY <2>12 DEF AddEdgeInsert, StepRows, Idle, Request, RequestTyped, Edge
  <2>13. CASE Abort(r)
    BY <2>13 DEF Abort, Idle, Request, tables
  <2>14. QED
    BY <1>6, <2>1, <2>2, <2>3, <2>4, <2>5, <2>6, <2>7, <2>8, <2>9, <2>10,
       <2>11, <2>12, <2>13 DEF RequestStep
<1>7. CASE UNCHANGED vars
  BY <1>7 DEF vars, tables
<1>8. QED BY <1>1, <1>2, <1>3, <1>4, <1>5, <1>6, <1>7 DEF Next

\* Of the statements of a request only the INSERT of a step adds or moves a row.
LEMMA RequestsKeepSteps ==
    ASSUME NEW r \in Requests, RequestStep(r), \A s \in Steps : ~InsertStep(r, s)
    PROVE  workflowOf' = workflowOf /\ usedSteps' = usedSteps
<1>1. \/ UpdateWrite(r) \/ SetEntry(r) \/ UpdateStepWrite(r) \/ AddEdgeInsert(r)
      => workflowOf' = workflowOf /\ usedSteps' = usedSteps
  BY DEF UpdateWrite, SetEntry, UpdateStepWrite, AddEdgeInsert
<1>2. UNCHANGED tables => workflowOf' = workflowOf /\ usedSteps' = usedSteps
  BY DEF tables
<1>3. QED
  BY <1>1, <1>2 DEF RequestStep, UpdateCheckEntry, AddStepRead, NextStepOrder,
     InsertStepFails, UpdateStepRead, AddEdgeCheckSteps, AddEdgeCanReach, Abort

\* Ids are never reused: a row that was deleted stays deleted, no step moves to
\* another workflow, and at most one id is handed out at a time.
LEMMA IdsAreNotReused ==
    ASSUME TypeInv, [Next]_vars
    PROVE  /\ usedSteps' = usedSteps \/ \E s \in Steps : usedSteps' = usedSteps \cup {s}
           /\ \A s \in usedSteps : workflowOf'[s] \in {workflowOf[s], None}
<1> USE DEF TypeInv, TypeOK
<1>1. ASSUME NEW w \in Workflows, Create(w) \/ Remove(w) \/ UpdateClearEntry(w)
      PROVE  /\ usedSteps' = usedSteps
             /\ \A s \in usedSteps : workflowOf'[s] \in {workflowOf[s], None}
  BY <1>1 DEF Create, Remove, UpdateClearEntry, DeleteSteps
<1>2. ASSUME NEW s \in Steps, RemoveStep(s)
      PROVE  /\ usedSteps' = usedSteps
             /\ \A t \in usedSteps : workflowOf'[t] \in {workflowOf[t], None}
  BY <1>2 DEF RemoveStep, DeleteSteps
<1>3. ASSUME NEW r \in Requests, NEW s \in Steps, InsertStep(r, s)
      PROVE  /\ usedSteps' = usedSteps \cup {s}
             /\ \A t \in usedSteps : workflowOf'[t] \in {workflowOf[t], None}
  BY <1>3 DEF InsertStep
<1>4. ASSUME NEW e, RemoveEdge(e)
      PROVE  workflowOf' = workflowOf /\ usedSteps' = usedSteps
  BY <1>4 DEF RemoveEdge
<1>5. CASE UNCHANGED vars
  BY <1>5 DEF vars, tables
<1>6. QED
  BY <1>1, <1>2, <1>3, <1>4, <1>5, RequestsKeepSteps DEF Next

LEMMA OwnershipInv == Spec => [](TypeInv /\ Ownership)
<1>1. Init => Ownership
  BY InitInv
<1>2. TypeInv /\ TypeInv' /\ Ownership /\ [Next]_vars => Ownership'
  BY OwnershipStep
<1>3. QED BY <1>1, <1>2, WorkflowGraphTypeInv, PTL DEF Spec

\* A workflow's entry step is one of its own existing steps.
THEOREM EntryStaysWithinWorkflow == Spec => []EntryWithinWorkflow
<1>1. Ownership => EntryWithinWorkflow BY DEF Ownership
<1>2. QED BY <1>1, OwnershipInv, PTL

\* An edge joins two existing steps of its own workflow.
THEOREM EdgesStayWithinWorkflow == Spec => []EdgesWithinWorkflow
<1>1. Ownership => EdgesWithinWorkflow BY DEF Ownership
<1>2. QED BY <1>1, OwnershipInv, PTL

----------------------------------------------------------------------------
\* The orders of steps.

\* The step a PATCH holds was found in the workflow it holds: the constraint
\* checks the new order against the steps of the workflow the row is in.
PatchOwned ==
    \A r \in Requests : request[r].pc = "updateStep" =>
        /\ request[r].step \in Steps
        /\ WasIn(request[r].step, request[r].workflow)

OrderInv == StepOrdersAreKept /\ PatchOwned

\* A request enters its UPDATE of a step only by reading the step's row.
LEMMA UpdateStepEntry ==
    ASSUME TypeInv, [Next]_vars, NEW r \in Requests,
           request'[r].pc = "updateStep"
    PROVE  \/ request'[r] = request[r]
           \/ /\ request'[r].step \in StepRows
              /\ request'[r].workflow = workflowOf[request'[r].step]
              /\ UNCHANGED tables
<1> USE DEF TypeInv, TypeOK
<1>1. CASE request' = request BY <1>1
<1>2. ASSUME NEW q \in Requests, RequestStep(q), q # r
      PROVE  request'[r] = request[r]
  BY <1>2 DEF RequestStep, UpdateCheckEntry, UpdateWrite, AddStepRead,
     NextStepOrder, InsertStep, InsertStepFails, SetEntry, UpdateStepRead,
     UpdateStepWrite, AddEdgeCheckSteps, AddEdgeCanReach, AddEdgeInsert, Abort
<1>3. CASE RequestStep(r)
  <2>1. ASSUME NEW s \in Steps, NEW t \in StepTypes \cup {None},
               NEW hasConfig \in BOOLEAN, NEW n \in GivenOrders \cup {None},
               UpdateStepRead(r, s, t, hasConfig, n)
        PROVE  /\ request'[r].step \in StepRows
               /\ request'[r].workflow = workflowOf[request'[r].step]
               /\ UNCHANGED tables
    BY <2>1 DEF UpdateStepRead, Idle
  <2>2. \A w \in Workflows, s \in Steps :
           UpdateCheckEntry(r, w, s) => request'[r].pc = "updateWorkflow"
    BY DEF UpdateCheckEntry, Idle
  <2>3. \/ UpdateWrite(r) \/ InsertStepFails(r) \/ SetEntry(r)
        \/ UpdateStepWrite(r) \/ AddEdgeInsert(r) \/ Abort(r)
        => request'[r].pc = "idle"
    BY DEF UpdateWrite, InsertStepFails, SetEntry, UpdateStepWrite,
       AddEdgeInsert, Abort, Idle
  <2>4. \A w \in Workflows, t \in StepTypes, n \in GivenOrders \cup {None} :
           AddStepRead(r, w, t, n) =>
             request'[r].pc \in {"nextStepOrder", "insertStep"}
    BY DEF AddStepRead, Idle
  <2>5. NextStepOrder(r) => request'[r].pc = "insertStep"
    BY DEF NextStepOrder, Request
  <2>6. \A s \in Steps :
           InsertStep(r, s) => request'[r].pc \in {"setEntry", "idle"}
    BY DEF InsertStep, Idle
  <2>7. \A w \in Workflows, a, b \in Steps, branch \in Branches :
           AddEdgeCheckSteps(r, w, a, b, branch) => request'[r].pc = "canReach"
    BY DEF AddEdgeCheckSteps, Idle
  <2>8. AddEdgeCanReach(r) => request'[r].pc \in {"idle", "insertEdge"}
    BY DEF AddEdgeCanReach, Idle, Request
  <2>9. QED
    BY <1>3, <2>1, <2>2, <2>3, <2>4, <2>5, <2>6, <2>7, <2>8 DEF RequestStep
<1>4. QED
  BY <1>1, <1>2, <1>3 DEF Next, vars, Create, Remove, UpdateClearEntry,
     RemoveStep, RemoveEdge

\* Deleting steps leaves the others their workflows and orders.
LEMMA DeletionKeepsOrders ==
    ASSUME TypeInv, StepOrdersAreKept, NEW gone \in SUBSET Steps,
           DeleteSteps(gone)
    PROVE  StepOrdersAreKept'
BY NoneIsNotAnId
   DEF TypeInv, TypeOK, StepOrdersAreKept, DeleteSteps, StepRows, StepsOf

\* Storing n for step s of workflow w, a new row or an old one, keeps the
\* orders of all workflows when the schema accepts n there.
LEMMA AcceptedOrderIsKept ==
    ASSUME TypeInv, StepOrdersAreKept,
           NEW w \in Workflows, NEW s \in Steps, NEW n \in Nat,
           workflowOf[s] \in {w, None}, OrderAccepted(w, s, n),
           workflowOf' = [workflowOf EXCEPT ![s] = w],
           stepOrder' = [stepOrder EXCEPT ![s] = n]
    PROVE  StepOrdersAreKept'
<1> USE NoneIsNotAnId DEF TypeInv, TypeOK, StepRows, StepsOf
<1>1. workflowOf'[s] = w /\ stepOrder'[s] = n
  OBVIOUS
<1>2. \A t \in Steps \ {s} :
         workflowOf'[t] = workflowOf[t] /\ stepOrder'[t] = stepOrder[t]
  OBVIOUS
<1>3. n <= MaxStepOrder
      /\ \A t \in Steps \ {s} : workflowOf[t] = w => stepOrder[t] # n
  BY DEF OrderAccepted
<1>4. QED BY <1>1, <1>2, <1>3 DEF StepOrdersAreKept

LEMMA OrderStep ==
    ASSUME TypeInv, TypeInv', Ownership, OrderInv, [Next]_vars
    PROVE  OrderInv'
<1>1. PatchOwned'
  <2> SUFFICES ASSUME NEW r \in Requests, request'[r].pc = "updateStep"
               PROVE  /\ request'[r].step \in Steps
                      /\ request'[r].step \in usedSteps'
                      /\ workflowOf'[request'[r].step]
                           \in {request'[r].workflow, None}
    BY DEF PatchOwned, WasIn
  <2>1. CASE request'[r] = request[r]
    <3>1. /\ request[r].step \in Steps
          /\ request[r].step \in usedSteps
          /\ workflowOf[request[r].step] \in {request[r].workflow, None}
      BY <2>1 DEF OrderInv, PatchOwned, WasIn
    <3>2. /\ request[r].step \in usedSteps'
          /\ workflowOf'[request[r].step] \in {workflowOf[request[r].step], None}
      BY <3>1, IdsAreNotReused
    <3>3. QED BY <2>1, <3>1, <3>2
  <2>2. CASE /\ request'[r].step \in StepRows
             /\ request'[r].workflow = workflowOf[request'[r].step]
             /\ UNCHANGED tables
    BY <2>2 DEF tables, StepRows, Ownership, RowsOwned
  <2>3. QED BY <2>1, <2>2, UpdateStepEntry
<1>2. StepOrdersAreKept'
  <2> USE DEF OrderInv
  <2>1. ASSUME NEW w \in Workflows, Remove(w) PROVE StepOrdersAreKept'
    BY <2>1, DeletionKeepsOrders DEF Remove, StepsOf
  <2>2. ASSUME NEW s \in Steps, RemoveStep(s) PROVE StepOrdersAreKept'
    BY <2>2, DeletionKeepsOrders DEF RemoveStep
  <2>3. ASSUME NEW r \in Requests, NEW s \in Steps, InsertStep(r, s)
        PROVE  StepOrdersAreKept'
    <3>1. request[r].workflow \in Workflows /\ request[r].order \in Nat
      BY <2>3 DEF InsertStep, TypeInv, RequestTyped
    <3>2. workflowOf[s] = None
      BY <2>3 DEF InsertStep, Ownership, RowsOwned
    <3>3. /\ OrderAccepted(request[r].workflow, s, request[r].order)
          /\ workflowOf' = [workflowOf EXCEPT ![s] = request[r].workflow]
          /\ stepOrder' = [stepOrder EXCEPT ![s] = request[r].order]
      BY <2>3 DEF InsertStep
    <3>4. QED BY <3>1, <3>2, <3>3, AcceptedOrderIsKept
  <2>4. CASE workflowOf' = workflowOf /\ stepOrder' = stepOrder
    BY <2>4 DEF StepOrdersAreKept, StepRows, StepsOf
  <2>5. ASSUME NEW r \in Requests, UpdateStepWrite(r)
        PROVE  StepOrdersAreKept'
    <3> DEFINE q == request[r]
    <3>1. workflowOf' = workflowOf
      BY <2>5 DEF UpdateStepWrite
    <3>2. CASE stepOrder' = stepOrder
      BY <2>4, <3>1, <3>2
    <3>3. CASE stepOrder' # stepOrder
      <4>1. /\ q.step \in StepRows /\ q.order # None
            /\ OrderAccepted(q.workflow, q.step, q.order)
            /\ stepOrder' = [stepOrder EXCEPT ![q.step] = q.order]
        BY <2>5, <3>3 DEF UpdateStepWrite
      <4>2. q.step \in Steps /\ q.workflow = workflowOf[q.step]
        BY <2>5, <4>1 DEF UpdateStepWrite, PatchOwned, WasIn, StepRows
      <4>3. q.workflow \in Workflows /\ q.order \in Nat
        BY <4>1, <4>2 DEF TypeInv, TypeOK, Request, StepRows
      <4>4. workflowOf' = [workflowOf EXCEPT ![q.step] = q.workflow]
        BY <3>1, <4>2 DEF TypeInv, TypeOK
      <4> HIDE DEF q
      <4>5. QED BY <4>1, <4>2, <4>3, <4>4, AcceptedOrderIsKept
    <3>4. QED BY <3>2, <3>3
  <2>6. ASSUME NEW r \in Requests, RequestStep(r), ~UpdateStepWrite(r),
               \A s \in Steps : ~InsertStep(r, s)
        PROVE  workflowOf' = workflowOf /\ stepOrder' = stepOrder
    <3>1. UpdateWrite(r) \/ SetEntry(r) \/ AddEdgeInsert(r)
          => workflowOf' = workflowOf /\ stepOrder' = stepOrder
      BY DEF UpdateWrite, SetEntry, AddEdgeInsert
    <3>2. UNCHANGED tables => workflowOf' = workflowOf /\ stepOrder' = stepOrder
      BY DEF tables
    <3>3. QED
      BY <2>6, <3>1, <3>2 DEF RequestStep, UpdateCheckEntry, AddStepRead,
         NextStepOrder, InsertStepFails, UpdateStepRead, AddEdgeCheckSteps,
         AddEdgeCanReach, Abort
  <2>7. ASSUME NEW w \in Workflows, Create(w) \/ UpdateClearEntry(w)
        PROVE  workflowOf' = workflowOf /\ stepOrder' = stepOrder
    BY <2>7 DEF Create, UpdateClearEntry
  <2>8. ASSUME NEW e \in edges, RemoveEdge(e)
        PROVE  workflowOf' = workflowOf /\ stepOrder' = stepOrder
    BY <2>8 DEF RemoveEdge
  <2>9. UNCHANGED vars => workflowOf' = workflowOf /\ stepOrder' = stepOrder
    BY DEF vars, tables
  <2>10. QED
    BY <2>1, <2>2, <2>3, <2>4, <2>5, <2>6, <2>7, <2>8, <2>9 DEF Next
<1>3. QED BY <1>1, <1>2 DEF OrderInv

\* No two steps of a workflow ever have the same order, and none has one past
\* the last of the column, however requests overlap between the statement that
\* finds an order and the one that stores it.
THEOREM StepOrdersKept == Spec => []StepOrdersAreKept
<1>1. Init => OrderInv
  BY DEF Init, OrderInv, PatchOwned, Idle, StepOrdersAreKept, StepRows
<1>2. TypeInv /\ TypeInv' /\ Ownership /\ OrderInv /\ [Next]_vars => OrderInv'
  BY OrderStep
<1>3. OrderInv => StepOrdersAreKept
  BY DEF OrderInv
<1>4. QED BY <1>1, <1>2, <1>3, OwnershipInv, PTL DEF Spec

----------------------------------------------------------------------------
\* Without overlapping addEdge requests on one workflow.

LEMMA SerialImpliesSpec == SerialSpec => Spec
<1>1. [Next /\ EdgeWritesSerial']_vars => [Next]_vars OBVIOUS
<1>2. QED BY <1>1, PTL DEF SerialSpec, Spec

\* A workflow's edges are the only ones out of its steps, so a cycle check
\* over them is a check over the whole table.
LEMMA OwnEdgesSuffice ==
    ASSUME TypeInv, Ownership, NEW w \in Workflows,
           NEW a \in StepsOf(w), NEW b,
           ~Reachable(Steps, Arcs(EdgesOf(w)), a, b)
    PROVE  ~Reachable(Steps, Arcs(edges), a, b)
<1>1. StepsOf(w) \in SUBSET Steps BY DEF StepsOf
<1>2. ASSUME NEW e \in Arcs(edges), e[1] \in StepsOf(w)
      PROVE  e \in Arcs(EdgesOf(w)) /\ e[2] \in StepsOf(w)
  <2>1. PICK f \in edges : e = <<f.from, f.to>> BY <1>2 DEF Arcs
  <2>2. f \in EdgesOf(w) /\ f.to \in StepsOf(w)
    BY <1>2, <2>1 DEF TypeInv, TypeOK, Edge, Ownership, EdgesWithinWorkflow,
       EdgesOf, StepsOf
  <2>3. QED BY <2>1, <2>2 DEF Arcs
<1>3. QED BY <1>1, <1>2, ReachableWithin

\* Only addEdge's INSERT adds an edge.
LEMMA OthersShrink ==
    ASSUME [Next]_vars, \A r \in Requests : ~AddEdgeInsert(r)
    PROVE  edges' \subseteq edges
<1>1. ASSUME NEW w \in Workflows, Create(w) \/ Remove(w) \/ UpdateClearEntry(w)
      PROVE  edges' \subseteq edges
  BY <1>1 DEF Create, Remove, UpdateClearEntry, DeleteSteps
<1>2. ASSUME NEW s \in Steps, RemoveStep(s) PROVE edges' \subseteq edges
  BY <1>2 DEF RemoveStep, DeleteSteps
<1>3. ASSUME NEW e \in edges, RemoveEdge(e) PROVE edges' \subseteq edges
  BY <1>3 DEF RemoveEdge
<1>4. ASSUME NEW r \in Requests, RequestStep(r) PROVE edges' = edges
  <2>1. UpdateWrite(r) \/ SetEntry(r) \/ UpdateStepWrite(r) => edges' = edges
    BY DEF UpdateWrite, SetEntry, UpdateStepWrite
  <2>2. \A s \in Steps : InsertStep(r, s) => edges' = edges
    BY DEF InsertStep
  <2>3. UNCHANGED tables => edges' = edges BY DEF tables
  <2>4. QED
    BY <1>4, <2>1, <2>2, <2>3 DEF RequestStep, UpdateCheckEntry, AddStepRead,
       NextStepOrder, InsertStepFails, UpdateStepRead, AddEdgeCheckSteps,
       AddEdgeCanReach, Abort
<1>5. QED BY <1>1, <1>2, <1>3, <1>4 DEF Next, vars, tables

\* Only addStep's INSERT adds a step.
LEMMA OthersRemoveSteps ==
    ASSUME [Next]_vars, TypeInv,
           \A r \in Requests, s \in Steps : ~InsertStep(r, s)
    PROVE  StepRows' \subseteq StepRows
<1> USE DEF TypeInv, TypeOK
<1>1. ASSUME NEW gone, DeleteSteps(gone) PROVE StepRows' \subseteq StepRows
  BY <1>1 DEF DeleteSteps, StepRows
<1>2. workflowOf' = workflowOf => StepRows' \subseteq StepRows
  BY DEF StepRows
<1>3. ASSUME NEW w \in Workflows, Create(w) \/ Remove(w) \/ UpdateClearEntry(w)
      PROVE  StepRows' \subseteq StepRows
  BY <1>1, <1>2, <1>3 DEF Create, Remove, UpdateClearEntry
<1>4. ASSUME NEW r \in Requests, RequestStep(r) PROVE workflowOf' = workflowOf
  BY <1>4, RequestsKeepSteps
<1>5. QED
  BY <1>1, <1>2, <1>3, <1>4 DEF Next, vars, tables, RemoveStep, RemoveEdge

\* A request enters its INSERT only through canReach's answer "no".
LEMMA InsertEdgeEntry ==
    ASSUME TypeInv, [Next]_vars, NEW r \in Requests,
           request'[r].pc = "insertEdge"
    PROVE  \/ request'[r] = request[r]
           \/ /\ AddEdgeCanReach(r)
              /\ request'[r] = [request[r] EXCEPT !.pc = "insertEdge"]
              /\ ~Reachable(Steps, Arcs(EdgesOf(request[r].workflow)),
                            request[r].to, request[r].step)
<1> USE DEF TypeInv, TypeOK
<1>1. CASE request' = request BY <1>1
<1>2. ASSUME NEW q \in Requests, RequestStep(q), q # r
      PROVE  request'[r] = request[r]
  BY <1>2 DEF RequestStep, UpdateCheckEntry, UpdateWrite, AddStepRead,
     NextStepOrder, InsertStep, InsertStepFails, SetEntry, UpdateStepRead,
     UpdateStepWrite, AddEdgeCheckSteps, AddEdgeCanReach, AddEdgeInsert, Abort
<1>3. CASE RequestStep(r)
  <2>1. CASE AddEdgeCanReach(r)
    BY <2>1 DEF AddEdgeCanReach, Idle
  <2>2. CASE ~AddEdgeCanReach(r)
    <3> SUFFICES request'[r].pc # "insertEdge" OBVIOUS
    <3>1. \A w \in Workflows, s \in Steps :
             UpdateCheckEntry(r, w, s) => request'[r].pc = "updateWorkflow"
      BY DEF UpdateCheckEntry, Idle
    <3>2. \/ UpdateWrite(r) \/ InsertStepFails(r) \/ SetEntry(r)
          \/ UpdateStepWrite(r) \/ AddEdgeInsert(r) \/ Abort(r)
          => request'[r].pc = "idle"
      BY DEF UpdateWrite, InsertStepFails, SetEntry, UpdateStepWrite,
         AddEdgeInsert, Abort, Idle
    <3>3. \A w \in Workflows, t \in StepTypes, n \in GivenOrders \cup {None} :
             AddStepRead(r, w, t, n) =>
               request'[r].pc \in {"nextStepOrder", "insertStep"}
      BY DEF AddStepRead, Idle
    <3>4. NextStepOrder(r) => request'[r].pc = "insertStep"
      BY DEF NextStepOrder, Request
    <3>5. \A s \in Steps :
             InsertStep(r, s) => request'[r].pc \in {"setEntry", "idle"}
      BY DEF InsertStep, Idle
    <3>6. \A s \in Steps, t \in StepTypes \cup {None}, hasConfig \in BOOLEAN,
             n \in GivenOrders \cup {None} :
             UpdateStepRead(r, s, t, hasConfig, n) =>
               request'[r].pc = "updateStep"
      BY DEF UpdateStepRead, Idle
    <3>7. \A w \in Workflows, a, b \in Steps, branch \in Branches :
             AddEdgeCheckSteps(r, w, a, b, branch) => request'[r].pc = "canReach"
      BY DEF AddEdgeCheckSteps, Idle
    <3>8. QED
      BY <1>3, <2>2, <3>1, <3>2, <3>3, <3>4, <3>5, <3>6, <3>7 DEF RequestStep
  <2>3. QED BY <2>1, <2>2
<1>4. QED
  BY <1>1, <1>2, <1>3 DEF Next, vars, Create, Remove, UpdateClearEntry,
     RemoveStep, RemoveEdge

\* The edge a request inserts closes no cycle in the graph of that instant.
LEMMA InsertClosesNoCycle ==
    ASSUME TypeInv, Ownership, CheckStillHolds, NEW r \in Requests,
           AddEdgeInsert(r), edges' # edges
    PROVE  LET a == request[r].step
               b == request[r].to
           IN  /\ a \in StepRows /\ b \in StepRows
               /\ ~Reachable(Steps, Arcs(edges), b, a)
               /\ Arcs(edges') = Arcs(edges) \cup {<<a, b>>}
<1> DEFINE w == request[r].workflow
           a == request[r].step
           b == request[r].to
<1>1. a \in StepRows /\ b \in StepRows
  BY DEF AddEdgeInsert
<1>2. w \in Workflows /\ b \in StepsOf(w)
  BY <1>1 DEF AddEdgeInsert, StepRows, StepsOf, TypeInv, RequestTyped, Ownership,
     RequestOwned, WasIn
<1>3. ~Reachable(Steps, Arcs(EdgesOf(w)), b, a)
  BY DEF CheckStillHolds, AddEdgeInsert
<1>4. ~Reachable(Steps, Arcs(edges), b, a)
  BY <1>2, <1>3, OwnEdgesSuffice
<1>5. Arcs(edges') = Arcs(edges) \cup {<<a, b>>}
  BY DEF AddEdgeInsert, Arcs
<1>6. QED BY <1>1, <1>4, <1>5

LEMMA SerialStep ==
    ASSUME TypeInv, Ownership, SerialInv, [Next /\ EdgeWritesSerial']_vars
    PROVE  SerialInv'
<1>1. EdgeWritesSerial'
  BY DEF SerialInv, vars, EdgeWritesSerial
<1>2. [Next]_vars OBVIOUS
<1>3. ASSUME NEW r \in Requests, AddEdgeInsert(r) PROVE SerialInv'
  <2>1. NoCycle'
    <3>1. CASE edges' = edges BY <3>1 DEF SerialInv, NoCycle
    <3>2. CASE edges' # edges
      <4>1. request[r].step \in Steps /\ request[r].to \in Steps
        BY <1>3, <3>2, InsertClosesNoCycle DEF SerialInv, StepRows
      <4>2. Acyclic(Steps, Arcs(edges) \cup {<<request[r].step, request[r].to>>})
        BY <1>3, <3>2, <4>1, InsertClosesNoCycle, AcyclicAdd DEF SerialInv, NoCycle
      <4>3. QED BY <1>3, <3>2, <4>2, InsertClosesNoCycle DEF SerialInv, NoCycle
    <3>3. QED BY <3>1, <3>2
  <2>2. ASSUME NEW q \in Requests, request'[q].pc = "insertEdge"
        PROVE  /\ request'[q] = request[q]
               /\ EdgesOf(request[q].workflow)' = EdgesOf(request[q].workflow)
    <3>1. q # r /\ request'[q] = request[q]
      BY <1>3, <2>2 DEF AddEdgeInsert, Idle, TypeInv, TypeOK
    <3>2. request[q].workflow # request[r].workflow
      BY <1>3, <2>2, <3>1 DEF AddEdgeInsert, SerialInv, EdgeWritesSerial
    <3>3. EdgesOf(request[q].workflow)' = EdgesOf(request[q].workflow)
      BY <1>3, <3>1, <3>2 DEF AddEdgeInsert, EdgesOf
    <3>4. QED BY <3>1, <3>3
  <2>3. CheckStillHolds'
    <3> SUFFICES ASSUME NEW q \in Requests, request'[q].pc = "insertEdge"
                 PROVE  ~Reachable(Steps, Arcs(EdgesOf(request[q].workflow)'),
                                   request[q].to, request[q].step)
      BY <2>2 DEF CheckStillHolds, EdgesOf, Arcs
    <3>1. QED BY <2>2 DEF SerialInv, CheckStillHolds
  <2>4. QED BY <1>1, <2>1, <2>3 DEF SerialInv
<1>4. CASE \A r \in Requests : ~AddEdgeInsert(r)
  <2>1. edges' \subseteq edges BY <1>2, <1>4, OthersShrink
  <2>2. NoCycle'
    <3>1. Arcs(edges') \in SUBSET Arcs(edges) BY <2>1 DEF Arcs
    <3>2. QED BY <3>1, AcyclicShrinks DEF SerialInv, NoCycle
  <2>3. ASSUME NEW q \in Requests, request'[q].pc = "insertEdge"
        PROVE  ~Reachable(Steps, Arcs(EdgesOf(request[q].workflow)'),
                          request'[q].to, request'[q].step)
               /\ request'[q].workflow = request[q].workflow
    <3>1. /\ request'[q].workflow = request[q].workflow
          /\ request'[q].to = request[q].to
          /\ request'[q].step = request[q].step
          /\ ~Reachable(Steps, Arcs(EdgesOf(request[q].workflow)),
                        request[q].to, request[q].step)
      <4>1. CASE request'[q] = request[q]
        BY <2>3, <4>1 DEF SerialInv, CheckStillHolds
      <4>2. CASE /\ request'[q] = [request[q] EXCEPT !.pc = "insertEdge"]
                 /\ ~Reachable(Steps, Arcs(EdgesOf(request[q].workflow)),
                               request[q].to, request[q].step)
        BY <4>2 DEF TypeInv, TypeOK, Request
      <4>3. QED BY <1>2, <2>3, <4>1, <4>2, InsertEdgeEntry
    <3>2. Arcs(EdgesOf(request[q].workflow)')
             \in SUBSET Arcs(EdgesOf(request[q].workflow))
      BY <2>1, <3>1 DEF Arcs, EdgesOf
    <3>3. QED BY <3>1, <3>2, ReachableShrinks
  <2>4. CheckStillHolds'
    BY <2>3 DEF CheckStillHolds, EdgesOf, Arcs
  <2>5. QED BY <1>1, <2>2, <2>4 DEF SerialInv
<1>5. QED BY <1>3, <1>4

LEMMA SerialInvariant == SerialSpec => [](TypeInv /\ Ownership /\ SerialInv)
<1>1. Init => SerialInv
  BY DEF Init, SerialInv, CheckStillHolds, NoCycle, EdgeWritesSerial, Idle,
     Acyclic, Arcs
<1>2. TypeInv /\ Ownership /\ SerialInv /\ [Next /\ EdgeWritesSerial']_vars
      => SerialInv'
  BY SerialStep
<1>3. QED BY <1>1, <1>2, SerialImpliesSpec, OwnershipInv, PTL DEF SerialSpec

\* While the addEdge requests of each workflow do not overlap, no workflow's
\* graph ever has a cycle, whatever else is edited or deleted meanwhile.
THEOREM SerialEditsMakeNoCycle == SerialSpec => []NoCycle
<1>1. SerialInv => NoCycle BY DEF SerialInv
<1>2. QED BY <1>1, SerialInvariant, PTL

\* Under the same assumption the three tables implement the abstract graph.
THEOREM SerialEditsImplementStepGraph == SerialSpec => ImplementsStepGraph
<1>1. Init => Abstract!Init
  BY NoneIsNotAnId DEF Init, Abstract!Init, StepRows, Arcs
<1>2. ASSUME TypeInv, TypeInv', Ownership, Ownership', SerialInv, [Next]_vars
      PROVE  [Abstract!Next]_(Abstract!vars)
  <2>1. ASSUME NEW r \in Requests, AddEdgeInsert(r)
        PROVE  [Abstract!Next]_(Abstract!vars)
    <3>1. StepRows' = StepRows BY <2>1 DEF AddEdgeInsert, StepRows
    <3>2. CASE edges' = edges
      BY <3>1, <3>2 DEF Abstract!vars, Arcs
    <3>3. CASE edges' # edges
      <4>1. Abstract!Connect(request[r].step, request[r].to)
        <5>1. ~Abstract!Reachable(Steps, Arcs(edges), request[r].to, request[r].step)
          BY <1>2, <2>1, <3>3, InsertClosesNoCycle
             DEF SerialInv, Reachable, Closed, Abstract!Reachable, Abstract!Closed
        <5>2. QED
          BY <1>2, <2>1, <3>1, <3>3, <5>1, InsertClosesNoCycle
             DEF Abstract!Connect, SerialInv, Arcs
      <4>2. request[r].step \in Steps /\ request[r].to \in Steps
        BY <1>2, <2>1, <3>3, InsertClosesNoCycle DEF SerialInv, StepRows
      <4>3. QED BY <4>1, <4>2 DEF Abstract!Next
    <3>4. QED BY <3>2, <3>3
  <2>2. ASSUME NEW r \in Requests, NEW s \in Steps, InsertStep(r, s)
        PROVE  [Abstract!Next]_(Abstract!vars)
    <3>1. s \notin StepRows
      BY <1>2, <2>2 DEF InsertStep, Ownership, RowsOwned, StepRows
    <3>2. request[r].workflow # None
      BY <1>2, <2>2, NoneIsNotAnId DEF InsertStep, TypeInv, RequestTyped
    <3>3. StepRows' = StepRows \cup {s}
      BY <1>2, <2>2, <3>2 DEF InsertStep, StepRows, TypeInv, TypeOK
    <3>4. Abstract!AddNode(s)
      BY <2>2, <3>1, <3>3 DEF Abstract!AddNode, InsertStep, Arcs
    <3>5. QED BY <3>4 DEF Abstract!Next
  <2>3. CASE /\ \A r \in Requests : ~AddEdgeInsert(r)
             /\ \A r \in Requests, s \in Steps : ~InsertStep(r, s)
    <3>1. Arcs(edges') \subseteq Arcs(edges)
      BY <1>2, <2>3, OthersShrink DEF Arcs
    <3>2. Arcs(edges') \subseteq StepRows' \X StepRows'
      BY <1>2, NoneIsNotAnId DEF Arcs, Ownership, EdgesWithinWorkflow, StepRows, TypeInv,
         TypeOK, Edge
    <3>3. StepRows' \subseteq StepRows
      BY <1>2, <2>3, OthersRemoveSteps
    <3>4. Abstract!Shrink
      BY <3>1, <3>2, <3>3 DEF Abstract!Shrink, Arcs
    <3>5. QED BY <3>4 DEF Abstract!Next
  <2>4. QED BY <2>1, <2>2, <2>3
<1>3. [Next /\ EdgeWritesSerial']_vars => [Next]_vars OBVIOUS
<1>4. QED
  BY <1>1, <1>2, <1>3, SerialInvariant, PTL
     DEF SerialSpec, ImplementsStepGraph, Abstract!Spec

----------------------------------------------------------------------------
\* The abstract graph itself, and what the editor inherits from it.

\* Arcs of the abstract graph only ever join existing steps.
THEOREM StepGraphTypeOK == Abstract!Spec => []Abstract!TypeOK
<1>1. Abstract!Init => Abstract!TypeOK
  BY DEF Abstract!Init, Abstract!TypeOK
<1>2. Abstract!TypeOK /\ [Abstract!Next]_(Abstract!vars) => Abstract!TypeOK'
  BY DEF Abstract!TypeOK, Abstract!Next, Abstract!AddNode, Abstract!Connect,
     Abstract!Shrink, Abstract!vars
<1>3. QED BY <1>1, <1>2, PTL DEF Abstract!Spec

\* No sequence of atomic edits makes a cycle.
THEOREM StepGraphNoCycle == Abstract!Spec => []Abstract!NoCycle
<1> USE DEF Abstract!NoCycle, Abstract!Acyclic, Acyclic, Abstract!Reachable,
            Reachable, Abstract!Closed, Closed
<1>1. Abstract!Init => Abstract!NoCycle
  BY DEF Abstract!Init
<1>2. Abstract!NoCycle /\ [Abstract!Next]_(Abstract!vars) => Abstract!NoCycle'
  <2> SUFFICES ASSUME Abstract!NoCycle, [Abstract!Next]_(Abstract!vars)
               PROVE  Abstract!NoCycle'
    OBVIOUS
  <2>1. CASE \E n \in Steps : Abstract!AddNode(n)
    BY <2>1 DEF Abstract!AddNode
  <2>2. ASSUME NEW a \in Steps, NEW b \in Steps, Abstract!Connect(a, b)
        PROVE  Abstract!NoCycle'
    <3> HIDE DEF Abstract!NoCycle
    <3>1. Acyclic(Steps, Arcs(edges) \cup {<<a, b>>})
      <4>1. Acyclic(Steps, Arcs(edges)) BY DEF Abstract!NoCycle
      <4>2. ~Reachable(Steps, Arcs(edges), b, a) BY <2>2 DEF Abstract!Connect
      <4> HIDE DEF Acyclic, Reachable
      <4>3. QED BY <4>1, <4>2, AcyclicAdd
    <3>2. Arcs(edges)' = Arcs(edges) \cup {<<a, b>>}
      BY <2>2 DEF Abstract!Connect
    <3>3. QED BY <3>1, <3>2 DEF Abstract!NoCycle
  <2>3. CASE Abstract!Shrink
    <3>1. Arcs(edges)' \in SUBSET Arcs(edges) BY <2>3 DEF Abstract!Shrink
    <3>2. Acyclic(Steps, Arcs(edges)) OBVIOUS
    <3>3. Acyclic(Steps, Arcs(edges)')
      <4> HIDE DEF Acyclic
      <4>1. QED BY <3>1, <3>2, AcyclicShrinks
    <3>4. QED BY <3>3
  <2>4. CASE UNCHANGED Abstract!vars
    BY <2>4 DEF Abstract!vars
  <2>5. QED BY <2>1, <2>2, <2>3, <2>4 DEF Abstract!Next
<1>3. QED BY <1>1, <1>2, PTL DEF Abstract!Spec

==============================================================================
