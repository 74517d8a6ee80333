---------------------------- MODULE WorkflowGraph ----------------------------
(***************************************************************************)
(* WorkflowsService and the handlers of WorkflowsController that edit a    *)
(* workflow: the tables workflows, workflow_steps and workflow_step_edges, *)
(* and HTTP requests that run concurrently.  A request awaits its SQL      *)
(* statements one by one and holds no transaction, so requests interleave  *)
(* between any two statements; one statement, with the foreign keys,       *)
(* unique constraints and cascades Postgres applies to it, is one action.  *)
(*                                                                         *)
(* A read whose answer is implied by the guard of the statement after it   *)
(* is merged into that statement: rows only disappear, and ids are random  *)
(* and never reused, so "the workflow exists" needs no action of its own   *)
(* where the next statement matches no row of a deleted workflow anyway.   *)
(* Organizations are abstracted: an id of another organization behaves as  *)
(* an id that does not exist.                                              *)
(***************************************************************************)
EXTENDS Integers, FiniteSets, Reachability

CONSTANTS
    Workflows,      \* ids of workflows
    Steps,          \* ids of steps
    Branches,       \* edge labels
    StepTypes,      \* 'agent' | 'tool' | 'condition'
    GivenOrders,    \* the values a client may send as stepOrder
    MaxStepOrder,   \* the largest value of the integer column step_order
    Requests,       \* HTTP requests in flight at once
    None            \* null, or a field a request does not use

ASSUME NoneIsNotAnId ==
    None \notin Workflows \cup Steps \cup Branches \cup StepTypes \cup Nat
ASSUME OrdersAreNaturals == GivenOrders \subseteq Nat /\ MaxStepOrder \in Nat

VARIABLES
    workflows,      \* ids of the rows of workflows
    usedWorkflows,  \* workflow ids ever handed out
    entryStepId,    \* workflows.entry_step_id
    workflowOf,     \* workflow_steps.workflow_id; None where there is no row
    usedSteps,      \* step ids ever handed out
    stepOrder,      \* workflow_steps.step_order
    stepType,       \* workflow_steps.type
    configType,     \* the type workflow_steps.config was validated against
    edges,          \* rows of workflow_step_edges, less their ids
    request         \* what each request does next, and its local variables

tables == <<workflows, usedWorkflows, entryStepId, workflowOf, usedSteps,
            stepOrder, stepType, configType, edges>>
vars == <<tables, request>>

Edge == [workflow : Workflows, from : Steps, to : Steps, branch : Branches]

\* Where a request stands: the statement it issues next.
PC == {"idle", "nextStepOrder", "insertStep", "setEntry", "updateWorkflow",
       "updateStep", "canReach", "insertEdge"}

Request ==
    [pc : PC, workflow : Workflows \cup {None}, step : Steps \cup {None},
     to : Steps \cup {None}, branch : Branches \cup {None},
     order : Nat \cup {None}, type : StepTypes \cup {None},
     config : StepTypes \cup {None}, isFirstStep : BOOLEAN]

Idle == [pc |-> "idle", workflow |-> None, step |-> None, to |-> None,
         branch |-> None, order |-> None, type |-> None, config |-> None,
         isFirstStep |-> FALSE]

StepRows == {s \in Steps : workflowOf[s] # None}
StepsOf(w) == {s \in Steps : workflowOf[s] = w}
Arcs(es) == {<<e.from, e.to>> : e \in es}
EdgesOf(w) == {e \in edges : e.workflow = w}

Init ==
    /\ workflows = {} /\ usedWorkflows = {}
    /\ entryStepId = [w \in Workflows |-> None]
    /\ workflowOf = [s \in Steps |-> None] /\ usedSteps = {}
    /\ stepOrder = [s \in Steps |-> 0]
    /\ stepType = [s \in Steps |-> None]
    /\ configType = [s \in Steps |-> None]
    /\ edges = {}
    /\ request = [r \in Requests |-> Idle]

----------------------------------------------------------------------------
\* What the schema does on a write.

\* Mutant of OrderAccepted: the table has no unique constraint.
OrderAcceptedTwice(w, s, n) == n <= MaxStepOrder

\* Mutant of OrderAccepted: the column holds any number.
OrderAcceptedBeyond(w, s, n) == \A t \in StepsOf(w) \ {s} : stepOrder[t] # n

\* A value the unique constraint (workflow_id, step_order) and the integer
\* column accept for step s of workflow w.
OrderAccepted(w, s, n) ==
    n <= MaxStepOrder /\ \A t \in StepsOf(w) \ {s} : stepOrder[t] # n

\* Mutant of DeleteSteps: only from_step_id cascades.
DeleteStepsKeepsIncoming(gone) ==
    /\ workflowOf' = [s \in Steps |-> IF s \in gone THEN None ELSE workflowOf[s]]
    /\ edges' = {e \in edges : e.from \notin gone}
    /\ UNCHANGED <<stepOrder, stepType, configType>>

\* Deleting steps takes their edges with them and clears entry pointers.
DeleteSteps(gone) ==
    /\ workflowOf' = [s \in Steps |-> IF s \in gone THEN None ELSE workflowOf[s]]
    /\ stepOrder' = [s \in Steps |-> IF s \in gone THEN 0 ELSE stepOrder[s]]
    /\ stepType' = [s \in Steps |-> IF s \in gone THEN None ELSE stepType[s]]
    /\ configType' = [s \in Steps |-> IF s \in gone THEN None ELSE configType[s]]
    /\ edges' = {e \in edges : e.from \notin gone /\ e.to \notin gone}

ClearEntry(gone) ==
    [w \in Workflows |-> IF entryStepId[w] \in gone THEN None ELSE entryStepId[w]]

----------------------------------------------------------------------------
\* WorkflowsService.create: one INSERT with a fresh id.
Create(w) ==
    /\ w \notin usedWorkflows
    /\ workflows' = workflows \cup {w}
    /\ usedWorkflows' = usedWorkflows \cup {w}
    /\ UNCHANGED <<entryStepId, workflowOf, usedSteps, stepOrder, stepType,
                   configType, edges, request>>

\* remove: one DELETE, cascading to steps and edges.
Remove(w) ==
    /\ w \in workflows
    /\ workflows' = workflows \ {w}
    /\ DeleteSteps(StepsOf(w))
    /\ entryStepId' = [ClearEntry(StepsOf(w)) EXCEPT ![w] = None]
    /\ UNCHANGED <<usedWorkflows, usedSteps, request>>

\* Mutant of UpdateCheckEntry: any existing step will do.
UpdateCheckEntryUnowned(r, w, s) ==
    /\ request[r] = Idle
    /\ w \in workflows /\ s \in StepRows
    /\ request' = [request EXCEPT ![r] =
         [Idle EXCEPT !.pc = "updateWorkflow", !.workflow = w, !.step = s]]
    /\ UNCHANGED tables

\* update with an entryStepId: getStep must find it in this workflow first.
UpdateCheckEntry(r, w, s) ==
    /\ request[r] = Idle
    /\ workflowOf[s] = w
    /\ request' = [request EXCEPT ![r] =
         [Idle EXCEPT !.pc = "updateWorkflow", !.workflow = w, !.step = s]]
    /\ UNCHANGED tables

\* The UPDATE: no row matches once the workflow is gone, and the foreign key
\* rejects it once the step is gone.
UpdateWrite(r) ==
    LET w == request[r].workflow
        s == request[r].step
    IN  /\ request[r].pc = "updateWorkflow"
        /\ entryStepId' = IF w \in workflows /\ s \in StepRows
                          THEN [entryStepId EXCEPT ![w] = s]
                          ELSE entryStepId
        /\ request' = [request EXCEPT ![r] = Idle]
        /\ UNCHANGED <<workflows, usedWorkflows, workflowOf, usedSteps,
                       stepOrder, stepType, configType, edges>>

\* update with entryStepId null, which @IsOptional lets through: no check,
\* the UPDATE clears the pointer.
UpdateClearEntry(w) ==
    /\ w \in workflows
    /\ entryStepId' = [entryStepId EXCEPT ![w] = None]
    /\ UNCHANGED <<workflows, usedWorkflows, workflowOf, usedSteps, stepOrder,
                   stepType, configType, edges, request>>

\* addStep: findOne reads the entry pointer, and decides isFirstStep by it.
\* The controller has validated the config against the type.
AddStepRead(r, w, t, n) ==
    /\ request[r] = Idle
    /\ w \in workflows
    /\ request' = [request EXCEPT ![r] =
         [Idle EXCEPT !.pc = IF n = None THEN "nextStepOrder" ELSE "insertStep",
                      !.workflow = w, !.type = t, !.order = n,
                      !.isFirstStep = (entryStepId[w] = None)]]
    /\ UNCHANGED tables

\* nextStepOrder: SELECT max(step_order), plus one; -1 plus one for no steps.
IsNextStepOrder(w, n) ==
    /\ \A s \in StepsOf(w) : stepOrder[s] < n
    /\ n = 0 \/ \E s \in StepsOf(w) : n = stepOrder[s] + 1

\* Mutant of NextStepOrder: the "+ 1" is lost, so an empty workflow gives -1.
NextStepOrderUnadvanced(r) ==
    /\ request[r].pc = "nextStepOrder"
    /\ \E n \in -1..MaxStepOrder :
         /\ IsNextStepOrder(request[r].workflow, n + 1)
         /\ request' = [request EXCEPT ![r] =
              [request[r] EXCEPT !.pc = "insertStep", !.order = n]]
    /\ UNCHANGED tables

NextStepOrder(r) ==
    /\ request[r].pc = "nextStepOrder"
    /\ \E n \in 0..(MaxStepOrder + 1) :
         /\ IsNextStepOrder(request[r].workflow, n)
         /\ request' = [request EXCEPT ![r] =
              [request[r] EXCEPT !.pc = "insertStep", !.order = n]]
    /\ UNCHANGED tables

\* The INSERT of the step; a request that saw no entry then sets it.
InsertStep(r, s) ==
    LET q == request[r]
    IN  /\ q.pc = "insertStep"
        /\ s \notin usedSteps
        /\ q.workflow \in workflows
        /\ OrderAccepted(q.workflow, s, q.order)
        /\ usedSteps' = usedSteps \cup {s}
        /\ workflowOf' = [workflowOf EXCEPT ![s] = q.workflow]
        /\ stepOrder' = [stepOrder EXCEPT ![s] = q.order]
        /\ stepType' = [stepType EXCEPT ![s] = q.type]
        /\ configType' = [configType EXCEPT ![s] = q.type]
        /\ request' = [request EXCEPT ![r] =
             IF q.isFirstStep
             THEN [Idle EXCEPT !.pc = "setEntry", !.workflow = q.workflow,
                               !.step = s]
             ELSE Idle]
        /\ UNCHANGED <<workflows, usedWorkflows, entryStepId, edges>>

\* The INSERT violates the foreign key, the unique constraint or the range of
\* the column: the request fails and nothing is written.
InsertStepFails(r) ==
    /\ request[r].pc = "insertStep"
    /\ \/ request[r].workflow \notin workflows
       \/ \E s \in Steps \ usedSteps :
            ~OrderAccepted(request[r].workflow, s, request[r].order)
    /\ request' = [request EXCEPT ![r] = Idle]
    /\ UNCHANGED tables

\* addStep's second write, by workflow id only.
SetEntry(r) ==
    LET w == request[r].workflow
        s == request[r].step
    IN  /\ request[r].pc = "setEntry"
        /\ entryStepId' = IF w \in workflows /\ s \in StepRows
                          THEN [entryStepId EXCEPT ![w] = s]
                          ELSE entryStepId
        /\ request' = [request EXCEPT ![r] = Idle]
        /\ UNCHANGED <<workflows, usedWorkflows, workflowOf, usedSteps,
                       stepOrder, stepType, configType, edges>>

\* PATCH of a step: the controller reads the existing row, and validates a
\* config it was sent against the new type or, without one, the type it read.
UpdateStepRead(r, s, t, hasConfig, n) ==
    /\ request[r] = Idle
    /\ s \in StepRows
    /\ request' = [request EXCEPT ![r] =
         [Idle EXCEPT !.pc = "updateStep", !.workflow = workflowOf[s],
                      !.step = s, !.type = t, !.order = n,
                      !.config = IF ~hasConfig THEN None
                                 ELSE IF t = None THEN stepType[s] ELSE t]]
    /\ UNCHANGED tables

\* The UPDATE writes the columns the request holds, all or none of them.
UpdateStepWrite(r) ==
    LET q == request[r]
        s == q.step
        accepted == /\ s \in StepRows
                    /\ q.order = None \/ OrderAccepted(q.workflow, s, q.order)
        Write(column, value) ==
            IF accepted /\ value # None
            THEN [column EXCEPT ![s] = value] ELSE column
    IN  /\ q.pc = "updateStep"
        /\ stepOrder' = Write(stepOrder, q.order)
        /\ stepType' = Write(stepType, q.type)
        /\ configType' = Write(configType, q.config)
        /\ request' = [request EXCEPT ![r] = Idle]
        /\ UNCHANGED <<workflows, usedWorkflows, entryStepId, workflowOf,
                       usedSteps, edges>>

\* removeStep: one DELETE that matters, cascading to edges and entry pointers.
RemoveStep(s) ==
    /\ s \in StepRows
    /\ DeleteSteps({s})
    /\ entryStepId' = ClearEntry({s})
    /\ UNCHANGED <<workflows, usedWorkflows, usedSteps, request>>

\* Mutant of AddEdgeCheckSteps: only the from-step is looked up in the workflow.
AddEdgeCheckFromStep(r, w, a, b, branch) ==
    /\ request[r] = Idle
    /\ a # b
    /\ workflowOf[a] = w /\ b \in StepRows
    /\ request' = [request EXCEPT ![r] =
         [Idle EXCEPT !.pc = "canReach", !.workflow = w, !.step = a, !.to = b,
                      !.branch = branch]]
    /\ UNCHANGED tables

\* addEdge: both steps must be found in the workflow, and differ.
AddEdgeCheckSteps(r, w, a, b, branch) ==
    /\ request[r] = Idle
    /\ a # b
    /\ workflowOf[a] = w /\ workflowOf[b] = w
    /\ request' = [request EXCEPT ![r] =
         [Idle EXCEPT !.pc = "canReach", !.workflow = w, !.step = a, !.to = b,
                      !.branch = branch]]
    /\ UNCHANGED tables

\* Mutant of AddEdgeCanReach: the two steps swapped.
AddEdgeCanReachSwapped(r) ==
    LET q == request[r]
        wouldCycle == Reachable(Steps, Arcs(EdgesOf(q.workflow)), q.step, q.to)
    IN  /\ q.pc = "canReach"
        /\ request' = [request EXCEPT ![r] =
             IF wouldCycle THEN Idle ELSE [q EXCEPT !.pc = "insertEdge"]]
        /\ UNCHANGED tables

\* canReach reads the workflow's edges once and walks them in memory.
AddEdgeCanReach(r) ==
    LET q == request[r]
        wouldCycle == Reachable(Steps, Arcs(EdgesOf(q.workflow)), q.to, q.step)
    IN  /\ q.pc = "canReach"
        /\ request' = [request EXCEPT ![r] =
             IF wouldCycle THEN Idle ELSE [q EXCEPT !.pc = "insertEdge"]]
        /\ UNCHANGED tables

\* The INSERT, unless a foreign key or (from_step_id, branch) rejects it.
AddEdgeInsert(r) ==
    LET q == request[r]
        accepted == /\ {q.step, q.to} \subseteq StepRows
                    /\ \A e \in edges : ~(e.from = q.step /\ e.branch = q.branch)
        edge == [workflow |-> q.workflow, from |-> q.step, to |-> q.to,
                 branch |-> q.branch]
    IN  /\ q.pc = "insertEdge"
        /\ edges' = IF accepted THEN edges \cup {edge} ELSE edges
        /\ request' = [request EXCEPT ![r] = Idle]
        /\ UNCHANGED <<workflows, usedWorkflows, entryStepId, workflowOf,
                       usedSteps, stepOrder, stepType, configType>>

\* removeEdge: one DELETE by edge id.
RemoveEdge(e) ==
    /\ edges' = edges \ {e}
    /\ UNCHANGED <<workflows, usedWorkflows, entryStepId, workflowOf,
                   usedSteps, stepOrder, stepType, configType, request>>

\* A statement rejects (the connection is lost) or the process dies: what the
\* request wrote so far stays.
Abort(r) ==
    /\ request[r] # Idle
    /\ request' = [request EXCEPT ![r] = Idle]
    /\ UNCHANGED tables

RequestStep(r) ==
    \/ \E w \in Workflows, s \in Steps : UpdateCheckEntry(r, w, s)
    \/ UpdateWrite(r)
    \/ \E w \in Workflows, t \in StepTypes, n \in GivenOrders \cup {None} :
         AddStepRead(r, w, t, n)
    \/ NextStepOrder(r)
    \/ \E s \in Steps : InsertStep(r, s)
    \/ InsertStepFails(r)
    \/ SetEntry(r)
    \/ \E s \in Steps, t \in StepTypes \cup {None}, hasConfig \in BOOLEAN,
          n \in GivenOrders \cup {None} : UpdateStepRead(r, s, t, hasConfig, n)
    \/ UpdateStepWrite(r)
    \/ \E w \in Workflows, a, b \in Steps, branch \in Branches :
         AddEdgeCheckSteps(r, w, a, b, branch)
    \/ AddEdgeCanReach(r)
    \/ AddEdgeInsert(r)
    \/ Abort(r)

Next ==
    \/ \E w \in Workflows : Create(w) \/ Remove(w) \/ UpdateClearEntry(w)
    \/ \E s \in Steps : RemoveStep(s)
    \/ \E e \in edges : RemoveEdge(e)
    \/ \E r \in Requests : RequestStep(r)

Spec == Init /\ [][Next]_vars

\* addEdge requests of one workflow that have started their check do not
\* overlap: what the comment "acyclic by construction" takes for granted.
EdgeWritesSerial ==
    \A r1, r2 \in Requests :
        /\ {request[r1].pc, request[r2].pc} \subseteq {"canReach", "insertEdge"}
        /\ request[r1].workflow = request[r2].workflow
        => r1 = r2

SerialSpec == Init /\ [][Next /\ EdgeWritesSerial']_vars

----------------------------------------------------------------------------
TypeOK ==
    /\ workflows \subseteq usedWorkflows /\ usedWorkflows \subseteq Workflows
    /\ entryStepId \in [Workflows -> Steps \cup {None}]
    /\ workflowOf \in [Steps -> Workflows \cup {None}]
    /\ usedSteps \subseteq Steps
    /\ stepOrder \in [Steps -> 0..MaxStepOrder]
    /\ stepType \in [Steps -> StepTypes \cup {None}]
    /\ configType \in [Steps -> StepTypes \cup {None}]
    /\ edges \subseteq Edge
    /\ request \in [Requests -> Request]

\* The entry pointer of a workflow is null or one of its own existing steps:
\* execution never starts in another workflow's graph or at a deleted step.
\* The foreign key does not say whose step it is; getStep in update does.
EntryWithinWorkflow ==
    \A w \in Workflows :
        entryStepId[w] # None =>
            w \in workflows /\ workflowOf[entryStepId[w]] = w

\* An edge lives in the workflow both of its steps live in, so listEdges
\* and canReach, which filter by workflow id, see every arc between them.
\* The three foreign keys are independent; the checks of addEdge tie them.
EdgesWithinWorkflow ==
    \A e \in edges :
        /\ e.workflow \in workflows
        /\ workflowOf[e.from] = e.workflow /\ workflowOf[e.to] = e.workflow

\* listSteps has one order to return the steps of a workflow in.  Requests find
\* the next order in one statement and insert in a later one, others give or
\* change orders explicitly, and one may give the last value of the column: an
\* order that another step has taken since, or that is one past the last, is
\* refused and never stored.
StepOrdersAreKept ==
    \A s \in StepRows :
        /\ stepOrder[s] <= MaxStepOrder
        /\ \A t \in StepsOf(workflowOf[s]) \ {s} : stepOrder[t] # stepOrder[s]

\* No edit leaves a cycle in any workflow's graph.
NoCycle == Acyclic(Steps, Arcs(edges))

\* Whatever addEdge requests do, the edges of a graph are always those of
\* some sequence of atomic edits of which none closes a cycle.
Abstract == INSTANCE StepGraph WITH nodes <- StepRows, arcs <- Arcs(edges)
ImplementsStepGraph == Abstract!Spec

\* The config of a step has the shape of the step's type.
ConfigMatchesType == \A s \in StepRows : configType[s] = stepType[s]
=============================================================================
