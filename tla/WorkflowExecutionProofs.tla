------------------------ MODULE WorkflowExecutionProofs ------------------------
(***************************************************************************)
(* Proofs about WorkflowExecution for any number of concurrent executions  *)
(* and edits.  What the editor guarantees of the tables comes from the     *)
(* proofs about WorkflowGraph.  On top of it the invariant says, of each   *)
(* execution on its own: what its snapshot still means while the tables    *)
(* move on, where its walk stands in that snapshot, and which outcomes it  *)
(* has recorded for the steps it visited.                                  *)
(***************************************************************************)
EXTENDS WorkflowExecution, FiniteSetTheorems, TLAPS

GraphProofs == INSTANCE WorkflowGraphProofs

GraphInv == GraphProofs!TypeInv /\ GraphProofs!Ownership /\ IsFiniteSet(usedSteps)

\* The local variables of an execution.
Locals ==
    [pc : PC, workflow : Workflows \cup {None}, entry : Steps \cup {None},
     current : Steps \cup {None}, steps : [read : BOOLEAN, rows : SUBSET Steps],
     conditions : SUBSET Steps, edges : [read : BOOLEAN, rows : SUBSET Graph!Edge],
     visited : SUBSET Steps, branch : Branches \cup {None},
     status : {"completed", "failed"}, known : SUBSET Steps,
     unacknowledged : SUBSET Steps]

TypeInv ==
    /\ run \in [Runs -> Locals]
    /\ runStatus \in [Runs -> {"running", "completed", "failed", None}]
    /\ stepRuns \subseteq StepRun

InStep == {"executor", "recordSuccess", "recordFailure"}
Walking == InStep \cup {"loop"}
Ended == {"recordSkipped", "closeRun", "done"}

RowsOf(r) == {x \in stepRuns : x.run = r}

\* s was a step of w when it was read: it still is, or it was deleted.
WasIn(s, w) == s \in usedSteps /\ workflowOf[s] \in {w, None}

\* Everything in the snapshot was of the workflow.  A step that had an id when
\* the steps were listed and is not among them is not of the workflow either.
SnapshotHolds(r) ==
    LET q == run[r]
    IN  /\ q.pc # "idle" => q.workflow \in Workflows
        /\ q.entry # None => WasIn(q.entry, q.workflow)
        /\ q.current # None => WasIn(q.current, q.workflow)
        /\ \A s \in q.steps.rows : WasIn(s, q.workflow)
        /\ \A e \in q.edges.rows : WasIn(e.to, q.workflow)
        /\ q.known \subseteq usedSteps
        /\ \A s \in q.known \ q.steps.rows : workflowOf[s] # q.workflow

\* Where the walk stands.
WalkHolds(r) ==
    LET q == run[r]
    IN  /\ q.pc = "idle" => q = NotStarted
        /\ q.pc \in {"idle", "list", "insertRun"} =>
             /\ q.current = q.entry /\ q.visited = {} /\ q.unacknowledged = {}
             /\ q.status = "completed" /\ runStatus[r] = None
        /\ q.pc \in Walking => q.visited \subseteq q.steps.rows
        /\ q.pc \in InStep => q.current \in q.visited
        /\ q.unacknowledged \subseteq q.visited
        /\ q.pc \in Ended /\ q.status = "completed" /\ q.current # None =>
             /\ q.current \notin q.steps.rows
             /\ q.current \in q.known => workflowOf[q.current] = None

\* What is on record for the steps: nothing yet for the one in the executor.
RecordsHold(r) ==
    LET q == run[r]
    IN  /\ \A x \in RowsOf(r) :
             /\ x.step \in q.visited <=> x.status # "skipped"
             /\ x.status = "skipped" => q.pc \in {"closeRun", "done", "aborted"}
             /\ x.status = "failed" => q.status = "failed"
             /\ q.pc \in {"executor", "recordSuccess"} => x.step # q.current
             /\ q.pc = "recordFailure" /\ x.step = q.current =>
                  x.status = "success" /\ x.step \in q.unacknowledged
        /\ \A x, y \in RowsOf(r) : x.step = y.step /\ x # y =>
             x.status # y.status /\ x.step \in q.unacknowledged

\* Every visited step but the one in the executor has an outcome, a success as
\* long as the run has not failed; and the others have one when it is closed.
AccountHolds(r) ==
    LET q == run[r]
    IN  runStatus[r] # None =>
        /\ q.pc \in Walking \cup Ended =>
             \A s \in q.visited \cap q.steps.rows :
                 workflowOf[s] # None /\ ~(q.pc \in InStep /\ s = q.current) =>
                     \E x \in RowsOf(r) : x.step = s /\ (q.status = "completed" => x.status = "success")
        /\ q.pc \in {"closeRun", "done"} =>
             \A s \in q.steps.rows \ q.visited :
                 workflowOf[s] # None => \E x \in RowsOf(r) : x.step = s
        /\ q.pc = "done" => runStatus[r] = q.status

\* The walk follows the edges it read.
PathHolds(r) ==
    LET q == run[r]
        Follows(s) == Reachable(Steps, Graph!Arcs(q.edges.rows), q.entry, s)
    IN  (q.current # None => Follows(q.current)) /\ \A s \in q.visited : Follows(s)

RunInv(r) ==
    SnapshotHolds(r) /\ WalkHolds(r) /\ RecordsHold(r) /\ AccountHolds(r) /\ PathHolds(r)

IInv == GraphInv /\ TypeInv /\ \A r \in Runs : RunInv(r)

-----------------------------------------------------------------------------
\* The editor.

\* The two instances of WorkflowGraph say the same, action by action.
LEMMA SameEdits == Graph!Next <=> GraphProofs!Next
<1> USE DEF Graph!tables, GraphProofs!tables, Graph!Idle, GraphProofs!Idle,
            Graph!StepRows, GraphProofs!StepRows, Graph!StepsOf,
            GraphProofs!StepsOf, Graph!EdgesOf, GraphProofs!EdgesOf, Graph!Arcs,
            GraphProofs!Arcs, Graph!DeleteSteps, GraphProofs!DeleteSteps,
            Graph!ClearEntry, GraphProofs!ClearEntry, Graph!OrderAccepted,
            GraphProofs!OrderAccepted, Graph!IsNextStepOrder,
            GraphProofs!IsNextStepOrder, Graph!Reachable, GraphProofs!Reachable,
            Graph!Closed, GraphProofs!Closed
<1>1. \A w : Graph!Create(w) <=> GraphProofs!Create(w)
  BY DEF Graph!Create, GraphProofs!Create
<1>2. \A w : Graph!Remove(w) <=> GraphProofs!Remove(w)
  BY DEF Graph!Remove, GraphProofs!Remove
<1>3. \A w : Graph!UpdateClearEntry(w) <=> GraphProofs!UpdateClearEntry(w)
  BY DEF Graph!UpdateClearEntry, GraphProofs!UpdateClearEntry
<1>4. \A s : Graph!RemoveStep(s) <=> GraphProofs!RemoveStep(s)
  BY DEF Graph!RemoveStep, GraphProofs!RemoveStep
<1>5. \A e : Graph!RemoveEdge(e) <=> GraphProofs!RemoveEdge(e)
  BY DEF Graph!RemoveEdge, GraphProofs!RemoveEdge
<1>6. \A r, w, s : Graph!UpdateCheckEntry(r, w, s) <=> GraphProofs!UpdateCheckEntry(r, w, s)
  BY DEF Graph!UpdateCheckEntry, GraphProofs!UpdateCheckEntry
<1>7. \A r : Graph!UpdateWrite(r) <=> GraphProofs!UpdateWrite(r)
  BY DEF Graph!UpdateWrite, GraphProofs!UpdateWrite
<1>8. \A r, w, t, n : Graph!AddStepRead(r, w, t, n) <=> GraphProofs!AddStepRead(r, w, t, n)
  BY DEF Graph!AddStepRead, GraphProofs!AddStepRead
<1>9. \A r : Graph!NextStepOrder(r) <=> GraphProofs!NextStepOrder(r)
  BY DEF Graph!NextStepOrder, GraphProofs!NextStepOrder
<1>10. \A r, s : Graph!InsertStep(r, s) <=> GraphProofs!InsertStep(r, s)
  BY DEF Graph!InsertStep, GraphProofs!InsertStep
<1>11. \A r : Graph!InsertStepFails(r) <=> GraphProofs!InsertStepFails(r)
  BY DEF Graph!InsertStepFails, GraphProofs!InsertStepFails
<1>12. \A r : Graph!SetEntry(r) <=> GraphProofs!SetEntry(r)
  BY DEF Graph!SetEntry, GraphProofs!SetEntry
<1>13. \A r, s, t, hasConfig, n : Graph!UpdateStepRead(r, s, t, hasConfig, n) <=> GraphProofs!UpdateStepRead(r, s, t, hasConfig, n)
  BY DEF Graph!UpdateStepRead, GraphProofs!UpdateStepRead
<1>14. \A r : Graph!UpdateStepWrite(r) <=> GraphProofs!UpdateStepWrite(r)
  BY DEF Graph!UpdateStepWrite, GraphProofs!UpdateStepWrite
<1>15. \A r, w, a, b, branch : Graph!AddEdgeCheckSteps(r, w, a, b, branch) <=> GraphProofs!AddEdgeCheckSteps(r, w, a, b, branch)
  BY DEF Graph!AddEdgeCheckSteps, GraphProofs!AddEdgeCheckSteps
<1>16. \A r : Graph!AddEdgeCanReach(r) <=> GraphProofs!AddEdgeCanReach(r)
  BY DEF Graph!AddEdgeCanReach, GraphProofs!AddEdgeCanReach
<1>17. \A r : Graph!AddEdgeInsert(r) <=> GraphProofs!AddEdgeInsert(r)
  BY DEF Graph!AddEdgeInsert, GraphProofs!AddEdgeInsert
<1>18. \A r : Graph!Abort(r) <=> GraphProofs!Abort(r)
  BY DEF Graph!Abort, GraphProofs!Abort
<1>19. \A r \in Requests : Graph!RequestStep(r) <=> GraphProofs!RequestStep(r)
  BY <1>6, <1>7, <1>8, <1>9, <1>10, <1>11, <1>12, <1>13, <1>14, <1>15, <1>16, <1>17,
     <1>18
     DEF Graph!RequestStep, GraphProofs!RequestStep
<1>20. QED
  BY <1>1, <1>2, <1>3, <1>4, <1>5, <1>19 DEF Graph!Next, GraphProofs!Next

\* What an execution that reads the tables learns from the editor's invariant.
LEMMA GraphFacts ==
    ASSUME GraphInv
    PROVE  /\ workflows \subseteq Workflows
           /\ entryStepId \in [Workflows -> Steps \cup {None}]
           /\ workflowOf \in [Steps -> Workflows \cup {None}]
           /\ usedSteps \subseteq Steps /\ edges \subseteq Graph!Edge
           /\ \A s \in Steps : workflowOf[s] # None => s \in usedSteps
           /\ \A w \in workflows : entryStepId[w] # None => workflowOf[entryStepId[w]] = w
           /\ \A e \in edges : workflowOf[e.to] = e.workflow
BY DEF GraphInv, GraphProofs!TypeInv, GraphProofs!TypeOK, GraphProofs!Ownership,
       GraphProofs!RowsOwned, GraphProofs!EntryWithinWorkflow,
       GraphProofs!EdgesWithinWorkflow, GraphProofs!Edge, Graph!Edge

\* An edit keeps that, and lets steps disappear but not come back or move.
LEMMA GraphStep ==
    ASSUME GraphInv, Graph!Next
    PROVE  /\ GraphInv'
           /\ usedSteps \subseteq usedSteps'
           /\ \A s \in usedSteps : workflowOf'[s] \in {workflowOf[s], None}
<1>1. [GraphProofs!Next]_(GraphProofs!vars)
  BY SameEdits
<1>2. GraphProofs!TypeInv'
  BY <1>1, GraphProofs!TypeInvStep, NoneIsNoValue, OrdersAreNatural DEF GraphInv
<1>3. GraphProofs!Ownership'
  BY <1>1, <1>2, GraphProofs!OwnershipStep, NoneIsNoValue, OrdersAreNatural DEF GraphInv
<1>4. /\ usedSteps' = usedSteps \/ \E s \in Steps : usedSteps' = usedSteps \cup {s}
      /\ \A s \in usedSteps : workflowOf'[s] \in {workflowOf[s], None}
  BY <1>1, GraphProofs!IdsAreNotReused, NoneIsNoValue, OrdersAreNatural DEF GraphInv
<1>5. IsFiniteSet(usedSteps)'
  BY <1>4, FS_AddElement DEF GraphInv
<1>6. QED BY <1>2, <1>3, <1>4, <1>5 DEF GraphInv

\* Executions only read the tables of the editor.
LEMMA GraphUnchanged ==
    ASSUME GraphInv, UNCHANGED graph PROVE GraphInv'
BY DEF GraphInv, graph, GraphProofs!TypeInv, GraphProofs!TypeOK, GraphProofs!Ownership,
       GraphProofs!RowsOwned, GraphProofs!RequestOwned, GraphProofs!RequestTyped,
       GraphProofs!WasIn, GraphProofs!EntryWithinWorkflow,
       GraphProofs!EdgesWithinWorkflow

-----------------------------------------------------------------------------
\* Executions.

\* An execution keeps what it knows while only others act.
LEMMA OthersKeepRun ==
    ASSUME NEW r \in Runs, RunInv(r), run'[r] = run[r], runStatus'[r] = runStatus[r],
           RowsOf(r)' = RowsOf(r), workflowOf' = workflowOf, usedSteps' = usedSteps
    PROVE  RunInv(r)'
<1>1. SnapshotHolds(r)' BY DEF RunInv, SnapshotHolds, WasIn
<1>2. WalkHolds(r)' BY DEF RunInv, WalkHolds
<1>3. RecordsHold(r)' BY DEF RunInv, RecordsHold
<1>4. AccountHolds(r)' BY DEF RunInv, AccountHolds
<1>5. PathHolds(r)' BY DEF RunInv, PathHolds
<1>6. QED BY <1>1, <1>2, <1>3, <1>4, <1>5 DEF RunInv

\* Steps of an execution that only move it on or throw.
LEMMA MovesOn ==
    ASSUME IInv, NEW r \in Runs,
           ListFails(r) \/ Listed(r) \/ ExecutorThrows(r) \/ Abort(r)
    PROVE  TypeInv' /\ RunInv(r)'
<1>1. PICK pc \in PC :
        /\ run' = [run EXCEPT ![r].pc = pc]
        /\ UNCHANGED <<graph, runStatus, stepRuns>>
        /\ \/ pc = "aborted" /\ run[r].pc # "idle"
           \/ pc \in {"insertRun", "rejected"} /\ run[r].pc = "list"
           \/ pc = "recordFailure" /\ run[r].pc = "executor"
  BY DEF ListFails, Listed, ExecutorThrows, Abort, Goto, PC, Active
<1> DEFINE q == [run[r] EXCEPT !.pc = pc]
<1>2. /\ run[r] \in Locals /\ q \in Locals /\ run'[r] = q
      /\ RowsOf(r)' = RowsOf(r)
  <2>1. run[r] \in Locals BY DEF IInv, TypeInv
  <2>2. q \in Locals BY <1>1, <2>1 DEF Locals
  <2>3. run'[r] = q BY <1>1 DEF IInv, TypeInv
  <2>4. RowsOf(r)' = RowsOf(r) BY <1>1 DEF RowsOf
  <2>5. QED BY <2>1, <2>2, <2>3, <2>4
<1>3. TypeInv'
  BY <1>1, <1>2 DEF IInv, TypeInv
<1>4. RunInv(r) BY DEF IInv
<1>5. SnapshotHolds(r)' BY <1>1, <1>2, <1>4 DEF RunInv, SnapshotHolds, WasIn, graph, Locals
<1>6. WalkHolds(r)' BY <1>1, <1>2, <1>4 DEF RunInv, WalkHolds, graph, Locals, Walking, InStep, Ended
<1>7. RecordsHold(r)' BY <1>1, <1>2, <1>4 DEF RunInv, RecordsHold, graph, Locals
<1>8. AccountHolds(r)' BY <1>1, <1>2, <1>4 DEF RunInv, AccountHolds, graph, Locals, Walking, InStep, Ended
<1>9. PathHolds(r)' BY <1>1, <1>2, <1>4 DEF RunInv, PathHolds, graph, Locals
<1>10. QED BY <1>3, <1>5, <1>6, <1>7, <1>8, <1>9 DEF RunInv

\* The three reads: the entry pointer, the steps and the edges.
LEMMA Reads ==
    ASSUME IInv, NEW r \in Runs,
           (\E w \in Workflows : Execute(r, w)) \/ ListSteps(r) \/ ListEdges(r)
    PROVE  TypeInv' /\ RunInv(r)'
<1> USE DEF IInv
<1>1. /\ run[r] \in Locals /\ RunInv(r)
      /\ UNCHANGED <<graph, runStatus, stepRuns>>
      /\ RowsOf(r)' = RowsOf(r) /\ UNCHANGED <<workflowOf, usedSteps>>
  BY DEF TypeInv, Execute, ListSteps, ListEdges, RowsOf, graph
<1>2. CASE \E w \in Workflows : Execute(r, w)
  <2>1. PICK w \in Workflows : Execute(r, w) BY <1>2
  <2> DEFINE q == [run[r] EXCEPT !.pc = "list", !.workflow = w,
                                 !.entry = entryStepId[w], !.current = entryStepId[w]]
  <2>2. /\ run' = [run EXCEPT ![r] = q] /\ run'[r] = q /\ q \in Locals
        /\ run[r] = NotStarted /\ w \in workflows
    <3>1. run[r] = NotStarted /\ w \in workflows BY <1>1, <2>1 DEF Execute, RunInv, WalkHolds
    <3>2. run' = [run EXCEPT ![r] = q] BY <2>1 DEF Execute
    <3>3. entryStepId[w] \in Steps \cup {None} BY GraphFacts
    <3>4. q \in Locals BY <1>1, <3>3 DEF Locals, PC
    <3>5. run'[r] = q
      <4> HIDE DEF q
      <4>1. QED BY <3>2 DEF TypeInv
    <3>6. QED BY <3>1, <3>2, <3>4, <3>5
  <2>3. TypeInv' BY <1>1, <2>2 DEF TypeInv
  <2>4. /\ q.pc = "list" /\ q.workflow = w /\ q.entry = entryStepId[w]
        /\ q.current = entryStepId[w] /\ q.steps.rows = {} /\ q.edges.rows = {}
        /\ q.known = {} /\ q.visited = {} /\ q.unacknowledged = {}
        /\ q.status = "completed" /\ runStatus[r] = None
    BY <1>1, <2>2 DEF NotStarted, NotRead, RunInv, WalkHolds
  <2> HIDE DEF q
  <2>5. SnapshotHolds(r)'
    BY <1>1, <2>2, <2>4, GraphFacts, NoneIsNoValue DEF SnapshotHolds, WasIn
  <2>6. WalkHolds(r)'
    BY <1>1, <2>2, <2>4 DEF WalkHolds, Walking, InStep, Ended
  <2>7. RowsOf(r) = {}
    BY <1>1, <2>2 DEF RunInv, RecordsHold, NotStarted
  <2>8. RecordsHold(r)' BY <1>1, <2>2, <2>7 DEF RecordsHold
  <2>9. AccountHolds(r)'
    BY <1>1, <2>2, <2>4 DEF AccountHolds
  <2>10. PathHolds(r)'
    BY <1>1, <2>2, <2>4 DEF PathHolds, Reachable
  <2>11. QED BY <2>3, <2>5, <2>6, <2>8, <2>9, <2>10 DEF RunInv
<1>3. CASE ListSteps(r)
  <2> DEFINE w == run[r].workflow
             rows == Graph!StepsOf(w)
             q == [run[r] EXCEPT !.steps = Read(rows),
                     !.conditions = {s \in rows : stepType[s] = "condition"},
                     !.known = usedSteps]
  <2>1. rows \subseteq Steps BY DEF Graph!StepsOf
  <2>2. /\ run' = [run EXCEPT ![r] = q] /\ run'[r] = q /\ q \in Locals
        /\ run[r].pc = "list" /\ w \in Workflows
    BY <1>1, <1>3, <2>1, GraphFacts DEF ListSteps, TypeInv, Locals, Read
  <2>3. TypeInv' BY <1>1, <2>2 DEF TypeInv
  <2>4. /\ q.pc = "list" /\ q.steps.rows = rows /\ q.known = usedSteps
        /\ \A f \in {"workflow", "entry", "current", "edges", "visited",
                     "unacknowledged", "status"} : q[f] = run[r][f]
    BY <1>1, <2>2 DEF Locals, Read
  <2> HIDE DEF q
  <2>5. SnapshotHolds(r)'
    BY <1>1, <2>2, <2>4, GraphFacts, NoneIsNoValue
       DEF RunInv, SnapshotHolds, WasIn, Graph!StepsOf
  <2>6. WalkHolds(r)'
    BY <1>1, <2>2, <2>4 DEF RunInv, WalkHolds, Walking, InStep, Ended
  <2>7. RecordsHold(r)' BY <1>1, <2>2, <2>4 DEF RunInv, RecordsHold
  <2>8. AccountHolds(r)' BY <1>1, <2>2, <2>4 DEF RunInv, WalkHolds, AccountHolds
  <2>9. PathHolds(r)' BY <1>1, <2>2, <2>4 DEF RunInv, PathHolds
  <2>10. QED BY <2>3, <2>5, <2>6, <2>7, <2>8, <2>9 DEF RunInv
<1>4. CASE ListEdges(r)
  <2> DEFINE w == run[r].workflow
             rows == Graph!EdgesOf(w)
             q == [run[r] EXCEPT !.edges = Read(rows)]
  <2>1. rows \subseteq edges BY DEF Graph!EdgesOf
  <2>2. /\ run' = [run EXCEPT ![r] = q] /\ run'[r] = q /\ q \in Locals
        /\ run[r].pc = "list" /\ w \in Workflows
    BY <1>1, <1>4, <2>1, GraphFacts DEF ListEdges, TypeInv, Locals, Read
  <2>3. TypeInv' BY <1>1, <2>2 DEF TypeInv
  <2>4. \A e \in rows : WasIn(e.to, w)
    BY <2>2, GraphFacts, NoneIsNoValue DEF Graph!EdgesOf, Graph!Edge, WasIn
  <2>5. SnapshotHolds(r)'
    BY <1>1, <2>2, <2>4 DEF RunInv, SnapshotHolds, WasIn, Read, Locals
  <2>6. WalkHolds(r)'
    BY <1>1, <2>2 DEF RunInv, WalkHolds, Walking, InStep, Ended, Locals
  <2>7. RecordsHold(r)' BY <1>1, <2>2 DEF RunInv, RecordsHold, Locals
  <2>8. AccountHolds(r)' BY <1>1, <2>2 DEF RunInv, WalkHolds, AccountHolds, Locals
  <2>9. PathHolds(r)'
    BY <1>1, <2>2 DEF RunInv, WalkHolds, PathHolds, Reachable, Locals
  <2>10. QED BY <2>3, <2>5, <2>6, <2>7, <2>8, <2>9 DEF RunInv
<1>5. QED BY <1>2, <1>3, <1>4

\* The two statements on the run row.
LEMMA RunRow ==
    ASSUME IInv, NEW r \in Runs, InsertRun(r) \/ CloseRun(r)
    PROVE  TypeInv' /\ RunInv(r)' /\ \A o \in Runs \ {r} : runStatus'[o] = runStatus[o]
<1>1. PICK pc \in PC, status \in {"running", "completed", "failed", None} :
        /\ run' = [run EXCEPT ![r].pc = pc]
        /\ runStatus' = [runStatus EXCEPT ![r] = status]
        /\ UNCHANGED <<graph, stepRuns>>
        /\ \/ pc = "rejected" /\ run[r].pc = "insertRun" /\ status = runStatus[r]
           \/ pc = "loop" /\ run[r].pc = "insertRun" /\ status = "running"
           \/ /\ pc = "done" /\ run[r].pc = "closeRun"
              /\ status = IF runStatus[r] = None THEN None ELSE run[r].status
  BY DEF InsertRun, CloseRun, Goto, PC, IInv, TypeInv, Locals
<1> DEFINE q == [run[r] EXCEPT !.pc = pc]
<1>2. /\ run[r] \in Locals /\ q \in Locals /\ run'[r] = q
      /\ RowsOf(r)' = RowsOf(r) /\ runStatus'[r] = status
      /\ \A o \in Runs \ {r} : runStatus'[o] = runStatus[o]
  <2>1. run[r] \in Locals BY DEF IInv, TypeInv
  <2>2. q \in Locals BY <1>1, <2>1 DEF Locals
  <2>3. run'[r] = q BY <1>1 DEF IInv, TypeInv
  <2>4. RowsOf(r)' = RowsOf(r) BY <1>1 DEF RowsOf
  <2>5. runStatus'[r] = status /\ \A o \in Runs \ {r} : runStatus'[o] = runStatus[o]
    <3>1. runStatus \in [Runs -> {"running", "completed", "failed", None}] BY DEF IInv, TypeInv
    <3>2. QED BY <1>1, <3>1
  <2>6. QED BY <2>1, <2>2, <2>3, <2>4, <2>5
<1>3. TypeInv' BY <1>1, <1>2 DEF IInv, TypeInv
<1>4. RunInv(r) BY DEF IInv
<1>5. SnapshotHolds(r)' BY <1>1, <1>2, <1>4 DEF RunInv, SnapshotHolds, WasIn, graph, Locals
<1>6. WalkHolds(r)'
  BY <1>1, <1>2, <1>4 DEF RunInv, WalkHolds, graph, Locals, Walking, InStep, Ended
<1>7. RecordsHold(r)' BY <1>1, <1>2, <1>4 DEF RunInv, RecordsHold, graph, Locals
<1>8. AccountHolds(r)'
  BY <1>1, <1>2, <1>4, NoneIsNoValue
     DEF RunInv, WalkHolds, AccountHolds, graph, Locals, Walking, InStep, Ended
<1>9. PathHolds(r)' BY <1>1, <1>2, <1>4 DEF RunInv, PathHolds, graph, Locals
<1>10. QED BY <1>2, <1>3, <1>5, <1>6, <1>7, <1>8, <1>9 DEF RunInv

\* The cap on the number of rounds is never what ends the loop: a walk inside
\* the snapshot cannot visit more steps than there are.
LEMMA CapIsNotReached ==
    ASSUME IInv, NEW r \in Runs, run[r].pc = "loop"
    PROVE  LoopEnds(r) <=> run[r].current = None
<1>1. run[r].visited \subseteq run[r].steps.rows /\ run[r].steps.rows \subseteq usedSteps
  BY DEF IInv, RunInv, WalkHolds, Walking, SnapshotHolds, WasIn
<1>2. IsFiniteSet(run[r].steps.rows) BY <1>1, FS_Subset DEF IInv, GraphInv
<1>3. /\ Cardinality(run[r].visited) <= Cardinality(run[r].steps.rows)
      /\ Cardinality(run[r].visited) \in Nat /\ Cardinality(run[r].steps.rows) \in Nat
  BY <1>1, <1>2, FS_Subset, FS_CardinalityType
<1>4. QED BY <1>3 DEF LoopEnds, maxSteps

\* The steps of an execution that walk and write nothing.
LEMMA Walks ==
    ASSUME IInv, NEW r \in Runs,
           LoopHead(r) \/ \E branch \in Branches \cup {None} : ExecutorReturns(r, branch)
    PROVE  TypeInv' /\ RunInv(r)'
<1> DEFINE p == run[r]
<1>1. /\ p \in Locals /\ RunInv(r) /\ UNCHANGED <<graph, runStatus, stepRuns>>
      /\ RowsOf(r)' = RowsOf(r) /\ UNCHANGED <<workflowOf, usedSteps>>
  BY DEF IInv, TypeInv, LoopHead, ExecutorReturns, RowsOf, graph
<1>2. PICK q \in Locals :
        /\ run' = [run EXCEPT ![r] = q]
        /\ \A f \in {"workflow", "entry", "current", "steps", "edges", "known",
                     "unacknowledged"} : q[f] = p[f]
        /\ \/ /\ p.pc = "loop" /\ q.pc = "recordSkipped" /\ q.visited = p.visited
              /\ p.current = None \/ q.status = "failed"
              /\ q.status \in {p.status, "failed"}
           \/ /\ p.pc = "loop" /\ p.current # None /\ p.current \notin p.visited
              /\ q.visited = p.visited \cup {p.current} /\ q.status = p.status
              /\ q.pc = IF p.current \in p.steps.rows THEN "executor" ELSE "recordSkipped"
           \/ /\ p.pc = "executor" /\ q.pc = "recordSuccess"
              /\ q.visited = p.visited /\ q.status = p.status
  <2>1. CASE LoopHead(r)
    <3>1. LoopEnds(r) <=> p.current = None BY <2>1, CapIsNotReached DEF LoopHead
    <3>2. CASE p.current = None
      <4>1. [p EXCEPT !.pc = "recordSkipped"] \in Locals BY <1>1 DEF Locals, PC
      <4>2. run' = [run EXCEPT ![r] = [p EXCEPT !.pc = "recordSkipped"]]
        BY <2>1, <3>1, <3>2 DEF LoopHead
      <4>3. QED BY <1>1, <2>1, <3>2, <4>1, <4>2 DEF LoopHead, Locals
    <3>3. CASE p.current \in p.visited /\ p.current # None
      <4> DEFINE q == [p EXCEPT !.pc = "recordSkipped", !.status = "failed"]
      <4>1. q \in Locals BY <1>1 DEF Locals, PC
      <4>2. run' = [run EXCEPT ![r] = q] BY <2>1, <3>1, <3>3 DEF LoopHead
      <4>3. QED BY <1>1, <2>1, <4>1, <4>2 DEF LoopHead, Locals
    <3>4. CASE p.current \notin p.visited /\ p.current # None
      <4> DEFINE pc == IF p.current \in p.steps.rows THEN "executor" ELSE "recordSkipped"
                 q == [p EXCEPT !.pc = pc, !.visited = p.visited \cup {p.current}]
      <4>1. q \in Locals
        <5>1. pc \in PC BY DEF PC
        <5>2. p.visited \cup {p.current} \subseteq Steps BY <1>1, <3>4 DEF Locals
        <5> HIDE DEF p, pc
        <5>3. QED BY <1>1, <5>1, <5>2 DEF Locals
      <4>2. run' = [run EXCEPT ![r] = q] BY <2>1, <3>1, <3>4 DEF LoopHead
      <4>3. QED BY <1>1, <2>1, <3>4, <4>1, <4>2 DEF LoopHead, Locals
    <3>5. QED BY <3>2, <3>3, <3>4
  <2>2. ASSUME NEW branch \in Branches \cup {None}, ExecutorReturns(r, branch)
        PROVE  \E q \in Locals :
                 /\ run' = [run EXCEPT ![r] = q]
                 /\ \A f \in {"workflow", "entry", "current", "steps", "edges", "known",
                              "unacknowledged"} : q[f] = p[f]
                 /\ p.pc = "executor" /\ q.pc = "recordSuccess"
                 /\ q.visited = p.visited /\ q.status = p.status
    <3> DEFINE q == [p EXCEPT !.pc = "recordSuccess", !.branch = branch]
    <3>1. q \in Locals BY <1>1 DEF Locals, PC
    <3>2. run' = [run EXCEPT ![r] = q] BY <2>2 DEF ExecutorReturns
    <3>3. QED BY <1>1, <2>2, <3>1, <3>2 DEF ExecutorReturns, Locals
  <2>3. QED BY <2>1, <2>2
<1>3. run'[r] = q /\ TypeInv'
  BY <1>1, <1>2 DEF IInv, TypeInv
<1>4. SnapshotHolds(r)' BY <1>1, <1>2, <1>3 DEF RunInv, SnapshotHolds, WasIn
<1>5. WalkHolds(r)'
  BY <1>1, <1>2, <1>3, NoneIsNoValue
     DEF RunInv, SnapshotHolds, WasIn, WalkHolds, Walking, InStep, Ended
<1>6. RecordsHold(r)'
  BY <1>1, <1>2, <1>3 DEF RunInv, WalkHolds, InStep, Walking, RecordsHold
<1>7. AccountHolds(r)'
  BY <1>1, <1>2, <1>3 DEF RunInv, WalkHolds, AccountHolds, Walking, InStep, Ended
<1>8. PathHolds(r)' BY <1>1, <1>2, <1>3 DEF RunInv, PathHolds
<1>9. QED BY <1>3, <1>4, <1>5, <1>6, <1>7, <1>8 DEF RunInv

AtMostOne(S) == \A x, y \in S : x = y

IsNewRow(z, r, s, status) ==
    /\ z \in StepRun /\ z.run = r /\ z.step = s /\ z.status = status
    /\ NewStepRuns(r, {s}, status) = {z}

\* An INSERT adds one row per step, numbered after the rows that are there.
LEMMA NewRow ==
    ASSUME NEW r \in Runs, NEW s \in Steps, NEW status \in {"success", "failed", "skipped"},
           AtMostOne(Outcomes(r, s))
    PROVE  \E z : IsNewRow(z, r, s, status)
<1>1. Cardinality(Outcomes(r, s)) \in {0, 1}
  <2>1. Outcomes(r, s) = {} \/ \E x : Outcomes(r, s) = {x} BY DEF AtMostOne
  <2>2. QED BY <2>1, FS_EmptySet, FS_Singleton
<1> DEFINE rows == Cardinality(Outcomes(r, s))
           nth == IF rows < MaxOutcomes THEN rows + 1 ELSE MaxOutcomes
           z == [run |-> r, step |-> s, status |-> status, nth |-> nth]
<1>2. nth \in 1..MaxOutcomes BY <1>1 DEF MaxOutcomes
<1> HIDE DEF nth
<1>3. z \in StepRun BY <1>2 DEF StepRun
<1>4. NewStepRuns(r, {s}, status) = {z} BY DEF NewStepRuns, nth
<1>5. IsNewRow(z, r, s, status) BY <1>3, <1>4 DEF IsNewRow
<1>6. QED BY <1>5

\* The walk goes on to the target of an edge of its snapshot, or ends.
LEMMA NextStep ==
    ASSUME NEW q \in Locals
    PROVE  \/ resolveNextStepId(q) = None
           \/ \E e \in q.edges.rows : e.from = q.current /\ resolveNextStepId(q) = e.to
<1> DEFINE branch == IF q.current \in q.conditions /\ q.branch # None
                     THEN q.branch ELSE DefaultBranch
           matched == IF Targets(q, branch) # {} THEN Targets(q, branch)
                      ELSE Targets(q, DefaultBranch)
<1>1. \A s \in matched : \E e \in q.edges.rows : e.from = q.current /\ s = e.to
  BY DEF Targets
<1>2. resolveNextStepId(q) = IF matched = {} THEN None ELSE CHOOSE s \in matched : TRUE
  BY DEF resolveNextStepId
<1>3. matched # {} => (CHOOSE s \in matched : TRUE) \in matched
  OBVIOUS
<1>4. QED
  <2> HIDE DEF matched
  <2>1. QED BY <1>1, <1>2, <1>3

\* and so stays among the steps the entry step leads to.
LEMMA FollowedEdge ==
    ASSUME NEW es \in SUBSET Graph!Edge, NEW e \in es, NEW entry,
           Reachable(Steps, Graph!Arcs(es), entry, e.from)
    PROVE  Reachable(Steps, Graph!Arcs(es), entry, e.to)
<1>1. <<e.from, e.to>> \in Graph!Arcs(es) BY DEF Graph!Arcs
<1>2. QED BY <1>1 DEF Reachable, Closed

\* An INSERT into the step runs of an execution, whichever one it is: the row
\* of the step it stands at is the first one, or comes after its success.
LEMMA RecordsOne ==
    ASSUME IInv, NEW r \in Runs,
           \/ RecordSuccess(r) \/ RecordSuccessUnacknowledged(r) \/ RecordFailure(r)
    PROVE  /\ TypeInv' /\ RunInv(r)'
           /\ \A o \in Runs \ {r} : RowsOf(o)' = RowsOf(o)
<1> DEFINE p == run[r]
<1>1. /\ p \in Locals /\ RunInv(r) /\ UNCHANGED <<graph, runStatus>>
      /\ UNCHANGED <<workflowOf, usedSteps>>
      /\ p.pc \in {"recordSuccess", "recordFailure"}
  BY DEF IInv, TypeInv, RecordSuccess, RecordSuccessUnacknowledged, RecordFailure, graph
<1>2. p.current \in p.visited /\ p.current \in Steps /\ p.visited \subseteq p.steps.rows
  BY <1>1 DEF RunInv, WalkHolds, InStep, Walking, Locals
<1>3. AtMostOne(Outcomes(r, p.current))
  BY <1>1 DEF RunInv, RecordsHold, RowsOf, Outcomes, AtMostOne
<1>4. PICK status \in {"success", "failed"}, q \in Locals, accepted \in BOOLEAN :
        /\ run' = [run EXCEPT ![r] = q]
        /\ \A f \in {"workflow", "entry", "steps", "edges", "known", "visited"} :
             q[f] = p[f]
        /\ stepRuns' = IF accepted THEN stepRuns \cup NewStepRuns(r, {p.current}, status)
                       ELSE stepRuns
        /\ \/ /\ p.pc = "recordSuccess" /\ accepted /\ status = "success"
              /\ q.pc = "loop" /\ q.current = resolveNextStepId(p)
              /\ q.unacknowledged = p.unacknowledged /\ q.status = p.status
           \/ /\ p.pc = "recordSuccess" /\ accepted /\ status = "success"
              /\ q.pc = "recordFailure" /\ q.current = p.current
              /\ q.unacknowledged = p.unacknowledged \cup {p.current}
              /\ q.status = p.status
           \/ /\ p.pc = "recordFailure" /\ accepted /\ status = "failed"
              /\ q.pc = "loop" /\ q.current = None
              /\ q.unacknowledged = p.unacknowledged /\ q.status = "failed"
           \/ /\ ~accepted /\ q.current = p.current
              /\ q.unacknowledged = p.unacknowledged /\ q.status = p.status
              /\ \/ p.pc = "recordSuccess" /\ q.pc = "recordFailure"
                 \/ p.pc = "recordFailure" /\ q.pc = "rejected"
  <2> HIDE DEF p
  <2>1. CASE RecordSuccess(r) /\ StepRunAccepted(r, p.current)
    <3> DEFINE q == [p EXCEPT !.pc = "loop", !.branch = None,
                              !.current = resolveNextStepId(p)]
    <3>1. resolveNextStepId(p) \in Steps \cup {None}
      BY <1>1, NextStep DEF Locals, Graph!Edge
    <3>2. q \in Locals BY <1>1, <3>1 DEF Locals, PC
    <3>3. /\ run' = [run EXCEPT ![r] = q] /\ p.pc = "recordSuccess"
          /\ stepRuns' = stepRuns \cup NewStepRuns(r, {p.current}, "success")
      BY <2>1 DEF RecordSuccess, p
    <3>4. QED BY <1>1, <3>2, <3>3 DEF Locals
  <2>2. CASE RecordSuccess(r) /\ ~StepRunAccepted(r, p.current)
    <3> DEFINE q == [p EXCEPT !.pc = "recordFailure", !.branch = None]
    <3>1. q \in Locals BY <1>1 DEF Locals, PC
    <3>2. /\ run' = [run EXCEPT ![r] = q] /\ p.pc = "recordSuccess" /\ stepRuns' = stepRuns
      BY <2>2 DEF RecordSuccess, p
    <3>3. QED BY <1>1, <3>1, <3>2 DEF Locals
  <2>3. CASE RecordSuccessUnacknowledged(r)
    <3> DEFINE q == [p EXCEPT !.pc = "recordFailure", !.branch = None,
                              !.unacknowledged = p.unacknowledged \cup {p.current}]
    <3>1. q \in Locals BY <1>1, <1>2 DEF Locals, PC, p
    <3>2. /\ run' = [run EXCEPT ![r] = q] /\ p.pc = "recordSuccess"
          /\ stepRuns' = stepRuns \cup NewStepRuns(r, {p.current}, "success")
      BY <2>3 DEF RecordSuccessUnacknowledged, p
    <3>3. QED BY <1>1, <3>1, <3>2 DEF Locals
  <2>4. CASE RecordFailure(r) /\ StepRunAccepted(r, p.current)
    <3> DEFINE q == [p EXCEPT !.pc = "loop", !.status = "failed", !.current = None]
    <3>1. q \in Locals BY <1>1 DEF Locals, PC
    <3>2. /\ run' = [run EXCEPT ![r] = q] /\ p.pc = "recordFailure"
          /\ stepRuns' = stepRuns \cup NewStepRuns(r, {p.current}, "failed")
      BY <2>4 DEF RecordFailure, p
    <3>3. QED BY <1>1, <3>1, <3>2 DEF Locals
  <2>5. CASE RecordFailure(r) /\ ~StepRunAccepted(r, p.current)
    <3> DEFINE q == [p EXCEPT !.pc = "rejected"]
    <3>1. q \in Locals BY <1>1 DEF Locals, PC
    <3>2. /\ run' = [run EXCEPT ![r] = q] /\ p.pc = "recordFailure" /\ stepRuns' = stepRuns
      BY <2>5 DEF RecordFailure, Goto, p
    <3>3. QED BY <1>1, <3>1, <3>2 DEF Locals
  <2>6. QED BY <2>1, <2>2, <2>3, <2>4, <2>5
<1>5. PICK z \in StepRun :
        /\ z.run = r /\ z.step = p.current /\ z.status = status
        /\ stepRuns' = IF accepted THEN stepRuns \cup {z} ELSE stepRuns
  <2> HIDE DEF p
  <2>1. PICK z : IsNewRow(z, r, p.current, status)
    <3>1. status \in {"success", "failed", "skipped"} OBVIOUS
    <3>2. QED BY <1>2, <1>3, <3>1, NewRow
  <2>2. stepRuns' = IF accepted THEN stepRuns \cup {z} ELSE stepRuns
    BY <1>4, <2>1 DEF IsNewRow
  <2>3. QED BY <2>1, <2>2 DEF IsNewRow
<1>6. /\ RowsOf(r)' = IF accepted THEN RowsOf(r) \cup {z} ELSE RowsOf(r)
      /\ \A o \in Runs \ {r} : RowsOf(o)' = RowsOf(o)
  BY <1>5 DEF RowsOf
<1>7. run'[r] = q /\ TypeInv'
  BY <1>1, <1>4, <1>5 DEF IInv, TypeInv
<1>8. q.current # p.current =>
        q.current = None \/ \E e \in p.edges.rows : e.from = p.current /\ q.current = e.to
  BY <1>1, <1>4, NextStep
<1> HIDE DEF p
<1>9. SnapshotHolds(r)'
  BY <1>1, <1>4, <1>7, <1>8 DEF RunInv, SnapshotHolds, WasIn, p
<1>10. WalkHolds(r)'
  BY <1>1, <1>2, <1>4, <1>7 DEF RunInv, WalkHolds, Walking, InStep, Ended, p
<1>11. RecordsHold(r)'
  BY <1>1, <1>2, <1>4, <1>5, <1>6, <1>7 DEF RunInv, RecordsHold, p
<1>12. AccountHolds(r)'
  BY <1>1, <1>2, <1>4, <1>5, <1>6, <1>7 DEF RunInv, AccountHolds, Walking, InStep, Ended, p
<1>13. PathHolds(r)'
  <2>1. \A s \in q.visited : Reachable(Steps, Graph!Arcs(q.edges.rows), q.entry, s)
    BY <1>1, <1>4 DEF RunInv, PathHolds, p
  <2>2. q.current # None => Reachable(Steps, Graph!Arcs(q.edges.rows), q.entry, q.current)
    BY <1>1, <1>2, <1>4, <1>8, FollowedEdge DEF RunInv, PathHolds, Locals, p
  <2>3. QED BY <1>7, <2>1, <2>2 DEF PathHolds
<1>14. QED BY <1>6, <1>7, <1>9, <1>10, <1>11, <1>12, <1>13 DEF RunInv

\* The INSERT for the steps that were not visited: none of them has a row.
LEMMA RecordsRest ==
    ASSUME IInv, NEW r \in Runs, RecordSkipped(r)
    PROVE  /\ TypeInv' /\ RunInv(r)'
           /\ \A o \in Runs \ {r} : RowsOf(o)' = RowsOf(o)
<1> DEFINE p == run[r]
           skipped == p.steps.rows \ p.visited
           accepted == \A s \in skipped : StepRunAccepted(r, s)
           new == IF accepted THEN NewStepRuns(r, skipped, "skipped") ELSE {}
           pc == IF accepted THEN "closeRun" ELSE "rejected"
           q == [p EXCEPT !.pc = pc]
<1>1. /\ p \in Locals /\ RunInv(r) /\ UNCHANGED <<graph, runStatus>>
      /\ UNCHANGED <<workflowOf, usedSteps>> /\ p.pc = "recordSkipped"
      /\ run' = [run EXCEPT ![r] = q] /\ stepRuns' = stepRuns \cup new
  BY DEF IInv, TypeInv, RecordSkipped, graph, Goto
<1>2. /\ q \in Locals /\ run'[r] = q
      /\ \A f \in {"workflow", "entry", "current", "steps", "edges", "known", "visited",
                   "unacknowledged", "status"} : q[f] = p[f]
      /\ q.pc = IF accepted THEN "closeRun" ELSE "rejected"
  <2>1. pc \in PC /\ pc = IF accepted THEN "closeRun" ELSE "rejected" BY DEF PC
  <2> HIDE DEF accepted, pc
  <2>2. q.pc = pc
        /\ \A f \in {"workflow", "entry", "current", "steps", "edges", "known", "visited",
                     "unacknowledged", "status"} : q[f] = p[f]
    BY <1>1 DEF Locals
  <2>3. q \in Locals BY <1>1, <2>1 DEF Locals
  <2>4. run'[r] = q
    <3> HIDE DEF q
    <3>1. QED BY <1>1 DEF IInv, TypeInv
  <2>5. QED BY <2>1, <2>2, <2>3, <2>4
<1> HIDE DEF p, q
<1>3. ASSUME NEW s \in skipped
      PROVE  /\ Outcomes(r, s) = {} /\ s \in Steps
             /\ \E z : IsNewRow(z, r, s, "skipped")
  <2>1. s \in Steps BY <1>1 DEF Locals
  <2>2. \A x \in RowsOf(r) : x.step # s
    BY <1>1 DEF RunInv, RecordsHold, p
  <2>3. Outcomes(r, s) = {} BY <2>2 DEF RowsOf, Outcomes
  <2>4. AtMostOne(Outcomes(r, s)) BY <2>3 DEF AtMostOne
  <2>5. QED BY <2>1, <2>3, <2>4, NewRow
<1>4. NewStepRuns(r, skipped, "skipped") = UNION {NewStepRuns(r, {s}, "skipped") : s \in skipped}
  BY DEF NewStepRuns
<1>5. /\ new \subseteq StepRun
      /\ \A z \in new : z.run = r /\ z.step \in skipped /\ z.status = "skipped"
      /\ \A y, z \in new : y.step = z.step => y = z
      /\ accepted => \A s \in skipped : \E z \in new : z.step = s
  <2>1. ASSUME NEW z \in new
        PROVE  \E s \in skipped : z \in NewStepRuns(r, {s}, "skipped")
    BY <1>4
  <2>2. ASSUME NEW z \in new
        PROVE  /\ z \in StepRun /\ z.run = r /\ z.status = "skipped"
               /\ z.step \in skipped /\ NewStepRuns(r, {z.step}, "skipped") = {z}
    <3>1. PICK s \in skipped : z \in NewStepRuns(r, {s}, "skipped") BY <2>1
    <3>2. PICK y : IsNewRow(y, r, s, "skipped") BY <1>3
    <3>3. z = y BY <3>1, <3>2 DEF IsNewRow
    <3>4. QED BY <3>2, <3>3 DEF IsNewRow
  <2>3. ASSUME accepted, NEW s \in skipped PROVE \E z \in new : z.step = s
    <3>1. PICK z : IsNewRow(z, r, s, "skipped") BY <1>3
    <3>2. z \in UNION {NewStepRuns(r, {t}, "skipped") : t \in skipped}
      BY <3>1 DEF IsNewRow
    <3>3. QED BY <1>4, <2>3, <3>1, <3>2 DEF IsNewRow
  <2>4. \A y, z \in new : y.step = z.step => y = z
    BY <2>2
  <2>5. QED BY <2>2, <2>3, <2>4
<1> HIDE DEF new
<1>6. /\ RowsOf(r)' = RowsOf(r) \cup new
      /\ \A o \in Runs \ {r} : RowsOf(o)' = RowsOf(o)
  BY <1>1, <1>5 DEF RowsOf
<1>7. TypeInv'
  BY <1>1, <1>2, <1>5 DEF IInv, TypeInv
<1> HIDE DEF accepted
<1>8. SnapshotHolds(r)' BY <1>1, <1>2 DEF RunInv, SnapshotHolds, WasIn, p
<1>9. WalkHolds(r)'
  BY <1>1, <1>2 DEF RunInv, WalkHolds, Walking, InStep, Ended, p
<1>10. RecordsHold(r)'
  <2>1. \A x \in RowsOf(r) : x.step \in p.visited /\ x.status # "skipped"
    BY <1>1 DEF RunInv, RecordsHold, p
  <2>2. ~accepted => new = {} BY DEF new
  <2>3. QED BY <1>1, <1>2, <1>5, <1>6, <2>1, <2>2 DEF RunInv, RecordsHold, p
<1>11. AccountHolds(r)'
  BY <1>1, <1>2, <1>5, <1>6 DEF RunInv, AccountHolds, Walking, InStep, Ended, p
<1>12. PathHolds(r)' BY <1>1, <1>2 DEF RunInv, PathHolds, p
<1>13. QED BY <1>6, <1>7, <1>8, <1>9, <1>10, <1>11, <1>12 DEF RunInv

\* An edit takes rows away, and what is left still bears each execution out.
LEMMA Edits ==
    ASSUME IInv, Edit
    PROVE  IInv'
<1> USE DEF IInv
<1>1. GraphInv' /\ usedSteps \subseteq usedSteps'
      /\ \A s \in usedSteps : workflowOf'[s] \in {workflowOf[s], None}
  BY GraphStep DEF Edit
<1>2. /\ runStatus' \in [Runs -> {"running", "completed", "failed", None}]
      /\ \A r \in Runs : run'[r] = run[r] /\ runStatus'[r] \in {runStatus[r], None}
      /\ \A r \in Runs : run[r].workflow = None => runStatus'[r] = None
      /\ stepRuns' \subseteq stepRuns
      /\ \A x \in stepRuns : runStatus'[x.run] # None /\ workflowOf'[x.step] # None =>
            x \in stepRuns'
  <2>1. None \notin workflows' BY <1>1, NoneIsNoValue
        DEF GraphInv, GraphProofs!TypeInv, GraphProofs!TypeOK
  <2>2. QED BY <2>1 DEF Edit, TypeInv
<1>3. TypeInv' BY <1>2 DEF TypeInv, Edit
<1>4. ASSUME NEW r \in Runs PROVE RunInv(r)'
  <2>1. /\ RunInv(r) /\ run[r] \in Locals /\ run'[r] = run[r]
        /\ runStatus'[r] \in {runStatus[r], None}
        /\ RowsOf(r)' \subseteq RowsOf(r)
        /\ \A x \in RowsOf(r) : runStatus'[r] # None /\ workflowOf'[x.step] # None =>
              x \in RowsOf(r)'
    BY <1>2 DEF RowsOf, TypeInv
  <2>2. SnapshotHolds(r)'
    BY <1>1, <2>1, NoneIsNoValue DEF RunInv, SnapshotHolds, WalkHolds, NotStarted, WasIn, Locals
  <2>3. WalkHolds(r)'
    BY <1>1, <2>1, NoneIsNoValue
       DEF RunInv, SnapshotHolds, WalkHolds, Walking, InStep, Ended, WasIn, Locals
  <2>4. RecordsHold(r)' BY <2>1 DEF RunInv, RecordsHold
  <2>5. AccountHolds(r)'
    BY <1>1, <2>1 DEF RunInv, SnapshotHolds, WasIn, AccountHolds, Walking, InStep, Ended
  <2>6. PathHolds(r)' BY <2>1 DEF RunInv, PathHolds
  <2>7. QED BY <2>2, <2>3, <2>4, <2>5, <2>6 DEF RunInv
<1>5. QED BY <1>1, <1>3, <1>4

-----------------------------------------------------------------------------
\* The invariant, and what follows from it.

LEMMA InitIInv == Init => IInv
<1> SUFFICES ASSUME Init PROVE IInv OBVIOUS
<1>1. GraphProofs!Init
  BY DEF Init, Graph!Init, GraphProofs!Init, Graph!Idle, GraphProofs!Idle
<1>2. GraphInv
  BY <1>1, GraphProofs!InitInv, NoneIsNoValue, OrdersAreNatural, FS_EmptySet
     DEF GraphInv, GraphProofs!Init
<1>3. NotStarted \in Locals BY DEF NotStarted, NotRead, Locals, PC
<1>4. TypeInv BY <1>3 DEF Init, InitRuns, TypeInv
<1>5. ASSUME NEW r \in Runs PROVE RunInv(r)
  <2>1. run[r] = NotStarted /\ RowsOf(r) = {} /\ runStatus[r] = None
    BY DEF Init, InitRuns, RowsOf
  <2>2. SnapshotHolds(r) BY <2>1 DEF SnapshotHolds, NotStarted, NotRead
  <2>3. WalkHolds(r) BY <2>1 DEF WalkHolds, NotStarted, Walking, InStep, Ended
  <2>4. RecordsHold(r) BY <2>1 DEF RecordsHold
  <2>5. AccountHolds(r) BY <2>1 DEF AccountHolds
  <2>6. PathHolds(r) BY <2>1 DEF PathHolds, NotStarted
  <2>7. QED BY <2>2, <2>3, <2>4, <2>5, <2>6 DEF RunInv
<1>6. QED BY <1>2, <1>4, <1>5 DEF IInv

\* A step of one execution leaves the others alone.
LEMMA OneActs ==
    ASSUME IInv, NEW r \in Runs, NEW o \in Runs \ {r},
           (\E w \in Workflows : Execute(r, w)) \/ RunStep(r) \/ Abort(r)
    PROVE  UNCHANGED graph /\ run'[o] = run[o]
BY DEF IInv, TypeInv, Execute, RunStep, Abort, ListSteps, ListEdges, ListFails, Listed,
       InsertRun, LoopHead, ExecutorReturns, ExecutorThrows, RecordSuccess,
       RecordSuccessUnacknowledged, RecordFailure, RecordSkipped, CloseRun, Goto

LEMMA NextIInv ==
    ASSUME IInv, [Next]_vars PROVE IInv'
<1>1. ASSUME NEW r \in Runs, (\E w \in Workflows : Execute(r, w)) \/ RunStep(r) \/ Abort(r)
      PROVE  IInv'
  <2>1. /\ TypeInv' /\ RunInv(r)' /\ UNCHANGED graph
        /\ \A o \in Runs \ {r} : runStatus'[o] = runStatus[o] /\ RowsOf(o)' = RowsOf(o)
    <3>1. CASE (\E w \in Workflows : Execute(r, w)) \/ ListSteps(r) \/ ListEdges(r)
      <4>1. UNCHANGED <<graph, runStatus, stepRuns>>
        BY <3>1 DEF Execute, ListSteps, ListEdges
      <4>2. QED BY <3>1, <4>1, Reads DEF RowsOf
    <3>2. CASE ListFails(r) \/ Listed(r) \/ ExecutorThrows(r) \/ Abort(r)
      <4>1. UNCHANGED <<graph, runStatus, stepRuns>>
        BY <3>2 DEF ListFails, Listed, ExecutorThrows, Abort
      <4>2. QED BY <3>2, <4>1, MovesOn DEF RowsOf
    <3>3. CASE InsertRun(r) \/ CloseRun(r)
      <4>1. UNCHANGED <<graph, stepRuns>> BY <3>3 DEF InsertRun, CloseRun
      <4>2. QED BY <3>3, <4>1, RunRow DEF RowsOf
    <3>4. CASE LoopHead(r) \/ \E branch \in Branches \cup {None} : ExecutorReturns(r, branch)
      <4>1. UNCHANGED <<graph, runStatus, stepRuns>>
        BY <3>4 DEF LoopHead, ExecutorReturns
      <4>2. QED BY <3>4, <4>1, Walks DEF RowsOf
    <3>5. CASE RecordSuccess(r) \/ RecordSuccessUnacknowledged(r) \/ RecordFailure(r)
      <4>1. UNCHANGED <<graph, runStatus>>
        BY <3>5 DEF RecordSuccess, RecordSuccessUnacknowledged, RecordFailure
      <4>2. QED BY <3>5, <4>1, RecordsOne
    <3>6. CASE RecordSkipped(r)
      <4>1. UNCHANGED <<graph, runStatus>> BY <3>6 DEF RecordSkipped
      <4>2. QED BY <3>6, <4>1, RecordsRest
    <3>7. QED BY <1>1, <3>1, <3>2, <3>3, <3>4, <3>5, <3>6 DEF RunStep
  <2>2. GraphInv' BY <2>1, GraphUnchanged DEF IInv
  <2>3. ASSUME NEW o \in Runs \ {r} PROVE RunInv(o)'
    <3>1. run'[o] = run[o] BY <1>1, OneActs
    <3>2. QED BY <2>1, <3>1, OthersKeepRun DEF IInv, graph
  <2>4. QED BY <2>1, <2>2, <2>3 DEF IInv
<1>2. ASSUME UNCHANGED vars PROVE IInv'
  <2>1. GraphInv' BY <1>2, GraphUnchanged DEF IInv, vars
  <2>2. TypeInv' BY <1>2 DEF IInv, TypeInv, vars
  <2>3. ASSUME NEW r \in Runs PROVE RunInv(r)'
    BY <1>2, OthersKeepRun DEF IInv, vars, graph, RowsOf
  <2>4. QED BY <2>1, <2>2, <2>3 DEF IInv
<1>3. QED BY <1>1, <1>2, Edits DEF Next

LEMMA ExecutionInv == Spec => []IInv
<1>1. Init => IInv BY InitIInv
<1>2. IInv /\ [Next]_vars => IInv' BY NextIInv
<1>3. QED BY <1>1, <1>2, PTL DEF Spec

\* The rows of runs and step runs, and the locals of every execution, keep their
\* types: a step run names a run, a step and one of three outcomes.
THEOREM ExecutionTypeOK == Spec => []TypeOK
<1>1. IInv => TypeOK BY DEF IInv, TypeInv, TypeOK, Locals
<1>2. QED BY <1>1, ExecutionInv, PTL

\* No step has two outcomes in a run, but a success whose acknowledgement was
\* lost and the failure recorded after it.
THEOREM OneOutcome == Spec => []OneOutcomePerStep
<1>1. ASSUME IInv, NEW r \in Runs, NEW s \in Steps
      PROVE  LET rows == Outcomes(r, s)
             IN  IF s \in run[r].unacknowledged
                 THEN Cardinality(rows) <= 2 /\ \A x \in rows : x.status # "skipped"
                 ELSE Cardinality(rows) <= 1
  <2> DEFINE rows == Outcomes(r, s)
  <2>1. /\ \A x, y \in rows : x # y => x.status # y.status /\ s \in run[r].unacknowledged
        /\ \A x \in rows : x.status \in {"success", "failed", "skipped"}
        /\ s \in run[r].unacknowledged => \A x \in rows : x.status # "skipped"
    BY <1>1 DEF IInv, TypeInv, StepRun, RunInv, WalkHolds, RecordsHold, RowsOf, Outcomes
  <2> HIDE DEF rows
  <2>2. CASE s \notin run[r].unacknowledged
    <3>1. rows = {} \/ \E x : rows = {x}
      <4>1. \A x, y \in rows : x = y BY <2>1, <2>2
      <4>2. QED BY <4>1
    <3>2. Cardinality(rows) \in {0, 1} BY <3>1, FS_EmptySet, FS_Singleton
    <3>3. QED BY <2>2, <3>2 DEF rows
  <2>3. CASE s \in run[r].unacknowledged
    <3>1. rows = {} \/ (\E x : rows = {x}) \/ \E x, y : rows = {x} \cup {y}
      <4>1. ASSUME NEW x \in rows, NEW y \in rows, x # y
            PROVE  rows = {x} \cup {y}
        <5>1. ASSUME NEW z \in rows, z # x, z # y PROVE FALSE
          <6>1. /\ x.status # y.status /\ z.status # x.status /\ z.status # y.status
                /\ {x.status, y.status, z.status} \subseteq {"success", "failed"}
            BY <2>1, <2>3, <4>1, <5>1
          <6>2. QED BY <6>1
        <5>2. QED BY <5>1
      <4>2. CASE \A x, y \in rows : x = y
        <5>1. rows = {} \/ \E x : rows = {x} BY <4>2
        <5>2. QED BY <5>1
      <4>3. CASE \E x, y \in rows : x # y
        <5>1. PICK x \in rows, y \in rows : x # y BY <4>3
        <5>2. rows = {x} \cup {y} BY <4>1, <5>1
        <5>3. QED BY <5>2
      <4>4. QED BY <4>2, <4>3
    <3>2. ASSUME NEW x, NEW y PROVE Cardinality({x} \cup {y}) <= 2
      <4>1. IsFiniteSet({x}) /\ Cardinality({x}) = 1 BY FS_Singleton
      <4>2. Cardinality({x} \cup {y}) \in {1, 1 + 1} BY <4>1, FS_AddElement
      <4>3. QED BY <4>2
    <3>3. Cardinality(rows) <= 2
      <4>1. CASE rows = {} BY <4>1, FS_EmptySet
      <4>2. CASE \E x : rows = {x}
        <5>1. Cardinality(rows) = 1 BY <4>2, FS_Singleton
        <5>2. QED BY <5>1
      <4>3. CASE \E x, y : rows = {x} \cup {y}
        <5>1. PICK x, y : rows = {x} \cup {y} BY <4>3
        <5>2. QED BY <3>2, <5>1
      <4>4. QED BY <3>1, <4>1, <4>2, <4>3
    <3>4. QED BY <2>1, <2>3, <3>3 DEF rows
  <2>4. QED BY <2>2, <2>3
<1>2. IInv => OneOutcomePerStep BY <1>1 DEF OneOutcomePerStep
<1>3. QED BY <1>2, ExecutionInv, PTL

\* A closed run accounts for every step of its snapshot that still exists, and
\* its status agrees with the outcomes and with where the walk ended.
THEOREM ClosedRunAccountsForSteps == Spec => []ClosedRunAccounts
<1>1. ASSUME IInv, NEW r \in Runs, run[r].pc = "done", runStatus[r] # None
      PROVE  /\ \A s \in run[r].steps.rows : workflowOf[s] # None => Outcomes(r, s) # {}
             /\ \A x \in stepRuns :
                  x.run = r /\ x.status = "failed" => runStatus[r] = "failed"
             /\ runStatus[r] = "completed" =>
                  /\ run[r].current # None =>
                       /\ run[r].current \notin run[r].steps.rows
                       /\ run[r].current \in run[r].known =>
                            workflowOf[run[r].current] = None
                  /\ \A s \in run[r].visited \cap run[r].steps.rows :
                       workflowOf[s] # None => \E x \in Outcomes(r, s) : x.status = "success"
  <2>1. WalkHolds(r) /\ RecordsHold(r) /\ AccountHolds(r)
    BY <1>1 DEF IInv, RunInv
  <2>2. runStatus[r] = run[r].status
    BY <1>1, <2>1 DEF AccountHolds
  <2>3. \A s \in run[r].steps.rows : workflowOf[s] # None =>
          \E x \in Outcomes(r, s) :
            s \in run[r].visited /\ run[r].status = "completed" => x.status = "success"
    BY <1>1, <2>1 DEF AccountHolds, RowsOf, Outcomes, Walking, InStep, Ended
  <2>4. \A x \in stepRuns : x.run = r /\ x.status = "failed" => runStatus[r] = "failed"
    BY <2>1, <2>2 DEF RecordsHold, RowsOf
  <2>5. runStatus[r] = "completed" /\ run[r].current # None =>
          /\ run[r].current \notin run[r].steps.rows
          /\ run[r].current \in run[r].known => workflowOf[run[r].current] = None
    BY <1>1, <2>1, <2>2 DEF WalkHolds, Ended
  <2>6. QED BY <2>2, <2>3, <2>4, <2>5
<1>2. IInv => ClosedRunAccounts BY <1>1 DEF ClosedRunAccounts
<1>3. QED BY <1>2, ExecutionInv, PTL

\* A run never leaves the graph it read.
THEOREM ExecutesWithinSnapshot == Spec => []ExecutesOnlyReachable
<1>1. IInv => ExecutesOnlyReachable
  BY DEF IInv, RunInv, PathHolds, ExecutesOnlyReachable
<1>2. QED BY <1>1, ExecutionInv, PTL
===============================================================================
