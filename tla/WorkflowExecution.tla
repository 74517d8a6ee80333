-------------------------- MODULE WorkflowExecution --------------------------
(***************************************************************************)
(* WorkflowExecutionService.execute running beside the edits of            *)
(* WorkflowGraph.  An execution reads the workflow, its steps and its      *)
(* edges in three statements, then walks that snapshot: it awaits a step's *)
(* executor, records the outcome, and follows an edge, until no step is    *)
(* left; then it records the steps it skipped and closes the run.          *)
(***************************************************************************)
EXTENDS Integers, FiniteSets, Reachability

CONSTANTS
    Workflows, Steps, Branches, StepTypes, GivenOrders, MaxStepOrder, Requests,
    None,
    Runs,           \* executions, and the run rows they insert
    DefaultBranch   \* 'default'

ASSUME DefaultIsABranch == DefaultBranch \in Branches
ASSUME NoneIsNoValue ==
    None \notin Workflows \cup Steps \cup Branches \cup StepTypes \cup Nat
                \cup {"running", "completed", "failed"}
ASSUME OrdersAreNatural == GivenOrders \subseteq Nat /\ MaxStepOrder \in Nat

VARIABLES
    workflows, usedWorkflows, entryStepId, workflowOf, usedSteps, stepOrder,
    stepType, configType, edges, request,   \* see WorkflowGraph
    run,            \* local variables of each execution
    runStatus,      \* workflow_runs.status; None where there is no row
    stepRuns        \* rows of workflow_step_runs

Graph == INSTANCE WorkflowGraph

graph == <<workflows, usedWorkflows, entryStepId, workflowOf, usedSteps,
           stepOrder, stepType, configType, edges, request>>
vars == <<graph, run, runStatus, stepRuns>>

\* Where an execution stands.  A "rejected" one has thrown; an "aborted" one
\* died with its process or its database connection.
PC == {"idle", "list", "insertRun", "loop", "executor", "recordSuccess",
       "recordFailure", "recordSkipped", "closeRun", "done", "rejected", "aborted"}

\* Rows of one step in one run are told apart by their number, up to a bound.
MaxOutcomes == 3
StepRun == [run : Runs, step : Steps, status : {"success", "failed", "skipped"},
            nth : 1..MaxOutcomes]

\* null is a value of current; NotRead stands for a list not yet read.
NotRead == [read |-> FALSE, rows |-> {}]
Read(rows) == [read |-> TRUE, rows |-> rows]

NotStarted ==
    [pc |-> "idle", workflow |-> None, entry |-> None, current |-> None,
     steps |-> NotRead, conditions |-> {}, edges |-> NotRead, visited |-> {}, branch |-> None,
     status |-> "completed",
     known |-> {},              \* history: ids handed out before the steps were listed
     unacknowledged |-> {}]     \* history: successes stored whose INSERT failed

InitRuns ==
    /\ run = [r \in Runs |-> NotStarted]
    /\ runStatus = [r \in Runs |-> None]
    /\ stepRuns = {}

Init == Graph!Init /\ InitRuns

Goto(r, pc) == run' = [run EXCEPT ![r].pc = pc]

Outcomes(r, s) == {x \in stepRuns : x.run = r /\ x.step = s}

\* The rows an INSERT adds for some steps.
NewStepRuns(r, steps, status) ==
    {[run |-> r, step |-> s, status |-> status,
      nth |-> LET rows == Cardinality(Outcomes(r, s))
              IN  IF rows < MaxOutcomes THEN rows + 1 ELSE MaxOutcomes] : s \in steps}

\* The foreign keys of a step run: its run and its step must still exist.
StepRunAccepted(r, s) == runStatus[r] # None /\ workflowOf[s] # None

-----------------------------------------------------------------------------
\* findOne: the entry pointer is read here, before the steps and the edges.
Execute(r, w) ==
    /\ run[r].pc = "idle"
    /\ w \in workflows
    /\ run' = [run EXCEPT ![r].pc = "list", ![r].workflow = w,
                          ![r].entry = entryStepId[w],
                          ![r].current = entryStepId[w]]
    /\ UNCHANGED <<graph, runStatus, stepRuns>>

\* listSteps and listEdges, in parallel and so in either order; each first
\* makes sure that the workflow exists.
ListSteps(r) ==
    /\ run[r].pc = "list" /\ ~run[r].steps.read
    /\ run[r].workflow \in workflows
    /\ run' = [run EXCEPT
         ![r].steps = Read(Graph!StepsOf(run[r].workflow)),
         ![r].conditions = {s \in Graph!StepsOf(run[r].workflow) :
                                stepType[s] = "condition"},
         ![r].known = usedSteps]
    /\ UNCHANGED <<graph, runStatus, stepRuns>>

ListEdges(r) ==
    /\ run[r].pc = "list" /\ ~run[r].edges.read
    /\ run[r].workflow \in workflows
    /\ run' = [run EXCEPT ![r].edges = Read(Graph!EdgesOf(run[r].workflow))]
    /\ UNCHANGED <<graph, runStatus, stepRuns>>

ListFails(r) ==
    /\ run[r].pc = "list" /\ run[r].workflow \notin workflows
    /\ ~(run[r].steps.read /\ run[r].edges.read)
    /\ Goto(r, "rejected")
    /\ UNCHANGED <<graph, runStatus, stepRuns>>

\* Both lists are there: no steps and no entry step are 400 errors.
Listed(r) ==
    LET q == run[r]
    IN  /\ q.pc = "list" /\ q.steps.read /\ q.edges.read
        /\ Goto(r, IF q.steps.rows = {} \/ q.current = None
                   THEN "rejected" ELSE "insertRun")
        /\ UNCHANGED <<graph, runStatus, stepRuns>>

\* INSERT of the run row, which its foreign key may reject.
InsertRun(r) ==
    /\ run[r].pc = "insertRun"
    /\ IF run[r].workflow \in workflows
       THEN /\ runStatus' = [runStatus EXCEPT ![r] = "running"]
            /\ Goto(r, "loop")
       ELSE /\ runStatus' = runStatus
            /\ Goto(r, "rejected")
    /\ UNCHANGED <<graph, stepRuns>>

\* Mutant of maxSteps: one too few.
maxStepsTight(r) == Cardinality(run[r].steps.rows)

maxSteps(r) == Cardinality(run[r].steps.rows) + 1

LoopEnds(r) ==
    run[r].current = None \/ Cardinality(run[r].visited) >= maxSteps(r)

\* Mutant of LoopHead: no check for visited steps, the cap alone ends the loop.
LoopHeadCapOnly(r) ==
    LET q == run[r]
        s == q.current
    IN  /\ q.pc = "loop"
        /\ run' = [run EXCEPT ![r] =
             IF LoopEnds(r) THEN [q EXCEPT !.pc = "recordSkipped"]
             ELSE [q EXCEPT !.pc = IF s \in q.steps.rows THEN "executor"
                                   ELSE "recordSkipped",
                            !.visited = @ \cup {s}]]
        /\ UNCHANGED <<graph, runStatus, stepRuns>>

\* The head of the loop, up to the call of the executor.
LoopHead(r) ==
    LET q == run[r]
        s == q.current
    IN  /\ q.pc = "loop"
        /\ run' = [run EXCEPT ![r] =
             IF LoopEnds(r) THEN [q EXCEPT !.pc = "recordSkipped"]
             ELSE IF s \in q.visited
             THEN [q EXCEPT !.pc = "recordSkipped", !.status = "failed"]
             ELSE [q EXCEPT !.pc = IF s \in q.steps.rows THEN "executor"
                                   ELSE "recordSkipped",
                            !.visited = @ \cup {s}]]
        /\ UNCHANGED <<graph, runStatus, stepRuns>>

\* The executor returns; a condition step's output names a branch or null.
ExecutorReturns(r, branch) ==
    /\ run[r].pc = "executor"
    /\ branch # None => run[r].current \in run[r].conditions
    /\ run' = [run EXCEPT ![r].pc = "recordSuccess", ![r].branch = branch]
    /\ UNCHANGED <<graph, runStatus, stepRuns>>

ExecutorThrows(r) ==
    /\ run[r].pc = "executor"
    /\ Goto(r, "recordFailure")
    /\ UNCHANGED <<graph, runStatus, stepRuns>>

Targets(q, branch) ==
    {e.to : e \in {f \in q.edges.rows : f.from = q.current /\ f.branch = branch}}

\* resolveNextStepId: the matching branch, else the default one, else the end.
resolveNextStepId(q) ==
    LET branch == IF q.current \in q.conditions /\ q.branch # None
                  THEN q.branch ELSE DefaultBranch
        matched == IF Targets(q, branch) # {} THEN Targets(q, branch)
                   ELSE Targets(q, DefaultBranch)
    IN  IF matched = {} THEN None ELSE CHOOSE s \in matched : TRUE

\* The INSERT of the outcome is inside the try: when it is rejected, the
\* catch records a failure.
RecordSuccess(r) ==
    LET q == run[r]
    IN  /\ q.pc = "recordSuccess"
        /\ IF StepRunAccepted(r, q.current)
           THEN /\ stepRuns' = stepRuns \cup
                     NewStepRuns(r, {q.current}, "success")
                /\ run' = [run EXCEPT ![r].pc = "loop", ![r].branch = None,
                                      ![r].current = resolveNextStepId(q)]
           ELSE /\ stepRuns' = stepRuns
                /\ run' = [run EXCEPT ![r].pc = "recordFailure", ![r].branch = None]
        /\ UNCHANGED <<graph, runStatus>>

\* The INSERT succeeds and its acknowledgement is lost: the catch records a
\* failure beside the success.
RecordSuccessUnacknowledged(r) ==
    LET q == run[r]
    IN  /\ q.pc = "recordSuccess" /\ StepRunAccepted(r, q.current)
        /\ stepRuns' = stepRuns \cup NewStepRuns(r, {q.current}, "success")
        /\ run' = [run EXCEPT ![r].pc = "recordFailure", ![r].branch = None,
                              ![r].unacknowledged = @ \cup {q.current}]
        /\ UNCHANGED <<graph, runStatus>>

\* Mutant of RecordFailure: the run keeps its status.
RecordFailureSilently(r) ==
    LET q == run[r]
    IN  /\ q.pc = "recordFailure"
        /\ IF StepRunAccepted(r, q.current)
           THEN /\ stepRuns' = stepRuns \cup
                     NewStepRuns(r, {q.current}, "failed")
                /\ run' = [run EXCEPT ![r].pc = "loop", ![r].current = None]
           ELSE stepRuns' = stepRuns /\ Goto(r, "rejected")
        /\ UNCHANGED <<graph, runStatus>>

\* The INSERT in the catch is not: when it is rejected, execute throws.
RecordFailure(r) ==
    LET q == run[r]
    IN  /\ q.pc = "recordFailure"
        /\ IF StepRunAccepted(r, q.current)
           THEN /\ stepRuns' = stepRuns \cup
                     NewStepRuns(r, {q.current}, "failed")
                /\ run' = [run EXCEPT ![r].pc = "loop", ![r].status = "failed",
                                      ![r].current = None]
           ELSE stepRuns' = stepRuns /\ Goto(r, "rejected")
        /\ UNCHANGED <<graph, runStatus>>

\* Mutant of RecordSkipped: the filter is lost.
RecordSkippedUnfiltered(r) ==
    LET skipped == run[r].steps.rows
    IN  /\ run[r].pc = "recordSkipped"
        /\ IF \A s \in skipped : StepRunAccepted(r, s)
           THEN /\ stepRuns' = stepRuns \cup
                     NewStepRuns(r, skipped, "skipped")
                /\ Goto(r, "closeRun")
           ELSE stepRuns' = stepRuns /\ Goto(r, "rejected")
        /\ UNCHANGED <<graph, runStatus>>

\* One INSERT for all steps of the snapshot that were not visited.
RecordSkipped(r) ==
    LET skipped == run[r].steps.rows \ run[r].visited
    IN  /\ run[r].pc = "recordSkipped"
        /\ IF \A s \in skipped : StepRunAccepted(r, s)
           THEN /\ stepRuns' = stepRuns \cup
                     NewStepRuns(r, skipped, "skipped")
                /\ Goto(r, "closeRun")
           ELSE stepRuns' = stepRuns /\ Goto(r, "rejected")
        /\ UNCHANGED <<graph, runStatus>>

\* Mutant of CloseRun: the status of a step written to a run.
CloseRunAsStep(r) ==
    /\ run[r].pc = "closeRun"
    /\ runStatus' = IF runStatus[r] = None THEN runStatus
                    ELSE [runStatus EXCEPT ![r] =
                           IF run[r].status = "failed" THEN "failed" ELSE "success"]
    /\ Goto(r, "done")
    /\ UNCHANGED <<graph, stepRuns>>

\* The final UPDATE, which matches no row when the workflow is gone.
CloseRun(r) ==
    /\ run[r].pc = "closeRun"
    /\ runStatus' = IF runStatus[r] = None THEN runStatus
                    ELSE [runStatus EXCEPT ![r] = run[r].status]
    /\ Goto(r, "done")
    /\ UNCHANGED <<graph, stepRuns>>

Active(r) == run[r].pc \notin {"idle", "done", "rejected", "aborted"}

Abort(r) ==
    /\ Active(r)
    /\ Goto(r, "aborted")
    /\ UNCHANGED <<graph, runStatus, stepRuns>>

RunStep(r) ==
    \/ ListSteps(r) \/ ListEdges(r) \/ ListFails(r) \/ Listed(r)
    \/ InsertRun(r) \/ LoopHead(r)
    \/ \E branch \in Branches \cup {None} : ExecutorReturns(r, branch)
    \/ ExecutorThrows(r)
    \/ RecordSuccess(r)
    \/ RecordSuccessUnacknowledged(r) \/ RecordFailure(r) \/ RecordSkipped(r)
    \/ CloseRun(r)

\* An edit, with the cascades from workflows and workflow_steps to the rows
\* of runs and step runs.
Edit ==
    /\ Graph!Next
    /\ runStatus' = [r \in Runs |->
         IF run[r].workflow \in workflows' THEN runStatus[r] ELSE None]
    /\ stepRuns' = {x \in stepRuns :
         runStatus'[x.run] # None /\ workflowOf'[x.step] # None}
    /\ run' = run

Next ==
    \/ Edit
    \/ \E r \in Runs, w \in Workflows : Execute(r, w)
    \/ \E r \in Runs : RunStep(r) \/ Abort(r)

\* Node schedules every pending await, and every call an executor makes ends:
\* each has a timeout or a peer that answers or closes the connection.
Fairness == \A r \in Runs : WF_vars(RunStep(r))

Spec == Init /\ [][Next]_vars /\ Fairness

-----------------------------------------------------------------------------
TypeOK ==
    /\ runStatus \in [Runs -> {"running", "completed", "failed", None}]
    /\ stepRuns \subseteq StepRun
    /\ \A r \in Runs :
         /\ run[r].pc \in PC
         /\ run[r].workflow \in Workflows \cup {None}
         /\ run[r].entry \in Steps \cup {None}
         /\ run[r].current \in Steps \cup {None}
         /\ run[r].visited \subseteq Steps /\ run[r].conditions \subseteq Steps
         /\ run[r].steps \in [read : BOOLEAN, rows : SUBSET Steps]
         /\ run[r].edges \in [read : BOOLEAN, rows : SUBSET Graph!Edge]
         /\ run[r].branch \in Branches \cup {None}
         /\ run[r].status \in {"completed", "failed"}
         /\ run[r].known \subseteq Steps /\ run[r].unacknowledged \subseteq Steps

\* A run never records two outcomes for a step: nothing is executed twice, and
\* nothing executed is also recorded as skipped, also when the snapshot holds a
\* cycle or misses a step.  Only a step whose success was stored without
\* acknowledgement may have a failure too, and never a third row.
OneOutcomePerStep ==
    \A r \in Runs, s \in Steps :
        LET rows == Outcomes(r, s)
        IN  IF s \in run[r].unacknowledged
            THEN Cardinality(rows) <= 2 /\ \A x \in rows : x.status # "skipped"
            ELSE Cardinality(rows) <= 1

\* A closed run that is still there accounts for every step of its snapshot
\* that is still there, and its status agrees with them.  A failed step fails
\* the run.  A completed one came to the end of its path: to a step that no
\* edge leads on from, or to one that was deleted or added while the run read
\* its snapshot, and then every step it visited before has succeeded.
ClosedRunAccounts ==
    \A r \in Runs :
        run[r].pc = "done" /\ runStatus[r] # None =>
            /\ \A s \in run[r].steps.rows :
                 workflowOf[s] # None => Outcomes(r, s) # {}
            /\ \A x \in stepRuns :
                 x.run = r /\ x.status = "failed" => runStatus[r] = "failed"
            /\ runStatus[r] = "completed" =>
                 /\ run[r].current # None =>
                      /\ run[r].current \notin run[r].steps.rows
                      /\ run[r].current \in run[r].known => workflowOf[run[r].current] = None
                 /\ \A s \in run[r].visited \cap run[r].steps.rows :
                      workflowOf[s] # None => \E x \in Outcomes(r, s) : x.status = "success"

\* Every step a run executes can be reached from the entry step it read along
\* the edges it read: a run never leaves its snapshot while that is edited.
ExecutesOnlyReachable ==
    \A r \in Runs : \A s \in run[r].visited :
        Reachable(Steps, Graph!Arcs(run[r].edges.rows), run[r].entry, s)

\* Every execution ends, also on a snapshot with a cycle.
ExecutionEnds == \A r \in Runs : run[r].pc = "list" ~> ~Active(r)

\* "Every step in the workflow gets a recorded outcome for this run": when
\* execute is over, without a crash, and the run row is there.
EveryStepHasOutcome ==
    \A r \in Runs :
        run[r].pc \in {"done", "rejected"} /\ runStatus[r] # None =>
            \A s \in run[r].steps.rows :
                workflowOf[s] # None => Outcomes(r, s) # {}
==============================================================================
