------------------------- MODULE MCWorkflowExecution -------------------------
(***************************************************************************)
(* Small instances of WorkflowExecution.  Starting from the empty database *)
(* spends the bound on building a graph, so one specification starts from  *)
(* every graph the editor can have built: WorkflowGraph shows that two     *)
(* concurrent addEdge requests can even build a cyclic one.                *)
(***************************************************************************)
EXTENDS WorkflowExecution, TLC

\* One outgoing edge per branch, no edge from a step to itself.
BuiltEdges(w, built) ==
    {es \in SUBSET [workflow : {w}, from : built, to : built, branch : Branches] :
        /\ \A e \in es : e.from # e.to
        /\ \A e, f \in es : e.from = f.from /\ e.branch = f.branch => e = f}

\* One workflow with all the steps, or with only one of them, an entry step or
\* none, and any edges.  Which step is the entry, or the only one, is a renaming:
\* all edges and types are tried, and a run does not look at the order.
SomeStep == CHOOSE s \in Steps : TRUE
BuiltInit ==
    /\ \E w \in Workflows, built \in {Steps, {SomeStep}} :
         /\ workflows = {w} /\ usedWorkflows = {w}
         /\ \E entry \in {SomeStep, None} :
              entryStepId = [x \in Workflows |-> IF x = w THEN entry ELSE None]
         /\ workflowOf = [s \in Steps |-> IF s \in built THEN w ELSE None]
         /\ edges \in BuiltEdges(w, built)
         /\ usedSteps = built
         /\ stepType \in [Steps -> StepTypes \cup {None}]
         /\ \A s \in Steps : stepType[s] = None <=> s \notin built
    /\ stepOrder = CHOOSE f \in [Steps -> 0..MaxStepOrder] :
                       \A s, t \in Steps : f[s] = f[t] => s = t
    /\ configType = stepType
    /\ request = [r \in Requests |-> Graph!Idle]
    /\ InitRuns

\* Requests are of interest where they add a step after a run has listed the
\* steps, and then the edges to it that the run may list yet: elsewhere they only
\* multiply the states.
RequestsAdd ==
    request' # request =>
        \E r \in Runs :
            /\ run[r].pc = "list" /\ run[r].steps.read /\ run[r].known # Steps
            /\ \A q \in Requests : request'[q].pc \in
                 IF usedSteps = run[r].known THEN {"nextStepOrder", "insertStep", "idle"}
                 ELSE {"canReach", "insertEdge", "idle"}

BuiltSpec == BuiltInit /\ [][Next /\ RequestsAdd]_vars /\ Fairness

Symmetry == Permutations(Steps)
==============================================================================
