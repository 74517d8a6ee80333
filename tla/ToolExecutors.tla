---------------------------- MODULE ToolExecutors ----------------------------
(***************************************************************************)
(* One call of ToolsService.execute, by the executor of its type: the HTTP *)
(* request under its abort timer, the worker thread of a custom script     *)
(* under its hard timer, the database query.  What a server, a script or a *)
(* database does is chosen freely.  Sizes are in units of a few characters *)
(* and stand for the bytes the code counts; the pool a query runs on is    *)
(* the module DatabaseToolPool.                                            *)
(***************************************************************************)
EXTENDS Integers, Sequences

CONSTANTS
    MaxBytes,   \* MAX_RESPONSE_BYTES
    MaxRows,    \* MAX_ROWS
    Pieces,     \* sizes of a piece of a response body
    RowSets     \* what a query may return: sequences of the sizes of rows

ASSUME LimitsArePositive == MaxBytes \in Nat \ {0} /\ MaxRows \in Nat \ {0}
ASSUME SizesArePositive == Pieces \subseteq Nat \ {0} /\ RowSets \subseteq Seq(Nat \ {0})

VARIABLES
    call,       \* the row handed to the executor, and where the executor is
    answer,     \* the ToolExecutionResult
    abortTimer, aborted, response, received, bodyEnded,   \* HTTP
    hardTimer, worker, posted, events,                    \* custom JavaScript
    rows                                                  \* database

httpVars == <<abortTimer, aborted, response, received, bodyEnded>>
jsVars == <<hardTimer, worker, posted, events>>
executorVars == <<call, answer, httpVars, jsVars, rows>>

ToolTypes == {"http", "custom_js", "database"}
Messages == {"ok", "failed", "large"}

Result(ok, kept, truncated) == [ok |-> ok, kept |-> kept, truncated |-> truncated]
NoAnswer == Result(FALSE, 0, FALSE)
Failed == Result(FALSE, 0, FALSE)

ExecutorTypeOK ==
    /\ call \in [phase : {"idle", "fetching", "reading", "cancelling", "script",
                          "query", "answered", "rejected"},
                 type : ToolTypes, config : ToolTypes \cup {"null"}]
    /\ answer \in [ok : BOOLEAN, kept : Nat, truncated : BOOLEAN]
    /\ abortTimer \in BOOLEAN /\ aborted \in BOOLEAN /\ bodyEnded \in BOOLEAN
    /\ response \in {"none", "ok", "error"} /\ received \in Nat
    /\ hardTimer \in BOOLEAN
    /\ worker \in {"none", "running", "leaving", "terminating", "exited"}
    /\ posted \in Messages \cup {"none"}
    /\ events \in Seq(Messages \cup {"error", "exit"})
    /\ rows \in Seq(Nat)

ExecutorInit ==
    /\ call = [phase |-> "idle", type |-> "http", config |-> "http"]
    /\ answer = NoAnswer
    /\ abortTimer = FALSE /\ aborted = FALSE /\ response = "none"
    /\ received = 0 /\ bodyEnded = FALSE
    /\ hardTimer = FALSE /\ worker = "none" /\ posted = "none" /\ events = <<>>
    /\ rows = <<>>

At(phase) == call.phase = phase
Answer(result) ==
    /\ call' = [call EXCEPT !.phase = "answered"]
    /\ answer' = result
Begin(tool, phase) == call' = [phase |-> phase, type |-> tool.type, config |-> tool.config]

-----------------------------------------------------------------------------
\* HTTP.  new URL() comes before the try: with the config of another type, or
\* none, it throws, and the call rejects.
ExecuteHttp(tool) ==
    /\ At("idle") /\ tool.type = "http"
    /\ \/ tool.config = "http" /\ Begin(tool, "fetching") /\ abortTimer' = TRUE
       \/ tool.config # "http" /\ Begin(tool, "rejected") /\ UNCHANGED abortTimer
    /\ UNCHANGED <<answer, aborted, response, received, bodyEnded, jsVars, rows>>

InRequest == call.phase \in {"fetching", "reading", "cancelling"}

\* fetch resolves with a response, of a status that is ok or not.
Responds(status) ==
    /\ At("fetching")
    /\ call' = [call EXCEPT !.phase = "reading"]
    /\ response' = status
    /\ UNCHANGED <<answer, abortTimer, aborted, received, bodyEnded, jsVars, rows>>

\* The server ends the body it sends.
BodyEnds ==
    /\ At("reading") /\ ~bodyEnded
    /\ bodyEnded' = TRUE
    /\ UNCHANGED <<call, answer, abortTimer, aborted, response, received, jsVars, rows>>

\* readWithLimit reads one piece; the one that exceeds the limit is dropped and
\* the reader cancelled.
ReadPiece(size) ==
    /\ At("reading") /\ ~bodyEnded
    /\ received' = received + size
    /\ IF received' > MaxBytes
       THEN /\ call' = [call EXCEPT !.phase = "cancelling"]
            /\ answer' = Result(response = "ok", received, TRUE)
       ELSE UNCHANGED <<call, answer>>
    /\ UNCHANGED <<abortTimer, aborted, response, bodyEnded, jsVars, rows>>

CancelResolves ==
    /\ At("cancelling")
    /\ Answer(answer)
    /\ abortTimer' = FALSE
    /\ UNCHANGED <<aborted, response, received, bodyEnded, jsVars, rows>>

ReadDone ==
    /\ At("reading") /\ bodyEnded
    /\ Answer(Result(response = "ok", received, FALSE))
    /\ abortTimer' = FALSE
    /\ UNCHANGED <<aborted, response, received, bodyEnded, jsVars, rows>>

\* Mutant of AbortFires: the timer was cleared when the response came.
AbortFiresFetchOnly ==
    /\ abortTimer /\ At("fetching")
    /\ abortTimer' = FALSE /\ aborted' = TRUE
    /\ UNCHANGED <<call, answer, response, received, bodyEnded, jsVars, rows>>

AbortFires ==
    /\ abortTimer
    /\ abortTimer' = FALSE /\ aborted' = TRUE
    /\ UNCHANGED <<call, answer, response, received, bodyEnded, jsVars, rows>>

\* What is awaited rejects: the network failed, or the signal was aborted.
RequestRejects ==
    /\ InRequest
    /\ Answer(Failed)
    /\ abortTimer' = FALSE
    /\ UNCHANGED <<aborted, response, received, bodyEnded, jsVars, rows>>

-----------------------------------------------------------------------------
\* Custom JavaScript.  The Worker starts, or its constructor throws.
ExecuteScript(tool) ==
    /\ At("idle") /\ tool.type = "custom_js"
    /\ \/ /\ Begin(tool, "script")
          /\ worker' = "running" /\ hardTimer' = TRUE
       \/ /\ Begin(tool, "answered")
          /\ UNCHANGED <<worker, hardTimer>>
    /\ UNCHANGED <<answer, httpVars, posted, events, rows>>

\* The script settles: the worker posts its result or its error, and has
\* nothing left to do.  A script that never settles takes no step.
WorkerPosts(message) ==
    /\ worker = "running"
    /\ worker' = "leaving" /\ posted' = message
    /\ events' = Append(events, message)
    /\ UNCHANGED <<call, answer, httpVars, hardTimer, rows>>

\* Code that does not compile, or memory over its limit.
WorkerErrs ==
    /\ worker = "running"
    /\ worker' = "leaving"
    /\ events' = Append(events, "error")
    /\ UNCHANGED <<call, answer, httpVars, hardTimer, posted, rows>>

\* The thread ends by itself, also without a word.
WorkerExits ==
    /\ worker \in {"running", "leaving"}
    /\ worker' = "exited"
    /\ events' = Append(events, "exit")
    /\ UNCHANGED <<call, answer, httpVars, hardTimer, posted, rows>>

\* The thread ends because terminate() was called.
TerminationEnds ==
    /\ worker = "terminating"
    /\ worker' = "exited"
    /\ events' = Append(events, "exit")
    /\ UNCHANGED <<call, answer, httpVars, hardTimer, posted, rows>>

\* What execute makes of the message its worker promise resolves with.
scriptResult(message) ==
    CASE message = "ok" -> Result(TRUE, 1, FALSE)
      [] message = "large" -> Result(FALSE, 0, TRUE)
      [] OTHER -> Failed

\* Mutant of finish: the worker is left to itself.
finishKeepsWorker(message) ==
    IF At("script")
    THEN /\ Answer(scriptResult(message))
         /\ hardTimer' = FALSE
         /\ UNCHANGED worker
    ELSE UNCHANGED <<call, answer, hardTimer, worker>>

\* finish: the first of message, error, exit and timeout settles the call.
finish(message) ==
    IF At("script")
    THEN /\ Answer(scriptResult(message))
         /\ hardTimer' = FALSE
         /\ worker' = IF worker = "exited" THEN "exited" ELSE "terminating"
    ELSE UNCHANGED <<call, answer, hardTimer, worker>>

HandleEvent ==
    /\ events # <<>>
    /\ events' = Tail(events)
    /\ finish(Head(events))
    /\ UNCHANGED <<httpVars, posted, rows>>

HardTimeoutFires ==
    /\ hardTimer
    /\ finish("timeout")
    /\ UNCHANGED <<httpVars, posted, events, rows>>

-----------------------------------------------------------------------------
\* Database.  The guard against statements other than SELECT throws on the
\* config of another type or none, inside the try.
ExecuteQuery(tool) ==
    /\ At("idle") /\ tool.type = "database"
    /\ Begin(tool, IF tool.config = "database" THEN "query" ELSE "answered")
    /\ UNCHANGED <<answer, httpVars, jsVars, rows>>

\* What the first n rows add up to.
bytes(result, n) ==
    LET sum[i \in 0..Len(result)] == IF i = 0 THEN 0 ELSE sum[i - 1] + result[i]
    IN  sum[n]

\* Mutant of capRows: the row that exceeds the limit is still taken.
capRowsKeepsLast(result) ==
    LET over == {i \in DOMAIN result : bytes(result, i) > MaxBytes}
    IN  IF Len(result) > MaxRows THEN Result(TRUE, MaxRows, TRUE)
        ELSE IF over = {} THEN Result(TRUE, Len(result), FALSE)
        ELSE Result(TRUE, CHOOSE i \in over : \A j \in over : i <= j, TRUE)

\* Mutant of capRows: a result of exactly as many rows is cut as well.
capRowsAtLimit(result) ==
    LET over == {i \in DOMAIN result : bytes(result, i) > MaxBytes}
    IN  IF Len(result) >= MaxRows THEN Result(TRUE, MaxRows, TRUE)
        ELSE IF over = {} THEN Result(TRUE, Len(result), FALSE)
        ELSE Result(TRUE, (CHOOSE i \in over : \A j \in over : i <= j) - 1, TRUE)

\* capRows: the limit on rows first, and the limit on bytes for the others.
capRows(result) ==
    LET over == {i \in DOMAIN result : bytes(result, i) > MaxBytes}
    IN  IF Len(result) > MaxRows THEN Result(TRUE, MaxRows, TRUE)
        ELSE IF over = {} THEN Result(TRUE, Len(result), FALSE)
        ELSE Result(TRUE, (CHOOSE i \in over : \A j \in over : i <= j) - 1, TRUE)

QueryAnswers(result) ==
    /\ At("query")
    /\ rows' = result
    /\ Answer(capRows(result))
    /\ UNCHANGED <<httpVars, jsVars>>

QueryFails ==
    /\ At("query")
    /\ Answer(Failed)
    /\ UNCHANGED <<httpVars, jsVars, rows>>

-----------------------------------------------------------------------------
\* ToolExecutorRegistry.get: the executor of the row's type.
Execute(tool) == ExecuteHttp(tool) \/ ExecuteScript(tool) \/ ExecuteQuery(tool)

ExecutorNext ==
    \/ \E status \in {"ok", "error"} : Responds(status)
    \/ \E size \in Pieces : ReadPiece(size)
    \/ BodyEnds \/ ReadDone \/ CancelResolves \/ AbortFires \/ RequestRejects
    \/ \E message \in Messages : WorkerPosts(message)
    \/ WorkerErrs \/ WorkerExits \/ TerminationEnds \/ HandleEvent \/ HardTimeoutFires
    \/ \E result \in RowSets : QueryAnswers(result)
    \/ QueryFails

\* Timers fire, events are delivered, what was aborted or cancelled settles and
\* a terminated thread ends.  Nothing is assumed of a server, of a script or of
\* a database.
ExecutorFairness ==
    /\ WF_executorVars(AbortFires) /\ WF_executorVars(HardTimeoutFires)
    /\ WF_executorVars(HandleEvent) /\ WF_executorVars(TerminationEnds)
    /\ WF_executorVars(CancelResolves)
    /\ WF_executorVars(aborted /\ RequestRejects)

-----------------------------------------------------------------------------
\* An answer says what happened.  ok means that the server's status was ok,
\* that the script posted its result, or that the query returned; an answer
\* that is not marked truncated is whole, one that is was over a limit and
\* keeps a prefix within it, of rows the longest.  A result of too many rows is
\* held to the limit of rows alone, whatever the bytes of those it keeps.  A
\* call rejects only for an HTTP tool whose config is not one.
AnswersAreTrue ==
    /\ At("rejected") => call.type = "http" /\ call.config # "http"
    /\ At("answered") /\ answer.ok =>
         CASE call.type = "http" ->
                /\ response = "ok" /\ answer.kept <= MaxBytes
                /\ IF answer.truncated THEN received > MaxBytes
                   ELSE bodyEnded /\ answer.kept = received
           [] call.type = "custom_js" -> posted = "ok"
           [] call.type = "database" ->
                /\ answer.kept <= MaxRows
                /\ answer.truncated <=> answer.kept < Len(rows)
                /\ Len(rows) > MaxRows => answer.kept = MaxRows
                /\ Len(rows) <= MaxRows =>
                     /\ bytes(rows, answer.kept) <= MaxBytes
                     /\ answer.truncated => bytes(rows, answer.kept + 1) > MaxBytes
    /\ At("answered") /\ call.type = "custom_js" /\ answer.truncated => posted = "large"

\* Every HTTP and script call settles, and then leaves no timer and no thread
\* behind, whatever the server or the script does.
Quiet ==
    /\ call.phase \in {"answered", "rejected"}
    /\ ~abortTimer /\ ~hardTimer /\ worker \in {"none", "exited"}
EveryCallAnswers == InRequest \/ At("script") ~> Quiet
=============================================================================
