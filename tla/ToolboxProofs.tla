----------------------------- MODULE ToolboxProofs -----------------------------
(***************************************************************************)
(* Proofs about Toolbox and ToolExecutors for any number of tools, agents, *)
(* PATCH requests and rows of a query.  Three things hold the invariant    *)
(* together: what a worker thread has posted when its call settles; what a *)
(* PATCH that is not yet written was validated for, as long as no other    *)
(* PATCH of the tool is in flight; and the organization of the pair that   *)
(* an attach request has checked and not yet inserted.                     *)
(***************************************************************************)
EXTENDS Toolbox, SequenceTheorems, WellFoundedInduction, TLAPS

\* What a call has done so far, phase by phase.
CallHolds ==
    /\ At("idle") => /\ answer = NoAnswer /\ received = 0
                     /\ worker = "none" /\ posted = "none" /\ events = <<>>
    /\ InRequest => call.type = "http"
    /\ At("script") => call.type = "custom_js"
    /\ At("query") => call.type = "database"
    /\ call.phase \in {"fetching", "reading", "script", "query"} => answer = NoAnswer
    /\ call.phase \in {"fetching", "reading"} => received <= MaxBytes
    /\ At("cancelling") =>
         /\ answer.truncated /\ answer.kept <= MaxBytes /\ received > MaxBytes
         /\ answer.ok => response = "ok"

\* A worker posts at most once, and every message event is that one.
WorkerHolds ==
    /\ worker \in {"none", "running"} => posted = "none"
    /\ \A i \in DOMAIN events : events[i] \in Messages => events[i] = posted

ExecutorInv == ExecutorTypeOK /\ CallHolds /\ WorkerHolds /\ AnswersAreTrue

Tables == UNION {[D -> Rows] : D \in SUBSET Tools}

ToolboxType ==
    /\ tools \in Tables
    /\ agents \subseteq Agents /\ agentTools \subseteq Attachments
    /\ updates \in [Updaters -> [tool : Tools \cup {None}, dto : UpdateToolDto,
                                 overlapped : BOOLEAN]]
    /\ attaching \in [agent : Agents \cup {None}, tool : Tools \cup {None}]
    /\ chat \in [agent : Agents \cup {None}, listed : BOOLEAN, tools : Tables]
    /\ caller \in [organization : Organizations, tool : Tools] \cup {NoCaller}
    /\ requests \in 0..MaxRequests
    /\ disturbed \subseteq Tools

\* Two PATCHes of one tool know of each other.  One that is alone would still
\* pass its validation.
UpdatesHold ==
    /\ \A u, v \in Updaters :
         u # v /\ updates[u].tool = updates[v].tool /\ updates[u].tool # None =>
             updates[u].overlapped
    /\ \A u \in Updaters :
         LET t == updates[u].tool
             dto == updates[u].dto
         IN  t \in DOMAIN tools /\ ~updates[u].overlapped /\ dto.config \notin {None, Null} =>
                 dto.config = validatedType(t, dto)

\* The pair an attach request is about to insert.
AttachingHolds ==
    attaching.tool # None =>
        attaching.agent # None /\ OrgOf[attaching.tool] = OrgOf[attaching.agent]

ToolboxInv == UpdatesHold /\ AttachingHolds /\ ConfigIsTrusted /\ ToolsStayInOrganization

IInv == ExecutorInv /\ ToolboxType /\ ToolboxInv

-----------------------------------------------------------------------------
\* The sizes of rows, added up.  The proofs by induction look at the least
\* number for which the claim would fail.

LEMMA LeastNatural ==
    ASSUME NEW T \in SUBSET Nat, T # {}
    PROVE  \E n \in T : \A m \in T : n <= m
<1>1. PICK n \in T : \A m \in T : <<m, n>> \notin OpToRel(<, Nat)
  BY WFMin, NatLessThanWellFounded
<1>2. \A m \in T : ~(m < n) BY <1>1 DEF OpToRel
<1>3. QED BY <1>2

IsSum(f, result, k) ==
    /\ f \in [0..k -> Nat]
    /\ f[0] = 0 /\ \A i \in 1..k : f[i] = f[i - 1] + result[i]

LEMMA SumExists ==
    ASSUME NEW result \in Seq(Nat)
    PROVE  \A k \in 0..Len(result) : \E f : IsSum(f, result, k)
<1> DEFINE T == {k \in 0..Len(result) : ~\E f : IsSum(f, result, k)}
<1> SUFFICES ASSUME T # {} PROVE FALSE OBVIOUS
<1>1. PICK k \in T : \A m \in T : k <= m
  <2>1. T \in SUBSET Nat OBVIOUS
  <2> HIDE DEF T
  <2>2. QED BY <2>1, LeastNatural
<1>2. k # 0
  <2>1. IsSum([i \in 0..0 |-> 0], result, 0) BY DEF IsSum
  <2>2. QED BY <2>1
<1>3. PICK f : IsSum(f, result, k - 1) BY <1>1, <1>2
<1> DEFINE g == [i \in 0..k |-> IF i = k THEN f[k - 1] + result[k] ELSE f[i]]
<1>4. IsSum(g, result, k)
  <2>1. k \in 1..Len(result) /\ result[k] \in Nat BY <1>2
  <2>2. g \in [0..k -> Nat] BY <1>3, <2>1 DEF IsSum
  <2>3. g[0] = 0 BY <1>3, <2>1 DEF IsSum
  <2>4. ASSUME NEW i \in 1..k PROVE g[i] = g[i - 1] + result[i]
    <3>1. CASE i = k
      <4>1. k - 1 \in 0..k /\ k - 1 # k /\ k \in 0..k BY <2>1
      <4>2. g[k - 1] = f[k - 1] /\ g[k] = f[k - 1] + result[k] BY <4>1
      <4>3. QED BY <3>1, <4>2
    <3>2. CASE i # k
      <4>1. i \in 1..(k - 1) /\ i \in 0..k /\ i - 1 \in 0..k /\ i - 1 # k
        BY <2>1, <3>2
      <4>2. f[i] = f[i - 1] + result[i] BY <1>3, <4>1 DEF IsSum
      <4>3. g[i] = f[i] /\ g[i - 1] = f[i - 1] BY <3>2, <4>1
      <4>4. QED BY <4>2, <4>3
    <3>3. QED BY <3>1, <3>2
  <2>5. QED BY <2>2, <2>3, <2>4 DEF IsSum
<1>5. QED BY <1>4

\* bytes is the function its recursive definition describes.
LEMMA BytesSum ==
    ASSUME NEW result \in Seq(Nat)
    PROVE  /\ bytes(result, 0) = 0
           /\ \A i \in 0..Len(result) : bytes(result, i) \in Nat
<1> DEFINE D == 0..Len(result)
           Rec(f) == f = [i \in D |-> IF i = 0 THEN 0 ELSE f[i - 1] + result[i]]
           sum == CHOOSE f : Rec(f)
<1>1. PICK f : IsSum(f, result, Len(result)) BY SumExists
<1>2. Rec(f) BY <1>1 DEF IsSum
<1>3. Rec(sum)
   <2> HIDE DEF Rec
   <2>1. QED BY <1>2
<1>4. \A i \in D : bytes(result, i) = sum[i] BY DEF bytes
<1> HIDE DEF sum
<1>5. \A i \in D : sum[i] = f[i]
  <2> DEFINE T == {i \in D : sum[i] # f[i]}
  <2> SUFFICES ASSUME T # {} PROVE FALSE OBVIOUS
  <2>1. PICK i \in T : \A m \in T : i <= m
    <3>1. T \in SUBSET Nat OBVIOUS
    <3> HIDE DEF T
    <3>2. QED BY <3>1, LeastNatural
  <2>2. i # 0 BY <1>1, <1>3 DEF IsSum
  <2>3. sum[i - 1] = f[i - 1] BY <2>1, <2>2
  <2>4. i \in D /\ f[i] = f[i - 1] + result[i] BY <1>2, <2>2
  <2>5. sum[i] = sum[i - 1] + result[i] BY <1>3, <2>2, <2>4
  <2>6. QED BY <2>3, <2>4, <2>5
<1>6. QED BY <1>1, <1>4, <1>5 DEF IsSum

\* capRows keeps the longest prefix within its limits, and says when it is not
\* the whole.
LEMMA CapRowsKeepsPrefix ==
    ASSUME NEW result \in Seq(Nat)
    PROVE  LET c == capRows(result)
           IN  /\ c \in [ok : BOOLEAN, kept : Nat, truncated : BOOLEAN]
               /\ c.kept <= MaxRows
               /\ c.truncated <=> c.kept < Len(result)
               /\ Len(result) > MaxRows => c.kept = MaxRows
               /\ Len(result) <= MaxRows =>
                    /\ bytes(result, c.kept) <= MaxBytes
                    /\ c.truncated => bytes(result, c.kept + 1) > MaxBytes
<1> USE LimitsArePositive
<1> DEFINE over == {i \in DOMAIN result : bytes(result, i) > MaxBytes}
<1>1. over \in SUBSET Nat /\ over \subseteq 1..Len(result) OBVIOUS
<1>2. capRows(result) =
        IF Len(result) > MaxRows THEN Result(TRUE, MaxRows, TRUE)
        ELSE IF over = {} THEN Result(TRUE, Len(result), FALSE)
        ELSE Result(TRUE, (CHOOSE i \in over : \A j \in over : i <= j) - 1, TRUE)
  BY DEF capRows
<1>3. bytes(result, 0) <= MaxBytes /\ \A i \in 0..Len(result) : bytes(result, i) \in Nat
  BY BytesSum
<1>4. CASE Len(result) > MaxRows BY <1>2, <1>4 DEF Result
<1>5. CASE Len(result) <= MaxRows /\ over = {}
  <2>1. capRows(result) = Result(TRUE, Len(result), FALSE)
    <3> HIDE DEF over
    <3>1. ~(Len(result) > MaxRows) BY <1>5
    <3>2. QED BY <1>2, <1>5, <3>1
  <2>2. bytes(result, Len(result)) <= MaxBytes
    <3>1. CASE Len(result) = 0 BY <1>3, <3>1
    <3>2. CASE Len(result) # 0
      <4>1. Len(result) \in DOMAIN result BY <3>2
      <4>2. QED BY <1>3, <1>5, <4>1
    <3>3. QED BY <3>1, <3>2
  <2>3. QED BY <1>5, <2>1, <2>2 DEF Result
<1>6. CASE Len(result) <= MaxRows /\ over # {}
  <2> DEFINE first == CHOOSE i \in over : \A j \in over : i <= j
  <2>1. first \in over /\ \A j \in over : first <= j
    <3> HIDE DEF over
    <3>1. \E i \in over : \A j \in over : i <= j BY <1>1, <1>6, LeastNatural
    <3>2. QED BY <3>1
  <2>2. capRows(result) = Result(TRUE, first - 1, TRUE)
    <3> HIDE DEF over
    <3>1. ~(Len(result) > MaxRows) BY <1>6
    <3>2. QED BY <1>2, <1>6, <3>1
  <2> HIDE DEF first
  <2>3. first \in 1..Len(result) /\ bytes(result, first) > MaxBytes BY <2>1
  <2>4. bytes(result, first - 1) <= MaxBytes
    <3>1. CASE first = 1 BY <1>3, <3>1
    <3>2. CASE first # 1
      <4>1. first - 1 \in DOMAIN result /\ first - 1 \notin over BY <2>1, <2>3, <3>2
      <4>2. QED BY <1>3, <2>3, <4>1
    <3>3. QED BY <3>1, <3>2
  <2>5. QED BY <1>6, <2>2, <2>3, <2>4 DEF Result
<1>7. QED BY <1>4, <1>5, <1>6

-----------------------------------------------------------------------------
\* One call.

\* Events are taken from the front and added at the back.
LEMMA EventsHold ==
    ASSUME ExecutorInv, NEW message \in Messages \cup {"error", "exit"}
    PROVE  /\ Append(events, message) \in Seq(Messages \cup {"error", "exit"})
           /\ \A i \in DOMAIN Append(events, message) :
                \/ Append(events, message)[i] = message
                \/ \E j \in DOMAIN events : Append(events, message)[i] = events[j]
           /\ events # <<>> =>
                /\ Head(events) \in Messages \cup {"error", "exit"}
                /\ \E j \in DOMAIN events : Head(events) = events[j]
                /\ Tail(events) \in Seq(Messages \cup {"error", "exit"})
                /\ \A i \in DOMAIN Tail(events) :
                     \E j \in DOMAIN events : Tail(events)[i] = events[j]
<1> USE DEF ExecutorInv, ExecutorTypeOK
<1>1. /\ Append(events, message) \in Seq(Messages \cup {"error", "exit"})
      /\ \A i \in DOMAIN Append(events, message) :
           \/ Append(events, message)[i] = message
           \/ i \in DOMAIN events /\ Append(events, message)[i] = events[i]
  OBVIOUS
<1>2. ASSUME events # <<>>
      PROVE  /\ Head(events) \in Messages \cup {"error", "exit"}
             /\ 1 \in DOMAIN events /\ Head(events) = events[1]
             /\ Tail(events) \in Seq(Messages \cup {"error", "exit"})
             /\ \A i \in DOMAIN Tail(events) :
                  i + 1 \in DOMAIN events /\ Tail(events)[i] = events[i + 1]
  BY <1>2
<1>3. QED BY <1>1, <1>2

LEMMA ResultIs ==
    ASSUME NEW ok \in BOOLEAN, NEW kept \in Nat, NEW truncated \in BOOLEAN
    PROVE  LET c == Result(ok, kept, truncated)
           IN  /\ c \in [ok : BOOLEAN, kept : Nat, truncated : BOOLEAN]
               /\ c.ok = ok /\ c.kept = kept /\ c.truncated = truncated
BY DEF Result

\* The answer of a call that failed, or has none yet.
LEMMA FailedIs ==
    /\ Failed \in [ok : BOOLEAN, kept : Nat, truncated : BOOLEAN]
    /\ ~Failed.ok /\ ~Failed.truncated /\ NoAnswer = Failed
BY DEF Failed, NoAnswer, Result

LEMMA AnswerFailed ==
    ASSUME answer' = Failed,
           call'.phase = "rejected" => call'.type = "http" /\ call'.config # "http"
    PROVE  AnswersAreTrue'
<1>1. ~answer'.ok /\ ~answer'.truncated BY FailedIs
<1>2. QED BY <1>1 DEF AnswersAreTrue, At

\* Starting a call.
LEMMA CallStarts ==
    ASSUME ExecutorInv, NEW tool \in Rows, Execute(tool)
    PROVE  ExecutorInv' /\ call'.type = tool.type /\ call'.config = tool.config
<1> USE LimitsArePositive DEF ExecutorInv, CallHolds, At, Begin, Rows, ToolTypes, Null
<1>1. CASE ExecuteHttp(tool)
  <2> USE <1>1 DEF ExecuteHttp, jsVars
  <2>1. ExecutorTypeOK'
    <3>1. abortTimer' \in BOOLEAN BY Zenon DEF ExecutorTypeOK
    <3>2. QED BY <3>1 DEF ExecutorTypeOK
  <2>2. CallHolds' BY DEF InRequest
  <2>3. WorkerHolds' BY DEF WorkerHolds
  <2>4. answer' = Failed BY FailedIs
  <2>5. AnswersAreTrue' BY <2>4, AnswerFailed
  <2>6. QED BY <2>1, <2>2, <2>3, <2>5
<1>2. CASE ExecuteScript(tool)
  <2> USE <1>2 DEF ExecuteScript, httpVars
  <2>1. ExecutorTypeOK'
    <3>1. CASE Begin(tool, "script") /\ worker' = "running" /\ hardTimer' = TRUE
      BY <3>1 DEF ExecutorTypeOK
    <3>2. CASE Begin(tool, "answered") /\ UNCHANGED <<worker, hardTimer>>
      BY <3>2 DEF ExecutorTypeOK
    <3>3. QED BY <3>1, <3>2
  <2>2. CallHolds' BY DEF InRequest
  <2>3. WorkerHolds' BY DEF WorkerHolds
  <2>4. answer' = Failed BY FailedIs
  <2>5. AnswersAreTrue' BY <2>4, AnswerFailed
  <2>6. QED BY <2>1, <2>2, <2>3, <2>5
<1>3. CASE ExecuteQuery(tool)
  <2> USE <1>3 DEF ExecuteQuery, httpVars, jsVars
  <2>1. ExecutorTypeOK'
    <3>1. CASE tool.config = "database" BY <3>1 DEF ExecutorTypeOK
    <3>2. CASE tool.config # "database" BY <3>2 DEF ExecutorTypeOK
    <3>3. QED BY <3>1, <3>2
  <2>2. CallHolds' BY DEF InRequest
  <2>3. WorkerHolds' BY DEF WorkerHolds
  <2>4. answer' = Failed BY FailedIs
  <2>5. AnswersAreTrue' BY <2>4, AnswerFailed
  <2>6. QED BY <2>1, <2>2, <2>3, <2>5
<1>4. QED BY <1>1, <1>2, <1>3 DEF Execute

\* The HTTP request.
LEMMA RequestSteps ==
    ASSUME ExecutorInv,
           \/ \E status \in {"ok", "error"} : Responds(status)
           \/ \E size \in Pieces : ReadPiece(size)
           \/ BodyEnds \/ ReadDone \/ CancelResolves \/ AbortFires \/ RequestRejects
    PROVE  ExecutorInv' /\ call'.type = call.type /\ call'.config = call.config
<1> USE LimitsArePositive, SizesArePositive
    DEF ExecutorInv, At, Answer, jsVars, WorkerHolds
<1>1. ASSUME NEW status \in {"ok", "error"}, Responds(status)
      PROVE  ExecutorInv' /\ call'.type = call.type /\ call'.config = call.config
  <2> USE <1>1 DEF Responds
  <2>1. ExecutorTypeOK' BY DEF ExecutorTypeOK
  <2>2. CallHolds' BY DEF CallHolds, InRequest, ExecutorTypeOK
  <2>3. AnswersAreTrue' BY DEF AnswersAreTrue, ExecutorTypeOK
  <2>4. QED BY <2>1, <2>2, <2>3 DEF ExecutorTypeOK
<1>2. ASSUME NEW size \in Pieces, ReadPiece(size)
      PROVE  ExecutorInv' /\ call'.type = call.type /\ call'.config = call.config
  <2>1. /\ received \in Nat /\ size \in Nat \ {0} /\ received <= MaxBytes
        /\ call.phase = "reading" /\ call.type = "http"
        /\ received' = received + size
        /\ UNCHANGED <<abortTimer, aborted, response, bodyEnded, jsVars, rows>>
    BY <1>2 DEF ReadPiece, CallHolds, InRequest, ExecutorTypeOK
  <2>2. CASE received' <= MaxBytes
    <3>1. UNCHANGED <<call, answer>>
      <4>1. ~(received' > MaxBytes) BY <2>1, <2>2
      <4>2. QED BY <1>2, <4>1 DEF ReadPiece
    <3>2. ExecutorTypeOK' BY <2>1, <3>1 DEF ExecutorTypeOK
    <3>3. CallHolds' BY <2>1, <2>2, <3>1 DEF CallHolds, InRequest
    <3>4. AnswersAreTrue' BY <2>1, <3>1 DEF AnswersAreTrue
    <3>5. QED BY <2>1, <3>1, <3>2, <3>3, <3>4
  <2>3. CASE received' > MaxBytes
    <3>1. /\ call' = [call EXCEPT !.phase = "cancelling"]
          /\ answer' = Result(response = "ok", received, TRUE)
      BY <1>2, <2>3 DEF ReadPiece
    <3>2. (response = "ok") \in BOOLEAN OBVIOUS
    <3>3. /\ answer' \in [ok : BOOLEAN, kept : Nat, truncated : BOOLEAN]
          /\ answer'.ok = (response = "ok") /\ answer'.kept = received
          /\ answer'.truncated = TRUE
      BY <2>1, <3>1, <3>2, ResultIs
    <3>4. /\ call'.phase = "cancelling" /\ call'.type = call.type
          /\ call'.config = call.config
      BY <3>1 DEF ExecutorTypeOK
    <3>5. ExecutorTypeOK'
      <4>1. call' \in [phase : {"idle", "fetching", "reading", "cancelling", "script",
                               "query", "answered", "rejected"},
                      type : ToolTypes, config : ToolTypes \cup {"null"}]
        BY <3>1 DEF ExecutorTypeOK
      <4>2. answer' \in [ok : BOOLEAN, kept : Nat, truncated : BOOLEAN] BY <3>3
      <4>3. QED BY <2>1, <4>1, <4>2 DEF ExecutorTypeOK
    <3>6. CallHolds' BY <2>1, <2>3, <3>3, <3>4 DEF CallHolds, InRequest
    <3>7. AnswersAreTrue' BY <3>4 DEF AnswersAreTrue
    <3>8. QED BY <2>1, <3>4, <3>5, <3>6, <3>7
  <2>4. QED BY <2>1, <2>2, <2>3
<1>3. CASE BodyEnds
  <2> USE <1>3 DEF BodyEnds
  <2>1. ExecutorTypeOK'
    <3>1. bodyEnded' \in BOOLEAN BY Zenon
    <3>2. QED BY <3>1 DEF ExecutorTypeOK
  <2>2. CallHolds' BY DEF CallHolds, InRequest, ExecutorTypeOK
  <2>3. AnswersAreTrue' BY DEF AnswersAreTrue, ExecutorTypeOK
  <2>4. QED BY <2>1, <2>2, <2>3 DEF ExecutorTypeOK
<1>4. CASE ReadDone
  <2> USE <1>4 DEF ReadDone, Result
  <2>1. ExecutorTypeOK'
    <3>1. answer' \in [ok : BOOLEAN, kept : Nat, truncated : BOOLEAN]
      BY ResultIs DEF ExecutorTypeOK
    <3>2. QED BY <3>1 DEF ExecutorTypeOK
  <2>2. CallHolds' BY DEF CallHolds, InRequest, ExecutorTypeOK
  <2>3. AnswersAreTrue' BY DEF AnswersAreTrue, CallHolds, InRequest, ExecutorTypeOK
  <2>4. QED BY <2>1, <2>2, <2>3 DEF ExecutorTypeOK
<1>5. CASE CancelResolves
  <2> USE <1>5 DEF CancelResolves
  <2>1. ExecutorTypeOK'
    <3>1. abortTimer' \in BOOLEAN BY Zenon
    <3>2. QED BY <3>1 DEF ExecutorTypeOK
  <2>2. CallHolds' BY DEF CallHolds, InRequest, ExecutorTypeOK
  <2>3. AnswersAreTrue' BY DEF AnswersAreTrue, CallHolds, InRequest, ExecutorTypeOK
  <2>4. QED BY <2>1, <2>2, <2>3 DEF ExecutorTypeOK
<1>6. CASE AbortFires
  <2> USE <1>6 DEF AbortFires
  <2>1. ExecutorTypeOK'
    <3>1. abortTimer' \in BOOLEAN /\ aborted' \in BOOLEAN BY Zenon
    <3>2. QED BY <3>1 DEF ExecutorTypeOK
  <2>2. CallHolds' BY DEF CallHolds, InRequest, ExecutorTypeOK
  <2>3. AnswersAreTrue' BY DEF AnswersAreTrue, ExecutorTypeOK
  <2>4. QED BY <2>1, <2>2, <2>3 DEF ExecutorTypeOK
<1>7. CASE RequestRejects
  <2> USE <1>7 DEF RequestRejects
  <2>1. ExecutorTypeOK'
    <3>1. abortTimer' \in BOOLEAN BY Zenon
    <3>2. QED BY <3>1, FailedIs DEF ExecutorTypeOK
  <2>2. CallHolds' BY DEF CallHolds, InRequest, ExecutorTypeOK
  <2>3. AnswersAreTrue' BY AnswerFailed DEF ExecutorTypeOK
  <2>4. QED BY <2>1, <2>2, <2>3 DEF ExecutorTypeOK
<1>8. QED BY <1>1, <1>2, <1>3, <1>4, <1>5, <1>6, <1>7

\* What the worker thread does leaves the call alone.
LEMMA WorkerSteps ==
    ASSUME ExecutorInv,
           \/ \E message \in Messages : WorkerPosts(message)
           \/ WorkerErrs \/ WorkerExits \/ TerminationEnds
    PROVE  ExecutorInv' /\ UNCHANGED call
<1>1. PICK message \in Messages \cup {"error", "exit"} :
        /\ events' = Append(events, message)
        /\ UNCHANGED <<call, answer, httpVars, hardTimer, rows>>
        /\ \/ /\ worker = "running" /\ worker' = "leaving"
              /\ message \in Messages /\ posted' = message
           \/ /\ message \notin Messages /\ posted' = posted
              /\ worker # "none" /\ worker' \in {"leaving", "exited"}
  BY DEF WorkerPosts, WorkerErrs, WorkerExits, TerminationEnds, Messages
<1>2. /\ events' \in Seq(Messages \cup {"error", "exit"})
      /\ \A i \in DOMAIN events' :
           events'[i] = message \/ \E j \in DOMAIN events : events'[i] = events[j]
  BY <1>1, EventsHold
<1> USE DEF ExecutorInv
<1>3. ExecutorTypeOK' BY <1>1, <1>2 DEF ExecutorTypeOK, httpVars
<1>4. CallHolds' BY <1>1 DEF CallHolds, At, InRequest, httpVars
<1>5. WorkerHolds'
  <2>1. worker = "running" => \A j \in DOMAIN events : events[j] \notin Messages
    BY DEF WorkerHolds, Messages
  <2>2. QED BY <1>1, <1>2, <2>1 DEF WorkerHolds
<1>6. AnswersAreTrue'
  <2>1. posted' = posted \/ posted = "none" BY <1>1 DEF WorkerHolds
  <2>2. /\ call' = call /\ answer' = answer /\ rows' = rows
        /\ response' = response /\ received' = received /\ bodyEnded' = bodyEnded
    BY <1>1 DEF httpVars
  <2>3. QED BY <2>1, <2>2 DEF AnswersAreTrue, At, ExecutorTypeOK, ToolTypes
<1>7. QED BY <1>1, <1>3, <1>4, <1>5, <1>6

\* finish answers what the worker posted, or that the call failed.
LEMMA SettleSteps ==
    ASSUME ExecutorInv, HandleEvent \/ HardTimeoutFires
    PROVE  ExecutorInv' /\ call'.type = call.type /\ call'.config = call.config
<1> USE DEF ExecutorInv
<1>1. PICK message \in Messages \cup {"error", "exit", "timeout"} :
        /\ finish(message)
        /\ message \in Messages => message = posted
        /\ UNCHANGED <<httpVars, posted, rows>>
        /\ events' \in Seq(Messages \cup {"error", "exit"})
        /\ \A i \in DOMAIN events' : \E j \in DOMAIN events : events'[i] = events[j]
        /\ events = <<>> => events' = <<>>
  <2>1. CASE HandleEvent
    <3>1. "error" \in Messages \cup {"error", "exit"} OBVIOUS
    <3>2. events # <<>> /\ events' = Tail(events) /\ finish(Head(events))
          /\ UNCHANGED <<httpVars, posted, rows>>
      BY <2>1 DEF HandleEvent
    <3>3. /\ Head(events) \in Messages \cup {"error", "exit"}
          /\ \E j \in DOMAIN events : Head(events) = events[j]
          /\ Tail(events) \in Seq(Messages \cup {"error", "exit"})
          /\ \A i \in DOMAIN Tail(events) : \E j \in DOMAIN events : Tail(events)[i] = events[j]
      BY <3>1, <3>2, EventsHold
    <3>4. Head(events) \in Messages => Head(events) = posted BY <3>3 DEF WorkerHolds
    <3>5. QED BY <3>2, <3>3, <3>4
  <2>2. CASE HardTimeoutFires
    BY <2>2 DEF HardTimeoutFires, Messages, ExecutorTypeOK
  <2>3. QED BY <2>1, <2>2
<1>2. WorkerHolds'
  BY <1>1 DEF WorkerHolds, finish
<1>3. CASE ~At("script")
  <2>1. UNCHANGED <<call, answer, hardTimer, worker>> BY <1>1, <1>3 DEF finish
  <2>2. ExecutorTypeOK' BY <1>1, <2>1 DEF ExecutorTypeOK, httpVars
  <2>3. CallHolds' BY <1>1, <2>1 DEF CallHolds, At, InRequest, httpVars
  <2>4. AnswersAreTrue' BY <1>1, <2>1 DEF AnswersAreTrue, At, httpVars
  <2>5. QED BY <1>2, <2>1, <2>2, <2>3, <2>4
<1>4. CASE At("script")
  <2>1. /\ call' = [call EXCEPT !.phase = "answered"] /\ answer' = scriptResult(message)
        /\ hardTimer' = FALSE /\ worker' \in {"exited", "terminating"}
    BY <1>1, <1>4 DEF finish, Answer
  <2>2. /\ answer' \in [ok : BOOLEAN, kept : Nat, truncated : BOOLEAN]
        /\ answer'.ok => posted = "ok"
        /\ answer'.truncated => posted = "large"
    <3>1. CASE message = "ok"
      <4>1. answer' = Result(TRUE, 1, FALSE) BY <2>1, <3>1 DEF scriptResult
      <4>2. QED BY <1>1, <3>1, <4>1, ResultIs DEF Messages
    <3>2. CASE message = "large"
      <4>1. answer' = Result(FALSE, 0, TRUE) BY <2>1, <3>2 DEF scriptResult
      <4>2. QED BY <1>1, <3>2, <4>1, ResultIs DEF Messages
    <3>3. CASE message \notin {"ok", "large"}
      <4>1. answer' = Failed BY <2>1, <3>3 DEF scriptResult
      <4>2. QED BY <4>1, FailedIs
    <3>4. QED BY <3>1, <3>2, <3>3
  <2>3. call.type = "custom_js" /\ call'.type = "custom_js" /\ call'.phase = "answered"
        /\ call'.config = call.config
    BY <1>4, <2>1 DEF CallHolds, ExecutorTypeOK
  <2>4. ExecutorTypeOK'
    <3>1. hardTimer' \in BOOLEAN BY <2>1, Zenon
    <3>2. QED BY <1>1, <2>1, <2>2, <3>1 DEF ExecutorTypeOK, httpVars
  <2>5. CallHolds' BY <2>3 DEF CallHolds, At, InRequest
  <2>6. AnswersAreTrue' BY <1>1, <2>2, <2>3 DEF AnswersAreTrue, At
  <2>7. QED BY <1>2, <2>3, <2>4, <2>5, <2>6
<1>5. QED BY <1>3, <1>4

\* The query.
LEMMA QuerySteps ==
    ASSUME ExecutorInv, (\E result \in RowSets : QueryAnswers(result)) \/ QueryFails
    PROVE  ExecutorInv' /\ call'.type = call.type /\ call'.config = call.config
<1> USE DEF ExecutorInv
<1>1. /\ call.phase = "query" /\ call.type = "database"
      /\ call' = [call EXCEPT !.phase = "answered"] /\ UNCHANGED <<httpVars, jsVars>>
      /\ call'.phase = "answered" /\ call'.type = call.type /\ call'.config = call.config
  BY DEF QueryAnswers, QueryFails, Answer, At, CallHolds, ExecutorTypeOK
<1>2. WorkerHolds' BY <1>1 DEF WorkerHolds, jsVars
<1>3. CallHolds' BY <1>1 DEF CallHolds, At, InRequest
<1>4. CASE QueryFails
  <2>1. answer' = Failed /\ rows' = rows BY <1>4 DEF QueryFails, Answer
  <2>2. AnswersAreTrue' BY <1>1, <2>1, AnswerFailed
  <2>3. ExecutorTypeOK'
    BY <1>1, <2>1, FailedIs DEF ExecutorTypeOK, httpVars, jsVars
  <2>4. QED BY <1>1, <1>2, <1>3, <2>2, <2>3
<1>5. ASSUME NEW result \in RowSets, QueryAnswers(result) PROVE ExecutorInv'
  <2>1. result \in Seq(Nat) BY SizesArePositive
  <2>2. answer' = capRows(result) /\ rows' = result BY <1>5 DEF QueryAnswers, Answer
  <2>3. ExecutorTypeOK'
    BY <1>1, <2>1, <2>2, CapRowsKeepsPrefix DEF ExecutorTypeOK, httpVars, jsVars
  <2>4. AnswersAreTrue'
    BY <1>1, <2>1, <2>2, CapRowsKeepsPrefix DEF AnswersAreTrue, At
  <2>5. QED BY <1>2, <1>3, <2>3, <2>4
<1>6. QED BY <1>1, <1>4, <1>5

LEMMA ExecutorSteps ==
    ASSUME ExecutorInv, ExecutorNext
    PROVE  ExecutorInv' /\ call'.type = call.type /\ call'.config = call.config
BY RequestSteps, WorkerSteps, SettleSteps, QuerySteps DEF ExecutorNext

LEMMA ExecutorStays ==
    ASSUME ExecutorInv, UNCHANGED executorVars
    PROVE  ExecutorInv'
<1> USE DEF ExecutorInv, executorVars, httpVars, jsVars
<1>1. ExecutorTypeOK' BY DEF ExecutorTypeOK
<1>2. CallHolds' BY DEF CallHolds, At, InRequest
<1>3. WorkerHolds' BY DEF WorkerHolds
<1>4. AnswersAreTrue' BY DEF AnswersAreTrue, At
<1>5. QED BY <1>1, <1>2, <1>3, <1>4

-----------------------------------------------------------------------------
\* Tools and their attachment.

LEMMA TableFacts ==
    ASSUME NEW table \in Tables
    PROVE  /\ DOMAIN table \subseteq Tools /\ table \in [DOMAIN table -> Rows]
           /\ \A t \in DOMAIN table : table[t] \in Rows
BY DEF Tables

LEMMA IsTable ==
    ASSUME NEW D \in SUBSET Tools, NEW table \in [D -> Rows]
    PROVE  table \in Tables /\ DOMAIN table = D
BY DEF Tables

\* Requests that write a tool, but a PATCH.
LEMMA ToolWrites ==
    ASSUME ToolboxType, ToolboxInv,
           \/ \E t \in Tools, type \in WrittenTypes, parameters \in BOOLEAN :
                Create(t, type, parameters)
           \/ \E t \in Tools : RemoveTool(t)
    PROVE  ToolboxType' /\ ToolboxInv'
<1> USE DEF ToolboxType, ToolboxInv
<1>1. ASSUME NEW t \in Tools, NEW type \in WrittenTypes, NEW parameters \in BOOLEAN,
             Create(t, type, parameters)
      PROVE  ToolboxType' /\ ToolboxInv'
  <2> DEFINE row == [type |-> type, config |-> type, parameters |-> parameters]
             table == [u \in DOMAIN tools \cup {t} |-> IF u = t THEN row ELSE tools[u]]
  <2>1. /\ tools' = table /\ t \notin DOMAIN tools /\ t # attaching.tool /\ t # caller.tool
        /\ t \notin DOMAIN chat.tools /\ \A u \in Updaters : t # updates[u].tool
        /\ UNCHANGED <<agents, agentTools, updates, attaching, chat, caller, disturbed,
                       call>>
        /\ requests' \in 0..MaxRequests
    BY <1>1, RequestsAreBounded DEF Create, Request, executorVars
  <2>2. row \in Rows /\ row.config = row.type
    BY WrittenTypesExist DEF Rows, ToolTypes
  <2> HIDE DEF row
  <2>3. table \in Tables /\ DOMAIN table = DOMAIN tools \cup {t}
    <3>1. DOMAIN tools \cup {t} \in SUBSET Tools BY TableFacts
    <3>2. table \in [DOMAIN tools \cup {t} -> Rows] BY <2>2, TableFacts
    <3> HIDE DEF table
    <3>3. QED BY <3>1, <3>2, IsTable
  <2>4. table[t] = row /\ \A u \in DOMAIN tools : table[u] = tools[u] BY <2>1
  <2> HIDE DEF table
  <2>5. ToolboxType' BY <2>1, <2>3
  <2>6. UpdatesHold' BY <2>1, <2>3, <2>4 DEF UpdatesHold, validatedType
  <2>7. AttachingHolds' BY <2>1 DEF AttachingHolds
  <2>8. ConfigIsTrusted'
    BY <2>1, <2>2, <2>3, <2>4 DEF ConfigIsTrusted
  <2>9. ToolsStayInOrganization' BY <2>1, <2>3 DEF ToolsStayInOrganization
  <2>10. QED BY <2>5, <2>6, <2>7, <2>8, <2>9
<1>2. ASSUME NEW t \in Tools, RemoveTool(t) PROVE ToolboxType' /\ ToolboxInv'
  <2> DEFINE D == DOMAIN tools \ {t}
             table == [u \in D |-> tools[u]]
  <2>1. /\ tools' = table /\ agentTools' = {row \in agentTools : row.toolId # t}
        /\ UNCHANGED <<agents, updates, attaching, chat, caller, disturbed, call>>
        /\ requests' \in 0..MaxRequests
    BY <1>2, RequestsAreBounded DEF RemoveTool, Request, executorVars
  <2>2. D \in SUBSET Tools /\ table \in [D -> Rows] BY TableFacts
  <2>3. table \in Tables /\ DOMAIN table = D /\ \A u \in D : table[u] = tools[u]
    BY <2>2, IsTable
  <2> HIDE DEF table
  <2>4. ToolboxType' BY <2>1, <2>3
  <2>5. UpdatesHold' BY <2>1, <2>3 DEF UpdatesHold, validatedType
  <2>6. AttachingHolds' BY <2>1 DEF AttachingHolds
  <2>7. ConfigIsTrusted' BY <2>1, <2>3 DEF ConfigIsTrusted
  <2>8. ToolsStayInOrganization' BY <2>1, <2>3 DEF ToolsStayInOrganization
  <2>9. QED BY <2>4, <2>5, <2>6, <2>7, <2>8
<1>3. QED BY <1>1, <1>2

\* A PATCH that has read its row makes every other one of the tool overlap.
LEMMA UpdateReads ==
    ASSUME ToolboxType, ToolboxInv, NEW u \in Updaters, NEW t \in Tools,
           NEW dto \in UpdateBodies, FindForUpdate(u, t, dto)
    PROVE  ToolboxType' /\ ToolboxInv'
<1> USE DEF ToolboxType, ToolboxInv
<1> DEFINE new == [tool |-> t, dto |-> dto,
                   overlapped |-> \E w \in Updaters : updates[w].tool = t]
<1>1. /\ updates' = [v \in Updaters |->
              IF v = u THEN new
              ELSE IF updates[v].tool = t THEN [updates[v] EXCEPT !.overlapped = TRUE]
              ELSE updates[v]]
      /\ updates[u].tool = None /\ t # None /\ t \in DOMAIN tools
      /\ dto.config \notin {None, Null} => dto.config = validatedType(t, dto)
      /\ UNCHANGED <<tableVars, attaching, chat, caller, disturbed, call>>
      /\ requests' \in 0..MaxRequests
  BY RequestsAreBounded, NoneIsNotAnId
     DEF FindForUpdate, Request, executorVars, Found, NoUpdate
<1>2. (\E w \in Updaters : updates[w].tool = t) \in BOOLEAN OBVIOUS
<1>3. new \in [tool : Tools \cup {None}, dto : UpdateToolDto, overlapped : BOOLEAN]
  BY <1>2, BodiesAreUpdateToolDtos
<1>4. new.tool = t /\ new.dto = dto
      /\ (new.overlapped <=> \E w \in Updaters : updates[w].tool = t)
  OBVIOUS
<1> HIDE DEF new
<1>5. \A v \in Updaters :
        /\ updates'[v] \in [tool : Tools \cup {None}, dto : UpdateToolDto,
                            overlapped : BOOLEAN]
        /\ v = u => updates'[v] = new
        /\ v # u => /\ updates'[v].tool = updates[v].tool /\ updates'[v].dto = updates[v].dto
                    /\ updates'[v].overlapped <=> updates[v].overlapped \/ updates[v].tool = t
  BY <1>1, <1>3
<1>6. ToolboxType' BY <1>1, <1>5 DEF tableVars
<1>7. UpdatesHold' BY <1>1, <1>4, <1>5 DEF UpdatesHold, validatedType, tableVars
<1>8. AttachingHolds' BY <1>1 DEF AttachingHolds
<1>9. ConfigIsTrusted' BY <1>1 DEF ConfigIsTrusted, tableVars
<1>10. ToolsStayInOrganization' BY <1>1 DEF ToolsStayInOrganization, tableVars
<1>11. QED BY <1>6, <1>7, <1>8, <1>9, <1>10

\* The UPDATE: what it writes has a config of its type, or is noted.
LEMMA UpdateWrites ==
    ASSUME ToolboxType, ToolboxInv, NEW u \in Updaters, Update(u)
    PROVE  ToolboxType' /\ ToolboxInv'
<1> USE DEF ToolboxType, ToolboxInv
<1> DEFINE t == updates[u].tool
           dto == updates[u].dto
           noted == \/ updates[u].overlapped \/ dto.config = Null
                    \/ dto.config = None /\ dto.type \notin {None, tools[t].type}
<1>1. /\ t \in Tools /\ dto \in UpdateToolDto
      /\ updates' = [updates EXCEPT ![u] = NoUpdate]
      /\ UNCHANGED <<agents, agentTools, attaching, chat, caller, requests, call>>
      /\ t \in DOMAIN tools =>
           /\ tools' = [tools EXCEPT ![t] = written(@, dto)]
           /\ disturbed' = IF noted THEN disturbed \cup {t} ELSE disturbed
      /\ t \notin DOMAIN tools => UNCHANGED <<tools, disturbed>>
  BY DEF Update, executorVars
<1>2. NoUpdate \in [tool : Tools \cup {None}, dto : UpdateToolDto, overlapped : BOOLEAN]
  BY DEF NoUpdate, NoDto, UpdateToolDto
<1>3. /\ updates' \in [Updaters -> [tool : Tools \cup {None}, dto : UpdateToolDto,
                                    overlapped : BOOLEAN]]
      /\ updates'[u].tool = None
      /\ \A v \in Updaters \ {u} : updates'[v] = updates[v]
  BY <1>1, <1>2 DEF NoUpdate
<1>4. ASSUME t \in DOMAIN tools
      PROVE  /\ tools' \in Tables /\ DOMAIN tools' = DOMAIN tools
             /\ tools'[t] = written(tools[t], dto) /\ tools'[t] \in Rows
             /\ \A s \in DOMAIN tools \ {t} : tools'[s] = tools[s]
  <2>1. tools \in [DOMAIN tools -> Rows] /\ DOMAIN tools \in SUBSET Tools
        /\ tools[t] \in Rows
    BY <1>4, TableFacts
  <2>2. written(tools[t], dto) \in Rows
    <3>1. (dto.parameters = "schema") \in BOOLEAN OBVIOUS
    <3>2. dto.type # None => dto.type \in ToolTypes
      BY <1>1, WrittenTypesExist DEF UpdateToolDto
    <3>3. dto.config # None => dto.config \in ToolTypes \cup {Null}
      BY <1>1, WrittenTypesExist DEF UpdateToolDto
    <3> HIDE DEF dto, t
    <3>4. QED BY <2>1, <3>1, <3>2, <3>3 DEF written, Rows
  <2>3. tools' \in [DOMAIN tools -> Rows] BY <1>1, <1>4, <2>1, <2>2
  <2>4. tools' \in Tables /\ DOMAIN tools' = DOMAIN tools BY <2>1, <2>3, IsTable
  <2>5. QED BY <1>1, <1>4, <2>1, <2>2, <2>4
<1>5. disturbed \subseteq disturbed' /\ disturbed' \subseteq Tools BY <1>1
<1>6. ToolboxType' BY <1>1, <1>3, <1>4, <1>5
<1>7. ASSUME t \in DOMAIN tools, t \notin disturbed'
      PROVE  tools'[t].config = tools'[t].type
  <2>1. ~noted /\ t \notin disturbed BY <1>1, <1>7
  <2>2. tools[t].config = tools[t].type /\ tools[t] \in Rows
    BY <1>7, <2>1, TableFacts DEF ConfigIsTrusted
  <2>3. dto.config \notin {None, Null} => dto.config = validatedType(t, dto)
    BY <1>7, <2>1 DEF UpdatesHold
  <2>4. tools'[t] = written(tools[t], dto) BY <1>4, <1>7
  <2>5. /\ written(tools[t], dto).type = IF dto.type = None THEN tools[t].type ELSE dto.type
        /\ written(tools[t], dto).config =
              IF dto.config = None THEN tools[t].config ELSE dto.config
    BY <2>2 DEF written, Rows
  <2> HIDE DEF t, dto
  <2>6. QED BY <2>1, <2>2, <2>3, <2>4, <2>5 DEF validatedType, t, dto
<1>8. UpdatesHold'
  <2>1. \A v \in Updaters \ {u} : updates[v].tool = t => updates[v].overlapped
    BY <1>1, NoneIsNotAnId DEF UpdatesHold
  <2>2. QED BY <1>1, <1>3, <1>4, <2>1, NoneIsNotAnId, TableFacts
           DEF UpdatesHold, validatedType
<1>9. AttachingHolds' BY <1>1 DEF AttachingHolds
<1>10. ConfigIsTrusted'
  <2>1. \A s \in DOMAIN tools' \ disturbed' : tools'[s].config = tools'[s].type
    BY <1>1, <1>4, <1>5, <1>7 DEF ConfigIsTrusted
  <2>2. QED BY <1>1, <1>5, <2>1 DEF ConfigIsTrusted
<1>11. ToolsStayInOrganization'
  <2>1. DOMAIN tools' = DOMAIN tools BY <1>1, <1>4
  <2>2. QED BY <1>1, <2>1 DEF ToolsStayInOrganization
<1>12. QED BY <1>6, <1>8, <1>9, <1>10, <1>11

\* Agents, attachments and the list of a chat: the tools stay as they are.
LEMMA AttachmentSteps ==
    ASSUME ToolboxType, ToolboxInv,
           \/ \E a \in Agents : RemoveAgent(a) \/ AttachFindAgent(a) \/ ChatFindsAgent(a)
           \/ \E t \in Tools : AttachFindTool(t)
           \/ Attach \/ ChatListsTools \/ \E row \in agentTools : Detach(row)
    PROVE  ToolboxType' /\ ToolboxInv'
<1> USE NoneIsNotAnId DEF ToolboxType, ToolboxInv
<1>1. UNCHANGED <<tools, updates, caller, disturbed, call>> /\ requests' \in 0..MaxRequests
  BY RequestsAreBounded
     DEF RemoveAgent, AttachFindAgent, ChatFindsAgent, AttachFindTool, Attach,
         ChatListsTools, Detach, Request, tableVars, executorVars
<1>2. UpdatesHold' BY <1>1 DEF UpdatesHold, validatedType
<1>3. ASSUME NEW a \in Agents, RemoveAgent(a) PROVE ToolboxType' /\ ToolboxInv'
  BY <1>1, <1>2, <1>3 DEF RemoveAgent, AttachingHolds, ConfigIsTrusted, ToolsStayInOrganization
<1>4. ASSUME NEW row \in agentTools, Detach(row) PROVE ToolboxType' /\ ToolboxInv'
  BY <1>1, <1>2, <1>4 DEF Detach, AttachingHolds, ConfigIsTrusted, ToolsStayInOrganization
<1>5. ASSUME NEW a \in Agents, AttachFindAgent(a) PROVE ToolboxType' /\ ToolboxInv'
  BY <1>1, <1>2, <1>5
     DEF AttachFindAgent, tableVars, AttachingHolds, ConfigIsTrusted, ToolsStayInOrganization
<1>6. ASSUME NEW t \in Tools, AttachFindTool(t) PROVE ToolboxType' /\ ToolboxInv'
  BY <1>1, <1>2, <1>6
     DEF AttachFindTool, NotAttaching, Found, tableVars, AttachingHolds, ConfigIsTrusted,
         ToolsStayInOrganization
<1>7. CASE Attach
  <2> DEFINE new == [organizationId |-> OrgOf[attaching.agent],
                     agentId |-> attaching.agent, toolId |-> attaching.tool]
  <2>1. /\ attaching' = NotAttaching /\ UNCHANGED <<agents, chat>>
        /\ attaching.tool \in Tools /\ attaching.agent \in Agents
        /\ OrgOf[attaching.tool] = OrgOf[attaching.agent]
        /\ \/ agentTools' = agentTools
           \/ /\ attaching.agent \in agents /\ attaching.tool \in DOMAIN tools
              /\ agentTools' = agentTools \cup {new}
    BY <1>7 DEF Attach, AttachingHolds
  <2>2. new \in Attachments
    BY <2>1, EveryRowHasAnOrganization DEF Attachments
  <2>3. ToolboxType' BY <1>1, <2>1, <2>2 DEF NotAttaching
  <2>4. AttachingHolds' BY <2>1 DEF AttachingHolds, NotAttaching
  <2>5. ConfigIsTrusted' BY <1>1, <2>1 DEF ConfigIsTrusted
  <2>6. ToolsStayInOrganization' BY <1>1, <2>1 DEF ToolsStayInOrganization
  <2>7. QED BY <1>2, <2>3, <2>4, <2>5, <2>6
<1>8. ASSUME NEW a \in Agents, ChatFindsAgent(a) PROVE ToolboxType' /\ ToolboxInv'
  <2>1. /\ chat'.agent = a /\ chat'.tools = <<>> /\ chat' = [chat EXCEPT !.agent = a]
        /\ UNCHANGED <<agents, agentTools, attaching>>
    BY <1>8 DEF ChatFindsAgent, NoChat, tableVars
  <2>2. DOMAIN <<>> = {} OBVIOUS
  <2>3. QED BY <1>1, <1>2, <2>1, <2>2
           DEF AttachingHolds, ConfigIsTrusted, ToolsStayInOrganization
<1>9. CASE ChatListsTools
  <2> DEFINE D == listFull(chat.agent)
             table == [t \in D |-> tools[t]]
  <2>1. /\ chat' = [chat EXCEPT !.listed = TRUE, !.tools = table]
        /\ UNCHANGED <<agents, agentTools, attaching>> /\ chat.agent \in Agents
    BY <1>9 DEF ChatListsTools, tableVars
  <2>2. D \subseteq DOMAIN tools /\ \A t \in D : OrgOf[t] = OrgOf[chat.agent]
    BY DEF listFull, ToolsStayInOrganization
  <2> HIDE DEF D
  <2>3. D \in SUBSET Tools /\ table \in [D -> Rows] BY <2>2, TableFacts
  <2>4. table \in Tables /\ DOMAIN table = D /\ \A t \in D : table[t] = tools[t]
    BY <2>3, IsTable
  <2> HIDE DEF table
  <2>5. chat'.agent = chat.agent /\ chat'.tools = table
        /\ chat' \in [agent : Agents \cup {None}, listed : BOOLEAN, tools : Tables]
    BY <2>1, <2>4
  <2>6. QED BY <1>1, <1>2, <2>1, <2>2, <2>4, <2>5
           DEF AttachingHolds, ConfigIsTrusted, ToolsStayInOrganization
<1>10. QED BY <1>3, <1>4, <1>5, <1>6, <1>7, <1>8, <1>9

\* A call takes the row it was given to the executor of its type.
LEMMA CallSteps ==
    ASSUME IInv,
           \/ \E t \in Tools, org \in Organizations : CallFound(t, org)
           \/ \E t \in Tools : ChatCalls(t)
    PROVE  IInv'
<1> USE DEF IInv, ToolboxType, ToolboxInv
<1>1. PICK t \in Tools, org \in Organizations, tool \in Rows :
        /\ Execute(tool) /\ caller' = [organization |-> org, tool |-> t]
        /\ OrgOf[t] = org /\ (t \notin disturbed => tool.config = tool.type)
        /\ UNCHANGED <<tableVars, updates, attaching, chat, requests, disturbed>>
  <2>1. ASSUME NEW t \in Tools, NEW org \in Organizations, CallFound(t, org)
        PROVE  /\ tools[t] \in Rows /\ OrgOf[t] = org
               /\ t \notin disturbed => tools[t].config = tools[t].type
               /\ Execute(tools[t]) /\ caller' = [organization |-> org, tool |-> t]
               /\ UNCHANGED <<tableVars, updates, attaching, chat, requests, disturbed>>
    BY <2>1, TableFacts DEF CallFound, Found, ConfigIsTrusted
  <2>2. ASSUME NEW t \in Tools, ChatCalls(t)
        PROVE  /\ chat.tools[t] \in Rows /\ OrgOf[t] = OrgOf[chat.agent]
               /\ OrgOf[t] \in Organizations
               /\ t \notin disturbed => chat.tools[t].config = chat.tools[t].type
               /\ Execute(chat.tools[t])
               /\ caller' = [organization |-> OrgOf[chat.agent], tool |-> t]
               /\ UNCHANGED <<tableVars, updates, attaching, chat, requests, disturbed>>
    <3>1. chat.tools \in Tables OBVIOUS
    <3>2. QED BY <2>2, <3>1, TableFacts, EveryRowHasAnOrganization
             DEF ChatCalls, ConfigIsTrusted, ToolsStayInOrganization
  <2>3. CASE \E t \in Tools, org \in Organizations : CallFound(t, org) BY <2>1, <2>3
  <2>4. CASE \E t \in Tools : ChatCalls(t) BY <2>2, <2>4
  <2>5. QED BY <2>3, <2>4
<1>2. ExecutorInv' /\ call'.type = tool.type /\ call'.config = tool.config
  BY <1>1, CallStarts
<1>3. ToolboxType' BY <1>1 DEF tableVars
<1>4. UpdatesHold' BY <1>1 DEF UpdatesHold, validatedType, tableVars
<1>5. AttachingHolds' BY <1>1 DEF AttachingHolds
<1>6. ConfigIsTrusted' BY <1>1, <1>2 DEF ConfigIsTrusted, tableVars
<1>7. ToolsStayInOrganization' BY <1>1 DEF ToolsStayInOrganization, tableVars
<1>8. QED BY <1>2, <1>3, <1>4, <1>5, <1>6, <1>7

-----------------------------------------------------------------------------
\* The invariant, and what follows from it.

LEMMA InitIInv == Init => IInv
<1> SUFFICES ASSUME Init PROVE IInv OBVIOUS
<1> USE NoneIsNotAnId DEF Init
<1>1. ExecutorInv
  <2> USE DEF ExecutorInit
  <2>1. ExecutorTypeOK
    <3>1. abortTimer \in BOOLEAN /\ aborted \in BOOLEAN /\ bodyEnded \in BOOLEAN
          /\ hardTimer \in BOOLEAN
      BY Zenon
    <3>2. <<>> \in Seq(Messages \cup {"error", "exit"}) /\ <<>> \in Seq(Nat) OBVIOUS
    <3>3. QED BY <3>1, <3>2, FailedIs DEF ExecutorTypeOK, ToolTypes
  <2>2. CallHolds BY DEF CallHolds, At, InRequest
  <2>3. WorkerHolds BY DEF WorkerHolds
  <2>4. AnswersAreTrue BY DEF AnswersAreTrue, At
  <2>5. QED BY <2>1, <2>2, <2>3, <2>4 DEF ExecutorInv
<1>2. ToolboxType
  <2>1. tools \in Tables BY InitialToolsWereCreated DEF Tables
  <2>2. NoUpdate \in [tool : Tools \cup {None}, dto : UpdateToolDto, overlapped : BOOLEAN]
    BY DEF NoUpdate, NoDto, UpdateToolDto
  <2>3. <<>> \in Tables
    <3>1. <<>> \in [{} -> Rows] OBVIOUS
    <3>2. QED BY <3>1 DEF Tables
  <2>4. QED BY <2>1, <2>2, <2>3, RequestsAreBounded DEF ToolboxType, NotAttaching, NoChat
<1>3. UpdatesHold BY InitialToolsWereCreated DEF UpdatesHold, NoUpdate
<1>4. AttachingHolds BY DEF AttachingHolds, NotAttaching
<1>5. DOMAIN NoChat.tools = {} BY DEF NoChat
<1>6. ConfigIsTrusted
  BY <1>5, InitialToolsWereCreated DEF ConfigIsTrusted, NoCaller
<1>7. ToolsStayInOrganization BY <1>5 DEF ToolsStayInOrganization
<1>8. QED BY <1>1, <1>2, <1>3, <1>4, <1>6, <1>7 DEF IInv, ToolboxInv

LEMMA NextIInv ==
    ASSUME IInv, [Next]_allVars PROVE IInv'
<1>1. CASE UNCHANGED executorVars /\ ToolboxType' /\ ToolboxInv'
  BY <1>1, ExecutorStays DEF IInv
<1>2. CASE \/ \E t \in Tools, type \in WrittenTypes, parameters \in BOOLEAN :
                Create(t, type, parameters)
           \/ \E t \in Tools : RemoveTool(t)
  <2>1. UNCHANGED executorVars BY <1>2 DEF Create, RemoveTool
  <2>2. QED BY <1>1, <1>2, <2>1, ToolWrites DEF IInv
<1>3. ASSUME NEW u \in Updaters,
             (\E t \in Tools, dto \in UpdateBodies : FindForUpdate(u, t, dto)) \/ Update(u)
      PROVE  IInv'
  <2>1. UNCHANGED executorVars BY <1>3 DEF FindForUpdate, Update
  <2>2. ToolboxType' /\ ToolboxInv' BY <1>3, UpdateReads, UpdateWrites DEF IInv
  <2>3. QED BY <1>1, <2>1, <2>2
<1>4. CASE \/ \E a \in Agents : RemoveAgent(a) \/ AttachFindAgent(a) \/ ChatFindsAgent(a)
           \/ \E t \in Tools : AttachFindTool(t)
           \/ Attach \/ ChatListsTools \/ \E row \in agentTools : Detach(row)
  <2>1. UNCHANGED executorVars
    BY <1>4 DEF RemoveAgent, AttachFindAgent, ChatFindsAgent, AttachFindTool, Attach,
                ChatListsTools, Detach
  <2>2. QED BY <1>1, <1>4, <2>1, AttachmentSteps DEF IInv
<1>5. CASE \/ \E t \in Tools, org \in Organizations : CallFound(t, org)
           \/ \E t \in Tools : ChatCalls(t)
  BY <1>5, CallSteps
<1>6. CASE ExecutorNext /\ UNCHANGED toolboxVars
  <2>1. ExecutorInv' /\ call'.type = call.type /\ call'.config = call.config
    BY <1>6, ExecutorSteps DEF IInv
  <2> USE <1>6 DEF IInv, ToolboxInv, toolboxVars, tableVars
  <2>2. ToolboxType' BY DEF ToolboxType
  <2>3. UpdatesHold' BY DEF UpdatesHold, validatedType
  <2>4. AttachingHolds' BY DEF AttachingHolds
  <2>5. ConfigIsTrusted' BY <2>1 DEF ConfigIsTrusted
  <2>6. ToolsStayInOrganization' BY DEF ToolsStayInOrganization
  <2>7. QED BY <2>1, <2>2, <2>3, <2>4, <2>5, <2>6
<1>7. CASE UNCHANGED allVars
  <2>1. UNCHANGED executorVars BY <1>7 DEF allVars
  <2> USE <1>7 DEF IInv, ToolboxInv, allVars, toolboxVars, tableVars, executorVars
  <2>2. ToolboxType' BY DEF ToolboxType
  <2>3. UpdatesHold' BY DEF UpdatesHold, validatedType
  <2>4. AttachingHolds' BY DEF AttachingHolds
  <2>5. ConfigIsTrusted' BY DEF ConfigIsTrusted
  <2>6. ToolsStayInOrganization' BY DEF ToolsStayInOrganization
  <2>7. QED BY <1>1, <2>1, <2>2, <2>3, <2>4, <2>5, <2>6
<1>8. QED BY <1>2, <1>3, <1>4, <1>5, <1>6, <1>7 DEF Next

LEMMA ToolboxIInv == Spec => []IInv
<1>1. Init => IInv BY InitIInv
<1>2. IInv /\ [Next]_allVars => IInv' BY NextIInv
<1>3. QED BY <1>1, <1>2, PTL DEF Spec

\* Rows, requests in flight and calls keep their types.
THEOREM ToolboxTypeOK == Spec => []TypeOK
<1>1. IInv => TypeOK
  BY TableFacts DEF IInv, ExecutorInv, ToolboxType, TypeOK
<1>2. QED BY <1>1, ToolboxIInv, PTL

\* However many PATCHes overlap, the config an executor trusts is one of its
\* type, but for the three ways the code has of writing one without the other.
THEOREM ConfigStaysTrusted == Spec => []ConfigIsTrusted
<1>1. IInv => ConfigIsTrusted BY DEF IInv, ToolboxInv
<1>2. QED BY <1>1, ToolboxIInv, PTL

\* No attachment, list of tools or call crosses organizations.
THEOREM ToolsStayWithinOrganization == Spec => []ToolsStayInOrganization
<1>1. IInv => ToolsStayInOrganization BY DEF IInv, ToolboxInv
<1>2. QED BY <1>1, ToolboxIInv, PTL

\* An answer says what the server, the script or the database did, for every
\* limit, every body and every result of a query.
THEOREM AnswersStayTrue == Spec => []AnswersAreTrue
<1>1. IInv => AnswersAreTrue BY DEF IInv, ExecutorInv
<1>2. QED BY <1>1, ToolboxIInv, PTL
===============================================================================
