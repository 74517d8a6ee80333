# A verification project for the NexAgent web API

TLA+ models of the NestJS API under `src/`: workflows and their execution, the
chat loop with its tool calls and the sockets that follow it, tools and their
executors, the knowledge base, accounts with their sessions and organizations,
and the algorithms that run in memory. TLC checks small instances; TLAPS proves the results that hold for every value of the constants.
`PROJECT.json` lists runs, mutants, the map from definitions to source lines,
findings, hazards and theorems.

## 1. The system

Every request is an `async` handler that awaits its SQL statements, OpenAI calls
and tool calls one by one. Except for four transactions (`AuthService.register`,
`AuthService.refresh`, `OrganizationsService.createOwned`, the storing step of
`DocumentsService.create`) each statement commits on its own, so any other
request, a failure or a crash may come between two statements. What holds the
tables together is what the schema enforces within one statement: foreign keys
(with `cascade` or `set null`), unique constraints and column ranges. Ids are
random UUIDs and never reused. These facts shape every model here.

| Component | State | Operations | Hard parts | Correct when |
|---|---|---|---|---|
| Workflow graph (`workflows.service.ts`, controller, DTOs) | `workflows`, `workflow_steps`, `workflow_step_edges` | create/update/remove, addStep/updateStep/removeStep, addEdge/removeEdge | check-then-act in addEdge, addStep and update; cascades | graph acyclic; entry and edges within their workflow; config fits type |
| Workflow execution (`workflow-execution.service.ts`) | `workflow_runs`, `workflow_step_runs`, a snapshot in memory | execute | the snapshot is three reads; edits during the run; INSERTs that foreign keys reject | every execution ends; one outcome per step; a closed run accounts for its steps |
| Chat (`chat.service.ts`, `conversations.service.ts`) | `conversations`, `messages` | createConversation, sendMessage, deleteConversation | crash in a tool round, trimming, concurrent senders, delete during the loop | every OpenAI request is well formed and complete; tools leave a trace |
| Chat gateway | sockets, rooms | connect, join, sendMessage, step events | asynchronous handshake, an answer announced after its INSERT | only the owner listens; what is heard is stored, once and in order |
| OpenAI client | none | completion stream, embeddings | accumulating call fragments | calls come out whole, in order |
| Documents, retrieval | `documents`, `document_chunks`, `agent_documents` | upload, remove, attach, detach, searchRelevant | partial failure of an upload, lost commit, removal during upload | chunks all or none; status tells the truth; one organization |
| Tools, agent-tools | `tools`, `agent_tools` | CRUD, attach, execute | config against type; overlapping PATCHes; a list read once and used for rounds | the executor gets a config of its type; tools stay in their organization |
| Executors (HTTP, database, custom JS) | pools and idle timers; workers | execute | timeouts racing answers; pool closed under a queued query; results over a limit | every call settles once, truthfully, and leaves nothing running |
| Auth, refresh tokens | `users`, `refresh_tokens` | register, login, refresh, logout | overlapping refresh; lost answer | a revoked token gives no pair |
| Organizations, RBAC | `organizations`, `organization_members`, roles | create, addMember, setActive, hasPermission | last active organization; owner membership | every organization has its owner |
| Usage | `usage_events` | record, summary | a write that fails silently | nothing is billed that did not run |

Interactions: `WorkflowExecutionService` reads the graph through
`WorkflowsService` and shares its tables through foreign keys; agent and tool
steps call OpenAI and `ToolsService`. `ChatService` calls conversations,
retrieval (`AgentDocumentsService.searchRelevant`), RBAC, attached tools, tool
execution, OpenAI and usage. `DocumentsService` calls OpenAI and usage.

## 2. Modules

| Module | Role |
|---|---|
| `Reachability` | `Reachable` by closed sets and `Acyclic`; no recursion, so that proofs can use it |
| `StepGraph` | abstract: a graph edited by atomic steps none of which closes a cycle |
| `WorkflowGraph` | detailed: the editor, one action per SQL statement, concurrent requests |
| `CanReach` | the depth-first walk of `canReach`, one action per turn of the loop |
| `WorkflowExecution` | `execute` beside the edits of `WorkflowGraph` (`INSTANCE`) |
| `ChunkText` | the loop of `chunkText`, one action per turn |
| `StreamAccumulation` | `createChatCompletion`, one action per chunk of the stream |
| `OpenAiMessages` | pure: `loadHistory` and `toOpenAiMessages`; what OpenAI accepts (`WellFormed`) |
| `Thread` | abstract: a conversation as an append-only log of turns |
| `ChatConversation` | detailed: `sendMessage` and `deleteConversation` |
| `ChatGateway` | extends it by sockets: handshake, join, and the events that tell of stored rows |
| `ToolExecutors` | one call of a tool: HTTP under its abort timer, a script under its hard timer, rows under their caps |
| `Toolbox` | extends it by tools, agents, attachments and the callers |
| `KnowledgeBase` | uploads, attachments, retrieval, and the agents they hang on |
| `AuthSessions` | register, login, refresh, logout; organizations, members, the active organization |
| `DatabaseToolPool` | connection pools, idle timers, queries and shutdown of the database tool executor |
| `MC*` | symmetry sets, initial states and inputs for TLC |
| `WorkflowGraphProofs` | theorems about `WorkflowGraph` and `StepGraph` |
| `AlgorithmsProofs` | about `CanReach`, `ChunkText` and `StreamAccumulation` |
| `ChatProofs` | about `ChatConversation`, `OpenAiMessages` and `ChatGateway` |
| `ToolboxProofs` | about `Toolbox` and `ToolExecutors` |
| `WorkflowExecutionProofs`, `KnowledgeBaseProofs`, `AuthSessionsProofs`, `DatabaseToolPoolProofs` | about the module in the name |

Correspondence. A table is a function from ids to columns, with `None` for no
row, or a set of rows. A handler's locals are a record in `request`, `run`,
`sender` or `upload`, whose `pc` names the statement it issues next. An action is
one statement with all the schema does on it: `RemoveStep` takes edges along and
clears entry pointers; an INSERT whose foreign key fails is the failing branch of
its action. A read is merged into the following write where rows that only
disappear and ids that are never reused make the write's own conditions imply it
(`Attach`, `Send`); where they do not, it is an action of its own
(`UpdateCheckEntry`, `AddEdgeCheckSteps`, `AddEdgeCanReach`). Organizations are
abstracted in `WorkflowGraph` (an id of another one behaves as an id that does
not exist) and kept in `KnowledgeBase`. To a chat and to a run the
model and the tools are external: any answer, or an exception. `Abort` and `Crash` stop a handler at any await and
leave what it wrote.

In `AuthSessions` a transaction is one action, since no other request sees it in
part: the UPDATE of `revokeByHash` waits for a concurrent one on the same row and
then finds no row to change, which `revoked \cup {t}` says. A login or a refresh
keeps what it read (`seen`, `token`) across its statements. Permission, account
and membership checks are merged into the write they guard: no endpoint removes
users, organizations or members, or changes a role, so a check that passed stays
true. `parent`, `loggedOut` and `was` are history: no guard reads them.

`DatabaseToolPool` counts time in ticks of five seconds. A driver's limit cuts a
query off at most `Lag` ticks late; an idle timer may fire late without bound, and
never early. How pg and mysql2 queue and connect is external, taken from the
options the code passes: at most two connections; pg gives up waiting after
`connectionTimeoutMillis` and mysql2 does not give up; mysql2 cuts a running
`execute` off after its `timeout`, and pg does not. The code gives pg only
`statement_timeout`, which the server enforces: with a silent server or network a
running postgres query has no limit, so `Tick` passes over it, and it becomes
`Overdue` once it has run past what the server was told. Any query may fail at any
moment.

`ChatGateway` splits an answer's INSERT (`StoreAnswer`) from the event that
tells of it (`EmitStep`), with a step between them where the call may die. An event is the
number of its row. `HandleConnection` is the verification settling; before it the
socket has no `userId`, and a join looks up nobody's conversation. `JoinRoom`
merges the query's answer with `client.join`: with the default adapter nothing is
awaited between them but the promise itself, and what a socket may join does not
change while its conversation exists. `from` and
`missed` are history.

`Toolbox` keeps of a config the type it was validated for, or null. A PATCH is
two steps: the row is read and the config validated (`FindForUpdate`), and
later the fields are written (`Update`), by when the row may have another type or be gone.
What a chat read (`chat.tools`) is a copy of rows that change under it.
`ToolExecutors` leaves server, script and database free: any status, any pieces,
an end of the body or none, a message, an error, an exit or silence. `events` is
the queue of a worker's events in Node's loop, so that a timeout may
fire while a message already waits in it. Sizes count in units of a few characters.

`StreamAccumulation` names a fragment by the number of the chunk that brought it,
so that a string is the sequence of the chunks it was built from. `ChunkText`
keeps of a text its length and of a chunk its bounds.

`WorkflowGraph.canReach` is one action whose answer is `Reachable`: the walk runs
in memory on the rows of one SELECT, and `CanReach` shows what it answers.

Definitions marked "Mutant of" are not part of any specification: each is a
plausible bug, put in the place of the definition it names to see that a property
notices.

## 3. Runs

| Run | Bounds | Shows |
|---|---|---|
| `workflow_graph` | 2 workflows, 3 steps, 1 branch, 2 concurrent requests | type, entry and edge ownership, orders, no cycle, refinement of `StepGraph`, under `SerialSpec` |
| `algorithms` | `canReach`: 3 steps, every adjacency with up to 2 targets each, repetitions included; `chunkText`: lengths 0 to 9, sizes 1 to 4, every smaller overlap; a stream of up to 5 chunks with 2 tool calls | the walk is right, windows cover the text, an answer is whole; both loops end |
| `workflow_execution` | 1 workflow, 2 steps, 2 branches, both kinds of step, 1 run, 1 request that adds; every initial graph, up to renaming | one outcome per step, closed runs account, termination |
| `chat_conversation` | 1 sender, 3 messages, 2 rounds, up to 2 calls each and 5 in all, history of 2 turns; 1 socket, of the owner, of another user or of nobody, during the first turn | well-formed and complete requests, tool accounting, only the owner listens, what is heard is stored, refinement of `Thread` |
| `toolbox` | 1 agent, 2 tools of 2 organizations, 3 requests that change them, 2 PATCHes at a time; limits of 2 rows and 3 bytes, pieces of 1 and 2, results of up to 3 rows | config of the type but for a bad PATCH, tools within their organization, true answers; HTTP and script calls settle and leave nothing running |
| `knowledge_base` | 2 documents, 2 agents, 2 organizations, up to 2 chunks | all-or-none, final answers, no abandoned row but by a crash, one organization |
| `auth_sessions` | 2 users, 2 organizations, 3 tokens, 2 requests in flight | one owner, where a login lands, atomic rotation, no pair for a spent token, forks bounded |
| `database_tool_pool` | 1 postgres and 1 mysql configuration, 3 pools, 3 executions at a time, durations 1, 2 and 6 ticks, lag 1 | the map holds exactly the open pools; a postgres pool idles out under no query but one that outran its `statement_timeout` |
| `graph_overlap` | 2 steps, 2 requests | violation, see findings |
| `execution_deletion` | 2 steps, 1 run | violation |
| `step_config` | 1 step, 2 types | violation |
| `chat_concurrent` | 2 senders | violation |

Why the bounds are enough. `workflow_graph`: three steps give cycles of length
two and three, two workflows give edges and entries that could cross, two
requests every pair of overlapping statements. `StepTypes`
is small there, since no property of the run depends on it. Orders: two
requests find the same next order; the order that clients give is the last of the
column, so that giving it twice collides and appending after it finds one too many. No property
relates orders to edges or entries, so `OrdersOrEdges` lets a state have a given
order or an edge, not both. `workflow_execution`
tells up to three rows of one step apart (`MaxOutcomes`; the code makes two at
most, as `OneOutcomePerStep` shows), starts from every graph an editor can have built, cyclic ones included (the
overlap run shows that they exist): two steps give a cycle,
a branch and a skipped step. Steps, edges, the entry and the workflow are removed
at any time. The request adds a step, and edges to it, where that can reach a
run: after it has listed the steps and before it has listed the edges
(`RequestsAdd`; an edge may then lead to a step the run does not know). `chat_conversation`: three messages with a history
of two make trimming happen, the middle turn may have crashed in a round of two
calls with none or one answered; `MAX_TOOL_ROUNDS` is 2 for 5. Of its usage
events only those of tool executions are kept; those of completions and
embeddings are written between two statements and read by nothing in the model.
The socket of that run listens during the first turn only (`MaxLiveSends`): a
turn has two rounds of up to two calls, each with its event, and a socket of a later turn sees
the same with a longer history. `toolbox`: three requests are an attachment and
two PATCHes that overlap each other and the chat, or an attachment, a removal and
a new tool. A call reads nothing that later requests change and writes nothing
they read, so its steps commute with theirs; `CallAlone` therefore starts calls
only when no request is in flight and starts none after. The sizes make every
case of `capRows` and `readWithLimit` happen: under, at and over each limit.
`algorithms`: the three share no state, so each behaviour runs one of them; three steps
are as above, the lengths leave one to nine windows, and five
chunks hold two calls of two fragments each, mixed, with text or the usage.
`database_tool_pool`: three executions fill the
two connections of a pool and queue one more, three pools let a configuration have
its pool replaced, and the lag is the largest the durations leave room for.
`auth_sessions`: three tokens
are a login and two refreshes of its token that overlap, which is the most that
`ForksAreBounded` allows with two requests, or a chain of two rotations; two requests are two refreshes, a refresh beside a login, or two
logins; logout, expiry and the organization requests are single actions and run
beside both. Ids of documents, agents, tokens, steps and workflows are finite, so a run stops when
they are used up; this is why deadlock is not checked there, and in the other
runs because an idle server, an ended execution or a deleted conversation is a
legitimate end.

Symmetry is used only in runs without liveness, over ids that no definition tells
apart.

Fairness. `WorkflowExecution` assumes `WF_vars(RunStep(r))`: Node runs every
settled await, statements end or reject, and the executors' calls have timeouts
or a peer that answers or closes the connection. The `Abort` action is not fair.
`CanReach` and `ChunkText` are synchronous code: `WF_vars(Next)`,
`WF_chunkVars(ChunkNext)`. `ToolExecutors` assumes (`ExecutorFairness`) that Node fires its timers and
delivers events, that `terminate()` ends a thread, and that a read or fetch rejects
once its signal was aborted and `cancel()` settles. It assumes nothing of a
server or a script: the two timers alone must end a call. A query's end is left to the
driver's limits where there are any, the server and the network, so
`EveryCallAnswers` speaks of HTTP and script calls.

## 4. Findings

1. `graph_overlap`. Two overlapping `addEdge` calls each read the edges before
   the other's INSERT and together close a cycle. `workflow-execution.service.ts:113`
   calls the graph "acyclic by construction". Under the condition that no two
   addEdge calls of one workflow overlap (`EdgeWritesSerial`) it is; this is the
   specification `SerialSpec`, checked and proved.
2. `execution_deletion`. A step deleted during a run makes the INSERT of its
   outcome fail, then the INSERT in the catch: `execute` throws, the run stays
   'running' and the remaining steps get no outcome, against
   `workflow-execution.service.ts:171`.
3. `step_config`. A PATCH of only the type leaves a config validated for another
   type, against `workflow-steps.ts:36`.
4. `chat_concurrent`. Two senders interleave their rows, and `toOpenAiMessages`
   produces a tool message without its call. `conversations.service.ts:236` says an
   incomplete round can only come from a crash.

A remark on `refresh`: two refreshes of one token that overlap each issue a pair,
and a logout that overlaps a refresh leaves the successor live. The lookup is
outside the transaction and the number of revoked rows is not looked at. No text
of the repository promises otherwise, so this is a hazard and not a finding.
`ForksAreBounded` and `SpentTokenIsRefused` state what does hold: a token is
replaced at most once by each refresh that was under way at its first
replacement, and by none that begins later. A remark on `login`: starting from an
empty database its fallback to the oldest membership is never taken, as
`LoginRestoresOrganization` shows; it serves rows made outside these requests.

A remark on the loop of `execute`: `visited` is a set, so the cap on its size
cannot be what stops a cycle. `ExecutionEnds` holds because of the check of
visited steps; the mutant that removes it runs for ever with the cap in place. An
entry step deleted between the reads gives a completed run that executed nothing,
and an INSERT that succeeds without acknowledgement gives a step both a success
and a failure; the run is then failed.

Remarks on tools. A PATCH of a tool's type alone, with a null config, or
overlapping another PATCH leaves a config of another type or none; an HTTP call
of it rejects, because `new URL` stands before the `try`, although
`http-tool.executor.ts:22` trusts the shape. `ConfigIsTrusted` says what does
hold. This is `step_config` over again, so it has no run of its own. `capRows`
returns the first `maxRows` rows of a longer result without counting their bytes, although
`response-limits.ts:39` says it "truncates once the serialized JSON would exceed
maxBytes"; `AnswersAreTrue` states both cases as the code has them.

A remark on uploads. A document removed during its own upload leaves the last
UPDATE without a row, and `create` answers with nothing, although
`documents.service.ts:41` says that "the row always exists and its status tells
the caller what happened". `AnswerIsFinal` says that this is the only case of such an
answer.

A remark on the pools. What the driver does not limit, nothing limits: a postgres
query on a silent server holds its connection until the server or the network
answers, the idle timer ends its pool under it, and `pool.end()` in
`onModuleDestroy` waits for it. That shutdown runs where `app.close()` is called;
`main.ts` enables no shutdown hooks.

Remarks on the gateway. `hasPermission` at `chat.gateway.ts:130` is awaited outside
the `try`, so its failure is not a `sendMessageError` but Nest's own event, against the comment at
line 114. An answer is stored and never announced if the call stops between the
two; the client finds it when it reads the messages again. A socket is verified
once and stays authenticated when its token expires.

## 5. Proofs

All proofs hold for every value of the constants, from the assumptions named in
the modules, which TLC also evaluates: that `None` is no id (`NoneIsNotAnId`,
`NoneIsNoValue`, `NoneIsNothing`, `Names`), that bounds and inputs are of their
type (`OrdersAreNaturals`, `OrdersAreNatural`, `AdjacencyLists`, `LengthsAreNaturals`,
`IndicesAreNaturals`, `DeltasAreParts`, `SomeChunks`, `RequestsAreBounded`,
`BoundsArePositive`, `LimitsArePositive`, `SizesArePositive`, `Durations`,
`PostgresAreKeys`, `DefaultIsABranch`, `ToolsHaveNames`, `OwnerIsAUser`, `WrittenTypesExist`,
`BodiesAreUpdateToolDtos`, `EveryRowHasAnOrganization`), that requests at one
time are finitely many (`RequestsAreFinite`), that the database starts
with tools made by `create` (`InitialToolsWereCreated`), and two that are about the
code's numbers (`WindowsMove`, `IdleOutlastsQueries`). Every invariant of a passing
run is the property of a theorem, and so are the action property and both
refinements.

- `AlgorithmsProofs`. `canReach`: everything visited or on the stack is reachable,
  the target was not visited, and the visited set is closed up to the stack; with
  an empty stack it is a closed set without the target. `chunkText`: the chunks so
  far are windows that cover the text up to `start + overlap`, and the last one ends
  before the text does, so the next window lies partly beyond the last and the
  final one closes the text. `WindowsMove` (an overlap smaller than the size, 200
  and 1500 in the code) is needed: otherwise `start` need not advance.
  `createChatCompletion`: each local is what was sent of it (`Accumulated`), which
  every chunk keeps; the indices are finitely many naturals, so they can be sorted
  (`CanBeSorted`) and in one way (`SortedByRank`).
- `WorkflowGraphProofs`: `TypeInv` adds to `TypeOK` which locals a waiting request
  has set. `Ownership` is needed because the two ownership invariants are not
  inductive: a request that checked a step writes later, so the invariant says
  that the step is still in the workflow it was found in or gone (`WasIn`). Both
  hold for every interleaving. `OrderInv` does the same for the orders: the
  constraint compares a PATCH's order with the steps of the workflow its step was
  read in, and the step is still there or gone. `SerialInv` adds that what `canReach` answered
  still holds when the edge is inserted: under `EdgeWritesSerial` other requests
  only shrink the workflow's edges meanwhile. From it follow the absence of
  cycles and the refinement: every step maps to a step of `StepGraph` or a stutter.
  `StepGraphNoCycle`: the abstract graph never has a cycle, since `Connect` adds an
  arc only if its source is not reachable from its target (`AcyclicAdd`) and the
  other edits take arcs away (`AcyclicShrinks`).
- `WorkflowExecutionProofs`, for any number of runs and of edits beside them. The
  invariant ties the locals of a run to its rows: every visited step has its
  outcome or is the current one, a step not yet visited has none unless the run
  is writing the skipped ones, and a run that is still on its path has only
  successes. A row may disappear under it with its step, but never come back. The
  first attempt at `ClosedRunAccounts` failed on a run that listed the steps, saw a
  step added, and then listed an edge to it: it is completed although its current
  step exists. The property was wrong there, not the code, and the run did
  not show it, because its edits only removed. The property now says so (`known`, the
  steps that existed when the run listed them), and the run adds.
- `ToolboxProofs`. `ExecutorInv` says what a call has done so far in each phase, and
  that every message of a worker in the queue is the one it posted, so whichever
  event settles the call tells the truth. For tools, what a PATCH in flight was
  validated for is still the type of its tool unless another PATCH
  overlapped, and the pair that an attach request has checked is of one
  organization. The bytes of a prefix of rows are a recursive function, which is
  defined on every prefix: take the least one on which it were not.
- `ChatProofs`. For any number of senders: `ToolAccounting` (`CallInv`: the ids of calls
  are fresh, on record before they run and worked off one by one),
  `OnlyTheOwnerListens` (`SocketInv`), and that the gateway implements the conversation, so
  that what is proved of one holds of the other. Under `OneSender`, one call of
  `sendMessage` at a time: `RequestsWellFormed`, `RequestKeepsTurn`, `HeardIsStored`
  and `ImplementsThread`. `OneSender` is a hypothesis of these theorems and cannot be dropped:
  `chat_concurrent` violates the first of them with two senders. `TurnInv` says that
  the messages are a log of turns, each perhaps abandoned anywhere (`IsLog`), and where
  the call stands in the last one. That the request made from any such log is
  well formed, whatever the trimming cut off, is shown row by row over
  `toOpenAiMessages`: take the least row at which its locals could be wrong. `RoundInv`
  counts the rounds of the turn, which bounds them as in `Thread`; `TellInv` relates what a
  socket heard to the rows since it joined.
- `KnowledgeBaseProofs`: `UploadInv` says what an upload's `pc` says about its
  row, `AttachmentInv` that attachments join live rows of one organization. Five
  invariants follow.
- `AuthSessionsProofs`: the invariant adds what every registered user has
  (`AccountInv`: an active organization it belongs to), that what a request holds
  still stands (`RequestInv`: memberships are not removed, holders do not change,
  revocations are not undone) and that tokens are issued to registered users
  (`TokenInv`). `SpentTokenIsRefused` needs it, because the lookup comes after the
  moment the property speaks of; so does `LoginRestoresOrganization`, because the
  row was read before the memberships. For `ForksAreBounded` the refreshes that hold a
  token are counted with its successors: once it has one it is revoked, no request
  joins, and each that stores a successor stops holding it.
- `DatabaseToolPoolProofs`: `TimerInv` says that the idle timer of a postgres pool
  runs behind each of its queries: what is left on it covers what is left of the
  query's limits, as long as anything is. When a timer fires nothing is left of any:
  no query waits, since pg ends the wait, and one that runs is `Overdue`. The
  argument holds for any number of queries and connections and assumes nothing of
  the server; it needs `IdleOutlastsQueries`, which 5 s, 10 s and 30 s satisfy.

Only model-checked: liveness (`LoopsTerminate`, `ExecutionEnds`,
`EveryCallAnswers`), which is out of the prover's reach. Induction over data as a
rule with an operator parameter is out of its reach too; where a proof needs it, a recursive function
is reasoned about by the least counterexample (`LeastNatural`), which is first-order.
The findings are counterexamples and have nothing to prove.
Only proved: `ExecutesWithinSnapshot`, that a run executes only what its snapshot
reaches.

## 6. Not modelled, and the plan

Not modelled: field validation of DTOs, HTTP and socket plumbing, prompts and
texts, vector distances, logging, configuration, seeding; which statements the SQL
guard accepts; the embeddings call and the parameters passed to OpenAI; events of
the gateway that tell of no row. Lost acknowledgements are modelled for the
storing transaction of an upload, for the INSERT of a step's success and for the
INSERT of a chat answer (`StopBeforeEmit`), not elsewhere. Roles are modelled as
far as they guard the organization requests. Listings and summaries only read.

The plan's modules are all there, and every invariant, action property and
refinement that a passing run checks is proved. What is left is to shorten the long
proofs of `ChatProofs`, and bounds for liveness as safety: a variant for
the loop of `execute` (the unvisited steps of the snapshot) and for `canReach` that the prover
can show to decrease.
