------------------------------- MODULE Toolbox -------------------------------
(***************************************************************************)
(* Tools, their attachment to agents and the calls made of them.  Of the   *)
(* config of a tool only the type it was validated for is kept.  A call    *)
(* comes from the test endpoint or a workflow step, which read the row     *)
(* they use, or from a chat, which read its list of tools before its first *)
(* round and uses it until the last.                                       *)
(***************************************************************************)
EXTENDS ToolExecutors

CONSTANTS
    Organizations, Agents, Tools,
    OrgOf,          \* the organization column of every agent and tool
    InitialTables,  \* rows that the table of tools may start with
    WrittenTypes,   \* types that requests write
    UpdateBodies,   \* bodies of PATCH requests
    Updaters,       \* PATCH requests
    MaxRequests     \* bound: requests that change agents, tools or attachments

ASSUME WrittenTypesExist == WrittenTypes \subseteq ToolTypes
ASSUME EveryRowHasAnOrganization == OrgOf \in [Agents \cup Tools -> Organizations]

VARIABLES
    tools,          \* rows of tools
    agents,         \* rows of agents
    agentTools,     \* rows of agent_tools
    updates,        \* the PATCH requests in flight
    attaching,      \* the attach request in flight
    chat,           \* the agent of a chat, and the tools it read
    caller,         \* the tool that was called, and for which organization
    requests,
    disturbed       \* history: tools whose config and type were not written together

tableVars == <<tools, agents, agentTools>>
toolboxVars == <<tableVars, updates, attaching, chat, caller, requests, disturbed>>
allVars == <<toolboxVars, executorVars>>

None == "none"
Null == "null"
Rows == [type : ToolTypes, config : ToolTypes \cup {Null}, parameters : BOOLEAN]
Attachments == [organizationId : Organizations, agentId : Agents, toolId : Tools]

\* A PATCH body: any field may be absent, and all but the type be null.
UpdateToolDto == [type : WrittenTypes \cup {None}, config : WrittenTypes \cup {None, Null},
                  parameters : {None, Null, "schema"}]
NoDto == [type |-> None, config |-> None, parameters |-> None]

ASSUME BodiesAreUpdateToolDtos == UpdateBodies \subseteq UpdateToolDto
ASSUME NoneIsNotAnId == None \notin Organizations \cup Agents \cup Tools
ASSUME RequestsAreBounded == MaxRequests \in Nat

\* The tools the tables start with were created by POST.
ASSUME InitialToolsWereCreated ==
    \A table \in InitialTables :
        /\ DOMAIN table \subseteq Tools /\ table \in [DOMAIN table -> Rows]
        /\ \A t \in DOMAIN table : table[t].config = table[t].type

NoCaller == [organization |-> None, tool |-> None]
NoUpdate == [tool |-> None, dto |-> NoDto, overlapped |-> FALSE]

TypeOK ==
    /\ ExecutorTypeOK
    /\ DOMAIN tools \subseteq Tools /\ tools \in [DOMAIN tools -> Rows]
    /\ agents \subseteq Agents /\ agentTools \subseteq Attachments
    /\ updates \in [Updaters -> [tool : Tools \cup {None}, dto : UpdateToolDto,
                                 overlapped : BOOLEAN]]
    /\ attaching.agent \in Agents \cup {None} /\ attaching.tool \in Tools \cup {None}
    /\ chat.agent \in Agents \cup {None}
    /\ \A t \in DOMAIN chat.tools : t \in Tools /\ chat.tools[t] \in Rows
    /\ caller \in [organization : Organizations, tool : Tools] \cup {NoCaller}
    /\ requests \in 0..MaxRequests
    /\ disturbed \subseteq Tools

NotAttaching == [agent |-> None, tool |-> None]
NoChat == [agent |-> None, listed |-> FALSE, tools |-> <<>>]

Init ==
    /\ ExecutorInit
    /\ tools \in InitialTables
    /\ agents = Agents /\ agentTools = {}
    /\ updates = [u \in Updaters |-> NoUpdate]
    /\ attaching = NotAttaching /\ chat = NoChat /\ caller = NoCaller
    /\ requests = 0 /\ disturbed = {}

Request == requests < MaxRequests /\ requests' = requests + 1

\* Mutant of Found: in any organization.
FoundAnywhere(t, org) == t \in DOMAIN tools

\* ToolsService.findOne: the row of a tool in an organization.
Found(t, org) == t \in DOMAIN tools /\ OrgOf[t] = org

-----------------------------------------------------------------------------
\* POST /tools: validateToolConfig, then the INSERT.  A config of another type
\* is refused, and nothing happens; a schema of parameters is optional.  A new
\* id is one that nothing refers to.
Create(t, type, parameters) ==
    /\ Request
    /\ t \notin DOMAIN tools /\ t # attaching.tool /\ t # caller.tool
    /\ t \notin DOMAIN chat.tools /\ \A u \in Updaters : t # updates[u].tool
    /\ tools' = [u \in DOMAIN tools \cup {t} |->
                    IF u = t THEN [type |-> type, config |-> type,
                                    parameters |-> parameters]
                    ELSE tools[u]]
    /\ UNCHANGED <<agents, agentTools, updates, attaching, chat, caller, disturbed,
                   executorVars>>

\* Mutant of validatedType: the type of the row also when the body has one.
validatedRowType(t, dto) == tools[t].type

\* The type a config is validated for.
validatedType(t, dto) == IF dto.type # None THEN dto.type ELSE tools[t].type

\* PATCH /tools/:id reads the row, and validates a config that is there against
\* the type of the body or else of the row.
FindForUpdate(u, t, dto) ==
    /\ Request
    /\ updates[u] = NoUpdate /\ Found(t, OrgOf[t])
    /\ dto.config \notin {None, Null} => dto.config = validatedType(t, dto)
    /\ updates' =
         [v \in Updaters |->
             IF v = u THEN [tool |-> t, dto |-> dto,
                            overlapped |-> \E w \in Updaters : updates[w].tool = t]
             ELSE IF updates[v].tool = t THEN [updates[v] EXCEPT !.overlapped = TRUE]
             ELSE updates[v]]
    /\ UNCHANGED <<tableVars, attaching, chat, caller, disturbed, executorVars>>

\* Mutant of written: an absent field is written too.
writtenAll(row, dto) == [row EXCEPT !.type = dto.type, !.config = dto.config]

\* The fields that are present are set.
written(row, dto) ==
    [row EXCEPT !.type = IF dto.type = None THEN @ ELSE dto.type,
                !.config = IF dto.config = None THEN @ ELSE dto.config,
                !.parameters = IF dto.parameters = None THEN @
                               ELSE dto.parameters = "schema"]

\* ToolsService.update sets the fields, if the row still is.
\* The history notes the three ways to write a type without its config.
Update(u) ==
    LET t == updates[u].tool
        dto == updates[u].dto
    IN  /\ t # None
        /\ updates' = [updates EXCEPT ![u] = NoUpdate]
        /\ IF t \in DOMAIN tools
           THEN /\ tools' = [tools EXCEPT ![t] = written(@, dto)]
                /\ disturbed' =
                     IF \/ updates[u].overlapped \/ dto.config = Null
                        \/ dto.config = None /\ dto.type \notin {None, tools[t].type}
                     THEN disturbed \cup {t} ELSE disturbed
           ELSE UNCHANGED <<tools, disturbed>>
        /\ UNCHANGED <<agents, agentTools, attaching, chat, caller, requests, executorVars>>

\* DELETE /tools/:id and of an agent; the attachments go with either.
RemoveTool(t) ==
    /\ Request
    /\ t \in DOMAIN tools
    /\ tools' = [u \in DOMAIN tools \ {t} |-> tools[u]]
    /\ agentTools' = {row \in agentTools : row.toolId # t}
    /\ UNCHANGED <<agents, updates, attaching, chat, caller, disturbed, executorVars>>

RemoveAgent(a) ==
    /\ Request
    /\ agents' = agents \ {a}
    /\ agentTools' = {row \in agentTools : row.agentId # a}
    /\ UNCHANGED <<tools, updates, attaching, chat, caller, disturbed, executorVars>>

-----------------------------------------------------------------------------
\* attach: the agent is found, the tool is found, the row is inserted; the
\* foreign keys and the unique key may refuse it.
AttachFindAgent(a) ==
    /\ Request
    /\ attaching = NotAttaching /\ a \in agents
    /\ attaching' = [agent |-> a, tool |-> None]
    /\ UNCHANGED <<tableVars, updates, chat, caller, disturbed, executorVars>>

AttachFindTool(t) ==
    /\ attaching.agent # None /\ attaching.tool = None
    /\ attaching' = IF Found(t, OrgOf[attaching.agent])
                    THEN [attaching EXCEPT !.tool = t] ELSE NotAttaching
    /\ UNCHANGED <<tableVars, updates, chat, caller, requests, disturbed, executorVars>>

Attach ==
    LET row == [organizationId |-> OrgOf[attaching.agent],
                agentId |-> attaching.agent, toolId |-> attaching.tool]
        duplicate == \E other \in agentTools :
                        other.agentId = row.agentId /\ other.toolId = row.toolId
    IN  /\ attaching.tool # None
        /\ attaching' = NotAttaching
        /\ agentTools' =
             IF row.agentId \in agents /\ row.toolId \in DOMAIN tools /\ ~duplicate
             THEN agentTools \cup {row} ELSE agentTools
        /\ UNCHANGED <<tools, agents, updates, chat, caller, requests, disturbed,
                       executorVars>>

Detach(row) ==
    /\ Request
    /\ agentTools' = agentTools \ {row}
    /\ UNCHANGED <<tools, agents, updates, attaching, chat, caller, disturbed, executorVars>>

-----------------------------------------------------------------------------
\* The test endpoint, and the tool step of a workflow: the row is read and
\* handed to its executor.
CallFound(t, org) ==
    /\ Found(t, org)
    /\ caller' = [organization |-> org, tool |-> t]
    /\ Execute(tools[t])
    /\ UNCHANGED <<tableVars, updates, attaching, chat, requests, disturbed>>

\* A chat may execute tools: listFull finds its agent, then reads the tools.
ChatFindsAgent(a) ==
    /\ chat = NoChat /\ a \in agents
    /\ chat' = [chat EXCEPT !.agent = a]
    /\ UNCHANGED <<tableVars, updates, attaching, caller, requests, disturbed, executorVars>>

\* The rows that the join returns and hasParameters keeps.
listFull(a) ==
    {t \in DOMAIN tools :
        /\ [organizationId |-> OrgOf[a], agentId |-> a, toolId |-> t] \in agentTools
        /\ tools[t].parameters}

ChatListsTools ==
    /\ chat.agent # None /\ ~chat.listed
    /\ chat' = [chat EXCEPT !.listed = TRUE,
                            !.tools = [t \in listFull(chat.agent) |-> tools[t]]]
    /\ UNCHANGED <<tableVars, updates, attaching, caller, requests, disturbed, executorVars>>

\* A tool call of the model, in any later round.
ChatCalls(t) ==
    /\ t \in DOMAIN chat.tools
    /\ caller' = [organization |-> OrgOf[chat.agent], tool |-> t]
    /\ Execute(chat.tools[t])
    /\ UNCHANGED <<tableVars, updates, attaching, chat, requests, disturbed>>

-----------------------------------------------------------------------------
Next ==
    \/ \E t \in Tools, type \in WrittenTypes, parameters \in BOOLEAN :
         Create(t, type, parameters)
    \/ \E u \in Updaters, t \in Tools, dto \in UpdateBodies : FindForUpdate(u, t, dto)
    \/ \E u \in Updaters : Update(u)
    \/ \E t \in Tools : RemoveTool(t) \/ AttachFindTool(t) \/ ChatCalls(t)
    \/ \E a \in Agents : RemoveAgent(a) \/ AttachFindAgent(a) \/ ChatFindsAgent(a)
    \/ Attach \/ ChatListsTools
    \/ \E row \in agentTools : Detach(row)
    \/ \E t \in Tools, org \in Organizations : CallFound(t, org)
    \/ ExecutorNext /\ UNCHANGED toolboxVars

Spec == Init /\ [][Next]_allVars /\ ExecutorFairness

-----------------------------------------------------------------------------
\* The executors trust the config to be one of the tool's type.  It is, in the
\* table, in the list a chat read and in the call, unless a PATCH changed the
\* type alone, set the config to null or overlapped with another.
ConfigIsTrusted ==
    /\ \A t \in DOMAIN tools \ disturbed : tools[t].config = tools[t].type
    /\ \A t \in DOMAIN chat.tools \ disturbed : chat.tools[t].config = chat.tools[t].type
    /\ caller.tool \in Tools \ disturbed => call.config = call.type

\* Tools stay in their organization: an attachment pairs an agent and a tool of
\* one, and neither the list a chat read, however stale, nor the call made from
\* it holds a tool of another.
ToolsStayInOrganization ==
    /\ \A row \in agentTools :
         /\ row.organizationId = OrgOf[row.agentId] /\ OrgOf[row.toolId] = OrgOf[row.agentId]
         /\ row.agentId \in agents /\ row.toolId \in DOMAIN tools
    /\ \A t \in DOMAIN chat.tools : OrgOf[t] = OrgOf[chat.agent]
    /\ caller # NoCaller => OrgOf[caller.tool] = caller.organization
=============================================================================
