-------------------------- MODULE ChatConversation --------------------------
(***************************************************************************)
(* ChatService.sendMessage and deleteConversation on one conversation, with *)
(* the rows of its messages, the tools that run and the usage events that  *)
(* bill them.  A call of sendMessage awaits its statements, the model and  *)
(* the tools one by one; calls from two connections, a delete, and a       *)
(* failure or crash may come between any two of them.                      *)
(*                                                                         *)
(* The model and the tools are external: the model answers with text or    *)
(* with calls of fresh ids, which may name a tool that is not available.   *)
(***************************************************************************)
EXTENDS OpenAiMessages

CONSTANTS
    Senders,            \* calls of sendMessage in flight at once
    Tools,              \* tools that may be attached to the agent
    ToolNames,          \* names the model may call: some may be no tool's
    MAX_TOOL_ROUNDS,
    MaxTurns,           \* DEFAULT_MAX_TURNS of loadHistory
    MaxSends,           \* bound: user rows in the conversation
    MaxCalls,           \* bound: calls in one answer of the model
    MaxCallsInAll       \* bound: calls the model makes altogether

ASSUME ToolsHaveNames == Tools \subseteq ToolNames
ASSUME BoundsArePositive ==
    {MAX_TOOL_ROUNDS, MaxTurns, MaxSends, MaxCalls, MaxCallsInAll}
        \subseteq Nat \ {0}

VARIABLES
    exists,     \* the row of conversations is there
    messages,   \* its rows of messages, by sequence
    sender,     \* the locals of each call of sendMessage, and where it stands
    executed,   \* ids of the calls whose tool ran
    billed,     \* ids of the calls with a tool_execution usage event
    nextCall    \* the model never reuses the id of a call

vars == <<exists, messages, sender, executed, billed, nextCall>>

Call == [id : Nat, tool : ToolNames]
Row == [role : {"user", "assistant", "tool"}, calls : Seq(Call), id : Nat,
        ran : BOOLEAN]

PC == {"idle", "prepare", "loadHistory", "completion", "appendCalls",
       "executeTool", "recordUsage", "appendTool", "appendReply"}

Sender == [pc : PC, tools : SUBSET Tools, round : 0..MAX_TOOL_ROUNDS,
           request : Seq(Row), calls : Seq(Call), ran : BOOLEAN]

Idle == [pc |-> "idle", tools |-> {}, round |-> 0, request |-> <<>>,
         calls |-> <<>>, ran |-> FALSE]

Init ==
    /\ exists = TRUE /\ messages = <<>>
    /\ sender = [s \in Senders |-> Idle]
    /\ executed = {} /\ billed = {} /\ nextCall = 1

Sends == Cardinality({i \in DOMAIN messages : messages[i].role = "user"})

\* Mutant of appendMessage: no foreign key holds the row back.
appendMessageUnchecked(s, row, next) ==
    /\ messages' = Append(messages, row)
    /\ sender' = [sender EXCEPT ![s] = next]

\* appendMessage, and where sendMessage goes on: the foreign key rejects a row
\* of a deleted conversation, and the call fails.
appendMessage(s, row, next) ==
    /\ messages' = IF exists THEN Append(messages, row) ELSE messages
    /\ sender' = [sender EXCEPT ![s] = IF exists THEN next ELSE Idle]

----------------------------------------------------------------------------
\* findOwned finds the conversation, and the user's message is appended.
Send(s) ==
    /\ sender[s] = Idle
    /\ exists /\ Sends < MaxSends
    /\ appendMessage(s, UserRow, [Idle EXCEPT !.pc = "prepare"])
    /\ UNCHANGED <<exists, executed, billed, nextCall>>

\* Retrieval changes nothing here and its failure is swallowed.  Without the
\* permission tool:execute no tool is available, else those attached now are.
Prepare(s) ==
    /\ sender[s].pc = "prepare"
    /\ \E tools \in SUBSET Tools :
         sender' = [sender EXCEPT ![s].pc = "loadHistory", ![s].tools = tools]
    /\ UNCHANGED <<exists, messages, executed, billed, nextCall>>

\* A round starts by reading the history its request is built from.
LoadHistory(s) ==
    /\ sender[s].pc = "loadHistory"
    /\ sender' = [sender EXCEPT
         ![s].pc = "completion",
         ![s].request = toOpenAiMessages(loadHistory(messages, MaxTurns))]
    /\ UNCHANGED <<exists, messages, executed, billed, nextCall>>

\* The model answers with text.
CompletionText(s) ==
    /\ sender[s].pc = "completion"
    /\ sender' = [sender EXCEPT ![s].pc = "appendReply", ![s].request = <<>>]
    /\ UNCHANGED <<exists, messages, executed, billed, nextCall>>

\* Mutant of CompletionCalls: the calls run before they are persisted.
CompletionCallsUnpersisted(s) ==
    /\ sender[s].pc = "completion"
    /\ \E n \in 1..MaxCalls : \E names \in [1..n -> ToolNames] :
         /\ nextCall + n <= MaxCallsInAll + 1
         /\ sender' = [sender EXCEPT
              ![s].pc = "executeTool", ![s].request = <<>>,
              ![s].calls = [i \in 1..n |-> [id |-> nextCall + i - 1,
                                            tool |-> names[i]]]]
         /\ nextCall' = nextCall + n
    /\ UNCHANGED <<exists, messages, executed, billed>>

\* The model answers with calls.
CompletionCalls(s) ==
    /\ sender[s].pc = "completion"
    /\ \E n \in 1..MaxCalls : \E names \in [1..n -> ToolNames] :
         /\ nextCall + n <= MaxCallsInAll + 1
         /\ sender' = [sender EXCEPT
              ![s].pc = "appendCalls", ![s].request = <<>>,
              ![s].calls = [i \in 1..n |-> [id |-> nextCall + i - 1,
                                            tool |-> names[i]]]]
         /\ nextCall' = nextCall + n
    /\ UNCHANGED <<exists, messages, executed, billed>>

\* The assistant's calls are persisted before any of them is executed.
AppendCalls(s) ==
    /\ sender[s].pc = "appendCalls"
    /\ appendMessage(s, CallsRow(sender[s].calls),
                     [sender[s] EXCEPT !.pc = "executeTool"])
    /\ UNCHANGED <<exists, executed, billed, nextCall>>

\* The first call left: its tool runs, if it is one of those available.
ExecuteTool(s) ==
    LET call == Head(sender[s].calls)
        found == call.tool \in sender[s].tools
    IN  /\ sender[s].pc = "executeTool"
        /\ executed' = IF found THEN executed \cup {call.id} ELSE executed
        /\ sender' = [sender EXCEPT
             ![s].pc = IF found THEN "recordUsage" ELSE "appendTool",
             ![s].ran = found]
        /\ UNCHANGED <<exists, messages, billed, nextCall>>

\* UsageService.record: the events it may leave, as it logs and swallows a
\* failed write.
record(events, id) == {events, events \cup {id}}

RecordToolUsage(s) ==
    /\ sender[s].pc = "recordUsage"
    /\ billed' \in record(billed, Head(sender[s].calls).id)
    /\ sender' = [sender EXCEPT ![s].pc = "appendTool"]
    /\ UNCHANGED <<exists, messages, executed, nextCall>>

\* Mutant of NextRound: one round too many.
NextRoundOffByOne(locals) ==
    LET round == locals.round + 1
    IN  [locals EXCEPT !.round = round,
           !.pc = IF round <= MAX_TOOL_ROUNDS THEN "loadHistory" ELSE "appendReply"]

\* The loop head after a round: another round, or the fallback message.
NextRound(locals) ==
    LET round == locals.round + 1
    IN  [locals EXCEPT !.round = round,
           !.pc = IF round < MAX_TOOL_ROUNDS THEN "loadHistory" ELSE "appendReply"]

\* The answer of the call is persisted; on to the next call or round.
AppendTool(s) ==
    LET locals == sender[s]
        rest == [locals EXCEPT !.calls = Tail(locals.calls), !.ran = FALSE]
    IN  /\ locals.pc = "appendTool"
        /\ appendMessage(s, ToolRow(Head(locals.calls).id, locals.ran),
             IF rest.calls = <<>> THEN NextRound(rest)
             ELSE [rest EXCEPT !.pc = "executeTool"])
        /\ UNCHANGED <<exists, executed, billed, nextCall>>

\* The model's text, or the fallback message after the last round.
AppendReply(s) ==
    /\ sender[s].pc = "appendReply"
    /\ appendMessage(s, ReplyRow, Idle)
    /\ UNCHANGED <<exists, executed, billed, nextCall>>

\* The model or a tool call throws, a statement rejects, or the process dies.
Abort(s) ==
    /\ sender[s] # Idle
    /\ sender' = [sender EXCEPT ![s] = Idle]
    /\ UNCHANGED <<exists, messages, executed, billed, nextCall>>

\* deleteConversation: one DELETE, cascading to messages.
DeleteConversation ==
    /\ exists
    /\ exists' = FALSE /\ messages' = <<>>
    /\ UNCHANGED <<sender, executed, billed, nextCall>>

Next ==
    \/ DeleteConversation
    \/ \E s \in Senders :
         \/ Send(s) \/ Prepare(s) \/ LoadHistory(s)
         \/ CompletionText(s) \/ CompletionCalls(s) \/ AppendCalls(s)
         \/ ExecuteTool(s) \/ RecordToolUsage(s) \/ AppendTool(s)
         \/ AppendReply(s) \/ Abort(s)

Spec == Init /\ [][Next]_vars

----------------------------------------------------------------------------
TypeOK ==
    /\ exists \in BOOLEAN
    /\ messages \in Seq(Row)
    /\ sender \in [Senders -> Sender]
    /\ executed \subseteq 1..(nextCall - 1) /\ billed \subseteq 1..(nextCall - 1)
    /\ nextCall \in Nat \ {0}

\* Every request is one the OpenAI API accepts: each round of tool calls in it
\* is answered in full and no answer stands alone, whatever turns crashed and
\* however the history was trimmed.
RequestsWellFormed ==
    \A s \in Senders : sender[s].pc = "completion" => WellFormed(sender[s].request)

\* A request never loses the turn it is made for: it ends with the user's
\* message and every call and answer of the rounds so far, so the model never
\* repeats a call for want of its result.
RequestKeepsTurn ==
    \A s \in Senders :
        sender[s].pc = "completion" /\ exists =>
            IsSuffix(LastTurn(messages), sender[s].request)

\* A tool leaves a trace, wherever the call stops: no tool runs whose call is
\* not on record in the conversation, none is billed that did not run, and the
\* conversation claims a result of exactly the calls that ran.
ToolAccounting ==
    /\ exists => executed \subseteq UNION {CallIds(row) : row \in ToSet(messages)}
    /\ billed \subseteq executed
    /\ \A row \in ToSet(messages) :
         row.role = "tool" => (row.ran <=> row.id \in executed)

\* One caller at a time writes exactly the thread a reader expects, crashes,
\* failures and a delete in the middle included.
Abstract == INSTANCE Thread
    WITH thread <- messages, Calls <- Call, MaxToolRounds <- MAX_TOOL_ROUNDS
ImplementsThread == Abstract!Spec
=============================================================================
