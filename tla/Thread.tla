-------------------------------- MODULE Thread --------------------------------
(***************************************************************************)
(* What a conversation promises to whoever reads it back: a log that only  *)
(* grows, in turns.  A turn is the user's message, at most MaxToolRounds   *)
(* rounds, and a reply; a round is the assistant's calls and their answers *)
(* in the order of the calls.  A turn may be abandoned anywhere, and only  *)
(* deleting the conversation removes a row.                                *)
(***************************************************************************)
EXTENDS OpenAiMessages

CONSTANTS
    Calls,          \* the tool calls an assistant can make
    MaxToolRounds

VARIABLES
    thread,         \* the rows, oldest first
    exists          \* the conversation has not been deleted

vars == <<thread, exists>>

Turn == LastTurn(thread)
LastRound == SelectLastInSeq(Turn, LAMBDA row : row.calls # <<>>)
Rounds == Cardinality({i \in DOMAIN Turn : Turn[i].calls # <<>>})

\* The calls of the last round that have no answer yet.
Outstanding ==
    IF LastRound = 0 THEN <<>>
    ELSE SubSeq(Turn[LastRound].calls, Len(Turn) - LastRound + 1,
                Len(Turn[LastRound].calls))

\* The turn has neither a reply nor an unanswered call.
AssistantsTurn ==
    thread # <<>> /\ Outstanding = <<>> /\ Last(thread) # ReplyRow

Init == thread = <<>> /\ exists = TRUE

Extend(row) == exists /\ thread' = Append(thread, row) /\ exists' = exists

Ask == Extend(UserRow)
Round(calls) == AssistantsTurn /\ Rounds < MaxToolRounds /\ Extend(CallsRow(calls))
Answer(ran) == Outstanding # <<>> /\ Extend(ToolRow(Head(Outstanding).id, ran))
Reply == AssistantsTurn /\ Extend(ReplyRow)
Delete == exists /\ thread' = <<>> /\ exists' = FALSE

\* The calls of a round are whatever sequence the step appends.
Next ==
    \/ Ask \/ Reply \/ Delete
    \/ \E ran \in BOOLEAN : Answer(ran)
    \/ thread' # <<>> /\ Last(thread').calls \in Seq(Calls) \ {<<>>}
         /\ Round(Last(thread').calls)

Spec == Init /\ [][Next]_vars
=============================================================================
