--------------------------- MODULE OpenAiMessages ---------------------------
(***************************************************************************)
(* The pure half of conversations.service.ts: which persisted rows of a    *)
(* conversation a completion request is built from, and how they become    *)
(* OpenAI's messages.  A row keeps its role and its tool-call data; the    *)
(* text of a message is left out.                                          *)
(***************************************************************************)
EXTENDS Integers, Sequences, FiniteSets, SequencesExt

UserRow == [role |-> "user", calls |-> <<>>, id |-> 0, ran |-> FALSE]

\* An assistant row that asks for tools; a plain reply asks for none.
CallsRow(calls) ==
    [role |-> "assistant", calls |-> calls, id |-> 0, ran |-> FALSE]
ReplyRow == CallsRow(<<>>)

\* A tool row answers one call; ran tells a tool's own result from the
\* "Unknown or unavailable tool" the service writes in its place.
ToolRow(id, ran) == [role |-> "tool", calls |-> <<>>, id |-> id, ran |-> ran]

CallIds(row) == {c.id : c \in ToSet(row.calls)}

\* The rows from the last user row on; all of them if there is none.
LastTurn(rows) ==
    LET start == SelectLastInSeq(rows, LAMBDA row : row.role = "user")
    IN  SubSeq(rows, IF start = 0 THEN 1 ELSE start, Len(rows))

\* Mutant of loadHistory: starts after the user row that opens the oldest turn.
loadHistoryPastUser(all, maxTurns) ==
    LET users == {i \in DOMAIN all : all[i].role = "user"}
        kept == {i \in users : Cardinality({j \in users : j >= i}) <= maxTurns}
        start == CHOOSE i \in kept : \A j \in kept : i <= j
    IN  IF users = {} THEN all ELSE SubSeq(all, start + 1, Len(all))

\* loadHistory: from the maxTurns-th user row, counted from the end; from the
\* oldest user row if there are fewer, and everything if there is none.
loadHistory(all, maxTurns) ==
    LET users == {i \in DOMAIN all : all[i].role = "user"}
        kept == {i \in users : Cardinality({j \in users : j >= i}) <= maxTurns}
        start == CHOOSE i \in kept : \A j \in kept : i <= j
    IN  IF users = {} THEN all ELSE SubSeq(all, start, Len(all))

----------------------------------------------------------------------------
\* The locals of toOpenAiMessages; pendingAt is the length result had before
\* the pending assistant message, or -1 for null.
NotPending(result) ==
    [result |-> result, pendingAt |-> -1, pending |-> {}, answered |-> {}]

dropPendingRound(acc) ==
    NotPending(IF acc.pendingAt = -1 THEN acc.result
               ELSE SubSeq(acc.result, 1, acc.pendingAt))

\* Mutant of ConvertUser: a new turn keeps the round the last one left open.
ConvertUserKeepsRound(acc, row) == NotPending(Append(acc.result, row))

ConvertUser(acc, row) ==
    NotPending(Append(dropPendingRound(acc).result, row))

ConvertCalls(acc, row) ==
    LET kept == dropPendingRound(acc).result
    IN  [result |-> Append(kept, row), pendingAt |-> Len(kept),
         pending |-> CallIds(row), answered |-> {}]

\* A plain reply clears the pending round without dropping it.
ConvertReply(acc, row) == NotPending(Append(acc.result, row))

\* The answer of a call.  Rows without the id of a call, which the code skips,
\* do not occur: the id is stored with every answer.
ConvertTool(acc, row) ==
    LET result == Append(acc.result, row)
        answered == acc.answered \cup {row.id}
    IN  IF acc.pending # {} /\ acc.pending \subseteq answered
        THEN NotPending(result)
        ELSE [acc EXCEPT !.result = result, !.answered = answered]

Convert(acc, row) ==
    CASE row.role = "user" -> ConvertUser(acc, row)
      [] row.role = "assistant" /\ row.calls # <<>> -> ConvertCalls(acc, row)
      [] row.role = "assistant" /\ row.calls = <<>> -> ConvertReply(acc, row)
      [] row.role = "tool" -> ConvertTool(acc, row)

\* The locals after the first i rows, and what they leave after the last one.
toOpenAiMessages(rows) ==
    LET acc[i \in 0..Len(rows)] ==
            IF i = 0 THEN NotPending(<<>>) ELSE Convert(acc[i - 1], rows[i])
    IN  dropPendingRound(acc[Len(rows)]).result

----------------------------------------------------------------------------
\* The sequences of messages OpenAI accepts: an assistant message with tool
\* calls is followed at once by one tool message for each of its calls, and a
\* tool message stands nowhere else.
AnswersOf(msgs, i) == i + 1 .. i + Cardinality(CallIds(msgs[i]))

WellFormed(msgs) ==
    /\ \A i \in DOMAIN msgs :
         msgs[i].calls # <<>> =>
             /\ AnswersOf(msgs, i) \subseteq DOMAIN msgs
             /\ {msgs[j].id : j \in AnswersOf(msgs, i)} = CallIds(msgs[i])
    /\ \A j \in DOMAIN msgs :
         msgs[j].role = "tool" =>
             \E i \in DOMAIN msgs : msgs[i].calls # <<>> /\ j \in AnswersOf(msgs, i)
=============================================================================
