-------------------------- MODULE StreamAccumulation --------------------------
(***************************************************************************)
(* OpenAiService.createChatCompletion: the answer of the model arrives as  *)
(* a stream of chunks and is put together here.  The stream is external:   *)
(* it sends any chunks in any order, may end after any of them and may     *)
(* break.  A fragment of text is the number of the chunk that brought it.  *)
(***************************************************************************)
EXTENDS Integers, Sequences, FiniteSets, SequencesExt

CONSTANTS
    Indices,        \* indices of the tool calls of one answer
    CallDeltas,     \* which of id, name and arguments a call's delta carries
    MaxChunks       \* bound: chunks in one stream

ASSUME IndicesAreNaturals == Indices \subseteq Nat
ASSUME DeltasAreParts ==
    CallDeltas \subseteq [id : BOOLEAN, name : BOOLEAN, arguments : BOOLEAN]

VARIABLES
    stream,             \* the chunks so far
    content, toolCallsByIndex, usage,   \* the locals of the loop
    result              \* what the call resolves to

streamVars == <<stream, content, toolCallsByIndex, usage, result>>

\* A chunk brings text, a part of one tool call, or the usage with no choices.
\* Several parts in one chunk are handled as if they came one by one.
NoDelta == [id |-> FALSE, name |-> FALSE, arguments |-> FALSE]
ContentChunk == [kind |-> "content", index |-> 0, delta |-> NoDelta]
UsageChunk == [kind |-> "usage", index |-> 0, delta |-> NoDelta]
CallChunks == [kind : {"call"}, index : Indices, delta : CallDeltas]

Settled(how, text, calls, tokens) ==
    [state |-> how, content |-> text, calls |-> calls, usage |-> tokens]
Pending == Settled("pending", <<>>, <<>>, 0)
Rejected == Settled("rejected", <<>>, <<>>, 0)

StreamInit ==
    /\ stream = <<>>
    /\ content = <<>> /\ toolCallsByIndex = <<>> /\ usage = 0
    /\ result = Pending

\* The next chunk is received, and the loop is at its number.
Receive(chunk) ==
    /\ result = Pending /\ Len(stream) < MaxChunks
    /\ stream' = Append(stream, chunk)
number == Len(stream) + 1

ReceiveContent ==
    /\ Receive(ContentChunk)
    /\ content' = Append(content, number)
    /\ UNCHANGED <<toolCallsByIndex, usage, result>>

\* Mutant of ReceiveUsage: a chunk without choices is skipped whole.
ReceiveUsageSkipped ==
    /\ Receive(UsageChunk)
    /\ UNCHANGED <<content, toolCallsByIndex, usage, result>>

\* The usage is taken before a chunk without choices is skipped.
ReceiveUsage ==
    /\ Receive(UsageChunk)
    /\ usage' = number
    /\ UNCHANGED <<content, toolCallsByIndex, result>>

existing(index) ==
    IF index \in DOMAIN toolCallsByIndex THEN toolCallsByIndex[index]
    ELSE [id |-> 0, name |-> <<>>, arguments |-> <<>>]

\* The id is set, name and arguments are appended to.
accumulate(call, delta) ==
    [id |-> IF delta.id THEN number ELSE call.id,
     name |-> IF delta.name THEN Append(call.name, number) ELSE call.name,
     arguments |-> IF delta.arguments THEN Append(call.arguments, number)
                   ELSE call.arguments]

ReceiveCall(chunk) ==
    /\ Receive(chunk)
    /\ toolCallsByIndex' =
         [i \in DOMAIN toolCallsByIndex \cup {chunk.index} |->
             IF i = chunk.index THEN accumulate(existing(i), chunk.delta)
             ELSE toolCallsByIndex[i]]
    /\ UNCHANGED <<content, usage, result>>

\* The entries of the map, sorted by index.
sortedCalls ==
    LET indices == DOMAIN toolCallsByIndex
        sorted == CHOOSE q \in [1..Cardinality(indices) -> indices] :
                      \A j, k \in DOMAIN q : j < k => q[j] < q[k]
    IN  [k \in DOMAIN sorted |-> toolCallsByIndex[sorted[k]]]

StreamEnds ==
    /\ result = Pending
    /\ result' = Settled("resolved", content, sortedCalls, usage)
    /\ UNCHANGED <<stream, content, toolCallsByIndex, usage>>

\* An error from the stream rejects the whole call.
StreamBreaks ==
    /\ result = Pending
    /\ result' = Rejected
    /\ UNCHANGED <<stream, content, toolCallsByIndex, usage>>

StreamNext ==
    \/ ReceiveContent \/ ReceiveUsage \/ StreamEnds \/ StreamBreaks
    \/ \E chunk \in CallChunks : ReceiveCall(chunk)

StreamSpec == StreamInit /\ [][StreamNext]_streamVars

-----------------------------------------------------------------------------
\* A string was built from these chunks, each once and in the order they came.
InOrder(string, numbers) ==
    /\ ToSet(string) = numbers
    /\ \A j, k \in DOMAIN string : j < k => string[j] < string[k]

\* A value is the one that came last, or 0 if none came.
IsLatest(value, numbers) ==
    IF numbers = {} THEN value = 0 ELSE value \in numbers /\ \A n \in numbers : n <= value

OfKind(kind) == {n \in DOMAIN stream : stream[n].kind = kind}
OfCall(i) == {n \in OfKind("call") : stream[n].index = i}
SentIndices == {stream[n].index : n \in OfKind("call")}

\* A call is what the stream said of the one at an index.
IsSentCall(call, i) ==
    /\ IsLatest(call.id, {n \in OfCall(i) : stream[n].delta.id})
    /\ InOrder(call.name, {n \in OfCall(i) : stream[n].delta.name})
    /\ InOrder(call.arguments, {n \in OfCall(i) : stream[n].delta.arguments})

\* The answer is what was streamed, however the parts of its calls were mixed:
\* all text in order, each call whole and of its own fragments only, the calls
\* in the order of their indices, and the last usage.  An answer cut short by
\* an error is never passed off as one.
AnswerIsWhole ==
    result.state = "resolved" =>
        /\ InOrder(result.content, OfKind("content"))
        /\ IsLatest(result.usage, OfKind("usage"))
        /\ Len(result.calls) = Cardinality(SentIndices)
        /\ \A i \in SentIndices :
             IsSentCall(result.calls[Cardinality({j \in SentIndices : j <= i})], i)
=============================================================================
