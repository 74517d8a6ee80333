------------------------------ MODULE ChatProofs ------------------------------
(***************************************************************************)
(* Proofs about ChatConversation and ChatGateway.                          *)
(*                                                                         *)
(* For any number of calls of sendMessage at once: Types and CallInv, of   *)
(* the ids of tool calls, which are fresh, on record before they run and   *)
(* worked off one by one; SocketInv, of what each socket knows.            *)
(*                                                                         *)
(* For one call at a time (OneSender; two of them interleave their rows):  *)
(* TurnInv says the messages are a log of turns that may have been         *)
(* abandoned anywhere (IsLog), and where the call stands in the last one.  *)
(* From a log toOpenAiMessages makes a request that OpenAI accepts and     *)
(* that keeps the last turn: by induction over its rows, as the least row  *)
(* at which the conversion's locals could go wrong (LeastNatural).         *)
(* RoundInv counts the rounds of the turn, and with it each step maps to   *)
(* one of Thread; TellInv relates what the room has heard to the log.      *)
(***************************************************************************)
EXTENDS ChatGateway, FiniteSetTheorems, WellFoundedInduction, TLAPS

-----------------------------------------------------------------------------
\* A non-empty set of naturals has a least element.
LEMMA LeastNatural ==
    ASSUME NEW T \in SUBSET Nat, T # {}
    PROVE  \E n \in T : \A m \in T : n <= m
<1>1. PICK n \in T : \A m \in T : <<m, n>> \notin OpToRel(<, Nat)
  BY WFMin, NatLessThanWellFounded
<1>2. \A m \in T : ~(m < n) BY <1>1 DEF OpToRel
<1>3. QED BY <1>2

LEMMA Appended ==
    ASSUME NEW T, NEW q \in Seq(T), NEW e \in T
    PROVE  /\ Append(q, e) \in Seq(T)
           /\ Len(Append(q, e)) = Len(q) + 1
           /\ \A i \in 1..Len(q) : Append(q, e)[i] = q[i]
           /\ Append(q, e)[Len(q) + 1] = e
           /\ ToSet(Append(q, e)) = ToSet(q) \cup {e}
<1>1. /\ Append(q, e) \in Seq(T)
      /\ Len(Append(q, e)) = Len(q) + 1
      /\ \A i \in 1..Len(q) : Append(q, e)[i] = q[i]
      /\ Append(q, e)[Len(q) + 1] = e
  OBVIOUS
<1>2. DOMAIN q = 1..Len(q) /\ DOMAIN Append(q, e) = 1..(Len(q) + 1) /\ Len(q) \in Nat
  OBVIOUS
<1>3. 1..(Len(q) + 1) = 1..Len(q) \cup {Len(q) + 1} BY <1>2
<1>4. ToSet(Append(q, e)) = ToSet(q) \cup {e} BY <1>1, <1>2, <1>3 DEF ToSet
<1>5. QED BY <1>1, <1>4

LEMMA RowTypes ==
    /\ UserRow \in Row /\ ReplyRow \in Row
    /\ \A calls \in Seq(Call) : CallsRow(calls) \in Row
    /\ \A id \in Nat, ran \in BOOLEAN : ToolRow(id, ran) \in Row
<1>1. <<>> \in Seq(Call) OBVIOUS
<1>2. \A calls \in Seq(Call) : CallsRow(calls) \in Row BY DEF CallsRow, Row
<1>3. \A id \in Nat, ran \in BOOLEAN : ToolRow(id, ran) \in Row BY <1>1 DEF ToolRow, Row
<1>4. UserRow \in Row BY <1>1 DEF UserRow, Row
<1>5. QED BY <1>1, <1>2, <1>3, <1>4 DEF ReplyRow

-----------------------------------------------------------------------------
\* The locals of toOpenAiMessages after i rows.
IsConversion(acc, rows, k) ==
    acc = [i \in 0..k |->
             IF i = 0 THEN NotPending(<<>>) ELSE Convert(acc[i - 1], rows[i])]

LEMMA ConversionExists ==
    ASSUME NEW rows \in Seq(Row)
    PROVE  \A k \in 0..Len(rows) : \E acc : IsConversion(acc, rows, k)
<1> DEFINE T == {k \in 0..Len(rows) : ~\E acc : IsConversion(acc, rows, k)}
<1> SUFFICES ASSUME T # {} PROVE FALSE OBVIOUS
<1>1. PICK k \in T : \A m \in T : k <= m
  <2>1. T \in SUBSET Nat OBVIOUS
  <2> HIDE DEF T
  <2>2. QED BY <2>1, LeastNatural
<1>2. k # 0
  <2>1. IsConversion([i \in 0..0 |-> NotPending(<<>>)], rows, 0) BY DEF IsConversion
  <2>2. QED BY <2>1
<1>3. PICK acc : IsConversion(acc, rows, k - 1) BY <1>1, <1>2
<1> DEFINE more == [i \in 0..k |-> IF i = k THEN Convert(acc[k - 1], rows[k]) ELSE acc[i]]
<1>4. IsConversion(more, rows, k)
  <2>1. \A i \in 0..(k - 1) : more[i] = acc[i] OBVIOUS
  <2>2. more[0] = NotPending(<<>>) BY <1>2, <1>3 DEF IsConversion
  <2>3. \A i \in 1..k : more[i] = Convert(more[i - 1], rows[i])
    <3> TAKE i \in 1..k
    <3>1. CASE i = k BY <3>1, <1>2
    <3>2. CASE i # k BY <3>2, <1>3 DEF IsConversion
    <3>3. QED BY <3>1, <3>2
  <2> HIDE DEF more
  <2>4. more = [i \in 0..k |-> more[i]] BY DEF more
  <2>5. \A i \in 0..k : more[i] = IF i = 0 THEN NotPending(<<>>)
                                  ELSE Convert(more[i - 1], rows[i])
    BY <2>2, <2>3
  <2>6. QED BY <2>4, <2>5 DEF IsConversion
<1>5. QED BY <1>4

\* toOpenAiMessages is what its recursive definition says.
LEMMA Conversion ==
    ASSUME NEW rows \in Seq(Row)
    PROVE  \E acc : /\ acc[0] = NotPending(<<>>)
                    /\ \A i \in 1..Len(rows) : acc[i] = Convert(acc[i - 1], rows[i])
                    /\ toOpenAiMessages(rows) = dropPendingRound(acc[Len(rows)]).result
<1> DEFINE acc == CHOOSE f : IsConversion(f, rows, Len(rows))
<1>1. IsConversion(acc, rows, Len(rows))
  <2>1. \E f : IsConversion(f, rows, Len(rows)) BY ConversionExists
  <2>2. QED BY <2>1
<1>2. toOpenAiMessages(rows) = dropPendingRound(acc[Len(rows)]).result
  BY DEF toOpenAiMessages, IsConversion
<1> HIDE DEF acc
<1>3. Len(rows) \in Nat OBVIOUS
<1>4. acc[0] = NotPending(<<>>) BY <1>1, <1>3 DEF IsConversion
<1>5. \A i \in 1..Len(rows) : acc[i] = Convert(acc[i - 1], rows[i])
  BY <1>1, <1>3 DEF IsConversion
<1>6. QED BY <1>2, <1>4, <1>5

\* The locals of toOpenAiMessages.
Acc == [result : Seq(Row), pendingAt : Nat \cup {-1}, pending : SUBSET Nat,
        answered : SUBSET Nat]

AccTyped(acc) == acc \in Acc /\ acc.pendingAt <= Len(acc.result)

LEMMA Prefix ==
    ASSUME NEW T, NEW q \in Seq(T), NEW n \in 0..Len(q)
    PROVE  /\ SubSeq(q, 1, n) \in Seq(T) /\ Len(SubSeq(q, 1, n)) = n
           /\ \A i \in 1..n : SubSeq(q, 1, n)[i] = q[i]
OBVIOUS

LEMMA NotPendingTyped ==
    ASSUME NEW result \in Seq(Row)
    PROVE  AccTyped(NotPending(result)) /\ NotPending(result).result = result
BY DEF AccTyped, NotPending, Acc

LEMMA Dropped ==
    ASSUME NEW acc, AccTyped(acc)
    PROVE  /\ dropPendingRound(acc).result \in Seq(Row)
           /\ acc.pendingAt = -1 => dropPendingRound(acc).result = acc.result
           /\ acc.pendingAt # -1 =>
                dropPendingRound(acc).result = SubSeq(acc.result, 1, acc.pendingAt)
<1>1. acc.result \in Seq(Row) /\ acc.pendingAt \in Nat \cup {-1}
      /\ acc.pendingAt <= Len(acc.result)
  BY DEF AccTyped, Acc
<1>2. acc.pendingAt # -1 => SubSeq(acc.result, 1, acc.pendingAt) \in Seq(Row)
  BY <1>1, Prefix
<1>3. QED BY <1>1, <1>2 DEF dropPendingRound, NotPending

LEMMA CallIdsTyped ==
    ASSUME NEW row, row.calls \in Seq(Call)
    PROVE  /\ CallIds(row) \in SUBSET Nat
           /\ CallIds(row) = {row.calls[i].id : i \in 1..Len(row.calls)}
<1>1. \A i \in 1..Len(row.calls) : row.calls[i] \in Call OBVIOUS
<1>2. CallIds(row) = {row.calls[i].id : i \in 1..Len(row.calls)}
  BY DEF CallIds, ToSet
<1>3. QED BY <1>1, <1>2 DEF Call

\* What each row does to the locals.
LEMMA Converts ==
    ASSUME NEW acc, AccTyped(acc), NEW row \in Row
    PROVE  /\ AccTyped(Convert(acc, row))
           /\ row.role = "user" => Convert(acc, row) = ConvertUser(acc, row)
           /\ row.role = "assistant" /\ row.calls # <<>> =>
                Convert(acc, row) = ConvertCalls(acc, row)
           /\ row.role = "assistant" /\ row.calls = <<>> =>
                Convert(acc, row) = ConvertReply(acc, row)
           /\ row.role = "tool" => Convert(acc, row) = ConvertTool(acc, row)
<1> DEFINE kept == dropPendingRound(acc).result
<1>1. /\ acc.result \in Seq(Row) /\ acc.pendingAt \in Nat \cup {-1}
      /\ acc.pendingAt <= Len(acc.result) /\ Len(acc.result) \in Nat
      /\ acc.pending \in SUBSET Nat /\ acc.answered \in SUBSET Nat
  BY DEF AccTyped, Acc
<1>2. kept \in Seq(Row) BY Dropped
<1>3. /\ row.role \in {"user", "assistant", "tool"} /\ row.calls \in Seq(Call)
      /\ row.id \in Nat
  BY DEF Row
<1>4. /\ row.role = "user" => Convert(acc, row) = ConvertUser(acc, row)
      /\ row.role = "assistant" /\ row.calls # <<>> =>
                Convert(acc, row) = ConvertCalls(acc, row)
      /\ row.role = "assistant" /\ row.calls = <<>> =>
                Convert(acc, row) = ConvertReply(acc, row)
      /\ row.role = "tool" => Convert(acc, row) = ConvertTool(acc, row)
  BY DEF Convert
<1> HIDE DEF kept
<1>5. AccTyped(ConvertUser(acc, row)) /\ AccTyped(ConvertReply(acc, row))
  BY <1>1, <1>2, Appended, NotPendingTyped DEF ConvertUser, ConvertReply, kept
<1>6. AccTyped(ConvertCalls(acc, row))
  <2>1. /\ Append(kept, row) \in Seq(Row) /\ Len(kept) \in Nat
        /\ Len(kept) <= Len(Append(kept, row)) /\ CallIds(row) \in SUBSET Nat
    BY <1>2, <1>3, Appended, CallIdsTyped
  <2>2. ConvertCalls(acc, row) =
          [result |-> Append(kept, row), pendingAt |-> Len(kept),
           pending |-> CallIds(row), answered |-> {}]
    BY DEF ConvertCalls, kept
  <2>3. QED BY <2>1, <2>2 DEF AccTyped, Acc
<1>7. AccTyped(ConvertTool(acc, row))
  <2> DEFINE result == Append(acc.result, row)
             answered == acc.answered \cup {row.id}
  <2>1. /\ result \in Seq(Row) /\ Len(result) = Len(acc.result) + 1
        /\ answered \in SUBSET Nat
    BY <1>1, <1>3, Appended
  <2>2. acc \in [result : Seq(Row), pendingAt : Nat \cup {-1}, pending : SUBSET Nat,
                 answered : SUBSET Nat]
    BY DEF AccTyped, Acc
  <2> HIDE DEF result, answered
  <2> DEFINE open == [acc EXCEPT !.result = result, !.answered = answered]
  <2>3. open \in Acc BY <2>1, <2>2 DEF Acc
  <2>4. AccTyped(open)
    <3>1. open.result = result /\ open.pendingAt = acc.pendingAt BY <2>2
    <3>2. QED BY <2>1, <2>3, <3>1, <1>1 DEF AccTyped
  <2>5. AccTyped(NotPending(result)) BY <2>1, NotPendingTyped
  <2>6. QED BY <2>4, <2>5 DEF ConvertTool, result, answered
<1>8. QED BY <1>3, <1>4, <1>5, <1>6, <1>7

LEMMA RequestTyped ==
    ASSUME NEW rows \in Seq(Row)
    PROVE  toOpenAiMessages(rows) \in Seq(Row)
<1>1. PICK acc : /\ acc[0] = NotPending(<<>>)
                 /\ \A i \in 1..Len(rows) : acc[i] = Convert(acc[i - 1], rows[i])
                 /\ toOpenAiMessages(rows) = dropPendingRound(acc[Len(rows)]).result
  BY Conversion
<1> DEFINE T == {i \in 0..Len(rows) : ~AccTyped(acc[i])}
<1>2. T = {}
  <2> SUFFICES ASSUME T # {} PROVE FALSE OBVIOUS
  <2>1. PICK i \in T : \A m \in T : i <= m
    <3>1. T \in SUBSET Nat OBVIOUS
    <3> HIDE DEF T
    <3>2. QED BY <3>1, LeastNatural
  <2>2. i # 0
    <3>1. <<>> \in Seq(Row) OBVIOUS
    <3>2. QED BY <1>1, <3>1, NotPendingTyped
  <2>3. i \in 1..Len(rows) /\ AccTyped(acc[i - 1]) /\ rows[i] \in Row BY <2>1, <2>2
  <2>4. QED BY <2>3, <1>1, Converts
<1>3. AccTyped(acc[Len(rows)]) BY <1>2
<1>4. QED BY <1>1, <1>3, Dropped

-----------------------------------------------------------------------------
\* loadHistory keeps everything, or what follows from some user's row on: the
\* last one at the latest.
LEMMA History ==
    ASSUME NEW rows \in Seq(Row)
    PROVE  \/ /\ \A i \in DOMAIN rows : rows[i].role # "user"
              /\ loadHistory(rows, MaxTurns) = rows
           \/ \E start \in 1..Len(rows) :
                /\ rows[start].role = "user"
                /\ loadHistory(rows, MaxTurns) = SubSeq(rows, start, Len(rows))
                /\ \E u \in start..Len(rows) :
                     /\ rows[u].role = "user"
                     /\ \A j \in u + 1 .. Len(rows) : rows[j].role # "user"
<1> DEFINE users == {i \in DOMAIN rows : rows[i].role = "user"}
           kept == {i \in users : Cardinality({j \in users : j >= i}) <= MaxTurns}
           start == CHOOSE i \in kept : \A j \in kept : i <= j
<1>1. DOMAIN rows = 1..Len(rows) /\ Len(rows) \in Nat /\ MaxTurns \in Nat \ {0}
  BY BoundsArePositive
<1>2. loadHistory(rows, MaxTurns) =
        IF users = {} THEN rows ELSE SubSeq(rows, start, Len(rows))
  BY DEF loadHistory
<1>3. CASE users = {}
  <2>1. \A i \in DOMAIN rows : rows[i].role # "user" BY <1>3
  <2> HIDE DEF users, start
  <2>2. QED BY <1>2, <1>3, <2>1
<1>4. CASE users # {}
  <2>1. PICK u \in users : \A j \in users : j <= u
    <3> DEFINE T == {n \in 0..Len(rows) : Len(rows) - n \in users}
    <3>1. T \in SUBSET Nat OBVIOUS
    <3>2. T # {}
      <4>1. PICK i \in users : TRUE BY <1>4
      <4>2. Len(rows) - i \in T BY <4>1, <1>1
      <4>3. QED BY <4>2
    <3>3. PICK n \in T : \A m \in T : n <= m
      <4> HIDE DEF T
      <4>1. QED BY <3>1, <3>2, LeastNatural
    <3>4. \A j \in users : Len(rows) - j \in T BY <1>1
    <3>5. \A j \in users : j <= Len(rows) - n
      <4> TAKE j \in users
      <4>1. n <= Len(rows) - j BY <3>3, <3>4
      <4>2. j \in Nat /\ n \in Nat BY <1>1, <3>3
      <4> HIDE DEF users, T
      <4>3. QED BY <4>1, <4>2, <1>1
    <3>6. QED BY <3>3, <3>5
  <2>2. u \in kept
    <3> DEFINE later == {j \in users : j >= u}
    <3>1. later = {u} BY <2>1, <1>1
    <3> HIDE DEF users, later
    <3>2. Cardinality(later) = 1 BY <3>1, FS_Singleton
    <3>3. Cardinality(later) <= MaxTurns
      <4> HIDE DEF kept
      <4>1. 1 <= MaxTurns BY <1>1
      <4>2. QED BY <3>2, <4>1
    <3>4. QED BY <3>3, <2>1 DEF later
  <2>3. \E i \in kept : \A j \in kept : i <= j
    <3>1. kept \in SUBSET Nat BY <1>1
    <3> HIDE DEF kept
    <3>2. QED BY <3>1, <2>2, LeastNatural
  <2>4. start \in kept /\ \A j \in kept : start <= j BY <2>3
  <2>5. start \in users /\ start <= u BY <2>2, <2>4
  <2>6. \A j \in u + 1 .. Len(rows) : rows[j].role # "user"
    <3> TAKE j \in u + 1 .. Len(rows)
    <3>1. j \in DOMAIN rows /\ ~(j <= u) BY <2>1, <1>1
    <3>2. QED BY <3>1, <2>1
  <2>7. rows[start].role = "user" /\ start \in 1..Len(rows) /\ u \in start..Len(rows)
        /\ rows[u].role = "user"
    BY <2>1, <2>5, <1>1
  <2> HIDE DEF users, start
  <2>8. loadHistory(rows, MaxTurns) = SubSeq(rows, start, Len(rows)) BY <1>2, <1>4
  <2>9. QED BY <2>6, <2>7, <2>8
<1>5. QED BY <1>3, <1>4

LEMMA HistoryTyped ==
    ASSUME NEW rows \in Seq(Row)
    PROVE  loadHistory(rows, MaxTurns) \in Seq(Row)
<1>1. \A start \in 1..Len(rows) : SubSeq(rows, start, Len(rows)) \in Seq(Row)
  OBVIOUS
<1>2. QED BY <1>1, History

-----------------------------------------------------------------------------
\* The states in which a call works off an answer of the model, and those in
\* which the answer is on record.
InRound == {"executeTool", "recordUsage", "appendTool"}
Asking == {"appendCalls"} \cup InRound

\* Types of the variables, and the rounds left to a call of sendMessage.
Types ==
    /\ exists \in BOOLEAN
    /\ messages \in Seq(Row)
    /\ sender \in [Senders -> Sender]
    /\ nextCall \in Nat \ {0}
    /\ \A s \in Senders :
         sender[s].pc \notin {"idle", "appendReply"} => sender[s].round < MAX_TOOL_ROUNDS

\* What a step of a call makes of its locals has the right type.
Fits(locals) ==
    /\ locals \in Sender
    /\ locals.pc \notin {"idle", "appendReply"} => locals.round < MAX_TOOL_ROUNDS

LEMMA Bounds == MAX_TOOL_ROUNDS \in Nat \ {0} /\ MaxTurns \in Nat \ {0}
BY BoundsArePositive

LEMMA IdleFits == Fits(Idle)
<1>1. <<>> \in Seq(Row) /\ <<>> \in Seq(Call) OBVIOUS
<1>2. Idle \in Sender BY <1>1, Bounds DEF Idle, Sender, PC
<1>3. QED BY <1>2 DEF Fits, Idle

\* Only call s of sendMessage moves, and its locals stay well typed.
Moves(s) ==
    /\ sender' = [sender EXCEPT ![s] = sender'[s]]
    /\ Fits(sender'[s])

\* Its row is appended, if there is still a conversation; if not, it fails.
Appends(s, row) ==
    /\ messages' = IF exists THEN Append(messages, row) ELSE messages
    /\ ~exists => sender'[s] = Idle

\* What each step of a call changes.
LEMMA AppendSteps ==
    ASSUME Types, NEW s \in Senders, NEW row \in Row, NEW next, Fits(next),
           appendMessage(s, row, next)
    PROVE  Moves(s) /\ Appends(s, row) /\ (exists => sender'[s] = next)
<1>1. PICK l : l = (IF exists THEN next ELSE Idle) /\ sender' = [sender EXCEPT ![s] = l]
  BY DEF appendMessage
<1>2. Fits(l) BY <1>1, IdleFits
<1>3. sender'[s] = l BY <1>1 DEF Types
<1>4. QED BY <1>1, <1>2, <1>3 DEF Moves, Appends, appendMessage

LEMMA SendSteps ==
    ASSUME Types, NEW s \in Senders, Send(s)
    PROVE  /\ Moves(s) /\ Appends(s, UserRow) /\ exists /\ sender[s] = Idle
           /\ sender'[s] = [Idle EXCEPT !.pc = "prepare"]
           /\ UNCHANGED <<exists, executed, billed, nextCall>>
<1>1. Fits([Idle EXCEPT !.pc = "prepare"])
  <2> DEFINE l == [Idle EXCEPT !.pc = "prepare"]
  <2>1. Idle \in Sender /\ Idle.round = 0 BY IdleFits DEF Fits, Idle
  <2>2. "prepare" \in PC BY DEF PC
  <2>3. l \in Sender /\ l.round = 0 BY <2>1, <2>2 DEF Sender
  <2> HIDE DEF l
  <2>4. l.round < MAX_TOOL_ROUNDS BY <2>3, Bounds
  <2>5. Fits(l) BY <2>3, <2>4 DEF Fits
  <2>6. QED BY <2>5 DEF l
<1>2. QED BY <1>1, RowTypes, AppendSteps DEF Send

LEMMA PrepareSteps ==
    ASSUME Types, NEW s \in Senders, Prepare(s)
    PROVE  /\ Moves(s) /\ UNCHANGED <<exists, messages, executed, billed, nextCall>>
           /\ sender[s].pc = "prepare" /\ sender'[s].pc = "loadHistory"
           /\ \A f \in {"round", "request", "calls", "ran"} : sender'[s][f] = sender[s][f]
<1>1. sender[s] \in Sender BY DEF Types
<1>2. PICK tools \in SUBSET Tools :
        sender' = [sender EXCEPT ![s].pc = "loadHistory", ![s].tools = tools]
  BY DEF Prepare
<1> DEFINE l == [sender[s] EXCEPT !.pc = "loadHistory", !.tools = tools]
<1>3. sender' = [sender EXCEPT ![s] = l] /\ sender'[s] = l BY <1>2 DEF Types
<1>4. l \in Sender /\ l.pc = "loadHistory"
      /\ \A f \in {"round", "request", "calls", "ran"} : l[f] = sender[s][f]
  BY <1>1 DEF Sender, PC
<1>5. sender[s].pc = "prepare" /\ sender[s].round < MAX_TOOL_ROUNDS BY DEF Prepare, Types
<1> HIDE DEF l
<1>6. Fits(l) BY <1>4, <1>5 DEF Fits
<1>7. QED BY <1>3, <1>4, <1>5, <1>6 DEF Prepare, Moves

LEMMA LoadHistorySteps ==
    ASSUME Types, NEW s \in Senders, LoadHistory(s)
    PROVE  /\ Moves(s) /\ UNCHANGED <<exists, messages, executed, billed, nextCall>>
           /\ sender[s].pc = "loadHistory" /\ sender'[s].pc = "completion"
           /\ sender'[s].request = toOpenAiMessages(loadHistory(messages, MaxTurns))
           /\ \A f \in {"round", "calls", "ran"} : sender'[s][f] = sender[s][f]
<1>1. sender[s] \in Sender BY DEF Types
<1>2. PICK request \in Seq(Row) :
        /\ request = toOpenAiMessages(loadHistory(messages, MaxTurns))
        /\ sender' = [sender EXCEPT ![s].pc = "completion", ![s].request = request]
  BY HistoryTyped, RequestTyped DEF LoadHistory, Types
<1> DEFINE l == [sender[s] EXCEPT !.pc = "completion", !.request = request]
<1>3. sender' = [sender EXCEPT ![s] = l] /\ sender'[s] = l BY <1>2 DEF Types
<1>4. l \in Sender /\ l.pc = "completion" /\ l.request = request
      /\ \A f \in {"round", "calls", "ran"} : l[f] = sender[s][f]
  BY <1>1 DEF Sender, PC
<1>5. sender[s].pc = "loadHistory" /\ sender[s].round < MAX_TOOL_ROUNDS
  BY DEF LoadHistory, Types
<1> HIDE DEF l
<1>6. Fits(l) BY <1>4, <1>5 DEF Fits
<1>7. QED BY <1>2, <1>3, <1>4, <1>5, <1>6 DEF LoadHistory, Moves

LEMMA CompletionTextSteps ==
    ASSUME Types, NEW s \in Senders, CompletionText(s)
    PROVE  /\ Moves(s) /\ UNCHANGED <<exists, messages, executed, billed, nextCall>>
           /\ sender[s].pc = "completion" /\ sender'[s].pc = "appendReply"
           /\ \A f \in {"round", "calls", "ran"} : sender'[s][f] = sender[s][f]
<1>1. sender[s] \in Sender BY DEF Types
<1> DEFINE l == [sender[s] EXCEPT !.pc = "appendReply", !.request = <<>>]
<1>2. sender' = [sender EXCEPT ![s] = l] /\ sender'[s] = l BY DEF Types, CompletionText
<1>3. <<>> \in Seq(Row) OBVIOUS
<1>4. l \in Sender /\ l.pc = "appendReply"
      /\ \A f \in {"round", "calls", "ran"} : l[f] = sender[s][f]
  BY <1>1, <1>3 DEF Sender, PC
<1> HIDE DEF l
<1>5. Fits(l) BY <1>4 DEF Fits
<1>6. QED BY <1>2, <1>4, <1>5 DEF CompletionText, Moves

LEMMA CompletionCallsSteps ==
    ASSUME Types, NEW s \in Senders, CompletionCalls(s)
    PROVE  /\ Moves(s) /\ UNCHANGED <<exists, messages, executed, billed>>
           /\ sender[s].pc = "completion" /\ sender'[s].pc = "appendCalls"
           /\ \A f \in {"round", "ran"} : sender'[s][f] = sender[s][f]
           /\ \E n \in Nat \ {0} :
                /\ nextCall' = nextCall + n /\ Len(sender'[s].calls) = n
                /\ \A i \in 1..n : sender'[s].calls[i].id = nextCall + i - 1
<1>1. sender[s] \in Sender /\ nextCall \in Nat \ {0} BY DEF Types
<1>calls. PICK n \in 1..MaxCalls : \E names \in [1..n -> ToolNames] :
        /\ sender' = [sender EXCEPT
              ![s].pc = "appendCalls", ![s].request = <<>>,
              ![s].calls = [i \in 1..n |-> [id |-> nextCall + i - 1,
                                            tool |-> names[i]]]]
        /\ nextCall' = nextCall + n
  BY DEF CompletionCalls
<1>2. PICK names \in [1..n -> ToolNames] :
        /\ sender' = [sender EXCEPT
              ![s].pc = "appendCalls", ![s].request = <<>>,
              ![s].calls = [i \in 1..n |-> [id |-> nextCall + i - 1,
                                            tool |-> names[i]]]]
        /\ nextCall' = nextCall + n
  BY <1>calls
<1>3. PICK calls : calls = [i \in 1..n |-> [id |-> nextCall + i - 1, tool |-> names[i]]]
  OBVIOUS
<1>4. n \in Nat \ {0} BY <1>2, BoundsArePositive
<1>5. \A i \in 1..n : calls[i] \in Call /\ calls[i].id = nextCall + i - 1
  BY <1>1, <1>3, <1>4 DEF Call
<1>6. calls \in Seq(Call) /\ Len(calls) = n
  <2>1. calls \in [1..n -> Call] BY <1>3, <1>5
  <2>2. QED BY <2>1, <1>4
<1> DEFINE l == [sender[s] EXCEPT !.pc = "appendCalls", !.request = <<>>, !.calls = calls]
<1>7. sender' = [sender EXCEPT ![s] = l] /\ sender'[s] = l BY <1>2, <1>3 DEF Types
<1>8. <<>> \in Seq(Row) OBVIOUS
<1>9. l \in Sender /\ l.pc = "appendCalls" /\ l.calls = calls
      /\ \A f \in {"round", "ran"} : l[f] = sender[s][f]
  BY <1>1, <1>6, <1>8 DEF Sender, PC
<1>10. sender[s].pc = "completion" /\ sender[s].round < MAX_TOOL_ROUNDS
  BY DEF CompletionCalls, Types
<1> HIDE DEF l
<1>11. Fits(l) BY <1>9, <1>10 DEF Fits
<1>12. Moves(s) BY <1>7, <1>11 DEF Moves
<1>13. QED BY <1>2, <1>4, <1>5, <1>6, <1>7, <1>9, <1>10, <1>12 DEF CompletionCalls

LEMMA AppendCallsSteps ==
    ASSUME Types, NEW s \in Senders, AppendCalls(s)
    PROVE  /\ Moves(s) /\ Appends(s, CallsRow(sender[s].calls))
           /\ UNCHANGED <<exists, executed, billed, nextCall>>
           /\ sender[s].pc = "appendCalls"
           /\ exists => /\ sender'[s].pc = "executeTool"
                        /\ \A f \in {"round", "calls", "ran"} : sender'[s][f] = sender[s][f]
<1>1. sender[s] \in Sender BY DEF Types
<1> DEFINE l == [sender[s] EXCEPT !.pc = "executeTool"]
<1>2. l \in Sender /\ l.pc = "executeTool"
      /\ \A f \in {"round", "calls", "ran"} : l[f] = sender[s][f]
  BY <1>1 DEF Sender, PC
<1>3. CallsRow(sender[s].calls) \in Row
  <2>1. sender[s].calls \in Seq(Call) BY <1>1 DEF Sender
  <2>2. QED BY <2>1, RowTypes
<1>4. sender[s].pc = "appendCalls" /\ sender[s].round < MAX_TOOL_ROUNDS
  BY DEF AppendCalls, Types
<1>5. appendMessage(s, CallsRow(sender[s].calls), l) BY DEF AppendCalls
<1> HIDE DEF l
<1>6. Fits(l) BY <1>2, <1>4 DEF Fits
<1>7. Moves(s) /\ Appends(s, CallsRow(sender[s].calls)) /\ (exists => sender'[s] = l)
  BY <1>3, <1>5, <1>6, AppendSteps
<1>8. QED BY <1>2, <1>4, <1>7 DEF AppendCalls

LEMMA ExecuteToolSteps ==
    ASSUME Types, NEW s \in Senders, ExecuteTool(s)
    PROVE  /\ Moves(s) /\ UNCHANGED <<exists, messages, billed, nextCall>>
           /\ sender[s].pc = "executeTool"
           /\ \A f \in {"round", "calls"} : sender'[s][f] = sender[s][f]
           /\ \/ /\ executed' = executed \cup {Head(sender[s].calls).id}
                 /\ sender'[s].pc = "recordUsage" /\ sender'[s].ran
              \/ executed' = executed /\ sender'[s].pc = "appendTool" /\ ~sender'[s].ran
<1>1. sender[s] \in Sender BY DEF Types
<1>2. PICK found \in BOOLEAN :
        /\ executed' = IF found THEN executed \cup {Head(sender[s].calls).id} ELSE executed
        /\ sender' = [sender EXCEPT
             ![s].pc = IF found THEN "recordUsage" ELSE "appendTool",
             ![s].ran = found]
  <2> DEFINE found == Head(sender[s].calls).tool \in sender[s].tools
  <2>1. CASE found
    <3>1. /\ executed' = executed \cup {Head(sender[s].calls).id}
          /\ sender' = [sender EXCEPT ![s].pc = "recordUsage", ![s].ran = TRUE]
      BY <2>1, Zenon DEF ExecuteTool
    <3>2. QED BY <3>1
  <2>2. CASE ~found
    <3>0. (Head(sender[s].calls).tool \in sender[s].tools) = FALSE BY <2>2
    <3>1. /\ executed' = executed
          /\ sender' = [sender EXCEPT ![s].pc = "appendTool", ![s].ran = FALSE]
      BY <3>0 DEF ExecuteTool
    <3>2. QED BY <3>1
  <2>3. QED BY <2>1, <2>2
<1>3. PICK pc \in PC : pc = IF found THEN "recordUsage" ELSE "appendTool" BY DEF PC
<1> DEFINE l == [sender[s] EXCEPT !.pc = pc, !.ran = found]
<1>4. sender' = [sender EXCEPT ![s] = l] /\ sender'[s] = l BY <1>2, <1>3 DEF Types
<1>5. l \in Sender /\ l.pc = pc /\ l.ran = found
      /\ \A f \in {"round", "calls"} : l[f] = sender[s][f]
  BY <1>1 DEF Sender
<1>6. sender[s].pc = "executeTool" /\ sender[s].round < MAX_TOOL_ROUNDS
  BY DEF ExecuteTool, Types
<1> HIDE DEF l
<1>7. Fits(l) BY <1>5, <1>6 DEF Fits
<1>8. Moves(s) BY <1>4, <1>7 DEF Moves
<1>9. QED BY <1>2, <1>3, <1>4, <1>5, <1>6, <1>8 DEF ExecuteTool

LEMMA RecordToolUsageSteps ==
    ASSUME Types, NEW s \in Senders, RecordToolUsage(s)
    PROVE  /\ Moves(s) /\ UNCHANGED <<exists, messages, executed, nextCall>>
           /\ billed' \subseteq billed \cup {Head(sender[s].calls).id}
           /\ sender[s].pc = "recordUsage" /\ sender'[s].pc = "appendTool"
           /\ \A f \in {"round", "calls", "ran"} : sender'[s][f] = sender[s][f]
<1>1. sender[s] \in Sender BY DEF Types
<1> DEFINE l == [sender[s] EXCEPT !.pc = "appendTool"]
<1>2. sender' = [sender EXCEPT ![s] = l] /\ sender'[s] = l BY DEF Types, RecordToolUsage
<1>3. l \in Sender /\ l.pc = "appendTool"
      /\ \A f \in {"round", "calls", "ran"} : l[f] = sender[s][f]
  BY <1>1 DEF Sender, PC
<1>4. sender[s].pc = "recordUsage" /\ sender[s].round < MAX_TOOL_ROUNDS
  BY DEF RecordToolUsage, Types
<1> HIDE DEF l
<1>5. Fits(l) BY <1>3, <1>4 DEF Fits
<1>6. Moves(s) BY <1>2, <1>5 DEF Moves
<1>7. billed' \subseteq billed \cup {Head(sender[s].calls).id}
  BY DEF RecordToolUsage, record
<1>8. QED BY <1>2, <1>3, <1>4, <1>6, <1>7 DEF RecordToolUsage

LEMMA AppendToolSteps ==
    ASSUME Types, NEW s \in Senders, AppendTool(s), sender[s].calls # <<>>
    PROVE  /\ Moves(s) /\ Appends(s, ToolRow(Head(sender[s].calls).id, sender[s].ran))
           /\ UNCHANGED <<exists, executed, billed, nextCall>>
           /\ sender[s].pc = "appendTool"
           /\ exists =>
                /\ sender'[s].calls = Tail(sender[s].calls) /\ ~sender'[s].ran
                /\ IF sender'[s].calls = <<>>
                   THEN /\ sender'[s].round = sender[s].round + 1
                        /\ sender'[s].pc = IF sender'[s].round < MAX_TOOL_ROUNDS
                                           THEN "loadHistory" ELSE "appendReply"
                   ELSE /\ sender'[s].round = sender[s].round
                        /\ sender'[s].pc = "executeTool"
<1>1. sender[s] \in Sender BY DEF Types
<1>2. sender[s].pc = "appendTool" /\ sender[s].round < MAX_TOOL_ROUNDS
      /\ sender[s].calls \in Seq(Call) /\ sender[s].round \in Nat
      /\ MAX_TOOL_ROUNDS \in Nat
  <2>1. sender[s].pc = "appendTool" BY DEF AppendTool
  <2>2. sender[s].round < MAX_TOOL_ROUNDS BY <2>1 DEF Types
  <2>3. sender[s].calls \in Seq(Call) /\ sender[s].round \in 0..MAX_TOOL_ROUNDS
    BY <1>1 DEF Sender
  <2>4. QED BY <2>1, <2>2, <2>3, Bounds
<1> DEFINE rest == [sender[s] EXCEPT !.calls = Tail(sender[s].calls), !.ran = FALSE]
           next == IF rest.calls = <<>> THEN NextRound(rest)
                   ELSE [rest EXCEPT !.pc = "executeTool"]
<1>3. Tail(sender[s].calls) \in Seq(Call) BY <1>2
<1>4. rest \in Sender /\ rest.calls = Tail(sender[s].calls) /\ ~rest.ran
      /\ rest.round = sender[s].round
  BY <1>1, <1>3 DEF Sender
<1>5. appendMessage(s, ToolRow(Head(sender[s].calls).id, sender[s].ran), next)
  BY DEF AppendTool
<1> HIDE DEF rest
<1>6. /\ next \in Sender /\ next.calls = rest.calls /\ ~next.ran
      /\ IF next.calls = <<>>
         THEN /\ next.round = rest.round + 1
              /\ next.pc = IF next.round < MAX_TOOL_ROUNDS
                           THEN "loadHistory" ELSE "appendReply"
         ELSE next.round = rest.round /\ next.pc = "executeTool"
  <2>1. CASE rest.calls = <<>>
    <3>1. PICK round \in 0..MAX_TOOL_ROUNDS : round = rest.round + 1 BY <1>2, <1>4
    <3>2. PICK pc \in PC : pc = IF round < MAX_TOOL_ROUNDS THEN "loadHistory"
                                ELSE "appendReply"
      BY DEF PC
    <3>3. next = [rest EXCEPT !.round = round, !.pc = pc]
      BY <2>1, <3>1, <3>2 DEF NextRound
    <3> HIDE DEF next
    <3>4. next \in Sender /\ next.calls = rest.calls /\ next.ran = rest.ran
          /\ next.round = round /\ next.pc = pc
      BY <3>3, <1>4 DEF Sender
    <3>5. QED BY <2>1, <3>1, <3>2, <3>4, <1>4
  <2>2. CASE rest.calls # <<>>
    <3>1. next = [rest EXCEPT !.pc = "executeTool"] BY <2>2
    <3> HIDE DEF next
    <3>2. next \in Sender /\ next.calls = rest.calls /\ next.ran = rest.ran
          /\ next.round = rest.round /\ next.pc = "executeTool"
      BY <3>1, <1>4 DEF Sender, PC
    <3>3. QED BY <2>2, <3>2, <1>4
  <2>3. QED BY <2>1, <2>2
<1> HIDE DEF next
<1>7. Fits(next) BY <1>2, <1>4, <1>6 DEF Fits
<1>8. ToolRow(Head(sender[s].calls).id, sender[s].ran) \in Row
  <2>1. Head(sender[s].calls) \in Call BY <1>2
  <2>2. Head(sender[s].calls).id \in Nat /\ sender[s].ran \in BOOLEAN
    BY <1>1, <2>1 DEF Call, Sender
  <2>3. QED BY <2>2, RowTypes
<1>9. /\ Moves(s) /\ Appends(s, ToolRow(Head(sender[s].calls).id, sender[s].ran))
      /\ exists => sender'[s] = next
  BY <1>5, <1>7, <1>8, AppendSteps
<1>10. QED BY <1>2, <1>4, <1>6, <1>9 DEF AppendTool

LEMMA AppendReplySteps ==
    ASSUME Types, NEW s \in Senders, AppendReply(s)
    PROVE  /\ Moves(s) /\ Appends(s, ReplyRow) /\ sender'[s] = Idle
           /\ sender[s].pc = "appendReply"
           /\ UNCHANGED <<exists, executed, billed, nextCall>>
BY RowTypes, IdleFits, AppendSteps DEF AppendReply, Appends

LEMMA AbortSteps ==
    ASSUME Types, NEW s \in Senders, Abort(s)
    PROVE  /\ Moves(s) /\ sender'[s] = Idle
           /\ UNCHANGED <<exists, messages, executed, billed, nextCall>>
BY IdleFits DEF Abort, Types, Moves

-----------------------------------------------------------------------------
\* The ids of calls that are on record in the conversation.
Recorded == UNION {CallIds(row) : row \in ToSet(messages)}

AsksOnce(calls) == \A i, j \in DOMAIN calls : calls[i].id = calls[j].id => i = j

\* The calls a sendMessage works off: fresh ids, on record before the first of
\* them runs; those behind the first have neither run nor been answered, and
\* the first has run if its locals say so.
CallsHold(s) ==
    /\ sender[s].calls # <<>> <=> sender[s].pc \in Asking
    /\ AsksOnce(sender[s].calls)
    /\ CallIds(sender[s]) \subseteq 1..(nextCall - 1)
    /\ sender[s].pc \in InRound /\ exists => CallIds(sender[s]) \subseteq Recorded
    /\ \A i \in DOMAIN sender[s].calls :
         sender[s].calls[i].id \in executed =>
             i = 1 /\ sender[s].pc \in {"recordUsage", "appendTool"} /\ sender[s].ran = TRUE
    /\ sender[s].pc \in {"recordUsage", "appendTool"} /\ sender[s].ran = TRUE =>
         sender[s].calls[1].id \in executed
    /\ sender[s].pc = "recordUsage" => sender[s].ran = TRUE
    /\ \A row \in ToSet(messages) : row.role = "tool" => row.id \notin CallIds(sender[s])

Disjoint ==
    \A s, t \in Senders : s # t => CallIds(sender[s]) \cap CallIds(sender[t]) = {}

CallInv ==
    /\ ToolAccounting
    /\ executed \subseteq 1..(nextCall - 1)
    /\ \A row \in ToSet(messages) : row.role = "tool" => row.id \in 1..(nextCall - 1)
    /\ \A s \in Senders : CallsHold(s)
    /\ Disjoint

\* What a step of call s leaves to the other calls.
Spares(s) ==
    /\ exists' = exists
    /\ nextCall \in Nat /\ nextCall' \in Nat /\ nextCall <= nextCall'
    /\ executed \subseteq executed' /\ executed' \subseteq executed \cup CallIds(sender[s])
    /\ ToSet(messages) \subseteq ToSet(messages')
    /\ \A row \in ToSet(messages') \ ToSet(messages) :
         row.role = "tool" => row.id \in CallIds(sender[s])
    /\ CallIds(sender'[s]) \subseteq CallIds(sender[s]) \cup nextCall..(nextCall' - 1)

LEMMA LongerRange ==
    ASSUME NEW m \in Nat, NEW n \in Nat, m <= n
    PROVE  1..(m - 1) \subseteq 1..(n - 1)
OBVIOUS

LEMMA OthersKeepCalls ==
    ASSUME Types, CallInv, NEW s \in Senders, Moves(s), Spares(s)
    PROVE  /\ \A t \in Senders \ {s} : sender'[t] = sender[t] /\ CallsHold(t)'
           /\ Disjoint'
           /\ \A row \in ToSet(messages)' :
                row.role = "tool" => row.id \in 1..(nextCall' - 1)
           /\ Recorded \subseteq Recorded'
<1>1. \A t \in Senders \ {s} : sender'[t] = sender[t] BY DEF Moves, Types
<1>2. ToSet(messages)' = ToSet(messages') BY DEF ToSet
<1>3. Recorded \subseteq Recorded' BY <1>2 DEF Recorded, Spares
<1>4. 1..(nextCall - 1) \subseteq 1..(nextCall' - 1)
  <2>1. nextCall \in Nat /\ nextCall' \in Nat /\ nextCall <= nextCall' BY DEF Spares
  <2>2. QED BY <2>1, LongerRange
<1>5. \A t \in Senders : CallIds(sender[t]) \subseteq 1..(nextCall - 1)
  BY DEF CallInv, CallsHold
<1>6. \A t \in Senders \ {s} : CallsHold(t)'
  <2> SUFFICES ASSUME NEW t \in Senders \ {s} PROVE CallsHold(t)' OBVIOUS
  <2>1. CallsHold(t) /\ sender'[t] = sender[t] BY <1>1 DEF CallInv
  <2>2. CallIds(sender[t]) \cap CallIds(sender[s]) = {} BY DEF CallInv, Disjoint
  <2>3. CallIds(sender[t])' = CallIds(sender[t]) BY <2>1 DEF CallIds, ToSet
  <2>4. CallIds(sender[t]) \subseteq 1..(nextCall' - 1) BY <1>4, <2>1 DEF CallsHold
  <2>5. sender[t].pc \in InRound /\ exists' => CallIds(sender[t]) \subseteq Recorded'
    BY <1>3, <2>1 DEF CallsHold, Spares
  <2>6. \A i \in DOMAIN sender[t].calls : sender[t].calls[i].id \in CallIds(sender[t])
    BY DEF CallIds, ToSet
  <2>7. \A i \in DOMAIN sender[t].calls :
          sender[t].calls[i].id \in executed' => sender[t].calls[i].id \in executed
    BY <2>2, <2>6 DEF Spares
  <2>8. \A row \in ToSet(messages)' : row.role = "tool" => row.id \notin CallIds(sender[t])
    BY <1>2, <2>1, <2>2 DEF Spares, CallsHold
  <2>9. executed \subseteq executed' BY DEF Spares
  <2>10. QED BY <2>1, <2>3, <2>4, <2>5, <2>7, <2>8, <2>9 DEF CallsHold
<1>7. Disjoint'
  <2> SUFFICES ASSUME NEW t \in Senders, NEW u \in Senders, t # u
               PROVE  CallIds(sender'[t]) \cap CallIds(sender'[u]) = {}
    BY DEF Disjoint, CallIds, ToSet
  <2>1. CallIds(sender[t]) \cap CallIds(sender[u]) = {} BY DEF CallInv, Disjoint
  <2>2. \A id \in nextCall..(nextCall' - 1) : id \notin 1..(nextCall - 1) BY DEF Spares
  <2>3. \A r \in Senders \ {s} : CallIds(sender'[r]) = CallIds(sender[r]) BY <1>1
  <2>4. CASE t = s BY <2>1, <2>2, <2>3, <2>4, <1>5 DEF Spares
  <2>5. CASE u = s BY <2>1, <2>2, <2>3, <2>5, <1>5 DEF Spares
  <2>6. CASE t # s /\ u # s BY <2>1, <2>3, <2>6
  <2>7. QED BY <2>4, <2>5, <2>6
<1>8. \A row \in ToSet(messages)' : row.role = "tool" => row.id \in 1..(nextCall' - 1)
  BY <1>2, <1>4, <1>5 DEF Spares, CallInv
<1>9. QED BY <1>1, <1>3, <1>6, <1>7, <1>8

\* A call with nothing to work off holds what is asked of it.
LEMMA NoCalls ==
    ASSUME NEW s \in Senders, sender'[s].calls = <<>>, sender'[s].pc \notin Asking
    PROVE  CallsHold(s)' /\ CallIds(sender'[s]) = {}
<1>1. DOMAIN sender'[s].calls = {} OBVIOUS
<1>2. CallIds(sender'[s]) = {} BY <1>1 DEF CallIds, ToSet
<1>3. CallIds(sender[s])' = {} BY <1>1 DEF CallIds, ToSet
<1>4. QED BY <1>1, <1>2, <1>3 DEF CallsHold, AsksOnce, Asking, InRound

\* A step of one call that runs no tool and writes only true answers.
LEMMA KeepsCalls ==
    ASSUME Types, CallInv, NEW s \in Senders, Moves(s), Spares(s), CallsHold(s)',
           executed' = executed, billed' \subseteq executed,
           \A row \in ToSet(messages') \ ToSet(messages) :
               row.role = "tool" => (row.ran <=> row.id \in executed)
    PROVE  CallInv'
<1>1. /\ \A t \in Senders \ {s} : CallsHold(t)'
      /\ Disjoint'
      /\ \A row \in ToSet(messages)' : row.role = "tool" => row.id \in 1..(nextCall' - 1)
      /\ Recorded \subseteq Recorded'
  BY OthersKeepCalls
<1>2. executed \subseteq 1..(nextCall' - 1)
  <2>1. nextCall \in Nat /\ nextCall' \in Nat /\ nextCall <= nextCall' BY DEF Spares
  <2>2. executed \subseteq 1..(nextCall - 1) BY DEF CallInv
  <2>3. QED BY <2>1, <2>2, LongerRange
<1>3. ToolAccounting'
  <2>1. exists' => executed' \subseteq Recorded'
    BY <1>1 DEF CallInv, ToolAccounting, Recorded, Spares
  <2>2. ToSet(messages)' = ToSet(messages') BY DEF ToSet
  <2>3. \A row \in ToSet(messages)' :
          row.role = "tool" => (row.ran <=> row.id \in executed')
    BY <2>2, Zenon DEF CallInv, ToolAccounting
  <2>4. QED BY <2>1, <2>3 DEF ToolAccounting, Recorded
<1>4. QED BY <1>1, <1>2, <1>3 DEF CallInv

LEMMA SameMessages ==
    ASSUME messages' = messages
    PROVE  ToSet(messages') = ToSet(messages) /\ Recorded' = Recorded
           /\ ToSet(messages)' = ToSet(messages)
BY DEF ToSet, Recorded

\* After a row was appended, or not.
LEMMA AppendedRows ==
    ASSUME Types, NEW s \in Senders, NEW row \in Row, Appends(s, row)
    PROVE  /\ ToSet(messages) \subseteq ToSet(messages')
           /\ ToSet(messages') \subseteq ToSet(messages) \cup {row}
           /\ exists => row \in ToSet(messages')
           /\ ToSet(messages)' = ToSet(messages')
BY Appended DEF Appends, Types, ToSet

\* Steps that change only where a call stands, or make it give up.
LEMMA CallsOfQuietStep ==
    ASSUME Types, CallInv, NEW s \in Senders, Moves(s),
           UNCHANGED <<exists, messages, executed, billed, nextCall>>,
           sender'[s].calls = <<>>, sender'[s].pc \notin Asking
    PROVE  CallInv'
<1>1. CallsHold(s)' /\ CallIds(sender'[s]) = {} BY NoCalls
<1>2. Spares(s) BY <1>1, SameMessages DEF Spares, Types
<1>3. billed' \subseteq executed BY DEF CallInv, ToolAccounting
<1>4. QED BY <1>1, <1>2, <1>3, KeepsCalls, SameMessages

\* Steps that append a row without an answer of a tool, and then ask nothing.
LEMMA CallsOfPlainRow ==
    ASSUME Types, CallInv, NEW s \in Senders, NEW row \in Row, row.role # "tool",
           Moves(s), Appends(s, row),
           UNCHANGED <<exists, executed, billed, nextCall>>,
           sender'[s].calls = <<>>, sender'[s].pc \notin Asking
    PROVE  CallInv'
<1>1. CallsHold(s)' /\ CallIds(sender'[s]) = {} BY NoCalls
<1>2. Spares(s) BY <1>1, AppendedRows DEF Spares, Types
<1>3. billed' \subseteq executed BY DEF CallInv, ToolAccounting
<1>4. QED BY <1>1, <1>2, <1>3, KeepsCalls, AppendedRows

LEMMA IdleAsksNothing == Idle.calls = <<>> /\ Idle.pc \notin Asking
BY DEF Idle, Asking, InRound

LEMMA AsksNothing ==
    ASSUME Types, CallInv, NEW s \in Senders, sender[s].pc \notin Asking
    PROVE  sender[s].calls = <<>>
BY DEF CallInv, CallsHold

LEMMA SendCalls ==
    ASSUME Types, CallInv, NEW s \in Senders, Send(s)
    PROVE  CallInv'
<1>1. sender'[s].calls = <<>> /\ sender'[s].pc \notin Asking
  BY SendSteps DEF Idle, Asking, InRound
<1>2. UserRow \in Row /\ UserRow.role # "tool" BY RowTypes DEF UserRow
<1>3. QED BY <1>1, <1>2, SendSteps, CallsOfPlainRow

LEMMA QuietCalls ==
    ASSUME Types, CallInv, NEW s \in Senders,
           Prepare(s) \/ LoadHistory(s) \/ CompletionText(s) \/ Abort(s)
    PROVE  CallInv'
<1>1. CASE Prepare(s)
  <2>1. sender[s].pc \notin Asking BY <1>1, PrepareSteps DEF Asking, InRound
  <2>2. sender'[s].calls = <<>> BY <1>1, <2>1, AsksNothing, PrepareSteps
  <2>3. sender'[s].pc \notin Asking BY <1>1, PrepareSteps DEF Asking, InRound
  <2>4. QED BY <1>1, <2>2, <2>3, PrepareSteps, CallsOfQuietStep
<1>2. CASE LoadHistory(s)
  <2>1. sender[s].pc \notin Asking BY <1>2, LoadHistorySteps DEF Asking, InRound
  <2>2. sender'[s].calls = <<>> BY <1>2, <2>1, AsksNothing, LoadHistorySteps
  <2>3. sender'[s].pc \notin Asking BY <1>2, LoadHistorySteps DEF Asking, InRound
  <2>4. QED BY <1>2, <2>2, <2>3, LoadHistorySteps, CallsOfQuietStep
<1>3. CASE CompletionText(s)
  <2>1. sender[s].pc \notin Asking BY <1>3, CompletionTextSteps DEF Asking, InRound
  <2>2. sender'[s].calls = <<>> BY <1>3, <2>1, AsksNothing, CompletionTextSteps
  <2>3. sender'[s].pc \notin Asking BY <1>3, CompletionTextSteps DEF Asking, InRound
  <2>4. QED BY <1>3, <2>2, <2>3, CompletionTextSteps, CallsOfQuietStep
<1>4. CASE Abort(s) BY <1>4, AbortSteps, IdleAsksNothing, CallsOfQuietStep
<1>5. QED BY <1>1, <1>2, <1>3, <1>4

LEMMA AppendReplyCalls ==
    ASSUME Types, CallInv, NEW s \in Senders, AppendReply(s)
    PROVE  CallInv'
<1>1. ReplyRow \in Row /\ ReplyRow.role # "tool" BY RowTypes DEF ReplyRow, CallsRow
<1>2. QED BY <1>1, AppendReplySteps, IdleAsksNothing, CallsOfPlainRow

LEMMA SameCalls ==
    ASSUME NEW s \in Senders, sender'[s].calls = sender[s].calls
    PROVE  CallIds(sender'[s]) = CallIds(sender[s]) /\ CallIds(sender[s])' = CallIds(sender[s])
BY DEF CallIds, ToSet

LEMMA CompletionCallsCalls ==
    ASSUME Types, CallInv, NEW s \in Senders, CompletionCalls(s)
    PROVE  CallInv'
<1>1. PICK n \in Nat \ {0} :
        /\ nextCall' = nextCall + n /\ Len(sender'[s].calls) = n
        /\ \A i \in 1..n : sender'[s].calls[i].id = nextCall + i - 1
  BY CompletionCallsSteps
<1>2. Moves(s) /\ UNCHANGED <<exists, messages, executed, billed>>
      /\ sender'[s].pc = "appendCalls"
  BY CompletionCallsSteps
<1>3. nextCall \in Nat \ {0} BY DEF Types
<1>4. sender'[s].calls \in Seq(Call) BY <1>2 DEF Moves, Fits, Sender
<1> DEFINE calls == sender'[s].calls
           fresh == nextCall..(nextCall' - 1)
<1>5. DOMAIN calls = 1..n /\ calls # <<>> BY <1>1, <1>4
<1>6. CallIds(sender'[s]) = {calls[i].id : i \in 1..n} BY <1>1, <1>4, CallIdsTyped
<1>7. \A i \in 1..n : calls[i].id \in fresh
  <2> TAKE i \in 1..n
  <2>1. calls[i].id = nextCall + i - 1 /\ nextCall' = nextCall + n BY <1>1
  <2> HIDE DEF calls
  <2>2. QED BY <2>1, <1>3
<1>8. AsksOnce(calls)
  <2> SUFFICES ASSUME NEW i \in 1..n, NEW j \in 1..n, calls[i].id = calls[j].id
               PROVE  i = j
    BY <1>5 DEF AsksOnce
  <2>1. nextCall + i - 1 = nextCall + j - 1 BY <1>1
  <2>2. QED BY <2>1, <1>3
<1>9. CallIds(sender'[s]) \subseteq fresh BY <1>6, <1>7
<1>10. fresh \subseteq 1..(nextCall' - 1) /\ fresh \cap 1..(nextCall - 1) = {}
  BY <1>1, <1>3
<1>11. CallIds(sender[s])' = CallIds(sender'[s]) BY DEF CallIds, ToSet
<1> HIDE DEF calls, fresh
<1>12. CallIds(sender[s])' \subseteq 1..(nextCall' - 1) BY <1>9, <1>10, <1>11
<1>13. \A i \in DOMAIN calls : calls[i].id \notin executed'
  BY <1>2, <1>5, <1>7, <1>10 DEF CallInv
<1>14. \A row \in ToSet(messages)' : row.role = "tool" => row.id \notin CallIds(sender[s])'
  BY <1>2, <1>9, <1>10, <1>11, SameMessages DEF CallInv
<1>15. CallsHold(s)'
  BY <1>2, <1>5, <1>8, <1>12, <1>13, <1>14 DEF CallsHold, Asking, InRound, calls
<1>16. Spares(s)
  <2>1. nextCall <= nextCall' /\ nextCall' \in Nat BY <1>1, <1>3
  <2>2. QED BY <2>1, <1>2, <1>3, <1>9, SameMessages DEF Spares, fresh
<1>17. billed' \subseteq executed BY <1>2 DEF CallInv, ToolAccounting
<1>18. QED BY <1>2, <1>15, <1>16, <1>17, KeepsCalls, SameMessages

LEMMA AppendCallsCalls ==
    ASSUME Types, CallInv, NEW s \in Senders, AppendCalls(s)
    PROVE  CallInv'
<1> DEFINE row == CallsRow(sender[s].calls)
<1>1. Moves(s) /\ Appends(s, row) /\ UNCHANGED <<exists, executed, billed, nextCall>>
  BY AppendCallsSteps
<1>2. row \in Row /\ row.role # "tool" /\ row.calls = sender[s].calls
  <2>1. sender[s].calls \in Seq(Call) BY DEF Types, Sender
  <2>2. QED BY <2>1, RowTypes DEF CallsRow
<1>3. CallIds(row) = CallIds(sender[s]) BY <1>2 DEF CallIds
<1> HIDE DEF row
<1>4. CASE ~exists
  <2>1. sender'[s] = Idle BY <1>1, <1>4 DEF Appends
  <2>2. QED BY <1>1, <1>2, <2>1, IdleAsksNothing, CallsOfPlainRow
<1>5. CASE exists
  <2>1. sender[s].pc = "appendCalls" /\ sender'[s].pc = "executeTool"
        /\ sender'[s].calls = sender[s].calls
    BY <1>5, AppendCallsSteps
  <2>2. CallIds(sender'[s]) = CallIds(sender[s])
        /\ CallIds(sender[s])' = CallIds(sender[s])
    BY <2>1, SameCalls
  <2>3. /\ ToSet(messages) \subseteq ToSet(messages')
        /\ ToSet(messages') \subseteq ToSet(messages) \cup {row}
        /\ row \in ToSet(messages') /\ ToSet(messages)' = ToSet(messages')
    BY <1>1, <1>2, <1>5, AppendedRows
  <2>4. CallIds(sender[s]) \subseteq Recorded' BY <1>3, <2>3 DEF Recorded
  <2>5. Spares(s) BY <1>1, <1>2, <2>2, <2>3 DEF Spares, Types
  <2>6. CallsHold(s) BY DEF CallInv
  <2>7. CallsHold(s)'
    <3>1. \A i \in DOMAIN sender[s].calls : sender[s].calls[i].id \notin executed
      BY <2>1, <2>6 DEF CallsHold
    <3>2. \A r \in ToSet(messages)' : r.role = "tool" => r.id \notin CallIds(sender[s])
      BY <1>2, <2>3, <2>6 DEF CallsHold
    <3>3. QED BY <1>1, <2>1, <2>2, <2>4, <2>6, <3>1, <3>2 DEF CallsHold, Asking, InRound
  <2>8. billed' \subseteq executed BY <1>1 DEF CallInv, ToolAccounting
  <2>9. QED BY <1>1, <1>2, <2>3, <2>5, <2>7, <2>8, KeepsCalls
<1>6. QED BY <1>4, <1>5

\* The first of the calls, and those behind it.
LEMMA FirstCall ==
    ASSUME NEW calls \in Seq(Call), calls # <<>>
    PROVE  /\ Head(calls) = calls[1] /\ 1 \in DOMAIN calls /\ Head(calls) \in Call
           /\ Tail(calls) \in Seq(Call) /\ Len(Tail(calls)) = Len(calls) - 1
           /\ \A i \in DOMAIN Tail(calls) :
                i + 1 \in DOMAIN calls /\ Tail(calls)[i] = calls[i + 1]
OBVIOUS

LEMMA ExecuteToolCalls ==
    ASSUME Types, CallInv, NEW s \in Senders, ExecuteTool(s)
    PROVE  CallInv'
<1>1. /\ Moves(s) /\ UNCHANGED <<exists, messages, billed, nextCall>>
      /\ sender[s].pc = "executeTool" /\ sender'[s].calls = sender[s].calls
  BY ExecuteToolSteps
<1>2. CallsHold(s) BY DEF CallInv
<1>3. sender[s].calls # <<>> BY <1>1, <1>2 DEF CallsHold, Asking, InRound
<1>4. sender[s].calls \in Seq(Call) BY DEF Types, Sender
<1>5. PICK id : id = sender[s].calls[1].id /\ id = Head(sender[s].calls).id
                /\ id \in CallIds(sender[s])
  <2>1. Head(sender[s].calls) = sender[s].calls[1] /\ 1 \in DOMAIN sender[s].calls
    BY <1>3, <1>4, FirstCall
  <2>2. sender[s].calls[1].id \in CallIds(sender[s]) BY <2>1 DEF CallIds, ToSet
  <2>3. QED BY <2>1, <2>2
<1>6. CallIds(sender'[s]) = CallIds(sender[s])
      /\ CallIds(sender[s])' = CallIds(sender[s])
  BY <1>1, SameCalls
<1>7. ToSet(messages)' = ToSet(messages) /\ Recorded' = Recorded
      /\ ToSet(messages') = ToSet(messages)
  BY <1>1, SameMessages
<1>8. \A i \in DOMAIN sender[s].calls : sender[s].calls[i].id \notin executed
  BY <1>1, <1>2 DEF CallsHold
<1>9. billed \subseteq executed BY DEF CallInv, ToolAccounting
<1>10. CASE /\ executed' = executed \cup {id}
            /\ sender'[s].pc = "recordUsage" /\ sender'[s].ran = TRUE
  <2>1. Spares(s) BY <1>1, <1>5, <1>6, <1>7, <1>10 DEF Spares, Types
  <2>2. /\ \A t \in Senders \ {s} : CallsHold(t)'
        /\ Disjoint'
        /\ \A row \in ToSet(messages)' : row.role = "tool" => row.id \in 1..(nextCall' - 1)
    BY <1>1, <2>1, OthersKeepCalls
  <2>3. CallsHold(s)'
    <3>1. \A i \in DOMAIN sender[s].calls :
            sender[s].calls[i].id \in executed' => i = 1
      <4> SUFFICES ASSUME NEW i \in DOMAIN sender[s].calls,
                          sender[s].calls[i].id \in executed'
                   PROVE  i = 1
        OBVIOUS
      <4>1. sender[s].calls[i].id = sender[s].calls[1].id BY <1>5, <1>8, <1>10
      <4>2. 1 \in DOMAIN sender[s].calls BY <1>3, <1>4, FirstCall
      <4>3. QED BY <4>1, <4>2, <1>2 DEF CallsHold, AsksOnce
    <3>2. sender[s].calls[1].id \in executed' BY <1>5, <1>10
    <3>3. sender[s].pc \in InRound /\ sender'[s].pc \in InRound /\ sender'[s].pc \in Asking
      BY <1>1, <1>10 DEF InRound, Asking
    <3>4. QED BY <1>1, <1>2, <1>3, <1>6, <1>7, <1>10, <3>1, <3>2, <3>3 DEF CallsHold
  <2>4. executed' \subseteq 1..(nextCall' - 1)
    BY <1>1, <1>2, <1>5, <1>10 DEF CallInv, CallsHold
  <2>5. ToolAccounting'
    <3>1. exists' => executed' \subseteq Recorded'
      <4>1. exists => executed \subseteq Recorded
        BY DEF CallInv, ToolAccounting, Recorded
      <4>2. exists => id \in Recorded BY <1>1, <1>2, <1>5 DEF CallsHold, InRound
      <4>3. QED BY <4>1, <4>2, <1>1, <1>7, <1>10
    <3>2. billed' \subseteq executed' BY <1>1, <1>9, <1>10
    <3>3. \A row \in ToSet(messages) : row.role = "tool" => row.id # id
      BY <1>2, <1>5 DEF CallsHold
    <3>4. \A row \in ToSet(messages) :
            row.role = "tool" => (row.id \in executed' <=> row.id \in executed)
      BY <1>10, <3>3
    <3>5. \A row \in ToSet(messages) :
            row.role = "tool" => (row.ran <=> row.id \in executed)
      BY Zenon DEF CallInv, ToolAccounting
    <3>6. \A row \in ToSet(messages)' :
            row.role = "tool" => (row.ran <=> row.id \in executed')
      BY <3>4, <3>5, <1>7, Zenon
    <3>7. QED BY <3>1, <3>2, <3>6, Zenon DEF ToolAccounting, Recorded
  <2>6. QED BY <2>2, <2>3, <2>4, <2>5 DEF CallInv
<1>11. CASE executed' = executed /\ sender'[s].pc = "appendTool" /\ ~sender'[s].ran
  <2>1. Spares(s) BY <1>1, <1>6, <1>7, <1>11 DEF Spares, Types
  <2>2. CallsHold(s)'
    <3>1. sender[s].pc \in InRound /\ sender'[s].pc \in InRound /\ sender'[s].pc \in Asking
      BY <1>1, <1>11 DEF InRound, Asking
    <3>2. sender'[s].ran # TRUE BY <1>11
    <3>3. QED BY <1>1, <1>2, <1>3, <1>6, <1>7, <1>8, <1>11, <3>1, <3>2 DEF CallsHold
  <2>3. QED BY <1>1, <1>7, <1>9, <1>11, <2>1, <2>2, KeepsCalls
<1>12. sender'[s] \in Sender BY <1>1 DEF Moves, Fits
<1>13. sender'[s].ran \in BOOLEAN BY <1>12 DEF Sender
<1>14. QED BY <1>5, <1>10, <1>11, <1>13, ExecuteToolSteps

LEMMA RecordToolUsageCalls ==
    ASSUME Types, CallInv, NEW s \in Senders, RecordToolUsage(s)
    PROVE  CallInv'
<1>1. /\ Moves(s) /\ UNCHANGED <<exists, messages, executed, nextCall>>
      /\ billed' \subseteq billed \cup {Head(sender[s].calls).id}
      /\ sender[s].pc = "recordUsage" /\ sender'[s].pc = "appendTool"
      /\ sender'[s].calls = sender[s].calls /\ sender'[s].ran = sender[s].ran
  BY RecordToolUsageSteps
<1>2. CallsHold(s) BY DEF CallInv
<1>3. sender[s].calls # <<>> /\ sender[s].ran = TRUE
  BY <1>1, <1>2 DEF CallsHold, Asking, InRound
<1>4. sender[s].calls \in Seq(Call) BY DEF Types, Sender
<1>5. Head(sender[s].calls).id \in executed
  BY <1>1, <1>2, <1>3, <1>4, FirstCall DEF CallsHold
<1>6. CallIds(sender'[s]) = CallIds(sender[s])
      /\ CallIds(sender[s])' = CallIds(sender[s])
  BY <1>1, SameCalls
<1>7. ToSet(messages)' = ToSet(messages) /\ Recorded' = Recorded
      /\ ToSet(messages') = ToSet(messages)
  BY <1>1, SameMessages
<1>8. CallsHold(s)'
  <2>1. sender[s].pc \in InRound /\ sender'[s].pc \in InRound /\ sender'[s].pc \in Asking
    BY <1>1 DEF InRound, Asking
  <2>2. QED BY <1>1, <1>2, <1>3, <1>6, <1>7, <2>1 DEF CallsHold
<1>9. Spares(s) BY <1>1, <1>6, <1>7 DEF Spares, Types
<1>10. billed' \subseteq executed BY <1>1, <1>5 DEF CallInv, ToolAccounting
<1>11. QED BY <1>1, <1>7, <1>8, <1>9, <1>10, KeepsCalls

LEMMA AppendToolCalls ==
    ASSUME Types, CallInv, NEW s \in Senders, AppendTool(s)
    PROVE  CallInv'
<1>1. CallsHold(s) BY DEF CallInv
<1>2. sender[s].pc = "appendTool" /\ sender[s].calls # <<>>
  BY <1>1 DEF AppendTool, CallsHold, Asking, InRound
<1>3. sender[s] \in Sender BY DEF Types
<1>4. sender[s].calls \in Seq(Call) /\ sender[s].ran \in BOOLEAN BY <1>3 DEF Sender
<1> DEFINE calls == sender[s].calls
           id == Head(calls).id
           row == ToolRow(id, sender[s].ran)
<1>5. /\ Moves(s) /\ Appends(s, row)
      /\ UNCHANGED <<exists, executed, billed, nextCall>>
      /\ exists =>
           /\ sender'[s].calls = Tail(calls)
           /\ IF sender'[s].calls = <<>>
              THEN sender'[s].pc \in {"loadHistory", "appendReply"}
              ELSE sender'[s].pc = "executeTool"
  BY <1>2, AppendToolSteps
<1>6. /\ id = calls[1].id /\ 1 \in DOMAIN calls /\ id \in Nat
      /\ Tail(calls) \in Seq(Call) /\ Len(Tail(calls)) = Len(calls) - 1
      /\ \A i \in DOMAIN Tail(calls) :
           i + 1 \in DOMAIN calls /\ Tail(calls)[i] = calls[i + 1]
  BY <1>2, <1>4, FirstCall DEF Call
<1>7. id \in CallIds(sender[s]) BY <1>6 DEF CallIds, ToSet
<1>8. row \in Row /\ row.id = id /\ row.ran = sender[s].ran
  BY <1>4, <1>6, RowTypes DEF ToolRow
<1>9. row.ran <=> row.id \in executed
  <2>1. sender[s].ran = TRUE => id \in executed BY <1>1, <1>2, <1>6 DEF CallsHold
  <2>2. id \in executed => sender[s].ran = TRUE BY <1>1, <1>6 DEF CallsHold
  <2>3. sender[s].ran = TRUE \/ sender[s].ran = FALSE BY <1>4
  <2>4. CASE sender[s].ran = TRUE
    <3>1. row.ran = TRUE BY <1>8, <2>4
    <3>2. QED BY <2>1, <2>4, <3>1, <1>8
  <2>5. CASE sender[s].ran = FALSE
    <3>1. row.ran = FALSE BY <1>8, <2>5
    <3>2. QED BY <2>2, <2>5, <3>1, <1>8
  <2>6. QED BY <2>3, <2>4, <2>5
<1>10. /\ ToSet(messages) \subseteq ToSet(messages')
       /\ ToSet(messages') \subseteq ToSet(messages) \cup {row}
       /\ ToSet(messages)' = ToSet(messages')
  BY <1>5, <1>8, AppendedRows
<1> HIDE DEF row
<1>11. billed' \subseteq executed BY <1>5 DEF CallInv, ToolAccounting
<1>12. SUFFICES CallsHold(s)' /\ CallIds(sender'[s]) \subseteq CallIds(sender[s])
  <2>1. Spares(s)
    BY <1>5, <1>7, <1>8, <1>10, <1>12 DEF Spares, Types
  <2>2. \A r \in ToSet(messages') \ ToSet(messages) :
          r.role = "tool" => (r.ran <=> r.id \in executed)
    <3>1. \A r \in ToSet(messages') \ ToSet(messages) : r = row BY <1>10
    <3>2. QED BY <3>1, <1>9
  <2>3. QED BY <1>5, <1>11, <1>12, <2>1, <2>2, KeepsCalls
<1>13. CASE sender'[s].calls = <<>> /\ sender'[s].pc \notin Asking
  BY <1>13, NoCalls
<1>14. CASE exists /\ sender'[s].calls # <<>>
  <2>1. sender'[s].pc = "executeTool" /\ sender'[s].calls = Tail(calls)
    BY <1>5, <1>14
  <2> DEFINE rest == sender'[s].calls
  <2>2. \A i \in DOMAIN rest :
          i \in Nat \ {0} /\ i + 1 \in DOMAIN calls /\ rest[i] = calls[i + 1]
    BY <2>1, <1>6
  <2>3. CallIds(sender'[s]) = {rest[i].id : i \in DOMAIN rest}
        /\ CallIds(sender[s])' = CallIds(sender'[s])
    BY DEF CallIds, ToSet
  <2>4. CallIds(sender[s]) = {calls[i].id : i \in DOMAIN calls} BY DEF CallIds, ToSet
  <2>5. AsksOnce(calls) BY <1>1 DEF CallsHold
  <2> HIDE DEF calls, rest
  <2>6. CallIds(sender'[s]) \subseteq CallIds(sender[s]) BY <2>2, <2>3, <2>4
  <2>7. AsksOnce(rest)
    <3> SUFFICES ASSUME NEW i \in DOMAIN rest, NEW j \in DOMAIN rest,
                        rest[i].id = rest[j].id
                 PROVE  i = j
      BY DEF AsksOnce
    <3>1. calls[i + 1].id = calls[j + 1].id BY <2>2
    <3>2. i + 1 = j + 1 BY <2>2, <2>5, <3>1 DEF AsksOnce
    <3>3. QED BY <2>2, <3>2
  <2>8. \A i \in DOMAIN rest : rest[i].id \notin executed
    <3> TAKE i \in DOMAIN rest
    <3>1. i + 1 # 1 /\ i + 1 \in DOMAIN calls /\ rest[i] = calls[i + 1] BY <2>2
    <3>2. QED BY <3>1, <1>1 DEF CallsHold, calls
  <2>9. \A i \in DOMAIN rest : rest[i].id # id
    <3> TAKE i \in DOMAIN rest
    <3>1. i + 1 # 1 /\ i + 1 \in DOMAIN calls /\ rest[i] = calls[i + 1] BY <2>2
    <3>2. QED BY <3>1, <1>6, <2>5 DEF AsksOnce
  <2>10. Recorded \subseteq Recorded' BY <1>10 DEF Recorded
  <2>11. CallIds(sender'[s]) \subseteq Recorded'
    BY <1>1, <1>2, <1>14, <2>6, <2>10 DEF CallsHold, InRound
  <2>12. CallIds(sender'[s]) \subseteq 1..(nextCall' - 1)
    BY <1>1, <1>5, <2>6 DEF CallsHold
  <2>13. \A r \in ToSet(messages)' : r.role = "tool" => r.id \notin CallIds(sender'[s])
    BY <1>1, <1>8, <1>10, <2>3, <2>6, <2>9 DEF CallsHold
  <2>14. CallsHold(s)'
    BY <1>5, <1>14, <2>1, <2>3, <2>7, <2>8, <2>11, <2>12, <2>13
    DEF CallsHold, Asking, InRound, rest
  <2>15. QED BY <2>6, <2>14
<1>15. CASE ~exists
  <2>1. sender'[s] = Idle BY <1>5, <1>15 DEF Appends
  <2>2. QED BY <2>1, <1>13, IdleAsksNothing
<1>16. CASE exists /\ sender'[s].calls = <<>>
  <2>1. sender'[s].pc \notin Asking BY <1>5, <1>16 DEF Asking, InRound
  <2>2. QED BY <1>13, <1>16, <2>1
<1>17. QED BY <1>14, <1>15, <1>16

LEMMA DeleteCalls ==
    ASSUME Types, CallInv, DeleteConversation
    PROVE  Types' /\ CallInv'
<1>1. /\ exists' = FALSE /\ messages' = <<>>
      /\ UNCHANGED <<sender, executed, billed, nextCall>>
  BY DEF DeleteConversation
<1>2. <<>> \in Seq(Row) OBVIOUS
<1>3. Types' BY <1>1, <1>2 DEF Types
<1>4. ToSet(messages)' = {} BY <1>1 DEF ToSet
<1>5. ToolAccounting' BY <1>1, <1>4 DEF CallInv, ToolAccounting
<1>6. \A s \in Senders : CallIds(sender[s])' = CallIds(sender[s]) BY <1>1
<1>7. \A s \in Senders : CallsHold(s)'
  BY <1>1, <1>4, <1>6 DEF CallInv, CallsHold
<1>8. Disjoint' BY <1>1 DEF CallInv, Disjoint
<1>9. QED BY <1>1, <1>3, <1>4, <1>5, <1>7, <1>8 DEF CallInv

LEMMA TypesStep ==
    ASSUME Types, CallInv, NEW s \in Senders,
           \/ Send(s) \/ Prepare(s) \/ LoadHistory(s)
           \/ CompletionText(s) \/ CompletionCalls(s) \/ AppendCalls(s)
           \/ ExecuteTool(s) \/ RecordToolUsage(s) \/ AppendTool(s)
           \/ AppendReply(s) \/ Abort(s)
    PROVE  Types' /\ Moves(s)
<1> DEFINE Good == /\ Moves(s) /\ exists' \in BOOLEAN /\ nextCall' \in Nat \ {0}
                   /\ messages' \in Seq(Row)
<1>goal. SUFFICES Good BY DEF Types, Moves, Fits
<1>1. \A row \in Row : Appends(s, row) => messages' \in Seq(Row)
  BY Appended DEF Appends, Types
<1>2. exists \in BOOLEAN /\ nextCall \in Nat \ {0} /\ messages \in Seq(Row)
  BY DEF Types
<1>3. sender[s].calls \in Seq(Call) /\ sender[s].ran \in BOOLEAN
  <2>1. sender[s] \in Sender BY DEF Types
  <2>2. QED BY <2>1 DEF Sender
<1>4. CASE Send(s) BY <1>1, <1>2, <1>4, SendSteps, RowTypes
<1>5. CASE Prepare(s) BY <1>2, <1>5, PrepareSteps
<1>6. CASE LoadHistory(s) BY <1>2, <1>6, LoadHistorySteps
<1>7. CASE CompletionText(s) BY <1>2, <1>7, CompletionTextSteps
<1>8. CASE CompletionCalls(s)
  <2>1. PICK n \in Nat \ {0} : nextCall' = nextCall + n BY <1>8, CompletionCallsSteps
  <2>2. nextCall' \in Nat \ {0} BY <2>1, <1>2
  <2>3. QED BY <2>2, <1>2, <1>8, CompletionCallsSteps
<1>9. CASE AppendCalls(s) BY <1>1, <1>2, <1>3, <1>9, AppendCallsSteps, RowTypes
<1>10. CASE ExecuteTool(s) BY <1>2, <1>10, ExecuteToolSteps
<1>11. CASE RecordToolUsage(s) BY <1>2, <1>11, RecordToolUsageSteps
<1>12. CASE AppendTool(s)
  <2>1. sender[s].calls # <<>>
    BY <1>12 DEF CallInv, CallsHold, AppendTool, Asking, InRound
  <2>2. Head(sender[s].calls).id \in Nat BY <2>1, <1>3, FirstCall DEF Call
  <2>3. ToolRow(Head(sender[s].calls).id, sender[s].ran) \in Row BY <2>2, <1>3, RowTypes
  <2>4. QED BY <1>1, <1>2, <1>12, <2>1, <2>3, AppendToolSteps
<1>13. CASE AppendReply(s) BY <1>1, <1>2, <1>13, AppendReplySteps, RowTypes
<1>14. CASE Abort(s) BY <1>2, <1>14, AbortSteps
<1>15. QED
  BY <1>4, <1>5, <1>6, <1>7, <1>8, <1>9, <1>10, <1>11, <1>12, <1>13, <1>14

LEMMA InitCalls == Init => Types /\ CallInv
<1> SUFFICES ASSUME Init PROVE Types /\ CallInv OBVIOUS
<1>1. /\ exists = TRUE /\ messages = <<>> /\ sender = [s \in Senders |-> Idle]
      /\ executed = {} /\ billed = {} /\ nextCall = 1
  BY DEF Init
<1>2. <<>> \in Seq(Row) OBVIOUS
<1>3. Types BY <1>1, <1>2, IdleFits DEF Types, Fits
<1>4. ToSet(messages) = {} BY <1>1 DEF ToSet
<1>5. \A s \in Senders : sender[s] = Idle /\ CallIds(sender[s]) = {}
  BY <1>1 DEF Idle, CallIds, ToSet
<1>6. \A s \in Senders : CallsHold(s)
  BY <1>1, <1>4, <1>5 DEF CallsHold, Idle, Asking, InRound, AsksOnce
<1>7. Disjoint BY <1>5 DEF Disjoint
<1>8. ToolAccounting BY <1>1, <1>4 DEF ToolAccounting
<1>9. QED BY <1>1, <1>3, <1>4, <1>6, <1>7, <1>8 DEF CallInv

LEMMA NextCalls == Types /\ CallInv /\ [Next]_vars => Types' /\ CallInv'
<1> SUFFICES ASSUME Types, CallInv, [Next]_vars PROVE Types' /\ CallInv' OBVIOUS
<1>1. CASE UNCHANGED vars
  <2>1. Types' BY <1>1 DEF vars, Types
  <2>2. ToSet(messages)' = ToSet(messages) /\ Recorded' = Recorded
    BY <1>1, SameMessages DEF vars
  <2>3. \A s \in Senders : CallsHold(s)' BY <1>1, <2>2 DEF vars, CallInv, CallsHold, CallIds, ToSet
  <2>4. Disjoint' BY <1>1 DEF vars, CallInv, Disjoint
  <2>5. ToolAccounting' BY <1>1, <2>2 DEF vars, CallInv, ToolAccounting
  <2>6. QED BY <1>1, <2>1, <2>2, <2>3, <2>4, <2>5 DEF vars, CallInv
<1>2. CASE DeleteConversation BY <1>2, DeleteCalls
<1>3. ASSUME NEW s \in Senders,
             \/ Send(s) \/ Prepare(s) \/ LoadHistory(s)
             \/ CompletionText(s) \/ CompletionCalls(s) \/ AppendCalls(s)
             \/ ExecuteTool(s) \/ RecordToolUsage(s) \/ AppendTool(s)
             \/ AppendReply(s) \/ Abort(s)
      PROVE  Types' /\ CallInv'
  <2>1. Types' BY <1>3, TypesStep
  <2>2. CallInv'
    BY <1>3, SendCalls, QuietCalls, CompletionCallsCalls, AppendCallsCalls,
       ExecuteToolCalls, RecordToolUsageCalls, AppendToolCalls, AppendReplyCalls
  <2>3. QED BY <2>1, <2>2
<1>4. QED BY <1>1, <1>2, <1>3 DEF Next

LEMMA CallsAlways == Spec => [](Types /\ CallInv)
BY InitCalls, NextCalls, PTL DEF Spec

\* No call of sendMessage runs a tool without a trace or bills one that did not
\* run, and no row claims a result the tool did not give, for any number of
\* calls on one conversation, crashes and a delete included.
THEOREM ToolsAreAccounted == Spec => []ToolAccounting
<1>1. CallInv => ToolAccounting BY DEF CallInv
<1>2. QED BY <1>1, CallsAlways, PTL

\* Rows, locals and ids of calls keep their types: every request is a sequence
\* of rows, and no call ever starts a round beyond the last.
THEOREM ConversationTypeOK == Spec => []TypeOK
<1>1. Types /\ CallInv => TypeOK
  BY DEF Types, CallInv, ToolAccounting, TypeOK
<1>2. QED BY <1>1, CallsAlways, PTL

-----------------------------------------------------------------------------
\* What the gateway does to the conversation is what sendMessage and the delete
\* do, step by step.
LEMMA GatewaySteps ==
    ASSUME Types, [GatewayNext]_allVars
    PROVE  [Next]_vars
<1>1. CASE UNCHANGED allVars BY <1>1 DEF allVars
<1>2. ASSUME NEW c \in Sockets,
             Connect(c) \/ HandleConnection(c) \/ Disconnect(c) \/ HandleJoin(c)
             \/ JoinRoom(c)
      PROVE  UNCHANGED vars
  BY <1>2 DEF Connect, HandleConnection, Disconnect, HandleJoin, JoinRoom
<1>3. ASSUME NEW s \in Senders, HandleSendMessage(s)
      PROVE  Next
  BY <1>3 DEF HandleSendMessage, Next
<1>4. ASSUME NEW s \in Senders, SilentStep(s)
      PROVE  Next
  BY <1>4 DEF SilentStep, Next
<1>5. ASSUME NEW s \in Senders, StoreAnswer(s)
      PROVE  Next
  BY <1>5 DEF StoreAnswer, Next
<1>6. ASSUME NEW s \in Senders, EmitStep(s)
      PROVE  UNCHANGED vars
  BY <1>6 DEF EmitStep
<1>7. ASSUME NEW s \in Senders, StopBeforeEmit(s)
      PROVE  [Next]_vars
  <2>1. sender' = [sender EXCEPT ![s] = Idle]
        /\ UNCHANGED <<exists, messages, executed, billed, nextCall>>
    BY <1>7 DEF StopBeforeEmit
  <2>2. CASE sender[s] = Idle
    <3>1. sender' = sender BY <2>1, <2>2 DEF Types
    <3>2. QED BY <2>1, <3>1 DEF vars
  <2>3. CASE sender[s] # Idle
    <3>1. Abort(s) BY <2>1, <2>3 DEF Abort
    <3>2. QED BY <3>1 DEF Next
  <2>4. QED BY <2>2, <2>3
<1>8. CASE DeleteConversation /\ UNCHANGED gatewayVars BY <1>8 DEF Next
<1>9. QED BY <1>1, <1>2, <1>3, <1>4, <1>5, <1>6, <1>7, <1>8 DEF GatewayNext

LEMMA CallsAlwaysBehindGateway == GatewaySpec => [](Types /\ CallInv)
<1>1. GatewayInit => Types /\ CallInv BY InitCalls DEF GatewayInit
<1>2. Types /\ CallInv /\ [GatewayNext]_allVars => Types' /\ CallInv'
  BY NextCalls, GatewaySteps
<1>3. QED BY <1>1, <1>2, PTL DEF GatewaySpec

\* The gateway lets nothing happen to a conversation but what sendMessage and
\* deleteConversation do.
THEOREM GatewayImplementsConversation == GatewaySpec => Spec
<1>1. GatewayInit => Init BY DEF GatewayInit
<1>2. Types /\ [GatewayNext]_allVars => [Next]_vars BY GatewaySteps
<1>3. QED BY <1>1, <1>2, CallsAlwaysBehindGateway, PTL DEF GatewaySpec, Spec

-----------------------------------------------------------------------------
\* What is known of a socket: its user comes from its token alone, and it asks
\* to join as that user, or as nobody while it is not verified.
Known(c) ==
    /\ socket[c].verified = TRUE =>
         socket[c].connected = TRUE /\ socket[c].userId = socket[c].token
    /\ socket[c].verified = FALSE => socket[c].userId = Nobody
    /\ \/ socket[c].joining \in {"no", Nobody}
       \/ socket[c].verified = TRUE /\ socket[c].joining = socket[c].userId
    /\ socket[c].room = TRUE => socket[c].token = Owner /\ socket[c].verified = TRUE

SocketInv ==
    /\ socket \in [Sockets -> Socket]
    /\ owed \in [Senders -> Nat]
    /\ \A c \in Sockets : Known(c)

LEMMA NoSocketTyped == NoSocket \in Socket
<1>1. <<>> \in Seq(Nat) OBVIOUS
<1>2. QED BY <1>1 DEF NoSocket, Socket

LEMMA InitSockets == GatewayInit => SocketInv
<1> SUFFICES ASSUME GatewayInit PROVE SocketInv OBVIOUS
<1>1. socket = [c \in Sockets |-> NoSocket] /\ owed = [s \in Senders |-> 0]
  BY DEF GatewayInit
<1>2. \A c \in Sockets : Known(c) BY <1>1 DEF NoSocket, Known
<1>3. QED BY <1>1, <1>2, NoSocketTyped DEF SocketInv

\* Only socket c changes; it stays well typed and known.
Accepts(c, known) ==
    /\ known \in Socket
    /\ known.verified = TRUE => known.connected = TRUE /\ known.userId = known.token
    /\ known.verified = FALSE => known.userId = Nobody
    /\ \/ known.joining \in {"no", Nobody}
       \/ known.verified = TRUE /\ known.joining = known.userId
    /\ known.room = TRUE => known.token = Owner /\ known.verified = TRUE

LEMMA OneSocket ==
    ASSUME SocketInv, NEW c \in Sockets, NEW known, Accepts(c, known),
           socket' = [socket EXCEPT ![c] = known], owed' = owed
    PROVE  SocketInv'
BY DEF SocketInv, Known, Accepts

LEMMA ToldTyped == SocketInv /\ Types => Told \in Nat
<1> SUFFICES ASSUME SocketInv, Types PROVE Told \in Nat OBVIOUS
<1> DEFINE owing == {owed[s] : s \in Senders} \ {0}
<1>1. \A n \in owing : n \in Nat \ {0} BY DEF SocketInv
<1>2. Len(messages) \in Nat BY DEF Types
<1>3. Told = IF owing = {} THEN Len(messages) ELSE (CHOOSE n \in owing : TRUE) - 1
  BY DEF Told
<1> HIDE DEF owing
<1>4. CASE owing # {}
  <2>1. (CHOOSE n \in owing : TRUE) \in owing BY <1>4
  <2>2. PICK n \in owing : n = (CHOOSE m \in owing : TRUE) BY <2>1
  <2>3. Told = n - 1 BY <1>3, <1>4, <2>2
  <2>4. QED BY <1>1, <2>3
<1>5. QED BY <1>2, <1>3, <1>4

LEMMA SocketSteps ==
    ASSUME SocketInv, Types, NEW c \in Sockets,
           Connect(c) \/ HandleConnection(c) \/ Disconnect(c) \/ HandleJoin(c)
           \/ JoinRoom(c)
    PROVE  SocketInv'
<1>1. socket[c] \in Socket /\ Known(c) BY DEF SocketInv
<1>2. NoSocket \in Socket BY NoSocketTyped
<1>3. Accepts(c, NoSocket) BY <1>2 DEF Accepts, NoSocket
<1>4. CASE Connect(c)
  <2>1. PICK token \in Users \cup {Nobody} :
          socket' = [socket EXCEPT ![c].connected = TRUE, ![c].token = token]
    BY <1>4 DEF Connect
  <2> DEFINE known == [NoSocket EXCEPT !.connected = TRUE, !.token = token]
  <2>2. socket' = [socket EXCEPT ![c] = known] BY <1>4, <2>1 DEF Connect, SocketInv
  <2>3. known \in Socket BY <1>2 DEF Socket
  <2>4. known.verified = FALSE /\ known.userId = Nobody /\ known.joining = "no"
        /\ known.room = FALSE
    BY DEF NoSocket
  <2> HIDE DEF known
  <2>5. Accepts(c, known) BY <2>3, <2>4 DEF Accepts
  <2>6. QED BY <1>4, <2>2, <2>5, OneSocket DEF Connect
<1>5. CASE Disconnect(c) BY <1>3, <1>5, OneSocket DEF Disconnect, Left
<1>6. CASE HandleConnection(c)
  <2>1. CASE socket[c].token = Nobody
    <3>1. socket' = [socket EXCEPT ![c] = NoSocket] BY <1>6, <2>1 DEF HandleConnection, Left
    <3>2. QED BY <1>3, <1>6, <3>1, OneSocket DEF HandleConnection
  <2>2. CASE socket[c].token # Nobody
    <3> DEFINE known == [socket[c] EXCEPT !.verified = TRUE, !.userId = socket[c].token]
    <3>1. socket' = [socket EXCEPT ![c] = known] BY <1>6, <2>2 DEF HandleConnection, SocketInv
    <3>2. known \in Socket BY <1>1 DEF Socket
    <3>3. /\ known.verified = TRUE /\ known.userId = socket[c].token
          /\ known.connected = socket[c].connected /\ known.token = socket[c].token
          /\ known.joining = socket[c].joining /\ known.room = socket[c].room
      BY <1>1 DEF Socket
    <3>4. socket[c].connected = TRUE /\ socket[c].verified = FALSE
      BY <1>1, <1>6 DEF HandleConnection, Socket
    <3> HIDE DEF known
    <3>5. Accepts(c, known) BY <1>1, <3>2, <3>3, <3>4 DEF Accepts, Known
    <3>6. QED BY <1>6, <3>1, <3>5, OneSocket DEF HandleConnection
  <2>3. QED BY <2>1, <2>2
<1>7. CASE HandleJoin(c)
  <2> DEFINE known == [socket[c] EXCEPT !.joining = socket[c].userId]
  <2>1. socket' = [socket EXCEPT ![c] = known] BY <1>7 DEF HandleJoin, SocketInv
  <2>2. known \in Socket BY <1>1 DEF Socket
  <2>3. /\ known.joining = socket[c].userId /\ known.userId = socket[c].userId
        /\ known.connected = socket[c].connected /\ known.token = socket[c].token
        /\ known.verified = socket[c].verified /\ known.room = socket[c].room
    BY <1>1 DEF Socket
  <2>4. socket[c].verified \in BOOLEAN BY <1>1 DEF Socket
  <2> HIDE DEF known
  <2>5. Accepts(c, known) BY <1>1, <2>2, <2>3, <2>4 DEF Accepts, Known
  <2>6. QED BY <1>7, <2>1, <2>5, OneSocket DEF HandleJoin
<1>8. CASE JoinRoom(c)
  <2>1. CASE owned(socket[c].joining) /\ ~socket[c].room
    <3> DEFINE known == [socket[c] EXCEPT !.joining = "no", !.room = TRUE, !.from = Told]
    <3>1. socket' = [socket EXCEPT ![c] = known] BY <1>8, <2>1 DEF JoinRoom, SocketInv
    <3>2. known \in Socket BY <1>1, ToldTyped DEF Socket
    <3>3. /\ known.joining = "no" /\ known.userId = socket[c].userId
          /\ known.connected = socket[c].connected /\ known.token = socket[c].token
          /\ known.verified = socket[c].verified
      BY <1>1 DEF Socket
    <3>4. socket[c].joining = Owner /\ socket[c].joining # "no" BY <1>8, <2>1 DEF owned, JoinRoom
    <3>5. socket[c].verified = TRUE /\ socket[c].token = Owner
      BY <1>1, <3>4, OwnerIsAUser DEF Known
    <3> HIDE DEF known
    <3>6. Accepts(c, known) BY <1>1, <3>2, <3>3, <3>5 DEF Accepts, Known
    <3>7. QED BY <1>8, <3>1, <3>6, OneSocket DEF JoinRoom
  <2>2. CASE ~(owned(socket[c].joining) /\ ~socket[c].room)
    <3> DEFINE known == [socket[c] EXCEPT !.joining = "no"]
    <3>1. socket' = [socket EXCEPT ![c] = known] BY <1>8, <2>2 DEF JoinRoom, SocketInv
    <3>2. known \in Socket BY <1>1 DEF Socket
    <3>3. /\ known.joining = "no" /\ known.userId = socket[c].userId
          /\ known.connected = socket[c].connected /\ known.token = socket[c].token
          /\ known.verified = socket[c].verified /\ known.room = socket[c].room
      BY <1>1 DEF Socket
    <3> HIDE DEF known
    <3>4. Accepts(c, known) BY <1>1, <3>2, <3>3 DEF Accepts, Known
    <3>5. QED BY <1>8, <3>1, <3>4, OneSocket DEF JoinRoom
  <2>3. QED BY <2>1, <2>2
<1>9. QED BY <1>4, <1>5, <1>6, <1>7, <1>8

\* Telling a room of a row, or failing to, changes only what its sockets heard
\* or missed.
Sharing == {"connected", "token", "verified", "userId", "joining", "room", "from"}

LEMMA EmitSteps ==
    ASSUME SocketInv, NEW s \in Senders, EmitStep(s)
    PROVE  /\ owed' = [owed EXCEPT ![s] = 0] /\ UNCHANGED vars /\ owed[s] # 0
           /\ DOMAIN socket' = Sockets
           /\ \A c \in Sockets :
                /\ socket'[c] \in Socket
                /\ \A f \in Sharing \cup {"missed"} : socket'[c][f] = socket[c][f]
                /\ socket'[c].heard = IF socket[c].room THEN Append(socket[c].heard, owed[s])
                                      ELSE socket[c].heard
<1>1. owed[s] \in Nat BY DEF SocketInv
<1>2. socket' = Emit(owed[s]) /\ owed' = [owed EXCEPT ![s] = 0] /\ UNCHANGED vars
      /\ owed[s] # 0
  BY DEF EmitStep
<1>3. ASSUME NEW c \in Sockets
      PROVE  /\ socket'[c] \in Socket
             /\ \A f \in Sharing \cup {"missed"} : socket'[c][f] = socket[c][f]
             /\ socket'[c].heard = IF socket[c].room THEN Append(socket[c].heard, owed[s])
                                   ELSE socket[c].heard
  <2>1. socket[c] \in Socket BY DEF SocketInv
  <2>2. PICK heard \in Seq(Nat) : heard = Append(socket[c].heard, owed[s])
    <3>1. socket[c].heard \in Seq(Nat) BY <2>1 DEF Socket
    <3>2. Append(socket[c].heard, owed[s]) \in Seq(Nat) BY <1>1, <3>1
    <3>3. QED BY <3>2
  <2>3. CASE socket[c].room
    <3> DEFINE known == [socket[c] EXCEPT !.heard = heard]
    <3>1. socket'[c] = known BY <1>2, <2>2, <2>3 DEF Emit
    <3>2. known \in Socket BY <2>1 DEF Socket
    <3>3. known.heard = heard
          /\ \A f \in Sharing \cup {"missed"} : known[f] = socket[c][f]
      BY <2>1 DEF Socket, Sharing
    <3>4. QED BY <2>2, <2>3, <3>1, <3>2, <3>3
  <2>4. CASE ~socket[c].room
    <3>1. socket'[c] = socket[c] BY <1>2, <2>4 DEF Emit
    <3>2. QED BY <2>1, <2>4, <3>1
  <2>5. QED BY <2>3, <2>4
<1>4. QED BY <1>2, <1>3 DEF Emit

LEMMA StopSteps ==
    ASSUME SocketInv, NEW s \in Senders, StopBeforeEmit(s)
    PROVE  /\ owed' = [owed EXCEPT ![s] = 0] /\ owed[s] # 0
           /\ UNCHANGED <<exists, messages>>
           /\ DOMAIN socket' = Sockets
           /\ \A c \in Sockets :
                /\ socket'[c] \in Socket
                /\ \A f \in Sharing \cup {"heard"} : socket'[c][f] = socket[c][f]
                /\ socket'[c].missed = IF socket[c].room THEN socket[c].missed \cup {owed[s]}
                                       ELSE socket[c].missed
<1>1. owed[s] \in Nat BY DEF SocketInv
<1>2. /\ owed' = [owed EXCEPT ![s] = 0] /\ UNCHANGED <<exists, messages>> /\ owed[s] # 0
      /\ socket' = [c \in Sockets |-> IF socket[c].room
                                    THEN [socket[c] EXCEPT !.missed = @ \cup {owed[s]}]
                                    ELSE socket[c]]
  BY DEF StopBeforeEmit
<1>3. ASSUME NEW c \in Sockets
      PROVE  /\ socket'[c] \in Socket
             /\ \A f \in Sharing \cup {"heard"} : socket'[c][f] = socket[c][f]
             /\ socket'[c].missed = IF socket[c].room THEN socket[c].missed \cup {owed[s]}
                                    ELSE socket[c].missed
  <2>1. socket[c] \in Socket BY DEF SocketInv
  <2>2. PICK missed \in SUBSET Nat : missed = socket[c].missed \cup {owed[s]}
    BY <1>1, <2>1 DEF Socket
  <2>3. CASE socket[c].room
    <3> DEFINE known == [socket[c] EXCEPT !.missed = missed]
    <3>1. socket'[c] = known BY <1>2, <2>2, <2>3
    <3>2. known \in Socket BY <2>1 DEF Socket
    <3>3. known.missed = missed
          /\ \A f \in Sharing \cup {"heard"} : known[f] = socket[c][f]
      BY <2>1 DEF Socket, Sharing
    <3>4. QED BY <2>2, <2>3, <3>1, <3>2, <3>3
  <2>4. CASE ~socket[c].room
    <3>1. socket'[c] = socket[c] BY <1>2, <2>4
    <3>2. QED BY <2>1, <2>4, <3>1
  <2>5. QED BY <2>3, <2>4
<1>4. QED BY <1>2, <1>3

\* StoreAnswer owes what it stored.
LEMMA StoreSteps ==
    ASSUME SocketInv, Types, CallInv, NEW s \in Senders, StoreAnswer(s)
    PROVE  /\ socket' = socket /\ exists' = exists /\ owed[s] = 0
           /\ \E row \in Row : (row.role = "tool" \/ row = ReplyRow) /\ Appends(s, row)
           /\ Len(messages') \in Nat
           /\ owed' = [owed EXCEPT ![s] = IF exists THEN Len(messages') ELSE 0]
<1>1. Types'
  BY TypesStep DEF StoreAnswer
<1>2. Len(messages') \in Nat BY <1>1 DEF Types
<1>3. \E row \in Row : (row.role = "tool" \/ row = ReplyRow) /\ Appends(s, row)
  <2>1. CASE AppendReply(s) BY <2>1, AppendReplySteps, RowTypes
  <2>2. CASE AppendTool(s)
    <3>1. sender[s].calls # <<>>
      BY <2>2 DEF CallInv, CallsHold, AppendTool, Asking, InRound
    <3>2. sender[s].calls \in Seq(Call) /\ sender[s].ran \in BOOLEAN
      <4>1. sender[s] \in Sender BY DEF Types
      <4>2. QED BY <4>1 DEF Sender
    <3>3. Head(sender[s].calls).id \in Nat BY <3>1, <3>2, FirstCall DEF Call
    <3> DEFINE row == ToolRow(Head(sender[s].calls).id, sender[s].ran)
    <3>4. row \in Row BY <3>2, <3>3, RowTypes
    <3>5. row.role = "tool" BY DEF ToolRow
    <3>6. Appends(s, row) BY <2>2, <3>1, AppendToolSteps
    <3>7. QED BY <3>4, <3>5, <3>6
  <2>3. QED BY <2>1, <2>2 DEF StoreAnswer
<1>4. QED BY <1>2, <1>3, AppendReplySteps DEF StoreAnswer, AppendTool, AppendReply

LEMMA NextSockets ==
    ASSUME SocketInv, Types, CallInv, [GatewayNext]_allVars
    PROVE  SocketInv'
<1>1. CASE UNCHANGED gatewayVars
  BY <1>1 DEF gatewayVars, SocketInv, Known
<1>2. ASSUME NEW c \in Sockets,
             Connect(c) \/ HandleConnection(c) \/ Disconnect(c) \/ HandleJoin(c)
             \/ JoinRoom(c)
      PROVE  SocketInv'
  BY <1>2, SocketSteps
<1>3. ASSUME NEW s \in Senders, HandleSendMessage(s) \/ SilentStep(s)
      PROVE  UNCHANGED gatewayVars
  BY <1>3 DEF HandleSendMessage, SilentStep
<1>4. ASSUME NEW s \in Senders, StoreAnswer(s)
      PROVE  SocketInv'
  <2>1. /\ socket' = socket /\ Len(messages') \in Nat
        /\ owed' = [owed EXCEPT ![s] = IF exists THEN Len(messages') ELSE 0]
    BY <1>4, StoreSteps
  <2>2. owed' \in [Senders -> Nat] BY <2>1 DEF SocketInv
  <2>3. QED BY <2>1, <2>2 DEF SocketInv, Known
<1>5. ASSUME NEW s \in Senders, EmitStep(s) \/ StopBeforeEmit(s)
      PROVE  SocketInv'
  <2>1. /\ owed' = [owed EXCEPT ![s] = 0] /\ DOMAIN socket' = Sockets
        /\ \A c \in Sockets :
             /\ socket'[c] \in Socket
             /\ \A f \in Sharing : socket'[c][f] = socket[c][f]
    <3>1. CASE EmitStep(s) BY <3>1, EmitSteps
    <3>2. CASE StopBeforeEmit(s) BY <3>2, StopSteps
    <3>3. QED BY <1>5, <3>1, <3>2
  <2>2. socket' = [c \in Sockets |-> socket'[c]]
    <3>1. CASE EmitStep(s) BY <3>1 DEF EmitStep, Emit
    <3>2. CASE StopBeforeEmit(s) BY <3>2 DEF StopBeforeEmit
    <3>3. QED BY <1>5, <3>1, <3>2
  <2>3. socket' \in [Sockets -> Socket] BY <2>1, <2>2
  <2>4. \A c \in Sockets : Known(c)' BY <2>1 DEF SocketInv, Known, Sharing
  <2>5. QED BY <2>1, <2>3, <2>4 DEF SocketInv
<1>6. CASE DeleteConversation /\ UNCHANGED gatewayVars BY <1>1, <1>6
<1>7. QED BY <1>1, <1>2, <1>3, <1>4, <1>5, <1>6 DEF GatewayNext, allVars

LEMMA SocketsAlways == GatewaySpec => []SocketInv
BY InitSockets, NextSockets, CallsAlwaysBehindGateway, PTL DEF GatewaySpec

\* Only sockets of the owner follow a conversation, for any number of sockets
\* and users, in whatever order a socket connects, joins and is verified.
THEOREM OwnerListensAlone == GatewaySpec => []OnlyTheOwnerListens
<1>1. SocketInv => OnlyTheOwnerListens
  <2> SUFFICES ASSUME SocketInv, NEW c \in Sockets, socket[c].room
               PROVE  socket[c].connected /\ socket[c].token = Owner /\ socket[c].verified
    BY DEF OnlyTheOwnerListens
  <2>1. socket[c] \in Socket /\ Known(c) BY DEF SocketInv
  <2>2. socket[c].room = TRUE BY <2>1 DEF Socket
  <2>3. QED BY <2>1, <2>2 DEF Known
<1>2. QED BY <1>1, SocketsAlways, PTL

\* Sockets, rows and locals keep their types.
THEOREM GatewayTypesHold == GatewaySpec => []GatewayTypeOK
<1>1. Types /\ CallInv /\ SocketInv => GatewayTypeOK
  BY DEF Types, CallInv, ToolAccounting, TypeOK, SocketInv, GatewayTypeOK
<1>2. QED BY <1>1, SocketsAlways, CallsAlwaysBehindGateway, PTL

-----------------------------------------------------------------------------
\* Rows c to j are one round so far: calls and the first of their answers.
IsRound(rows, c, j) ==
    /\ c \in DOMAIN rows /\ j \in c..Len(rows)
    /\ rows[c].role = "assistant" /\ rows[c].calls # <<>>
    /\ j - c <= Len(rows[c].calls)
    /\ \A k \in c + 1 .. j : rows[k].role = "tool" /\ rows[k].id = rows[c].calls[k - c].id

\* Row j is one of a round that lacks answers.
Open(rows, j) == \E c \in 1..j : IsRound(rows, c, j) /\ j - c < Len(rows[c].calls)

\* The assistant may speak after row j: a question, or the last answer of a round.
Rests(rows, j) ==
    \/ rows[j].role = "user"
    \/ \E c \in 1..j : IsRound(rows, c, j) /\ j - c = Len(rows[c].calls)

Shaped(row) ==
    /\ row.role # "assistant" => row.calls = <<>>
    /\ AsksOnce(row.calls)

\* A conversation with turns that may have been abandoned anywhere.
IsLog(rows) ==
    /\ rows \in Seq(Row)
    /\ \A j \in DOMAIN rows :
         /\ Shaped(rows[j])
         /\ rows[j].role = "tool" => \E c \in 1..(j - 1) : IsRound(rows, c, j)
         /\ rows[j].role = "assistant" => j > 1 /\ Rests(rows, j - 1)

LEMMA OneRound ==
    ASSUME NEW rows, NEW j \in Nat, NEW c \in 1..j, NEW d \in 1..j,
           IsRound(rows, c, j), IsRound(rows, d, j)
    PROVE  c = d
<1>1. CASE c < d
  <2>1. d \in c + 1 .. j BY <1>1
  <2>2. rows[d].role = "tool" BY <2>1 DEF IsRound
  <2>3. QED BY <2>2 DEF IsRound
<1>2. CASE d < c
  <2>1. c \in d + 1 .. j BY <1>2
  <2>2. rows[c].role = "tool" BY <2>1 DEF IsRound
  <2>3. QED BY <2>2 DEF IsRound
<1>3. QED BY <1>1, <1>2

LEMMA NotOpen ==
    ASSUME NEW rows, IsLog(rows), NEW j \in 1..Len(rows), Rests(rows, j)
    PROVE  ~Open(rows, j)
<1> SUFFICES ASSUME NEW c \in 1..j, IsRound(rows, c, j), j - c < Len(rows[c].calls)
             PROVE  FALSE
  BY DEF Open
<1>1. rows \in Seq(Row) BY DEF IsLog
<1>2. j \in DOMAIN rows /\ j \in Nat BY <1>1
<1>3. CASE rows[j].role = "user"
  <2>1. c # j BY <1>3 DEF IsRound
  <2>2. j \in c + 1 .. j BY <2>1
  <2>3. QED BY <1>3, <2>2 DEF IsRound
<1>4. CASE \E d \in 1..j : IsRound(rows, d, j) /\ j - d = Len(rows[d].calls)
  <2>1. PICK d \in 1..j : IsRound(rows, d, j) /\ j - d = Len(rows[d].calls) BY <1>4
  <2>2. c = d BY <1>2, <2>1, OneRound
  <2>3. QED BY <2>1, <2>2
<1>5. QED BY <1>3, <1>4 DEF Rests

LEMMA SizeOfRound ==
    ASSUME NEW row, row.calls \in Seq(Call), AsksOnce(row.calls)
    PROVE  Cardinality(CallIds(row)) = Len(row.calls)
<1> DEFINE n == Len(row.calls)
           f == [i \in 1..n |-> row.calls[i].id]
<1>1. DOMAIN row.calls = 1..n /\ n \in Nat OBVIOUS
<1>2. CallIds(row) = {row.calls[i].id : i \in 1..n} BY CallIdsTyped
<1>3. f \in Bijection(1..n, CallIds(row))
  <2>1. f \in [1..n -> CallIds(row)] BY <1>2
  <2>2. \A i, j \in 1..n : f[i] = f[j] => i = j BY <1>1 DEF AsksOnce
  <2>3. \A id \in CallIds(row) : \E i \in 1..n : f[i] = id BY <1>2
  <2> HIDE DEF f
  <2>4. QED BY <2>1, <2>2, <2>3 DEF Bijection, Injection, Surjection, IsInjective
<1>4. IsFiniteSet(1..n) /\ Cardinality(1..n) = n BY <1>1, FS_Interval
<1>5. ExistsBijection(1..n, CallIds(row)) BY <1>3 DEF ExistsBijection
<1>6. QED BY <1>4, <1>5, FS_Bijection

\* A message without calls that is no tool's keeps a request well formed.
LEMMA WellFormedAppend ==
    ASSUME NEW msgs \in Seq(Row), WellFormed(msgs), NEW row \in Row,
           row.calls = <<>>, row.role # "tool"
    PROVE  WellFormed(Append(msgs, row))
<1> DEFINE more == Append(msgs, row)
<1>1. /\ more \in Seq(Row) /\ Len(more) = Len(msgs) + 1
      /\ \A i \in 1..Len(msgs) : more[i] = msgs[i]
      /\ more[Len(msgs) + 1] = row
  BY Appended
<1>2. DOMAIN msgs = 1..Len(msgs) /\ DOMAIN more = 1..Len(more) /\ Len(msgs) \in Nat
  BY <1>1
<1> HIDE DEF more
<1>3. DOMAIN msgs \subseteq DOMAIN more BY <1>1, <1>2
<1>4. \A i \in DOMAIN more : more[i].calls # <<>> \/ more[i].role = "tool" => i \in DOMAIN msgs
  BY <1>1, <1>2
<1>5. \A i \in DOMAIN msgs : more[i] = msgs[i] /\ AnswersOf(more, i) = AnswersOf(msgs, i)
  BY <1>1, <1>2 DEF AnswersOf
<1>6. \A i \in DOMAIN more :
        more[i].calls # <<>> =>
          /\ AnswersOf(more, i) \subseteq DOMAIN more
          /\ {more[j].id : j \in AnswersOf(more, i)} = CallIds(more[i])
  <2> SUFFICES ASSUME NEW i \in DOMAIN msgs, msgs[i].calls # <<>>
               PROVE  /\ AnswersOf(msgs, i) \subseteq DOMAIN more
                      /\ {more[j].id : j \in AnswersOf(msgs, i)} = CallIds(msgs[i])
    BY <1>4, <1>5
  <2>1. /\ AnswersOf(msgs, i) \subseteq DOMAIN msgs
        /\ {msgs[j].id : j \in AnswersOf(msgs, i)} = CallIds(msgs[i])
    BY DEF WellFormed
  <2>2. {more[j].id : j \in AnswersOf(msgs, i)} = {msgs[j].id : j \in AnswersOf(msgs, i)}
    BY <1>5, <2>1
  <2>3. QED BY <1>3, <2>1, <2>2
<1>7. \A j \in DOMAIN more :
        more[j].role = "tool" =>
          \E i \in DOMAIN more : more[i].calls # <<>> /\ j \in AnswersOf(more, i)
  <2> SUFFICES ASSUME NEW j \in DOMAIN msgs, msgs[j].role = "tool"
               PROVE  \E i \in DOMAIN more : more[i].calls # <<>> /\ j \in AnswersOf(more, i)
    BY <1>4, <1>5
  <2>1. PICK i \in DOMAIN msgs : msgs[i].calls # <<>> /\ j \in AnswersOf(msgs, i)
    BY DEF WellFormed
  <2>2. QED BY <1>3, <1>5, <2>1
<1>8. WellFormed(more) BY <1>6, <1>7 DEF WellFormed
<1>9. QED BY <1>8 DEF more

\* So does a whole round.
LEMMA WellFormedRound ==
    ASSUME NEW msgs \in Seq(Row), NEW n \in 0..(Len(msgs) - 1),
           WellFormed(SubSeq(msgs, 1, n)),
           msgs[n + 1].calls # <<>>, msgs[n + 1].role = "assistant",
           Cardinality(CallIds(msgs[n + 1])) = Len(msgs) - (n + 1),
           \A j \in n + 2 .. Len(msgs) : msgs[j].role = "tool" /\ msgs[j].calls = <<>>,
           {msgs[j].id : j \in n + 2 .. Len(msgs)} = CallIds(msgs[n + 1])
    PROVE  WellFormed(msgs)
<1> DEFINE head == SubSeq(msgs, 1, n)
           c == n + 1
<1>1. head \in Seq(Row) /\ Len(head) = n /\ \A i \in 1..n : head[i] = msgs[i]
  BY Prefix
<1>2. DOMAIN msgs = 1..Len(msgs) /\ DOMAIN head = 1..n /\ Len(msgs) \in Nat BY <1>1
<1> HIDE DEF head
<1>3. c \in DOMAIN msgs /\ DOMAIN head \subseteq DOMAIN msgs BY <1>2
<1>4. AnswersOf(msgs, c) = c + 1 .. Len(msgs) BY <1>2 DEF AnswersOf
<1>5. \A i \in DOMAIN head : head[i] = msgs[i] /\ AnswersOf(head, i) = AnswersOf(msgs, i)
  BY <1>1, <1>2 DEF AnswersOf
<1>6. \A j \in DOMAIN msgs : j \in DOMAIN head \/ j = c \/ j \in AnswersOf(msgs, c)
  BY <1>2, <1>4
<1>7. WellFormed(head) BY DEF head
<1>8. /\ AnswersOf(msgs, c) \subseteq DOMAIN msgs
      /\ {msgs[j].id : j \in AnswersOf(msgs, c)} = CallIds(msgs[c])
      /\ \A j \in AnswersOf(msgs, c) : msgs[j].role = "tool" /\ msgs[j].calls = <<>>
      /\ msgs[c].calls # <<>> /\ msgs[c].role = "assistant"
  BY <1>2, <1>4
<1> HIDE DEF c
<1>9. \A i \in DOMAIN msgs :
        msgs[i].calls # <<>> =>
          /\ AnswersOf(msgs, i) \subseteq DOMAIN msgs
          /\ {msgs[j].id : j \in AnswersOf(msgs, i)} = CallIds(msgs[i])
  <2> SUFFICES ASSUME NEW i \in DOMAIN head, msgs[i].calls # <<>>
               PROVE  /\ AnswersOf(msgs, i) \subseteq DOMAIN msgs
                      /\ {msgs[j].id : j \in AnswersOf(msgs, i)} = CallIds(msgs[i])
    BY <1>6, <1>8
  <2>1. /\ AnswersOf(msgs, i) \subseteq DOMAIN head
        /\ {head[j].id : j \in AnswersOf(msgs, i)} = CallIds(msgs[i])
    BY <1>5, <1>7 DEF WellFormed
  <2>2. {head[j].id : j \in AnswersOf(msgs, i)} = {msgs[j].id : j \in AnswersOf(msgs, i)}
    BY <1>5, <2>1
  <2>3. QED BY <1>3, <2>1, <2>2
<1>10. \A j \in DOMAIN msgs :
        msgs[j].role = "tool" =>
          \E i \in DOMAIN msgs : msgs[i].calls # <<>> /\ j \in AnswersOf(msgs, i)
  <2> TAKE j \in DOMAIN msgs
  <2> HAVE msgs[j].role = "tool"
  <2>1. CASE j \in AnswersOf(msgs, c) BY <1>3, <1>8, <2>1
  <2>2. CASE j \in DOMAIN head
    <3>1. PICK i \in DOMAIN head : head[i].calls # <<>> /\ j \in AnswersOf(head, i)
      BY <1>5, <1>7, <2>2 DEF WellFormed
    <3>2. QED BY <1>3, <1>5, <3>1
  <2>3. QED BY <1>6, <1>8, <2>1, <2>2
<1>11. QED BY <1>9, <1>10 DEF WellFormed

-----------------------------------------------------------------------------
\* What toOpenAiMessages holds after i rows of a log: a request that is well
\* formed up to the pending round, which is the one the rows leave open.
PendingRound(rows, i, acc, c) ==
    /\ IsRound(rows, c, i) /\ i - c < Len(rows[c].calls)
    /\ WellFormed(SubSeq(acc.result, 1, acc.pendingAt))
    /\ Len(acc.result) = acc.pendingAt + (i - c) + 1
    /\ \A k \in c..i : acc.result[acc.pendingAt + (k - c) + 1] = rows[k]
    /\ acc.pending = CallIds(rows[c])
    /\ acc.answered = {rows[k].id : k \in c + 1 .. i}

ConversionHolds(rows, i, acc) ==
    /\ AccTyped(acc)
    /\ acc.pendingAt = -1 => WellFormed(acc.result) /\ ~Open(rows, i) /\ acc.pending = {}
    /\ acc.pendingAt # -1 => \E c \in 1..i : PendingRound(rows, i, acc, c)

\* dropPendingRound leaves a request OpenAI accepts.
LEMMA DroppedWellFormed ==
    ASSUME NEW rows, NEW i \in Nat, NEW acc, ConversionHolds(rows, i, acc)
    PROVE  /\ dropPendingRound(acc).result \in Seq(Row)
           /\ WellFormed(dropPendingRound(acc).result)
<1>1. AccTyped(acc) BY DEF ConversionHolds
<1>2. CASE acc.pendingAt = -1 BY <1>1, <1>2, Dropped DEF ConversionHolds
<1>3. CASE acc.pendingAt # -1
  BY <1>1, <1>3, Dropped DEF ConversionHolds, PendingRound
<1>4. QED BY <1>2, <1>3

LEMMA RowFields ==
    ASSUME NEW row \in Row
    PROVE  /\ row.role \in {"user", "assistant", "tool"} /\ row.calls \in Seq(Call)
           /\ row.id \in Nat
BY DEF Row

LEMMA FreshAcc ==
    ASSUME NEW rows, NEW i \in Nat, NEW result \in Seq(Row), WellFormed(result), ~Open(rows, i)
    PROVE  ConversionHolds(rows, i, NotPending(result))
BY NotPendingTyped DEF ConversionHolds, NotPending

\* A row that is not a tool's and calls nothing leaves no round open.
LEMMA ClosesRounds ==
    ASSUME NEW rows \in Seq(Row), NEW i \in 1..Len(rows), rows[i].calls = <<>>,
           rows[i].role # "tool"
    PROVE  ~Open(rows, i)
<1> SUFFICES ASSUME NEW c \in 1..i, IsRound(rows, c, i) PROVE FALSE BY DEF Open
<1>1. c # i BY DEF IsRound
<1>2. i \in c + 1 .. i BY <1>1
<1>3. QED BY <1>2 DEF IsRound

LEMMA ConvertsUser ==
    ASSUME NEW rows, IsLog(rows), NEW i \in 1..Len(rows), NEW acc,
           ConversionHolds(rows, i - 1, acc), rows[i].role = "user"
    PROVE  /\ ConversionHolds(rows, i, Convert(acc, rows[i]))
           /\ \E kept \in Seq(Row) : Convert(acc, rows[i]).result = Append(kept, rows[i])
<1>1. rows \in Seq(Row) /\ i \in DOMAIN rows BY DEF IsLog
<1>2. rows[i] \in Row /\ rows[i].calls = <<>> BY <1>1 DEF IsLog, Shaped
<1>3. AccTyped(acc) BY DEF ConversionHolds
<1> DEFINE kept == dropPendingRound(acc).result
<1>4. kept \in Seq(Row) /\ WellFormed(kept) BY DroppedWellFormed
<1>5. Convert(acc, rows[i]) = NotPending(Append(kept, rows[i]))
  BY <1>2, <1>3, Converts DEF ConvertUser
<1> HIDE DEF kept
<1>6. Append(kept, rows[i]) \in Seq(Row) /\ WellFormed(Append(kept, rows[i]))
  BY <1>2, <1>4, WellFormedAppend, Appended
<1>7. ~Open(rows, i) BY <1>1, <1>2, ClosesRounds
<1>8. ConversionHolds(rows, i, NotPending(Append(kept, rows[i])))
  <2>1. PICK result \in Seq(Row) : result = Append(kept, rows[i]) BY <1>1, <1>6, <1>7
  <2>2. i \in Nat /\ WellFormed(result) BY <1>1, <1>6, <1>7, <2>1
  <2>3. ConversionHolds(rows, i, NotPending(result)) BY <1>1, <1>6, <1>7, <2>2, FreshAcc
  <2>4. QED BY <2>1, <2>3
<1>9. Convert(acc, rows[i]).result = Append(kept, rows[i]) BY <1>5, <1>6, NotPendingTyped
<1>10. QED BY <1>4, <1>5, <1>8, <1>9

LEMMA ConvertsReply ==
    ASSUME NEW rows, IsLog(rows), NEW i \in 1..Len(rows), NEW acc,
           ConversionHolds(rows, i - 1, acc), rows[i].role = "assistant",
           rows[i].calls = <<>>
    PROVE  /\ ConversionHolds(rows, i, Convert(acc, rows[i]))
           /\ Convert(acc, rows[i]).result = Append(acc.result, rows[i])
<1>1. rows \in Seq(Row) /\ i \in DOMAIN rows BY DEF IsLog
<1>2. rows[i] \in Row BY <1>1
<1>3. AccTyped(acc) /\ acc.result \in Seq(Row) BY DEF ConversionHolds, AccTyped, Acc
<1>4. i - 1 \in 1..Len(rows) /\ ~Open(rows, i - 1)
  <2>1. i > 1 /\ Rests(rows, i - 1) BY <1>1 DEF IsLog
  <2>2. QED BY <2>1, NotOpen
<1>5. acc.pendingAt = -1
  BY <1>4 DEF ConversionHolds, PendingRound, Open
<1>6. Convert(acc, rows[i]) = NotPending(Append(acc.result, rows[i]))
  BY <1>2, <1>3, Converts DEF ConvertReply
<1>7. Append(acc.result, rows[i]) \in Seq(Row) /\ WellFormed(Append(acc.result, rows[i]))
  BY <1>2, <1>3, <1>5, WellFormedAppend, Appended DEF ConversionHolds
<1>8. ~Open(rows, i) BY <1>1, ClosesRounds
<1>9. ConversionHolds(rows, i, NotPending(Append(acc.result, rows[i])))
  <2>1. PICK result \in Seq(Row) : result = Append(acc.result, rows[i]) BY <1>1, <1>7, <1>8
  <2>2. i \in Nat /\ WellFormed(result) BY <1>1, <1>7, <1>8, <2>1
  <2>3. ConversionHolds(rows, i, NotPending(result)) BY <1>1, <1>7, <1>8, <2>2, FreshAcc
  <2>4. QED BY <2>1, <2>3
<1>10. QED BY <1>6, <1>7, <1>9, NotPendingTyped

LEMMA ConvertsCalls ==
    ASSUME NEW rows, IsLog(rows), NEW i \in 1..Len(rows), NEW acc,
           ConversionHolds(rows, i - 1, acc), rows[i].role = "assistant",
           rows[i].calls # <<>>
    PROVE  /\ ConversionHolds(rows, i, Convert(acc, rows[i]))
           /\ Convert(acc, rows[i]).result = Append(acc.result, rows[i])
<1>1. rows \in Seq(Row) /\ i \in DOMAIN rows BY DEF IsLog
<1>2. rows[i] \in Row /\ rows[i].calls \in Seq(Call) BY <1>1, RowFields
<1>3. AccTyped(acc) /\ acc.result \in Seq(Row) BY DEF ConversionHolds, AccTyped, Acc
<1>4. i - 1 \in 1..Len(rows) /\ ~Open(rows, i - 1)
  <2>1. i > 1 /\ Rests(rows, i - 1) BY <1>1 DEF IsLog
  <2>2. QED BY <2>1, NotOpen
<1>5. acc.pendingAt = -1
  BY <1>4 DEF ConversionHolds, PendingRound, Open
<1>6. WellFormed(acc.result) BY <1>5 DEF ConversionHolds
<1> DEFINE next == Convert(acc, rows[i])
<1>7. next = [result |-> Append(acc.result, rows[i]), pendingAt |-> Len(acc.result),
              pending |-> CallIds(rows[i]), answered |-> {}]
  BY <1>2, <1>3, <1>5, Converts, Dropped DEF ConvertCalls
<1>8. AccTyped(next) BY <1>2, <1>3, Converts
<1> HIDE DEF next
<1>9. Append(acc.result, rows[i]) \in Seq(Row)
      /\ Len(Append(acc.result, rows[i])) = Len(acc.result) + 1
      /\ Append(acc.result, rows[i])[Len(acc.result) + 1] = rows[i]
  BY <1>2, <1>3, Appended
<1>10. PendingRound(rows, i, next, i)
  <2>1. IsRound(rows, i, i) /\ i - i < Len(rows[i].calls)
    <3>1. Len(rows[i].calls) > 0 /\ Len(rows[i].calls) \in Nat BY <1>2
    <3>2. QED BY <1>1, <3>1 DEF IsRound
  <2>2. WellFormed(SubSeq(next.result, 1, next.pendingAt))
    <3>1. SubSeq(Append(acc.result, rows[i]), 1, Len(acc.result)) = acc.result
      BY <1>2, <1>3
    <3>2. QED BY <1>6, <1>7, <3>1
  <2>3. Len(next.result) = next.pendingAt + (i - i) + 1 BY <1>3, <1>7, <1>9
  <2>4. \A k \in i..i : next.result[next.pendingAt + (k - i) + 1] = rows[k]
    BY <1>3, <1>7, <1>9
  <2>5. next.answered = {rows[k].id : k \in i + 1 .. i} BY <1>7
  <2>6. QED BY <2>1, <2>2, <2>3, <2>4, <2>5, <1>7 DEF PendingRound
<1>11. next.pendingAt # -1 BY <1>3, <1>7
<1>12. ConversionHolds(rows, i, next) BY <1>8, <1>10, <1>11 DEF ConversionHolds
<1>13. QED BY <1>7, <1>12 DEF next

LEMMA ConvertsTool ==
    ASSUME NEW rows, IsLog(rows), NEW i \in 1..Len(rows), NEW acc,
           ConversionHolds(rows, i - 1, acc), rows[i].role = "tool"
    PROVE  /\ ConversionHolds(rows, i, Convert(acc, rows[i]))
           /\ Convert(acc, rows[i]).result = Append(acc.result, rows[i])
<1>1. rows \in Seq(Row) /\ i \in DOMAIN rows /\ DOMAIN rows = 1..Len(rows)
      /\ Len(rows) \in Nat
  BY DEF IsLog
<1>2. rows[i] \in Row BY <1>1
<1>3. AccTyped(acc) /\ acc.result \in Seq(Row) BY DEF ConversionHolds, AccTyped, Acc
\* The round the row belongs to is open, so it is the pending one.
<1>4. PICK c \in 1..(i - 1) : IsRound(rows, c, i) BY <1>1, <1>2 DEF IsLog
<1>5. rows[c] \in Row /\ rows[c].calls \in Seq(Call) /\ AsksOnce(rows[c].calls)
      /\ c \in DOMAIN rows
  BY <1>1, <1>4, RowFields DEF IsLog, Shaped
<1> DEFINE calls == rows[c].calls
           size == Len(rows[c].calls)
<1>6. size \in Nat /\ DOMAIN calls = 1..size /\ i - c <= size BY <1>4, <1>5 DEF IsRound
<1>range. i \in Nat /\ c \in Nat /\ 1 <= c /\ c < i /\ i <= Len(rows) BY <1>1, <1>4
<1>7. IsRound(rows, c, i - 1) /\ (i - 1) - c < size
  <2>1. i - 1 \in c..Len(rows) /\ (i - 1) - c < size /\ (i - 1) - c <= size
    BY <1>range, <1>1, <1>6
  <2>2. \A k \in c + 1 .. i - 1 : k \in c + 1 .. i BY <1>range
  <2>3. QED BY <1>4, <2>1, <2>2 DEF IsRound
<1>8. acc.pendingAt # -1 BY <1>7 DEF ConversionHolds, Open
<1>9. PICK d \in 1..(i - 1) : PendingRound(rows, i - 1, acc, d)
  BY <1>8 DEF ConversionHolds
<1>10. PendingRound(rows, i - 1, acc, c)
  <2>1. c = d BY <1>1, <1>7, <1>9, OneRound DEF PendingRound
  <2>2. QED BY <1>9, <2>1
<1>11. acc.pendingAt \in Nat /\ acc.pendingAt <= Len(acc.result)
  BY <1>3, <1>8 DEF AccTyped, Acc
<1>12. PICK result \in Seq(Row) :
         /\ result = Append(acc.result, rows[i]) /\ Len(result) = Len(acc.result) + 1
         /\ \A k \in 1..Len(acc.result) : result[k] = acc.result[k]
         /\ result[Len(acc.result) + 1] = rows[i]
  <2>1. /\ Append(acc.result, rows[i]) \in Seq(Row)
        /\ Len(Append(acc.result, rows[i])) = Len(acc.result) + 1
        /\ \A k \in 1..Len(acc.result) : Append(acc.result, rows[i])[k] = acc.result[k]
        /\ Append(acc.result, rows[i])[Len(acc.result) + 1] = rows[i]
    BY <1>2, <1>3, Appended
  <2>2. QED BY <2>1, Zenon
<1>13. PICK answered : answered = acc.answered \cup {rows[i].id} OBVIOUS
<1>14. Convert(acc, rows[i]) = IF acc.pending # {} /\ acc.pending \subseteq answered
                               THEN NotPending(result)
                               ELSE [acc EXCEPT !.result = result, !.answered = answered]
  BY <1>2, <1>3, <1>12, <1>13, Converts DEF ConvertTool
<1>15. /\ Len(result) = acc.pendingAt + (i - c) + 1
       /\ Len(acc.result) = acc.pendingAt + (i - c)
  <2>1. Len(acc.result) = acc.pendingAt + ((i - 1) - c) + 1 BY <1>10 DEF PendingRound
  <2>2. QED BY <1>range, <1>11, <1>12, <2>1
<1>16. \A k \in c..i : result[acc.pendingAt + (k - c) + 1] = rows[k]
  <2> TAKE k \in c..i
  <2>1. CASE k = i
    <3>1. acc.pendingAt + (k - c) + 1 = Len(acc.result) + 1
      BY <1>range, <1>15, <2>1, <1>11
    <3>2. QED BY <1>12, <2>1, <3>1
  <2>2. CASE k # i
    <3>1. k \in c..(i - 1) BY <1>1, <2>2
    <3>2. acc.result[acc.pendingAt + (k - c) + 1] = rows[k] BY <1>10, <3>1 DEF PendingRound
    <3>3. acc.pendingAt + (k - c) + 1 \in 1..Len(acc.result)
      <4>1. PICK a \in Nat : a = acc.pendingAt BY <1>11
      <4>2. Len(acc.result) = a + (i - c) BY <1>15, <4>1
      <4>3. a + (k - c) + 1 \in 1..(a + (i - c)) BY <1>range, <3>1
      <4>4. QED BY <4>1, <4>2, <4>3
    <3>4. QED BY <1>12, <3>2, <3>3
  <2>3. QED BY <2>1, <2>2
<1>17. SubSeq(result, 1, acc.pendingAt) = SubSeq(acc.result, 1, acc.pendingAt)
  BY <1>3, <1>11, <1>12
<1>18. WellFormed(SubSeq(result, 1, acc.pendingAt)) BY <1>10, <1>17 DEF PendingRound
<1>19. answered = {rows[k].id : k \in c + 1 .. i}
  <2>1. acc.answered = {rows[k].id : k \in c + 1 .. i - 1} BY <1>10 DEF PendingRound
  <2>2. c + 1 .. i = (c + 1 .. i - 1) \cup {i} BY <1>1, <1>4
  <2>3. QED BY <1>13, <2>1, <2>2
<1>20. answered = {calls[n].id : n \in 1..(i - c)}
  <2>1. \A k \in c + 1 .. i : k - c \in 1..(i - c) /\ rows[k].id = calls[k - c].id
    BY <1>1, <1>4 DEF IsRound
  <2>2. \A n \in 1..(i - c) : n + c \in c + 1 .. i /\ rows[n + c].id = calls[n].id
    <3> TAKE n \in 1..(i - c)
    <3>1. n + c \in c + 1 .. i /\ (n + c) - c = n BY <1>1, <1>4
    <3>2. QED BY <2>1, <3>1
  <2> HIDE DEF calls
  <2>3. {rows[k].id : k \in c + 1 .. i} \subseteq {calls[n].id : n \in 1..(i - c)}
    BY <2>1
  <2>4. {calls[n].id : n \in 1..(i - c)} \subseteq {rows[k].id : k \in c + 1 .. i}
    BY <2>2
  <2>5. QED BY <1>19, <2>3, <2>4
<1>21. acc.pending = {calls[n].id : n \in 1..size}
  BY <1>5, <1>10, CallIdsTyped DEF PendingRound
<1>22. acc.pending = CallIds(rows[c]) BY <1>10 DEF PendingRound
<1>23. size > 0 /\ acc.pending # {}
  <2>1. size > 0 BY <1>4, <1>5 DEF IsRound
  <2>2. 1 \in 1..size BY <1>6, <2>1
  <2>3. QED BY <1>21, <2>1, <2>2
<1>24. acc.pending \subseteq answered <=> i - c = size
  <2>1. CASE i - c = size BY <1>20, <1>21, <2>1
  <2>2. CASE i - c # size
    <3>1. size \in 1..size /\ size \notin 1..(i - c) BY <1>1, <1>6, <1>23, <2>2
    <3>2. calls[size].id \in acc.pending BY <1>21, <3>1
    <3>3. calls[size].id \notin answered
      <4>1. \A n \in 1..(i - c) : n \in DOMAIN calls /\ n # size BY <1>1, <1>6, <3>1
      <4>2. \A n \in 1..(i - c) : calls[n].id # calls[size].id
        BY <1>5, <1>6, <3>1, <4>1 DEF AsksOnce
      <4>3. QED BY <1>20, <4>2
    <3>4. QED BY <2>2, <3>2, <3>3
  <2>3. QED BY <2>1, <2>2
<1> HIDE DEF calls
<1>25. CASE i - c = size
  <2>1. Convert(acc, rows[i]) = NotPending(result) BY <1>14, <1>23, <1>24, <1>25
  <2> DEFINE n == acc.pendingAt
  <2>2. n \in 0..(Len(result) - 1) /\ result[n + 1] = rows[c]
    <3>1. c \in c..i /\ n + (c - c) + 1 = n + 1 BY <1>1, <1>4, <1>11
    <3>2. result[n + 1] = rows[c] BY <1>16, <3>1
    <3>3. QED BY <1>1, <1>4, <1>11, <1>15, <3>2
  <2>3. rows[c].role = "assistant" /\ rows[c].calls # <<>> BY <1>4 DEF IsRound
  <2>4. Cardinality(CallIds(rows[c])) = Len(result) - (n + 1)
    <3>1. Cardinality(CallIds(rows[c])) = size BY <1>5, SizeOfRound
    <3>2. Len(result) = n + size + 1 BY <1>15, <1>25
    <3> HIDE DEF size
    <3>3. QED BY <3>1, <3>2, <1>6, <1>11
  <2>5. \A j \in n + 2 .. Len(result) :
          /\ (j - n - 1) + c \in c + 1 .. i /\ result[j] = rows[(j - n - 1) + c]
    <3> TAKE j \in n + 2 .. Len(result)
    <3> DEFINE k == (j - n - 1) + c
    <3>1. k \in c + 1 .. i /\ k \in c..i /\ n + (k - c) + 1 = j
      <4>1. n \in Nat /\ j \in n + 2 .. n + (i - c) + 1 BY <1>11, <1>15
      <4> HIDE DEF n
      <4>2. QED BY <1>range, <4>1
    <3> HIDE DEF k
    <3>2. result[j] = rows[k] BY <1>16, <3>1
    <3>3. QED BY <3>1, <3>2 DEF k
  <2>6. \A j \in n + 2 .. Len(result) : result[j].role = "tool" /\ result[j].calls = <<>>
    <3> TAKE j \in n + 2 .. Len(result)
    <3>1. PICK k \in c + 1 .. i : result[j] = rows[k] BY <2>5
    <3>2. k \in DOMAIN rows BY <1>1, <1>4
    <3>3. rows[k].role = "tool" BY <1>4 DEF IsRound
    <3>4. rows[k].calls = <<>> BY <3>2, <3>3 DEF IsLog, Shaped
    <3>5. QED BY <3>1, <3>3, <3>4
  <2>7. {result[j].id : j \in n + 2 .. Len(result)} = CallIds(rows[c])
    <3>1. {result[j].id : j \in n + 2 .. Len(result)} = {rows[k].id : k \in c + 1 .. i}
      <4>1. \A j \in n + 2 .. Len(result) : \E k \in c + 1 .. i : result[j] = rows[k]
        BY <2>5
      <4>2. \A k \in c + 1 .. i : \E j \in n + 2 .. Len(result) : result[j] = rows[k]
        <5> TAKE k \in c + 1 .. i
        <5>1. n + (k - c) + 1 \in n + 2 .. Len(result) /\ k \in c..i
          <6>1. n \in Nat /\ Len(result) = n + (i - c) + 1 BY <1>11, <1>15
          <6> HIDE DEF n
          <6>2. QED BY <1>range, <6>1
        <5>2. QED BY <1>16, <5>1
      <4>3. \A j \in n + 2 .. Len(result) :
              \E k \in c + 1 .. i : result[j].id = rows[k].id
        BY <4>1
      <4>4. \A k \in c + 1 .. i :
              \E j \in n + 2 .. Len(result) : result[j].id = rows[k].id
        BY <4>2
      <4>5. {result[j].id : j \in n + 2 .. Len(result)} \subseteq
              {rows[k].id : k \in c + 1 .. i}
        BY <4>3
      <4>6. {rows[k].id : k \in c + 1 .. i} \subseteq
              {result[j].id : j \in n + 2 .. Len(result)}
        BY <4>4
      <4>7. QED BY <4>5, <4>6
    <3>2. answered = CallIds(rows[c])
      BY <1>20, <1>21, <1>22, <1>25
    <3>3. QED BY <1>19, <3>1, <3>2
  <2>8. WellFormed(result) BY <1>18, <2>2, <2>3, <2>4, <2>6, <2>7, WellFormedRound
  <2>9. ~Open(rows, i)
    <3>1. Rests(rows, i) BY <1>1, <1>4, <1>25 DEF Rests
    <3>2. QED BY <3>1, NotOpen
  <2>10. ConversionHolds(rows, i, NotPending(result))
    <3>1. i \in Nat BY <1>1
    <3>2. QED BY <2>8, <2>9, <3>1, FreshAcc
  <2>11. QED BY <1>12, <2>1, <2>10, NotPendingTyped
<1>26. CASE i - c # size
  <2> DEFINE next == Convert(acc, rows[i])
  <2>1. next = [acc EXCEPT !.result = result, !.answered = answered]
    BY <1>14, <1>24, <1>26
  <2>2. AccTyped(next) BY <1>2, <1>3, Converts
  <2>3. acc \in Acc BY <1>3 DEF AccTyped
  <2> HIDE DEF next
  <2>4. /\ next.result = result /\ next.answered = answered
        /\ next.pendingAt = acc.pendingAt /\ next.pending = acc.pending
    BY <2>1, <2>3 DEF Acc
  <2>5. i - c < size BY <1>1, <1>4, <1>6, <1>26
  <2>6. PendingRound(rows, i, next, c)
    BY <1>4, <1>15, <1>16, <1>18, <1>19, <1>22, <2>4, <2>5 DEF PendingRound
  <2>7. ConversionHolds(rows, i, next)
    <3>1. c \in 1..i BY <1>1, <1>4
    <3>2. QED BY <1>8, <2>2, <2>4, <2>6, <3>1 DEF ConversionHolds
  <2>8. QED BY <1>12, <2>4, <2>7 DEF next
<1>27. QED BY <1>25, <1>26

LEMMA ConversionSteps ==
    ASSUME NEW rows, IsLog(rows), NEW i \in 1..Len(rows), NEW acc,
           ConversionHolds(rows, i - 1, acc)
    PROVE  /\ ConversionHolds(rows, i, Convert(acc, rows[i]))
           /\ rows[i].role # "user" =>
                Convert(acc, rows[i]).result = Append(acc.result, rows[i])
<1>1. rows \in Seq(Row) BY DEF IsLog
<1>2. rows[i] \in Row BY <1>1
<1>3. rows[i].role \in {"user", "assistant", "tool"} BY <1>2, RowFields
<1>4. QED BY <1>3, ConvertsUser, ConvertsReply, ConvertsCalls, ConvertsTool

\* The rows from u to i are the end of a request.
EndsWith(result, rows, u, i) ==
    /\ i - u + 1 <= Len(result)
    /\ \A k \in u..i : result[Len(result) - (i - k)] = rows[k]

\* toOpenAiMessages makes a request OpenAI accepts of any log, and its end is
\* the last turn when nothing in that turn is left to answer.
LEMMA RequestOfLog ==
    ASSUME NEW rows, IsLog(rows)
    PROVE  /\ toOpenAiMessages(rows) \in Seq(Row)
           /\ WellFormed(toOpenAiMessages(rows))
           /\ \A u \in 1..Len(rows) :
                /\ rows[u].role = "user"
                /\ \A k \in u + 1 .. Len(rows) : rows[k].role # "user"
                /\ Rests(rows, Len(rows))
                => EndsWith(toOpenAiMessages(rows), rows, u, Len(rows))
<1>1. rows \in Seq(Row) BY DEF IsLog
<1>2. PICK acc : /\ acc[0] = NotPending(<<>>)
                 /\ \A i \in 1..Len(rows) : acc[i] = Convert(acc[i - 1], rows[i])
                 /\ toOpenAiMessages(rows) = dropPendingRound(acc[Len(rows)]).result
  BY <1>1, Conversion
<1>3. Len(rows) \in Nat BY <1>1
<1>4. \A i \in 0..Len(rows) : ConversionHolds(rows, i, acc[i])
  <2> DEFINE T == {i \in 0..Len(rows) : ~ConversionHolds(rows, i, acc[i])}
  <2> SUFFICES ASSUME T # {} PROVE FALSE OBVIOUS
  <2>1. PICK i \in T : \A m \in T : i <= m
    <3>1. T \in SUBSET Nat OBVIOUS
    <3> HIDE DEF T
    <3>2. QED BY <3>1, LeastNatural
  <2>2. i # 0
    <3>empty. <<>> \in Seq(Row) OBVIOUS
    <3>1. PICK none \in Seq(Row) : none = <<>> BY <3>empty
    <3>2. DOMAIN none = {} BY <3>1
    <3>3. WellFormed(none) BY <3>2 DEF WellFormed
    <3>4. ~Open(rows, 0) BY DEF Open
    <3>5. ConversionHolds(rows, 0, NotPending(none)) BY <3>3, <3>4, FreshAcc
    <3>6. QED BY <1>2, <3>1, <3>5
  <2>3. i \in 1..Len(rows) /\ ConversionHolds(rows, i - 1, acc[i - 1])
    BY <1>3, <2>1, <2>2
  <2>4. QED BY <1>2, <2>3, ConversionSteps
<1>5. /\ toOpenAiMessages(rows) \in Seq(Row)
      /\ WellFormed(toOpenAiMessages(rows))
  BY <1>2, <1>3, <1>4, DroppedWellFormed
<1>6. \A i \in 0..Len(rows) : acc[i].result \in Seq(Row)
  BY <1>4 DEF ConversionHolds, AccTyped, Acc
<1>7. ASSUME NEW u \in 1..Len(rows), rows[u].role = "user",
             \A k \in u + 1 .. Len(rows) : rows[k].role # "user",
             Rests(rows, Len(rows))
      PROVE  EndsWith(toOpenAiMessages(rows), rows, u, Len(rows))
  <2>1. \A i \in u..Len(rows) : EndsWith(acc[i].result, rows, u, i)
    <3> DEFINE T == {i \in u..Len(rows) : ~EndsWith(acc[i].result, rows, u, i)}
    <3> SUFFICES ASSUME T # {} PROVE FALSE OBVIOUS
    <3>1. PICK i \in T : \A m \in T : i <= m
      <4>1. T \in SUBSET Nat OBVIOUS
      <4> HIDE DEF T
      <4>2. QED BY <4>1, LeastNatural
    <3>2. i \in Nat /\ u \in Nat /\ u <= i /\ i <= Len(rows) /\ 1 <= u BY <1>3, <3>1
    <3>3. rows[i] \in Row /\ i \in 1..Len(rows) BY <1>1, <1>3, <3>2
    <3>4. ConversionHolds(rows, i - 1, acc[i - 1]) /\ acc[i] = Convert(acc[i - 1], rows[i])
      BY <1>2, <1>3, <1>4, <3>3
    <3>5. CASE i = u
      <4>1. PICK kept \in Seq(Row) : acc[i].result = Append(kept, rows[i])
        BY <1>7, <3>3, <3>4, <3>5, ConvertsUser
      <4>2. Len(acc[i].result) = Len(kept) + 1 /\ acc[i].result[Len(kept) + 1] = rows[i]
            /\ Len(kept) \in Nat
        BY <3>3, <4>1, Appended
      <4>3. \A k \in u..i : k = i BY <3>2, <3>5
      <4>4. i - u + 1 <= Len(acc[i].result) /\ Len(acc[i].result) - (i - i) = Len(kept) + 1
        BY <3>2, <3>5, <4>2
      <4>5. EndsWith(acc[i].result, rows, u, i) BY <4>2, <4>3, <4>4 DEF EndsWith
      <4>6. QED BY <3>1, <4>5
    <3>6. CASE i # u
      <4>1. rows[i].role # "user" BY <1>7, <3>2, <3>6
      <4>2. PICK last \in Seq(Row) : last = acc[i - 1].result BY <1>6, <3>3
      <4>3. acc[i].result = Append(last, rows[i]) BY <3>3, <3>4, <4>1, <4>2, ConversionSteps
      <4>4. EndsWith(last, rows, u, i - 1)
        <5>1. i - 1 \in u..Len(rows) /\ ~(i <= i - 1) BY <3>2, <3>6
        <5>2. QED BY <3>1, <4>2, <5>1
      <4>5. PICK result \in Seq(Row) :
              /\ result = acc[i].result /\ Len(result) = Len(last) + 1
              /\ \A k \in 1..Len(last) : result[k] = last[k]
              /\ result[Len(last) + 1] = rows[i]
        <5>1. /\ Append(last, rows[i]) \in Seq(Row)
              /\ Len(Append(last, rows[i])) = Len(last) + 1
              /\ \A k \in 1..Len(last) : Append(last, rows[i])[k] = last[k]
              /\ Append(last, rows[i])[Len(last) + 1] = rows[i]
          BY <3>3, Appended
        <5>2. QED BY <4>3, <5>1, Zenon
      <4>6. (i - 1) - u + 1 <= Len(last) /\ Len(last) \in Nat BY <4>4 DEF EndsWith
      <4>7. ASSUME NEW k \in u..i
            PROVE  result[Len(result) - (i - k)] = rows[k]
        <5>1. CASE k = i
          <6>1. Len(result) - (i - k) = Len(last) + 1 BY <3>2, <4>5, <4>6, <5>1
          <6>2. QED BY <4>5, <5>1, <6>1
        <5>2. CASE k # i
          <6>1. k \in u..(i - 1) BY <3>2, <5>2
          <6>2. last[Len(last) - ((i - 1) - k)] = rows[k] BY <4>4, <6>1 DEF EndsWith
          <6>3. /\ Len(result) - (i - k) = Len(last) - ((i - 1) - k)
                /\ Len(last) - ((i - 1) - k) \in 1..Len(last)
            BY <3>2, <4>5, <4>6, <6>1
          <6>4. QED BY <4>5, <6>2, <6>3
        <5>3. QED BY <5>1, <5>2
      <4>8. i - u + 1 <= Len(result) BY <3>2, <4>5, <4>6
      <4>9. EndsWith(result, rows, u, i) BY <4>7, <4>8 DEF EndsWith
      <4>10. QED BY <3>1, <4>5, <4>9
    <3>7. QED BY <3>5, <3>6
  <2>2. Len(rows) \in 1..Len(rows) /\ Len(rows) \in u..Len(rows) BY <1>3
  <2>3. ~Open(rows, Len(rows)) BY <1>7, <2>2, NotOpen
  <2>4. ConversionHolds(rows, Len(rows), acc[Len(rows)]) BY <1>4, <1>3
  <2>5. acc[Len(rows)].pendingAt = -1
    BY <2>3, <2>4 DEF ConversionHolds, PendingRound, Open
  <2>6. toOpenAiMessages(rows) = acc[Len(rows)].result
    BY <1>2, <2>4, <2>5, Dropped DEF ConversionHolds
  <2>7. QED BY <2>1, <2>2, <2>6
<1>8. QED BY <1>5, <1>7

-----------------------------------------------------------------------------
\* From a user's row on, a log is a log.
LEMMA LaterLog ==
    ASSUME NEW all, IsLog(all), NEW start \in 1..Len(all), all[start].role = "user"
    PROVE  LET rows == SubSeq(all, start, Len(all))
           IN  /\ IsLog(rows) /\ Len(rows) = Len(all) - start + 1
               /\ \A j \in 1..Len(rows) : rows[j] = all[start + j - 1]
               /\ \A j \in 1..Len(rows) : Rests(all, start + j - 1) => Rests(rows, j)
<1> DEFINE rows == SubSeq(all, start, Len(all))
           size == Len(all) - start + 1
<1>1. all \in Seq(Row) /\ Len(all) \in Nat /\ DOMAIN all = 1..Len(all) BY DEF IsLog
<1>2. /\ rows \in Seq(Row) /\ Len(rows) = size
      /\ \A j \in 1..size : rows[j] = all[start + j - 1]
  BY <1>1
<1>3. size \in Nat /\ DOMAIN rows = 1..size
      /\ \A j \in 1..size : start + j - 1 \in 1..Len(all)
  BY <1>1, <1>2
<1> HIDE DEF rows, size
\* A round behind the user's row does not begin before it.
<1>4. ASSUME NEW j \in 1..size, NEW c \in 1..(start + j - 1), IsRound(all, c, start + j - 1)
      PROVE  \E d \in 1..j : c = start + d - 1 /\ IsRound(rows, d, j)
                             /\ rows[d] = all[c]
  <2>1. c >= start
    <3> SUFFICES ASSUME c < start PROVE FALSE BY <1>1
    <3>1. start \in c + 1 .. start + j - 1 BY <1>1, <1>3
    <3>2. QED BY <1>4, <3>1 DEF IsRound
  <2> DEFINE d == c - start + 1
  <2>2. d \in 1..j /\ c = start + d - 1 /\ d \in 1..size BY <1>1, <1>3, <2>1
  <2>3. rows[d] = all[c] /\ j - d = (start + j - 1) - c BY <1>1, <1>2, <1>3, <2>2
  <2>4. ASSUME NEW k \in d + 1 .. j
        PROVE  rows[k].role = "tool" /\ rows[k].id = rows[d].calls[k - d].id
    <3>1. k \in 1..size /\ start + k - 1 \in c + 1 .. start + j - 1
          /\ (start + k - 1) - c = k - d
      BY <1>1, <1>3, <2>2
    <3> HIDE DEF d
    <3>2. rows[k] = all[start + k - 1] BY <1>2, <3>1
    <3>3. all[start + k - 1].role = "tool"
          /\ all[start + k - 1].id = all[c].calls[(start + k - 1) - c].id
      BY <1>4, <3>1 DEF IsRound
    <3>4. QED BY <2>3, <3>1, <3>2, <3>3
  <2> HIDE DEF d
  <2>5. d \in DOMAIN rows /\ j \in d..Len(rows) BY <1>2, <1>3, <2>2
  <2>6. IsRound(rows, d, j) BY <1>4, <2>3, <2>4, <2>5 DEF IsRound
  <2>7. QED BY <2>2, <2>3, <2>6
<1>5. ASSUME NEW j \in 1..size, Rests(all, start + j - 1)
      PROVE  Rests(rows, j)
  <2>1. rows[j] = all[start + j - 1] BY <1>2
  <2>2. CASE all[start + j - 1].role = "user" BY <2>1, <2>2 DEF Rests
  <2>3. CASE \E c \in 1..(start + j - 1) :
               IsRound(all, c, start + j - 1) /\ (start + j - 1) - c = Len(all[c].calls)
    <3>1. PICK c \in 1..(start + j - 1) :
               IsRound(all, c, start + j - 1) /\ (start + j - 1) - c = Len(all[c].calls)
      BY <2>3
    <3>2. PICK d \in 1..j : c = start + d - 1 /\ IsRound(rows, d, j) /\ rows[d] = all[c]
      BY <1>4, <3>1
    <3>3. j - d = (start + j - 1) - c BY <1>1, <1>3, <3>2
    <3>4. QED BY <3>1, <3>2, <3>3 DEF Rests
  <2>4. QED BY <1>5, <2>2, <2>3 DEF Rests
<1>6. ASSUME NEW j \in DOMAIN rows
      PROVE  /\ Shaped(rows[j])
             /\ rows[j].role = "tool" => \E c \in 1..(j - 1) : IsRound(rows, c, j)
             /\ rows[j].role = "assistant" => j > 1 /\ Rests(rows, j - 1)
  <2>1. j \in 1..size /\ rows[j] = all[start + j - 1] /\ start + j - 1 \in DOMAIN all
    BY <1>1, <1>2, <1>3
  <2>2. Shaped(rows[j]) BY <2>1 DEF IsLog
  <2>3. ASSUME rows[j].role = "tool"
        PROVE  \E c \in 1..(j - 1) : IsRound(rows, c, j)
    <3>1. PICK c \in 1..((start + j - 1) - 1) : IsRound(all, c, start + j - 1)
      BY <2>1, <2>3 DEF IsLog
    <3>2. c \in 1..(start + j - 1) /\ c < start + j - 1 BY <1>1, <1>3, <2>1, <3>1
    <3>3. PICK d \in 1..j : c = start + d - 1 /\ IsRound(rows, d, j)
      BY <1>4, <2>1, <3>1, <3>2
    <3>4. d \in 1..(j - 1) BY <1>1, <1>3, <2>1, <3>2, <3>3
    <3>5. QED BY <3>3, <3>4
  <2>4. ASSUME rows[j].role = "assistant"
        PROVE  j > 1 /\ Rests(rows, j - 1)
    <3>1. Rests(all, (start + j - 1) - 1) BY <2>1, <2>4 DEF IsLog
    <3>2. j # 1
      <4>1. j = 1 => start + j - 1 = start BY <1>1
      <4>2. QED BY <2>1, <2>4, <4>1
    <3>3. j > 1 /\ j - 1 \in 1..size /\ (start + j - 1) - 1 = start + (j - 1) - 1
      BY <1>1, <1>3, <2>1, <3>2
    <3>4. QED BY <1>5, <3>1, <3>3
  <2>5. QED BY <2>2, <2>3, <2>4
<1>7. IsLog(rows) BY <1>2, <1>6 DEF IsLog
<1>8. IsLog(rows) /\ Len(rows) = Len(all) - start + 1
  BY <1>2, <1>7 DEF size
<1>9. QED BY <1>2, <1>5, <1>8 DEF rows

-----------------------------------------------------------------------------
IsLastUser(rows, u) ==
    /\ u \in 1..Len(rows) /\ rows[u].role = "user"
    /\ \A k \in u + 1 .. Len(rows) : rows[k].role # "user"

LEMMA LastTurnIs ==
    ASSUME NEW rows \in Seq(Row)
    PROVE  /\ \A u \in 1..Len(rows) :
                IsLastUser(rows, u) => LastTurn(rows) = SubSeq(rows, u, Len(rows))
           /\ (\A k \in 1..Len(rows) : rows[k].role # "user") =>
                LastTurn(rows) = SubSeq(rows, 1, Len(rows))
<1> DEFINE I == {i \in 1..Len(rows) : rows[i].role = "user"}
           start == IF I # {} THEN Max(I) ELSE 0
<1>1. Len(rows) \in Nat OBVIOUS
<1>2. LastTurn(rows) = SubSeq(rows, IF start = 0 THEN 1 ELSE start, Len(rows))
  BY DEF LastTurn, SelectLastInSeq
<1>3. ASSUME NEW u \in 1..Len(rows), IsLastUser(rows, u)
      PROVE  start = u
  <2>1. u \in I /\ \A k \in I : u >= k
    <3>1. \A k \in I : k \notin u + 1 .. Len(rows) BY <1>3 DEF IsLastUser
    <3>2. QED BY <1>1, <1>3, <3>1 DEF IsLastUser
  <2>2. \A k \in I : k \in Nat OBVIOUS
  <2> HIDE DEF I
  <2>3. Max(I) \in I /\ \A k \in I : Max(I) >= k BY <2>1 DEF Max
  <2>4. Max(I) = u
    <3>1. PICK m \in I : m = Max(I) BY <2>3
    <3>2. m >= u /\ u >= m /\ m \in Nat /\ u \in Nat BY <2>1, <2>2, <2>3, <3>1
    <3>3. QED BY <3>1, <3>2
  <2>5. QED BY <2>1, <2>4
<1>4. ASSUME \A k \in 1..Len(rows) : rows[k].role # "user"
      PROVE  start = 0
  BY <1>4
<1> HIDE DEF start
<1>5. QED BY <1>2, <1>3, <1>4

LEMMA SuffixIntro ==
    ASSUME NEW s \in Seq(Row), NEW q \in Seq(Row), Len(s) <= Len(q),
           \A k \in 1..Len(s) : q[Len(q) - Len(s) + k] = s[k]
    PROVE  IsSuffix(s, q)
<1> DEFINE rs == Reverse(s)
           rq == Reverse(q)
<1>1. Len(s) \in Nat /\ Len(q) \in Nat /\ DOMAIN s = 1..Len(s) /\ DOMAIN q = 1..Len(q)
  OBVIOUS
<1>2. /\ rs \in [1..Len(s) -> Row] /\ rq \in [1..Len(q) -> Row]
      /\ \A i \in 1..Len(s) : rs[i] = s[(Len(s) - i) + 1]
      /\ \A i \in 1..Len(q) : rq[i] = q[(Len(q) - i) + 1]
  <2>1. \A i \in 1..Len(s) : (Len(s) - i) + 1 \in 1..Len(s) BY <1>1
  <2>2. \A i \in 1..Len(q) : (Len(q) - i) + 1 \in 1..Len(q) BY <1>1
  <2>3. QED BY <1>1, <2>1, <2>2 DEF Reverse
<1> HIDE DEF rs, rq
<1>3. rs \in Seq(Row) /\ rq \in Seq(Row) /\ Len(rs) = Len(s) /\ Len(rq) = Len(q)
  <2>1. \A n \in Nat : \A f \in [1..n -> Row] : f \in Seq(Row) /\ Len(f) = n OBVIOUS
  <2>2. QED BY <1>1, <1>2, <2>1
<1>4. \A i \in 1..Len(s) : rs[i] = rq[i]
  <2> TAKE i \in 1..Len(s)
  <2>1. /\ (Len(s) - i) + 1 \in 1..Len(s) /\ i \in 1..Len(q)
        /\ (Len(q) - i) + 1 = Len(q) - Len(s) + ((Len(s) - i) + 1)
    BY <1>1
  <2>2. QED BY <1>2, <2>1
<1>5. SubSeq(rs, 1, Len(s)) = SubSeq(rq, 1, Len(s)) BY <1>1, <1>3, <1>4
<1>6. IsPrefix(rs, rq) BY <1>3, <1>5 DEF IsPrefix
<1>7. QED BY <1>6 DEF IsSuffix, rs, rq

LEMMA Remainder ==
    ASSUME NEW T, NEW q \in Seq(T), NEW u \in 1..Len(q)
    PROVE  /\ SubSeq(q, u, Len(q)) \in Seq(T)
           /\ Len(SubSeq(q, u, Len(q))) = Len(q) - u + 1
           /\ \A k \in 1..(Len(q) - u + 1) : SubSeq(q, u, Len(q))[k] = q[u + k - 1]
OBVIOUS

\* A log begins with a user's row.
LEMMA LogBegins ==
    ASSUME NEW rows, IsLog(rows), Len(rows) >= 1
    PROVE  rows[1].role = "user"
<1>1. rows \in Seq(Row) /\ 1 \in DOMAIN rows BY DEF IsLog
<1>2. rows[1] \in Row BY <1>1
<1>3. rows[1].role \in {"user", "assistant", "tool"} BY <1>2, RowFields
<1>4. rows[1].role # "assistant" BY <1>1 DEF IsLog
<1>5. rows[1].role # "tool"
  <2>1. 1..(1 - 1) = {} OBVIOUS
  <2>2. QED BY <1>1, <2>1 DEF IsLog
<1>6. QED BY <1>3, <1>4, <1>5

\* What a round of sendMessage asks the model with.
LEMMA RequestIsGood ==
    ASSUME NEW all, IsLog(all)
    PROVE  LET request == toOpenAiMessages(loadHistory(all, MaxTurns))
           IN  /\ WellFormed(request)
               /\ Len(all) >= 1 /\ Rests(all, Len(all)) =>
                    IsSuffix(LastTurn(all), request)
<1> DEFINE rows == loadHistory(all, MaxTurns)
           request == toOpenAiMessages(rows)
<1>1. all \in Seq(Row) /\ Len(all) \in Nat /\ DOMAIN all = 1..Len(all) BY DEF IsLog
<1> HIDE DEF rows
<1>2. CASE \A i \in DOMAIN all : all[i].role # "user"
  <2>1. rows = all BY <1>1, <1>2, History DEF rows
  <2>2. ~(Len(all) >= 1) BY <1>1, <1>2, LogBegins
  <2>3. WellFormed(request) BY <2>1, RequestOfLog
  <2>4. QED BY <2>2, <2>3 DEF rows
<1>3. CASE ~\A i \in DOMAIN all : all[i].role # "user"
  <2>1. PICK start \in 1..Len(all) :
          /\ all[start].role = "user" /\ rows = SubSeq(all, start, Len(all))
          /\ \E u \in start..Len(all) :
               /\ all[u].role = "user"
               /\ \A j \in u + 1 .. Len(all) : all[j].role # "user"
    BY <1>1, <1>3, History DEF rows
  <2>2. PICK u \in start..Len(all) : IsLastUser(all, u)
    BY <1>1, <2>1 DEF IsLastUser
  <2>3. /\ IsLog(rows) /\ Len(rows) = Len(all) - start + 1
        /\ \A j \in 1..Len(rows) : rows[j] = all[start + j - 1]
        /\ \A j \in 1..Len(rows) : Rests(all, start + j - 1) => Rests(rows, j)
    BY <2>1, LaterLog
  <2>4. WellFormed(request) /\ request \in Seq(Row) BY <2>3, RequestOfLog
  <2>5. ASSUME Len(all) >= 1, Rests(all, Len(all))
        PROVE  IsSuffix(LastTurn(all), request)
    <3> DEFINE v == u - start + 1
    <3>1. /\ v \in 1..Len(rows) /\ start + v - 1 = u /\ start + Len(rows) - 1 = Len(all)
          /\ Len(rows) \in 1..Len(rows)
      BY <1>1, <2>1, <2>2, <2>3
    <3>2. rows[v].role = "user" BY <2>2, <2>3, <3>1 DEF IsLastUser
    <3>3. \A k \in v + 1 .. Len(rows) : rows[k].role # "user"
      <4> TAKE k \in v + 1 .. Len(rows)
      <4>1. k \in 1..Len(rows) /\ start + k - 1 \in u + 1 .. Len(all)
        BY <1>1, <2>1, <2>2, <2>3, <3>1
      <4>2. QED BY <2>2, <2>3, <4>1 DEF IsLastUser
    <3>4. Rests(rows, Len(rows)) BY <2>3, <2>5, <3>1
    <3>5. EndsWith(request, rows, v, Len(rows)) BY <2>3, <3>1, <3>2, <3>3, <3>4, RequestOfLog
    <3>6. LastTurn(all) = SubSeq(all, u, Len(all))
      <4>1. u \in 1..Len(all) BY <2>1, <2>2
      <4>2. QED BY <1>1, <2>2, <4>1, LastTurnIs
    <3>7. PICK turn \in Seq(Row) :
            /\ turn = LastTurn(all) /\ Len(turn) = Len(all) - u + 1
            /\ \A k \in 1..Len(turn) : turn[k] = all[u + k - 1]
      <4>1. u \in 1..Len(all) BY <2>1, <2>2
      <4>2. /\ SubSeq(all, u, Len(all)) \in Seq(Row)
            /\ Len(SubSeq(all, u, Len(all))) = Len(all) - u + 1
            /\ \A k \in 1..(Len(all) - u + 1) : SubSeq(all, u, Len(all))[k] = all[u + k - 1]
        BY <1>1, <4>1, Remainder
      <4>3. QED BY <3>6, <4>2, Zenon
    <3>sizes. PICK n \in Nat, m \in Nat : n = Len(rows) /\ m = Len(request)
      <4>1. rows \in Seq(Row) BY <2>3 DEF IsLog
      <4> HIDE DEF request
      <4>2. Len(rows) \in Nat /\ Len(request) \in Nat BY <2>4, <4>1
      <4>3. QED BY <4>2
    <3> HIDE DEF request, v
    <3>8. Len(turn) = Len(rows) - v + 1 /\ Len(turn) <= Len(request)
      <4>1. Len(turn) = Len(rows) - v + 1
        <5>1. start + v - 1 = u /\ start + n - 1 = Len(all) /\ v \in 1..n BY <3>1, <3>sizes
        <5>2. Len(turn) = Len(all) - u + 1 BY <3>7
        <5>3. Len(turn) = n - v + 1 BY <1>1, <5>1, <5>2
        <5>4. QED BY <3>sizes, <5>3
      <4>2. Len(rows) - v + 1 <= Len(request) BY <3>5 DEF EndsWith
      <4>3. QED BY <4>1, <4>2
    <3>9. \A k \in 1..Len(turn) : request[Len(request) - Len(turn) + k] = turn[k]
      <4> TAKE k \in 1..Len(turn)
      <4> DEFINE j == v + k - 1
      <4>1. /\ j \in v..Len(rows) /\ j \in 1..Len(rows) /\ start + j - 1 = u + k - 1
            /\ Len(request) - Len(turn) + k = Len(request) - (Len(rows) - j)
        <5>1. /\ Len(turn) = n - v + 1 /\ k \in 1..(n - v + 1) /\ v \in 1..n
              /\ start + v - 1 = u
          BY <3>1, <3>8, <3>sizes
        <5>2. start \in Nat /\ u \in Nat BY <1>1, <2>1
        <5>3. j \in v..n /\ j \in 1..n /\ start + j - 1 = u + k - 1
              /\ m - Len(turn) + k = m - (n - j)
          BY <3>sizes, <5>1, <5>2
        <5>4. QED BY <3>sizes, <5>3
      <4>2. request[Len(request) - (Len(rows) - j)] = rows[j] BY <3>5, <4>1 DEF EndsWith
      <4>3. rows[j] = all[start + j - 1] BY <2>3, <4>1
      <4>4. QED BY <3>7, <4>1, <4>2, <4>3
    <3>10. QED BY <2>4, <3>7, <3>8, <3>9, SuffixIntro DEF request
  <2>6. QED BY <2>4, <2>5 DEF rows
<1>4. QED BY <1>2, <1>3

-----------------------------------------------------------------------------
\* One caller at a time.
OneSender == \A s, t \in Senders : s = t

\* The row the last one of the conversation belongs to, and the calls of its
\* round that are left to answer.
AnswersLeft(rows, c, calls) ==
    /\ IsRound(rows, c, Len(rows)) /\ Len(rows) - c < Len(rows[c].calls)
    /\ calls = SubSeq(rows[c].calls, Len(rows) - c + 1, Len(rows[c].calls))

\* Where a call of sendMessage stands in its turn.
Standing(s) ==
    /\ sender[s].pc # "idle" /\ exists =>
         /\ Len(messages) >= 1
         /\ sender[s].pc \in InRound =>
              \E c \in 1..Len(messages) : AnswersLeft(messages, c, sender[s].calls)
         /\ sender[s].pc \notin InRound => Rests(messages, Len(messages))
    /\ sender[s].pc = "completion" => WellFormed(sender[s].request)
    /\ sender[s].pc = "completion" /\ exists =>
         IsSuffix(LastTurn(messages), sender[s].request)

TurnInv == IsLog(messages) /\ \A s \in Senders : Standing(s)

\* Rows before the one appended stay what they were.
LEMMA EarlierRounds ==
    ASSUME NEW rows \in Seq(Row), NEW row \in Row, NEW j \in 1..Len(rows)
    PROVE  /\ \A c \in 1..j : IsRound(rows, c, j) => IsRound(Append(rows, row), c, j)
           /\ Rests(rows, j) => Rests(Append(rows, row), j)
<1> DEFINE more == Append(rows, row)
<1>1. /\ more \in Seq(Row) /\ Len(more) = Len(rows) + 1 /\ Len(rows) \in Nat
      /\ \A i \in 1..Len(rows) : more[i] = rows[i]
  BY Appended
<1>2. DOMAIN rows = 1..Len(rows) /\ DOMAIN more = 1..(Len(rows) + 1) BY <1>1
<1> HIDE DEF more
<1>3. ASSUME NEW c \in 1..j, IsRound(rows, c, j)
      PROVE  IsRound(more, c, j) /\ more[c] = rows[c]
  <2>1. c \in DOMAIN more /\ j \in c..Len(more) /\ more[c] = rows[c] BY <1>1, <1>2
  <2>2. \A k \in c + 1 .. j : more[k] = rows[k] BY <1>1
  <2>3. QED BY <1>3, <2>1, <2>2 DEF IsRound
<1>4. more[j] = rows[j] BY <1>1
<1>5. Rests(rows, j) => Rests(more, j) BY <1>3, <1>4 DEF Rests
<1>6. QED BY <1>3, <1>5 DEF more

LEMMA LongerLog ==
    ASSUME NEW rows, IsLog(rows), NEW row \in Row, Shaped(row),
           row.role = "tool" =>
               \E c \in 1..Len(rows) : IsRound(Append(rows, row), c, Len(rows) + 1),
           row.role = "assistant" => Len(rows) >= 1 /\ Rests(rows, Len(rows))
    PROVE  IsLog(Append(rows, row))
<1> DEFINE more == Append(rows, row)
<1>1. /\ more \in Seq(Row) /\ Len(more) = Len(rows) + 1 /\ Len(rows) \in Nat
      /\ \A i \in 1..Len(rows) : more[i] = rows[i]
      /\ more[Len(rows) + 1] = row /\ rows \in Seq(Row)
  BY Appended DEF IsLog
<1>2. DOMAIN rows = 1..Len(rows) /\ DOMAIN more = 1..(Len(rows) + 1) BY <1>1
<1>3. \A j \in 1..Len(rows) : /\ \A c \in 1..j : IsRound(rows, c, j) => IsRound(more, c, j)
                              /\ Rests(rows, j) => Rests(more, j)
  BY <1>1, EarlierRounds
<1> HIDE DEF more
<1>4. ASSUME NEW j \in DOMAIN more
      PROVE  /\ Shaped(more[j])
             /\ more[j].role = "tool" => \E c \in 1..(j - 1) : IsRound(more, c, j)
             /\ more[j].role = "assistant" => j > 1 /\ Rests(more, j - 1)
  <2>1. CASE j \in 1..Len(rows)
    <3>1. more[j] = rows[j] /\ j \in DOMAIN rows BY <1>1, <1>2, <2>1
    <3>2. Shaped(rows[j]) BY <3>1 DEF IsLog
    <3>3. ASSUME rows[j].role = "tool"
          PROVE  \E c \in 1..(j - 1) : IsRound(more, c, j)
      <4>1. PICK c \in 1..(j - 1) : IsRound(rows, c, j) BY <3>1, <3>3 DEF IsLog
      <4>2. c \in 1..j BY <2>1, <4>1, <1>1
      <4>3. QED BY <1>3, <2>1, <4>1, <4>2
    <3>4. ASSUME rows[j].role = "assistant"
          PROVE  j > 1 /\ Rests(more, j - 1)
      <4>1. j > 1 /\ Rests(rows, j - 1) BY <3>1, <3>4 DEF IsLog
      <4>2. j - 1 \in 1..Len(rows) BY <1>1, <2>1, <4>1
      <4>3. QED BY <1>3, <4>1, <4>2
    <3>5. QED BY <3>1, <3>2, <3>3, <3>4
  <2>2. CASE j = Len(rows) + 1
    <3>1. more[j] = row /\ j - 1 = Len(rows) BY <1>1, <2>2
    <3>2. row.role = "assistant" => j > 1 /\ Rests(more, j - 1)
      <4> SUFFICES ASSUME row.role = "assistant" PROVE j > 1 /\ Rests(more, j - 1)
        OBVIOUS
      <4>1. Len(rows) \in 1..Len(rows) BY <1>1
      <4>2. QED BY <1>1, <1>3, <2>2, <3>1, <4>1
    <3>3. QED BY <2>2, <3>1, <3>2 DEF more
  <2>3. QED BY <1>1, <1>2, <2>1, <2>2
<1>5. IsLog(more) BY <1>1, <1>4 DEF IsLog
<1>6. QED BY <1>5 DEF more

\* After a question, the assistant may speak.
LEMMA LogAfterUser ==
    ASSUME NEW rows, IsLog(rows)
    PROVE  LET more == Append(rows, UserRow)
           IN  IsLog(more) /\ Len(more) >= 1 /\ Rests(more, Len(more))
<1> DEFINE more == Append(rows, UserRow)
<1>1. UserRow \in Row /\ rows \in Seq(Row) BY RowTypes DEF IsLog
<1>2. Shaped(UserRow) /\ UserRow.role = "user" BY DEF Shaped, UserRow, AsksOnce
<1>3. Len(more) = Len(rows) + 1 /\ Len(rows) \in Nat /\ more[Len(rows) + 1] = UserRow
  BY <1>1, Appended
<1>4. IsLog(more)
  <2>1. UserRow.role # "tool" /\ UserRow.role # "assistant" BY <1>2
  <2>2. QED BY <1>1, <1>2, <2>1, LongerLog
<1>5. Rests(more, Len(more)) BY <1>2, <1>3 DEF Rests
<1>6. QED BY <1>3, <1>4, <1>5

\* After the assistant's calls, all of them are left to answer.
LEMMA LogAfterCalls ==
    ASSUME NEW rows, IsLog(rows), Len(rows) >= 1, Rests(rows, Len(rows)),
           NEW calls \in Seq(Call), calls # <<>>, AsksOnce(calls)
    PROVE  LET more == Append(rows, CallsRow(calls))
           IN  /\ IsLog(more) /\ Len(more) >= 1
               /\ \E c \in 1..Len(more) : AnswersLeft(more, c, calls)
<1> DEFINE row == CallsRow(calls)
           more == Append(rows, row)
<1>1. row \in Row /\ rows \in Seq(Row) BY RowTypes DEF IsLog
<1>2. row.role = "assistant" /\ row.calls = calls /\ Shaped(row) BY DEF Shaped, CallsRow
<1> HIDE DEF row
<1>3. /\ Len(more) = Len(rows) + 1 /\ Len(rows) \in Nat /\ more[Len(rows) + 1] = row
      /\ more \in Seq(Row)
  BY <1>1, Appended
<1>4. IsLog(more)
  <2>1. row.role # "tool" BY <1>2
  <2>2. QED BY <1>1, <1>2, <2>1, LongerLog
<1> DEFINE c == Len(more)
<1> HIDE DEF more
<1>5. c \in DOMAIN more /\ c \in 1..Len(more) /\ more[c] = row /\ c \in Nat BY <1>3
<1>6. Len(calls) \in Nat /\ Len(calls) > 0 /\ SubSeq(calls, 1, Len(calls)) = calls
  OBVIOUS
<1>7. AnswersLeft(more, c, calls)
  <2>1. IsRound(more, c, c)
    <3>1. c \in c..c /\ c - c = 0 /\ \A k \in c + 1 .. c : FALSE BY <1>5
    <3>2. QED BY <1>2, <1>5, <1>6, <3>1 DEF IsRound
  <2>2. c - c + 1 = 1 /\ c - c < Len(calls) BY <1>5, <1>6
  <2>3. QED BY <1>2, <1>5, <1>6, <2>1, <2>2 DEF AnswersLeft
<1>8. QED BY <1>3, <1>4, <1>5, <1>7 DEF more, row

\* After an answer, the others are left, or the assistant may speak.
LEMMA LogAfterTool ==
    ASSUME NEW rows, IsLog(rows), NEW calls \in Seq(Call), calls # <<>>,
           NEW c \in 1..Len(rows), AnswersLeft(rows, c, calls), NEW ran \in BOOLEAN
    PROVE  LET more == Append(rows, ToolRow(Head(calls).id, ran))
           IN  /\ IsLog(more) /\ Len(more) >= 1
               /\ Tail(calls) # <<>> => AnswersLeft(more, c, Tail(calls))
               /\ Tail(calls) = <<>> => Rests(more, Len(more))
<1> DEFINE row == ToolRow(Head(calls).id, ran)
           more == Append(rows, row)
<1>1. Head(calls) = calls[1] /\ Head(calls) \in Call /\ Head(calls).id \in Nat
  BY FirstCall DEF Call
<1>2. row \in Row /\ rows \in Seq(Row) BY <1>1, RowTypes DEF IsLog
<1>3. row.role = "tool" /\ row.id = Head(calls).id /\ Shaped(row)
  BY DEF Shaped, ToolRow, AsksOnce
<1> HIDE DEF row
<1>4. /\ Len(more) = Len(rows) + 1 /\ Len(rows) \in Nat /\ more[Len(rows) + 1] = row
      /\ more \in Seq(Row) /\ \A i \in 1..Len(rows) : more[i] = rows[i]
  BY <1>2, Appended
<1> HIDE DEF more
<1>5. PICK n \in Nat : n = Len(rows) BY <1>4
<1>6. c \in DOMAIN rows /\ rows[c] \in Row /\ more[c] = rows[c] /\ c \in 1..n
  BY <1>2, <1>4, <1>5
<1>7. PICK all \in Seq(Call) : all = rows[c].calls BY <1>6, RowFields
<1>8. /\ IsRound(rows, c, n) /\ n - c < Len(all)
      /\ calls = SubSeq(all, n - c + 1, Len(all))
  BY <1>5, <1>7 DEF AnswersLeft
<1>9. PICK m \in Nat : m = n - c + 1 /\ m \in 1..Len(all) BY <1>6, <1>8
<1>10. Head(calls) = all[m] /\ Tail(calls) = SubSeq(all, m + 1, Len(all))
       /\ (Tail(calls) = <<>> <=> m = Len(all))
  <2>1. /\ Len(calls) = Len(all) - m + 1
        /\ \A k \in 1..(Len(all) - m + 1) : calls[k] = all[m + k - 1]
    BY <1>8, <1>9, Remainder
  <2>2. Head(calls) = all[m]
    <3>1. 1 \in 1..(Len(all) - m + 1) /\ m + 1 - 1 = m BY <1>9
    <3>2. QED BY <1>1, <2>1, <3>1
  <2>3. Tail(calls) = SubSeq(all, m + 1, Len(all))
    <3>1. calls = SubSeq(all, m, Len(all)) BY <1>8, <1>9
    <3>2. QED BY <1>9, <3>1
  <2>4. Tail(calls) = <<>> <=> m = Len(all)
    <3>1. Len(Tail(calls)) = Len(calls) - 1 /\ Tail(calls) \in Seq(Call) BY FirstCall
    <3>2. PICK rest \in Seq(Call) : rest = Tail(calls) BY <3>1
    <3>3. rest = <<>> <=> Len(rest) = 0 OBVIOUS
    <3>4. Len(calls) - 1 = 0 <=> m = Len(all)
      <4>1. PICK k \in Nat : k = Len(all) OBVIOUS
      <4>2. Len(calls) = k - m + 1 BY <2>1, <4>1
      <4>3. Len(calls) - 1 = 0 <=> m = k BY <1>9, <4>1, <4>2
      <4>4. QED BY <4>1, <4>3
    <3>5. QED BY <3>1, <3>2, <3>3, <3>4
  <2>5. QED BY <2>2, <2>3, <2>4
<1>11. IsRound(more, c, n + 1)
  <2>1. c \in DOMAIN more /\ n + 1 \in c..Len(more) /\ (n + 1) - c = m
    BY <1>4, <1>5, <1>6, <1>9
  <2>2. more[c].role = "assistant" /\ more[c].calls # <<>> /\ m <= Len(more[c].calls)
        /\ more[c].calls = all
    BY <1>6, <1>7, <1>8, <1>9 DEF IsRound
  <2>3. ASSUME NEW k \in c + 1 .. n + 1
        PROVE  more[k].role = "tool" /\ more[k].id = all[k - c].id
    <3>1. CASE k = n + 1
      <4>1. more[k] = row /\ k - c = m BY <1>4, <1>5, <2>1, <3>1
      <4>2. QED BY <1>3, <1>10, <4>1
    <3>2. CASE k # n + 1
      <4>1. k \in c + 1 .. n /\ k \in 1..n BY <1>6, <3>2
      <4>2. rows[k].role = "tool" /\ rows[k].id = all[k - c].id
        BY <1>7, <1>8, <4>1 DEF IsRound
      <4>3. QED BY <1>4, <1>5, <4>1, <4>2
    <3>3. QED BY <3>1, <3>2
  <2>4. QED BY <2>1, <2>2, <2>3 DEF IsRound
<1>12. IsLog(more)
  <2>1. \E d \in 1..Len(rows) : IsRound(Append(rows, row), d, Len(rows) + 1)
    BY <1>5, <1>6, <1>11 DEF more
  <2>2. row.role # "assistant" BY <1>3
  <2>3. QED BY <1>2, <1>3, <2>1, <2>2, LongerLog DEF more
<1>13. Len(more) = n + 1 /\ more[c].calls = all /\ (n + 1) - c = m
  BY <1>4, <1>5, <1>6, <1>7, <1>9
<1>14. ASSUME Tail(calls) # <<>>
       PROVE  AnswersLeft(more, c, Tail(calls))
  <2>1. m < Len(all) BY <1>9, <1>10, <1>14
  <2>2. QED BY <1>10, <1>11, <1>13, <2>1 DEF AnswersLeft
<1>15. ASSUME Tail(calls) = <<>>
       PROVE  Rests(more, Len(more))
  <2>1. c \in 1..Len(more) BY <1>4, <1>5, <1>6
  <2>2. QED BY <1>10, <1>11, <1>13, <1>15, <2>1 DEF Rests
<1>16. QED BY <1>4, <1>12, <1>14, <1>15 DEF more, row

LEMMA LogAfterReply ==
    ASSUME NEW rows, IsLog(rows), Len(rows) >= 1, Rests(rows, Len(rows))
    PROVE  IsLog(Append(rows, ReplyRow))
<1>1. ReplyRow \in Row BY RowTypes
<1>2. ReplyRow.role = "assistant" /\ Shaped(ReplyRow)
  BY DEF Shaped, ReplyRow, CallsRow, AsksOnce
<1>3. ReplyRow.role # "tool" BY <1>2
<1>4. QED BY <1>1, <1>2, <1>3, LongerLog

-----------------------------------------------------------------------------
\* Operators without state, of the next state.
LEMMA NextTurn ==
    /\ IsLog(messages') => IsLog(messages)'
    /\ LastTurn(messages)' = LastTurn(messages')
    /\ \A s \in Senders : WellFormed(sender'[s].request) => WellFormed(sender[s].request)'
    /\ \A c, calls : AnswersLeft(messages', c, calls) => AnswersLeft(messages, c, calls)'
    /\ Rests(messages', Len(messages')) => Rests(messages, Len(messages))'
<1>1. IsLog(messages') => IsLog(messages)'
  BY DEF IsLog, Shaped, AsksOnce, IsRound, Rests
<1>2. LastTurn(messages)' = LastTurn(messages') BY DEF LastTurn, SelectLastInSeq
<1>3. \A s \in Senders : WellFormed(sender'[s].request) => WellFormed(sender[s].request)'
  BY DEF WellFormed, AnswersOf, CallIds, ToSet
<1>4. \A c, calls : AnswersLeft(messages', c, calls) => AnswersLeft(messages, c, calls)'
  BY DEF AnswersLeft, IsRound
<1>5. Rests(messages', Len(messages')) => Rests(messages, Len(messages))'
  BY DEF Rests, IsRound
<1>6. QED BY <1>1, <1>2, <1>3, <1>4, <1>5

\* What has to be seen of the one call of sendMessage that moved.
LEMMA Stands ==
    ASSUME OneSender, NEW s \in Senders, IsLog(messages'),
           sender'[s].pc # "idle" /\ exists' =>
             /\ Len(messages') >= 1
             /\ sender'[s].pc \in InRound =>
                  \E c \in 1..Len(messages') : AnswersLeft(messages', c, sender'[s].calls)
             /\ sender'[s].pc \notin InRound => Rests(messages', Len(messages')),
           sender'[s].pc = "completion" => WellFormed(sender'[s].request),
           sender'[s].pc = "completion" /\ exists' =>
             IsSuffix(LastTurn(messages'), sender'[s].request)
    PROVE  TurnInv'
<1>1. Standing(s)'
  BY NextTurn DEF Standing, InRound, IsSuffix
<1>2. QED BY <1>1, NextTurn DEF TurnInv, OneSender

LEMMA StandsIdle ==
    ASSUME OneSender, NEW s \in Senders, IsLog(messages'), sender'[s] = Idle
    PROVE  TurnInv'
<1>1. sender'[s].pc = "idle" BY DEF Idle
<1>2. QED BY <1>1, Stands

\* What a call that stands somewhere stands on.
LEMMA StandsOn ==
    ASSUME TurnInv, NEW s \in Senders, sender[s].pc # "idle", exists
    PROVE  /\ IsLog(messages) /\ Len(messages) >= 1
           /\ sender[s].pc \in InRound =>
                \E c \in 1..Len(messages) : AnswersLeft(messages, c, sender[s].calls)
           /\ sender[s].pc \notin InRound => Rests(messages, Len(messages))
BY DEF TurnInv, Standing

LEMMA SendTurn ==
    ASSUME OneSender, Types, TurnInv, NEW s \in Senders, Send(s)
    PROVE  TurnInv'
<1>1. messages' = Append(messages, UserRow) /\ sender'[s].pc = "prepare"
  BY SendSteps DEF Appends, Idle
<1>2. IsLog(messages') /\ Len(messages') >= 1 /\ Rests(messages', Len(messages'))
  BY <1>1, LogAfterUser DEF TurnInv
<1>3. QED BY <1>1, <1>2, Stands DEF InRound

\* Steps that append nothing and build no request.
LEMMA QuietTurn ==
    ASSUME OneSender, Types, TurnInv, NEW s \in Senders,
           UNCHANGED <<exists, messages>>, sender[s].pc # "idle",
           sender'[s].pc # "completion", sender'[s].calls = sender[s].calls,
           sender'[s].pc \in InRound <=> sender[s].pc \in InRound
    PROVE  TurnInv'
<1>1. IsLog(messages') BY DEF TurnInv
<1>2. QED BY <1>1, StandsOn, Stands

LEMMA PrepareTurn ==
    ASSUME OneSender, Types, TurnInv, NEW s \in Senders, Prepare(s)
    PROVE  TurnInv'
<1>1. /\ UNCHANGED <<exists, messages>> /\ sender[s].pc = "prepare"
      /\ sender'[s].pc = "loadHistory" /\ sender'[s].calls = sender[s].calls
  BY PrepareSteps
<1>2. QED BY <1>1, QuietTurn DEF InRound

LEMMA LoadHistoryTurn ==
    ASSUME OneSender, Types, TurnInv, NEW s \in Senders, LoadHistory(s)
    PROVE  TurnInv'
<1>1. /\ UNCHANGED <<exists, messages>> /\ sender[s].pc = "loadHistory"
      /\ sender'[s].pc = "completion"
      /\ sender'[s].request = toOpenAiMessages(loadHistory(messages, MaxTurns))
  BY LoadHistorySteps
<1>2. IsLog(messages) /\ IsLog(messages') BY <1>1 DEF TurnInv
<1>3. exists => Len(messages) >= 1 /\ Rests(messages, Len(messages))
  BY <1>1, StandsOn DEF InRound
<1>4. WellFormed(sender'[s].request) BY <1>1, <1>2, RequestIsGood
<1>5. exists => IsSuffix(LastTurn(messages), sender'[s].request)
  BY <1>1, <1>2, <1>3, RequestIsGood
<1>6. QED BY <1>1, <1>2, <1>3, <1>4, <1>5, Stands DEF InRound

LEMMA CompletionTextTurn ==
    ASSUME OneSender, Types, TurnInv, NEW s \in Senders, CompletionText(s)
    PROVE  TurnInv'
<1>1. /\ UNCHANGED <<exists, messages>> /\ sender[s].pc = "completion"
      /\ sender'[s].pc = "appendReply" /\ sender'[s].calls = sender[s].calls
  BY CompletionTextSteps
<1>2. QED BY <1>1, QuietTurn DEF InRound

LEMMA CompletionCallsTurn ==
    ASSUME OneSender, Types, TurnInv, NEW s \in Senders, CompletionCalls(s)
    PROVE  TurnInv'
<1>1. /\ UNCHANGED <<exists, messages>> /\ sender[s].pc = "completion"
      /\ sender'[s].pc = "appendCalls"
  BY CompletionCallsSteps
<1>2. IsLog(messages') BY <1>1 DEF TurnInv
<1>3. QED BY <1>1, <1>2, StandsOn, Stands DEF InRound

LEMMA AppendCallsTurn ==
    ASSUME OneSender, Types, CallInv, TurnInv, NEW s \in Senders, AppendCalls(s)
    PROVE  TurnInv'
<1>1. /\ sender[s].pc = "appendCalls" /\ exists' = exists
      /\ Appends(s, CallsRow(sender[s].calls))
      /\ exists => sender'[s].pc = "executeTool" /\ sender'[s].calls = sender[s].calls
  BY AppendCallsSteps
<1>2. CASE ~exists
  <2>1. IsLog(messages') /\ sender'[s] = Idle BY <1>1, <1>2 DEF Appends, TurnInv
  <2>2. QED BY <2>1, StandsIdle
<1>3. CASE exists
  <2>1. IsLog(messages) /\ Len(messages) >= 1 /\ Rests(messages, Len(messages))
    BY <1>1, <1>3, StandsOn DEF InRound
  <2>2. sender[s].calls \in Seq(Call)
    <3>1. sender[s] \in Sender BY DEF Types
    <3>2. QED BY <3>1 DEF Sender
  <2>3. sender[s].calls # <<>> /\ AsksOnce(sender[s].calls)
    BY <1>1 DEF CallInv, CallsHold, Asking
  <2>4. messages' = Append(messages, CallsRow(sender[s].calls))
    BY <1>1, <1>3 DEF Appends
  <2>5. /\ IsLog(messages') /\ Len(messages') >= 1
        /\ \E c \in 1..Len(messages') : AnswersLeft(messages', c, sender'[s].calls)
    BY <1>1, <1>3, <2>1, <2>2, <2>3, <2>4, LogAfterCalls
  <2>6. QED BY <1>1, <1>3, <2>5, Stands DEF InRound
<1>4. QED BY <1>2, <1>3 DEF Types

LEMMA ToolTurn ==
    ASSUME OneSender, Types, TurnInv, NEW s \in Senders,
           ExecuteTool(s) \/ RecordToolUsage(s)
    PROVE  TurnInv'
<1>1. CASE ExecuteTool(s)
  <2>1. /\ UNCHANGED <<exists, messages>> /\ sender[s].pc = "executeTool"
        /\ sender'[s].pc \in {"recordUsage", "appendTool"}
        /\ sender'[s].calls = sender[s].calls
    BY <1>1, ExecuteToolSteps
  <2>2. QED BY <2>1, QuietTurn DEF InRound
<1>2. CASE RecordToolUsage(s)
  <2>1. /\ UNCHANGED <<exists, messages>> /\ sender[s].pc = "recordUsage"
        /\ sender'[s].pc = "appendTool" /\ sender'[s].calls = sender[s].calls
    BY <1>2, RecordToolUsageSteps
  <2>2. QED BY <2>1, QuietTurn DEF InRound
<1>3. QED BY <1>1, <1>2

LEMMA AppendToolTurn ==
    ASSUME OneSender, Types, CallInv, TurnInv, NEW s \in Senders, AppendTool(s)
    PROVE  TurnInv'
<1>1. sender[s].pc = "appendTool" /\ sender[s].calls # <<>>
  BY DEF AppendTool, CallInv, CallsHold, Asking, InRound
<1>2. /\ exists' = exists
      /\ Appends(s, ToolRow(Head(sender[s].calls).id, sender[s].ran))
      /\ exists => /\ sender'[s].calls = Tail(sender[s].calls)
                   /\ sender'[s].pc \in IF sender'[s].calls = <<>>
                                        THEN {"loadHistory", "appendReply"}
                                        ELSE {"executeTool"}
  BY <1>1, AppendToolSteps
<1>3. CASE ~exists
  <2>1. IsLog(messages') /\ sender'[s] = Idle BY <1>2, <1>3 DEF Appends, TurnInv
  <2>2. QED BY <2>1, StandsIdle
<1>4. CASE exists
  <2>1. IsLog(messages) BY DEF TurnInv
  <2>2. PICK c \in 1..Len(messages) : AnswersLeft(messages, c, sender[s].calls)
    BY <1>1, <1>4, StandsOn DEF InRound
  <2>3. sender[s].calls \in Seq(Call) /\ sender[s].ran \in BOOLEAN
    <3>1. sender[s] \in Sender BY DEF Types
    <3>2. QED BY <3>1 DEF Sender
  <2>4. messages' = Append(messages, ToolRow(Head(sender[s].calls).id, sender[s].ran))
    BY <1>2, <1>4 DEF Appends
  <2>5. /\ IsLog(messages') /\ Len(messages') >= 1
        /\ Tail(sender[s].calls) # <<>> => AnswersLeft(messages', c, Tail(sender[s].calls))
        /\ Tail(sender[s].calls) = <<>> => Rests(messages', Len(messages'))
    BY <1>1, <2>1, <2>2, <2>3, <2>4, LogAfterTool
  <2>6. c \in 1..Len(messages')
    <3>1. Len(messages') = Len(messages) + 1 /\ Len(messages) \in Nat
      <4>1. Head(sender[s].calls).id \in Nat BY <1>1, <2>3, FirstCall DEF Call
      <4>2. ToolRow(Head(sender[s].calls).id, sender[s].ran) \in Row
        BY <2>3, <4>1, RowTypes
      <4>3. QED BY <2>4, <4>2, Appended DEF Types
    <3>2. QED BY <3>1
  <2>7. QED BY <1>2, <1>4, <2>5, <2>6, Stands DEF InRound
<1>5. QED BY <1>3, <1>4 DEF Types

LEMMA AppendReplyTurn ==
    ASSUME OneSender, Types, TurnInv, NEW s \in Senders, AppendReply(s)
    PROVE  TurnInv'
<1>1. sender[s].pc = "appendReply" /\ Appends(s, ReplyRow) /\ sender'[s] = Idle
  BY AppendReplySteps
<1>2. IsLog(messages')
  <2>1. CASE ~exists BY <1>1, <2>1 DEF Appends, TurnInv
  <2>2. CASE exists
    <3>1. IsLog(messages) /\ Len(messages) >= 1 /\ Rests(messages, Len(messages))
      BY <1>1, <2>2, StandsOn DEF InRound
    <3>2. QED BY <1>1, <2>2, <3>1, LogAfterReply DEF Appends
  <2>3. QED BY <2>1, <2>2 DEF Types
<1>3. QED BY <1>1, <1>2, StandsIdle

LEMMA AbortTurn ==
    ASSUME OneSender, Types, TurnInv, NEW s \in Senders, Abort(s)
    PROVE  TurnInv'
<1>1. IsLog(messages') /\ sender'[s] = Idle BY AbortSteps DEF TurnInv
<1>2. QED BY <1>1, StandsIdle

LEMMA EmptyLog == IsLog(<<>>)
<1>1. <<>> \in Seq(Row) /\ DOMAIN <<>> = {} OBVIOUS
<1>2. QED BY <1>1 DEF IsLog

LEMMA DeleteTurn ==
    ASSUME TurnInv, DeleteConversation
    PROVE  TurnInv'
<1>1. messages' = <<>> /\ exists' = FALSE /\ sender' = sender BY DEF DeleteConversation
<1>2. IsLog(messages') BY <1>1, EmptyLog
<1>3. \A s \in Senders : Standing(s)'
  <2> TAKE s \in Senders
  <2>1. sender[s].pc = "completion" => WellFormed(sender'[s].request)
    BY <1>1 DEF TurnInv, Standing
  <2>2. QED BY <1>1, <2>1, NextTurn DEF Standing
<1>4. QED BY <1>2, <1>3, NextTurn DEF TurnInv

LEMMA InitTurn == Init => TurnInv
<1> SUFFICES ASSUME Init PROVE TurnInv OBVIOUS
<1>1. messages = <<>> /\ \A s \in Senders : sender[s].pc = "idle" BY DEF Init, Idle
<1>2. QED BY <1>1, EmptyLog DEF TurnInv, Standing

LEMMA NextTurnInv ==
    ASSUME OneSender, Types, CallInv, TurnInv, [Next]_vars
    PROVE  TurnInv'
<1>1. CASE UNCHANGED vars
  <2>1. IsLog(messages') /\ UNCHANGED <<exists, messages, sender>> BY <1>1 DEF vars, TurnInv
  <2>2. \A s \in Senders : Standing(s)' BY <2>1, NextTurn DEF TurnInv, Standing, IsSuffix
  <2>3. QED BY <2>1, <2>2, NextTurn DEF TurnInv
<1>2. CASE DeleteConversation BY <1>2, DeleteTurn
<1>3. ASSUME NEW s \in Senders,
             \/ Send(s) \/ Prepare(s) \/ LoadHistory(s)
             \/ CompletionText(s) \/ CompletionCalls(s) \/ AppendCalls(s)
             \/ ExecuteTool(s) \/ RecordToolUsage(s) \/ AppendTool(s)
             \/ AppendReply(s) \/ Abort(s)
      PROVE  TurnInv'
  BY <1>3, SendTurn, PrepareTurn, LoadHistoryTurn, CompletionTextTurn, CompletionCallsTurn,
     AppendCallsTurn, ToolTurn, AppendToolTurn, AppendReplyTurn, AbortTurn
<1>4. QED BY <1>1, <1>2, <1>3 DEF Next

LEMMA TurnAlways ==
    ASSUME OneSender
    PROVE  Spec => [](Types /\ CallInv /\ TurnInv)
<1>1. Types /\ CallInv /\ TurnInv /\ [Next]_vars => TurnInv' BY NextTurnInv
<1>2. QED BY <1>1, InitTurn, InitCalls, NextCalls, PTL DEF Spec

\* While one call of sendMessage at a time works on the conversation, every
\* request is one OpenAI accepts: for any history that turns abandoned
\* anywhere may have left, any number of turns kept of it, and any rounds.
THEOREM RequestsStayWellFormed ==
    ASSUME OneSender
    PROVE  Spec => []RequestsWellFormed
<1>1. TurnInv => RequestsWellFormed BY DEF TurnInv, Standing, RequestsWellFormed
<1>2. QED BY <1>1, TurnAlways, PTL

\* And the request ends with the whole turn it is made for.
THEOREM RequestsKeepTurn ==
    ASSUME OneSender
    PROVE  Spec => []RequestKeepsTurn
<1>1. TurnInv => RequestKeepsTurn BY DEF TurnInv, Standing, RequestKeepsTurn
<1>2. QED BY <1>1, TurnAlways, PTL

-----------------------------------------------------------------------------
\* The rows that are stored and not told of.
Owing == {owed[s] : s \in Senders} \ {0}

AnswerAt(rows, n) == rows[n].role = "tool" \/ rows[n] = ReplyRow

\* What a socket in the room has heard, missed and has yet to hear.
Follows(known, rows, owing) ==
    /\ \A i, j \in DOMAIN known.heard : i < j => known.heard[i] < known.heard[j]
    /\ ToSet(known.heard) =
         {n \in known.from + 1 .. Len(rows) :
             AnswerAt(rows, n) /\ n \notin known.missed /\ n \notin owing}
    /\ known.from <= Len(rows) /\ known.missed \subseteq 1..Len(rows)
    /\ \A n \in owing : known.from < n /\ n \notin known.missed

\* Only the last row can be owed to the room, and it is an answer.
TellInv ==
    /\ exists => Owing \subseteq {Len(messages)} /\ \A n \in Owing : AnswerAt(messages, n)
    /\ \A c \in Sockets :
         /\ socket[c].room = FALSE => socket[c].heard = <<>> /\ socket[c].missed = {}
         /\ socket[c].room = TRUE /\ exists => Follows(socket[c], messages, Owing)

LEMMA SocketFields ==
    ASSUME NEW known \in Socket
    PROVE  /\ known.heard \in Seq(Nat) /\ known.from \in Nat /\ known.missed \in SUBSET Nat
           /\ known.room \in BOOLEAN
BY DEF Socket

\* A socket that joins has heard of nothing, and all it has yet to hear of is
\* the row that is owed.
LEMMA JoinFollows ==
    ASSUME NEW rows \in Seq(Row), NEW known \in Socket,
           known.heard = <<>>, known.missed = {}, NEW owing, owing \subseteq {Len(rows)},
           0 \notin owing, known.from = IF owing = {} THEN Len(rows) ELSE Len(rows) - 1
    PROVE  Follows(known, rows, owing)
<1>1. PICK size \in Nat : size = Len(rows) OBVIOUS
<1>2. ToSet(known.heard) = {} /\ DOMAIN known.heard = {} BY DEF ToSet
<1>3. CASE owing = {}
  <2>1. known.from = size BY <1>1, <1>3
  <2>2. known.from + 1 .. size = {} BY <2>1
  <2>3. QED BY <1>1, <1>2, <1>3, <2>1, <2>2 DEF Follows
<1>4. CASE owing # {}
  <2>1. owing = {size} /\ known.from = size - 1 /\ size # 0 BY <1>1, <1>4
  <2>2. \A n \in known.from + 1 .. size : n \in owing BY <2>1
  <2>3. QED BY <1>1, <1>2, <2>1, <2>2 DEF Follows
<1>5. QED BY <1>3, <1>4

\* A row is stored: one to tell of is owed, and no other changes anything.
LEMMA StoredFollows ==
    ASSUME NEW rows \in Seq(Row), NEW row \in Row, NEW known \in Socket,
           Follows(known, rows, {}), NEW owing,
           \/ owing = {Len(rows) + 1}
           \/ owing = {} /\ row.role # "tool" /\ row # ReplyRow
    PROVE  Follows(known, Append(rows, row), owing)
<1>1. PICK size \in Nat : size = Len(rows) OBVIOUS
<1>2. PICK more \in Seq(Row) :
        /\ more = Append(rows, row) /\ Len(more) = size + 1
        /\ \A i \in 1..size : more[i] = rows[i]
        /\ more[size + 1] = row
  <2> DEFINE longer == Append(rows, row)
  <2>1. /\ longer \in Seq(Row) /\ Len(longer) = Len(rows) + 1
        /\ \A i \in 1..Len(rows) : longer[i] = rows[i]
        /\ longer[Len(rows) + 1] = row
    BY Appended
  <2> HIDE DEF longer
  <2>2. /\ longer \in Seq(Row) /\ Len(longer) = size + 1
        /\ \A i \in 1..size : longer[i] = rows[i]
        /\ longer[size + 1] = row
    BY <1>1, <2>1
  <2>3. QED BY <2>2, Zenon DEF longer
<1>3. PICK from \in Nat : from = known.from BY SocketFields
<1>4. from <= size /\ known.missed \subseteq 1..size BY <1>1, <1>3 DEF Follows
<1>5. \A n \in from + 1 .. size : AnswerAt(more, n) <=> AnswerAt(rows, n)
  <2>1. \A n \in from + 1 .. size : n \in 1..size BY <1>4
  <2>2. QED BY <1>2, <2>1 DEF AnswerAt
<1> DEFINE old == {n \in from + 1 .. size : AnswerAt(rows, n) /\ n \notin known.missed}
           new == {n \in from + 1 .. size + 1 :
                     AnswerAt(more, n) /\ n \notin known.missed /\ n \notin owing}
<1>6. new = old
  <2>1. ASSUME NEW n \in new PROVE n \in old
    <3>1. n # size + 1 BY <1>1, <1>2 DEF AnswerAt
    <3>2. n \in from + 1 .. size BY <3>1
    <3>3. QED BY <1>5, <3>2
  <2>2. ASSUME NEW n \in old PROVE n \in new
    <3>1. n \in from + 1 .. size + 1 /\ n \in from + 1 .. size /\ n # size + 1 OBVIOUS
    <3>2. n \notin owing BY <1>1, <3>1
    <3>3. QED BY <1>5, <3>1, <3>2
  <2>3. QED BY <2>1, <2>2
<1>7. ToSet(known.heard) = new
  <2>1. ToSet(known.heard) = old BY <1>1, <1>3 DEF Follows
  <2>2. QED BY <1>6, <2>1
<1>8. from <= size + 1 /\ known.missed \subseteq 1..(size + 1) BY <1>4
<1>9. \A n \in owing : from < n /\ n \notin known.missed
  <2> TAKE n \in owing
  <2>1. n = size + 1 BY <1>1
  <2>2. QED BY <1>4, <2>1
<1>10. \A i, j \in DOMAIN known.heard : i < j => known.heard[i] < known.heard[j]
  BY DEF Follows
<1>11. Follows(known, more, owing) BY <1>2, <1>3, <1>7, <1>8, <1>9, <1>10 DEF Follows
<1>12. QED BY <1>2, <1>11

LEMMA HeardMore ==
    ASSUME NEW heard \in Seq(Nat), NEW size \in Nat
    PROVE  \E more \in Seq(Nat) :
             /\ more = Append(heard, size) /\ Len(more) = Len(heard) + 1
             /\ \A i \in 1..Len(heard) : more[i] = heard[i]
             /\ more[Len(heard) + 1] = size
             /\ ToSet(more) = ToSet(heard) \cup {size}
<1> DEFINE longer == Append(heard, size)
<1>1. /\ longer \in Seq(Nat) /\ Len(longer) = Len(heard) + 1
      /\ \A i \in 1..Len(heard) : longer[i] = heard[i]
      /\ longer[Len(heard) + 1] = size
      /\ ToSet(longer) = ToSet(heard) \cup {size}
  BY Appended
<1> HIDE DEF longer
<1>2. QED BY <1>1, Zenon DEF longer

\* The room is told of the last row.
LEMMA ToldFollows ==
    ASSUME NEW rows \in Seq(Row), NEW known \in Socket, NEW told \in Socket,
           Follows(known, rows, {Len(rows)}), AnswerAt(rows, Len(rows)),
           told.from = known.from, told.missed = known.missed,
           told.heard = Append(known.heard, Len(rows))
    PROVE  Follows(told, rows, {})
<1>1. PICK size \in Nat : size = Len(rows) OBVIOUS
<1>2. PICK from \in Nat, heard \in Seq(Nat) : from = known.from /\ heard = known.heard
  BY SocketFields
<1>3. PICK more \in Seq(Nat) :
        /\ more = Append(heard, size) /\ Len(more) = Len(heard) + 1
        /\ \A i \in 1..Len(heard) : more[i] = heard[i]
        /\ more[Len(heard) + 1] = size
        /\ ToSet(more) = ToSet(heard) \cup {size}
  BY HeardMore, Zenon
<1>4. /\ \A i, j \in DOMAIN heard : i < j => heard[i] < heard[j]
      /\ ToSet(heard) = {n \in from + 1 .. size :
                            AnswerAt(rows, n) /\ n \notin known.missed /\ n # size}
      /\ from <= size /\ known.missed \subseteq 1..size
      /\ from < size /\ size \notin known.missed
  BY <1>1, <1>2 DEF Follows
<1>5. ToSet(more) = {n \in from + 1 .. size : AnswerAt(rows, n) /\ n \notin known.missed}
  <2>1. size \in from + 1 .. size BY <1>4
  <2>2. AnswerAt(rows, size) BY <1>1
  <2>3. QED BY <1>3, <1>4, <2>1, <2>2
<1>6. ASSUME NEW i \in DOMAIN more, NEW j \in DOMAIN more, i < j
      PROVE  more[i] < more[j]
  <2>1. PICK n \in Nat : n = Len(heard) OBVIOUS
  <2>2. DOMAIN more = 1..(n + 1) /\ DOMAIN heard = 1..n BY <1>3, <2>1
  <2>3. i \in 1..n BY <1>6, <2>2
  <2>4. more[i] = heard[i] /\ heard[i] \in ToSet(heard) BY <1>3, <2>1, <2>2, <2>3 DEF ToSet
  <2>5. CASE j = n + 1
    <3>1. more[j] = size BY <1>3, <2>1, <2>5
    <3>2. heard[i] < size BY <1>4, <2>4
    <3>3. QED BY <2>4, <3>1, <3>2
  <2>6. CASE j # n + 1
    <3>1. j \in 1..n BY <2>2, <2>6
    <3>2. more[j] = heard[j] BY <1>3, <2>1, <3>1
    <3>3. QED BY <1>4, <1>6, <2>2, <2>3, <2>4, <3>1, <3>2
  <2>7. QED BY <2>5, <2>6
<1>7. told.heard = more /\ told.from = from /\ told.missed = known.missed
  BY <1>1, <1>2, <1>3
<1>8. QED BY <1>1, <1>4, <1>5, <1>6, <1>7 DEF Follows

\* The call stops before it tells the room of the last row.
LEMMA MissedFollows ==
    ASSUME NEW rows \in Seq(Row), NEW known \in Socket, NEW told \in Socket,
           Follows(known, rows, {Len(rows)}), Len(rows) # 0,
           told.from = known.from, told.heard = known.heard,
           told.missed = known.missed \cup {Len(rows)}
    PROVE  Follows(told, rows, {})
<1>1. PICK size \in Nat : size = Len(rows) OBVIOUS
<1>2. size \in 1..size BY <1>1
<1>3. /\ \A i, j \in DOMAIN known.heard : i < j => known.heard[i] < known.heard[j]
      /\ ToSet(known.heard) =
           {n \in known.from + 1 .. size :
              AnswerAt(rows, n) /\ n \notin known.missed /\ n \notin {size}}
      /\ known.from <= size /\ known.missed \subseteq 1..size
  BY <1>1 DEF Follows
<1>4. ToSet(told.heard) =
        {n \in known.from + 1 .. size : AnswerAt(rows, n) /\ n \notin told.missed}
  BY <1>1, <1>3
<1>5. told.missed \subseteq 1..size BY <1>1, <1>2, <1>3
<1>6. QED BY <1>1, <1>3, <1>4, <1>5 DEF Follows

LEMMA OwingIs ==
    ASSUME OneSender, NEW s \in Senders
    PROVE  /\ Owing = {owed[s]} \ {0}
           /\ Owing' = {owed'[s]} \ {0}
BY DEF OneSender, Owing

LEMMA NextTells ==
    /\ \A n : AnswerAt(messages', n) => AnswerAt(messages, n)'
    /\ \A c \in Sockets :
         Follows(socket'[c], messages', Owing') => Follows(socket[c], messages, Owing)'
BY DEF AnswerAt, Follows, ToSet

\* A socket step tells nobody of anything.
LEMMA SocketTells ==
    ASSUME Types, SocketInv, TellInv, NEW c \in Sockets,
           Connect(c) \/ HandleConnection(c) \/ Disconnect(c) \/ HandleJoin(c)
           \/ JoinRoom(c)
    PROVE  TellInv'
<1>1. socket[c] \in Socket /\ socket' \in [Sockets -> Socket] BY SocketSteps DEF SocketInv
<1>2. UNCHANGED <<vars, owed>> /\ \A d \in Sockets \ {c} : socket'[d] = socket[d]
  BY DEF Connect, HandleConnection, Disconnect, HandleJoin, JoinRoom, SocketInv
<1>3. UNCHANGED <<exists, messages>> /\ Owing' = Owing BY <1>2 DEF vars, Owing
<1> DEFINE Fresh == /\ socket'[c].room = FALSE /\ socket'[c].heard = <<>>
                    /\ socket'[c].missed = {}
           Same == \A f \in {"room", "from", "heard", "missed"} :
                     socket'[c][f] = socket[c][f]
           Joins == /\ exists /\ socket[c].room = FALSE /\ socket'[c].room = TRUE
                    /\ socket'[c].from = Told
                    /\ \A f \in {"heard", "missed"} : socket'[c][f] = socket[c][f]
<1>4. Fresh \/ Same \/ Joins
  <2>1. CASE Connect(c)
    <3>1. PICK token \in Users \cup {Nobody} :
            socket' = [socket EXCEPT ![c].connected = TRUE, ![c].token = token]
      BY <2>1 DEF Connect
    <3>2. socket'[c] = [NoSocket EXCEPT !.connected = TRUE, !.token = token]
      BY <2>1, <3>1 DEF Connect, SocketInv
    <3>3. Fresh BY <3>2 DEF NoSocket
    <3>4. QED BY <3>3
  <2>2. CASE Disconnect(c)
    <3>1. socket'[c] = NoSocket BY <2>2 DEF Disconnect, Left, SocketInv
    <3>2. QED BY <3>1 DEF NoSocket
  <2>3. CASE HandleConnection(c)
    <3>1. CASE socket[c].token = Nobody
      <4>1. socket'[c] = NoSocket BY <2>3, <3>1 DEF HandleConnection, Left, SocketInv
      <4>2. QED BY <4>1 DEF NoSocket
    <3>2. CASE socket[c].token # Nobody
      <4>1. socket'[c] = [socket[c] EXCEPT !.verified = TRUE, !.userId = socket[c].token]
        BY <2>3, <3>2 DEF HandleConnection, SocketInv
      <4>2. Same BY <1>1, <4>1 DEF Socket
      <4>3. QED BY <4>2
    <3>3. QED BY <3>1, <3>2
  <2>4. CASE HandleJoin(c)
    <3>1. socket'[c] = [socket[c] EXCEPT !.joining = socket[c].userId]
      BY <2>4 DEF HandleJoin, SocketInv
    <3>2. Same BY <1>1, <3>1 DEF Socket
    <3>3. QED BY <3>2
  <2>5. CASE JoinRoom(c)
    <3>1. CASE owned(socket[c].joining) /\ ~socket[c].room
      <4>1. socket'[c] = [socket[c] EXCEPT !.joining = "no", !.room = TRUE, !.from = Told]
        BY <2>5, <3>1 DEF JoinRoom, SocketInv
      <4>2. exists /\ socket[c].room = FALSE BY <1>1, <3>1 DEF owned, Socket
      <4>3. Joins BY <1>1, <4>1, <4>2 DEF Socket
      <4>4. QED BY <4>3
    <3>2. CASE ~(owned(socket[c].joining) /\ ~socket[c].room)
      <4>1. socket'[c] = [socket[c] EXCEPT !.joining = "no"]
        BY <2>5, <3>2 DEF JoinRoom, SocketInv
      <4>2. Same BY <1>1, <4>1 DEF Socket
      <4>3. QED BY <4>2
    <3>3. QED BY <3>1, <3>2
  <2>6. QED BY <2>1, <2>2, <2>3, <2>4, <2>5
<1>5. exists' => Owing' \subseteq {Len(messages')} /\ \A n \in Owing' : AnswerAt(messages', n)
  BY <1>3 DEF TellInv
<1>6. /\ socket'[c].room = FALSE => socket'[c].heard = <<>> /\ socket'[c].missed = {}
      /\ socket'[c].room = TRUE /\ exists' => Follows(socket'[c], messages', Owing')
  <2>1. CASE Fresh BY <2>1
  <2>2. CASE Same
    <3>1. Follows(socket[c], messages, Owing) => Follows(socket'[c], messages', Owing')
      BY <1>3, <2>2 DEF Follows
    <3>2. QED BY <1>3, <2>2, <3>1 DEF TellInv
  <2>3. CASE Joins
    <3>1. exists /\ socket[c].heard = <<>> /\ socket[c].missed = {} BY <2>3 DEF TellInv
    <3>2. Owing \subseteq {Len(messages)} /\ 0 \notin Owing BY <3>1 DEF TellInv, Owing
    <3>3. Told = IF Owing = {} THEN Len(messages) ELSE Len(messages) - 1
      <4>1. CASE Owing = {} BY <4>1 DEF Told, Owing
      <4>2. CASE Owing # {}
        <5>1. Owing = {Len(messages)} BY <3>2, <4>2
        <5> DEFINE last == CHOOSE n \in Owing : TRUE
        <5>2. Told = last - 1 BY <4>2 DEF Told, Owing
        <5>3. last = Len(messages) BY <5>1
        <5> HIDE DEF last
        <5>4. Told = Len(messages) - 1 BY <5>2, <5>3
        <5>5. QED BY <4>2, <5>4
      <4>3. QED BY <4>1, <4>2
    <3>4. PICK known \in Socket : known = socket'[c] BY <1>1
    <3>5. known.heard = <<>> /\ known.missed = {} /\ known.from = Told
      BY <2>3, <3>1, <3>4
    <3>6. Follows(known, messages, Owing)
      BY <3>2, <3>3, <3>5, JoinFollows DEF Types
    <3>7. QED BY <1>3, <2>3, <3>4, <3>6
  <2>4. QED BY <1>4, <2>1, <2>2, <2>3
<1>7. \A d \in Sockets :
        /\ socket'[d].room = FALSE => socket'[d].heard = <<>> /\ socket'[d].missed = {}
        /\ socket'[d].room = TRUE /\ exists' => Follows(socket'[d], messages', Owing')
  <2> TAKE d \in Sockets
  <2>1. CASE d = c BY <1>6, <2>1
  <2>2. CASE d # c BY <1>2, <1>3, <2>2 DEF TellInv
  <2>3. QED BY <2>1, <2>2
<1>8. QED BY <1>5, <1>7, NextTells DEF TellInv

\* Rows that are no answers: a socket hears nothing new and misses nothing.
LEMMA UntoldTells ==
    ASSUME OneSender, Types, SocketInv, TellInv, NEW s \in Senders, owed[s] = 0,
           UNCHANGED gatewayVars, exists' = exists,
           \/ messages' = messages
           \/ \E row \in Row : /\ row.role # "tool" /\ row # ReplyRow
                               /\ messages' = Append(messages, row)
    PROVE  TellInv'
<1>1. Owing = {} /\ Owing' = {} /\ UNCHANGED <<socket, owed>>
  BY OwingIs DEF gatewayVars
<1>2. ASSUME NEW c \in Sockets, socket[c].room = TRUE, exists
      PROVE  Follows(socket[c], messages', {})
  <2>1. Follows(socket[c], messages, {}) BY <1>1, <1>2 DEF TellInv
  <2>2. socket[c] \in Socket BY DEF SocketInv
  <2>3. QED BY <2>1, <2>2, StoredFollows DEF Types
<1>3. QED BY <1>1, <1>2, NextTells DEF TellInv

LEMMA HandleSendMessageTells ==
    ASSUME OneSender, Types, SocketInv, TellInv, NEW s \in Senders, HandleSendMessage(s)
    PROVE  TellInv'
<1>1. Send(s) /\ owed[s] = 0 /\ UNCHANGED gatewayVars BY DEF HandleSendMessage
<1>2. exists' = exists /\ messages' = Append(messages, UserRow)
  BY <1>1, SendSteps DEF Appends
<1>3. UserRow \in Row /\ UserRow.role # "tool" /\ UserRow # ReplyRow
  BY RowTypes DEF UserRow, ReplyRow, CallsRow
<1>4. QED BY <1>1, <1>2, <1>3, UntoldTells

LEMMA SilentTells ==
    ASSUME OneSender, Types, CallInv, SocketInv, TellInv, NEW s \in Senders, SilentStep(s)
    PROVE  TellInv'
<1>1. owed[s] = 0 /\ UNCHANGED gatewayVars BY DEF SilentStep
<1>2. CASE AppendCalls(s)
  <2> DEFINE row == CallsRow(sender[s].calls)
  <2>1. exists' = exists /\ Appends(s, row) /\ sender[s].pc = "appendCalls"
    BY <1>2, AppendCallsSteps
  <2>2. row \in Row
    <3>1. sender[s] \in Sender BY DEF Types
    <3>2. sender[s].calls \in Seq(Call) BY <3>1 DEF Sender
    <3>3. QED BY <3>2, RowTypes
  <2>3. sender[s].calls # <<>> BY <2>1 DEF CallInv, CallsHold, Asking
  <2>4. row.role # "tool" /\ row # ReplyRow
    <3>1. row.role = "assistant" /\ row.calls = sender[s].calls BY DEF CallsRow
    <3>2. ReplyRow.calls = <<>> BY DEF ReplyRow, CallsRow
    <3>3. QED BY <2>3, <3>1, <3>2
  <2> HIDE DEF row
  <2>5. QED BY <1>1, <2>1, <2>2, <2>4, UntoldTells DEF Appends
<1>3. CASE ~AppendCalls(s)
  <2>1. UNCHANGED <<exists, messages>>
    BY <1>3 DEF SilentStep, Prepare, LoadHistory, CompletionText, CompletionCalls,
       ExecuteTool, RecordToolUsage, Abort
  <2>2. QED BY <1>1, <2>1, UntoldTells
<1>4. QED BY <1>2, <1>3

LEMMA StoreTells ==
    ASSUME OneSender, Types, CallInv, SocketInv, TellInv, NEW s \in Senders, StoreAnswer(s)
    PROVE  TellInv'
<1>1. PICK row \in Row :
        /\ row.role = "tool" \/ row = ReplyRow
        /\ Appends(s, row)
        /\ UNCHANGED <<socket, exists>> /\ owed[s] = 0
        /\ owed' = [owed EXCEPT ![s] = IF exists THEN Len(messages') ELSE 0]
  BY StoreSteps
<1>2. CASE exists
  <2>1. PICK size \in Nat : size = Len(messages) BY DEF Types
  <2>2. messages' = Append(messages, row) BY <1>1, <1>2 DEF Appends
  <2>3. Len(messages') = size + 1 /\ messages'[size + 1] = row
    BY <2>1, <2>2, Appended DEF Types
  <2>4. owed'[s] = size + 1 BY <1>1, <1>2, <2>3 DEF SocketInv
  <2>5. Owing = {} /\ Owing' = {size + 1} BY <1>1, <2>4, OwingIs
  <2>6. AnswerAt(messages', size + 1) BY <1>1, <2>3 DEF AnswerAt
  <2>7. ASSUME NEW c \in Sockets, socket[c].room = TRUE
        PROVE  Follows(socket[c], messages', Owing')
    <3>1. Follows(socket[c], messages, {}) BY <1>2, <2>5, <2>7 DEF TellInv
    <3>2. socket[c] \in Socket BY DEF SocketInv
    <3>3. QED BY <2>1, <2>2, <2>5, <3>1, <3>2, StoredFollows DEF Types
  <2>8. QED BY <1>1, <2>3, <2>5, <2>6, <2>7, NextTells DEF TellInv
<1>3. CASE ~exists BY <1>1, <1>3, NextTells DEF TellInv
<1>4. QED BY <1>2, <1>3

LEMMA EmitTells ==
    ASSUME OneSender, Types, SocketInv, TellInv, NEW s \in Senders,
           EmitStep(s) \/ StopBeforeEmit(s)
    PROVE  TellInv'
<1>1. /\ owed' = [owed EXCEPT ![s] = 0] /\ owed[s] # 0 /\ UNCHANGED <<exists, messages>>
      /\ \A c \in Sockets :
           /\ socket'[c] \in Socket
           /\ \A f \in {"room", "from"} : socket'[c][f] = socket[c][f]
           /\ \/ /\ EmitStep(s) /\ socket'[c].missed = socket[c].missed
                 /\ socket'[c].heard = IF socket[c].room THEN Append(socket[c].heard, owed[s])
                                       ELSE socket[c].heard
              \/ /\ StopBeforeEmit(s) /\ socket'[c].heard = socket[c].heard
                 /\ socket'[c].missed = IF socket[c].room THEN socket[c].missed \cup {owed[s]}
                                        ELSE socket[c].missed
  <2>1. CASE EmitStep(s)
    <3>1. UNCHANGED <<exists, messages>> BY <2>1 DEF EmitStep, vars
    <3>2. QED BY <2>1, <3>1, EmitSteps DEF Sharing
  <2>2. CASE StopBeforeEmit(s) BY <2>2, StopSteps DEF Sharing
  <2>3. QED BY <2>1, <2>2
<1>2. Owing = {owed[s]} /\ Owing' = {} BY <1>1, OwingIs DEF SocketInv
<1>3. ASSUME NEW c \in Sockets, socket[c].room = FALSE
      PROVE  socket'[c].heard = <<>> /\ socket'[c].missed = {}
  BY <1>1, <1>3 DEF TellInv
<1>4. ASSUME NEW c \in Sockets, socket[c].room = TRUE, exists
      PROVE  Follows(socket'[c], messages', Owing')
  <2>1. socket[c] \in Socket /\ messages \in Seq(Row) BY DEF SocketInv, Types
  <2>2. owed[s] = Len(messages) /\ AnswerAt(messages, Len(messages))
    BY <1>2, <1>4 DEF TellInv
  <2>3. Follows(socket[c], messages, {Len(messages)}) BY <1>2, <1>4, <2>2 DEF TellInv
  <2>4. PICK told \in Socket : told = socket'[c] BY <1>1
  <2>5. told.from = socket[c].from BY <1>1, <2>4
  <2>6. CASE told.missed = socket[c].missed /\ told.heard = Append(socket[c].heard, owed[s])
    <3>1. Follows(told, messages, {}) BY <2>1, <2>2, <2>3, <2>5, <2>6, ToldFollows
    <3>2. QED BY <1>1, <1>2, <2>4, <3>1
  <2>7. CASE told.heard = socket[c].heard /\ told.missed = socket[c].missed \cup {owed[s]}
    <3>1. Follows(told, messages, {}) BY <1>1, <2>1, <2>2, <2>3, <2>5, <2>7, MissedFollows
    <3>2. QED BY <1>1, <1>2, <2>4, <3>1
  <2>8. QED BY <1>1, <1>4, <2>4, <2>6, <2>7
<1>5. \A c \in Sockets : socket[c].room \in BOOLEAN /\ socket'[c].room = socket[c].room
  BY <1>1 DEF SocketInv, Socket
<1>6. QED BY <1>1, <1>2, <1>3, <1>4, <1>5, NextTells DEF TellInv

LEMMA NextTellInv ==
    ASSUME OneSender, Types, CallInv, SocketInv, TellInv, [GatewayNext]_allVars
    PROVE  TellInv'
<1>1. CASE UNCHANGED allVars
  <2>1. UNCHANGED <<exists, messages, socket, owed>> BY <1>1 DEF allVars, vars, gatewayVars
  <2>2. Owing' = Owing BY <2>1 DEF Owing
  <2>3. QED BY <2>1, <2>2, NextTells DEF TellInv
<1>2. CASE DeleteConversation /\ UNCHANGED gatewayVars
  <2>1. exists' = FALSE /\ socket' = socket BY <1>2 DEF DeleteConversation, gatewayVars
  <2>2. QED BY <2>1 DEF TellInv
<1>3. QED
  BY <1>1, <1>2, SocketTells, HandleSendMessageTells, SilentTells, StoreTells, EmitTells
  DEF GatewayNext

LEMMA InitTells == GatewayInit => TellInv
<1> SUFFICES ASSUME GatewayInit PROVE TellInv OBVIOUS
<1>1. Owing = {} BY DEF GatewayInit, Owing
<1>2. \A c \in Sockets : socket[c] = NoSocket BY DEF GatewayInit
<1>3. QED BY <1>1, <1>2 DEF TellInv, NoSocket

\* While one call of sendMessage at a time works on the conversation, each
\* socket in its room has heard of exactly the answers stored since it joined,
\* in their order and once, but for those whose call is about to tell of them
\* or stopped before it could: for any number of sockets and users, whenever
\* they connect, join and leave.
THEOREM StoredIsHeard ==
    ASSUME OneSender
    PROVE  GatewaySpec => []HeardIsStored
<1>1. SocketInv /\ TellInv => HeardIsStored
  <2> SUFFICES ASSUME SocketInv, TellInv, NEW c \in Sockets, exists, socket[c].room
               PROVE  LET heard == socket[c].heard
                      IN  /\ \A i, j \in DOMAIN heard : i < j => heard[i] < heard[j]
                          /\ ToSet(heard) =
                               {n \in socket[c].from + 1 .. Len(messages) :
                                   /\ IsAnswer(n) /\ n \notin socket[c].missed
                                   /\ \A s \in Senders : owed[s] # n}
    BY DEF HeardIsStored
  <2>1. socket[c] \in Socket BY DEF SocketInv
  <2>2. socket[c].room = TRUE /\ socket[c].from \in Nat BY <2>1, SocketFields
  <2>3. Follows(socket[c], messages, Owing) BY <2>2 DEF TellInv
  <2>4. \A n \in socket[c].from + 1 .. Len(messages) :
          /\ n \notin Owing <=> \A s \in Senders : owed[s] # n
          /\ AnswerAt(messages, n) <=> IsAnswer(n)
    <3> TAKE n \in socket[c].from + 1 .. Len(messages)
    <3>1. n # 0 BY <2>2
    <3>2. QED BY <3>1 DEF Owing, AnswerAt, IsAnswer
  <2>5. QED BY <2>3, <2>4 DEF Follows
<1>2. Types /\ CallInv /\ SocketInv /\ TellInv /\ [GatewayNext]_allVars => TellInv'
  BY NextTellInv
<1>3. QED
  BY <1>1, <1>2, InitTells, SocketsAlways, CallsAlwaysBehindGateway, PTL DEF GatewaySpec

-----------------------------------------------------------------------------
\* What the thread of a conversation is to a reader, in the rows of its last turn.
CallRows(rows) == {i \in DOMAIN rows : rows[i].calls # <<>>}
LastCalls(rows) == IF CallRows(rows) = {} THEN 0 ELSE Max(CallRows(rows))

LEMMA AsRead ==
    LastTurn(messages) \in Seq(Row) =>
    /\ Abstract!Rounds = Cardinality(CallRows(LastTurn(messages)))
    /\ Abstract!Outstanding =
         LET turn == LastTurn(messages)
             last == LastCalls(turn)
         IN  IF last = 0 THEN <<>>
             ELSE SubSeq(turn[last].calls, Len(turn) - last + 1, Len(turn[last].calls))
    /\ \A rows : Abstract!Last(rows) = Last(rows)
    /\ Abstract!UserRow = UserRow /\ Abstract!ReplyRow = ReplyRow
    /\ \A calls : Abstract!CallsRow(calls) = CallsRow(calls)
    /\ \A id, ran : Abstract!ToolRow(id, ran) = ToolRow(id, ran)
<1>1. Abstract!LastTurn(messages) = LastTurn(messages)
  BY DEF Abstract!LastTurn, LastTurn, Abstract!SelectLastInSeq, SelectLastInSeq,
     Abstract!Max, Max
<1>2. Abstract!Turn = LastTurn(messages) BY <1>1 DEF Abstract!Turn
<1>3. \A S : Abstract!Cardinality(S) = Cardinality(S)
  BY DEF Abstract!Cardinality, Cardinality
<1>4. Abstract!Rounds = Cardinality(CallRows(LastTurn(messages)))
  BY <1>2, <1>3 DEF Abstract!Rounds, CallRows
<1>5. LastTurn(messages) \in Seq(Row) => Abstract!LastRound = LastCalls(LastTurn(messages))
  <2> DEFINE turn == LastTurn(messages)
  <2> SUFFICES ASSUME turn \in Seq(Row) PROVE Abstract!LastRound = LastCalls(turn) OBVIOUS
  <2>1. DOMAIN turn = 1..Len(turn) OBVIOUS
  <2> HIDE DEF turn
  <2>2. CallRows(turn) = {i \in 1..Len(turn) : turn[i].calls # <<>>} BY <2>1 DEF CallRows
  <2>3. QED
    BY <1>2, <2>2 DEF Abstract!LastRound, LastCalls, Abstract!SelectLastInSeq,
       Abstract!Max, Max, turn
<1>6. LastTurn(messages) \in Seq(Row) =>
        Abstract!Outstanding =
          LET turn == LastTurn(messages)
              last == LastCalls(turn)
          IN  IF last = 0 THEN <<>>
              ELSE SubSeq(turn[last].calls, Len(turn) - last + 1, Len(turn[last].calls))
  BY <1>2, <1>5, Zenon DEF Abstract!Outstanding
<1>7. \A rows : Abstract!Last(rows) = Last(rows) BY DEF Abstract!Last, Last
<1>8. /\ Abstract!UserRow = UserRow /\ Abstract!ReplyRow = ReplyRow
      /\ \A calls : Abstract!CallsRow(calls) = CallsRow(calls)
      /\ \A id, ran : Abstract!ToolRow(id, ran) = ToolRow(id, ran)
  BY DEF Abstract!UserRow, UserRow, Abstract!ReplyRow, ReplyRow, Abstract!CallsRow,
     CallsRow, Abstract!ToolRow, ToolRow
<1>9. QED BY <1>4, <1>6, <1>7, <1>8

LEMMA SameSequence ==
    ASSUME NEW T, NEW q \in Seq(T), NEW r \in Seq(T), Len(q) = Len(r),
           \A i \in 1..Len(q) : q[i] = r[i]
    PROVE  q = r
OBVIOUS

LEMMA Longer ==
    ASSUME NEW q \in Seq(Row), NEW e \in Row, NEW n \in Nat, n = Len(q)
    PROVE  \E more \in Seq(Row) :
             /\ more = Append(q, e) /\ Len(more) = n + 1
             /\ \A i \in 1..n : more[i] = q[i]
             /\ more[n + 1] = e
<1> DEFINE longer == Append(q, e)
<1>1. /\ longer \in Seq(Row) /\ Len(longer) = Len(q) + 1
      /\ \A i \in 1..Len(q) : longer[i] = q[i]
      /\ longer[Len(q) + 1] = e
  BY Appended
<1> HIDE DEF longer
<1>2. /\ longer \in Seq(Row) /\ Len(longer) = n + 1
      /\ \A i \in 1..n : longer[i] = q[i]
      /\ longer[n + 1] = e
  BY <1>1
<1>3. QED BY <1>2, Zenon DEF longer

LEMMA LastAlone ==
    ASSUME NEW T, NEW q \in Seq(T), Len(q) >= 1
    PROVE  SubSeq(q, Len(q), Len(q)) = <<q[Len(q)]>>
<1>1. PICK n \in 1..Len(q) : n = Len(q) OBVIOUS
<1>2. n - n + 1 = 1 /\ n \in Nat BY <1>1
<1> DEFINE r == SubSeq(q, n, n)
<1>3. r \in Seq(T) /\ Len(r) = 1 /\ r[1] = q[n]
  <2>1. /\ r \in Seq(T) /\ Len(r) = n - n + 1
        /\ \A k \in 1..(n - n + 1) : r[k] = q[n + k - 1]
    BY <1>1, Remainder
  <2> HIDE DEF r
  <2>2. n + 1 - 1 = n /\ 1 \in 1..1 BY <1>1
  <2>3. QED BY <1>2, <2>1, <2>2
<1>4. PICK e \in T : e = q[n] BY <1>1
<1>5. <<e>> \in Seq(T) /\ Len(<<e>>) = 1 /\ <<e>>[1] = e OBVIOUS
<1> HIDE DEF r
<1> DEFINE single == <<e>>
<1> HIDE DEF single
<1>6. /\ r \in Seq(T) /\ single \in Seq(T) /\ Len(r) = Len(single)
      /\ \A i \in 1..Len(r) : r[i] = single[i]
  BY <1>3, <1>4, <1>5 DEF single
<1>7. r = single BY <1>6, SameSequence
<1>8. QED BY <1>1, <1>4, <1>7 DEF r, single

LEMMA TurnFrom ==
    ASSUME NEW rows \in Seq(Row)
    PROVE  \/ \E u \in 1..Len(rows) : IsLastUser(rows, u)
           \/ \A k \in 1..Len(rows) : rows[k].role # "user"
<1> SUFFICES ASSUME ~\A k \in 1..Len(rows) : rows[k].role # "user"
             PROVE  \E u \in 1..Len(rows) : IsLastUser(rows, u)
  OBVIOUS
<1>1. DOMAIN rows = 1..Len(rows) /\ Len(rows) \in Nat OBVIOUS
<1>2. PICK start \in 1..Len(rows) : \E u \in start..Len(rows) :
        /\ rows[u].role = "user"
        /\ \A j \in u + 1 .. Len(rows) : rows[j].role # "user"
  BY <1>1, History
<1>3. QED BY <1>1, <1>2 DEF IsLastUser

\* A turn is its question, and grows with every other row.
LEMMA TurnGrows ==
    ASSUME NEW rows \in Seq(Row), NEW row \in Row
    PROVE  /\ LastTurn(rows) \in Seq(Row)
           /\ LastTurn(Append(rows, row)) =
                IF row.role = "user" THEN <<row>> ELSE Append(LastTurn(rows), row)
<1>1. PICK n \in Nat : n = Len(rows) OBVIOUS
<1>2. PICK more \in Seq(Row) :
        /\ more = Append(rows, row) /\ Len(more) = n + 1
        /\ \A i \in 1..n : more[i] = rows[i]
        /\ more[n + 1] = row
  BY <1>1, Longer, Zenon
<1>3. PICK u \in 1..(n + 1) :
        /\ LastTurn(rows) = SubSeq(rows, u, n)
        /\ row.role # "user" => LastTurn(more) = SubSeq(more, u, n + 1)
  <2>1. CASE \A k \in 1..n : rows[k].role # "user"
    <3>1. LastTurn(rows) = SubSeq(rows, 1, n) BY <1>1, <2>1, LastTurnIs
    <3>2. ASSUME row.role # "user" PROVE LastTurn(more) = SubSeq(more, 1, n + 1)
      <4>1. \A k \in 1..(n + 1) : more[k].role # "user"
        <5> TAKE k \in 1..(n + 1)
        <5>1. k \in 1..n \/ k = n + 1 OBVIOUS
        <5>2. QED BY <1>2, <2>1, <3>2, <5>1
      <4>2. QED BY <1>2, <4>1, LastTurnIs
    <3>3. 1 \in 1..(n + 1) OBVIOUS
    <3>4. QED BY <3>1, <3>2, <3>3
  <2>2. ASSUME NEW u \in 1..n, IsLastUser(rows, u)
        PROVE  /\ LastTurn(rows) = SubSeq(rows, u, n) /\ u \in 1..(n + 1)
               /\ row.role # "user" => LastTurn(more) = SubSeq(more, u, n + 1)
    <3>1. LastTurn(rows) = SubSeq(rows, u, n) BY <1>1, <2>2, LastTurnIs
    <3>2. ASSUME row.role # "user" PROVE LastTurn(more) = SubSeq(more, u, n + 1)
      <4>1. IsLastUser(more, u)
        <5>1. \A k \in u + 1 .. n + 1 : more[k].role # "user"
          <6> TAKE k \in u + 1 .. n + 1
          <6>1. (k \in u + 1 .. n /\ k \in 1..n) \/ k = n + 1 OBVIOUS
          <6>2. QED BY <1>1, <1>2, <2>2, <3>2, <6>1 DEF IsLastUser
        <5>2. QED BY <1>1, <1>2, <2>2, <5>1 DEF IsLastUser
      <4>2. u \in 1..Len(more) BY <1>2
      <4>3. QED BY <1>2, <4>1, <4>2, LastTurnIs
    <3>3. QED BY <3>1, <3>2
  <2>3. QED BY <1>1, <2>1, <2>2, TurnFrom
<1>4. LastTurn(rows) \in Seq(Row) /\ Len(LastTurn(rows)) = n - u + 1
      /\ \A k \in 1..(n - u + 1) : LastTurn(rows)[k] = rows[u + k - 1]
  <2>1. CASE u = n + 1
    <3>1. SubSeq(rows, n + 1, n) = <<>> BY <1>1
    <3>2. n - u + 1 = 0 BY <2>1
    <3>3. QED BY <1>3, <2>1, <3>1, <3>2
  <2>2. CASE u # n + 1
    <3>1. u \in 1..Len(rows) BY <1>1, <2>2
    <3>2. QED BY <1>1, <1>3, <3>1, Remainder
  <2>3. QED BY <2>1, <2>2
<1>5. CASE row.role = "user"
  <2>1. IsLastUser(more, n + 1) BY <1>2, <1>5 DEF IsLastUser
  <2>2. LastTurn(more) = SubSeq(more, n + 1, n + 1)
    <3>1. n + 1 \in 1..Len(more) BY <1>2
    <3>2. QED BY <1>2, <2>1, <3>1, LastTurnIs
  <2>3. SubSeq(more, n + 1, n + 1) = <<row>>
    <3>1. Len(more) >= 1 BY <1>2
    <3>2. QED BY <1>2, <3>1, LastAlone
  <2>4. QED BY <1>2, <1>4, <1>5, <2>2, <2>3
<1>6. CASE row.role # "user"
  <2>1. PICK turn \in Seq(Row) : turn = LastTurn(rows) BY <1>4
  <2>2. PICK a \in Seq(Row) :
          /\ a = Append(turn, row) /\ Len(a) = n - u + 2
          /\ \A i \in 1..(n - u + 1) : a[i] = turn[i]
          /\ a[n - u + 2] = row
    <3>1. PICK size \in Nat : size = Len(turn) OBVIOUS
    <3>2. PICK a \in Seq(Row) :
            /\ a = Append(turn, row) /\ Len(a) = size + 1
            /\ \A i \in 1..size : a[i] = turn[i]
            /\ a[size + 1] = row
      BY <3>1, Longer, Zenon
    <3>3. size = n - u + 1 /\ size + 1 = n - u + 2 BY <1>1, <1>4, <2>1, <3>1
    <3>4. QED BY <3>1, <3>2, <3>3
  <2>3. PICK b \in Seq(Row) :
          /\ b = SubSeq(more, u, n + 1) /\ Len(b) = n - u + 2
          /\ \A k \in 1..(n - u + 2) : b[k] = more[u + k - 1]
    <3> DEFINE b == SubSeq(more, u, Len(more))
    <3>1. u \in 1..Len(more) BY <1>2
    <3>2. /\ b \in Seq(Row) /\ Len(b) = Len(more) - u + 1
          /\ \A k \in 1..(Len(more) - u + 1) : b[k] = more[u + k - 1]
      BY <3>1, Remainder
    <3> HIDE DEF b
    <3>3. Len(more) - u + 1 = n - u + 2 BY <1>2
    <3>4. b = SubSeq(more, u, n + 1) BY <1>2, Zenon DEF b
    <3>5. QED BY <3>2, <3>3, <3>4, Zenon
  <2>4. a \in Seq(Row) /\ b \in Seq(Row) /\ Len(a) = Len(b) /\ Len(a) = n - u + 2
    BY <2>2, <2>3
  <2>5. \A i \in 1..(n - u + 2) : a[i] = b[i]
    <3> TAKE i \in 1..(n - u + 2)
    <3>1. CASE i = n - u + 2
      <4>1. u + i - 1 = n + 1 BY <3>1
      <4>2. QED BY <1>2, <2>2, <2>3, <3>1, <4>1
    <3>2. CASE i # n - u + 2
      <4>1. i \in 1..(n - u + 1) /\ u + i - 1 \in 1..n BY <3>2
      <4>2. a[i] = rows[u + i - 1] BY <1>4, <2>1, <2>2, <4>1
      <4>3. b[i] = more[u + i - 1] BY <2>3
      <4>4. QED BY <1>2, <4>1, <4>2, <4>3
    <3>3. QED BY <3>1, <3>2
  <2>6. a = b BY <2>4, <2>5, SameSequence
  <2>7. QED BY <1>2, <1>3, <1>4, <1>6, <2>1, <2>6
<1>7. QED BY <1>5, <1>6



LEMMA MaxIs ==
    ASSUME NEW S \in SUBSET Nat, NEW d \in S, \A k \in S : k <= d
    PROVE  Max(S) = d
<1>1. Max(S) \in S /\ \A k \in S : Max(S) >= k
  <2>1. \A k \in S : d >= k OBVIOUS
  <2>2. QED BY <2>1 DEF Max
<1>2. PICK m \in S : m = Max(S) BY <1>1
<1>3. m >= d /\ d >= m /\ m \in Nat /\ d \in Nat BY <1>1, <1>2
<1>4. QED BY <1>2, <1>3

\* The calls a reader sees without an answer.
LEMMA OutstandingIs ==
    ASSUME IsLog(messages), Len(messages) >= 1
    PROVE  LET n == Len(messages)
           IN  /\ messages[n].role = "user" => Abstract!Outstanding = <<>>
               /\ \A c \in 1..n :
                    IsRound(messages, c, n) =>
                      Abstract!Outstanding =
                        SubSeq(messages[c].calls, n - c + 1, Len(messages[c].calls))
<1>1. messages \in Seq(Row) /\ DOMAIN messages = 1..Len(messages) BY DEF IsLog
<1>2. PICK n \in Nat : n = Len(messages) /\ n >= 1
  <2>1. Len(messages) \in Nat BY <1>1
  <2>2. QED BY <2>1
<1>3. messages[1].role = "user" BY LogBegins
<1>4. PICK u \in 1..n : IsLastUser(messages, u)
  <2>1. 1 \in 1..n BY <1>2
  <2>2. QED BY <1>1, <1>2, <1>3, <2>1, TurnFrom
<1>5. messages[u].role = "user" /\ \A k \in u + 1 .. n : messages[k].role # "user"
  BY <1>2, <1>4 DEF IsLastUser
<1>6. PICK turn \in Seq(Row) :
        /\ turn = LastTurn(messages) /\ Len(turn) = n - u + 1
        /\ \A k \in 1..Len(turn) : turn[k] = messages[u + k - 1]
  <2>1. u \in 1..Len(messages) BY <1>2
  <2>2. LastTurn(messages) = SubSeq(messages, u, Len(messages))
    BY <1>1, <1>4, <2>1, LastTurnIs
  <2>3. /\ SubSeq(messages, u, Len(messages)) \in Seq(Row)
        /\ Len(SubSeq(messages, u, Len(messages))) = Len(messages) - u + 1
        /\ \A k \in 1..(Len(messages) - u + 1) :
             SubSeq(messages, u, Len(messages))[k] = messages[u + k - 1]
    BY <1>1, <2>1, Remainder
  <2>4. /\ LastTurn(messages) \in Seq(Row)
        /\ Len(LastTurn(messages)) = n - u + 1
        /\ \A k \in 1..(n - u + 1) : LastTurn(messages)[k] = messages[u + k - 1]
    BY <1>2, <2>2, <2>3
  <2>5. QED BY <2>4, Zenon
<1>7. DOMAIN turn = 1..(n - u + 1) BY <1>6
<1>8. \A k \in 1..(n - u + 1) : u + k - 1 \in 1..n OBVIOUS
<1>9. Abstract!Outstanding =
        IF LastCalls(turn) = 0 THEN <<>>
        ELSE SubSeq(turn[LastCalls(turn)].calls, Len(turn) - LastCalls(turn) + 1,
                    Len(turn[LastCalls(turn)].calls))
  BY <1>6, AsRead
<1>10. ASSUME messages[n].role = "user"
       PROVE  Abstract!Outstanding = <<>>
  <2>1. u = n
    <3>1. n \notin u + 1 .. n BY <1>5, <1>10
    <3>2. QED BY <3>1
  <2>2. \A k \in DOMAIN turn : turn[k] = messages[n]
    <3> TAKE k \in DOMAIN turn
    <3>1. k \in 1..Len(turn) /\ u + k - 1 = n BY <1>6, <1>7, <2>1
    <3>2. QED BY <1>6, <3>1
  <2>3. messages[n].calls = <<>>
    <3>1. n \in DOMAIN messages BY <1>1, <1>2
    <3>2. QED BY <1>10, <3>1 DEF IsLog, Shaped
  <2>4. LastCalls(turn) = 0 BY <2>2, <2>3 DEF LastCalls, CallRows
  <2>5. QED BY <1>9, <2>4
<1>11. ASSUME NEW c \in 1..n, IsRound(messages, c, n)
       PROVE  Abstract!Outstanding =
                SubSeq(messages[c].calls, n - c + 1, Len(messages[c].calls))
  <2>1. /\ messages[c].role = "assistant" /\ messages[c].calls # <<>>
        /\ \A k \in c + 1 .. n : messages[k].role = "tool"
    BY <1>11 DEF IsRound
  <2>2. u < c
    <3>1. u # c /\ u \notin c + 1 .. n BY <1>5, <2>1
    <3>2. QED BY <3>1
  <2>3. PICK d \in Nat : d = c - u + 1 /\ d \in 1..(n - u + 1) /\ u + d - 1 = c
    BY <2>2
  <2>4. turn[d] = messages[c] /\ d \in CallRows(turn)
    BY <1>6, <1>7, <2>1, <2>3 DEF CallRows
  <2>5. ASSUME NEW k \in CallRows(turn) PROVE k <= d
    <3>1. k \in 1..(n - u + 1) /\ turn[k].calls # <<>> BY <1>7 DEF CallRows
    <3>2. PICK j \in 1..n : j = u + k - 1 BY <1>8, <3>1
    <3>3. messages[j].calls # <<>> BY <1>6, <3>1, <3>2
    <3>4. messages[j].role = "assistant" BY <1>1, <1>2, <3>3 DEF IsLog, Shaped
    <3>5. j \notin c + 1 .. n BY <2>1, <3>4
    <3>6. QED BY <2>3, <3>1, <3>2, <3>5
  <2>6. LastCalls(turn) = d
    <3>1. CallRows(turn) \in SUBSET Nat BY <1>7 DEF CallRows
    <3>2. QED BY <2>4, <2>5, <3>1, MaxIs DEF LastCalls
  <2>7. d # 0 /\ Len(turn) - d + 1 = n - c + 1 BY <1>6, <2>3
  <2>8. QED BY <1>9, <2>4, <2>6, <2>7
<1>12. QED BY <1>2, <1>10, <1>11

\* The rounds a reader counts in the last turn.
RoundsOf(rows) == Cardinality(CallRows(LastTurn(rows)))

LEMMA CallRowsFinite ==
    ASSUME NEW rows \in Seq(Row)
    PROVE  IsFiniteSet(CallRows(rows)) /\ Cardinality(CallRows(rows)) \in Nat
<1>1. IsFiniteSet(1..Len(rows)) BY FS_Interval
<1>2. CallRows(rows) \in SUBSET (1..Len(rows)) BY DEF CallRows
<1>3. IsFiniteSet(CallRows(rows)) BY <1>1, <1>2, FS_Subset
<1>4. QED BY <1>3, FS_CardinalityType

LEMMA RoundsGrow ==
    ASSUME NEW rows \in Seq(Row), NEW row \in Row, row.role = "user" => row.calls = <<>>
    PROVE  /\ RoundsOf(rows) \in Nat
           /\ RoundsOf(Append(rows, row)) =
                IF row.role = "user" THEN 0
                ELSE IF row.calls = <<>> THEN RoundsOf(rows) ELSE RoundsOf(rows) + 1
<1>1. PICK turn \in Seq(Row) : turn = LastTurn(rows) BY TurnGrows
<1>2. RoundsOf(rows) \in Nat BY <1>1, CallRowsFinite DEF RoundsOf
<1>3. LastTurn(Append(rows, row)) = IF row.role = "user" THEN <<row>> ELSE Append(turn, row)
  BY <1>1, TurnGrows
<1>4. CASE row.role = "user"
  <2>1. PICK single : single = <<row>> OBVIOUS
  <2>2. DOMAIN single = {1} /\ single[1] = row BY <2>1
  <2>3. CallRows(single) = {} BY <1>4, <2>2 DEF CallRows
  <2>4. QED BY <1>2, <1>3, <1>4, <2>1, <2>3, FS_EmptySet DEF RoundsOf
<1>5. CASE row.role # "user"
  <2>1. PICK n \in Nat : n = Len(turn) OBVIOUS
  <2>2. PICK more \in Seq(Row) :
          /\ more = Append(turn, row) /\ Len(more) = n + 1
          /\ \A i \in 1..n : more[i] = turn[i]
          /\ more[n + 1] = row
    BY <2>1, Longer, Zenon
  <2>3. DOMAIN turn = 1..n /\ DOMAIN more = 1..(n + 1) /\ n + 1 \notin 1..n
    BY <2>1, <2>2
  <2>4. CallRows(more) = CallRows(turn) \cup (IF row.calls = <<>> THEN {} ELSE {n + 1})
    BY <2>2, <2>3 DEF CallRows
  <2>5. n + 1 \notin CallRows(turn) BY <2>3 DEF CallRows
  <2>6. IsFiniteSet(CallRows(turn)) BY CallRowsFinite
  <2>7. Cardinality(CallRows(more)) =
          IF row.calls = <<>> THEN Cardinality(CallRows(turn))
          ELSE Cardinality(CallRows(turn)) + 1
    BY <2>4, <2>5, <2>6, FS_AddElement
  <2>8. LastTurn(Append(rows, row)) = more BY <1>3, <1>5, <2>2
  <2>9. QED BY <1>1, <1>2, <1>5, <2>7, <2>8 DEF RoundsOf
<1>6. QED BY <1>4, <1>5



-----------------------------------------------------------------------------
\* The rounds a call of sendMessage counts are those of the turn it writes.
Counts(locals, rows) ==
    RoundsOf(rows) = locals.round + IF locals.pc \in InRound THEN 1 ELSE 0

RoundInv ==
    \A s \in Senders : sender[s].pc # "idle" /\ exists => Counts(sender[s], messages)

LEMMA CountsNext ==
    ASSUME OneSender, NEW s \in Senders,
           sender'[s].pc # "idle" /\ exists' => Counts(sender'[s], messages')
    PROVE  RoundInv'
<1>1. RoundsOf(messages)' = RoundsOf(messages') BY NextTurn DEF RoundsOf, CallRows
<1>2. QED BY <1>1 DEF RoundInv, OneSender, Counts, InRound

\* Where the assistant may speak, a reader agrees.
LEMMA AssistantSpeaks ==
    ASSUME Types, TurnInv, RoundInv, NEW s \in Senders, exists,
           sender[s].pc # "idle", sender[s].pc \notin InRound
    PROVE  Abstract!AssistantsTurn /\ Abstract!Rounds = sender[s].round
<1>1. IsLog(messages) /\ Len(messages) >= 1 /\ Rests(messages, Len(messages))
  BY StandsOn
<1>2. messages \in Seq(Row) /\ messages # <<>> BY <1>1 DEF IsLog
<1>3. PICK n \in Nat : n = Len(messages) /\ n >= 1 BY <1>1, <1>2
<1>4. Abstract!Last(messages) = messages[n]
  <2>1. LastTurn(messages) \in Seq(Row) BY <1>2, RowTypes, TurnGrows
  <2>2. QED BY <1>3, <2>1, AsRead DEF Last
<1>5. Abstract!Outstanding = <<>> /\ messages[n].role \in {"user", "tool"}
  <2>1. CASE messages[n].role = "user" BY <1>1, <1>3, <2>1, OutstandingIs
  <2>2. ASSUME NEW c \in 1..n, IsRound(messages, c, n), n - c = Len(messages[c].calls)
        PROVE  Abstract!Outstanding = <<>> /\ messages[n].role = "tool"
    <3>1. messages[c] \in Row /\ messages[c].calls # <<>> BY <1>2, <1>3, <2>2 DEF IsRound
    <3>2. PICK calls \in Seq(Call) : calls = messages[c].calls BY <3>1, RowFields
    <3>3. Len(calls) \in Nat /\ Len(calls) # 0 BY <3>1, <3>2
    <3>4. Abstract!Outstanding = SubSeq(calls, n - c + 1, Len(calls))
      BY <1>1, <1>3, <2>2, <3>2, OutstandingIs
    <3>5. Abstract!Outstanding = SubSeq(calls, Len(calls) + 1, Len(calls))
      BY <2>2, <3>2, <3>4
    <3>6. Abstract!Outstanding = <<>> BY <3>3, <3>5
    <3>7. n \in c + 1 .. n BY <2>2, <3>2, <3>3
    <3>8. QED BY <2>2, <3>6, <3>7 DEF IsRound
  <2>3. QED BY <1>1, <1>3, <2>1, <2>2 DEF Rests
<1>6. Abstract!Last(messages) # Abstract!ReplyRow
  <2>1. LastTurn(messages) \in Seq(Row) BY <1>2, RowTypes, TurnGrows
  <2>2. Abstract!ReplyRow.role = "assistant" BY <2>1, AsRead DEF ReplyRow, CallsRow
  <2>3. QED BY <1>4, <1>5, <2>2
<1>7. Abstract!Rounds = sender[s].round
  <2>1. LastTurn(messages) \in Seq(Row) BY <1>2, RowTypes, TurnGrows
  <2>2. Abstract!Rounds = RoundsOf(messages) BY <2>1, AsRead DEF RoundsOf
  <2>3. sender[s].round \in Nat
    <3>1. sender[s] \in Sender BY DEF Types
    <3>2. QED BY <3>1, Bounds DEF Sender
  <2>4. QED BY <2>2, <2>3 DEF RoundInv, Counts
<1>8. QED BY <1>2, <1>5, <1>6, <1>7 DEF Abstract!AssistantsTurn

\* A call that works off an answer of the model works off what a reader misses.
LEMMA CallsOutstanding ==
    ASSUME TurnInv, NEW s \in Senders, exists, sender[s].pc \in InRound
    PROVE  Abstract!Outstanding = sender[s].calls
<1>1. sender[s].pc # "idle" BY DEF InRound
<1>2. /\ IsLog(messages) /\ Len(messages) >= 1
      /\ \E c \in 1..Len(messages) : AnswersLeft(messages, c, sender[s].calls)
  BY <1>1, StandsOn
<1>3. QED BY <1>2, OutstandingIs DEF AnswersLeft

Simulates == [Abstract!Next]_<<messages, exists>> /\ RoundInv'

LEMMA QuietSimulates ==
    ASSUME OneSender, RoundInv, NEW s \in Senders, UNCHANGED <<exists, messages>>,
           sender[s].pc # "idle", sender'[s].round = sender[s].round,
           sender'[s].pc \in InRound <=> sender[s].pc \in InRound
    PROVE  Simulates
<1>1. RoundInv' BY CountsNext DEF RoundInv, Counts
<1>2. QED BY <1>1 DEF Simulates

LEMMA IdleSimulates ==
    ASSUME OneSender, NEW s \in Senders, sender'[s] = Idle
    PROVE  RoundInv'
<1>1. sender'[s].pc = "idle" BY DEF Idle
<1>2. QED BY <1>1, CountsNext

LEMMA SendSimulates ==
    ASSUME OneSender, Types, NEW s \in Senders, Send(s)
    PROVE  Simulates
<1>1. /\ exists /\ exists' = exists /\ messages' = Append(messages, UserRow)
      /\ sender'[s].pc = "prepare" /\ sender'[s].round = 0
  BY SendSteps DEF Appends, Idle
<1>2. messages \in Seq(Row) /\ UserRow \in Row BY RowTypes DEF Types
<1>3. Abstract!Ask
  <2>1. Abstract!UserRow = UserRow BY DEF Abstract!UserRow, UserRow
  <2>2. QED BY <1>1, <2>1 DEF Abstract!Ask, Abstract!Extend
<1>4. RoundsOf(messages') = 0
  <2>1. UserRow.role = "user" /\ UserRow.calls = <<>> BY DEF UserRow
  <2>2. QED BY <1>1, <1>2, <2>1, RoundsGrow
<1>5. RoundInv' BY <1>1, <1>4, CountsNext DEF Counts, InRound
<1>6. QED BY <1>3, <1>5 DEF Simulates, Abstract!Next

LEMMA AppendCallsSimulates ==
    ASSUME OneSender, Types, CallInv, TurnInv, RoundInv, NEW s \in Senders, AppendCalls(s)
    PROVE  Simulates
<1>1. /\ sender[s].pc = "appendCalls" /\ exists' = exists
      /\ Appends(s, CallsRow(sender[s].calls))
      /\ exists => sender'[s].pc = "executeTool" /\ sender'[s].round = sender[s].round
  BY AppendCallsSteps
<1>2. CASE ~exists
  <2>1. UNCHANGED <<messages, exists>> /\ sender'[s] = Idle BY <1>1, <1>2 DEF Appends
  <2>2. QED BY <2>1, IdleSimulates DEF Simulates
<1>3. CASE exists
  <2>1. PICK calls \in Seq(Call) : calls = sender[s].calls
    <3>1. sender[s] \in Sender BY DEF Types
    <3>2. QED BY <3>1 DEF Sender
  <2>2. calls # <<>> BY <1>1, <2>1 DEF CallInv, CallsHold, Asking
  <2>3. PICK row \in Row : row = CallsRow(calls) /\ row.calls = calls /\ row.role = "assistant"
    <3>1. CallsRow(calls) \in Row BY RowTypes
    <3>2. QED BY <3>1 DEF CallsRow
  <2>4. messages \in Seq(Row) /\ messages' = Append(messages, row)
    BY <1>1, <1>3, <2>1, <2>3 DEF Appends, Types
  <2>5. Abstract!AssistantsTurn /\ Abstract!Rounds = sender[s].round
    BY <1>1, <1>3, AssistantSpeaks DEF InRound
  <2>6. sender[s].round < MAX_TOOL_ROUNDS BY <1>1 DEF Types
  <2>7. messages' # <<>> /\ Abstract!Last(messages') = row
    <3>1. Len(messages') = Len(messages) + 1 /\ messages'[Len(messages) + 1] = row
          /\ Len(messages) \in Nat
      BY <2>4, Appended
    <3>2. messages' # <<>> BY <3>1
    <3>3. QED BY <3>1, <3>2 DEF Abstract!Last
  <2>8. Abstract!CallsRow(calls) = row BY <2>3 DEF Abstract!CallsRow, CallsRow
  <2>9. Abstract!Round(calls)
    BY <1>1, <1>3, <2>4, <2>5, <2>6, <2>8 DEF Abstract!Round, Abstract!Extend
  <2>10. Abstract!Next BY <2>2, <2>3, <2>7, <2>9 DEF Abstract!Next
  <2>11. RoundsOf(messages') = RoundsOf(messages) + 1
    BY <2>2, <2>3, <2>4, RoundsGrow
  <2>12. RoundsOf(messages) = sender[s].round
    <3>1. LastTurn(messages) \in Seq(Row) BY <2>3, <2>4, TurnGrows
    <3>2. QED BY <2>5, <3>1, AsRead DEF RoundsOf
  <2>13. RoundInv' BY <1>1, <1>3, <2>11, <2>12, CountsNext DEF Counts, InRound
  <2>14. QED BY <2>10, <2>13 DEF Simulates
<1>4. QED BY <1>2, <1>3 DEF Types

LEMMA AppendToolSimulates ==
    ASSUME OneSender, Types, CallInv, TurnInv, RoundInv, NEW s \in Senders, AppendTool(s)
    PROVE  Simulates
<1>1. sender[s].pc = "appendTool" /\ sender[s].calls # <<>>
  BY DEF AppendTool, CallInv, CallsHold, Asking, InRound
<1>2. sender[s].calls \in Seq(Call) /\ sender[s].ran \in BOOLEAN
      /\ sender[s].round \in Nat
  <2>1. sender[s] \in Sender BY DEF Types
  <2>2. QED BY <2>1, Bounds DEF Sender
<1>3. PICK row \in Row :
        /\ row = ToolRow(Head(sender[s].calls).id, sender[s].ran)
        /\ row.calls = <<>> /\ row.role = "tool"
  <2>1. Head(sender[s].calls).id \in Nat BY <1>1, <1>2, FirstCall DEF Call
  <2>2. ToolRow(Head(sender[s].calls).id, sender[s].ran) \in Row BY <1>2, <2>1, RowTypes
  <2>3. QED BY <2>2 DEF ToolRow
<1>4. /\ exists' = exists /\ Appends(s, row)
      /\ exists => IF sender'[s].calls = <<>>
                   THEN /\ sender'[s].round = sender[s].round + 1
                        /\ sender'[s].pc \in {"loadHistory", "appendReply"}
                   ELSE /\ sender'[s].round = sender[s].round
                        /\ sender'[s].pc = "executeTool"
  BY <1>1, <1>3, AppendToolSteps
<1>5. CASE ~exists
  <2>1. UNCHANGED <<messages, exists>> /\ sender'[s] = Idle BY <1>4, <1>5 DEF Appends
  <2>2. QED BY <2>1, IdleSimulates DEF Simulates
<1>6. CASE exists
  <2>1. messages \in Seq(Row) /\ messages' = Append(messages, row)
    BY <1>4, <1>6 DEF Appends, Types
  <2>2. Abstract!Outstanding = sender[s].calls BY <1>1, <1>6, CallsOutstanding DEF InRound
  <2>3. Abstract!ToolRow(Head(Abstract!Outstanding).id, sender[s].ran) = row
    BY <1>3, <2>2 DEF Abstract!ToolRow, ToolRow
  <2>4. Abstract!Answer(sender[s].ran)
    BY <1>1, <1>4, <1>6, <2>1, <2>2, <2>3 DEF Abstract!Answer, Abstract!Extend
  <2>5. Abstract!Next BY <1>2, <2>4 DEF Abstract!Next
  <2>6. RoundsOf(messages') = RoundsOf(messages) BY <1>3, <2>1, RoundsGrow
  <2>7. RoundsOf(messages) = sender[s].round + 1
    BY <1>1, <1>6 DEF RoundInv, Counts, InRound
  <2>8. RoundInv' BY <1>2, <1>4, <1>6, <2>6, <2>7, CountsNext DEF Counts, InRound
  <2>9. QED BY <2>5, <2>8 DEF Simulates
<1>7. QED BY <1>5, <1>6 DEF Types

LEMMA AppendReplySimulates ==
    ASSUME OneSender, Types, TurnInv, RoundInv, NEW s \in Senders, AppendReply(s)
    PROVE  Simulates
<1>1. /\ sender[s].pc = "appendReply" /\ Appends(s, ReplyRow) /\ sender'[s] = Idle
      /\ exists' = exists
  BY AppendReplySteps
<1>2. RoundInv' BY <1>1, IdleSimulates
<1>3. CASE ~exists BY <1>1, <1>2, <1>3 DEF Simulates, Appends
<1>4. CASE exists
  <2>1. Abstract!AssistantsTurn BY <1>1, <1>4, AssistantSpeaks DEF InRound
  <2>2. Abstract!ReplyRow = ReplyRow
    BY DEF Abstract!ReplyRow, ReplyRow, Abstract!CallsRow, CallsRow
  <2>3. messages' = Append(messages, ReplyRow) BY <1>1, <1>4 DEF Appends
  <2>4. Abstract!Reply BY <1>1, <1>4, <2>1, <2>2, <2>3 DEF Abstract!Reply, Abstract!Extend
  <2>5. QED BY <1>2, <2>4 DEF Simulates, Abstract!Next
<1>5. QED BY <1>3, <1>4 DEF Types

LEMMA NextSimulates ==
    ASSUME OneSender, Types, CallInv, TurnInv, RoundInv, [Next]_vars
    PROVE  Simulates
<1>1. CASE UNCHANGED vars
  <2>1. UNCHANGED <<messages, exists, sender>> BY <1>1 DEF vars
  <2>2. RoundInv' BY <2>1 DEF RoundInv, Counts, RoundsOf, CallRows, LastTurn, SelectLastInSeq
  <2>3. QED BY <2>1, <2>2 DEF Simulates
<1>2. CASE DeleteConversation
  <2>1. exists /\ messages' = <<>> /\ exists' = FALSE BY <1>2 DEF DeleteConversation
  <2>2. Abstract!Next BY <2>1 DEF Abstract!Next, Abstract!Delete
  <2>3. RoundInv' BY <2>1 DEF RoundInv
  <2>4. QED BY <2>2, <2>3 DEF Simulates
<1>3. ASSUME NEW s \in Senders, Prepare(s)
      PROVE  Simulates
  BY <1>3, PrepareSteps, QuietSimulates DEF InRound
<1>4. ASSUME NEW s \in Senders, LoadHistory(s)
      PROVE  Simulates
  BY <1>4, LoadHistorySteps, QuietSimulates DEF InRound
<1>5. ASSUME NEW s \in Senders, CompletionText(s)
      PROVE  Simulates
  BY <1>5, CompletionTextSteps, QuietSimulates DEF InRound
<1>6. ASSUME NEW s \in Senders, CompletionCalls(s)
      PROVE  Simulates
  BY <1>6, CompletionCallsSteps, QuietSimulates DEF InRound
<1>7. ASSUME NEW s \in Senders, ExecuteTool(s)
      PROVE  Simulates
  BY <1>7, ExecuteToolSteps, QuietSimulates DEF InRound
<1>8. ASSUME NEW s \in Senders, RecordToolUsage(s)
      PROVE  Simulates
  BY <1>8, RecordToolUsageSteps, QuietSimulates DEF InRound
<1>9. ASSUME NEW s \in Senders, Abort(s)
      PROVE  Simulates
  <2>1. UNCHANGED <<messages, exists>> /\ sender'[s] = Idle BY <1>9, AbortSteps
  <2>2. QED BY <2>1, IdleSimulates DEF Simulates
<1>10. QED
  BY <1>1, <1>2, <1>3, <1>4, <1>5, <1>6, <1>7, <1>8, <1>9, SendSimulates,
     AppendCallsSimulates, AppendToolSimulates, AppendReplySimulates DEF Next

LEMMA InitSimulates == Init => RoundInv /\ Abstract!Init
<1> SUFFICES ASSUME Init PROVE RoundInv /\ Abstract!Init OBVIOUS
<1>1. RoundInv BY DEF Init, RoundInv, Idle
<1>2. QED BY <1>1 DEF Init, Abstract!Init

\* One call of sendMessage at a time writes exactly the thread its readers
\* expect, whatever fails, crashes or is deleted between its statements: a turn
\* is a question, at most MAX_TOOL_ROUNDS rounds of calls and their answers in
\* order, and a reply.
THEOREM ConversationIsThread ==
    ASSUME OneSender
    PROVE  Spec => ImplementsThread
<1>1. Types /\ CallInv /\ TurnInv /\ RoundInv /\ [Next]_vars =>
        RoundInv' /\ [Abstract!Next]_<<messages, exists>>
  BY NextSimulates DEF Simulates
<1>2. Spec => [](Types /\ CallInv /\ TurnInv) BY TurnAlways
<1>3. Init => RoundInv /\ Abstract!Init BY InitSimulates
<1>4. QED
  BY <1>1, <1>2, <1>3, PTL DEF Spec, ImplementsThread, Abstract!Spec, Abstract!vars


=============================================================================
