----------------------------- MODULE ChatGateway -----------------------------
(***************************************************************************)
(* The sockets that follow a conversation while ChatConversation writes it.*)
(* The handshake of a socket is verified asynchronously, so its events may *)
(* be handled before; join awaits the ownership query; sendMessage tells   *)
(* the room of the conversation of every row it stored for the model or a  *)
(* tool, in the step that follows the INSERT.  The events that announce no *)
(* row (thinking, delta, tool_call) and the replies to a socket of its own *)
(* requests are left out.  An event is the number of its row.              *)
(***************************************************************************)
EXTENDS ChatConversation

CONSTANTS
    Sockets,        \* connected at once
    Users, Owner,   \* the users, and the one whose conversation it is
    Nobody,         \* no valid token, or no userId in the socket's data
    MaxLiveSends    \* bound: user rows while a socket is connected

ASSUME OwnerIsAUser == Owner \in Users /\ Nobody \notin Users

VARIABLES
    socket,         \* what is known of each socket
    owed            \* the row each call of sendMessage has stored and not told of

gatewayVars == <<socket, owed>>
allVars == <<vars, gatewayVars>>

Socket == [connected : BOOLEAN,
           token : Users \cup {Nobody},     \* whom the handshake's token names
           verified : BOOLEAN,              \* verifyAsync has settled
           userId : Users \cup {Nobody},    \* client.data.userId
           joining : {"no"} \cup Users \cup {Nobody},   \* whom a pending join looks up
           room : BOOLEAN,
           from : Nat,                      \* rows that were told of when it joined
           heard : Seq(Nat),
           missed : SUBSET Nat]             \* history: rows whose call stopped before
                                            \* it told of them

NoSocket == [connected |-> FALSE, token |-> Nobody, verified |-> FALSE, userId |-> Nobody,
             joining |-> "no", room |-> FALSE, from |-> 0, heard |-> <<>>,
             missed |-> {}]

GatewayInit ==
    /\ Init
    /\ socket = [c \in Sockets |-> NoSocket]
    /\ owed = [s \in Senders |-> 0]

-----------------------------------------------------------------------------
\* A socket connects; handleConnection starts to verify its token.
Connect(c) ==
    /\ socket[c] = NoSocket
    /\ Sends <= MaxLiveSends
    /\ \E token \in Users \cup {Nobody} :
         socket' = [socket EXCEPT ![c].connected = TRUE, ![c].token = token]
    /\ UNCHANGED <<vars, owed>>

\* A socket leaves its rooms when it disconnects, and client.join does nothing
\* from then on; the client may connect again with a new one.
Left == NoSocket

\* The verification settles: the socket gets its data, or is disconnected.
HandleConnection(c) ==
    /\ socket[c].connected /\ ~socket[c].verified
    /\ socket' = [socket EXCEPT
         ![c] = IF @.token = Nobody THEN Left
                ELSE [@ EXCEPT !.verified = TRUE, !.userId = socket[c].token]]
    /\ UNCHANGED <<vars, owed>>

Disconnect(c) ==
    /\ socket[c].connected
    /\ socket' = [socket EXCEPT ![c] = Left]
    /\ UNCHANGED <<vars, owed>>

\* handleJoin: findOwned is asked for the userId the data has now, if any.
HandleJoin(c) ==
    /\ socket[c].connected /\ socket[c].joining = "no"
    /\ socket' = [socket EXCEPT ![c].joining = socket[c].userId]
    /\ UNCHANGED <<vars, owed>>

\* Mutant of owned: the conversation is looked up by its id only.
ownedByAnyone(user) == exists

\* findOwned: the conversation of this user.
owned(user) == exists /\ user = Owner

\* Rows that sockets in the room know of: all, but one that is still owed.
Told == LET owing == {owed[s] : s \in Senders} \ {0}
        IN  IF owing = {} THEN Len(messages) ELSE (CHOOSE n \in owing : TRUE) - 1

\* The query answers: the socket joins the room, or is told it was not found.
JoinRoom(c) ==
    /\ socket[c].joining # "no"
    /\ socket' = [socket EXCEPT
         ![c] = IF owned(@.joining) /\ ~@.room
                THEN [@ EXCEPT !.joining = "no", !.room = TRUE, !.from = Told]
                ELSE [@ EXCEPT !.joining = "no"]]
    /\ UNCHANGED <<vars, owed>>

\* What a sendMessage handler or a POST starts: the permission agent:read and
\* the ownership of the conversation have been looked up.  It goes on when the
\* socket it came from does not.
HandleSendMessage(s) ==
    /\ owed[s] = 0
    /\ Sends < MaxLiveSends \/ \A c \in Sockets : ~socket[c].connected
    /\ \/ \E c \in Sockets : socket[c].connected /\ owned(socket[c].userId)
       \/ \E user \in Users : owned(user)
    /\ Send(s)
    /\ UNCHANGED gatewayVars

\* A step of sendMessage that stores no row to tell of.
SilentStep(s) ==
    /\ owed[s] = 0
    /\ \/ Prepare(s) \/ LoadHistory(s) \/ CompletionText(s) \/ CompletionCalls(s)
       \/ AppendCalls(s) \/ ExecuteTool(s) \/ RecordToolUsage(s) \/ Abort(s)
    /\ UNCHANGED gatewayVars

Emit(number) ==
    [c \in Sockets |-> IF socket[c].room
                       THEN [socket[c] EXCEPT !.heard = Append(@, number)]
                       ELSE socket[c]]

\* Mutant of StoreAnswer: tells of the row, then stores it.
StoreAnswerAfterEvent(s) ==
    /\ sender[s].pc \in {"appendTool", "appendReply"}
    /\ IF owed[s] = 0
       THEN /\ socket' = Emit(Len(messages) + 1)
            /\ owed' = [owed EXCEPT ![s] = Len(messages) + 1]
            /\ UNCHANGED vars
       ELSE /\ AppendTool(s) \/ AppendReply(s)
            /\ owed' = [owed EXCEPT ![s] = 0]
            /\ UNCHANGED socket

\* An answer is stored; if it was, sendMessage will tell of it.
StoreAnswer(s) ==
    /\ owed[s] = 0
    /\ AppendTool(s) \/ AppendReply(s)
    /\ owed' = [owed EXCEPT ![s] = IF exists THEN Len(messages') ELSE 0]
    /\ UNCHANGED socket

\* onStep with tool_result or done, and emitStep to the room.
EmitStep(s) ==
    /\ owed[s] # 0
    /\ socket' = Emit(owed[s])
    /\ owed' = [owed EXCEPT ![s] = 0]
    /\ UNCHANGED vars

\* The acknowledgement of the INSERT is lost, or the process dies before it
\* tells of the row.
StopBeforeEmit(s) ==
    /\ owed[s] # 0
    /\ owed' = [owed EXCEPT ![s] = 0]
    /\ socket' = [c \in Sockets |-> IF socket[c].room
                                    THEN [socket[c] EXCEPT !.missed = @ \cup {owed[s]}]
                                    ELSE socket[c]]
    /\ sender' = [sender EXCEPT ![s] = Idle]
    /\ UNCHANGED <<exists, messages, executed, billed, nextCall>>

GatewayNext ==
    \/ \E c \in Sockets :
         Connect(c) \/ HandleConnection(c) \/ Disconnect(c) \/ HandleJoin(c) \/ JoinRoom(c)
    \/ \E s \in Senders :
         HandleSendMessage(s) \/ SilentStep(s) \/ StoreAnswer(s) \/ EmitStep(s)
         \/ StopBeforeEmit(s)
    \/ DeleteConversation /\ UNCHANGED gatewayVars

GatewaySpec == GatewayInit /\ [][GatewayNext]_allVars

-----------------------------------------------------------------------------
GatewayTypeOK ==
    /\ TypeOK
    /\ socket \in [Sockets -> Socket]
    /\ owed \in [Senders -> Nat]

\* Only sockets of the owner follow a conversation, in whatever order a socket
\* connects, joins and is verified; one that is in the room is connected.
OnlyTheOwnerListens ==
    \A c \in Sockets : socket[c].room =>
        socket[c].connected /\ socket[c].token = Owner /\ socket[c].verified

\* A row with an answer of a tool or of the model.
IsAnswer(n) == messages[n].role = "tool" \/ messages[n] = ReplyRow

\* A socket in the room has heard of every answer stored since it joined, each
\* once and in the order of the conversation, and of no answer that is not
\* stored, but for an answer that is about to be told of or whose call stopped
\* before.
HeardIsStored ==
    \A c \in Sockets : exists /\ socket[c].room =>
        LET heard == socket[c].heard
        IN  /\ \A i, j \in DOMAIN heard : i < j => heard[i] < heard[j]
            /\ ToSet(heard) =
                 {n \in socket[c].from + 1 .. Len(messages) :
                     /\ IsAnswer(n) /\ n \notin socket[c].missed
                     /\ \A s \in Senders : owed[s] # n}
=============================================================================
