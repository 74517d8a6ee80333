---------------------------- MODULE KnowledgeBase ----------------------------
(***************************************************************************)
(* DocumentsService, AgentDocumentsService and the part of AgentsService   *)
(* they rest on: the tables documents, document_chunks, agents and         *)
(* agent_documents, and the requests that upload a document.  An upload    *)
(* parses, embeds, bills and stores in one HTTP request; other requests    *)
(* may remove the document, or attach it, before it is done.               *)
(*                                                                         *)
(* Parsing and embedding are external: they give some number of chunks or  *)
(* throw.  attach reads the agent and the document before its INSERT; rows *)
(* only disappear, ids are never reused and the foreign keys hold, so the  *)
(* reads are part of the INSERT's action.                                  *)
(***************************************************************************)
EXTENDS Naturals, FiniteSets

CONSTANTS
    Documents,      \* ids of documents
    Agents,         \* ids of agents
    Organizations,
    MaxChunks,      \* bound: chunks of one document
    None            \* no row, or no answer yet

ASSUME NoneIsNoValue ==
    None \notin Organizations \cup {"processing", "ready", "failed", "nothing"}
ASSUME SomeChunks == MaxChunks \in Nat \ {0}

VARIABLES
    organizationOf, \* documents.organization_id; None where there is no row
    status,         \* documents.status
    chunkCount,     \* documents.chunk_count
    chunks,         \* the number of rows of document_chunks of each document
    upload,         \* the create request of each document: the statement it
                    \* issues next, and the chunks it has parsed
    answer,         \* what that request told its caller
    crashed,        \* documents whose request died before it answered
    billed,         \* documents with an embedding usage event
    agentOf,        \* agents.organization_id; None where there is no row
    usedAgents,     \* agent ids ever handed out
    attachments     \* rows of agent_documents

documentTables == <<organizationOf, status, chunkCount, chunks>>
agentTables == <<agentOf, usedAgents, attachments>>
vars == <<documentTables, upload, answer, crashed, billed, agentTables>>

Statuses == {"processing", "ready", "failed"}
PC == {"unused", "parse", "embed", "recordUsage", "commit", "markFailed", "done"}
Attachment == [organization : Organizations, agent : Agents, document : Documents]

Init ==
    /\ organizationOf = [d \in Documents |-> None]
    /\ status = [d \in Documents |-> None]
    /\ chunkCount = [d \in Documents |-> 0] /\ chunks = [d \in Documents |-> 0]
    /\ upload = [d \in Documents |-> [pc |-> "unused", parsed |-> 0]]
    /\ answer = [d \in Documents |-> None]
    /\ crashed = {} /\ billed = {}
    /\ agentOf = [a \in Agents |-> None] /\ usedAgents = {}
    /\ attachments = {}

Goto(d, pc) == upload' = [upload EXCEPT ![d].pc = pc]

Answer(d, value) ==
    /\ Goto(d, "done")
    /\ answer' = [answer EXCEPT ![d] = value]

----------------------------------------------------------------------------
\* create: the row is inserted as 'processing' before anything can fail.
Create(d, o) ==
    /\ upload[d].pc = "unused"
    /\ organizationOf' = [organizationOf EXCEPT ![d] = o]
    /\ status' = [status EXCEPT ![d] = "processing"]
    /\ Goto(d, "parse")
    /\ UNCHANGED <<chunkCount, chunks, answer, crashed, billed, agentTables>>

\* Mutant of Parse: the extracted text is not cut to MAX_EXTRACTED_CHARS.
ParseUncut(d) ==
    /\ upload[d].pc = "parse"
    /\ \E n \in 0..(MaxChunks + 1) :
         upload' = [upload EXCEPT
             ![d] = [pc |-> IF n = 0 THEN "markFailed" ELSE "embed", parsed |-> n]]
    /\ UNCHANGED <<documentTables, answer, crashed, billed, agentTables>>

\* pdfParse and chunkText; parsing throws, or there is no text.
Parse(d) ==
    /\ upload[d].pc = "parse"
    /\ \E n \in 0..MaxChunks :
         upload' = [upload EXCEPT
             ![d] = [pc |-> IF n = 0 THEN "markFailed" ELSE "embed", parsed |-> n]]
    /\ UNCHANGED <<documentTables, answer, crashed, billed, agentTables>>

Embed(d) ==
    /\ upload[d].pc = "embed"
    /\ Goto(d, "recordUsage")
    /\ UNCHANGED <<documentTables, answer, crashed, billed, agentTables>>

\* Mutant of EmbedThrows: the call stands outside the try.
EmbedThrowsUncaught(d) ==
    /\ upload[d].pc = "embed"
    /\ Goto(d, "done")
    /\ UNCHANGED <<documentTables, answer, crashed, billed, agentTables>>

EmbedThrows(d) ==
    /\ upload[d].pc = "embed"
    /\ Goto(d, "markFailed")
    /\ UNCHANGED <<documentTables, answer, crashed, billed, agentTables>>

\* UsageService.record swallows a failed write.
RecordUsage(d) ==
    /\ upload[d].pc = "recordUsage"
    /\ billed' \in {billed, billed \cup {d}}
    /\ Goto(d, "commit")
    /\ UNCHANGED <<documentTables, answer, crashed, agentTables>>

\* What the transaction writes: every chunk, the status and the count.
StoreReady(d) ==
    /\ organizationOf[d] # None
    /\ chunks' = [chunks EXCEPT ![d] = upload[d].parsed]
    /\ chunkCount' = [chunkCount EXCEPT ![d] = upload[d].parsed]
    /\ status' = [status EXCEPT ![d] = "ready"]
    /\ UNCHANGED organizationOf

Commit(d) ==
    /\ upload[d].pc = "commit"
    /\ StoreReady(d)
    /\ Answer(d, "ready")
    /\ UNCHANGED <<crashed, billed, agentTables>>

\* The transaction commits, but the connection is lost before it says so.
CommitUnacknowledged(d) ==
    /\ upload[d].pc = "commit"
    /\ StoreReady(d)
    /\ Goto(d, "markFailed")
    /\ UNCHANGED <<answer, crashed, billed, agentTables>>

\* Mutant of Rollback: no transaction, so the chunks inserted first stay.
RollbackKeepsChunks(d) ==
    /\ upload[d].pc = "commit"
    /\ chunks' = IF organizationOf[d] = None THEN chunks
                 ELSE [chunks EXCEPT ![d] = upload[d].parsed]
    /\ Goto(d, "markFailed")
    /\ UNCHANGED <<organizationOf, status, chunkCount, answer, crashed, billed,
                   agentTables>>

\* A statement rejects, as the foreign key does once the document is removed,
\* and the transaction rolls back.
Rollback(d) ==
    /\ upload[d].pc = "commit"
    /\ Goto(d, "markFailed")
    /\ UNCHANGED <<documentTables, answer, crashed, billed, agentTables>>

\* Mutant of MarkFailed: answers without writing.
MarkFailedUnwritten(d) ==
    /\ upload[d].pc = "markFailed"
    /\ Answer(d, "failed")
    /\ UNCHANGED <<documentTables, crashed, billed, agentTables>>

\* Mutant of MarkFailed: the UPDATE returns no row to answer with.
MarkFailedUnreturned(d) ==
    /\ upload[d].pc = "markFailed"
    /\ status' = IF organizationOf[d] # None THEN [status EXCEPT ![d] = "failed"] ELSE status
    /\ Answer(d, "nothing")
    /\ UNCHANGED <<organizationOf, chunkCount, chunks, crashed, billed, agentTables>>

\* The catch: it answers with the row it updated, and with nothing if the
\* document has been removed.
MarkFailed(d) ==
    LET found == organizationOf[d] # None
    IN  /\ upload[d].pc = "markFailed"
        /\ status' = IF found THEN [status EXCEPT ![d] = "failed"] ELSE status
        /\ Answer(d, IF found THEN "failed" ELSE "nothing")
        /\ UNCHANGED <<organizationOf, chunkCount, chunks, crashed, billed,
                       agentTables>>

\* The process dies, or the UPDATE of the catch itself rejects.
Crash(d) ==
    /\ upload[d].pc \notin {"unused", "done"}
    /\ Goto(d, "done")
    /\ crashed' = crashed \cup {d}
    /\ UNCHANGED <<documentTables, answer, billed, agentTables>>

\* remove: one DELETE by id and organization, cascading to chunks and
\* attachments.
Remove(d, o) ==
    /\ organizationOf[d] = o
    /\ organizationOf' = [organizationOf EXCEPT ![d] = None]
    /\ status' = [status EXCEPT ![d] = None]
    /\ chunkCount' = [chunkCount EXCEPT ![d] = 0]
    /\ chunks' = [chunks EXCEPT ![d] = 0]
    /\ attachments' = {x \in attachments : x.document # d}
    /\ UNCHANGED <<upload, answer, crashed, billed, agentOf, usedAgents>>

----------------------------------------------------------------------------
\* AgentsService.create and remove, the latter cascading to attachments.
CreateAgent(a, o) ==
    /\ a \notin usedAgents
    /\ usedAgents' = usedAgents \cup {a}
    /\ agentOf' = [agentOf EXCEPT ![a] = o]
    /\ UNCHANGED <<documentTables, upload, answer, crashed, billed, attachments>>

RemoveAgent(a, o) ==
    /\ agentOf[a] = o
    /\ agentOf' = [agentOf EXCEPT ![a] = None]
    /\ attachments' = {x \in attachments : x.agent # a}
    /\ UNCHANGED <<documentTables, upload, answer, crashed, billed, usedAgents>>

\* Mutant of Attach: only the agent is looked up in the caller's organization.
AttachAnyDocument(a, d, o) ==
    /\ agentOf[a] = o /\ organizationOf[d] # None
    /\ ~ \E x \in attachments : x.agent = a /\ x.document = d
    /\ attachments' = attachments \cup
         {[organization |-> o, agent |-> a, document |-> d]}
    /\ UNCHANGED <<documentTables, upload, answer, crashed, billed, agentOf,
                   usedAgents>>

\* attach: the agent and the document are both found in the caller's
\* organization, and the pair is not attached yet.
Attach(a, d, o) ==
    /\ agentOf[a] = o /\ organizationOf[d] = o
    /\ ~ \E x \in attachments : x.agent = a /\ x.document = d
    /\ attachments' = attachments \cup
         {[organization |-> o, agent |-> a, document |-> d]}
    /\ UNCHANGED <<documentTables, upload, answer, crashed, billed, agentOf,
                   usedAgents>>

Detach(a, d, o) ==
    LET row == [organization |-> o, agent |-> a, document |-> d]
    IN  /\ row \in attachments
        /\ attachments' = attachments \ {row}
        /\ UNCHANGED <<documentTables, upload, answer, crashed, billed, agentOf,
                       usedAgents>>

\* Mutant of searchRelevant: any document with chunks.
searchRelevantAnyStatus(a, o) ==
    {d \in Documents :
        /\ [organization |-> o, agent |-> a, document |-> d] \in attachments
        /\ chunks[d] > 0}

\* The documents searchRelevant may quote from, for an agent of organization
\* o: one SELECT that joins attachments, documents and chunks.
searchRelevant(a, o) ==
    {d \in Documents :
        /\ [organization |-> o, agent |-> a, document |-> d] \in attachments
        /\ status[d] = "ready"
        /\ chunks[d] > 0}

UploadStep(d) ==
    \/ Parse(d) \/ Embed(d) \/ EmbedThrows(d) \/ RecordUsage(d) \/ Commit(d)
    \/ CommitUnacknowledged(d) \/ Rollback(d) \/ MarkFailed(d) \/ Crash(d)

Next ==
    \/ \E d \in Documents : UploadStep(d)
    \/ \E o \in Organizations, d \in Documents : Create(d, o) \/ Remove(d, o)
    \/ \E o \in Organizations, a \in Agents : CreateAgent(a, o) \/ RemoveAgent(a, o)
    \/ \E o \in Organizations, a \in Agents, d \in Documents :
         Attach(a, d, o) \/ Detach(a, d, o)

Spec == Init /\ [][Next]_vars

----------------------------------------------------------------------------
TypeOK ==
    /\ organizationOf \in [Documents -> Organizations \cup {None}]
    /\ status \in [Documents -> Statuses \cup {None}]
    /\ chunkCount \in [Documents -> 0..MaxChunks]
    /\ chunks \in [Documents -> 0..MaxChunks]
    /\ upload \in [Documents -> [pc : PC, parsed : 0..MaxChunks]]
    /\ answer \in [Documents -> {"ready", "failed", "nothing", None}]
    /\ crashed \subseteq Documents /\ billed \subseteq Documents
    /\ agentOf \in [Agents -> Organizations \cup {None}]
    /\ usedAgents \subseteq Agents
    /\ attachments \subseteq Attachment

\* A document is all there or not there: 'ready' means that every chunk is
\* stored, 'processing' that none is, and the count never disagrees with the
\* chunks, whichever step of the upload failed.
ChunksAllOrNone ==
    \A d \in Documents :
        /\ chunkCount[d] = chunks[d]
        /\ status[d] = "ready" => chunks[d] = upload[d].parsed /\ chunks[d] > 0
        /\ status[d] \in {"processing", None} => chunks[d] = 0

\* What the caller of create was told is what the row says for as long as it
\* exists: no later step of any request turns a document that was answered as
\* ready or failed into the other, and an answer with nothing in it, which the
\* comment on create does not know of, means that the document has been removed.
AnswerIsFinal ==
    \A d \in Documents :
        answer[d] # None /\ status[d] # None => status[d] = answer[d]

\* A row says 'processing' only while a request is processing it, or when
\* that request died: nothing it catches leaves the row behind.
ProcessingIsInProgress ==
    \A d \in Documents :
        status[d] = "processing" =>
            upload[d].pc \in PC \ {"unused", "done"} \/ d \in crashed

\* What retrieval quotes for an agent is of the agent's organization, though the
\* three foreign keys of an attachment are independent, and is no document whose
\* uploader was told that it had failed.
RetrievalIsSound ==
    \A a \in Agents, o \in Organizations : \A d \in searchRelevant(a, o) :
        /\ agentOf[a] = o /\ organizationOf[d] = o
        /\ answer[d] # "failed"
=============================================================================
