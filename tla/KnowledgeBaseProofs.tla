------------------------- MODULE KnowledgeBaseProofs -------------------------
(***************************************************************************)
(* Proofs about KnowledgeBase for every set of documents, agents and       *)
(* organizations.  Chunks and answers are right because of where the       *)
(* upload of a document stands (UploadInv), attachments because ids are    *)
(* not reused and deletes cascade (AttachmentInv).                         *)
(***************************************************************************)
EXTENDS KnowledgeBase, TLAPS

\* What the progress of a document's upload says about its row.
UploadInvOf(d) ==
    LET u == upload[d]
    IN  /\ organizationOf[d] = None <=> status[d] = None
        /\ u.pc = "unused" => status[d] = None /\ d \notin crashed
        /\ u.pc \in {"embed", "recordUsage", "commit"} => u.parsed > 0
        /\ u.pc \in {"parse", "embed", "recordUsage", "commit"} =>
             status[d] \in {None, "processing"}
        /\ answer[d] # None => u.pc = "done"
        /\ d \in crashed => u.pc = "done" /\ answer[d] = None

UploadInv == \A d \in Documents : UploadInvOf(d)

\* Attachments join rows that exist, and all three agree on the organization.
AttachmentInv ==
    /\ \A a \in Agents : agentOf[a] # None => a \in usedAgents
    /\ \A x \in attachments :
         /\ agentOf[x.agent] = x.organization
         /\ organizationOf[x.document] = x.organization

IInv ==
    /\ TypeOK /\ UploadInv /\ AttachmentInv
    /\ ChunksAllOrNone /\ AnswerIsFinal /\ ProcessingIsInProgress

LEMMA InitIInv == Init => IInv
BY SomeChunks, NoneIsNoValue
   DEF Init, IInv, TypeOK, UploadInv, UploadInvOf, AttachmentInv, ChunksAllOrNone,
       AnswerIsFinal, ProcessingIsInProgress, Statuses, PC

\* Every step of the upload of one document.
LEMMA UploadStepIInv ==
    ASSUME IInv, NEW d \in Documents, UploadStep(d)
    PROVE  IInv'
<1> USE SomeChunks, NoneIsNoValue
<1> USE DEF IInv, TypeOK, UploadInv, UploadInvOf, AttachmentInv, ChunksAllOrNone,
            AnswerIsFinal, ProcessingIsInProgress, Statuses, PC, Goto,
            documentTables, agentTables
<1>1. CASE Parse(d) BY <1>1 DEF Parse
<1>2. CASE Embed(d) BY <1>2 DEF Embed
<1>3. CASE EmbedThrows(d) BY <1>3 DEF EmbedThrows
<1>4. CASE RecordUsage(d) BY <1>4 DEF RecordUsage
<1>5. CASE Commit(d) BY <1>5 DEF Commit, StoreReady, Answer
<1>6. CASE CommitUnacknowledged(d) BY <1>6 DEF CommitUnacknowledged, StoreReady
<1>7. CASE Rollback(d) BY <1>7 DEF Rollback
<1>8. CASE MarkFailed(d) BY <1>8 DEF MarkFailed, Answer
<1>9. CASE Crash(d) BY <1>9 DEF Crash
<1>10. QED
  BY <1>1, <1>2, <1>3, <1>4, <1>5, <1>6, <1>7, <1>8, <1>9 DEF UploadStep

\* Requests that create or remove documents and agents.
LEMMA DocumentStepIInv ==
    ASSUME IInv, NEW d \in Documents, NEW o \in Organizations,
           Create(d, o) \/ Remove(d, o)
    PROVE  IInv'
<1> USE SomeChunks, NoneIsNoValue
<1> USE DEF IInv, TypeOK, UploadInv, UploadInvOf, AttachmentInv, ChunksAllOrNone,
            AnswerIsFinal, ProcessingIsInProgress, Statuses, PC, Goto,
            documentTables, agentTables, Attachment
<1>1. CASE Create(d, o) BY <1>1 DEF Create
<1>2. CASE Remove(d, o) BY <1>2 DEF Remove
<1>3. QED BY <1>1, <1>2

LEMMA AgentStepIInv ==
    ASSUME IInv, NEW a \in Agents, NEW o \in Organizations,
           CreateAgent(a, o) \/ RemoveAgent(a, o)
    PROVE  IInv'
<1> USE SomeChunks, NoneIsNoValue
<1> USE DEF IInv, TypeOK, UploadInv, UploadInvOf, AttachmentInv, ChunksAllOrNone,
            AnswerIsFinal, ProcessingIsInProgress, documentTables, Attachment
<1>1. CASE CreateAgent(a, o) BY <1>1 DEF CreateAgent
<1>2. CASE RemoveAgent(a, o) BY <1>2 DEF RemoveAgent
<1>3. QED BY <1>1, <1>2

\* Requests that attach a document to an agent, or detach it.
LEMMA AttachmentStepIInv ==
    ASSUME IInv, NEW a \in Agents, NEW d \in Documents, NEW o \in Organizations,
           Attach(a, d, o) \/ Detach(a, d, o)
    PROVE  IInv'
<1> USE SomeChunks, NoneIsNoValue
<1> USE DEF IInv, TypeOK, UploadInv, UploadInvOf, AttachmentInv, ChunksAllOrNone,
            AnswerIsFinal, ProcessingIsInProgress, documentTables, Attachment
<1>1. CASE Attach(a, d, o) BY <1>1 DEF Attach
<1>2. CASE Detach(a, d, o) BY <1>2 DEF Detach
<1>3. QED BY <1>1, <1>2

\* The invariant holds whatever requests interleave, fail or die.
THEOREM KnowledgeBaseInvariant == Spec => []IInv
<1>1. IInv /\ [Next]_vars => IInv'
  <2> SUFFICES ASSUME IInv, [Next]_vars PROVE IInv'
    OBVIOUS
  <2>1. ASSUME NEW d \in Documents, UploadStep(d) PROVE IInv'
    BY <2>1, UploadStepIInv
  <2>2. ASSUME NEW o \in Organizations, NEW d \in Documents,
               Create(d, o) \/ Remove(d, o)
        PROVE IInv'
    BY <2>2, DocumentStepIInv
  <2>3. ASSUME NEW o \in Organizations, NEW a \in Agents,
               CreateAgent(a, o) \/ RemoveAgent(a, o)
        PROVE IInv'
    BY <2>3, AgentStepIInv
  <2>4. ASSUME NEW o \in Organizations, NEW a \in Agents, NEW d \in Documents,
               Attach(a, d, o) \/ Detach(a, d, o)
        PROVE IInv'
    BY <2>4, AttachmentStepIInv
  <2>5. CASE UNCHANGED vars
    BY <2>5 DEF vars, documentTables, agentTables, IInv, TypeOK, UploadInv,
                UploadInvOf, AttachmentInv, ChunksAllOrNone, AnswerIsFinal,
                ProcessingIsInProgress
  <2>6. QED BY <2>1, <2>2, <2>3, <2>4, <2>5 DEF Next
<1>2. QED BY <1>1, InitIInv, PTL DEF Spec

\* Every table and every local of an upload keeps its type.
THEOREM KnowledgeBaseTypeOK == Spec => []TypeOK
<1>1. IInv => TypeOK BY DEF IInv
<1>2. QED BY <1>1, KnowledgeBaseInvariant, PTL

\* A document's chunks are stored all or not at all, whichever statement of
\* create fails or is never acknowledged.
THEOREM ChunksAreAllOrNone == Spec => []ChunksAllOrNone
<1>1. IInv => ChunksAllOrNone BY DEF IInv
<1>2. QED BY <1>1, KnowledgeBaseInvariant, PTL

\* What create answered stays true of the row.
THEOREM AnswersAreFinal == Spec => []AnswerIsFinal
<1>1. IInv => AnswerIsFinal BY DEF IInv
<1>2. QED BY <1>1, KnowledgeBaseInvariant, PTL

\* Only a crash leaves a document in 'processing' with nobody working on it.
THEOREM OnlyCrashesLeaveProcessing == Spec => []ProcessingIsInProgress
<1>1. IInv => ProcessingIsInProgress BY DEF IInv
<1>2. QED BY <1>1, KnowledgeBaseInvariant, PTL

\* searchRelevant joins rows of one organization only, although no foreign key
\* asks for it, and never quotes a document whose uploader was answered 'failed',
\* also when its transaction had committed unnoticed.
THEOREM RetrievalStaysSound == Spec => []RetrievalIsSound
<1>1. IInv => RetrievalIsSound
  BY NoneIsNoValue
     DEF IInv, AttachmentInv, AnswerIsFinal, RetrievalIsSound, searchRelevant
<1>2. QED BY <1>1, KnowledgeBaseInvariant, PTL
=============================================================================
