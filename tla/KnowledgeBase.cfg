SPECIFICATION Spec
CONSTANTS
    Documents = {d1, d2}
    Agents = {a1, a2}
    Organizations = {o1, o2}
    MaxChunks = 2
    None = None
SYMMETRY Symmetry
INVARIANTS
    TypeOK
    ChunksAllOrNone
    AnswerIsFinal
    ProcessingIsInProgress
    RetrievalIsSound
CHECK_DEADLOCK FALSE
