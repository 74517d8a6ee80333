SPECIFICATION AlgorithmsSpec
CONSTANTS
    Steps = {s1, s2, s3}
    MaxOut = 2
    Adjacencies <- AllAdjacencies
    Lengths = {0, 1, 2, 3, 4, 5, 6, 7, 8, 9}
    Windows <- MCWindows
    Indices = {1, 2}
    CallDeltas <- MCCallDeltas
    MaxChunks = 5
INVARIANTS
    Correct
    ChunksAreWindows
    AnswerIsWhole
PROPERTY LoopsTerminate
CHECK_DEADLOCK FALSE
