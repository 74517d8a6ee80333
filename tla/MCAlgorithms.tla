---------------------------- MODULE MCAlgorithms ----------------------------
(***************************************************************************)
(* The algorithms that run in memory: the walk of canReach, chunkText, and *)
(* the accumulation of a streamed answer.  They share nothing, so in each  *)
(* behaviour one runs and the others have returned.                        *)
(***************************************************************************)
EXTENDS CanReach, ChunkText, StreamAccumulation

CONSTANT MaxOut

\* Every graph on the given steps whose steps have at most MaxOut edges.
AllAdjacencies == [Steps -> BoundedSeq(Steps, MaxOut)]

MCWindows == {w \in [size : 1..4, overlap : 0..3] : w.overlap < w.size}
MCCallDeltas ==
    {[id |-> TRUE, name |-> TRUE, arguments |-> FALSE],
     [id |-> FALSE, name |-> TRUE, arguments |-> FALSE],
     [id |-> FALSE, name |-> FALSE, arguments |-> TRUE]}

\* The final states of a walk from a step to itself, of the chunking of an
\* empty text and of an empty stream.
Walked ==
    /\ adjacency = [s \in Steps |-> <<>>] /\ from = CHOOSE s \in Steps : TRUE
    /\ target = from /\ stack = <<>> /\ visited = {} /\ answer = "true"
Chunked ==
    /\ length = 0 /\ window = [size |-> 1, overlap |-> 0]
    /\ start = 0 /\ chunks = <<>> /\ returned = TRUE
Streamed ==
    /\ stream = <<>> /\ content = <<>> /\ toolCallsByIndex = <<>> /\ usage = 0
    /\ result = Settled("resolved", <<>>, <<>>, 0)

AlgorithmsInit ==
    \/ Init /\ Chunked /\ Streamed
    \/ Walked /\ ChunkInit /\ Streamed
    \/ Walked /\ Chunked /\ StreamInit

AlgorithmsNext ==
    \/ Next /\ UNCHANGED <<chunkVars, streamVars>>
    \/ ChunkNext /\ UNCHANGED <<vars, streamVars>>
    \/ StreamNext /\ UNCHANGED <<vars, chunkVars>>

AlgorithmsSpec ==
    /\ AlgorithmsInit /\ [][AlgorithmsNext]_<<vars, chunkVars, streamVars>>
    /\ WF_vars(Next) /\ WF_chunkVars(ChunkNext)

\* canReach ends, also on a graph that already has a cycle, and so does
\* chunkText for every window that moves.
LoopsTerminate == Terminates /\ ChunkTerminates
=============================================================================
