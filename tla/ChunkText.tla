------------------------------ MODULE ChunkText ------------------------------
(***************************************************************************)
(* chunkText, which cuts the text of a document into overlapping windows   *)
(* before each is embedded: one action per turn of its loop.  A text is    *)
(* its length after trim(), a chunk the interval it was sliced from.       *)
(***************************************************************************)
EXTENDS Integers, Sequences

CONSTANTS
    Lengths,    \* lengths of trimmed texts
    Windows     \* the parameters size and overlap; 1500 and 200 by default

ASSUME LengthsAreNaturals == Lengths \subseteq Nat
ASSUME WindowsMove ==
    Windows \subseteq {w \in [size : Nat, overlap : Nat] : w.overlap < w.size}

VARIABLES
    length, window,     \* the arguments
    start, chunks,      \* the locals of the loop
    returned

chunkVars == <<length, window, start, chunks, returned>>

ChunkInit ==
    /\ length \in Lengths /\ window \in Windows
    /\ start = 0 /\ chunks = <<>> /\ returned = FALSE

end == IF start + window.size < length THEN start + window.size ELSE length
pushed == Append(chunks, [from |-> start, to |-> end])

\* A text of white space only has no chunks.
ReturnNone ==
    /\ ~returned /\ length = 0
    /\ returned' = TRUE
    /\ UNCHANGED <<length, window, start, chunks>>

\* Mutant of PushWindow: the next window starts where this one ends.
PushWindowNoOverlap ==
    /\ ~returned /\ start < length /\ end < length
    /\ chunks' = pushed
    /\ start' = end
    /\ UNCHANGED <<length, window, returned>>

\* A window that ends before the text does.
PushWindow ==
    /\ ~returned /\ start < length /\ end < length
    /\ chunks' = pushed
    /\ start' = end - window.overlap
    /\ UNCHANGED <<length, window, returned>>

\* The window that reaches the end of the text, and the break.  The test of the
\* loop itself never fails: a window that does not reach the end leaves start
\* before it.
PushLast ==
    /\ ~returned /\ start < length /\ end = length
    /\ chunks' = pushed
    /\ returned' = TRUE
    /\ UNCHANGED <<length, window, start>>

ChunkNext == ReturnNone \/ PushWindow \/ PushLast

\* Synchronous code runs until it returns.
ChunkSpec == ChunkInit /\ [][ChunkNext]_chunkVars /\ WF_chunkVars(ChunkNext)

-----------------------------------------------------------------------------
\* The chunks cover the text from its first character to its last, each starts
\* overlap characters before the end of the one before, none is longer than
\* size, and none lies inside another: no piece of text is lost between two
\* chunks, and the last one is not repeated.
ChunksAreWindows ==
    returned =>
        /\ chunks = <<>> <=> length = 0
        /\ length > 0 => chunks[1].from = 0 /\ chunks[Len(chunks)].to = length
        /\ \A i \in DOMAIN chunks :
             chunks[i].from < chunks[i].to /\ chunks[i].to <= chunks[i].from + window.size
        /\ \A i \in 1..(Len(chunks) - 1) :
             /\ chunks[i+1].from = chunks[i].to - window.overlap
             /\ chunks[i].to < chunks[i+1].to

ChunkTerminates == <>returned
=============================================================================
