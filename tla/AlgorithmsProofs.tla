-------------------------- MODULE AlgorithmsProofs ---------------------------
(***************************************************************************)
(* The algorithms that run in memory: the walk of canReach answers         *)
(* correctly on every graph; chunkText cuts every text into windows, for   *)
(* every length, size and overlap smaller than the size; and the loop of   *)
(* createChatCompletion puts every stream together as it was sent.         *)
(*                                                                         *)
(* canReach: when the stack runs empty, the visited steps are a closed set *)
(* that holds `from` and not `target`; and everything ever pushed lies in  *)
(* every closed set that holds `from`.                                     *)
(***************************************************************************)
EXTENDS CanReach, ChunkText, StreamAccumulation, FiniteSetTheorems, TLAPS

\* Nothing on the stack or visited is lost: the start is among them, and the
\* successors of a visited step are.
Frontier ==
    LET seen == visited \cup Elements(stack)
    IN  /\ from \in seen
        /\ target \notin visited
        /\ \A a \in visited, b \in Steps : <<a, b>> \in Edges => b \in seen

\* Only what can be reached is pushed.
OnlyReachable ==
    \A S \in SUBSET Steps :
        from \in S /\ Closed(Edges, S) => visited \cup Elements(stack) \subseteq S

IInv ==
    /\ TypeOK
    /\ answer = "none" => Frontier
    /\ OnlyReachable
    /\ Correct

\* Popping a non-empty stack takes off its last element only.
LEMMA Pop ==
    ASSUME NEW T, NEW q \in Seq(T), q # <<>>
    PROVE  LET p == SubSeq(q, 1, Len(q) - 1)
           IN  /\ p \in Seq(T)
               /\ q[Len(q)] \in T
               /\ Elements(q) = Elements(p) \cup {q[Len(q)]}
<1> DEFINE p == SubSeq(q, 1, Len(q) - 1)
<1>1. Len(q) \in Nat \ {0} /\ DOMAIN q = 1..Len(q)
  OBVIOUS
<1>2. p \in Seq(T) /\ DOMAIN p = 1..(Len(q) - 1)
      /\ \A i \in 1..(Len(q) - 1) : p[i] = q[i]
  BY <1>1
<1>3. 1..Len(q) = (1..(Len(q) - 1)) \cup {Len(q)}
  BY <1>1
<1>4. Elements(q) = Elements(p) \cup {q[Len(q)]}
  BY <1>1, <1>2, <1>3 DEF Elements
<1>5. QED BY <1>1, <1>2, <1>4

\* Pushing a list adds its elements.
LEMMA Push ==
    ASSUME NEW T, NEW p \in Seq(T), NEW q \in Seq(T)
    PROVE  p \o q \in Seq(T) /\ Elements(p \o q) = Elements(p) \cup Elements(q)
<1>1. p \o q \in Seq(T) OBVIOUS
<1>2. DOMAIN (p \o q) = 1..(Len(p) + Len(q))
      /\ DOMAIN p = 1..Len(p) /\ DOMAIN q = 1..Len(q)
      /\ Len(p) \in Nat /\ Len(q) \in Nat
  OBVIOUS
<1>3. \A i \in 1..Len(p) : (p \o q)[i] = p[i] OBVIOUS
<1>4. \A i \in 1..Len(q) : (p \o q)[Len(p) + i] = q[i] OBVIOUS
<1>5. \A i \in 1..(Len(p) + Len(q)) :
         i \in 1..Len(p) \/ \E j \in 1..Len(q) : i = Len(p) + j
  <2> SUFFICES ASSUME NEW i \in 1..(Len(p) + Len(q)), i \notin 1..Len(p)
               PROVE  \E j \in 1..Len(q) : i = Len(p) + j
    OBVIOUS
  <2>1. i - Len(p) \in 1..Len(q) /\ i = Len(p) + (i - Len(p)) BY <1>2
  <2>2. QED BY <2>1
<1>6. \A j \in 1..Len(q) : Len(p) + j \in 1..(Len(p) + Len(q)) BY <1>2
<1>7. \A i \in 1..Len(p) : i \in 1..(Len(p) + Len(q)) BY <1>2
<1>8. ASSUME NEW x \in Elements(p \o q) PROVE x \in Elements(p) \cup Elements(q)
  <2>1. PICK i \in 1..(Len(p) + Len(q)) : x = (p \o q)[i]
    BY <1>2, <1>8 DEF Elements
  <2>2. QED BY <1>2, <1>3, <1>4, <1>5, <2>1 DEF Elements
<1>9. ASSUME NEW x \in Elements(p) PROVE x \in Elements(p \o q)
  BY <1>2, <1>3, <1>7, <1>9 DEF Elements
<1>10. ASSUME NEW x \in Elements(q) PROVE x \in Elements(p \o q)
  <2>1. PICK j \in 1..Len(q) : x = q[j] BY <1>2, <1>10 DEF Elements
  <2>2. QED BY <1>2, <1>4, <1>6, <2>1 DEF Elements
<1>11. QED BY <1>1, <1>8, <1>9, <1>10

LEMMA InitInv == Init => IInv
<1> SUFFICES ASSUME Init PROVE IInv OBVIOUS
<1>1. TypeOK BY AdjacencyLists DEF Init, TypeOK
<1>2. Elements(stack) = {from} BY DEF Init, Elements
<1>3. Frontier BY <1>2 DEF Init, Frontier
<1>4. OnlyReachable BY <1>2 DEF Init, OnlyReachable
<1>5. QED BY <1>1, <1>3, <1>4 DEF Init, IInv, Correct

LEMMA NextInv ==
    ASSUME IInv, [Next]_vars PROVE IInv'
<1> USE DEF IInv
<1>1. CASE Found
  <2>1. TypeOK' BY <1>1, Pop DEF Found, TypeOK, popped
  <2>2. Elements(stack') \subseteq Elements(stack) /\ current \in Elements(stack)
    BY <1>1, Pop DEF Found, TypeOK, popped, current
  <2>3. Edges' = Edges BY <1>1 DEF Found, Edges
  <2>4. OnlyReachable' BY <1>1, <2>2, <2>3 DEF Found, OnlyReachable
  <2>5. Reachable(Steps, Edges, from, target)
    BY <1>1, <2>2 DEF Found, OnlyReachable, Reachable
  <2>6. QED BY <1>1, <2>1, <2>3, <2>4, <2>5 DEF Found, Correct
<1>2. CASE Skip
  <2>1. TypeOK' BY <1>2, Pop DEF Skip, TypeOK, popped
  <2>2. Elements(stack) = Elements(stack') \cup {current}
    BY <1>2, Pop DEF Skip, TypeOK, popped, current
  <2>3. Edges' = Edges BY <1>2 DEF Skip, Edges
  <2>4. Frontier' BY <1>2, <2>2, <2>3 DEF Skip, Frontier
  <2>5. OnlyReachable' BY <1>2, <2>2, <2>3 DEF Skip, OnlyReachable
  <2>6. QED BY <1>2, <2>1, <2>3, <2>4, <2>5 DEF Skip, Correct
<1>3. CASE Visit
  <2>1. /\ popped \in Seq(Steps) /\ current \in Steps
        /\ Elements(stack) = Elements(popped) \cup {current}
    BY <1>3, Pop DEF Visit, TypeOK, popped, current
  <2>2. adjacency[current] \in Seq(Steps) BY <2>1 DEF TypeOK
  <2>3. /\ stack' \in Seq(Steps)
        /\ Elements(stack') = Elements(popped) \cup Elements(adjacency[current])
    BY <1>3, <2>1, <2>2, Push DEF Visit
  <2>4. TypeOK' BY <1>3, <2>1, <2>3 DEF Visit, TypeOK
  <2>5. Edges' = Edges BY <1>3 DEF Visit, Edges
  <2>6. \A b \in Steps : <<current, b>> \in Edges <=> b \in Elements(adjacency[current])
    BY <2>1 DEF Edges
  <2>7. Frontier'
    BY <1>3, <2>1, <2>3, <2>5, <2>6 DEF Visit, Frontier
  <2>8. Elements(adjacency[current]) \subseteq Steps
    BY <2>2 DEF Elements
  <2>9. OnlyReachable'
    <3> SUFFICES ASSUME NEW S \in SUBSET Steps, from \in S, Closed(Edges, S)
                 PROVE  visited' \cup Elements(stack') \subseteq S
      BY <1>3, <2>5 DEF Visit, OnlyReachable
    <3>1. visited \cup Elements(stack) \subseteq S BY DEF OnlyReachable
    <3>2. current \in S BY <2>1, <3>1
    <3>3. Elements(adjacency[current]) \subseteq S
      BY <2>6, <2>8, <3>2 DEF Closed
    <3>4. QED BY <1>3, <2>1, <2>3, <3>1, <3>2, <3>3 DEF Visit
  <2>10. QED BY <1>3, <2>4, <2>5, <2>7, <2>9 DEF Visit, Correct
<1>4. CASE Exhausted
  <2>1. TypeOK' BY <1>4 DEF Exhausted, TypeOK
  <2>2. Elements(stack) = {} BY <1>4 DEF Exhausted, Elements
  <2>3. Edges' = Edges BY <1>4 DEF Exhausted, Edges
  <2>4. OnlyReachable' BY <1>4, <2>3 DEF Exhausted, OnlyReachable
  <2>5. Closed(Edges, visited)
    BY <1>4, <2>2 DEF Exhausted, Frontier, Closed, Edges
  <2>6. ~Reachable(Steps, Edges, from, target)
    BY <1>4, <2>2, <2>5 DEF Exhausted, Frontier, Reachable, TypeOK
  <2>7. QED BY <1>4, <2>1, <2>3, <2>4, <2>6 DEF Exhausted, Correct
<1>5. CASE UNCHANGED vars
  <2>1. Edges' = Edges BY <1>5 DEF vars, Edges
  <2>2. TypeOK' /\ Correct' /\ OnlyReachable' /\ (answer' = "none" => Frontier')
    BY <1>5, <2>1 DEF vars, TypeOK, Correct, OnlyReachable, Frontier
  <2>3. QED BY <2>2
<1>6. QED BY <1>1, <1>2, <1>3, <1>4, <1>5 DEF Next

\* canReach returns true exactly when the target can be reached.
THEOREM CanReachCorrect == Spec => []Correct
<1>1. IInv => Correct BY DEF IInv
<1>2. QED BY <1>1, InitInv, NextInv, PTL DEF Spec

-----------------------------------------------------------------------------
\* chunkText.

Chunk == [from : Nat, to : Nat]

LoopTypes ==
    /\ length \in Nat
    /\ window \in [size : Nat, overlap : Nat] /\ window.overlap < window.size
    /\ start \in Nat
    /\ chunks \in Seq(Chunk)
    /\ returned \in BOOLEAN

\* The chunks so far begin at 0 and are windows of the text, each moved on from
\* the one before.
Windowed ==
    /\ chunks # <<>> => chunks[1].from = 0
    /\ \A i \in 1..Len(chunks) :
         /\ chunks[i].from < chunks[i].to
         /\ chunks[i].to <= chunks[i].from + window.size
    /\ \A i \in 1..(Len(chunks) - 1) :
         /\ chunks[i+1].from = chunks[i].to - window.overlap
         /\ chunks[i].to < chunks[i+1].to

\* Where the loop is: the next window starts overlap characters before the end
\* of the last, which is before the end of the text until the loop returns.
LoopPosition ==
    /\ ~returned => IF chunks = <<>> THEN start = 0
                    ELSE /\ start = chunks[Len(chunks)].to - window.overlap
                         /\ chunks[Len(chunks)].to < length
    /\ returned => /\ chunks = <<>> <=> length = 0
                   /\ length > 0 => chunks[Len(chunks)].to = length

LoopInv == LoopTypes /\ Windowed /\ LoopPosition

\* The loop starts in the invariant: there is no chunk and start is 0.
LEMMA LoopInvInit == ChunkInit => LoopInv
  <1> SUFFICES ASSUME ChunkInit PROVE LoopInv
    OBVIOUS
  <1>1. /\ length \in Nat /\ window \in [size : Nat, overlap : Nat]
        /\ window.overlap < window.size
    <2>1. length \in Lengths /\ window \in Windows
      BY DEF ChunkInit
    <2>2. window \in {w \in [size : Nat, overlap : Nat] : w.overlap < w.size}
      BY <2>1, WindowsMove
    <2>3. QED
      BY <2>1, <2>2, LengthsAreNaturals
  <1>2. start = 0 /\ chunks = <<>> /\ returned = FALSE /\ Len(chunks) = 0
    BY DEF ChunkInit
  <1>3. LoopTypes
    <2>1. chunks \in Seq(Chunk)
      BY <1>2
    <2>2. start \in Nat /\ returned \in BOOLEAN
      BY <1>2
    <2>3. QED
      BY <1>1, <2>1, <2>2 DEF LoopTypes
  <1>4. Windowed /\ LoopPosition
    BY <1>2 DEF Windowed, LoopPosition
  <1>5. QED
    BY <1>3, <1>4 DEF LoopInv

\* What it means to push the window at start, for either action that does.
LEMMA PushedIsWindowed ==
    ASSUME LoopInv, ~returned, start < length
    PROVE  /\ end \in Nat /\ start < end /\ end <= length /\ end <= start + window.size
           /\ pushed \in Seq(Chunk)
           /\ Len(pushed) = Len(chunks) + 1
           /\ pushed[Len(pushed)] = [from |-> start, to |-> end]
           /\ pushed[1].from = 0
           /\ \A i \in 1..Len(pushed) :
                /\ pushed[i].from < pushed[i].to
                /\ pushed[i].to <= pushed[i].from + window.size
           /\ \A i \in 1..(Len(pushed) - 1) :
                /\ pushed[i+1].from = pushed[i].to - window.overlap
                /\ pushed[i].to < pushed[i+1].to
  <1>1. end \in Nat /\ start < end /\ end <= length /\ end <= start + window.size
    BY DEF LoopInv, LoopTypes, end
  <1>2. /\ pushed \in Seq(Chunk)
        /\ Len(pushed) = Len(chunks) + 1
        /\ pushed[Len(chunks) + 1] = [from |-> start, to |-> end]
        /\ \A i \in 1..Len(chunks) : pushed[i] = chunks[i]
    BY <1>1 DEF LoopInv, LoopTypes, pushed, Chunk
  <1>3. pushed[1].from = 0
    <2>1. CASE chunks = <<>>
      BY <1>2, <2>1 DEF LoopInv, LoopPosition
    <2>2. CASE chunks # <<>>
      <3>1. 1 \in 1..Len(chunks)
        BY <2>2 DEF LoopInv, LoopTypes
      <3>2. QED
        BY <1>2, <2>2, <3>1 DEF LoopInv, Windowed
    <2>3. QED
      BY <2>1, <2>2
  <1>4. \A i \in 1..Len(pushed) :
           /\ pushed[i].from < pushed[i].to
           /\ pushed[i].to <= pushed[i].from + window.size
    <2>1. SUFFICES ASSUME NEW i \in 1..Len(pushed)
                   PROVE  /\ pushed[i].from < pushed[i].to
                          /\ pushed[i].to <= pushed[i].from + window.size
      OBVIOUS
    <2>2. CASE i = Len(chunks) + 1
      BY <1>1, <1>2, <2>2
    <2>3. CASE i # Len(chunks) + 1
      <3>1. i \in 1..Len(chunks)
        BY <1>2, <2>3 DEF LoopInv, LoopTypes
      <3>2. QED
        BY <1>2, <3>1 DEF LoopInv, Windowed
    <2>4. QED
      BY <2>2, <2>3
  <1>5. \A i \in 1..(Len(pushed) - 1) :
           /\ pushed[i+1].from = pushed[i].to - window.overlap
           /\ pushed[i].to < pushed[i+1].to
    <2>1. SUFFICES ASSUME NEW i \in 1..Len(chunks)
                   PROVE  /\ pushed[i+1].from = pushed[i].to - window.overlap
                          /\ pushed[i].to < pushed[i+1].to
      BY <1>2 DEF LoopInv, LoopTypes
    <2>2. pushed[i] = chunks[i] /\ chunks[i] \in Chunk
      BY <1>2 DEF LoopInv, LoopTypes
    <2>3. CASE i = Len(chunks)
      <3>1. /\ start = chunks[i].to - window.overlap
            /\ chunks[i].to < length
        BY <2>3 DEF LoopInv, LoopTypes, LoopPosition
      <3>2. chunks[i].to < end
        BY <2>2, <3>1 DEF LoopInv, LoopTypes, Chunk, end
      <3>3. QED
        BY <1>2, <2>2, <2>3, <3>1, <3>2
    <2>4. CASE i # Len(chunks)
      <3>1. i \in 1..(Len(chunks) - 1) /\ i + 1 \in 1..Len(chunks)
        BY <2>4 DEF LoopInv, LoopTypes
      <3>2. pushed[i+1] = chunks[i+1]
        BY <1>2, <3>1
      <3>3. QED
        BY <2>2, <3>1, <3>2 DEF LoopInv, Windowed
    <2>5. QED
      BY <2>3, <2>4
  <1>6. QED
    BY <1>1, <1>2, <1>3, <1>4, <1>5

\* Every turn of the loop keeps the invariant.
LEMMA LoopInvNext == LoopInv /\ [ChunkNext]_chunkVars => LoopInv'
  <1> SUFFICES ASSUME LoopInv, [ChunkNext]_chunkVars PROVE LoopInv'
    OBVIOUS
  <1>1. CASE ReturnNone
    <2>1. ASSUME chunks # <<>> PROVE FALSE
      <3>1. Len(chunks) \in 1..Len(chunks)
        BY <2>1 DEF LoopInv, LoopTypes
      <3>2. chunks[Len(chunks)].to \in Nat
        <4>1. chunks[Len(chunks)] \in Chunk
          BY <3>1 DEF LoopInv, LoopTypes
        <4>2. QED
          BY <4>1 DEF Chunk
      <3>3. ~returned /\ length = 0
        BY <1>1 DEF ReturnNone
      <3>4. chunks[Len(chunks)].to < length
        BY <2>1, <3>3 DEF LoopInv, LoopPosition
      <3>5. QED
        BY <3>2, <3>3, <3>4
    <2>2. /\ length = 0 /\ returned' = TRUE
          /\ UNCHANGED <<length, window, start, chunks>>
      BY <1>1 DEF ReturnNone
    <2>3. LoopTypes' /\ Windowed'
      BY <2>2 DEF LoopInv, LoopTypes, Windowed
    <2>4. LoopPosition'
      BY <2>1, <2>2 DEF LoopPosition
    <2>5. QED
      BY <2>3, <2>4 DEF LoopInv
  <1>2. CASE PushWindow
    <2>1. /\ chunks' = pushed /\ start' = end - window.overlap
          /\ end < length /\ ~returned /\ start < length
          /\ UNCHANGED <<length, window, returned>>
      BY <1>2 DEF PushWindow
    <2>2. end = start + window.size
      BY <2>1 DEF LoopInv, LoopTypes, end
    <2>3. LoopTypes'
      BY <2>1, <2>2, PushedIsWindowed DEF LoopInv, LoopTypes
    <2>4. Windowed'
      BY <2>1, PushedIsWindowed DEF Windowed
    <2>5. LoopPosition'
      <3>1. chunks' # <<>> /\ chunks'[Len(chunks')] = [from |-> start, to |-> end]
        BY <2>1, PushedIsWindowed DEF LoopInv, LoopTypes
      <3>2. QED
        BY <2>1, <3>1 DEF LoopPosition
    <2>6. QED
      BY <2>3, <2>4, <2>5 DEF LoopInv
  <1>3. CASE PushLast
    <2>1. /\ chunks' = pushed /\ returned' = TRUE
          /\ end = length /\ ~returned /\ start < length
          /\ UNCHANGED <<length, window, start>>
      BY <1>3 DEF PushLast
    <2>2. LoopTypes'
      BY <2>1, PushedIsWindowed DEF LoopInv, LoopTypes
    <2>3. Windowed'
      BY <2>1, PushedIsWindowed DEF Windowed
    <2>4. LoopPosition'
      <3>1. chunks' # <<>> /\ chunks'[Len(chunks')].to = length
        BY <2>1, PushedIsWindowed DEF LoopInv, LoopTypes
      <3>2. length > 0
        BY <2>1 DEF LoopInv, LoopTypes
      <3>3. QED
        BY <2>1, <3>1, <3>2 DEF LoopPosition
    <2>5. QED
      BY <2>2, <2>3, <2>4 DEF LoopInv
  <1>4. CASE UNCHANGED chunkVars
    BY <1>4 DEF LoopInv, LoopTypes, Windowed, LoopPosition, chunkVars
  <1>5. QED
    BY <1>1, <1>2, <1>3, <1>4 DEF ChunkNext

\* What the invariant says of a finished loop is that the chunks are windows.
LEMMA LoopInvImplies == LoopInv => ChunksAreWindows
  <1> SUFFICES ASSUME LoopInv, returned PROVE ChunksAreWindows
    BY DEF ChunksAreWindows
  <1>1. DOMAIN chunks = 1..Len(chunks)
    BY DEF LoopInv, LoopTypes
  <1>2. QED
    BY <1>1 DEF LoopInv, LoopTypes, Windowed, LoopPosition, ChunksAreWindows

\* The chunks of a document cover its text, overlap by what they should and do
\* not repeat its end, for every text and every window that moves.
THEOREM ChunksCoverText == ChunkSpec => []ChunksAreWindows
  <1>1. ChunkInit => LoopInv
    BY LoopInvInit
  <1>2. LoopInv /\ [ChunkNext]_chunkVars => LoopInv'
    BY LoopInvNext
  <1>3. LoopInv => ChunksAreWindows
    BY LoopInvImplies
  <1>4. QED
    BY <1>1, <1>2, <1>3, PTL DEF ChunkSpec

-----------------------------------------------------------------------------
(***************************************************************************)
(* createChatCompletion.  Each local of the loop is what the stream said   *)
(* so far, and a chunk changes the one it speaks of; the indices are       *)
(* finitely many, so there is one way to sort them.                        *)
(***************************************************************************)
StreamChunk == {ContentChunk, UsageChunk} \cup CallChunks
AccumulatingToolCall == [id : Nat, name : Seq(Nat), arguments : Seq(Nat)]

StreamTypes ==
    /\ stream \in Seq(StreamChunk)
    /\ content \in Seq(Nat) /\ usage \in Nat
    /\ toolCallsByIndex = [i \in DOMAIN toolCallsByIndex |-> toolCallsByIndex[i]]
    /\ DOMAIN toolCallsByIndex \subseteq Nat /\ IsFiniteSet(DOMAIN toolCallsByIndex)
    /\ \A i \in DOMAIN toolCallsByIndex : toolCallsByIndex[i] \in AccumulatingToolCall

\* The locals hold what was sent.
Accumulated ==
    /\ InOrder(content, OfKind("content"))
    /\ IsLatest(usage, OfKind("usage"))
    /\ DOMAIN toolCallsByIndex = SentIndices
    /\ \A i \in SentIndices : IsSentCall(toolCallsByIndex[i], i)

StreamInv == StreamTypes /\ Accumulated /\ AnswerIsWhole

\* Appending the number of a new chunk keeps a string in order.
LEMMA InOrderAppend ==
    ASSUME NEW q \in Seq(Nat), NEW S \in SUBSET Nat, InOrder(q, S),
           NEW n \in Nat, \A m \in S : m < n
    PROVE  Append(q, n) \in Seq(Nat) /\ InOrder(Append(q, n), S \cup {n})
<1> DEFINE r == Append(q, n)
<1>1. /\ r \in Seq(Nat) /\ Len(q) \in Nat
      /\ DOMAIN q = 1..Len(q) /\ DOMAIN r = 1..(Len(q) + 1)
      /\ \A i \in 1..Len(q) : r[i] = q[i]
      /\ r[Len(q) + 1] = n
  OBVIOUS
<1>2. 1..(Len(q) + 1) = 1..Len(q) \cup {Len(q) + 1} BY <1>1
<1>3. ToSet(r) = ToSet(q) \cup {n} BY <1>1, <1>2 DEF ToSet
<1>4. \A i \in DOMAIN q : q[i] \in S BY DEF InOrder, ToSet
<1>5. \A j, k \in DOMAIN r : j < k => r[j] < r[k]
  <2>1. SUFFICES ASSUME NEW j \in DOMAIN r, NEW k \in DOMAIN r, j < k
                 PROVE  r[j] < r[k]
    OBVIOUS
  <2>2. j \in 1..Len(q) /\ r[j] = q[j] BY <1>1, <2>1
  <2>3. CASE k \in 1..Len(q) BY <1>1, <2>1, <2>2, <2>3 DEF InOrder
  <2>4. CASE k = Len(q) + 1
    <3>1. r[k] = n BY <1>1, <2>4
    <3>2. q[j] < n BY <1>1, <1>4, <2>2
    <3>3. QED BY <2>2, <3>1, <3>2
  <2>5. QED BY <1>1, <1>2, <2>3, <2>4
<1>6. QED BY <1>1, <1>3, <1>5 DEF InOrder

LEMMA IsLatestAdded ==
    ASSUME NEW S \in SUBSET Nat, NEW n \in Nat, \A m \in S : m < n
    PROVE  IsLatest(n, S \cup {n})
BY DEF IsLatest

\* What a received chunk adds to the numbers the property speaks of.
LEMMA Received ==
    ASSUME StreamTypes, NEW chunk \in StreamChunk, Receive(chunk)
    PROVE  /\ stream' \in Seq(StreamChunk)
           /\ number \in Nat
           /\ DOMAIN stream = 1..(number - 1)
           /\ DOMAIN stream' = DOMAIN stream \cup {number}
           /\ \A n \in DOMAIN stream : stream'[n] = stream[n] /\ n < number /\ n \in Nat
           /\ stream'[number] = chunk
           /\ result.state = "pending" /\ number \notin DOMAIN stream
<1>1. stream \in Seq(StreamChunk) /\ stream' = Append(stream, chunk) BY DEF StreamTypes, Receive
<1>2. /\ stream' \in Seq(StreamChunk) /\ Len(stream) \in Nat
      /\ DOMAIN stream = 1..Len(stream) /\ DOMAIN stream' = 1..(Len(stream) + 1)
      /\ \A i \in 1..Len(stream) : stream'[i] = stream[i]
      /\ stream'[Len(stream) + 1] = chunk
  BY <1>1
<1>3. result.state = "pending" BY DEF Receive, Pending, Settled
<1>4. QED BY <1>2, <1>3 DEF number

LEMMA KindsReceived ==
    ASSUME StreamTypes, NEW chunk \in StreamChunk, Receive(chunk)
    PROVE  /\ \A kind : OfKind(kind)' = IF chunk.kind = kind THEN OfKind(kind) \cup {number}
                                         ELSE OfKind(kind)
           /\ \A kind : OfKind(kind) \subseteq Nat /\ \A n \in OfKind(kind) : n < number
<1>1. \A kind : OfKind(kind)' = {n \in DOMAIN stream' : stream'[n].kind = kind} BY DEF OfKind
<1>2. QED BY Received, <1>1 DEF OfKind

LEMMA OthersUntouched ==
    ASSUME StreamTypes, NEW chunk \in StreamChunk, Receive(chunk), chunk.kind # "call",
           Accumulated, UNCHANGED toolCallsByIndex
    PROVE  /\ SentIndices' = SentIndices
           /\ \A i \in SentIndices : IsSentCall(toolCallsByIndex[i], i)'
<1>1. OfKind("call")' = OfKind("call") BY KindsReceived
<1>2. \A n \in OfKind("call") : stream'[n] = stream[n] BY Received DEF OfKind
<1>3. SentIndices' = SentIndices BY <1>1, <1>2 DEF SentIndices
<1>4. \A i : OfCall(i)' = OfCall(i) BY <1>1, <1>2 DEF OfCall
<1>5. \A i : \A n \in OfCall(i) : stream'[n] = stream[n] BY <1>2 DEF OfCall
<1>6. SUFFICES ASSUME NEW i \in SentIndices PROVE IsSentCall(toolCallsByIndex[i], i)'
  BY <1>3
<1>7. /\ {n \in OfCall(i)' : stream'[n].delta.id} = {n \in OfCall(i) : stream[n].delta.id}
      /\ {n \in OfCall(i)' : stream'[n].delta.name} = {n \in OfCall(i) : stream[n].delta.name}
      /\ {n \in OfCall(i)' : stream'[n].delta.arguments} = {n \in OfCall(i) : stream[n].delta.arguments}
  BY <1>4, <1>5
<1>8. IsSentCall(toolCallsByIndex[i], i) BY DEF Accumulated
<1>9. QED BY <1>7, <1>8 DEF IsSentCall, IsLatest, InOrder

-----------------------------------------------------------------------------
\* A finite set of naturals can be sorted: the element of rank k is the k-th.
LEMMA CanBeSorted ==
    ASSUME NEW D \in SUBSET Nat, IsFiniteSet(D)
    PROVE  \E q \in [1..Cardinality(D) -> D] :
               \A j, k \in DOMAIN q : j < k => q[j] < q[k]
<1> DEFINE UpTo(i) == {j \in D : j <= i}
           n == Cardinality(D)
           Rank == [i \in D |-> Cardinality(UpTo(i))]
<1>1. n \in Nat BY FS_CardinalityType
<1>2. \A i \in D : IsFiniteSet(UpTo(i)) /\ Cardinality(UpTo(i)) <= n BY FS_Subset
<1>3. \A i \in D : Cardinality(UpTo(i)) \in 1..n
  <2>1. TAKE i \in D
  <2>2. Cardinality(UpTo(i)) \in Nat BY <1>2, FS_CardinalityType
  <2>3. i \in UpTo(i) OBVIOUS
  <2>4. Cardinality(UpTo(i)) # 0 BY <1>2, <2>3, FS_EmptySet
  <2>5. QED BY <1>1, <1>2, <2>2, <2>4
<1>4. \A i, j \in D : i < j => Rank[i] < Rank[j]
  <2>1. SUFFICES ASSUME NEW i \in D, NEW j \in D, i < j PROVE Rank[i] < Rank[j] OBVIOUS
  <2>2. UpTo(i) \in SUBSET UpTo(j) /\ j \in UpTo(j) /\ j \notin UpTo(i)
    <3>1. i \in Nat /\ j \in Nat /\ \A m \in D : m \in Nat OBVIOUS
    <3>2. \A m \in D : m <= i => m <= j BY <2>1, <3>1
    <3>3. j <= j /\ ~(j <= i) BY <2>1, <3>1
    <3>4. QED BY <3>2, <3>3
  <2>3. UpTo(i) # UpTo(j) BY <2>2
  <2>4. Cardinality(UpTo(i)) <= Cardinality(UpTo(j))
        /\ Cardinality(UpTo(i)) # Cardinality(UpTo(j))
    BY <1>2, <2>2, <2>3, FS_Subset
  <2> HIDE DEF UpTo
  <2>5. QED BY <1>3, <2>4
<1>5. Rank \in Surjection(D, 1..n)
  <2>1. Rank \in [D -> 1..n] BY <1>3
  <2> HIDE DEF Rank
  <2>2. \A i, j \in D : Rank[i] = Rank[j] => i = j
    <3>1. SUFFICES ASSUME NEW i \in D, NEW j \in D, i # j PROVE Rank[i] # Rank[j] OBVIOUS
    <3>2. i < j \/ j < i BY <3>1
    <3>3. Rank[i] \in 1..n /\ Rank[j] \in 1..n BY <2>1
    <3>4. QED BY <1>1, <1>4, <3>2, <3>3
  <2>3. Rank \in Injection(D, 1..n) BY <2>1, <2>2 DEF Injection, IsInjective
  <2>4. IsFiniteSet(1..n) /\ Cardinality(1..n) = n BY <1>1, FS_Interval
  <2>5. QED BY <2>3, <2>4, FS_Injection
<1> DEFINE q == [k \in 1..n |-> CHOOSE i \in D : Rank[i] = k]
<1>6. \A k \in 1..n : q[k] \in D /\ Rank[q[k]] = k
  <2> HIDE DEF Rank
  <2>1. QED BY <1>5 DEF Surjection
<1>7. q \in [1..n -> D] BY <1>6
<1>8. \A j, k \in 1..n : j < k => q[j] < q[k]
  <2>1. SUFFICES ASSUME NEW j \in 1..n, NEW k \in 1..n, j < k PROVE q[j] < q[k] OBVIOUS
  <2> HIDE DEF Rank, q
  <2>2. q[j] \in Nat /\ q[k] \in Nat BY <1>6
  <2>3. j \in Int /\ k \in Int BY <1>1
  <2>4. ~(q[k] < q[j])
    <3>1. q[j] \in D /\ q[k] \in D /\ Rank[q[j]] = j /\ Rank[q[k]] = k BY <1>6
    <3>2. q[k] < q[j] => k < j BY <1>4, <3>1
    <3>3. QED BY <2>1, <2>3, <3>2
  <2>5. q[k] # q[j] BY <1>6, <2>1, <2>3
  <2>6. QED BY <2>2, <2>4, <2>5
<1>9. DOMAIN q = 1..n OBVIOUS
<1>10. QED
  <2> HIDE DEF q
  <2>1. QED BY <1>7, <1>8, <1>9

\* In one way only: what is sorted at k is the element of rank k.
LEMMA SortedByRank ==
    ASSUME NEW D \in SUBSET Nat, IsFiniteSet(D),
           NEW q \in [1..Cardinality(D) -> D],
           \A j, k \in DOMAIN q : j < k => q[j] < q[k],
           NEW i \in D
    PROVE  LET rank == Cardinality({j \in D : j <= i})
           IN  rank \in 1..Cardinality(D) /\ q[rank] = i
<1> DEFINE n == Cardinality(D)
<1>1. n \in Nat BY FS_CardinalityType
<1>2. \A j, k \in 1..n : j < k => q[j] < q[k] OBVIOUS
<1>3. \A j \in 1..n : q[j] \in Nat OBVIOUS
<1>4. \A j, k \in 1..n : q[j] = q[k] => j = k
  <2>1. SUFFICES ASSUME NEW j \in 1..n, NEW k \in 1..n, j # k PROVE q[j] # q[k] OBVIOUS
  <2>2. j < k \/ k < j BY <1>1, <2>1
  <2>3. QED BY <1>2, <1>3, <2>2
<1>5. q \in Surjection(1..n, D)
  <2>1. q \in Injection(1..n, D) BY <1>4 DEF Injection, IsInjective
  <2>2. IsFiniteSet(1..n) /\ Cardinality(1..n) = n BY <1>1, FS_Interval
  <2>3. QED BY <2>1, <2>2, FS_Injection
<1>6. PICK k \in 1..n : q[k] = i BY <1>5 DEF Surjection
<1> DEFINE Below == {j \in D : j <= i}
           f == [m \in 1..k |-> q[m]]
<1>7. k \in Nat /\ k <= n BY <1>1
<1>8. \A m \in 1..k : m \in 1..n /\ q[m] <= i
  <2>1. TAKE m \in 1..k
  <2>2. m \in 1..n /\ (m < k \/ m = k) BY <1>1, <1>7
  <2>3. QED BY <1>2, <1>3, <1>6, <2>2
<1>9. f \in Injection(1..k, Below) BY <1>4, <1>8 DEF Injection, IsInjective
<1>10. f \in Surjection(1..k, Below)
  <2>1. SUFFICES ASSUME NEW j \in Below PROVE \E m \in 1..k : q[m] = j
    BY <1>8 DEF Surjection
  <2>2. PICK m \in 1..n : q[m] = j BY <1>5 DEF Surjection
  <2>3. ~(k < m) BY <1>2, <1>3, <1>6, <2>2
  <2>4. m \in 1..k BY <1>1, <1>7, <2>3
  <2>5. QED BY <2>2, <2>4
<1>11. ExistsBijection(1..k, Below)
  <2> HIDE DEF f, Below
  <2>1. QED BY <1>9, <1>10 DEF ExistsBijection, Bijection
<1>12. IsFiniteSet(1..k) /\ Cardinality(1..k) = k BY <1>7, FS_Interval
<1>13. Cardinality(Below) = k
  <2> HIDE DEF Below
  <2>1. QED BY <1>11, <1>12, FS_Bijection
<1>14. QED BY <1>6, <1>13

-----------------------------------------------------------------------------
LEMMA StreamStart == StreamInit => StreamInv
<1> SUFFICES ASSUME StreamInit PROVE StreamInv OBVIOUS
<1>1. stream = <<>> /\ content = <<>> /\ toolCallsByIndex = <<>> /\ usage = 0
      /\ result.state = "pending"
  BY DEF StreamInit, Pending, Settled
<1>2. DOMAIN stream = {} /\ DOMAIN content = {} /\ DOMAIN toolCallsByIndex = {} BY <1>1
<1>3. \A kind : OfKind(kind) = {} BY <1>2 DEF OfKind
<1>4. StreamTypes
  <2>1. IsFiniteSet(DOMAIN toolCallsByIndex) BY <1>2, FS_EmptySet
  <2>2. stream \in Seq(StreamChunk) /\ content \in Seq(Nat) /\ usage \in Nat BY <1>1
  <2>3. toolCallsByIndex = [i \in DOMAIN toolCallsByIndex |-> toolCallsByIndex[i]]
    BY <1>1, <1>2
  <2>4. QED BY <1>2, <2>1, <2>2, <2>3 DEF StreamTypes
<1>5. Accumulated
  <2>1. ToSet(content) = {} BY <1>2 DEF ToSet
  <2>2. SentIndices = {} BY <1>3 DEF SentIndices
  <2>3. QED BY <1>1, <1>2, <1>3, <2>1, <2>2 DEF Accumulated, InOrder, IsLatest
<1>6. QED BY <1>1, <1>4, <1>5 DEF StreamInv, AnswerIsWhole

LEMMA ContentReceived == StreamInv /\ ReceiveContent => StreamInv'
<1> SUFFICES ASSUME StreamInv, ReceiveContent PROVE StreamInv' OBVIOUS
<1>1. StreamTypes /\ Accumulated BY DEF StreamInv
<1>2. Receive(ContentChunk) /\ ContentChunk \in StreamChunk
      /\ ContentChunk.kind = "content"
  BY DEF ReceiveContent, StreamChunk, ContentChunk
<1>3. content' = Append(content, number)
      /\ UNCHANGED <<toolCallsByIndex, usage, result>>
  BY DEF ReceiveContent
<1>4. OfKind("content")' = OfKind("content") \cup {number}
      /\ OfKind("usage")' = OfKind("usage")
      /\ OfKind("content") \subseteq Nat /\ \A n \in OfKind("content") : n < number
  BY <1>1, <1>2, KindsReceived
<1>5. stream' \in Seq(StreamChunk) /\ number \in Nat /\ result.state = "pending"
  BY <1>1, <1>2, Received
<1>6. content' \in Seq(Nat) /\ InOrder(content, OfKind("content"))'
  <2>1. content \in Seq(Nat) /\ InOrder(content, OfKind("content"))
    BY <1>1 DEF StreamTypes, Accumulated
  <2>2. Append(content, number) \in Seq(Nat)
        /\ InOrder(Append(content, number), OfKind("content") \cup {number})
    BY <1>4, <1>5, <2>1, InOrderAppend
  <2>3. QED BY <1>3, <1>4, <2>2 DEF InOrder
<1>7. StreamTypes' BY <1>1, <1>3, <1>5, <1>6 DEF StreamTypes
<1>8. SentIndices' = SentIndices
      /\ \A i \in SentIndices : IsSentCall(toolCallsByIndex[i], i)'
  BY <1>1, <1>2, <1>3, OthersUntouched
<1>9. Accumulated'
  <2>1. IsLatest(usage, OfKind("usage"))' BY <1>1, <1>3, <1>4 DEF Accumulated, IsLatest
  <2>2. QED BY <1>1, <1>3, <1>6, <1>8, <2>1 DEF Accumulated
<1>10. QED BY <1>3, <1>5, <1>7, <1>9 DEF StreamInv, AnswerIsWhole

LEMMA UsageReceived == StreamInv /\ ReceiveUsage => StreamInv'
<1> SUFFICES ASSUME StreamInv, ReceiveUsage PROVE StreamInv' OBVIOUS
<1>1. StreamTypes /\ Accumulated BY DEF StreamInv
<1>2. Receive(UsageChunk) /\ UsageChunk \in StreamChunk /\ UsageChunk.kind = "usage"
  BY DEF ReceiveUsage, StreamChunk, UsageChunk
<1>3. usage' = number /\ UNCHANGED <<toolCallsByIndex, content, result>>
  BY DEF ReceiveUsage
<1>4. OfKind("usage")' = OfKind("usage") \cup {number}
      /\ OfKind("content")' = OfKind("content")
      /\ OfKind("usage") \subseteq Nat /\ \A n \in OfKind("usage") : n < number
  BY <1>1, <1>2, KindsReceived
<1>5. stream' \in Seq(StreamChunk) /\ number \in Nat /\ result.state = "pending"
  BY <1>1, <1>2, Received
<1>6. StreamTypes' BY <1>1, <1>3, <1>5 DEF StreamTypes
<1>7. SentIndices' = SentIndices
      /\ \A i \in SentIndices : IsSentCall(toolCallsByIndex[i], i)'
  BY <1>1, <1>2, <1>3, OthersUntouched
<1>8. Accumulated'
  <2>1. IsLatest(number, OfKind("usage") \cup {number}) BY <1>4, <1>5, IsLatestAdded
  <2>2. IsLatest(usage, OfKind("usage"))' BY <1>3, <1>4, <2>1 DEF IsLatest
  <2>3. InOrder(content, OfKind("content"))' BY <1>1, <1>3, <1>4 DEF Accumulated, InOrder
  <2>4. QED BY <1>1, <1>3, <1>7, <2>2, <2>3 DEF Accumulated
<1>9. QED BY <1>3, <1>5, <1>6, <1>8 DEF StreamInv, AnswerIsWhole

-----------------------------------------------------------------------------
LEMMA AppendIf ==
    ASSUME NEW q \in Seq(Nat), NEW S \in SUBSET Nat, InOrder(q, S),
           NEW n \in Nat, \A m \in S : m < n, NEW sent \in BOOLEAN
    PROVE  LET r == IF sent THEN Append(q, n) ELSE q
           IN  r \in Seq(Nat) /\ InOrder(r, S \cup (IF sent THEN {n} ELSE {}))
<1>1. CASE sent
  <2>1. (IF sent THEN {n} ELSE {}) = {n} BY <1>1
  <2>2. QED BY <1>1, <2>1, InOrderAppend
<1>2. CASE ~sent
  <2>1. S \cup (IF sent THEN {n} ELSE {}) = S BY <1>2
  <2>2. QED BY <1>2, <2>1
<1>3. QED BY <1>1, <1>2

LEMMA LatestIf ==
    ASSUME NEW v \in Nat, NEW S \in SUBSET Nat, IsLatest(v, S),
           NEW n \in Nat, \A m \in S : m < n, NEW sent \in BOOLEAN
    PROVE  LET w == IF sent THEN n ELSE v
           IN  w \in Nat /\ IsLatest(w, S \cup (IF sent THEN {n} ELSE {}))
<1>1. CASE sent
  <2>1. (IF sent THEN {n} ELSE {}) = {n} BY <1>1
  <2>2. QED BY <1>1, <2>1, IsLatestAdded
<1>2. CASE ~sent
  <2>1. S \cup (IF sent THEN {n} ELSE {}) = S BY <1>2
  <2>2. QED BY <1>2, <2>1
<1>3. QED BY <1>1, <1>2

\* What a call is accumulated onto is what was sent of it before: nothing, if
\* its index is new.
LEMMA ExistingIsSent ==
    ASSUME StreamTypes, Accumulated, NEW i
    PROVE  existing(i) \in AccumulatingToolCall /\ IsSentCall(existing(i), i)
<1>1. CASE i \in DOMAIN toolCallsByIndex
  BY <1>1 DEF existing, StreamTypes, Accumulated
<1>2. CASE i \notin DOMAIN toolCallsByIndex
  <2>1. existing(i) = [id |-> 0, name |-> <<>>, arguments |-> <<>>] BY <1>2 DEF existing
  <2>2. <<>> \in Seq(Nat) /\ DOMAIN <<>> = {} /\ 0 \in Nat OBVIOUS
  <2>3. OfCall(i) = {} BY <1>2 DEF Accumulated, SentIndices, OfCall
  <2>4. ToSet(<<>>) = {} BY <2>2 DEF ToSet
  <2>5. IsSentCall(existing(i), i)
    BY <2>1, <2>2, <2>3, <2>4 DEF IsSentCall, IsLatest, InOrder
  <2>6. QED BY <2>1, <2>2, <2>5 DEF AccumulatingToolCall
<1>3. QED BY <1>1, <1>2

LEMMA CallReceived ==
    ASSUME StreamInv, NEW chunk \in CallChunks, ReceiveCall(chunk)
    PROVE  StreamInv'
<1> DEFINE index == chunk.index
           delta == chunk.delta
           old == existing(index)
           new == accumulate(old, delta)
           Ids == {n \in OfCall(index) : stream[n].delta.id}
           Names == {n \in OfCall(index) : stream[n].delta.name}
           Arguments == {n \in OfCall(index) : stream[n].delta.arguments}
<1>1. StreamTypes /\ Accumulated BY DEF StreamInv
<1>2. Receive(chunk) /\ chunk \in StreamChunk /\ chunk.kind = "call"
      /\ index \in Indices /\ delta \in CallDeltas
  BY DEF ReceiveCall, StreamChunk, CallChunks
<1>3. index \in Nat /\ delta \in [id : BOOLEAN, name : BOOLEAN, arguments : BOOLEAN]
  BY <1>2, IndicesAreNaturals, DeltasAreParts
<1>4. /\ toolCallsByIndex' =
           [i \in DOMAIN toolCallsByIndex \cup {index} |->
               IF i = index THEN accumulate(existing(i), delta) ELSE toolCallsByIndex[i]]
      /\ UNCHANGED <<content, usage, result>>
  BY DEF ReceiveCall
<1>5. /\ OfKind("call")' = OfKind("call") \cup {number}
      /\ OfKind("usage")' = OfKind("usage")
      /\ OfKind("content")' = OfKind("content")
      /\ OfKind("call") \subseteq Nat /\ \A n \in OfKind("call") : n < number
  BY <1>1, <1>2, KindsReceived
<1>6. /\ stream' \in Seq(StreamChunk) /\ number \in Nat /\ result.state = "pending"
      /\ stream'[number] = chunk /\ number \notin DOMAIN stream
      /\ \A n \in DOMAIN stream : stream'[n] = stream[n]
  BY <1>1, <1>2, Received
<1>7. \A n \in OfKind("call") : stream'[n] = stream[n] BY <1>6 DEF OfKind
<1>8. SentIndices' = SentIndices \cup {index}
  BY <1>5, <1>6, <1>7 DEF SentIndices
<1>9. /\ OfCall(index)' = OfCall(index) \cup {number}
      /\ \A i : i # index => OfCall(i)' = OfCall(i)
      /\ \A i : \A n \in OfCall(i) : stream'[n] = stream[n] /\ n \in Nat /\ n < number
  BY <1>5, <1>6, <1>7 DEF OfCall
<1>10. old \in AccumulatingToolCall /\ IsSentCall(old, index)
  BY <1>1, ExistingIsSent
<1>11. /\ Ids \in SUBSET Nat /\ Names \in SUBSET Nat /\ Arguments \in SUBSET Nat
       /\ \A m \in Ids : m < number
       /\ \A m \in Names : m < number
       /\ \A m \in Arguments : m < number
  BY <1>9
<1>12. /\ old.id \in Nat /\ old.name \in Seq(Nat) /\ old.arguments \in Seq(Nat)
       /\ delta.id \in BOOLEAN /\ delta.name \in BOOLEAN /\ delta.arguments \in BOOLEAN
  BY <1>3, <1>10 DEF AccumulatingToolCall
<1>13. /\ IsLatest(old.id, Ids) /\ InOrder(old.name, Names)
       /\ InOrder(old.arguments, Arguments)
  BY <1>10 DEF IsSentCall
<1>14. /\ {n \in OfCall(index)' : stream'[n].delta.id}
             = Ids \cup (IF delta.id THEN {number} ELSE {})
       /\ {n \in OfCall(index)' : stream'[n].delta.name}
             = Names \cup (IF delta.name THEN {number} ELSE {})
       /\ {n \in OfCall(index)' : stream'[n].delta.arguments}
             = Arguments \cup (IF delta.arguments THEN {number} ELSE {})
  BY <1>6, <1>9
<1>15. /\ new.id = IF delta.id THEN number ELSE old.id
       /\ new.name = IF delta.name THEN Append(old.name, number) ELSE old.name
       /\ new.arguments = IF delta.arguments THEN Append(old.arguments, number)
                          ELSE old.arguments
       /\ new = [id |-> new.id, name |-> new.name, arguments |-> new.arguments]
  BY DEF accumulate
<1> HIDE DEF old, new, Ids, Names, Arguments, delta
<1>16. new.id \in Nat /\ IsLatest(new.id, Ids \cup (IF delta.id THEN {number} ELSE {}))
  <2>1. PICK sent \in BOOLEAN : sent = delta.id BY <1>12
  <2>2. PICK v \in Nat : v = old.id BY <1>12
  <2>3. new.id = IF sent THEN number ELSE v BY <1>15, <2>1, <2>2
  <2>4. IsLatest(v, Ids) BY <1>13, <2>2
  <2>5. new.id \in Nat /\ IsLatest(new.id, Ids \cup (IF sent THEN {number} ELSE {}))
    BY <1>6, <1>11, <2>3, <2>4, LatestIf
  <2>6. QED BY <2>1, <2>5
<1>17. new.name \in Seq(Nat)
       /\ InOrder(new.name, Names \cup (IF delta.name THEN {number} ELSE {}))
  <2>1. PICK sent \in BOOLEAN : sent = delta.name BY <1>12
  <2>2. PICK q \in Seq(Nat) : q = old.name BY <1>12
  <2>3. new.name = IF sent THEN Append(q, number) ELSE q BY <1>15, <2>1, <2>2
  <2>4. InOrder(q, Names) BY <1>13, <2>2
  <2>5. Names \in SUBSET Nat /\ number \in Nat /\ \A m \in Names : m < number BY <1>6, <1>11
  <2>6. LET r == IF sent THEN Append(q, number) ELSE q
        IN  r \in Seq(Nat) /\ InOrder(r, Names \cup (IF sent THEN {number} ELSE {}))
    BY <2>4, <2>5, AppendIf, Zenon
  <2>7. QED BY <2>1, <2>3, <2>6
<1>18. new.arguments \in Seq(Nat)
       /\ InOrder(new.arguments, Arguments \cup (IF delta.arguments THEN {number} ELSE {}))
  <2>1. PICK sent \in BOOLEAN : sent = delta.arguments BY <1>12
  <2>2. PICK q \in Seq(Nat) : q = old.arguments BY <1>12
  <2>3. new.arguments = IF sent THEN Append(q, number) ELSE q BY <1>15, <2>1, <2>2
  <2>4. InOrder(q, Arguments) BY <1>13, <2>2
  <2>5. Arguments \in SUBSET Nat /\ number \in Nat /\ \A m \in Arguments : m < number BY <1>6, <1>11
  <2>6. LET r == IF sent THEN Append(q, number) ELSE q
        IN  r \in Seq(Nat) /\ InOrder(r, Arguments \cup (IF sent THEN {number} ELSE {}))
    BY <2>4, <2>5, AppendIf, Zenon
  <2>7. QED BY <2>1, <2>3, <2>6
<1>19. new \in AccumulatingToolCall BY <1>15, <1>16, <1>17, <1>18 DEF AccumulatingToolCall
<1>20. /\ DOMAIN toolCallsByIndex' = DOMAIN toolCallsByIndex \cup {index}
       /\ toolCallsByIndex'[index] = new
       /\ \A i \in DOMAIN toolCallsByIndex :
            i # index => toolCallsByIndex'[i] = toolCallsByIndex[i]
  BY <1>4 DEF new, old, delta
<1>21. StreamTypes'
  <2>1. IsFiniteSet(DOMAIN toolCallsByIndex \cup {index})
    BY <1>1, FS_AddElement DEF StreamTypes
  <2>2. toolCallsByIndex' = [i \in DOMAIN toolCallsByIndex' |-> toolCallsByIndex'[i]]
    BY <1>4
  <2>3. \A i \in DOMAIN toolCallsByIndex' : toolCallsByIndex'[i] \in AccumulatingToolCall
    BY <1>1, <1>19, <1>20 DEF StreamTypes
  <2>4. content' \in Seq(Nat) /\ usage' \in Nat BY <1>1, <1>4 DEF StreamTypes
  <2>5. DOMAIN toolCallsByIndex' \subseteq Nat BY <1>1, <1>3, <1>20 DEF StreamTypes
  <2>6. QED BY <1>6, <1>20, <2>1, <2>2, <2>3, <2>4, <2>5 DEF StreamTypes
<1>22. \A i \in SentIndices' : IsSentCall(toolCallsByIndex[i], i)'
  <2>1. SUFFICES ASSUME NEW i \in SentIndices' PROVE IsSentCall(toolCallsByIndex[i], i)'
    OBVIOUS
  <2>2. CASE i = index
    <3>1. /\ IsLatest(new.id, {n \in OfCall(i)' : stream'[n].delta.id})
          /\ InOrder(new.name, {n \in OfCall(i)' : stream'[n].delta.name})
          /\ InOrder(new.arguments, {n \in OfCall(i)' : stream'[n].delta.arguments})
      BY <1>14, <1>16, <1>17, <1>18, <2>2
    <3>2. toolCallsByIndex'[i] = new BY <1>20, <2>2
    <3>3. QED BY <3>1, <3>2 DEF IsSentCall, IsLatest, InOrder
  <2>3. CASE i # index
    <3>1. i \in SentIndices /\ i \in DOMAIN toolCallsByIndex
      BY <1>1, <1>8, <2>1, <2>3 DEF Accumulated
    <3>2. IsSentCall(toolCallsByIndex[i], i) BY <1>1, <3>1 DEF Accumulated
    <3>3. toolCallsByIndex'[i] = toolCallsByIndex[i] BY <1>20, <2>3, <3>1
    <3>4. OfCall(i)' = OfCall(i) /\ \A n \in OfCall(i) : stream'[n] = stream[n]
      BY <1>9, <2>3
    <3>5. /\ {n \in OfCall(i)' : stream'[n].delta.id} = {n \in OfCall(i) : stream[n].delta.id}
          /\ {n \in OfCall(i)' : stream'[n].delta.name} = {n \in OfCall(i) : stream[n].delta.name}
          /\ {n \in OfCall(i)' : stream'[n].delta.arguments}
               = {n \in OfCall(i) : stream[n].delta.arguments}
      BY <3>4
    <3>6. QED BY <3>2, <3>3, <3>5 DEF IsSentCall, IsLatest, InOrder
  <2>4. QED BY <2>2, <2>3
<1>23. Accumulated'
  <2>1. IsLatest(usage, OfKind("usage"))' BY <1>1, <1>4, <1>5 DEF Accumulated, IsLatest
  <2>2. InOrder(content, OfKind("content"))' BY <1>1, <1>4, <1>5 DEF Accumulated, InOrder
  <2>3. DOMAIN toolCallsByIndex' = SentIndices' BY <1>1, <1>8, <1>20 DEF Accumulated
  <2>4. QED BY <1>22, <2>1, <2>2, <2>3 DEF Accumulated
<1>24. QED BY <1>4, <1>6, <1>21, <1>23 DEF StreamInv, AnswerIsWhole

-----------------------------------------------------------------------------
LEMMA SameStream ==
    ASSUME StreamInv, UNCHANGED <<stream, content, toolCallsByIndex, usage>>
    PROVE  /\ StreamTypes' /\ Accumulated' /\ SentIndices' = SentIndices
           /\ \A kind : OfKind(kind)' = OfKind(kind)
           /\ \A i : OfCall(i)' = OfCall(i)
<1>1. \A kind : OfKind(kind)' = OfKind(kind) BY DEF OfKind
<1>2. \A i : OfCall(i)' = OfCall(i) BY <1>1 DEF OfCall
<1>3. SentIndices' = SentIndices BY <1>1 DEF SentIndices
<1>4. StreamTypes' BY DEF StreamInv, StreamTypes
<1>5. Accumulated'
  BY <1>1, <1>2, <1>3 DEF StreamInv, Accumulated, InOrder, IsLatest, IsSentCall
<1>6. QED BY <1>1, <1>2, <1>3, <1>4, <1>5

LEMMA AnswerKept ==
    ASSUME StreamInv, UNCHANGED streamVars
    PROVE  AnswerIsWhole'
<1> UNCHANGED <<stream, content, toolCallsByIndex, usage, result>> BY DEF streamVars
<1>1. SUFFICES ASSUME result'.state = "resolved" PROVE AnswerIsWhole' BY DEF AnswerIsWhole
<1>2. /\ SentIndices' = SentIndices
      /\ \A kind : OfKind(kind)' = OfKind(kind)
      /\ \A i : OfCall(i)' = OfCall(i)
  BY SameStream
<1>3. /\ InOrder(result.content, OfKind("content"))
      /\ IsLatest(result.usage, OfKind("usage"))
      /\ Len(result.calls) = Cardinality(SentIndices)
      /\ \A i \in SentIndices :
           IsSentCall(result.calls[Cardinality({j \in SentIndices : j <= i})], i)
  BY <1>1 DEF StreamInv, AnswerIsWhole
<1>4. InOrder(result.content, OfKind("content"))' BY <1>2, <1>3 DEF InOrder
<1>5. IsLatest(result.usage, OfKind("usage"))' BY <1>2, <1>3 DEF IsLatest
<1>6. Len(result'.calls) = Cardinality(SentIndices') BY <1>2, <1>3
<1>7. ASSUME NEW i \in SentIndices'
      PROVE IsSentCall(result.calls[Cardinality({j \in SentIndices : j <= i})], i)'
  <2> DEFINE rank == Cardinality({j \in SentIndices : j <= i})
  <2>1. IsSentCall(result.calls[rank], i) BY <1>2, <1>3, <1>7
  <2>2. rank' = rank BY <1>2
  <2> HIDE DEF rank
  <2>3. IsSentCall(result.calls[rank], i)'
    BY <1>2, <2>1, <2>2 DEF IsSentCall, InOrder, IsLatest
  <2>4. QED BY <2>3 DEF rank
<1>8. QED BY <1>4, <1>5, <1>6, <1>7 DEF AnswerIsWhole

\* The end of the stream: what was accumulated, in the order of the indices.
LEMMA AnswerSettles == StreamInv /\ StreamEnds => StreamInv'
<1> SUFFICES ASSUME StreamInv, StreamEnds PROVE StreamInv' OBVIOUS
<1> DEFINE indices == DOMAIN toolCallsByIndex
           sorted == CHOOSE q \in [1..Cardinality(indices) -> indices] :
                         \A j, k \in DOMAIN q : j < k => q[j] < q[k]
<1>1. StreamTypes /\ Accumulated BY DEF StreamInv
<1>2. /\ result' = [state |-> "resolved", content |-> content, calls |-> sortedCalls,
                    usage |-> usage]
      /\ UNCHANGED <<stream, content, toolCallsByIndex, usage>>
  BY DEF StreamEnds, Settled
<1>3. StreamTypes' /\ Accumulated'
  BY <1>2, SameStream
<1>4. indices \in SUBSET Nat /\ IsFiniteSet(indices) /\ indices = SentIndices
  BY <1>1 DEF StreamTypes, Accumulated
<1>5. Cardinality(indices) \in Nat BY <1>4, FS_CardinalityType
<1>6. /\ sorted \in [1..Cardinality(indices) -> indices]
      /\ \A j, k \in DOMAIN sorted : j < k => sorted[j] < sorted[k]
  <2> HIDE DEF indices
  <2>1. QED BY <1>4, CanBeSorted
<1>7. sortedCalls = [k \in DOMAIN sorted |-> toolCallsByIndex[sorted[k]]] BY DEF sortedCalls
<1>8. ASSUME NEW i \in indices
      PROVE  sortedCalls[Cardinality({j \in indices : j <= i})] = toolCallsByIndex[i]
  <2> HIDE DEF indices, sorted
  <2> DEFINE rank == Cardinality({j \in indices : j <= i})
  <2>1. rank \in 1..Cardinality(indices) /\ sorted[rank] = i
    BY <1>4, <1>6, <1>8, SortedByRank
  <2>2. rank \in DOMAIN sorted BY <1>6, <2>1
  <2> HIDE DEF rank
  <2>3. QED BY <1>7, <2>1, <2>2 DEF rank
<1>9. Len(sortedCalls) = Cardinality(indices)
  <2> HIDE DEF indices, sorted
  <2> DEFINE n == Cardinality(indices)
  <2>1. DOMAIN sortedCalls = 1..n /\ n \in Nat BY <1>5, <1>6, <1>7
  <2>2. sortedCalls \in Seq({toolCallsByIndex[sorted[k]] : k \in 1..n})
    BY <1>5, <1>6, <1>7
  <2>3. QED BY <2>1, <2>2
<1>10. AnswerIsWhole'
  <2>1. InOrder(result'.content, OfKind("content")') BY <1>2, <1>3 DEF Accumulated, InOrder
  <2>2. IsLatest(result'.usage, OfKind("usage")') BY <1>2, <1>3 DEF Accumulated, IsLatest
  <2>3. SentIndices' = SentIndices /\ DOMAIN toolCallsByIndex = SentIndices
    BY <1>1, <1>2, <1>3 DEF Accumulated
  <2>4. Len(result'.calls) = Cardinality(SentIndices') BY <1>2, <1>9, <2>3
  <2>5. \A i \in SentIndices' :
          result'.calls[Cardinality({j \in SentIndices' : j <= i})] = toolCallsByIndex'[i]
    BY <1>2, <1>8, <2>3
  <2>6. \A i \in SentIndices' : IsSentCall(toolCallsByIndex[i], i)' BY <1>3 DEF Accumulated
  <2>7. QED BY <2>1, <2>2, <2>4, <2>5, <2>6 DEF AnswerIsWhole, InOrder, IsLatest, IsSentCall
<1>11. QED BY <1>3, <1>10 DEF StreamInv

\* An answer that createChatCompletion resolves to is what was streamed, for
\* any number of chunks and of calls, in any order.
THEOREM AnswersAreWhole == StreamSpec => []AnswerIsWhole
<1>1. StreamInit => StreamInv BY StreamStart
<1>2. StreamInv /\ [StreamNext]_streamVars => StreamInv'
  <2> SUFFICES ASSUME StreamInv, [StreamNext]_streamVars PROVE StreamInv' OBVIOUS
  <2>1. CASE ReceiveContent BY <2>1, ContentReceived
  <2>2. CASE ReceiveUsage BY <2>2, UsageReceived
  <2>3. CASE \E chunk \in CallChunks : ReceiveCall(chunk) BY <2>3, CallReceived
  <2>4. CASE StreamEnds BY <2>4, AnswerSettles
  <2>5. CASE StreamBreaks \/ UNCHANGED streamVars
    <3>1. UNCHANGED <<stream, content, toolCallsByIndex, usage>>
          /\ (result' = result \/ result'.state = "rejected")
      BY <2>5 DEF StreamBreaks, Rejected, Settled, streamVars
    <3>2. StreamTypes' /\ Accumulated'
      BY <3>1, SameStream
    <3>3. AnswerIsWhole'
      <4>1. CASE result' = result BY <3>1, <4>1, AnswerKept DEF streamVars
      <4>2. CASE result'.state = "rejected" BY <4>2 DEF AnswerIsWhole
      <4>3. QED BY <3>1, <4>1, <4>2
    <3>4. QED BY <3>2, <3>3 DEF StreamInv
  <2>6. QED BY <2>1, <2>2, <2>3, <2>4, <2>5 DEF StreamNext
<1>3. StreamInv => AnswerIsWhole BY DEF StreamInv
<1>4. QED BY <1>1, <1>2, <1>3, PTL DEF StreamSpec
=============================================================================
