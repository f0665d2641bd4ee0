---------------------- MODULE ParallelAlgorithmsProofs ----------------------
(* The parallel algorithms for ranges of any length, any chunk size, any     *)
(* number of tasks: no task outlives its caller's frame, and no two threads  *)
(* write to the same element.                                                *)
EXTENDS ParallelAlgorithms, FiniteSetTheorems, TLAPS
-----------------------------------------------------------------------------
(* What every state has: the types, and each loop within its part.           *)
Calls == {"none", "ready", "deferred", "loop", "second", "returned", "threw"}
Given ==
    /\ algorithm \in Recursive \cup Chunked /\ n \in 0 .. MaxN
    /\ chunk_sz \in ChunkSizes /\ n_tasks \in Tasks
Types ==
    /\ Given
    /\ call \in [Parts -> Calls]
    /\ next \in [Parts -> Nat] /\ out \in [Parts -> Nat \cup {None}]
    /\ dst_idx \in Nat /\ joined \in Nat /\ new_end \in Nat /\ from \in Nat
    /\ main \in {"recursive", "launch", "join", "move", "unwind", "returned", "threw"}
    /\ main = "recursive" <=> algorithm \in Recursive
    /\ main = "move" => algorithm = "par_copy_if_split"
    /\ futures \in Seq(Parts) /\ joined <= Len(futures)
    /\ main = "join" => joined < Len(futures)
    /\ main = "move" => joined > 0
    /\ main = "launch" => joined = 0
InPart == \A p \in Parts : p[1] <= next[p] /\ next[p] <= p[2]
-----------------------------------------------------------------------------
(* The recursive algorithms: the started parts form a tree.                  *)
Active(p) == call[p] \in {"ready", "loop", "second"}
Started == {p \in Parts : call[p] # "none"}
Apart(p, q) == p[2] <= q[1] \/ q[2] <= p[1]
Within(p, q) == q[1] <= p[1] /\ p[2] <= q[2]
Divided(q) == ~Small(q) /\ call[q] \notin {"none", "ready", "deferred", "loop"}
InHalf(p, q) == Divided(q) /\ (Within(p, FirstHalf(q)) \/ Within(p, SecondHalf(q)))

\* Two started parts are apart, or one lies in a half of the other.
Laminar == \A p, q \in Started : p # q => Apart(p, q) \/ InHalf(p, q) \/ InHalf(q, p)
Shape ==
    /\ Root \in Started
    /\ \A p \in Started : p = Root \/ p[1] < p[2]
    /\ \A p \in Started : Within(p, Root)
    /\ \A p \in Started : call[p] = "second" =>
          ~Small(p) /\ FirstHalf(p) \in Started /\ SecondHalf(p) \in Started
    /\ \A p \in Started : call[p] = "loop" => Small(p)
\* Nothing runs within a part that is over.
Settled == \A q \in Started : IsOver(q) =>
    \A p \in Started : p # q /\ InHalf(p, q) => ~Active(p)
RecursiveInv == algorithm \in Recursive => Laminar /\ Shape /\ Settled
-----------------------------------------------------------------------------
(* The algorithms that cut chunks: the futures follow each other.            *)
ChunkedInv == algorithm \in Chunked =>
    /\ \A p \in Started : \E j \in DOMAIN futures : p = futures[j]
    /\ \A j \in DOMAIN futures : futures[j][1] < futures[j][2] /\ futures[j][2] <= Len(futures) * Chunk
    /\ \A j, k \in DOMAIN futures : j < k => futures[j][2] <= futures[k][1]
    /\ \A p \in Parts : call[p] # "second"
    /\ \A j \in 1 .. joined : IsOver(futures[j])
    /\ main = "returned" => joined = Len(futures)
    /\ main = "threw" => \A p \in Started : ~Active(p)
-----------------------------------------------------------------------------
(* Where the loops write, and how far the merge has come.                    *)
Claimed == algorithm = "par_copy_if_sync" =>
    /\ \A p \in Parts : out[p] # None => out[p] < dst_idx
    /\ \A p, q \in Parts : p # q /\ out[p] # None /\ out[q] # None => out[p] # out[q]
BehindRead == algorithm = "par_copy_if_split" =>
    \A p \in Parts : out[p] \in Nat /\ p[1] <= out[p] /\ out[p] <= next[p]
Merged == algorithm = "par_copy_if_split" =>
    /\ main = "move" => new_end <= from /\ from <= out[futures[joined]]
    /\ main = "join" /\ joined > 0 => new_end <= futures[joined][2]
ParallelInv == Types /\ InPart /\ RecursiveInv /\ ChunkedInv /\ Claimed /\ BehindRead /\ Merged
-----------------------------------------------------------------------------
(* Parts and their halves.                                                   *)
\* A part's two ends are numbers, in order.
LEMMA Ends == ASSUME NEW p \in Parts
              PROVE  p[1] \in Nat /\ p[2] \in Nat /\ p[1] <= p[2] /\ p[2] <= MaxN /\ p = <<p[1], p[2]>>
  BY SizesAssumption DEF Parts

\* A part that is not small has two halves, neither of them empty.
LEMMA Halves ==
    ASSUME Given, NEW p \in Parts, ~Small(p)
    PROVE  /\ FirstHalf(p) \in Parts /\ SecondHalf(p) \in Parts
           /\ FirstHalf(p)[1] = p[1] /\ SecondHalf(p)[2] = p[2]
           /\ FirstHalf(p)[2] = SecondHalf(p)[1]
           /\ p[1] < FirstHalf(p)[2] /\ FirstHalf(p)[2] < p[2]
           /\ FirstHalf(p) # p /\ SecondHalf(p) # p /\ FirstHalf(p) # SecondHalf(p)
  <1> DEFINE half == (p[2] - p[1]) \div 2
  <1>1. p[1] \in Nat /\ p[2] \in Nat /\ p[1] <= p[2] /\ p[2] <= MaxN /\ MaxN \in Nat
    BY Ends, SizesAssumption
  <1>2. p[2] - p[1] >= 2
    BY <1>1, SizesAssumption DEF Given, Small
  <1>3. half \in Nat /\ 0 < half /\ p[1] + half < p[2]
    BY <1>1, <1>2
  <1> HIDE DEF half
  <1>4. FirstHalf(p) = <<p[1], p[1] + half>> /\ SecondHalf(p) = <<p[1] + half, p[2]>>
    BY DEF FirstHalf, SecondHalf, half
  <1>5. FirstHalf(p) \in Parts /\ SecondHalf(p) \in Parts
    BY <1>1, <1>3, <1>4 DEF Parts
  <1>6. /\ FirstHalf(p)[1] = p[1] /\ SecondHalf(p)[2] = p[2]
        /\ FirstHalf(p)[2] = p[1] + half /\ SecondHalf(p)[1] = p[1] + half
    BY <1>4
  <1> QED
    BY <1>1, <1>3, <1>5, <1>6

\* The whole range is a part.
LEMMA RootIsPart == Given => Root \in Parts /\ Root[1] = 0 /\ Root[2] = n
  BY SizesAssumption DEF Given, Root, Parts
-----------------------------------------------------------------------------
(* The types.                                                                *)
\* The algorithms' loops, calls and callers start within their types.
LEMMA TypesInitially == Init => Types /\ InPart
  <1> SUFFICES ASSUME Init PROVE Types /\ InPart
    OBVIOUS
  <1>1. Given
    BY DEF Init, Given
  <1>2. \A p \in Parts : p[1] \in Nat /\ p[1] <= p[2]
    BY Ends
  <1>3. call \in [Parts -> Calls] /\ next \in [Parts -> Nat]
    BY <1>2 DEF Init, Calls
  <1>4. out \in [Parts -> Nat \cup {None}]
    BY <1>2 DEF Init
  <1>5. main \in {"recursive", "launch"} /\ (main = "recursive" <=> algorithm \in Recursive)
    BY DEF Init, Recursive, Chunked
  <1>6. futures \in Seq(Parts) /\ Len(futures) = 0
    BY DEF Init
  <1> QED
    BY <1>1, <1>2, <1>3, <1>4, <1>5, <1>6 DEF Types, InPart, Init

\* The next chunk is a part of the range, and not an empty one.
LEMMA NextChunk ==
    ASSUME Types, algorithm \in Chunked, Len(futures) * Chunk < n,
           NEW start, NEW stop,
           start = Len(futures) * Chunk, stop = IF start + Chunk < n THEN start + Chunk ELSE n
    PROVE  /\ <<start, stop>> \in Parts /\ Chunk \in Nat \ {0}
           /\ start < stop /\ stop <= (Len(futures) + 1) * Chunk
  <1>1. n \in Nat /\ n <= MaxN /\ n_tasks \in Nat \ {0} /\ chunk_sz \in Nat \ {0} /\ MaxN \in Nat
    BY SizesAssumption DEF Types, Given
  <1>2. Len(futures) \in Nat
    BY DEF Types
  <1>3. n > 0
    <2>1. CASE n = 0
      <3>1. (n + n_tasks - 1) \div n_tasks \in Nat
        BY <1>1
      <3>2. Chunk \in Nat
        BY <1>1, <3>1 DEF Chunk
      <3> QED
        BY <2>1, <1>2, <3>2
    <2> QED
      BY <1>1, <2>1
  <1>4. (n + n_tasks - 1) \div n_tasks \in Nat \ {0}
    BY <1>1, <1>3
  <1>5. Chunk \in Nat \ {0}
    BY <1>1, <1>4 DEF Chunk
  <1>6. (Len(futures) + 1) * Chunk = Len(futures) * Chunk + Chunk /\ Len(futures) * Chunk \in Nat
    BY <1>2, <1>5
  <1> HIDE DEF Chunk
  <1>7. start \in Nat /\ stop \in Nat /\ start < stop /\ stop <= n /\ stop <= start + Chunk
    BY <1>1, <1>5, <1>6
  <1> QED
    BY <1>1, <1>5, <1>6, <1>7 DEF Parts

\* No caller of chunks moves in an algorithm that recurses.
LEMMA ChunksAreChunked == Types /\ chunks => algorithm \in Chunked /\ algorithm \notin Recursive
  BY DEF Types, Given, Recursive, Chunked, chunks, LaunchChunk, AllLaunched, Join, RunDeferred, Move, Unwind

\* No step changes the arguments of the call.
LEMMA GivenKept ==
    ASSUME [Next]_vars
    PROVE  UNCHANGED <<algorithm, n, chunk_sz, n_tasks, keep, bad>> /\ (Given => Given')
  <1>1. given' = given
    <2>1. ASSUME NEW p \in Parts, part(p) PROVE given' = given
      BY <2>1 DEF part, Begin, Transform, Test, Claim, Write, EndOfLoop, Divide, Wait
    <2>2. ASSUME chunks PROVE given' = given
      BY <2>2 DEF chunks, LaunchChunk, AllLaunched, Join, RunDeferred, Move, Unwind
    <2> QED
      BY <2>1, <2>2 DEF Next, Ended, vars
  <1> QED
    BY <1>1 DEF given, Given, Recursive, Chunked

\* Every step keeps the types.
LEMMA TypesKept == Types /\ InPart /\ BehindRead /\ [Next]_vars => Types' /\ InPart'
  <1> SUFFICES ASSUME Types, InPart, BehindRead, [Next]_vars PROVE Types' /\ InPart'
    OBVIOUS
  <1> USE DEF Types, InPart, Calls
  <1>0. Given' /\ algorithm' = algorithm
    BY GivenKept
  <1>1. ASSUME NEW p \in Parts, part(p) PROVE Types' /\ InPart'
    <2>0. p[1] \in Nat /\ p[2] \in Nat
      BY Ends
    <2>1. CASE Begin(p)
      BY <1>0, <2>1 DEF Begin, leaf, memory, caller, merge
    <2>2. CASE Transform(p)
      BY <1>0, <2>0, <2>2 DEF Transform, Past, AtElement, caller, merge
    <2>3. CASE Test(p)
      <3>1. next' = [next EXCEPT ![p] = @ + 1] /\ next[p] < p[2]
        BY <2>3 DEF Test, Past, AtElement
      <3> QED
        BY <1>0, <2>0, <2>3, <3>1 DEF Test, memory, caller, merge
    <2>4. CASE Claim(p)
      BY <1>0, <2>4 DEF Claim, caller, merge
    <2>5. CASE Write(p)
      <3>1. out[p] \in Nat
        BY <2>5 DEF Write
      <3>2. next' = [next EXCEPT ![p] = @ + 1] /\ next[p] < p[2]
        BY <2>5 DEF Write, Past, AtElement
      <3>3. next' \in [Parts -> Nat] /\ InPart'
        BY <2>0, <3>2
      <3>4. out' \in [Parts -> Nat \cup {None}]
        BY <2>5, <3>1 DEF Write
      <3> QED
        BY <1>0, <2>5, <3>3, <3>4 DEF Write, caller, merge
    <2>6. CASE EndOfLoop(p)
      BY <1>0, <2>6 DEF EndOfLoop, leaf, memory, caller, merge
    <2>7. CASE Divide(p)
      <3>1. FirstHalf(p) \in Parts /\ SecondHalf(p) \in Parts
        BY <2>7, Halves DEF Divide
      <3>2. Launched \subseteq {"ready", "deferred"}
        BY DEF Launched
      <3>3. call' \in [Parts -> Calls]
        BY <2>7, <3>1, <3>2 DEF Divide
      <3> QED
        BY <1>0, <2>7, <3>3 DEF Divide, leaf, memory, caller, merge
    <2>8. CASE Wait(p)
      <3>1. call' \in [Parts -> Calls]
        <4>1. ASSUME call[FirstHalf(p)] \in Calls \/ ~Gets PROVE (IF Gets THEN call[FirstHalf(p)] ELSE "returned") \in Calls
          BY <4>1
        <4>2. IsOver(FirstHalf(p)) => call[FirstHalf(p)] \in Calls
          BY DEF IsOver
        <4> QED
          BY <2>8, <4>1, <4>2 DEF Wait
      <3> QED
        BY <1>0, <2>8, <3>1 DEF Wait, memory, caller, merge
    <2> QED
      BY <1>1, <2>1, <2>2, <2>3, <2>4, <2>5, <2>6, <2>7, <2>8 DEF part
  <1>2. ASSUME chunks PROVE Types' /\ InPart'
    <2>0. algorithm \in Chunked /\ algorithm \notin Recursive
      BY <1>2, ChunksAreChunked
    <2>1. CASE LaunchChunk
      <3> DEFINE start == Len(futures) * Chunk
                 stop == IF start + Chunk < n THEN start + Chunk ELSE n
      <3>1. <<start, stop>> \in Parts
        BY <2>0, <2>1, NextChunk DEF LaunchChunk
      <3>2. PICK launched \in Launched : call' = [call EXCEPT ![<<start, stop>>] = launched]
        BY <2>1 DEF LaunchChunk
      <3>3. futures' = Append(futures, <<start, stop>>)
        BY <2>1 DEF LaunchChunk
      <3> HIDE DEF start, stop
      <3>4. call' \in [Parts -> Calls]
        BY <3>1, <3>2 DEF Launched
      <3>5. futures' \in Seq(Parts) /\ Len(futures') = Len(futures) + 1
        BY <3>1, <3>3
      <3> QED
        BY <1>0, <2>1, <3>4, <3>5 DEF LaunchChunk, leaf, memory, merge
    <2>2. CASE AllLaunched
      <3>1. futures # <<>> => Len(futures) > 0
        OBVIOUS
      <3>2. main' \in {"join", "returned"} /\ (main' = "join" => joined' < Len(futures'))
        BY <2>2, <3>1 DEF AllLaunched
      <3> QED
        BY <1>0, <2>0, <2>2, <3>2 DEF AllLaunched, leaf, memory, merge
    <2>3. CASE Join
      <3>1. joined' \in Nat /\ joined' <= Len(futures') /\ joined' > 0
        BY <2>3 DEF Join
      <3>2. Joining \in Parts
        BY <2>3 DEF Join, Joining
      <3>3. Joining[1] \in Nat
        BY <3>2, Ends
      <3>4. new_end' \in Nat /\ from' \in Nat
        <4>1. Gets => out[Joining] \in Nat
          BY <2>0, <3>2 DEF BehindRead, Gets, Chunked
        <4> HIDE DEF Joining
        <4> QED
          BY <2>3, <3>3, <4>1 DEF Join, merge
      <3>5. /\ main' \in {"join", "move", "unwind", "returned"}
            /\ main' = "join" => joined' < Len(futures')
            /\ main' = "move" => algorithm = "par_copy_if_split"
        BY <2>0, <2>3, <3>1 DEF Join, Gets, Chunked
      <3> QED
        BY <1>0, <2>0, <2>3, <3>1, <3>4, <3>5 DEF Join, leaf, memory, given
    <2>4. CASE RunDeferred
      BY <1>0, <2>4 DEF RunDeferred, leaf, memory, caller, merge
    <2>5. CASE Move
      <3>1. new_end' \in Nat /\ from' \in Nat /\ UNCHANGED <<call, next, out, dst_idx, futures, joined>>
        BY <2>5 DEF Move, merge, leaf
      <3>2. main' \in {"move", "join", "returned"} /\ (main' = "join" => joined < Len(futures))
        BY <2>5 DEF Move
      <3>3. algorithm = "par_copy_if_split" /\ joined > 0
        BY <2>5 DEF Move
      <3> QED
        BY <1>0, <2>0, <3>1, <3>2, <3>3
    <2>6. CASE Unwind
      BY <1>0, <2>0, <2>6 DEF Unwind, leaf, memory, merge
    <2> QED
      BY <1>2, <2>1, <2>2, <2>3, <2>4, <2>5, <2>6 DEF chunks
  <1>3. CASE UNCHANGED vars
    BY <1>0, <1>3 DEF vars, leaf, memory, caller, merge
  <1> QED
    BY <1>1, <1>2, <1>3 DEF Next, Ended
-----------------------------------------------------------------------------
(* The tree of the recursive algorithms.                                     *)
\* What lies in a half of a part is shorter than the part, and not empty.
LEMMA Shorter ==
    ASSUME Types, Shape, NEW p \in Started, NEW q \in Started, ~Small(q),
           Within(p, FirstHalf(q)) \/ Within(p, SecondHalf(q))
    PROVE  p[1] < p[2] /\ Within(p, q) /\ p # q /\ ~Within(q, p)
  <1>1. p \in Parts /\ q \in Parts /\ Given
    BY DEF Started, Types
  <1>2. p[1] \in Nat /\ p[2] \in Nat /\ q[1] \in Nat /\ q[2] \in Nat
    BY <1>1, Ends
  <1>3. /\ FirstHalf(q)[1] = q[1] /\ SecondHalf(q)[2] = q[2] /\ FirstHalf(q)[2] = SecondHalf(q)[1]
        /\ q[1] < FirstHalf(q)[2] /\ FirstHalf(q)[2] < q[2] /\ FirstHalf(q)[2] \in Nat
    BY <1>1, Halves, Ends
  <1>4. Within(p, q) /\ ~Within(q, p)
    BY <1>2, <1>3 DEF Within
  <1>5. p # Root
    BY <1>4 DEF Shape
  <1> QED
    BY <1>4, <1>5 DEF Shape, Within

\* What lies in a half of a part and is not this half lies in a half of it.
LEMMA Descend ==
    ASSUME Types, Laminar, Shape, NEW q \in Started, ~Small(q), NEW h \in Started,
           h = FirstHalf(q) \/ h = SecondHalf(q), NEW p \in Started, Within(p, h), p # h
    PROVE  InHalf(p, h)
  <1>1. p \in Parts /\ q \in Parts /\ h \in Parts /\ Given
    BY DEF Started, Types
  <1>2. p[1] \in Nat /\ p[2] \in Nat /\ h[1] \in Nat /\ h[2] \in Nat
    BY <1>1, Ends
  <1>3. h[1] < h[2]
    BY <1>1, Halves
  <1>4. p[1] < p[2]
    BY Shorter
  <1>5. ~Apart(p, h)
    BY <1>2, <1>3, <1>4 DEF Apart, Within
  <1>6. ~InHalf(h, p)
    BY Shorter DEF InHalf, Divided
  <1> QED
    BY <1>5, <1>6 DEF Laminar

\* A half of a started part that has started lies in what the part lies in.
LEMMA HalvesInherit ==
    ASSUME Given, NEW p \in Parts, ~Small(p), NEW h \in {FirstHalf(p), SecondHalf(p)}, NEW q \in Parts
    PROVE  /\ Within(h, p) /\ h[1] < h[2] /\ ~Within(p, h) /\ h \in Parts
           /\ Apart(p, q) => Apart(h, q) /\ Apart(q, h)
           /\ Within(p, q) => Within(h, q)
           /\ InHalf(p, q) => InHalf(h, q)
  <1>1. p[1] \in Nat /\ p[2] \in Nat /\ q[1] \in Nat /\ q[2] \in Nat
    BY Ends
  <1>2. h \in Parts
    BY Halves
  <1>3. h[1] \in Nat /\ h[2] \in Nat
    BY <1>2, Ends
  <1>4. p[1] <= h[1] /\ h[1] < h[2] /\ h[2] <= p[2] /\ (p[1] < h[1] \/ h[2] < p[2])
    <2>1. /\ FirstHalf(p)[1] = p[1] /\ SecondHalf(p)[2] = p[2] /\ FirstHalf(p)[2] = SecondHalf(p)[1]
          /\ p[1] < FirstHalf(p)[2] /\ FirstHalf(p)[2] < p[2]
      BY Halves
    <2>2. CASE h = FirstHalf(p)
      BY <1>1, <1>3, <2>1, <2>2
    <2>3. CASE h = SecondHalf(p)
      BY <1>1, <1>3, <2>1, <2>3
    <2> QED
      BY <2>2, <2>3
  <1>5. ASSUME NEW r \in Parts, Within(p, r) PROVE Within(h, r)
    BY <1>1, <1>3, <1>4, <1>5, Ends DEF Within
  <1>6. InHalf(p, q) => InHalf(h, q)
    BY <1>5, Halves DEF InHalf, Divided
  <1> QED
    BY <1>1, <1>2, <1>3, <1>4, <1>5, <1>6 DEF Within, Apart

\* The tree starts with the whole range.
LEMMA TreeInitially == Init => RecursiveInv
  <1> SUFFICES ASSUME Init, algorithm \in Recursive PROVE Laminar /\ Shape /\ Settled
    BY DEF RecursiveInv
  <1>1. Given
    BY DEF Init, Given
  <1>2. Root \in Parts
    BY <1>1, RootIsPart
  <1>3. call = [p \in Parts |-> IF p = Root THEN "ready" ELSE "none"]
    BY DEF Init
  <1>4. Started = {Root} /\ call[Root] = "ready"
    BY <1>2, <1>3 DEF Started
  <1>5. Within(Root, Root)
    BY <1>1, RootIsPart, SizesAssumption DEF Within, Given
  <1> QED
    BY <1>4, <1>5 DEF Laminar, Shape, Settled, IsOver

\* A step that starts no part and divides none leaves the tree as it is.
LEMMA LaminarKept ==
    ASSUME Laminar, UNCHANGED <<chunk_sz, n>>, Started' = Started,
           \A q \in Started : Divided(q) => Divided(q)'
    PROVE  Laminar'
  <1>1. ASSUME NEW p, NEW q \in Started, InHalf(p, q) PROVE InHalf(p, q)'
    BY <1>1 DEF InHalf, FirstHalf, SecondHalf, Within
  <1> QED
    BY <1>1 DEF Laminar, Apart

\* A task that begins its loop, makes a step of it or ends it.
LEMMA LoopsKeepTree ==
    ASSUME Types, Laminar, Shape, Settled, NEW p \in Parts, algorithm \in Recursive,
           Begin(p) \/ EndOfLoop(p), [Next]_vars
    PROVE  Laminar' /\ Shape' /\ Settled'
  <1>0. UNCHANGED <<chunk_sz, n>> /\ p \in Started /\ algorithm \notin Chunked
    BY GivenKept DEF Begin, EndOfLoop, Started, Recursive, Chunked
  <1>1. Small(p) /\ call[p] \in {"ready", "loop"}
    BY <1>0 DEF Begin, EndOfLoop, Shape, Undivided
  <1>2. PICK c \in {"loop", "returned", "threw"} :
            call' = [call EXCEPT ![p] = c] /\ (c # "loop" => call[p] = "loop")
    BY DEF Begin, EndOfLoop
  <1>3. call'[p] = c /\ \A q \in Parts : q # p => call'[q] = call[q]
    BY <1>2 DEF Types
  <1>4. Started' = Started
    BY <1>1, <1>3 DEF Started
  <1>5. \A q \in Parts : Divided(q) = Divided(q)' /\ Small(q)' = Small(q)
    BY <1>0, <1>1, <1>3 DEF Divided, Small
  <1>6. Laminar'
    BY <1>0, <1>4, <1>5, LaminarKept DEF Started
  <1>7. Shape'
    BY <1>0, <1>1, <1>3, <1>4, <1>5 DEF Shape, Root, FirstHalf, SecondHalf, Within, Started
  <1>8. \A q, x \in Parts : InHalf(x, q)' = InHalf(x, q)
    BY <1>0, <1>5 DEF InHalf, FirstHalf, SecondHalf, Within
  <1>9. ASSUME NEW q \in Started, IsOver(q)', NEW x \in Started, x # q, InHalf(x, q)'
        PROVE  ~Active(x)'
    <2>1. q # p
      BY <1>0, <1>1, <1>5, <1>8, <1>9 DEF InHalf, Divided
    <2>2. IsOver(q) /\ InHalf(x, q)
      BY <1>3, <1>8, <1>9, <2>1 DEF IsOver, Started
    <2>3. ~Active(x)
      BY <1>9, <2>2 DEF Settled
    <2> QED
      BY <1>1, <1>3, <2>3 DEF Active, Started
  <1> QED
    BY <1>4, <1>6, <1>7, <1>9 DEF Settled

\* A part that is about to be divided lies apart from the other started ones,
\* or within a half of one: its own halves have not started.
LEMMA FreshHalves ==
    ASSUME Types, Laminar, Shape, NEW p \in Parts, Divide(p), NEW q \in Started, q # p
    PROVE  (Apart(p, q) \/ InHalf(p, q)) /\ q \notin {FirstHalf(p), SecondHalf(p)}
  <1>1. p \in Started /\ ~Small(p) /\ Given /\ call[p] = "ready"
    BY DEF Divide, Started, Types
  <1>2. ~InHalf(q, p)
    BY <1>1 DEF InHalf, Divided
  <1>3. Apart(p, q) \/ InHalf(p, q)
    BY <1>1, <1>2 DEF Laminar
  <1>4. ASSUME q \in {FirstHalf(p), SecondHalf(p)} PROVE FALSE
    <2>1. q \in Parts /\ q[1] \in Nat /\ q[2] \in Nat /\ p[1] \in Nat /\ p[2] \in Nat
      BY Ends DEF Started
    <2>2. Within(q, p) /\ q[1] < q[2] /\ ~Within(p, q)
      BY <1>1, <1>4, <2>1, HalvesInherit
    <2>3. ~Apart(p, q)
      BY <2>1, <2>2 DEF Apart, Within
    <2>4. ~Small(q) /\ (Within(p, FirstHalf(q)) \/ Within(p, SecondHalf(q)))
      BY <1>3, <2>3 DEF InHalf, Divided
    <2> QED
      BY <1>1, <2>2, <2>4, Shorter
  <1> QED
    BY <1>3, <1>4

\* Dividing a part starts both halves of it.
LEMMA DivideKeepsTree ==
    ASSUME Types, Laminar, Shape, Settled, NEW p \in Parts, Divide(p), [Next]_vars
    PROVE  Laminar' /\ Shape' /\ Settled'
  <1> DEFINE F == FirstHalf(p)
             S == SecondHalf(p)
  <1>0. UNCHANGED <<chunk_sz, n>> /\ p \in Started /\ call[p] = "ready" /\ ~Small(p) /\ Given
    BY GivenKept DEF Divide, Started, Types
  <1>1. PICK launched \in Launched :
            call' = [call EXCEPT ![p] = "second", ![F] = launched, ![S] = "ready"]
    BY DEF Divide
  <1>2. F \in Parts /\ S \in Parts /\ F # p /\ S # p /\ F # S /\ Apart(F, S) /\ Apart(S, F)
    <2>1. F \in Parts /\ S \in Parts /\ F # p /\ S # p /\ F # S /\ F[2] = S[1]
      BY <1>0, Halves
    <2>2. F[2] <= S[1]
      BY <2>1, Ends
    <2> QED
      BY <2>1, <2>2 DEF Apart
  <1>3. /\ call'[p] = "second" /\ call'[F] \in {"ready", "deferred"} /\ call'[S] = "ready"
        /\ \A q \in Parts : q \notin {p, F, S} => call'[q] = call[q]
    BY <1>1, <1>2 DEF Types, Launched
  <1> HIDE DEF F, S
  <1>4. ASSUME NEW h \in {F, S}
        PROVE  /\ Within(h, p) /\ h[1] < h[2] /\ ~Within(p, h)
               /\ \A q \in Parts : (Apart(p, q) => Apart(h, q) /\ Apart(q, h)) /\ (Within(p, q) => Within(h, q))
                                   /\ (InHalf(p, q) => InHalf(h, q))
    BY <1>0, HalvesInherit DEF F, S
  <1>5. ASSUME NEW q \in Started, q # p
        PROVE  (Apart(p, q) \/ InHalf(p, q)) /\ q \notin {F, S}
    BY <1>5, FreshHalves DEF F, S
  <1>6. Started' = Started \cup {F, S}
    BY <1>0, <1>2, <1>3 DEF Started
  <1>7. \A q \in Parts : Small(q)' = Small(q)
    BY <1>0 DEF Small
  <1>8. Divided(p)' /\ \A q \in Started : Divided(q) => Divided(q)'
    BY <1>0, <1>3, <1>5, <1>7 DEF Divided, Started
  <1>9. \A x : \A q \in Started : InHalf(x, q) => InHalf(x, q)'
    BY <1>0, <1>8 DEF InHalf, FirstHalf, SecondHalf, Within
  <1>10. \A h \in {F, S} : InHalf(h, p)'
    <2>1. \A h \in {F, S} : Within(h, FirstHalf(p)) \/ Within(h, SecondHalf(p))
      BY <1>2, Ends DEF F, S, Within
    <2> QED
      BY <1>8, <2>1 DEF InHalf, FirstHalf, SecondHalf, Within
  <1>11. ASSUME NEW h \in {F, S}, NEW q \in Started, q # p
         PROVE  Apart(h, q) \/ InHalf(h, q)'
    <2>1. q \in Parts
      BY DEF Started
    <2>2. Apart(p, q) \/ InHalf(p, q)
      BY <1>5, <1>11
    <2> QED
      BY <1>4, <1>9, <2>1, <2>2
  <1>12. \A x, y : Apart(x, y) => Apart(y, x)
    BY DEF Apart
  <1>13. Laminar'
    <2>1. ASSUME NEW x \in Started', NEW y \in Started', x # y
          PROVE  Apart(x, y) \/ InHalf(x, y)' \/ InHalf(y, x)'
      <3>1. CASE x \in Started /\ y \in Started
        BY <1>9, <2>1, <3>1 DEF Laminar
      <3>2. CASE x \in {F, S} /\ y \in {F, S}
        BY <1>2, <2>1, <3>2
      <3>3. CASE x \in {F, S} /\ y \in Started
        BY <1>10, <1>11, <3>3
      <3>4. CASE x \in Started /\ y \in {F, S}
        BY <1>10, <1>11, <1>12, <3>4
      <3> QED
        BY <1>6, <3>1, <3>2, <3>3, <3>4
    <2> QED
      BY <2>1 DEF Laminar, Apart
  <1>14. Shape'
    <2>1. Root' = Root /\ Root' \in Started'
      BY <1>0, <1>6 DEF Shape, Root
    <2>2. ASSUME NEW x \in Started' PROVE x = Root \/ x[1] < x[2]
      BY <1>4, <1>6 DEF Shape
    <2>3. ASSUME NEW x \in Started' PROVE Within(x, Root)
      <3>1. Root \in Parts
        BY <1>0, RootIsPart
      <3> QED
        BY <1>0, <1>4, <1>6, <3>1 DEF Shape
    <2>4. ASSUME NEW x \in Started', call'[x] = "second"
          PROVE  ~Small(x) /\ FirstHalf(x) \in Started' /\ SecondHalf(x) \in Started'
      <3>1. CASE x = p
        BY <1>0, <1>6, <3>1 DEF F, S
      <3>2. CASE x \in Started /\ x # p
        BY <1>3, <1>5, <1>6, <2>4, <3>2 DEF Shape, Started
      <3> QED
        BY <1>3, <1>6, <2>4, <3>1, <3>2
    <2>5. ASSUME NEW x \in Started', call'[x] = "loop" PROVE Small(x)
      BY <1>3, <1>5, <1>6, <2>5 DEF Shape, Started
    <2>6. \A x : FirstHalf(x)' = FirstHalf(x) /\ SecondHalf(x)' = SecondHalf(x) /\ Small(x)' = Small(x)
      BY <1>0 DEF FirstHalf, SecondHalf, Small
    <2> QED
      BY <2>1, <2>2, <2>3, <2>4, <2>5, <2>6 DEF Shape, Within
  <1>15. ASSUME NEW q \in Started', IsOver(q)', NEW x \in Started', x # q, InHalf(x, q)'
         PROVE  ~Active(x)'
    <2>1. q \in Started /\ q # p /\ IsOver(q) /\ call'[q] = call[q]
      BY <1>3, <1>5, <1>6, <1>15 DEF IsOver, Started
    <2>2. InHalf(x, q)
      BY <1>0, <1>15, <2>1 DEF InHalf, Divided, Small, FirstHalf, SecondHalf, Within
    <2>3. ASSUME x \in {p, F, S} PROVE FALSE
      <3>1. ~InHalf(p, q)
        BY <1>0, <2>1 DEF Settled, Active
      <3>2. Apart(p, q)
        BY <1>5, <2>1, <3>1
      <3>3. x # p
        BY <2>2, <3>1
      <3>4. Apart(x, q) /\ x[1] < x[2]
        BY <1>4, <2>1, <2>3, <3>2, <3>3 DEF Started
      <3>5. x \in Parts /\ q \in Parts /\ ~Small(q)
        BY <1>2, <2>1, <2>2, <2>3 DEF Started, InHalf, Divided
      <3>6. Within(x, q)
        <4>1. FirstHalf(q)[1] = q[1] /\ SecondHalf(q)[2] = q[2] /\ FirstHalf(q)[2] = SecondHalf(q)[1]
              /\ q[1] < FirstHalf(q)[2] /\ FirstHalf(q)[2] < q[2] /\ FirstHalf(q) \in Parts
          BY <1>0, <3>5, Halves
        <4> QED
          BY <2>2, <3>5, <4>1, Ends DEF InHalf, Within
      <3> QED
        BY <3>4, <3>5, <3>6, Ends DEF Apart, Within
    <2>4. x \in Started /\ ~Active(x)
      BY <1>6, <1>15, <2>1, <2>2, <2>3 DEF Settled
    <2> QED
      BY <1>3, <2>3, <2>4 DEF Active, Started
  <1> QED
    BY <1>13, <1>14, <1>15 DEF Settled

\* wait() that starts the deferred half of its part.
LEMMA WaitStartsTask ==
    ASSUME Types, Laminar, Shape, Settled, NEW p \in Parts, call[p] = "second",
           call[FirstHalf(p)] = "deferred", call' = [call EXCEPT ![FirstHalf(p)] = "ready"], [Next]_vars
    PROVE  Laminar' /\ Shape' /\ Settled'
  <1> DEFINE F == FirstHalf(p)
  <1>0. UNCHANGED <<chunk_sz, n>> /\ p \in Started /\ Given
    BY GivenKept DEF Started, Types
  <1>1. ~Small(p) /\ F \in Started /\ SecondHalf(p) \in Started
    BY <1>0 DEF Shape
  <1>2. F \in Parts /\ F # p
    BY <1>0, <1>1, Halves
  <1>3. call'[F] = "ready" /\ \A q \in Parts : q # F => call'[q] = call[q]
    BY <1>2 DEF Types
  <1>4. Started' = Started
    BY <1>1, <1>3 DEF Started
  <1>5. \A q \in Parts : Divided(q) = Divided(q)' /\ Small(q)' = Small(q)
    BY <1>0, <1>3 DEF Divided, Small
  <1>6. Laminar'
    BY <1>0, <1>4, <1>5, LaminarKept DEF Started
  <1>7. Shape'
    BY <1>0, <1>3, <1>4, <1>5 DEF Shape, Root, FirstHalf, SecondHalf, Within, Started
  <1>8. \A q, x \in Parts : InHalf(x, q)' = InHalf(x, q)
    BY <1>0, <1>5 DEF InHalf, FirstHalf, SecondHalf, Within
  <1>9. ASSUME NEW q \in Started, IsOver(q), InHalf(F, q), q # F PROVE FALSE
    <2>1. q \in Parts /\ q # p
      BY <1>0, <1>9 DEF Started, IsOver
    <2>2. ~InHalf(p, q)
      BY <1>0, <1>9, <2>1 DEF Settled, Active
    <2>3. ~Small(q) /\ F[1] < F[2] /\ Within(F, q) /\ ~Within(q, F)
      BY <1>1, <1>9, Shorter DEF InHalf, Divided
    <2>4. Within(F, p) /\ (Apart(p, q) => Apart(F, q))
      BY <1>0, <1>1, <2>1, HalvesInherit
    <2>5. ~Apart(p, q)
      BY <1>2, <2>1, <2>3, <2>4, Ends DEF Apart, Within
    <2>6. InHalf(q, p)
      BY <1>0, <2>1, <2>2, <2>5 DEF Laminar
    <2>7. Within(q, SecondHalf(p))
      BY <2>3, <2>6 DEF InHalf
    <2>8. SecondHalf(p) \in Parts /\ F[2] = SecondHalf(p)[1]
      BY <1>0, <1>1, Halves
    <2> QED
      <3>1. q[1] \in Nat /\ F[1] \in Nat /\ F[2] \in Nat /\ q[1] <= F[1] /\ SecondHalf(p)[1] <= q[1]
        BY <1>2, <2>1, <2>3, <2>7, Ends DEF Within
      <3> QED
        BY <2>3, <2>8, <3>1
  <1>10. ASSUME NEW q \in Started, IsOver(q)', NEW x \in Started, x # q, InHalf(x, q)'
         PROVE  ~Active(x)'
    <2>1. q # F /\ IsOver(q) /\ InHalf(x, q)
      BY <1>3, <1>8, <1>10 DEF IsOver, Started
    <2>2. ~Active(x) /\ x # F
      BY <1>9, <1>10, <2>1 DEF Settled
    <2> QED
      BY <1>3, <2>2 DEF Active, Started
  <1> QED
    BY <1>4, <1>6, <1>7, <1>10 DEF Settled

\* wait() or get() that ends its part: one half is over, the other one over
\* or not started.
LEMMA WaitEndsPart ==
    ASSUME Types, Laminar, Shape, Settled, NEW p \in Parts, call[p] = "second",
           IsOver(SecondHalf(p)), IsOver(FirstHalf(p)) \/ call[FirstHalf(p)] = "deferred",
           NEW c \in {"returned", "threw"}, call' = [call EXCEPT ![p] = c], [Next]_vars
    PROVE  Laminar' /\ Shape' /\ Settled'
  <1>0. UNCHANGED <<chunk_sz, n>> /\ p \in Started /\ Given
    BY GivenKept DEF Started, Types
  <1>1. ~Small(p) /\ FirstHalf(p) \in Started /\ SecondHalf(p) \in Started
    BY <1>0 DEF Shape
  <1>2. call'[p] = c /\ \A q \in Parts : q # p => call'[q] = call[q]
    BY DEF Types
  <1>3. Started' = Started
    BY <1>0, <1>2 DEF Started
  <1>4. \A q \in Parts : Divided(q) = Divided(q)' /\ Small(q)' = Small(q)
    BY <1>0, <1>2 DEF Divided, Small
  <1>5. Laminar'
    BY <1>0, <1>3, <1>4, LaminarKept DEF Started
  <1>6. Shape'
    BY <1>0, <1>2, <1>3, <1>4 DEF Shape, Root, FirstHalf, SecondHalf, Within, Started
  <1>7. \A q, x \in Parts : InHalf(x, q)' = InHalf(x, q)
    BY <1>0, <1>4 DEF InHalf, FirstHalf, SecondHalf, Within
  <1>8. ASSUME NEW x \in Started, x # p, InHalf(x, p) PROVE ~Active(x)
    <2>1. PICK h \in {FirstHalf(p), SecondHalf(p)} : Within(x, h)
      BY <1>8 DEF InHalf
    <2>2. CASE x = h
      BY <2>2 DEF IsOver, Active
    <2>3. CASE x # h
      <3>1. InHalf(x, h)
        BY <1>0, <1>1, <2>1, <2>3, Descend
      <3>2. IsOver(h)
        BY <3>1 DEF InHalf, Divided
      <3> QED
        BY <1>1, <1>8, <2>3, <3>1, <3>2 DEF Settled
    <2> QED
      BY <2>2, <2>3
  <1>9. ASSUME NEW q \in Started, IsOver(q)', NEW x \in Started, x # q, InHalf(x, q)'
        PROVE  ~Active(x)'
    <2>1. InHalf(x, q)
      BY <1>7, <1>9 DEF Started
    <2>2. ~Active(x)
      BY <1>2, <1>8, <1>9, <2>1 DEF Settled, IsOver, Started
    <2> QED
      BY <1>2, <2>2 DEF Active, Started
  <1> QED
    BY <1>3, <1>5, <1>6, <1>9 DEF Settled

\* Every step keeps the tree, and nothing runs within a part that is over.
LEMMA TreeKept ==
    ASSUME Types, RecursiveInv, [Next]_vars
    PROVE  RecursiveInv'
  <1> SUFFICES ASSUME algorithm \in Recursive, Laminar, Shape, Settled
               PROVE  Laminar' /\ Shape' /\ Settled'
    BY GivenKept DEF RecursiveInv
  <1>1. ~chunks
    BY ChunksAreChunked
  <1>2. CASE UNCHANGED <<call, n, chunk_sz>>
    BY <1>2 DEF Laminar, Shape, Settled, Started, Apart, InHalf, Divided, Small, Within, FirstHalf,
                SecondHalf, IsOver, Active, Root
  <1>3. UNCHANGED <<n, chunk_sz>>
    BY GivenKept
  <1>4. ASSUME NEW p \in Parts, part(p) PROVE Laminar' /\ Shape' /\ Settled'
    <2>1. CASE Begin(p) \/ EndOfLoop(p)
      BY <2>1, LoopsKeepTree
    <2>2. CASE Transform(p) \/ Test(p) \/ Claim(p) \/ Write(p)
      BY <1>2, <1>3, <2>2 DEF Transform, Test, Claim, Write
    <2>3. CASE Divide(p)
      BY <2>3, DivideKeepsTree
    <2>4. CASE Wait(p)
      <3>1. call[p] = "second"
        BY <2>4 DEF Wait
      <3>2. CASE call[FirstHalf(p)] = "deferred" /\ call' = [call EXCEPT ![FirstHalf(p)] = "ready"]
        BY <3>1, <3>2, WaitStartsTask
      <3>3. ASSUME NEW c \in {"returned", "threw"}, call' = [call EXCEPT ![p] = c], IsOver(SecondHalf(p)),
                   IsOver(FirstHalf(p)) \/ call[FirstHalf(p)] = "deferred"
            PROVE  Laminar' /\ Shape' /\ Settled'
        BY <3>1, <3>3, WaitEndsPart
      <3> QED
        BY <2>4, <3>2, <3>3 DEF Wait, IsOver
    <2> QED
      BY <1>4, <2>1, <2>2, <2>3, <2>4 DEF part
  <1> QED
    BY <1>1, <1>2, <1>3, <1>4 DEF Next, Ended, vars
-----------------------------------------------------------------------------
(* The chunks.                                                               *)
\* Before the first chunk there is no future and no started task.
LEMMA ChunksInitially == Init => ChunkedInv
  <1> SUFFICES ASSUME Init, algorithm \in Chunked PROVE ChunkedInv
    BY DEF ChunkedInv
  <1>1. algorithm \notin Recursive
    BY DEF Recursive, Chunked
  <1>2. call = [p \in Parts |-> "none"] /\ futures = <<>> /\ joined = 0 /\ main = "launch"
    BY <1>1 DEF Init
  <1> QED
    BY <1>2 DEF ChunkedInv, Started

\* Every step keeps the chunks in their order, and what has been joined over.
LEMMA ChunksKept ==
    ASSUME Types, ChunkedInv, [Next]_vars
    PROVE  ChunkedInv'
  <1> SUFFICES ASSUME algorithm \in Chunked PROVE ChunkedInv'
    BY GivenKept DEF ChunkedInv
  <1>0. Chunk' = Chunk /\ algorithm \notin Recursive
    BY GivenKept DEF Chunk, Recursive, Chunked
  <1>1. CASE UNCHANGED <<call, futures, joined, main>>
    BY <1>0, <1>1 DEF ChunkedInv, Started, IsOver, Active
  <1>2. ASSUME NEW p \in Parts, part(p) PROVE ChunkedInv'
    <2>1. CASE Begin(p) \/ EndOfLoop(p)
      <3>1. PICK c \in {"loop", "returned", "threw"} : call' = [call EXCEPT ![p] = c]
        BY <2>1 DEF Begin, EndOfLoop
      <3>2. call'[p] = c /\ (\A q \in Parts : q # p => call'[q] = call[q]) /\ call[p] \in {"ready", "loop"}
        BY <2>1, <3>1 DEF Begin, EndOfLoop, Types
      <3>3. UNCHANGED <<futures, joined, main>>
        BY <2>1 DEF Begin, EndOfLoop, caller
      <3>4. Started' = Started /\ p \in Started
        BY <3>2 DEF Started
      <3>5. main # "threw"
        BY <3>2, <3>4 DEF ChunkedInv, Active
      <3>6. \A q \in Parts : IsOver(q) => IsOver(q)'
        BY <3>2 DEF IsOver
      <3>7. \A j \in 1 .. joined : IsOver(futures[j])'
        BY <3>3, <3>6 DEF ChunkedInv, Types
      <3> QED
        BY <1>0, <3>2, <3>3, <3>4, <3>5, <3>7 DEF ChunkedInv, IsOver
    <2>2. CASE Transform(p) \/ Test(p) \/ Claim(p) \/ Write(p)
      BY <1>1, <2>2 DEF Transform, Test, Claim, Write, caller
    <2> QED
      BY <1>0, <1>2, <2>1, <2>2 DEF part, Divide, Wait, ChunkedInv
  <1>3. CASE LaunchChunk
    <2> DEFINE start == Len(futures) * Chunk
               stop == IF start + Chunk < n THEN start + Chunk ELSE n
    <2>1. <<start, stop>> \in Parts /\ start < stop /\ stop <= (Len(futures) + 1) * Chunk /\ Chunk \in Nat
      BY <1>3, NextChunk DEF LaunchChunk
    <2>2. PICK launched \in Launched : call' = [call EXCEPT ![<<start, stop>>] = launched]
      BY <1>3 DEF LaunchChunk
    <2>3. futures' = Append(futures, <<start, stop>>) /\ UNCHANGED <<main, joined>> /\ main = "launch"
      BY <1>3 DEF LaunchChunk
    <2>4. PICK new \in Parts : new = <<start, stop>> /\ new[1] = start /\ new[2] = stop
      BY <2>1
    <2>5. stop \in Nat /\ start \in Nat
      BY <2>4, Ends
    <2> HIDE DEF start, stop
    <2>6. /\ Len(futures') = Len(futures) + 1 /\ Len(futures) \in Nat /\ futures'[Len(futures')] = new
          /\ \A j \in DOMAIN futures : futures'[j] = futures[j]
          /\ DOMAIN futures = 1 .. Len(futures) /\ DOMAIN futures' = 1 .. Len(futures')
      BY <2>3, <2>4 DEF Types
    <2>7. \A q \in Parts : q # new => call'[q] = call[q]
      BY <2>2, <2>4 DEF Types
    <2>8. call'[new] \in {"ready", "deferred"}
      BY <2>2, <2>4 DEF Types, Launched
    <2>9. \A p \in Started' : \E j \in DOMAIN futures' : p = futures'[j]
      BY <2>6, <2>7 DEF ChunkedInv, Started
    <2>10. \A j \in DOMAIN futures : futures[j] \in Parts /\ futures[j][1] \in Nat /\ futures[j][2] \in Nat
      BY Ends DEF Types
    <2>11. \A j \in DOMAIN futures : futures[j][2] <= start
      BY DEF ChunkedInv, start
    <2>12. \A j \in DOMAIN futures' : futures'[j][1] < futures'[j][2] /\ futures'[j][2] <= stop
      BY <2>1, <2>4, <2>5, <2>6, <2>10, <2>11 DEF ChunkedInv
    <2>13. (Len(futures) + 1) * Chunk \in Nat
      BY <2>1, <2>6
    <2>14. \A j \in DOMAIN futures' :
              futures'[j][1] < futures'[j][2] /\ futures'[j][2] <= Len(futures') * Chunk'
      <3>1. Len(futures') * Chunk' = (Len(futures) + 1) * Chunk
        BY <1>0, <2>6
      <3>2. ASSUME NEW j \in DOMAIN futures' PROVE futures'[j][2] \in Nat
        BY <2>4, <2>5, <2>6, <2>10
      <3> QED
        BY <2>1, <2>5, <2>12, <2>13, <3>1, <3>2
    <2>15. \A j, k \in DOMAIN futures' : j < k => futures'[j][2] <= futures'[k][1]
      BY <2>4, <2>6, <2>11 DEF ChunkedInv
    <2>16. joined' = 0 /\ main' = "launch"
      BY <2>3 DEF Types
    <2> QED
      BY <2>7, <2>8, <2>9, <2>14, <2>15, <2>16 DEF ChunkedInv
  <1>4. CASE AllLaunched
    <2>1. UNCHANGED <<call, futures, joined>> /\ joined = 0 /\ (main' = "returned" => futures = <<>>) /\ main' # "threw"
      BY <1>4 DEF AllLaunched, Types
    <2> QED
      BY <1>0, <2>1 DEF ChunkedInv, Started, IsOver
  <1>5. CASE Join
    <2>1. UNCHANGED <<call, futures>> /\ joined' = joined + 1 /\ IsOver(futures[joined']) /\ joined \in Nat
      BY <1>5 DEF Join, Joining, Types
    <2>2. main' # "threw" /\ (main' = "returned" => joined' = Len(futures'))
      BY <1>5, <2>1 DEF Join
    <2>3. \A j \in 1 .. joined' : IsOver(futures[j])
      <3>1. \A j \in 1 .. joined' : j \in 1 .. joined \/ j = joined'
        BY <2>1
      <3> QED
        BY <2>1, <3>1 DEF ChunkedInv
    <2> QED
      BY <1>0, <2>1, <2>2, <2>3 DEF ChunkedInv, Started, IsOver
  <1>6. CASE RunDeferred
    <2>1. /\ main = "join" /\ UNCHANGED <<futures, joined, main>> /\ Joining \in Parts
          /\ call[Joining] = "deferred" /\ call' = [call EXCEPT ![Joining] = "ready"]
      BY <1>6 DEF RunDeferred, caller, Joining, Types
    <2>2. Started' = Started
      BY <2>1 DEF Started, Types
    <2>3. \A q \in Parts : (IsOver(q) => IsOver(q)') /\ (call'[q] = "second" => call[q] = "second")
      BY <2>1 DEF IsOver, Types
    <2>4. \A j \in 1 .. joined : IsOver(futures[j])'
      BY <2>1, <2>3 DEF ChunkedInv, Types
    <2> QED
      BY <1>0, <2>1, <2>2, <2>3, <2>4 DEF ChunkedInv, IsOver
  <1>7. CASE Move
    <2>1. UNCHANGED <<call, futures, joined>> /\ main' # "threw"
          /\ (main' = "returned" => joined = Len(futures))
      BY <1>7 DEF Move
    <2> QED
      BY <1>0, <2>1 DEF ChunkedInv, Started, IsOver
  <1>8. CASE Unwind
    <2>1. UNCHANGED <<call, futures, joined>> /\ main' = "threw"
      BY <1>8 DEF Unwind
    <2>2. \A p \in Started : ~Active(p)
      BY <1>8 DEF Unwind, ChunkedInv, Active, IsOver
    <2> QED
      BY <1>0, <2>1, <2>2 DEF ChunkedInv, Started, IsOver, Active
  <1> QED
    BY <1>1, <1>2, <1>3, <1>4, <1>5, <1>6, <1>7, <1>8 DEF Next, Ended, vars, caller, chunks
-----------------------------------------------------------------------------
(* The write positions and the merge.                                        *)
\* No position is held at the start, and nothing is written.
LEMMA PositionsInitially == Init => Claimed /\ BehindRead /\ Merged
  <1> SUFFICES ASSUME Init PROVE Claimed /\ BehindRead /\ Merged
    OBVIOUS
  <1>1. Claimed
    BY DEF Init, Claimed
  <1>2. BehindRead
    BY Ends DEF Init, BehindRead
  <1>3. Merged
    BY DEF Init, Merged, Recursive
  <1> QED
    BY <1>1, <1>2, <1>3

\* Every step keeps the claimed write positions apart, below the write index.
LEMMA ClaimsKept ==
    ASSUME Types, Claimed, [Next]_vars
    PROVE  Claimed'
  <1> SUFFICES ASSUME algorithm = "par_copy_if_sync" PROVE Claimed'
    BY GivenKept DEF Claimed
  <1>1. CASE UNCHANGED <<out, dst_idx>>
    BY <1>1 DEF Claimed
  <1>2. ASSUME NEW p \in Parts, part(p) PROVE Claimed'
    <2>1. CASE Claim(p)
      <3>1. out' = [out EXCEPT ![p] = dst_idx] /\ dst_idx' = dst_idx + 1
        BY <2>1 DEF Claim
      <3>2. out'[p] = dst_idx /\ \A q \in Parts : q # p => out'[q] = out[q]
        BY <3>1 DEF Types
      <3>3. \A q \in Parts : q # p /\ out[q] # None => out[q] < dst_idx /\ out[q] \in Nat
        BY DEF Claimed, Types
      <3>4. ASSUME NEW q \in Parts, out'[q] # None PROVE out'[q] < dst_idx'
        BY <3>1, <3>2, <3>3, <3>4 DEF Types
      <3>5. ASSUME NEW q \in Parts, NEW r \in Parts, q # r, out'[q] # None, out'[r] # None
            PROVE  out'[q] # out'[r]
        <4>1. dst_idx \in Nat
          BY DEF Types
        <4> QED
          BY <3>2, <3>3, <3>5, <4>1 DEF Claimed
      <3> QED
        BY <3>4, <3>5 DEF Claimed
    <2>2. CASE Write(p)
      <3>1. out' = [out EXCEPT ![p] = None] /\ dst_idx' = dst_idx
        BY <2>2 DEF Write
      <3>2. \A q \in Parts : out'[q] # None => q # p /\ out'[q] = out[q]
        BY <3>1 DEF Types
      <3> QED
        BY <3>1, <3>2 DEF Claimed
    <2>3. CASE Begin(p) \/ Transform(p) \/ Test(p) \/ EndOfLoop(p) \/ Divide(p) \/ Wait(p)
      BY <1>1, <2>3 DEF Begin, Transform, Test, EndOfLoop, Divide, Wait, leaf, memory
    <2> QED
      BY <1>2, <2>1, <2>2, <2>3 DEF part
  <1> QED
    BY <1>1, <1>2, ChunksAreChunked DEF Next, Ended, vars, leaf, memory, Chunked

\* A loop that compacts its chunk never writes ahead of where it reads, and
\* its write position never goes back.
LEMMA ReadsStayAhead ==
    ASSUME Types, InPart, BehindRead, [Next]_vars, algorithm = "par_copy_if_split"
    PROVE  BehindRead' /\ \A p \in Parts : out[p] <= out'[p]
  <1>1. \A p \in Parts : out[p] \in Nat /\ next[p] \in Nat /\ p[1] <= out[p] /\ out[p] <= next[p] /\ p[1] \in Nat
    BY Ends DEF Types, BehindRead
  <1>2. CASE UNCHANGED <<out, next>>
    BY <1>1, <1>2, GivenKept DEF BehindRead
  <1>3. ASSUME NEW p \in Parts, part(p) PROVE BehindRead' /\ \A q \in Parts : out[q] <= out'[q]
    <2>1. CASE Transform(p) \/ Claim(p)
      BY <2>1 DEF Transform, Claim
    <2>2. CASE Test(p)
      <3>1. next' = [next EXCEPT ![p] = @ + 1] /\ out' = out
        BY <2>2 DEF Test, Past
      <3>2. \A q \in Parts : next'[q] \in Nat /\ next[q] <= next'[q]
        BY <1>1, <3>1 DEF Types
      <3>3. \A q \in Parts : out[q] <= next'[q]
        BY <1>1, <3>2
      <3> QED
        BY <1>1, <3>1, <3>3 DEF BehindRead
    <2>3. CASE Write(p)
      <3>1. next' = [next EXCEPT ![p] = @ + 1] /\ out' = [out EXCEPT ![p] = @ + 1]
        BY <2>3 DEF Write, Past
      <3>2. ASSUME NEW q \in Parts
            PROVE  out'[q] \in Nat /\ q[1] <= out'[q] /\ out'[q] <= next'[q] /\ out[q] <= out'[q]
        <4>1. out'[q] = (IF q = p THEN out[q] + 1 ELSE out[q]) /\ next'[q] = (IF q = p THEN next[q] + 1 ELSE next[q])
          BY <3>1 DEF Types
        <4>2. out[q] \in Nat /\ next[q] \in Nat /\ q[1] <= out[q] /\ out[q] <= next[q] /\ q[1] \in Nat
          BY <1>1
        <4> QED
          BY <4>1, <4>2
      <3> QED
        BY <3>2 DEF BehindRead
    <2>4. CASE Begin(p) \/ EndOfLoop(p) \/ Divide(p) \/ Wait(p)
      BY <1>2, <2>4 DEF Begin, EndOfLoop, Divide, Wait, leaf
    <2> QED
      BY <1>3, <2>1, <2>2, <2>3, <2>4 DEF part
  <1>4. CASE chunks
    BY <1>2, <1>4 DEF chunks, LaunchChunk, AllLaunched, Join, RunDeferred, Move, Unwind, leaf
  <1> QED
    BY <1>2, <1>3, <1>4 DEF Next, Ended, vars, leaf

\* The merge never gets ahead of the chunk that it reads.
LEMMA MergeKept ==
    ASSUME Types, InPart, ChunkedInv, BehindRead, Merged, [Next]_vars
    PROVE  Merged'
  <1> SUFFICES ASSUME algorithm = "par_copy_if_split", algorithm' = algorithm PROVE Merged'
    BY GivenKept DEF Merged
  <1>0. algorithm \in Chunked /\ Gets /\ algorithm \notin Recursive
    BY DEF Chunked, Gets, Recursive
  <1>1. \A j \in DOMAIN futures : futures[j] \in Parts
    BY DEF Types
  <1>2. \A p \in Parts : /\ p[1] \in Nat /\ p[2] \in Nat /\ out[p] \in Nat
                         /\ p[1] <= out[p] /\ out[p] <= p[2] /\ out[p] <= out'[p] /\ out'[p] \in Nat
    <2>1. \A p \in Parts : p[1] \in Nat /\ p[2] \in Nat
      BY Ends
    <2>2. \A p \in Parts : next[p] \in Nat /\ out[p] \in Nat /\ p[1] <= out[p] /\ out[p] <= next[p] /\ next[p] <= p[2]
      BY DEF Types, InPart, BehindRead
    <2>3. \A p \in Parts : out[p] <= out'[p] /\ out'[p] \in Nat
      BY ReadsStayAhead DEF BehindRead
    <2> QED
      BY <2>1, <2>2, <2>3
  <1>3. CASE UNCHANGED <<main, futures, joined, merge>>
    <2>1. ASSUME main = "move" PROVE from <= out'[futures[joined]]
      <3>1. futures[joined] \in Parts
        BY <1>1, <2>1 DEF Types
      <3> QED
        BY <1>2, <2>1, <3>1 DEF Merged, Types
    <2> QED
      BY <1>3, <2>1 DEF Merged, merge
  <1>4. CASE LaunchChunk \/ AllLaunched \/ RunDeferred \/ Unwind
    <2>1. CASE RunDeferred
      BY <1>3, <2>1 DEF RunDeferred, caller
    <2>2. CASE LaunchChunk \/ AllLaunched \/ Unwind
      BY <2>2 DEF LaunchChunk, AllLaunched, Unwind, Types, Merged
    <2> QED
      BY <1>4, <2>1, <2>2
  <1>5. CASE Join
    <2>1. joined' = joined + 1 /\ futures' = futures /\ out' = out /\ Joining = futures[joined'] /\ Joining \in Parts
      BY <1>1, <1>5 DEF Join, Joining, Types, leaf
    <2>2. CASE joined = 0 /\ new_end' = out[Joining] /\ main' # "move"
      BY <1>2, <2>1, <2>2 DEF Merged
    <2>3. CASE joined > 0 /\ from' = Joining[1] /\ main' = "move" /\ UNCHANGED new_end
      <3>1. joined \in DOMAIN futures /\ joined + 1 \in DOMAIN futures /\ joined < joined + 1
        BY <1>5, <2>3 DEF Join, Types
      <3>2. new_end <= futures[joined][2]
        BY <1>5, <2>3 DEF Join, Merged
      <3>3. futures[joined][2] <= Joining[1]
        BY <1>0, <3>1 DEF ChunkedInv, Joining
      <3>4. new_end \in Nat /\ futures[joined][2] \in Nat
        BY <1>1, <1>2, <3>1 DEF Types
      <3>5. new_end <= Joining[1]
        BY <1>2, <2>1, <3>2, <3>3, <3>4
      <3> QED
        BY <1>2, <2>1, <2>3, <3>5 DEF Merged
    <2>4. CASE main' = "unwind"
      BY <2>4 DEF Merged
    <2> QED
      BY <1>0, <1>5, <2>2, <2>3, <2>4 DEF Join
  <1>6. CASE Move
    <2>1. main = "move" /\ UNCHANGED <<out, futures, joined>> /\ joined \in DOMAIN futures
      BY <1>6 DEF Move, leaf, Types
    <2>2. new_end <= from /\ from <= out[futures[joined]] /\ out[futures[joined]] <= futures[joined][2]
      BY <1>1, <1>2, <2>1 DEF Merged
    <2>3. new_end \in Nat /\ from \in Nat /\ out[futures[joined]] \in Nat /\ futures[joined][2] \in Nat
      BY <1>1, <1>2, <2>1 DEF Types
    <2>4. CASE from < out[futures[joined]] /\ from' = from + 1 /\ new_end' = new_end + 1 /\ UNCHANGED main
      BY <2>1, <2>2, <2>3, <2>4 DEF Merged
    <2>5. CASE UNCHANGED merge /\ main' # "move"
      BY <2>1, <2>2, <2>3, <2>5 DEF Merged, merge
    <2> QED
      BY <1>6, <2>4, <2>5 DEF Move
  <1>7. ASSUME NEW p \in Parts, part(p) PROVE UNCHANGED <<main, futures, joined, merge>>
    BY <1>7 DEF part, Begin, Transform, Test, Claim, Write, EndOfLoop, Divide, Wait, caller
  <1> QED
    BY <1>3, <1>4, <1>5, <1>6, <1>7 DEF Next, Ended, vars, caller, chunks
-----------------------------------------------------------------------------
(* The invariant, and what follows from it.                                  *)
\* The invariant holds in every state.
THEOREM ParallelInvariant == Spec => []ParallelInv
  <1>1. Init => ParallelInv
    BY TypesInitially, TreeInitially, ChunksInitially, PositionsInitially DEF ParallelInv
  <1>2. ParallelInv /\ [Next]_vars => ParallelInv'
    <2> SUFFICES ASSUME ParallelInv, [Next]_vars PROVE ParallelInv'
      OBVIOUS
    <2> USE DEF ParallelInv
    <2>1. Types' /\ InPart'
      BY TypesKept
    <2>2. RecursiveInv'
      BY TreeKept
    <2>3. ChunkedInv'
      BY ChunksKept
    <2>4. Claimed'
      BY ClaimsKept
    <2>5. BehindRead'
      BY ReadsStayAhead, GivenKept DEF BehindRead
    <2>6. Merged'
      BY MergeKept
    <2> QED
      BY <2>1, <2>2, <2>3, <2>4, <2>5, <2>6
  <1> QED
    BY <1>1, <1>2, PTL DEF Spec

\* When an algorithm has returned or thrown, no task of it is left that runs
\* or waits: none holds a reference to its caller's pred, func or write index.
THEOREM NothingOutlives == Spec => []NoTaskOutlives
  <1>1. ParallelInv => NoTaskOutlives
    <2> SUFFICES ASSUME ParallelInv, Over, NEW p \in Parts, Active(p) PROVE FALSE
      BY DEF NoTaskOutlives, Active
    <2>0. p \in Started /\ Types
      BY DEF Started, Active, ParallelInv
    <2>1. CASE algorithm \in Recursive
      <3>1. IsOver(Root) /\ Laminar /\ Shape /\ Settled
        BY <2>1 DEF Over, Outcome, IsOver, ParallelInv, RecursiveInv
      <3>2. p # Root /\ Root \in Started
        BY <3>1 DEF IsOver, Active, Shape
      <3>3. ~InHalf(p, Root)
        BY <2>0, <3>1, <3>2 DEF Settled
      <3>4. Within(p, Root) /\ p[1] < p[2]
        BY <2>0, <3>1, <3>2 DEF Shape
      <3>5. ~Apart(p, Root)
        BY <2>0, <3>4, Ends, RootIsPart DEF Apart, Within, Types
      <3>6. ~InHalf(Root, p)
        BY <2>0, <3>1, <3>2, <3>4, Shorter DEF InHalf, Divided
      <3> QED
        BY <2>0, <3>1, <3>2, <3>3, <3>5, <3>6 DEF Laminar
    <2>2. CASE algorithm \in Chunked /\ algorithm \notin Recursive
      <3>1. ChunkedInv
        BY DEF ParallelInv
      <3>2. main # "threw"
        BY <2>0, <2>2, <3>1 DEF ChunkedInv
      <3>3. main = "returned"
        BY <2>2, <3>2 DEF Over, Outcome
      <3>4. PICK j \in DOMAIN futures : p = futures[j]
        BY <2>0, <2>2, <3>1 DEF ChunkedInv
      <3>5. joined = Len(futures) /\ \A k \in 1 .. joined : IsOver(futures[k])
        BY <2>2, <3>1, <3>3 DEF ChunkedInv
      <3>6. DOMAIN futures = 1 .. joined
        BY <2>0, <3>5 DEF Types
      <3> QED
        BY <3>4, <3>5, <3>6 DEF IsOver, Active
    <2> QED
      BY <2>0, <2>1, <2>2 DEF Types, Given
  <1> QED
    BY <1>1, ParallelInvariant, PTL

\* No two threads write to the same element of the destination, and the merge
\* writes only where every task has ended.
THEOREM WritersApart == Spec => []NoTwoWriters
  <1>1. ParallelInv => NoTwoWriters
    <2> SUFFICES ASSUME ParallelInv PROVE NoTwoWriters
      OBVIOUS
    <2>0. Types /\ InPart /\ RecursiveInv /\ ChunkedInv /\ Claimed /\ BehindRead /\ Merged
      BY DEF ParallelInv
    <2>1. ASSUME NEW p \in Parts, NEW q \in Parts, p # q, call[p] = "loop", call[q] = "loop"
          PROVE  Apart(p, q)
      <3>1. p \in Started /\ q \in Started
        BY <2>1 DEF Started
      <3>2. CASE algorithm \in Recursive
        BY <2>0, <2>1, <3>1, <3>2 DEF RecursiveInv, Laminar, InHalf, Divided
      <3>3. CASE algorithm \in Chunked
        <4>1. PICK j \in DOMAIN futures, k \in DOMAIN futures : p = futures[j] /\ q = futures[k]
          BY <2>0, <3>1, <3>3 DEF ChunkedInv
        <4>2. j \in Nat /\ k \in Nat /\ j # k
          BY <2>0, <2>1, <4>1 DEF Types
        <4>3. j < k \/ k < j
          BY <4>2
        <4> QED
          BY <2>0, <3>3, <4>1, <4>3 DEF ChunkedInv, Apart
      <3> QED
        BY <2>0, <3>2, <3>3 DEF Types, Given
    <2>2. ASSUME NEW p \in Writing, NEW q \in Writing, p # q PROVE Target(p) # Target(q)
      <3>1. /\ p \in Parts /\ q \in Parts /\ call[p] = "loop" /\ call[q] = "loop"
            /\ next[p] < p[2] /\ next[q] < q[2] /\ algorithm # "par_count_if"
            /\ Target(p) # None /\ Target(q) # None
        BY DEF Writing, AtElement
      <3>2. Apart(p, q)
        BY <2>1, <2>2, <3>1
      <3>3. /\ p[1] \in Nat /\ p[2] \in Nat /\ q[1] \in Nat /\ q[2] \in Nat
            /\ next[p] \in Nat /\ next[q] \in Nat /\ p[1] <= next[p] /\ q[1] <= next[q]
        BY <2>0, <3>1, Ends DEF Types, InPart
      <3>4. CASE algorithm = "par_transform_dac" \/ algorithm = "par_transform_naive"
        BY <3>1, <3>2, <3>3, <3>4 DEF Target, Apart
      <3>5. CASE algorithm = "par_copy_if_sync"
        BY <2>0, <2>2, <3>1, <3>5 DEF Target, Claimed
      <3>6. CASE algorithm = "par_copy_if_split"
        <4>1. /\ out[p] \in Nat /\ p[1] <= out[p] /\ out[p] <= next[p]
              /\ out[q] \in Nat /\ q[1] <= out[q] /\ out[q] <= next[q]
          BY <2>0, <3>1, <3>6 DEF BehindRead
        <4>2. out[p] < p[2] /\ out[q] < q[2]
          BY <3>1, <3>3, <4>1
        <4>3. out[p] # out[q]
          BY <3>2, <3>3, <4>1, <4>2 DEF Apart
        <4> QED
          BY <3>6, <4>3 DEF Target
      <3> QED
        BY <2>0, <3>1, <3>4, <3>5, <3>6 DEF Types, Given, Recursive, Chunked
    <2>3. ASSUME main = "move", from < out[futures[joined]],
                 NEW j \in DOMAIN futures, ~IsOver(futures[j])
          PROVE  new_end < futures[j][1] /\ from < futures[j][1]
      <3>1. algorithm = "par_copy_if_split" /\ algorithm \in Chunked
        BY <2>0, <2>3 DEF Types, Chunked
      <3>2. joined \in DOMAIN futures /\ futures[joined] \in Parts /\ futures[j] \in Parts
        BY <2>0, <2>3 DEF Types
      <3>3. joined < j
        BY <2>0, <2>3, <3>1 DEF ChunkedInv, Types
      <3>4. futures[joined][2] <= futures[j][1]
        BY <2>0, <3>1, <3>2, <3>3 DEF ChunkedInv
      <3>5. new_end <= from /\ new_end \in Nat /\ from \in Nat
        BY <2>0, <2>3, <3>1 DEF Merged, Types
      <3>6. /\ out[futures[joined]] \in Nat /\ out[futures[joined]] <= next[futures[joined]]
            /\ next[futures[joined]] <= futures[joined][2] /\ next[futures[joined]] \in Nat
        BY <2>0, <3>1, <3>2 DEF BehindRead, InPart, Types
      <3> QED
        BY <2>3, <3>2, <3>4, <3>5, <3>6, Ends
    <2> QED
      BY <2>2, <2>3 DEF NoTwoWriters
  <1> QED
    BY <1>1, ParallelInvariant, PTL
-----------------------------------------------------------------------------
(* The results.  What the loops have done so far with the elements they have *)
(* passed, and how the parts' results add up to that of the whole range.     *)
Transforms == {"par_transform_dac", "par_transform_naive"}
Span(p) == p[1] .. p[2] - 1
Passed(p) == p[1] .. next[p] - 1
DataTypes ==
    /\ dst \in [Elements -> Elements \cup {None}] /\ num \in [Parts -> Nat]
    /\ keep \subseteq Elements /\ bad \subseteq Elements
    /\ \A p \in Started : p[2] <= n
    /\ algorithm = "par_copy_if_split" => n > 0

\* Where each loop is, and why it ended.
LoopsInv ==
    /\ \A p \in Parts \ Started : next[p] = p[1] /\ (algorithm = "par_copy_if_split" => out[p] = p[1])
    /\ \A p \in Parts : Passed(p) \cap bad = {}
    /\ \A p \in Parts : Undivided(p) /\ call[p] = "returned" => next[p] = p[2]
    /\ \A p \in Parts : Undivided(p) /\ call[p] = "threw" => next[p] < p[2] /\ next[p] \in bad
    /\ bad = {} => \A p \in Parts : call[p] # "threw"
    /\ Launched = {"ready"} => \A p \in Parts : call[p] # "deferred"

\* A part that is over consists of small ones that are over, when no task is
\* given up before it has started; one that returned with get() met no error.
TreeResults == algorithm \in Recursive =>
    /\ bad = {} \/ Launched = {"ready"} => \A p \in Parts : IsOver(p) =>
          \A i \in Span(p) : \E q \in Parts : Small(q) /\ IsOver(q) /\ i \in Span(q)
    /\ Gets => \A p \in Parts : call[p] = "returned" => Span(p) \cap bad = {}

\* The chunks follow each other without a gap.
ChunkResults == algorithm \in Chunked =>
    /\ algorithm = "par_transform_naive" => Len(futures) <= n_tasks
    /\ futures # <<>> => /\ futures[1][1] = 0
                         /\ futures[Len(futures)][2] = IF Len(futures) * Chunk < n THEN Len(futures) * Chunk ELSE n
    /\ \A j \in DOMAIN futures : j > 1 => futures[j][1] = futures[j - 1][2]
    /\ \A i \in Elements : i < Len(futures) * Chunk => \E j \in DOMAIN futures : i \in Span(futures[j])
    /\ main # "launch" => Len(futures) * Chunk >= n
    /\ Gets /\ main \notin {"unwind", "threw"} => \A j \in 1 .. joined : call[futures[j]] = "returned"
    /\ main \in {"unwind", "threw"} => Gets

\* Transform has written what it has passed.
Transformed == algorithm \in Transforms => \A p \in Parts : \A i \in Passed(p) : dst[i] = i

\* Each call has counted what it has passed, or its whole part.
Matches(S) == Cardinality(keep \cap S)
CountResults == algorithm = "par_count_if" => \A p \in Parts :
    /\ Small(p) => num[p] = Matches(Passed(p))
    /\ call[p] = "returned" => num[p] = Matches(Span(p))

\* par_copy_if_sync has a position for each match it has met, and has written
\* each but those whose task is between the claim and the write.
Holding == {p \in Parts : out[p] # None}
Held == {out[p] : p \in Holding}
Seen == {i \in keep : \E p \in Started : Small(p) /\ i \in Passed(p)}
Pending == {next[p] : p \in Holding}
SyncResults == algorithm = "par_copy_if_sync" =>
    /\ \A p \in Holding : call[p] = "loop" /\ next[p] \in keep /\ next[p] < p[2] /\ next[p] \notin bad
    /\ dst_idx = Cardinality(Seen \cup Pending)
    /\ {dst[k] : k \in (0 .. dst_idx - 1) \ Held} = Seen

\* par_copy_if_split has the matches in order, in each chunk that is not yet
\* joined and in what the merge has put together.
Lists(d, K, S) == {d[k] : k \in K} = S /\ \A k, l \in K : k < l => d[k] < d[l]
SplitResults == algorithm = "par_copy_if_split" =>
    /\ \A j \in DOMAIN futures : j > joined =>
          Lists(dst, futures[j][1] .. out[futures[j]] - 1, keep \cap Passed(futures[j]))
    /\ main \in {"join", "returned"} /\ joined > 0 =>
          Lists(dst, 0 .. new_end - 1, keep \cap (0 .. futures[joined][2] - 1))
    /\ main = "move" =>
          Lists(dst, (0 .. new_end - 1) \cup (from .. out[futures[joined]] - 1), keep \cap (0 .. futures[joined][2] - 1))
ResultsInv ==
    /\ DataTypes /\ LoopsInv /\ TreeResults /\ ChunkResults
    /\ Transformed /\ CountResults /\ SyncResults /\ SplitResults
-----------------------------------------------------------------------------
(* The steps, seen from one part.                                            *)
\* A step of one part's call or task leaves the others' loops and the caller
\* of chunks alone.
LEMMA OnePart ==
    ASSUME Types, NEW p \in Parts, part(p)
    PROVE  /\ p \in Started /\ call[p] \in {"ready", "loop", "second"}
           /\ UNCHANGED <<main, futures, joined, new_end, from>>
           /\ \A q \in Parts : q # p => next'[q] = next[q] /\ out'[q] = out[q]
  <1>1. call[p] \in {"ready", "loop", "second"} /\ UNCHANGED caller
    BY DEF part, Begin, Transform, Test, Claim, Write, EndOfLoop, Divide, Wait, AtElement
  <1>2. /\ next' = next \/ next' = [next EXCEPT ![p] = @ + 1]
        /\ out' = out \/ \E o : out' = [out EXCEPT ![p] = o]
    BY DEF part, Begin, Transform, Test, Claim, Write, EndOfLoop, Divide, Wait, Past, leaf
  <1>3. \A q \in Parts : q # p => next'[q] = next[q] /\ out'[q] = out[q]
    BY <1>2 DEF Types
  <1> QED
    BY <1>1, <1>3 DEF Started, caller, merge

\* A loop moves on by one element, which throws nothing, and no call changes.
LEMMA LoopMoves ==
    ASSUME Types, [Next]_vars
    PROVE  \/ next' = next
           \/ \E p \in Parts : /\ Transform(p) \/ Test(p) \/ Write(p)
                               /\ AtElement(p) /\ next' = [next EXCEPT ![p] = @ + 1] /\ call' = call
  <1>1. ASSUME NEW p \in Parts, part(p)
        PROVE  \/ next' = next
               \/ /\ Transform(p) \/ Test(p) \/ Write(p)
                  /\ AtElement(p) /\ next' = [next EXCEPT ![p] = @ + 1] /\ call' = call
    BY <1>1 DEF part, Begin, Transform, Test, Claim, Write, EndOfLoop, Divide, Wait, Past, leaf
  <1>2. chunks => next' = next
    BY DEF chunks, LaunchChunk, AllLaunched, Join, RunDeferred, Move, Unwind, leaf
  <1> QED
    BY <1>1, <1>2 DEF Next, Ended, vars, leaf

\* The chunk launched next is none of those before.
LEMMA FreshChunk ==
    ASSUME Types, ChunkedInv, LaunchChunk
    PROVE  \E p \in Parts \ Started : \E launched \in Launched :
              /\ p = <<Len(futures) * Chunk, IF Len(futures) * Chunk + Chunk < n THEN Len(futures) * Chunk + Chunk ELSE n>>
              /\ futures' = Append(futures, p) /\ call' = [call EXCEPT ![p] = launched]
              /\ p[1] = Len(futures) * Chunk /\ p[1] < p[2] /\ p[2] <= n
              /\ p[2] = IF (Len(futures) + 1) * Chunk < n THEN (Len(futures) + 1) * Chunk ELSE n
              /\ Chunk \in Nat \ {0} /\ algorithm \in Chunked
  <1> DEFINE start == Len(futures) * Chunk
             stop == IF start + Chunk < n THEN start + Chunk ELSE n
  <1>1. algorithm \in Chunked
    BY ChunksAreChunked DEF chunks
  <1>2. <<start, stop>> \in Parts /\ Chunk \in Nat \ {0} /\ start < stop
    BY <1>1, NextChunk DEF LaunchChunk
  <1>3. PICK p \in Parts : p = <<start, stop>> /\ p[1] = start /\ p[2] = stop
    BY <1>2
  <1>4. futures' = Append(futures, p) /\ \E launched \in Launched : call' = [call EXCEPT ![p] = launched]
    BY <1>3 DEF LaunchChunk
  <1>5. p \notin Started
    <2>1. \A j \in DOMAIN futures : futures[j] \in Parts /\ futures[j][1] < futures[j][2] /\ futures[j][2] <= start
      BY <1>1 DEF ChunkedInv, Types
    <2>2. start \in Nat
      BY <1>3, Ends
    <2>3. \A j \in DOMAIN futures : futures[j] # p
      BY <1>3, <2>1, <2>2, Ends
    <2> QED
      BY <1>1, <2>3 DEF ChunkedInv
  <1>6. Len(futures) \in Nat /\ n \in Nat /\ start \in Nat
    BY <1>3, Ends, SizesAssumption DEF Types, Given
  <1>7. (Len(futures) + 1) * Chunk = start + Chunk
    BY <1>2, <1>6
  <1>8. stop = IF (Len(futures) + 1) * Chunk < n THEN (Len(futures) + 1) * Chunk ELSE n
    BY <1>7
  <1>9. stop <= n
    BY <1>2, <1>6
  <1> QED
    BY <1>1, <1>2, <1>3, <1>4, <1>5, <1>8, <1>9

\* What a step may do to the call of one part.
LEMMA CallMoves ==
    ASSUME ParallelInv, [Next]_vars, NEW q \in Parts
    PROVE  \/ call'[q] = call[q]
           \/ /\ ~IsOver(q) /\ call'[q] \in {"ready", "deferred", "loop", "second"}
              /\ call'[q] = "deferred" => "deferred" \in Launched
           \/ EndOfLoop(q) /\ call[q] = "loop" /\ Undivided(q) /\ IsOver(q)'
           \/ Wait(q) /\ call[q] = "second" /\ ~Undivided(q) /\ IsOver(q)' /\ algorithm \in Recursive
  <1> USE DEF ParallelInv
  <1>0. call \in [Parts -> Calls] /\ Given
    BY DEF Types
  <1>1. ASSUME NEW p \in Parts, part(p)
        PROVE  \/ call'[q] = call[q]
               \/ /\ ~IsOver(q) /\ call'[q] \in {"ready", "deferred", "loop", "second"}
                  /\ call'[q] = "deferred" => "deferred" \in Launched
               \/ EndOfLoop(q) /\ call[q] = "loop" /\ Undivided(q) /\ IsOver(q)'
               \/ Wait(q) /\ call[q] = "second" /\ ~Undivided(q) /\ IsOver(q)' /\ algorithm \in Recursive
    <2>0. p \in Started
      BY <1>1, OnePart
    <2>1. CASE Begin(p)
      BY <1>0, <2>1 DEF Begin, IsOver
    <2>2. CASE Transform(p) \/ Test(p) \/ Claim(p) \/ Write(p)
      BY <2>2 DEF Transform, Test, Claim, Write
    <2>3. CASE EndOfLoop(p)
      <3>1. Undivided(p)
        BY <2>0, <2>3 DEF EndOfLoop, Undivided, RecursiveInv, Shape, Types, Given
      <3> QED
        BY <1>0, <2>3, <3>1 DEF EndOfLoop, IsOver
    <2>4. CASE Divide(p)
      <3>1. ~Small(p) /\ algorithm \in Recursive /\ call[p] = "ready"
        BY <2>4 DEF Divide
      <3>2. PICK launched \in Launched :
                call' = [call EXCEPT ![p] = "second", ![FirstHalf(p)] = launched, ![SecondHalf(p)] = "ready"]
        BY <2>4 DEF Divide
      <3>3. Launched \subseteq {"ready", "deferred"}
        BY DEF Launched
      <3>4. q \in Started /\ q # p => q \notin {FirstHalf(p), SecondHalf(p)}
        BY <2>4, <3>1, FreshHalves DEF RecursiveInv
      <3>5. call[q] = "none" => ~IsOver(q)
        BY DEF IsOver
      <3>6. p \notin {FirstHalf(p), SecondHalf(p)} /\ FirstHalf(p) # SecondHalf(p)
        BY <1>0, <3>1, Halves
      <3>7. CASE q = p
        BY <1>0, <3>1, <3>2, <3>6, <3>7 DEF IsOver
      <3>8. CASE q # p /\ q \in {FirstHalf(p), SecondHalf(p)}
        BY <1>0, <3>2, <3>3, <3>4, <3>5, <3>6, <3>8 DEF Started
      <3>9. CASE q # p /\ q \notin {FirstHalf(p), SecondHalf(p)}
        BY <1>0, <3>2, <3>9
      <3> QED
        BY <3>7, <3>8, <3>9
    <2>5. CASE Wait(p)
      <3>1. algorithm \in Recursive /\ ~Small(p) /\ call[p] = "second"
        BY <1>0, <2>0, <2>5 DEF Wait, ChunkedInv, RecursiveInv, Shape, Given
      <3>2. ~Undivided(p)
        BY <3>1 DEF Undivided, Recursive, Chunked
      <3>3. CASE call[FirstHalf(p)] = "deferred" /\ call' = [call EXCEPT ![FirstHalf(p)] = "ready"]
        BY <1>0, <3>3 DEF IsOver
      <3>4. CASE \E c \in {"returned", "threw"} : call' = [call EXCEPT ![p] = c]
        BY <1>0, <2>5, <3>1, <3>2, <3>4 DEF IsOver
      <3> QED
        BY <2>5, <3>3, <3>4 DEF Wait, IsOver
    <2> QED
      BY <1>1, <2>1, <2>2, <2>3, <2>4, <2>5 DEF part
  <1>2. CASE LaunchChunk
    <2>1. PICK p \in Parts \ Started, launched \in Launched : call' = [call EXCEPT ![p] = launched]
      BY <1>2, FreshChunk
    <2>2. launched \in {"ready", "deferred"}
      BY DEF Launched
    <2>3. ~IsOver(p)
      BY DEF IsOver, Started
    <2> QED
      BY <1>0, <2>1, <2>2, <2>3
  <1>3. CASE RunDeferred
    BY <1>0, <1>3 DEF RunDeferred, IsOver
  <1>4. CASE AllLaunched \/ Join \/ Move \/ Unwind
    BY <1>4 DEF AllLaunched, Join, Move, Unwind
  <1> QED
    BY <1>1, <1>2, <1>3, <1>4 DEF Next, Ended, vars, chunks

\* What has started stays started, and what is over stays as it is.
LEMMA Settles ==
    ASSUME ParallelInv, [Next]_vars
    PROVE  /\ \A q \in Parts : IsOver(q) => call'[q] = call[q] /\ IsOver(q)' /\ next'[q] = next[q]
           /\ \A q \in Started : q \in Started'
           /\ \A q \in Parts \ Started : next'[q] = next[q] /\ out'[q] = out[q]
  <1> USE DEF ParallelInv
  <1>1. ASSUME NEW q \in Parts
        PROVE  (IsOver(q) => call'[q] = call[q]) /\ (q \in Started => q \in Started')
    BY CallMoves DEF IsOver, Started, EndOfLoop, Wait
  <1>2. ASSUME NEW q \in Parts, IsOver(q) \/ q \notin Started PROVE next'[q] = next[q]
    <2>1. \A p \in Parts : AtElement(p) => p # q
      BY <1>2 DEF AtElement, IsOver, Started
    <2> QED
      BY <2>1, LoopMoves DEF Types
  <1>3. ASSUME NEW q \in Parts \ Started PROVE out'[q] = out[q]
    <2>1. ASSUME NEW p \in Parts, part(p) PROVE out'[q] = out[q]
      BY <2>1, OnePart
    <2>2. chunks => out' = out
      BY DEF chunks, LaunchChunk, AllLaunched, Join, RunDeferred, Move, Unwind, leaf
    <2> QED
      BY <2>1, <2>2 DEF Next, Ended, vars, leaf
  <1> QED
    BY <1>1, <1>2, <1>3 DEF IsOver, Started
-----------------------------------------------------------------------------
(* Every step keeps what is said of the loops and of the parts.              *)
\* No loop has begun, and nothing is counted or written.
LEMMA ResultsInitially == Init => ResultsInv
  <1> SUFFICES ASSUME Init PROVE ResultsInv
    OBVIOUS
  <1>0. /\ n \in Nat /\ call \in [Parts -> {"none", "ready"}] /\ futures = <<>> /\ Given
        /\ \A p \in Parts : next[p] = p[1] /\ p[1] \in Nat /\ p[2] \in Nat /\ num[p] = 0
    BY Ends, SizesAssumption DEF Init, Given
  <1>1. \A p \in Parts : Passed(p) = {} /\ ~IsOver(p) /\ call[p] # "deferred"
    BY <1>0 DEF Passed, IsOver
  <1>2. DataTypes
    <2>1. \A p \in Started : p = Root
      BY DEF Init, Started
    <2> QED
      BY <1>0, <2>1 DEF Init, DataTypes, Root
  <1>3. LoopsInv
    <2>1. algorithm = "par_copy_if_split" => \A p \in Parts : out[p] = p[1]
      BY DEF Init
    <2> QED
      BY <1>0, <1>1, <2>1 DEF LoopsInv, IsOver
  <1>4. TreeResults
    BY <1>1 DEF TreeResults, IsOver
  <1>5. ChunkResults
    <2>1. algorithm \in Chunked => main = "launch" /\ algorithm \notin Recursive
      BY DEF Init, Chunked, Recursive
    <2>2. Len(futures) = 0 /\ DOMAIN futures = {} /\ n_tasks \in Nat
      BY <1>0, SizesAssumption DEF Given
    <2>3. algorithm \in Chunked => Chunk \in Nat
      <3>1. n + n_tasks - 1 \in Nat /\ n_tasks \in Nat \ {0} /\ chunk_sz \in Nat
        BY <1>0, SizesAssumption DEF Given
      <3>2. (n + n_tasks - 1) \div n_tasks \in Nat
        BY <3>1
      <3> QED
        BY <3>1, <3>2 DEF Chunk
    <2>4. algorithm \in Chunked => \A i \in Elements : ~(i < Len(futures) * Chunk)
      <3> HIDE DEF Chunk
      <3> QED
        BY <1>0, <2>2, <2>3 DEF Elements
    <2>5. joined = 0
      BY DEF Init
    <2> QED
      BY <1>0, <2>1, <2>2, <2>4, <2>5 DEF ChunkResults
  <1>6. Transformed
    BY <1>1 DEF Transformed
  <1>7. CountResults
    <2>1. Cardinality({}) = 0
      BY FS_EmptySet
    <2> QED
      BY <1>0, <1>1, <2>1 DEF CountResults, Matches, IsOver
  <1>8. SyncResults
    <2> SUFFICES ASSUME algorithm = "par_copy_if_sync" PROVE SyncResults
      BY DEF SyncResults
    <2>1. Holding = {} /\ dst_idx = 0
      BY DEF Init, Holding
    <2>2. Seen = {} /\ Pending = {}
      BY <1>1, <2>1 DEF Seen, Pending, Started
    <2>3. Cardinality(Seen \cup Pending) = 0
      BY <2>2, FS_EmptySet
    <2> QED
      BY <2>1, <2>2, <2>3 DEF SyncResults
  <1>9. SplitResults
    <2>1. algorithm = "par_copy_if_split" => main = "launch"
      BY DEF Init, Recursive
    <2> QED
      BY <1>0, <2>1 DEF SplitResults
  <1> QED
    BY <1>2, <1>3, <1>4, <1>5, <1>6, <1>7, <1>8, <1>9 DEF ResultsInv

\* No loop runs past an element at which it throws; it ends behind its part
\* or at such an element.
LEMMA LoopsKept ==
    ASSUME ParallelInv, LoopsInv, [Next]_vars
    PROVE  LoopsInv'
  <1> USE DEF ParallelInv
  <1>0. UNCHANGED <<algorithm, chunk_sz, bad>> /\ next \in [Parts -> Nat]
    BY GivenKept DEF Types
  <1>1. ASSUME NEW q \in Parts, q \notin Started'
        PROVE  next'[q] = q[1] /\ (algorithm = "par_copy_if_split" => out'[q] = q[1])
    BY <1>1, Settles DEF LoopsInv
  <1>2. ASSUME NEW q \in Parts PROVE Passed(q)' \cap bad = {}
    <2>1. CASE next'[q] = next[q]
      BY <2>1 DEF LoopsInv, Passed
    <2>2. CASE next'[q] = next[q] + 1 /\ next[q] \notin bad
      <3>1. Passed(q)' \subseteq Passed(q) \cup {next[q]}
        BY <1>0, <2>2, Ends DEF Passed
      <3> QED
        BY <2>2, <3>1 DEF LoopsInv
    <2> QED
      BY <1>0, <2>1, <2>2, LoopMoves DEF AtElement
  <1>3. \A q \in Parts : Undivided(q)' = Undivided(q)
    BY <1>0 DEF Undivided, Small
  <1>4. ASSUME NEW q \in Parts, Undivided(q), IsOver(q)'
        PROVE  /\ call'[q] = "returned" => next'[q] = q[2]
               /\ call'[q] = "threw" => next'[q] < q[2] /\ next'[q] \in bad
    <2>1. CASE call'[q] = call[q]
      <3>1. IsOver(q)
        BY <1>4, <2>1 DEF IsOver
      <3> QED
        BY <1>4, <2>1, <3>1, Settles DEF LoopsInv
    <2>2. CASE EndOfLoop(q)
      BY <2>2 DEF EndOfLoop, leaf, Types
    <2> QED
      BY <1>4, <2>1, <2>2, CallMoves DEF IsOver
  <1>5. ASSUME bad = {}, NEW q \in Parts PROVE call'[q] # "threw"
    <2>1. CASE EndOfLoop(q)
      BY <1>5, <2>1 DEF EndOfLoop, Types
    <2>2. CASE Wait(q) /\ algorithm \in Recursive
      <3>1. q \in Started /\ ~Small(q)
        BY <2>2, OnePart DEF part, RecursiveInv, Shape, Wait
      <3>2. FirstHalf(q) \in Parts /\ SecondHalf(q) \in Parts /\ FirstHalf(q) # q /\ SecondHalf(q) # q
        BY <3>1, Halves DEF Types
      <3>3. call[q] # "threw" /\ call[FirstHalf(q)] # "threw" /\ call[SecondHalf(q)] # "threw"
        BY <1>5, <3>2 DEF LoopsInv
      <3> QED
        BY <2>2, <3>2, <3>3 DEF Wait, Types
    <2> QED
      BY <1>5, <2>1, <2>2, CallMoves DEF LoopsInv
  <1>6. ASSUME Launched = {"ready"}, NEW q \in Parts PROVE call'[q] # "deferred"
    BY <1>6, CallMoves DEF LoopsInv, IsOver
  <1>7. Launched' = Launched
    BY <1>0 DEF Launched
  <1> QED
    BY <1>0, <1>1, <1>2, <1>3, <1>4, <1>5, <1>6, <1>7 DEF LoopsInv, IsOver

\* The elements of a part are those of its halves.
LEMMA SpanOfHalves ==
    ASSUME Given, NEW p \in Parts, ~Small(p)
    PROVE  /\ Span(p) = Span(FirstHalf(p)) \cup Span(SecondHalf(p))
           /\ Span(FirstHalf(p)) \cap Span(SecondHalf(p)) = {}
  <1>1. /\ FirstHalf(p)[1] = p[1] /\ SecondHalf(p)[2] = p[2] /\ FirstHalf(p)[2] = SecondHalf(p)[1]
        /\ p[1] < FirstHalf(p)[2] /\ FirstHalf(p)[2] < p[2] /\ FirstHalf(p) \in Parts
    BY Halves
  <1>2. p[1] \in Nat /\ p[2] \in Nat /\ FirstHalf(p)[2] \in Nat
    BY <1>1, Ends
  <1> QED
    BY <1>1, <1>2 DEF Span

\* A part that ends hands on what its halves have done.
LEMMA TreeResultsKept ==
    ASSUME ParallelInv, LoopsInv, TreeResults, [Next]_vars
    PROVE  TreeResults'
  <1> USE DEF ParallelInv
  <1>0. UNCHANGED <<algorithm, chunk_sz, bad>>
    BY GivenKept
  <1> SUFFICES ASSUME algorithm \in Recursive PROVE TreeResults'
    BY <1>0 DEF TreeResults
  <1>1. \A q \in Parts : Small(q)' = Small(q) /\ (IsOver(q) => IsOver(q)')
    BY <1>0, Settles DEF Small
  <1>2. ASSUME NEW p \in Parts, Wait(p), IsOver(p)', ~IsOver(p)
        PROVE  /\ FirstHalf(p) \in Parts /\ SecondHalf(p) \in Parts /\ IsOver(SecondHalf(p))
               /\ Span(p) = Span(FirstHalf(p)) \cup Span(SecondHalf(p))
               /\ IsOver(FirstHalf(p)) \/ (call[FirstHalf(p)] = "deferred" /\ call[SecondHalf(p)] = "threw")
               /\ Gets /\ call'[p] = "returned" =>
                      call[FirstHalf(p)] = "returned" /\ call[SecondHalf(p)] = "returned"
    <2>1. p \in Started /\ ~Small(p)
      BY <1>2, OnePart DEF part, RecursiveInv, Shape, Wait
    <2>2. /\ FirstHalf(p) \in Parts /\ SecondHalf(p) \in Parts /\ FirstHalf(p) # p
          /\ Span(p) = Span(FirstHalf(p)) \cup Span(SecondHalf(p))
      BY <2>1, Halves, SpanOfHalves DEF Types
    <2>3. ~(call' = [call EXCEPT ![FirstHalf(p)] = "ready"])
      BY <1>2, <2>2 DEF Types, IsOver
    <2> QED
      BY <1>2, <2>2, <2>3 DEF Wait, IsOver, Types
  <1>3. ASSUME bad = {} \/ Launched = {"ready"}, NEW p \in Parts, IsOver(p)', NEW i \in Span(p)
        PROVE  \E q \in Parts : Small(q)' /\ IsOver(q)' /\ i \in Span(q)
    <2>1. CASE IsOver(p)
      BY <1>1, <1>3, <2>1 DEF TreeResults
    <2>2. CASE Small(p)
      BY <1>1, <1>3, <2>2
    <2>3. CASE Wait(p) /\ ~IsOver(p)
      <3>1. FirstHalf(p) \in Parts /\ SecondHalf(p) \in Parts /\ IsOver(SecondHalf(p)) /\ IsOver(FirstHalf(p))
        BY <1>2, <1>3, <2>3 DEF LoopsInv
      <3>2. i \in Span(FirstHalf(p)) \/ i \in Span(SecondHalf(p))
        BY <1>2, <1>3, <2>3
      <3> QED
        BY <1>1, <1>3, <3>1, <3>2 DEF TreeResults
    <2> QED
      BY <1>3, <2>1, <2>2, <2>3, CallMoves DEF IsOver, Undivided, Recursive, Chunked
  <1>4. ASSUME Gets, NEW p \in Parts, call'[p] = "returned" PROVE Span(p) \cap bad = {}
    <2>1. CASE call'[p] = call[p]
      BY <1>4, <2>1 DEF TreeResults
    <2>2. CASE EndOfLoop(p)
      <3>1. next[p] = p[2]
        BY <1>4, <2>2 DEF EndOfLoop, Types
      <3> QED
        BY <3>1 DEF LoopsInv, Passed, Span
    <2>3. CASE Wait(p) /\ call[p] = "second"
      BY <1>2, <1>4, <2>3 DEF TreeResults, IsOver
    <2> QED
      BY <1>4, <2>1, <2>2, <2>3, CallMoves
  <1>5. Gets' = Gets /\ Launched' = Launched /\ \A p : Span(p)' = Span(p)
    BY <1>0 DEF Gets, Launched, Span
  <1> QED
    BY <1>0, <1>3, <1>4, <1>5 DEF TreeResults
-----------------------------------------------------------------------------
(* The elements that the loops are at.                                       *)
\* A loop is at an element of its part, and of the range.
LEMMA ElementOfPart ==
    ASSUME ParallelInv, DataTypes, NEW p \in Parts, AtElement(p)
    PROVE  /\ p \in Started /\ Undivided(p) /\ call[p] = "loop" /\ next[p] \notin bad
           /\ next[p] \in Nat /\ p[1] \in Nat /\ p[2] \in Nat
           /\ p[1] <= next[p] /\ next[p] < p[2] /\ next[p] \in Elements
  <1>1. p \in Started /\ call[p] = "loop" /\ next[p] < p[2] /\ next[p] \notin bad
    BY DEF AtElement, Started
  <1>2. Undivided(p)
    BY <1>1 DEF ParallelInv, RecursiveInv, Shape, Types, Given, Undivided
  <1>3. p[1] \in Nat /\ p[2] \in Nat /\ next[p] \in Nat /\ p[1] <= next[p]
    BY Ends DEF ParallelInv, Types, InPart
  <1>4. p[2] <= n /\ n \in Nat
    BY <1>1, SizesAssumption DEF DataTypes, ParallelInv, Types, Given
  <1> QED
    BY <1>1, <1>2, <1>3, <1>4 DEF Elements

\* What a loop has passed are elements of its part, and of the range.
LEMMA PassedElements ==
    ASSUME ParallelInv, DataTypes, LoopsInv, NEW p \in Parts
    PROVE  Passed(p) \subseteq Elements /\ Passed(p) \subseteq Span(p)
  <1>1. p[1] \in Nat /\ p[2] \in Nat /\ next[p] \in Nat /\ next[p] <= p[2] /\ n \in Nat
    BY Ends, SizesAssumption DEF ParallelInv, Types, InPart, Given
  <1>2. CASE p \in Started
    <2>1. p[2] <= n
      BY <1>2 DEF DataTypes
    <2> QED
      BY <1>1, <2>1 DEF Passed, Span, Elements
  <1>3. CASE p \notin Started
    <2>1. next[p] = p[1]
      BY <1>3 DEF LoopsInv
    <2> QED
      BY <1>1, <2>1 DEF Passed
  <1> QED
    BY <1>2, <1>3

\* Two parts that are looped over have no element in common.
LEMMA LeavesApart ==
    ASSUME ParallelInv, NEW p \in Started, NEW q \in Started, p # q, Undivided(p), Undivided(q)
    PROVE  Apart(p, q) /\ Span(p) \cap Span(q) = {}
  <1>0. p \in Parts /\ q \in Parts
    BY DEF Started
  <1>1. Apart(p, q)
    <2>1. CASE algorithm \in Recursive
      BY <2>1 DEF ParallelInv, RecursiveInv, Laminar, InHalf, Divided, Undivided, Recursive, Chunked
    <2>2. CASE algorithm \in Chunked
      <3>1. PICK j \in DOMAIN futures, k \in DOMAIN futures : p = futures[j] /\ q = futures[k]
        BY <2>2 DEF ParallelInv, ChunkedInv
      <3>2. j \in Nat /\ k \in Nat /\ j # k
        BY <3>1 DEF ParallelInv, Types
      <3> QED
        BY <2>2, <3>1, <3>2 DEF ParallelInv, ChunkedInv, Apart
    <2> QED
      BY <2>1, <2>2 DEF ParallelInv, Types, Given
  <1> QED
    BY <1>0, <1>1, Ends DEF Apart, Span

\* Every step keeps the types of the destination and of the counts.
LEMMA DataKept ==
    ASSUME ParallelInv, DataTypes, [Next]_vars
    PROVE  DataTypes'
  <1> USE DEF ParallelInv
  <1>0. UNCHANGED <<algorithm, n, chunk_sz, keep, bad>> /\ Given /\ Elements' = Elements
    BY GivenKept DEF Types, Elements
  <1>1. dst' \in [Elements -> Elements \cup {None}]
    <2>1. ASSUME NEW p \in Parts, part(p) PROVE dst' \in [Elements -> Elements \cup {None}]
      <3>1. CASE Transform(p) \/ Write(p)
        <4>1. next[p] \in Elements
          BY <3>1, ElementOfPart DEF Transform, Write
        <4> QED
          BY <3>1, <4>1 DEF Transform, Write, DataTypes
      <3>2. CASE ~(Transform(p) \/ Write(p))
        BY <2>1, <3>2 DEF part, Begin, Test, Claim, EndOfLoop, Divide, Wait, memory, DataTypes
      <3> QED
        BY <3>1, <3>2
    <2>2. CASE Move
      <3>1. CASE dst' = dst
        BY <3>1 DEF DataTypes
      <3>2. CASE from < out[futures[joined]] /\ dst' = [dst EXCEPT ![new_end] = dst[from]]
        <4>1. algorithm = "par_copy_if_split" /\ algorithm \in Chunked /\ main = "move" /\ joined \in 1 .. Len(futures)
          BY <2>2 DEF Move, Types, Chunked
        <4>2. PICK p \in Parts : p = futures[joined]
          BY <4>1 DEF Types
        <4>3. p \in Started
          BY <4>1, <4>2 DEF ChunkedInv, IsOver, Started
        <4>4. from < out[p] /\ out[p] <= next[p] /\ next[p] <= p[2] /\ p[2] <= n
          BY <3>2, <4>1, <4>2, <4>3 DEF BehindRead, InPart, DataTypes
        <4>5. from \in Nat /\ out[p] \in Nat /\ next[p] \in Nat /\ p[2] \in Nat /\ n \in Nat
          BY <1>0, <4>1, Ends, SizesAssumption DEF Types, BehindRead, Given
        <4>6. from \in Elements
          BY <4>4, <4>5 DEF Elements
        <4> QED
          BY <3>2, <4>6 DEF DataTypes
      <3> QED
        BY <2>2, <3>1, <3>2 DEF Move
    <2>3. chunks /\ ~Move => dst' = dst
      BY DEF chunks, LaunchChunk, AllLaunched, Join, RunDeferred, Unwind, memory
    <2> QED
      BY <2>1, <2>2, <2>3 DEF Next, Ended, vars, memory, DataTypes
  <1>2. num' \in [Parts -> Nat]
    <2>1. ASSUME NEW p \in Parts, part(p) PROVE num' \in [Parts -> Nat]
      <3>1. CASE Test(p)
        BY <3>1 DEF Test, DataTypes
      <3>2. CASE Wait(p)
        <4>1. p \in Started /\ ~Small(p)
          BY <3>2, OnePart DEF part, RecursiveInv, ChunkedInv, Shape, Wait, Given, Types
        <4>2. FirstHalf(p) \in Parts /\ SecondHalf(p) \in Parts
          BY <1>0, <4>1, Halves
        <4> QED
          BY <3>2, <4>2 DEF Wait, DataTypes
      <3>3. CASE ~(Test(p) \/ Wait(p))
        BY <2>1, <3>3 DEF part, Begin, Transform, Write, Claim, EndOfLoop, Divide, leaf, DataTypes
      <3> QED
        BY <3>1, <3>2, <3>3
    <2>2. chunks => num' = num
      BY DEF chunks, LaunchChunk, AllLaunched, Join, RunDeferred, Move, Unwind, leaf
    <2> QED
      BY <2>1, <2>2 DEF Next, Ended, vars, leaf, DataTypes
  <1>3. ASSUME NEW q \in Started' PROVE q[2] <= n
    <2>1. CASE algorithm \in Recursive
      <3>1. RecursiveInv'
        BY TreeKept
      <3> QED
        BY <1>0, <2>1, <3>1, RootIsPart DEF RecursiveInv, Shape, Within, Root
    <2>2. CASE q \in Started
      BY <2>2 DEF DataTypes
    <2>3. CASE q \notin Started /\ algorithm \in Chunked
      <3>0. q \in Parts /\ call'[q] # call[q]
        BY <2>3 DEF Started
      <3>1. algorithm \notin Recursive
        BY <2>3 DEF Chunked, Recursive
      <3>2. CASE LaunchChunk
        BY <2>3, <3>0, <3>2, FreshChunk DEF Types
      <3>3. ~LaunchChunk => call'[q] = call[q]
        <4>1. ASSUME NEW p \in Parts, part(p) PROVE call'[q] = call[q]
          BY <2>3, <3>0, <3>1, <4>1, OnePart
          DEF part, Begin, Transform, Test, Claim, Write, EndOfLoop, Divide, Wait, ChunkedInv, Types
        <4>2. RunDeferred => call[Joining] = "deferred" /\ call' = [call EXCEPT ![Joining] = "ready"]
          BY DEF RunDeferred
        <4>3. RunDeferred => call'[q] = call[q]
          BY <2>3, <3>0, <4>2 DEF Started, Types
        <4>4. chunks /\ ~LaunchChunk /\ ~RunDeferred => call' = call
          BY DEF chunks, AllLaunched, Join, Move, Unwind
        <4> QED
          BY <4>1, <4>3, <4>4 DEF Next, Ended, vars
      <3> QED
        BY <3>0, <3>2, <3>3
    <2> QED
      BY <1>0, <2>1, <2>2, <2>3 DEF Given
  <1> QED
    BY <1>0, <1>1, <1>2, <1>3 DEF DataTypes

\* As many chunks as there may be tasks cover the whole range.
LEMMA ChunksSuffice ==
    ASSUME Given, algorithm = "par_transform_naive"
    PROVE  n_tasks * Chunk >= n
  <1>1. n \in Nat /\ n_tasks \in Nat \ {0}
    BY SizesAssumption DEF Given
  <1>2. n_tasks * ((n + n_tasks - 1) \div n_tasks) >= n
    BY <1>1
  <1> QED
    BY <1>2 DEF Chunk

\* The chunks stay side by side, and cover the range when all are launched.
LEMMA ChunkResultsKept ==
    ASSUME ParallelInv, DataTypes, ChunkResults, [Next]_vars
    PROVE  ChunkResults'
  <1> USE DEF ParallelInv
  <1>0. UNCHANGED <<algorithm, n, n_tasks, chunk_sz>> /\ Chunk' = Chunk /\ Elements' = Elements /\ Gets' = Gets
    BY GivenKept DEF Chunk, Elements, Gets
  <1> SUFFICES ASSUME algorithm \in Chunked PROVE ChunkResults'
    BY <1>0 DEF ChunkResults
  <1>00. Chunk \in Nat /\ Len(futures) \in Nat /\ n \in Nat /\ n_tasks \in Nat \ {0}
    <2>1. n \in Nat /\ n_tasks \in Nat \ {0} /\ chunk_sz \in Nat
      BY SizesAssumption DEF Types, Given
    <2>2. (n + n_tasks - 1) \div n_tasks \in Nat
      BY <2>1
    <2> QED
      BY <2>1, <2>2 DEF Chunk, Types
  <1>1. CASE UNCHANGED <<futures, joined, main>> /\ \A q \in Parts : IsOver(q) => call'[q] = call[q]
    <2>1. \A j \in 1 .. joined : futures[j] \in Parts /\ IsOver(futures[j])
      BY DEF Types, ChunkedInv
    <2> QED
      BY <1>0, <1>1, <2>1 DEF ChunkResults, Span
  <1>2. CASE LaunchChunk
    <2>1. PICK p \in Parts : /\ futures' = Append(futures, p) /\ p[1] = Len(futures) * Chunk
                             /\ p[1] < p[2] /\ p[2] <= n
                             /\ p[2] = IF (Len(futures) + 1) * Chunk < n THEN (Len(futures) + 1) * Chunk ELSE n
      BY <1>2, FreshChunk
    <2>2. /\ Len(futures') = Len(futures) + 1 /\ futures'[Len(futures')] = p
          /\ DOMAIN futures = 1 .. Len(futures) /\ DOMAIN futures' = 1 .. Len(futures')
          /\ \A j \in DOMAIN futures : futures'[j] = futures[j]
          /\ futures # <<>> <=> Len(futures) > 0
      BY <2>1 DEF Types
    <2>3. main' = "launch" /\ joined' = 0 /\ Len(futures) * Chunk < n
          /\ (algorithm = "par_transform_naive" => Len(futures) < n_tasks)
      BY <1>2 DEF LaunchChunk, Types
    <2>4. Len(futures') * Chunk = (Len(futures) + 1) * Chunk /\ Len(futures') * Chunk \in Nat /\ Len(futures) * Chunk \in Nat
      BY <1>00, <2>2
    <2>5. futures'[1][1] = 0
      BY <1>00, <2>1, <2>2 DEF ChunkResults
    <2>6. ASSUME NEW j \in DOMAIN futures', j > 1 PROVE futures'[j][1] = futures'[j - 1][2]
      <3>1. CASE j \in DOMAIN futures
        <4>1. j - 1 \in DOMAIN futures
          BY <1>00, <2>2, <2>6, <3>1
        <4> QED
          BY <2>2, <2>6, <3>1, <4>1 DEF ChunkResults
      <3>2. CASE j = Len(futures) + 1
        <4>1. j - 1 = Len(futures) /\ futures # <<>> /\ j - 1 \in DOMAIN futures
          BY <1>00, <2>2, <2>6, <3>2
        <4> QED
          BY <2>1, <2>2, <2>3, <3>2, <4>1 DEF ChunkResults
      <3> QED
        BY <1>00, <2>2, <3>1, <3>2
    <2>7. ASSUME NEW i \in Elements, i < Len(futures') * Chunk PROVE \E j \in DOMAIN futures' : i \in Span(futures'[j])
      <3>1. CASE i < Len(futures) * Chunk
        BY <1>00, <2>2, <3>1 DEF ChunkResults
      <3>2. CASE i >= Len(futures) * Chunk
        <4>1. i \in Nat /\ i < n
          BY <1>00 DEF Elements
        <4>2. i \in Span(p)
          BY <1>00, <2>1, <2>4, <2>7, <3>2, <4>1, Ends DEF Span
        <4> QED
          BY <1>00, <2>2, <4>2
      <3> QED
        BY <1>00, <2>4, <3>1, <3>2 DEF Elements
    <2>8. futures'[Len(futures')][2] = IF Len(futures') * Chunk < n THEN Len(futures') * Chunk ELSE n
      BY <2>1, <2>2, <2>4
    <2>9. algorithm = "par_transform_naive" => Len(futures') <= n_tasks
      BY <1>00, <2>2, <2>3
    <2>10. \A j \in 1 .. joined' : call'[futures'[j]] = "returned"
      BY <2>3
    <2> QED
      BY <1>0, <2>3, <2>5, <2>6, <2>7, <2>8, <2>9, <2>10 DEF ChunkResults, Span
  <1>3. CASE AllLaunched
    <2>1. UNCHANGED <<call, futures, joined>> /\ joined = 0 /\ main' \in {"returned", "join"}
      BY <1>3 DEF AllLaunched, Types
    <2>2. CASE Len(futures) * Chunk >= n
      BY <1>0, <2>1, <2>2 DEF ChunkResults, Span
    <2>3. CASE algorithm = "par_transform_naive" /\ Len(futures) >= n_tasks
      <3>1. Len(futures) = n_tasks
        BY <1>00, <2>3 DEF ChunkResults
      <3>2. Len(futures) * Chunk >= n
        BY <2>3, <3>1, ChunksSuffice DEF Types
      <3> QED
        BY <2>2, <3>2
    <2> QED
      BY <1>3, <2>2, <2>3 DEF AllLaunched
  <1>4. CASE Join
    <2>1. UNCHANGED <<call, futures>> /\ joined' = joined + 1 /\ main = "join"
      BY <1>4 DEF Join
    <2>2. Gets /\ main' \notin {"unwind", "threw"} => call[futures[joined']] = "returned"
      BY <1>4, <2>1 DEF Join, Joining
    <2>3. joined \in Nat
      BY DEF Types
    <2>4. Gets => \A j \in 1 .. joined : call[futures[j]] = "returned"
      BY <2>1 DEF ChunkResults
    <2>5. \A j \in 1 .. joined' : j \in 1 .. joined \/ j = joined'
      BY <2>1, <2>3
    <2>6. Gets /\ main' \notin {"unwind", "threw"} => \A j \in 1 .. joined' : call'[futures'[j]] = "returned"
      BY <2>1, <2>2, <2>4, <2>5
    <2>7. main' \in {"unwind", "threw"} => Gets
      BY <1>4, <2>1 DEF Join
    <2>8. main' # "launch"
      BY <1>4, <2>1 DEF Join
    <2> QED
      BY <1>0, <2>1, <2>6, <2>7, <2>8 DEF ChunkResults, Span
  <1>5. CASE Move \/ Unwind
    <2>1. /\ UNCHANGED <<call, futures, joined>> /\ main # "launch" /\ main' # "launch"
          /\ main \in {"unwind", "threw"} <=> main' \in {"unwind", "threw"}
      BY <1>5 DEF Move, Unwind
    <2> QED
      BY <1>0, <2>1 DEF ChunkResults, Span
  <1>6. CASE RunDeferred
    BY <1>1, <1>6, Settles DEF RunDeferred, caller
  <1>7. ASSUME NEW p \in Parts, part(p) PROVE ChunkResults'
    BY <1>1, <1>7, OnePart, Settles
  <1>8. CASE UNCHANGED vars
    BY <1>1, <1>8 DEF vars, caller
  <1> QED
    BY <1>2, <1>3, <1>4, <1>5, <1>6, <1>7, <1>8 DEF Next, Ended, chunks

\* What transform has written stays written.
LEMMA TransformedKept ==
    ASSUME ParallelInv, DataTypes, LoopsInv, Transformed, [Next]_vars
    PROVE  Transformed'
  <1> USE DEF ParallelInv
  <1> SUFFICES ASSUME algorithm \in Transforms PROVE Transformed'
    BY GivenKept DEF Transformed
  <1>1. \/ next' = next /\ dst' = dst
        \/ \E p \in Parts : Transform(p)
    <2>1. ASSUME NEW p \in Parts, part(p) PROVE Transform(p) \/ (next' = next /\ dst' = dst)
      <3>1. ~Test(p) /\ ~Claim(p) /\ ~Write(p)
        BY DEF Test, Claim, Write, Transforms
      <3>2. Begin(p) \/ EndOfLoop(p) \/ Divide(p) \/ Wait(p) => next' = next /\ dst' = dst
        BY DEF Begin, EndOfLoop, Divide, Wait, leaf, memory
      <3> QED
        BY <2>1, <3>1, <3>2 DEF part
    <2>2. chunks => next' = next /\ dst' = dst
      BY DEF chunks, LaunchChunk, AllLaunched, Join, RunDeferred, Move, Unwind, leaf, memory, Types, Transforms
    <2> QED
      BY <2>1, <2>2 DEF Next, Ended, vars, leaf, memory
  <1>2. CASE next' = next /\ dst' = dst
    BY <1>2 DEF Transformed, Passed
  <1>3. ASSUME NEW p \in Parts, Transform(p) PROVE Transformed'
    <2>1. AtElement(p) /\ dst' = [dst EXCEPT ![next[p]] = next[p]] /\ next' = [next EXCEPT ![p] = @ + 1]
      BY <1>3 DEF Transform, Past
    <2>2. next[p] \in Elements /\ next[p] \in Nat
      BY <2>1, ElementOfPart
    <2>3. dst'[next[p]] = next[p] /\ \A i \in Elements : dst[i] = i => dst'[i] = i
      BY <2>1, <2>2 DEF DataTypes
    <2>4. ASSUME NEW q \in Parts, NEW i \in Passed(q)' PROVE dst'[i] = i
      <3>1. CASE i \in Passed(q)
        <4>1. dst[i] = i /\ i \in Elements
          BY <3>1, PassedElements DEF Transformed
        <4> QED
          BY <2>3, <4>1
      <3>2. CASE i = next[p]
        BY <2>3, <3>2
      <3> QED
        BY <2>1, <2>2, <3>1, <3>2, Ends DEF Passed, Types
    <2> QED
      BY <2>4 DEF Transformed
  <1> QED
    BY <1>1, <1>2, <1>3
-----------------------------------------------------------------------------
(* The counts of par_count_if.                                               *)
\* One more element adds one match if pred holds for it; the matches of two
\* ranges that are apart add up; a range with all of keep has all matches.
LEMMA MatchesAddUp ==
    ASSUME Given, DataTypes
    PROVE  /\ IsFiniteSet(keep) /\ Cardinality(keep) \in Nat /\ Cardinality(keep) <= n
           /\ \A S : Matches(S) \in Nat
           /\ \A S, i : i \notin S => Matches(S \cup {i}) = Matches(S) + (IF i \in keep THEN 1 ELSE 0)
           /\ \A S, T : S \cap T = {} => Matches(S \cup T) = Matches(S) + Matches(T)
  <1>1. n \in Nat /\ IsFiniteSet(Elements) /\ Cardinality(Elements) = n
    <2>1. n \in Nat
      BY SizesAssumption DEF Given
    <2>2. IsFiniteSet(0 .. n - 1) /\ Cardinality(0 .. n - 1) = IF 0 > n - 1 THEN 0 ELSE n - 1 - 0 + 1
      BY <2>1, FS_Interval
    <2> QED
      BY <2>1, <2>2 DEF Elements
  <1>2. IsFiniteSet(keep) /\ Cardinality(keep) <= n
    BY <1>1, FS_Subset DEF DataTypes
  <1>3. ASSUME NEW S PROVE IsFiniteSet(keep \cap S) /\ Matches(S) \in Nat
    BY <1>2, FS_Subset, FS_CardinalityType DEF Matches
  <1>4. ASSUME NEW S, NEW i, i \notin S PROVE Matches(S \cup {i}) = Matches(S) + (IF i \in keep THEN 1 ELSE 0)
    <2>1. CASE i \in keep
      <3>1. keep \cap (S \cup {i}) = (keep \cap S) \cup {i} /\ i \notin keep \cap S
        BY <1>4, <2>1
      <3> QED
        BY <1>3, <2>1, <3>1, FS_AddElement DEF Matches
    <2>2. CASE i \notin keep
      <3>1. keep \cap (S \cup {i}) = keep \cap S
        BY <2>2
      <3>2. Matches(S \cup {i}) = Matches(S) /\ Matches(S) \in Nat
        BY <1>3, <3>1 DEF Matches
      <3> QED
        BY <2>2, <3>2
    <2> QED
      BY <2>1, <2>2
  <1>5. ASSUME NEW S, NEW T, S \cap T = {} PROVE Matches(S \cup T) = Matches(S) + Matches(T)
    <2>1. keep \cap (S \cup T) = (keep \cap S) \cup (keep \cap T) /\ (keep \cap S) \cap (keep \cap T) = {}
      BY <1>5
    <2>2. Cardinality((keep \cap S) \cup (keep \cap T)) = Cardinality(keep \cap S) + Cardinality(keep \cap T) - Cardinality({})
      <3>1. IsFiniteSet(keep \cap S) /\ IsFiniteSet(keep \cap T)
        BY <1>3
      <3>2. Cardinality((keep \cap S) \cup (keep \cap T)) = Cardinality(keep \cap S) + Cardinality(keep \cap T)
                - Cardinality((keep \cap S) \cap (keep \cap T))
        BY <3>1, FS_Union
      <3> QED
        BY <2>1, <3>2
    <2>3. Matches(S \cup T) = Matches(S) + Matches(T) - Cardinality({})
      BY <2>1, <2>2 DEF Matches
    <2>4. Matches(S) \in Nat /\ Matches(T) \in Nat
      BY <1>3
    <2>5. Cardinality({}) = 0
      BY FS_EmptySet
    <2> QED
      BY <2>3, <2>4, <2>5
  <1> QED
    BY <1>2, <1>3, <1>4, <1>5, FS_CardinalityType

\* What a step of par_count_if does to the count of one part.
LEMMA CountMoves ==
    ASSUME ParallelInv, DataTypes, LoopsInv, algorithm = "par_count_if", [Next]_vars, NEW q \in Parts
    PROVE  \/ /\ AtElement(q) /\ Small(q) /\ call'[q] = "loop" /\ next'[q] = next[q] + 1
              /\ num'[q] = num[q] + (IF next[q] \in keep THEN 1 ELSE 0)
           \/ /\ next'[q] = next[q] /\ num'[q] = num[q]
              /\ call'[q] = "returned" => call[q] = "returned" \/ (Small(q) /\ next[q] = q[2])
           \/ /\ ~Small(q) /\ next'[q] = next[q] /\ FirstHalf(q) \in Parts /\ SecondHalf(q) \in Parts
              /\ call'[q] = "returned" => /\ call[FirstHalf(q)] = "returned" /\ call[SecondHalf(q)] = "returned"
                                          /\ num'[q] = num[FirstHalf(q)] + num[SecondHalf(q)]
  <1> USE DEF ParallelInv
  <1> DEFINE Same == next' = next /\ num' = num
  <1>0. /\ algorithm \in Recursive /\ algorithm \notin Chunked /\ Gets
        /\ call \in [Parts -> Calls] /\ next \in [Parts -> Nat] /\ num \in [Parts -> Nat]
    BY DEF Recursive, Chunked, Gets, Types, DataTypes
  <1>1. \A p \in Parts : Undivided(p) <=> Small(p)
    BY <1>0 DEF Undivided
  <1>2. ASSUME Same, ~Wait(q), ~EndOfLoop(q)
        PROVE  call'[q] = "returned" => call[q] = "returned"
    BY <1>2, CallMoves
  <1>3. ASSUME EndOfLoop(q)
        PROVE  Same /\ (call'[q] = "returned" => Small(q) /\ next[q] = q[2])
    <2>1. Small(q)
      BY <1>0, <1>3, OnePart DEF part, EndOfLoop, RecursiveInv, Shape
    <2> QED
      BY <1>0, <1>3, <2>1 DEF EndOfLoop, leaf
  <1>4. ASSUME NEW p \in Parts, Test(p)
        PROVE  /\ AtElement(p) /\ Small(p) /\ call' = call /\ next' = [next EXCEPT ![p] = @ + 1]
               /\ num'[p] = num[p] + (IF next[p] \in keep THEN 1 ELSE 0)
               /\ \A r \in Parts : r # p => num'[r] = num[r]
    <2>1. AtElement(p) /\ Small(p) /\ call' = call /\ next' = [next EXCEPT ![p] = @ + 1]
      BY <1>1, <1>4, ElementOfPart DEF Test, Past
    <2>2. CASE next[p] \in keep
      <3>1. num' = [num EXCEPT ![p] = @ + 1]
        BY <1>4, <2>2 DEF Test
      <3>2. num'[p] = num[p] + 1 /\ \A r \in Parts : r # p => num'[r] = num[r]
        BY <1>0, <3>1
      <3> QED
        BY <2>1, <2>2, <3>2
    <2>3. CASE next[p] \notin keep
      <3>1. num' = num
        BY <1>4, <2>3 DEF Test
      <3>2. num[p] + 0 = num[p]
        BY <1>0
      <3> QED
        BY <2>1, <2>3, <3>1, <3>2
    <2> QED
      BY <2>1, <2>2, <2>3
  <1>5. ASSUME NEW p \in Parts, Wait(p)
        PROVE  /\ ~Small(p) /\ next' = next /\ FirstHalf(p) \in Parts /\ SecondHalf(p) \in Parts
               /\ \A r \in Parts : r # p => num'[r] = num[r]
               /\ call'[p] = "returned" => /\ call[FirstHalf(p)] = "returned" /\ call[SecondHalf(p)] = "returned"
                                           /\ num'[p] = num[FirstHalf(p)] + num[SecondHalf(p)]
    <2>1. p \in Started /\ call[p] = "second" /\ ~Small(p)
      BY <1>0, <1>5, OnePart DEF part, RecursiveInv, Shape, Wait
    <2>2. FirstHalf(p) \in Parts /\ SecondHalf(p) \in Parts /\ FirstHalf(p) # p
      BY <2>1, Halves DEF Types
    <2>3. CASE call' = [call EXCEPT ![FirstHalf(p)] = "ready"] /\ num' = num
      BY <1>0, <1>5, <2>1, <2>2, <2>3 DEF Wait
    <2>4. CASE /\ call[SecondHalf(p)] = "returned" /\ IsOver(FirstHalf(p))
               /\ call' = [call EXCEPT ![p] = call[FirstHalf(p)]]
               /\ num' = [num EXCEPT ![p] = num[FirstHalf(p)] + num[SecondHalf(p)]]
      BY <1>0, <1>5, <2>1, <2>2, <2>4 DEF Wait
    <2>5. CASE call' = [call EXCEPT ![p] = "threw"] /\ num' = num
      BY <1>0, <1>5, <2>1, <2>2, <2>5 DEF Wait
    <2> QED
      BY <1>0, <1>5, <2>3, <2>4, <2>5 DEF Wait
  <1>6. ASSUME NEW p \in Parts, part(p), ~Test(p), ~Wait(p) PROVE Same
    <2>1. ~Transform(p) /\ ~Claim(p) /\ ~Write(p)
      BY DEF Transform, Claim, Write
    <2>2. Begin(p) \/ EndOfLoop(p) \/ Divide(p) => Same
      BY DEF Begin, EndOfLoop, Divide, leaf
    <2> QED
      BY <1>6, <2>1, <2>2 DEF part
  <1>7. chunks \/ UNCHANGED vars => Same
    BY DEF chunks, LaunchChunk, AllLaunched, Join, RunDeferred, Move, Unwind, leaf, vars
  <1>8. CASE \E p \in Parts : Test(p)
    <2>1. PICK p \in Parts : Test(p)
      BY <1>8
    <2>2. CASE p = q
      BY <1>0, <1>4, <2>1, <2>2 DEF AtElement
    <2>3. CASE p # q
      BY <1>0, <1>4, <2>1, <2>3
    <2> QED
      BY <2>2, <2>3
  <1>9. CASE Wait(q)
    BY <1>5, <1>9
  <1>10. CASE \E p \in Parts \ {q} : Wait(p)
    <2>1. PICK p \in Parts \ {q} : Wait(p)
      BY <1>10
    <2>2. next'[q] = next[q] /\ num'[q] = num[q]
      BY <1>5, <2>1
    <2>3. ~(EndOfLoop(q) /\ call[q] = "loop" /\ Undivided(q) /\ IsOver(q)')
      <3>1. p \in Started /\ call[p] = "second" /\ ~Small(p) /\ FirstHalf(p) \in Parts /\ SecondHalf(p) \in Parts
        BY <1>0, <2>1, OnePart, <1>5 DEF part, Wait
      <3>2. call' = [call EXCEPT ![FirstHalf(p)] = "ready"] \/ \E c \in {"returned", "threw"} : call' = [call EXCEPT ![p] = c]
        BY <1>0, <2>1 DEF Wait, IsOver
      <3>3. call'[q] = call[q] \/ call'[q] = "ready"
        BY <1>0, <2>1, <3>1, <3>2
      <3> QED
        BY <3>3 DEF IsOver
    <2>4. ~(Wait(q) /\ call[q] = "second" /\ ~Undivided(q) /\ IsOver(q)') \/ Wait(q)
      OBVIOUS
    <2>5. CASE ~Wait(q)
      BY <2>2, <2>3, <2>5, CallMoves
    <2> QED
      BY <1>9, <2>5
  <1>11. CASE Same
    BY <1>2, <1>3, <1>9, <1>11
  <1> QED
    BY <1>6, <1>7, <1>8, <1>9, <1>10, <1>11 DEF Next, Ended

\* Each count stays the number of matches passed, and becomes that of the part.
LEMMA CountsKept ==
    ASSUME ParallelInv, DataTypes, LoopsInv, CountResults, [Next]_vars
    PROVE  CountResults'
  <1> USE DEF ParallelInv
  <1>0. UNCHANGED <<algorithm, chunk_sz, keep>> /\ Given
    BY GivenKept DEF Types
  <1> SUFFICES ASSUME algorithm = "par_count_if", NEW q \in Parts
               PROVE  /\ Small(q) => num'[q] = Matches(q[1] .. next'[q] - 1)
                      /\ call'[q] = "returned" => num'[q] = Matches(Span(q))
    BY <1>0 DEF CountResults, Matches, Passed, Span, Small
  <1>1. /\ Small(q) => num[q] = Matches(q[1] .. next[q] - 1)
        /\ call[q] = "returned" => num[q] = Matches(Span(q))
    BY DEF CountResults, Passed
  <1>2. CASE /\ AtElement(q) /\ Small(q) /\ call'[q] = "loop" /\ next'[q] = next[q] + 1
             /\ num'[q] = num[q] + (IF next[q] \in keep THEN 1 ELSE 0)
    <2>1. next[q] \in Nat /\ q[1] \in Nat /\ q[1] <= next[q]
      BY <1>2, ElementOfPart
    <2>2. q[1] .. next'[q] - 1 = (q[1] .. next[q] - 1) \cup {next[q]} /\ next[q] \notin q[1] .. next[q] - 1
      BY <1>2, <2>1
    <2>3. Matches(q[1] .. next'[q] - 1) = Matches(q[1] .. next[q] - 1) + (IF next[q] \in keep THEN 1 ELSE 0)
      BY <1>0, <2>2, MatchesAddUp
    <2> QED
      BY <1>1, <1>2, <2>3
  <1>3. CASE /\ next'[q] = next[q] /\ num'[q] = num[q]
             /\ call'[q] = "returned" => call[q] = "returned" \/ (Small(q) /\ next[q] = q[2])
    BY <1>1, <1>3 DEF Span
  <1>4. CASE /\ ~Small(q) /\ next'[q] = next[q] /\ FirstHalf(q) \in Parts /\ SecondHalf(q) \in Parts
             /\ call'[q] = "returned" => /\ call[FirstHalf(q)] = "returned" /\ call[SecondHalf(q)] = "returned"
                                         /\ num'[q] = num[FirstHalf(q)] + num[SecondHalf(q)]
    <2>1. /\ Span(q) = Span(FirstHalf(q)) \cup Span(SecondHalf(q))
          /\ Span(FirstHalf(q)) \cap Span(SecondHalf(q)) = {}
      BY <1>0, <1>4, SpanOfHalves
    <2>2. Matches(Span(q)) = Matches(Span(FirstHalf(q))) + Matches(Span(SecondHalf(q)))
      BY <1>0, <2>1, MatchesAddUp
    <2>3. \A r \in Parts : call[r] = "returned" => num[r] = Matches(Span(r))
      BY DEF CountResults
    <2> QED
      BY <1>4, <2>2, <2>3
  <1> QED
    BY <1>2, <1>3, <1>4, CountMoves
-----------------------------------------------------------------------------
(* The positions of par_copy_if_sync.                                        *)
\* A loop goes on until it ends.
LEMMA LoopStays ==
    ASSUME ParallelInv, [Next]_vars, NEW q \in Parts, call[q] = "loop"
    PROVE  call'[q] = "loop" \/ EndOfLoop(q)
  <1> USE DEF ParallelInv
  <1>0. call \in [Parts -> Calls] /\ q \in Started
    BY DEF Types, Started
  <1>1. ASSUME NEW p \in Parts, part(p) PROVE call'[q] = "loop" \/ EndOfLoop(q)
    <2>1. CASE Begin(p) \/ EndOfLoop(p)
      BY <1>0, <2>1 DEF Begin, EndOfLoop
    <2>2. CASE Transform(p) \/ Test(p) \/ Claim(p) \/ Write(p)
      BY <2>2 DEF Transform, Test, Claim, Write
    <2>3. CASE Divide(p)
      <3>1. p \in Started /\ ~Small(p) /\ algorithm \in Recursive /\ call[p] = "ready"
        BY <1>1, <2>3, OnePart DEF Divide
      <3>2. q \notin {p, FirstHalf(p), SecondHalf(p)}
        BY <1>0, <2>3, <3>1, FreshHalves DEF RecursiveInv
      <3> QED
        BY <1>0, <2>3, <3>2 DEF Divide
    <2>4. CASE Wait(p)
      BY <1>0, <2>4 DEF Wait
    <2> QED
      BY <1>1, <2>1, <2>2, <2>3, <2>4 DEF part
  <1>2. CASE LaunchChunk
    <2>1. PICK p \in Parts \ Started, launched \in Launched : call' = [call EXCEPT ![p] = launched]
      BY <1>2, FreshChunk
    <2> QED
      BY <1>0, <2>1
  <1>3. CASE RunDeferred
    BY <1>0, <1>3 DEF RunDeferred
  <1>4. CASE AllLaunched \/ Join \/ Move \/ Unwind \/ UNCHANGED vars
    BY <1>4 DEF AllLaunched, Join, Move, Unwind, vars
  <1> QED
    BY <1>1, <1>2, <1>3, <1>4 DEF Next, Ended, chunks

\* The elements seen only grow by the one that a loop moves past.
LEMMA SeenMoves ==
    ASSUME ParallelInv, DataTypes, LoopsInv, [Next]_vars
    PROVE  /\ next' = next => Seen' = Seen
           /\ \A p \in Parts : AtElement(p) /\ Small(p) /\ next' = [next EXCEPT ![p] = @ + 1] =>
                  Seen' = Seen \cup (keep \cap {next[p]})
  <1> USE DEF ParallelInv
  <1>0. UNCHANGED <<chunk_sz, keep>> /\ \A q \in Parts : Small(q)' = Small(q)
    BY GivenKept DEF Small
  <1>1. ASSUME NEW q \in Parts, q \notin Started PROVE Passed(q) = {}
    BY <1>1, Ends DEF LoopsInv, Passed
  <1>2. Started \subseteq Started' /\ Started \subseteq Parts /\ Started' \subseteq Parts
    BY Settles DEF Started
  <1>3. ASSUME next' = next PROVE Seen' = Seen
    <2>1. \A q : Passed(q)' = Passed(q)
      BY <1>3 DEF Passed
    <2> QED
      BY <1>0, <1>1, <1>2, <2>1 DEF Seen
  <1>4. ASSUME NEW p \in Parts, AtElement(p), Small(p), next' = [next EXCEPT ![p] = @ + 1]
        PROVE  Seen' = Seen \cup (keep \cap {next[p]})
    <2>1. p \in Started /\ next[p] \in Nat /\ p[1] \in Nat /\ p[1] <= next[p]
      BY <1>4, ElementOfPart
    <2>2. next'[p] = next[p] + 1 /\ \A q \in Parts : q # p => next'[q] = next[q]
      BY <1>4 DEF Types
    <2>3. Passed(p)' = Passed(p) \cup {next[p]}
      BY <2>1, <2>2 DEF Passed
    <2>4. \A q \in Parts : q # p => Passed(q)' = Passed(q)
      BY <2>2 DEF Passed
    <2> QED
      BY <1>0, <1>1, <1>2, <1>4, <2>1, <2>3, <2>4 DEF Seen
  <1> QED
    BY <1>3, <1>4

\* The element that a loop is at has not been seen by any loop, and none holds
\* a position for it but itself; there is room for every position.
LEMMA FreshElement ==
    ASSUME ParallelInv, DataTypes, LoopsInv, SyncResults, algorithm = "par_copy_if_sync"
    PROVE  /\ \A p \in Holding : AtElement(p) /\ next[p] \in keep /\ out[p] \in Nat
           /\ \A p \in Parts : AtElement(p) =>
                  Small(p) /\ next[p] \notin Seen /\ \A q \in Holding : q # p => next[q] # next[p]
           /\ Seen \cup Pending \subseteq keep /\ IsFiniteSet(Seen \cup Pending)
           /\ 0 .. dst_idx - 1 \subseteq Elements
  <1> USE DEF ParallelInv
  <1>1. \A p \in Holding : p \in Parts /\ AtElement(p) /\ next[p] \in keep /\ out[p] \in Nat
    BY DEF SyncResults, Holding, AtElement, Types
  <1>2. \A p : Undivided(p) <=> Small(p)
    BY DEF Undivided, Chunked
  <1>3. ASSUME NEW p \in Parts, AtElement(p)
        PROVE  Small(p) /\ next[p] \notin Seen /\ \A q \in Holding : q # p => next[q] # next[p]
    <2>1. Small(p) /\ next[p] \in Span(p) /\ next[p] \notin Passed(p)
      BY <1>2, <1>3, ElementOfPart DEF Span, Passed
    <2>2. ASSUME NEW q \in Parts, q \in Started, Small(q), next[p] \in Passed(q) PROVE FALSE
      <3>1. q # p /\ next[p] \in Span(q)
        BY <2>1, <2>2, PassedElements
      <3> QED
        BY <1>2, <1>3, <2>1, <2>2, <3>1, LeavesApart, ElementOfPart
    <2>3. ASSUME NEW q \in Holding, q # p, next[q] = next[p] PROVE FALSE
      <3>1. q \in Parts /\ AtElement(q) /\ q \in Started /\ Undivided(q) /\ next[q] \in Span(q)
        BY <1>1, ElementOfPart DEF Span
      <3> QED
        BY <1>3, <2>1, <2>3, <3>1, LeavesApart, ElementOfPart
    <2> QED
      BY <2>1, <2>2, <2>3 DEF Seen, Started
  <1>4. Seen \cup Pending \subseteq keep
    BY <1>1 DEF Seen, Pending
  <1>5. IsFiniteSet(Seen \cup Pending) /\ Cardinality(Seen \cup Pending) <= n
    <2>1. IsFiniteSet(keep) /\ Cardinality(keep) \in Nat /\ Cardinality(keep) <= n
      BY MatchesAddUp DEF Types
    <2>2. IsFiniteSet(Seen \cup Pending) /\ Cardinality(Seen \cup Pending) <= Cardinality(keep)
      BY <1>4, <2>1, FS_Subset
    <2> QED
      BY <2>1, <2>2, FS_CardinalityType, SizesAssumption DEF Types, Given
  <1>6. 0 .. dst_idx - 1 \subseteq Elements
    BY <1>5, SizesAssumption DEF SyncResults, Types, Given, Elements
  <1> QED
    BY <1>1, <1>3, <1>4, <1>5, <1>6

\* A claim takes the next position for an element not met before; a write puts
\* the element at its position and gives it up.
LEMMA SyncKept ==
    ASSUME ParallelInv, DataTypes, LoopsInv, SyncResults, [Next]_vars
    PROVE  SyncResults'
  <1> USE DEF ParallelInv
  <1>0. UNCHANGED <<algorithm, keep, bad>>
    BY GivenKept
  <1> SUFFICES ASSUME algorithm = "par_copy_if_sync" PROVE SyncResults'
    BY <1>0 DEF SyncResults
  <1>00. /\ algorithm \in Recursive /\ None \notin Nat /\ dst_idx \in Nat
         /\ call \in [Parts -> Calls] /\ next \in [Parts -> Nat] /\ out \in [Parts -> Nat \cup {None}]
         /\ dst \in [Elements -> Elements \cup {None}]
    BY SizesAssumption DEF Types, DataTypes, Recursive
  <1>01. /\ \A p \in Holding : p \in Parts /\ AtElement(p) /\ next[p] \in keep /\ out[p] \in Nat
         /\ \A p \in Parts : AtElement(p) =>
                Small(p) /\ next[p] \notin Seen /\ \A q \in Holding : q # p => next[q] # next[p]
         /\ 0 .. dst_idx - 1 \subseteq Elements
    BY FreshElement DEF Holding
  <1>1. CASE UNCHANGED <<next, out, dst, dst_idx>>
    <2>1. Holding' = Holding /\ Held' = Held /\ Pending' = Pending /\ Seen' = Seen
      BY <1>1, SeenMoves DEF Holding, Held, Pending
    <2>2. ASSUME NEW p \in Holding PROVE call'[p] = "loop"
      <3>1. call[p] = "loop" /\ next[p] < p[2] /\ next[p] \notin bad /\ p \in Parts /\ next[p] \in Nat /\ p[2] \in Nat
        BY <1>00, <1>01, Ends DEF AtElement
      <3>2. ~EndOfLoop(p)
        BY <3>1 DEF EndOfLoop
      <3> QED
        BY <3>1, <3>2, LoopStays
    <2> QED
      BY <1>0, <1>1, <2>1, <2>2 DEF SyncResults
  <1>2. ASSUME NEW p \in Parts, Test(p) PROVE SyncResults'
    <2>1. AtElement(p) /\ next[p] \notin keep /\ UNCHANGED <<call, out, dst, dst_idx>> /\ next' = [next EXCEPT ![p] = @ + 1]
      BY <1>2 DEF Test, Past, memory
    <2>2. p \notin Holding
      BY <1>01, <2>1
    <2>3. Holding' = Holding /\ Held' = Held
      BY <2>1 DEF Holding, Held
    <2>4. \A q \in Holding : next'[q] = next[q]
      BY <1>00, <1>01, <2>1, <2>2
    <2>5. Pending' = Pending
      BY <2>3, <2>4 DEF Pending
    <2>6. Seen' = Seen
      <3>1. keep \cap {next[p]} = {}
        BY <2>1
      <3> QED
        BY <1>01, <2>1, <3>1, SeenMoves
    <2>7. \A q \in Holding' : call'[q] = "loop" /\ next'[q] \in keep /\ next'[q] < q[2] /\ next'[q] \notin bad
      BY <2>1, <2>3, <2>4 DEF SyncResults
    <2>8. dst_idx' = Cardinality(Seen' \cup Pending') /\ {dst'[k] : k \in (0 .. dst_idx' - 1) \ Held'} = Seen'
      BY <2>1, <2>3, <2>5, <2>6 DEF SyncResults
    <2> QED
      BY <1>0, <2>7, <2>8 DEF SyncResults
  <1>3. ASSUME NEW p \in Parts, Claim(p) PROVE SyncResults'
    <2>1. /\ AtElement(p) /\ next[p] \in keep /\ out[p] = None /\ UNCHANGED <<call, next, dst>>
          /\ out' = [out EXCEPT ![p] = dst_idx] /\ dst_idx' = dst_idx + 1
      BY <1>3 DEF Claim
    <2>2. out'[p] = dst_idx /\ dst_idx # None /\ (\A q \in Parts : q # p => out'[q] = out[q]) /\ p \notin Holding
      BY <1>00, <2>1 DEF Holding
    <2>3. Holding' = Holding \cup {p}
      BY <2>2 DEF Holding
    <2>4. Held' = Held \cup {dst_idx} /\ Pending' = Pending \cup {next[p]}
      <3>1. Held' = Held \cup {dst_idx}
        BY <1>01, <2>2, <2>3 DEF Held
      <3>2. Pending' = Pending \cup {next[p]}
        BY <2>1, <2>3 DEF Pending
      <3> QED
        BY <3>1, <3>2
    <2>5. Seen' = Seen
      BY <2>1, SeenMoves
    <2>6. next[p] \notin Seen \cup Pending
      BY <1>01, <2>1, <2>2 DEF Pending
    <2>7. dst_idx' = Cardinality(Seen' \cup Pending')
      <3>1. Seen' \cup Pending' = (Seen \cup Pending) \cup {next[p]}
        BY <2>4, <2>5
      <3>2. Cardinality((Seen \cup Pending) \cup {next[p]}) = Cardinality(Seen \cup Pending) + 1
        BY <2>6, FreshElement, FS_AddElement
      <3> QED
        BY <2>1, <3>1, <3>2 DEF SyncResults
    <2>8. (0 .. dst_idx' - 1) \ Held' = (0 .. dst_idx - 1) \ Held
      BY <1>00, <2>1, <2>4
    <2>9. \A q \in Holding' : call'[q] = "loop" /\ next'[q] \in keep /\ next'[q] < q[2] /\ next'[q] \notin bad
      BY <2>1, <2>3 DEF SyncResults, AtElement
    <2> QED
      BY <1>0, <2>1, <2>5, <2>7, <2>8, <2>9 DEF SyncResults
  <1>4. ASSUME NEW p \in Parts, Write(p) PROVE SyncResults'
    <2>1. /\ AtElement(p) /\ next[p] \in keep /\ p \in Holding /\ UNCHANGED <<call, dst_idx>>
          /\ out' = [out EXCEPT ![p] = None] /\ dst' = [dst EXCEPT ![out[p]] = next[p]]
          /\ next' = [next EXCEPT ![p] = @ + 1]
      BY <1>4 DEF Write, Past, Holding
    <2>2. out'[p] = None /\ \A q \in Parts : q # p => out'[q] = out[q] /\ next'[q] = next[q]
      BY <1>00, <2>1
    <2>3. Holding' = Holding \ {p}
      BY <2>2 DEF Holding
    <2>4. out[p] \in Nat /\ out[p] < dst_idx /\ \A q \in Holding : q # p => out[q] # out[p]
      BY <1>01, <2>1 DEF Claimed, Holding
    <2>5. Held' = Held \ {out[p]}
      <3>1. \A q \in Holding' : out'[q] = out[q]
        BY <2>2, <2>3 DEF Holding
      <3> QED
        BY <2>3, <2>4, <3>1 DEF Held
    <2>6. Seen' = Seen \cup {next[p]}
      <3>1. keep \cap {next[p]} = {next[p]}
        BY <2>1
      <3>2. Seen' = Seen \cup (keep \cap {next[p]})
        BY <1>01, <2>1, SeenMoves
      <3> QED
        BY <3>1, <3>2
    <2>7. Seen' \cup Pending' = Seen \cup Pending
      <3>1. \A q \in Holding' : next'[q] = next[q]
        BY <2>2, <2>3 DEF Holding
      <3> QED
        BY <2>1, <2>3, <2>6, <3>1 DEF Pending
    <2>8. (0 .. dst_idx' - 1) \ Held' = ((0 .. dst_idx - 1) \ Held) \cup {out[p]}
      BY <1>00, <2>1, <2>4, <2>5
    <2>9. dst'[out[p]] = next[p] /\ \A k \in (0 .. dst_idx - 1) \ Held : dst'[k] = dst[k]
      <3>1. out[p] \in 0 .. dst_idx - 1 /\ out[p] \in Held
        BY <1>00, <2>1, <2>4 DEF Held
      <3> QED
        BY <1>00, <1>01, <2>1, <3>1
    <2>10. {dst'[k] : k \in (0 .. dst_idx' - 1) \ Held'} = Seen'
      <3>1. {dst'[k] : k \in (0 .. dst_idx - 1) \ Held} = {dst[k] : k \in (0 .. dst_idx - 1) \ Held}
        BY <2>9
      <3>2. {dst'[k] : k \in (0 .. dst_idx - 1) \ Held} = Seen
        BY <3>1 DEF SyncResults
      <3> QED
        BY <2>6, <2>8, <2>9, <3>2
    <2>11. \A q \in Holding' : call'[q] = "loop" /\ next'[q] \in keep /\ next'[q] < q[2] /\ next'[q] \notin bad
      BY <2>1, <2>2, <2>3 DEF SyncResults, Holding
    <2> QED
      BY <1>0, <2>1, <2>7, <2>10, <2>11 DEF SyncResults
  <1>5. ASSUME NEW p \in Parts, part(p), ~Test(p), ~Claim(p), ~Write(p) PROVE SyncResults'
    <2>1. ~Transform(p)
      BY DEF Transform
    <2>2. Begin(p) \/ EndOfLoop(p) \/ Divide(p) \/ Wait(p) => UNCHANGED <<next, out, dst, dst_idx>>
      BY DEF Begin, EndOfLoop, Divide, Wait, leaf, memory
    <2> QED
      BY <1>1, <1>5, <2>1, <2>2 DEF part
  <1>6. ~chunks
    BY <1>00, ChunksAreChunked
  <1> QED
    BY <1>1, <1>2, <1>3, <1>4, <1>5, <1>6 DEF Next, Ended, vars, leaf, memory
-----------------------------------------------------------------------------
(* The lists of par_copy_if_split.                                           *)
\* A list is what it was where nothing is written over it.
LEMMA ListsFrame ==
    ASSUME NEW d, NEW e, NEW K, NEW S, Lists(d, K, S), \A k \in K : e[k] = d[k]
    PROVE  Lists(e, K, S)
  <1>1. {e[k] : k \in K} = {d[k] : k \in K}
    OBVIOUS
  <1> QED
    BY <1>1 DEF Lists

\* A greater element written behind a list makes it longer.
LEMMA ListsAppend ==
    ASSUME NEW d, NEW e, NEW S, NEW a \in Nat, NEW b \in Nat, a <= b, NEW x \in Nat,
           Lists(d, a .. b - 1, S), \A k \in a .. b - 1 : e[k] = d[k], e[b] = x,
           \A s \in S : s < x
    PROVE  Lists(e, a .. b, S \cup {x})
  <1>1. a .. b = (a .. b - 1) \cup {b} /\ b \notin a .. b - 1
    OBVIOUS
  <1>2. \A k \in a .. b - 1 : e[k] \in S
    BY DEF Lists
  <1>3. {e[k] : k \in a .. b} = S \cup {x}
    <2>1. {e[k] : k \in a .. b - 1} = S
      BY ListsFrame DEF Lists
    <2> QED
      BY <1>1, <2>1
  <1>4. ASSUME NEW k \in a .. b, NEW l \in a .. b, k < l PROVE e[k] < e[l]
    <2>1. k \in a .. b - 1
      BY <1>4
    <2>2. CASE l = b
      BY <1>2, <2>1, <2>2
    <2>3. CASE l \in a .. b - 1
      BY <1>4, <2>1, <2>3 DEF Lists
    <2> QED
      BY <1>1, <2>2, <2>3
  <1> QED
    BY <1>3, <1>4 DEF Lists

\* A list behind another one, with greater elements, continues it.
LEMMA ListsJoin ==
    ASSUME NEW d, NEW K \in SUBSET Nat, NEW L \in SUBSET Nat, NEW S, NEW T,
           Lists(d, K, S), Lists(d, L, T),
           \A k \in K, l \in L : k < l, \A s \in S, t \in T : s < t
    PROVE  Lists(d, K \cup L, S \cup T)
  <1>1. {d[k] : k \in K \cup L} = S \cup T
    BY DEF Lists
  <1>2. (\A k \in K : d[k] \in S) /\ (\A l \in L : d[l] \in T)
    BY DEF Lists
  <1>3. ASSUME NEW k \in K \cup L, NEW l \in K \cup L, k < l PROVE d[k] < d[l]
    <2>1. ~(k \in L /\ l \in K)
      BY <1>3
    <2> QED
      BY <1>2, <1>3, <2>1 DEF Lists
  <1> QED
    BY <1>1, <1>3 DEF Lists

\* Moving the first element behind a gap to where the gap begins keeps the list.
LEMMA ListsShift ==
    ASSUME NEW d, NEW e, NEW S, NEW a \in Nat, NEW b \in Nat, NEW c \in Nat, a <= b, b < c,
           Lists(d, (0 .. a - 1) \cup (b .. c - 1), S),
           e[a] = d[b], \A k \in (0 .. a - 1) \cup (b + 1 .. c - 1) : e[k] = d[k]
    PROVE  Lists(e, (0 .. a) \cup (b + 1 .. c - 1), S)
  <1> DEFINE Old == (0 .. a - 1) \cup (b .. c - 1)
             New == (0 .. a) \cup (b + 1 .. c - 1)
             was(k) == IF k = a THEN b ELSE k
  <1>1. \A k \in New : was(k) \in Old /\ e[k] = d[was(k)] /\ k \in Nat
    OBVIOUS
  <1>2. \A k \in Old : \E l \in New : was(l) = k
    <2>1. \A k \in Old : k # b => k \in New /\ k # a
      OBVIOUS
    <2>2. a \in New
      OBVIOUS
    <2> QED
      BY <2>1, <2>2
  <1>3. \A k, l \in New : k < l => was(k) < was(l)
    OBVIOUS
  <1>4. {d[k] : k \in Old} = S /\ \A k, l \in Old : k < l => d[k] < d[l]
    BY DEF Lists
  <1> HIDE DEF Old, New, was
  <1>5. {e[k] : k \in New} = S
    BY <1>1, <1>2, <1>4
  <1>6. \A k, l \in New : k < l => e[k] < e[l]
    BY <1>1, <1>3, <1>4
  <1>7. Lists(e, New, S)
    BY <1>5, <1>6 DEF Lists
  <1> QED
    BY <1>7 DEF New

\* Where the chunks are and how far their tasks have come; where the merge is.
LEMMA ChunkBounds ==
    ASSUME ParallelInv, DataTypes, ChunkResults, algorithm = "par_copy_if_split"
    PROVE  /\ \A j \in DOMAIN futures :
                 /\ j \in Nat /\ futures[j] \in Parts /\ futures[j][1] \in Nat /\ futures[j][2] \in Nat
                 /\ out[futures[j]] \in Nat /\ next[futures[j]] \in Nat
                 /\ futures[j][1] <= out[futures[j]] /\ out[futures[j]] <= next[futures[j]]
                 /\ next[futures[j]] <= futures[j][2] /\ futures[j][1] < futures[j][2] /\ futures[j][2] <= n
           /\ \A j, k \in DOMAIN futures : j < k => futures[j][2] <= futures[k][1]
           /\ \A j, k \in DOMAIN futures : futures[j] = futures[k] => j = k
           /\ algorithm \in Chunked /\ Gets /\ joined \in Nat /\ new_end \in Nat /\ from \in Nat
           /\ joined > 0 => joined \in DOMAIN futures
           /\ main = "move" => joined > 0 /\ new_end <= from /\ from <= out[futures[joined]]
  <1> USE DEF ParallelInv
  <1>1. algorithm \in Chunked /\ Gets /\ joined \in Nat /\ new_end \in Nat /\ from \in Nat
    BY DEF Chunked, Gets, Types
  <1>2. DOMAIN futures = 1 .. Len(futures) /\ Len(futures) \in Nat /\ \A j \in DOMAIN futures : futures[j] \in Parts
    BY DEF Types
  <1>3. ASSUME NEW j \in DOMAIN futures
        PROVE  /\ j \in Nat /\ futures[j] \in Parts /\ futures[j][1] \in Nat /\ futures[j][2] \in Nat
               /\ out[futures[j]] \in Nat /\ next[futures[j]] \in Nat
               /\ futures[j][1] <= out[futures[j]] /\ out[futures[j]] <= next[futures[j]]
               /\ next[futures[j]] <= futures[j][2] /\ futures[j][1] < futures[j][2]
    <2>1. PICK p \in Parts : p = futures[j]
      BY <1>2
    <2>2. p[1] \in Nat /\ p[2] \in Nat /\ next[p] \in Nat /\ next[p] <= p[2]
      BY Ends DEF Types, InPart
    <2>3. out[p] \in Nat /\ p[1] <= out[p] /\ out[p] <= next[p]
      BY DEF BehindRead
    <2>4. futures[j][1] < futures[j][2]
      BY <1>1 DEF ChunkedInv
    <2> QED
      BY <1>2, <2>1, <2>2, <2>3, <2>4
  <1>4. \A j, k \in DOMAIN futures : j < k => futures[j][2] <= futures[k][1]
    BY <1>1 DEF ChunkedInv
  <1>5. ASSUME NEW j \in DOMAIN futures, NEW k \in DOMAIN futures, futures[j] = futures[k] PROVE j = k
    <2>1. ~(j < k) /\ ~(k < j)
      BY <1>3, <1>4, <1>5
    <2> QED
      BY <1>3, <2>1
  <1>6. joined > 0 => joined \in DOMAIN futures
    BY <1>1, <1>2 DEF Types
  <1>8. ASSUME NEW j \in DOMAIN futures PROVE futures[j][2] <= n
    <2>1. n \in Nat /\ Len(futures) \in DOMAIN futures /\ j <= Len(futures) /\ futures # <<>>
      BY <1>2, <1>8, SizesAssumption DEF Types, Given
    <2>2. futures[Len(futures)][2] <= n
      BY <1>1, <1>3, <2>1 DEF ChunkResults
    <2>3. futures[j][2] \in Nat /\ futures[Len(futures)][1] < futures[Len(futures)][2] /\ futures[Len(futures)][2] \in Nat
      BY <1>3, <1>8, <2>1
    <2>4. j = Len(futures) \/ futures[j][2] <= futures[Len(futures)][1]
      <3>1. j = Len(futures) \/ j < Len(futures)
        BY <1>2, <1>8, <2>1
      <3> QED
        BY <1>4, <1>8, <2>1, <3>1
    <2>5. futures[Len(futures)][1] \in Nat
      BY <1>3, <2>1
    <2> QED
      BY <2>1, <2>2, <2>3, <2>4, <2>5
  <1>7. main = "move" => joined > 0 /\ new_end <= from /\ from <= out[futures[joined]]
    BY DEF Merged, Types
  <1> QED
    BY <1>1, <1>3, <1>4, <1>5, <1>6, <1>7, <1>8

\* A write lists one more match of its chunk; a launch begins an empty list; a
\* join takes the list of the next chunk, and the merge moves it into place.
LEMMA SplitKept ==
    ASSUME ParallelInv, DataTypes, LoopsInv, ChunkResults, SplitResults, [Next]_vars
    PROVE  SplitResults'
  <1> USE DEF ParallelInv
  <1>0. UNCHANGED <<algorithm, keep, n>>
    BY GivenKept
  <1> SUFFICES ASSUME algorithm = "par_copy_if_split" PROVE SplitResults'
    BY <1>0 DEF SplitResults
  <1>00. /\ algorithm \in Chunked /\ algorithm \notin Recursive /\ Gets /\ n \in Nat /\ keep \subseteq Nat
         /\ call \in [Parts -> Calls] /\ next \in [Parts -> Nat] /\ out \in [Parts -> Nat \cup {None}]
         /\ dst \in [Elements -> Elements \cup {None}] /\ futures \in Seq(Parts)
         /\ DOMAIN futures = 1 .. Len(futures) /\ Len(futures) \in Nat
    BY SizesAssumption DEF Types, Given, DataTypes, Recursive, Chunked, Gets, Elements
  <1>01. /\ \A j \in DOMAIN futures :
               /\ j \in Nat /\ futures[j] \in Parts /\ futures[j][1] \in Nat /\ futures[j][2] \in Nat
               /\ out[futures[j]] \in Nat /\ next[futures[j]] \in Nat
               /\ futures[j][1] <= out[futures[j]] /\ out[futures[j]] <= next[futures[j]]
               /\ next[futures[j]] <= futures[j][2] /\ futures[j][1] < futures[j][2] /\ futures[j][2] <= n
         /\ \A j, k \in DOMAIN futures : j < k => futures[j][2] <= futures[k][1]
         /\ \A j, k \in DOMAIN futures : futures[j] = futures[k] => j = k
         /\ joined \in Nat /\ new_end \in Nat /\ from \in Nat
         /\ joined > 0 => joined \in DOMAIN futures
         /\ main = "move" => joined > 0 /\ new_end <= from /\ from <= out[futures[joined]]
    BY ChunkBounds
  <1> DEFINE chunkOf(j) == futures[j][1] .. out[futures[j]] - 1
             merged == 0 .. new_end - 1
             moving == from .. out[futures[joined]] - 1
             behind == keep \cap (0 .. futures[joined][2] - 1)
  <1>02. /\ \A j \in DOMAIN futures : j > joined => Lists(dst, chunkOf(j), keep \cap Passed(futures[j]))
         /\ main \in {"join", "returned"} /\ joined > 0 => Lists(dst, merged, behind)
         /\ main = "move" => Lists(dst, merged \cup moving, behind)
    BY DEF SplitResults
  <1>03. main \in {"join", "returned"} /\ joined > 0 => new_end <= futures[joined][2] \/ joined = Len(futures)
    BY <1>00 DEF Merged, ChunkedInv
  <1>1. CASE UNCHANGED <<next, out, dst, futures, joined, new_end, from>> /\ main' \in {main, "unwind", "threw"}
    BY <1>0, <1>1 DEF SplitResults, Passed
  <1>2. ASSUME NEW p \in Parts, Test(p) PROVE SplitResults'
    <2>1. /\ AtElement(p) /\ next[p] \notin keep /\ next' = [next EXCEPT ![p] = @ + 1]
          /\ UNCHANGED <<out, dst, futures, joined, new_end, from, main>>
      BY <1>2, <1>00 DEF Test, Past, memory, caller, merge
    <2>2. \A q \in Parts : keep \cap Passed(q)' = keep \cap Passed(q)
      <3>1. p[1] \in Nat /\ next[p] \in Nat
        BY <1>00, Ends
      <3>2. ASSUME NEW q \in Parts, q # p PROVE Passed(q)' = Passed(q)
        BY <1>00, <2>1, <3>2 DEF Passed
      <3>3. keep \cap Passed(p)' = keep \cap Passed(p)
        BY <1>00, <2>1, <3>1 DEF Passed
      <3> QED
        BY <3>2, <3>3
    <2>3. ASSUME NEW j \in DOMAIN futures, j > joined PROVE Lists(dst, chunkOf(j), keep \cap Passed(futures[j])')
      <3>1. keep \cap Passed(futures[j])' = keep \cap Passed(futures[j])
        BY <1>01, <2>1, <2>2
      <3>2. Lists(dst, chunkOf(j), keep \cap Passed(futures[j]))
        BY <1>02, <2>3
      <3> HIDE DEF chunkOf
      <3> QED
        BY <3>1, <3>2
    <2> QED
      BY <1>0, <1>02, <2>1, <2>3 DEF SplitResults, Passed
  <1>3. ASSUME NEW p \in Parts, Write(p) PROVE SplitResults'
    <2>1. /\ AtElement(p) /\ next[p] \in keep
          /\ dst' = [dst EXCEPT ![out[p]] = next[p]] /\ next' = [next EXCEPT ![p] = @ + 1]
          /\ out' = [out EXCEPT ![p] = @ + 1]
          /\ UNCHANGED <<futures, joined, new_end, from, main>>
      BY <1>3 DEF Write, Past, caller, merge
    <2>2. PICK j0 \in DOMAIN futures : p = futures[j0]
      BY <1>00, <2>1, ElementOfPart DEF ChunkedInv
    <2>3. j0 > joined
      <3>1. ~IsOver(p)
        BY <2>1 DEF AtElement, IsOver
      <3>2. \A j \in 1 .. joined : IsOver(futures[j])
        BY <1>00 DEF ChunkedInv
      <3> QED
        BY <1>00, <1>01, <2>2, <3>1, <3>2
    <2>4. /\ out[p] \in Nat /\ next[p] \in Nat /\ p[1] \in Nat /\ p[2] \in Nat
          /\ p[1] <= out[p] /\ out[p] <= next[p] /\ next[p] < p[2] /\ p[2] <= n
      BY <1>01, <2>1, <2>2, ElementOfPart
    <2>5. dst'[out[p]] = next[p] /\ \A k \in 0 .. n - 1 : k # out[p] => dst'[k] = dst[k]
      BY <1>00, <2>1, <2>4 DEF Elements
    <2>6. ASSUME NEW j \in DOMAIN futures, j > joined
          PROVE  Lists(dst', futures[j][1] .. out'[futures[j]] - 1, keep \cap Passed(futures[j])')
      <3>1. CASE j # j0
        <4>1. futures[j] # p /\ (futures[j][2] <= p[1] \/ p[2] <= futures[j][1])
          BY <1>01, <2>2, <3>1
        <4>2. out'[futures[j]] = out[futures[j]] /\ Passed(futures[j])' = Passed(futures[j])
          BY <1>00, <1>01, <2>1, <4>1 DEF Passed
        <4>3. \A k \in chunkOf(j) : k \in 0 .. n - 1 /\ k # out[p]
          <5>1. /\ futures[j][1] \in Nat /\ futures[j][2] \in Nat /\ out[futures[j]] \in Nat
                /\ futures[j][1] <= out[futures[j]] /\ out[futures[j]] <= futures[j][2] /\ futures[j][2] <= n
            BY <1>01, <2>6
          <5>2. n \in Nat
            BY <1>00
          <5>3. out[futures[j]] <= out[p] \/ out[p] < futures[j][1]
            BY <2>4, <4>1, <5>1
          <5>4. out[p] \in Nat
            BY <2>4
          <5> QED
            BY <5>1, <5>2, <5>3, <5>4
        <4>4. \A k \in chunkOf(j) : dst'[k] = dst[k]
          BY <2>5, <4>3
        <4>5. Lists(dst, chunkOf(j), keep \cap Passed(futures[j]))
          BY <1>02, <2>6
        <4> HIDE DEF chunkOf
        <4>6. Lists(dst', chunkOf(j), keep \cap Passed(futures[j]))
          BY <4>4, <4>5, ListsFrame
        <4> QED
          BY <4>2, <4>6 DEF chunkOf
      <3>2. CASE j = j0
        <4>1. out'[p] = out[p] + 1 /\ Passed(p)' = Passed(p) \cup {next[p]}
          <5>1. out'[p] = out[p] + 1 /\ next'[p] = next[p] + 1
            BY <1>00, <2>1
          <5> QED
            BY <2>4, <5>1 DEF Passed
        <4>2. \A k \in p[1] .. out[p] - 1 : dst'[k] = dst[k]
          <5>1. n \in Nat
            BY <1>00
          <5>2. \A k \in p[1] .. out[p] - 1 : k \in 0 .. n - 1 /\ k # out[p]
            BY <2>4, <5>1
          <5> QED
            BY <2>5, <5>2
        <4>3. Lists(dst, p[1] .. out[p] - 1, keep \cap Passed(p))
          BY <1>02, <2>2, <2>6, <3>2
        <4>4. \A i \in keep \cap Passed(p) : i < next[p]
          BY <2>4 DEF Passed
        <4>5. Lists(dst', p[1] .. out[p], (keep \cap Passed(p)) \cup {next[p]})
          BY <2>4, <2>5, <4>2, <4>3, <4>4, ListsAppend
        <4>6. keep \cap Passed(p)' = (keep \cap Passed(p)) \cup {next[p]} /\ out'[p] - 1 = out[p]
          BY <2>1, <2>4, <4>1
        <4> QED
          BY <2>1, <2>2, <3>2, <4>5, <4>6
      <3> QED
        BY <3>1, <3>2
    <2>7. joined > 0 => /\ joined \in DOMAIN futures /\ futures[joined] # p /\ futures[joined][2] <= out[p]
                        /\ out'[futures[joined]] = out[futures[joined]] /\ joined # Len(futures)
      <3>1. joined > 0 => joined \in DOMAIN futures /\ futures[joined] # p /\ futures[joined][2] <= p[1] /\ joined # Len(futures)
        <4>1. joined > 0 => joined \in DOMAIN futures /\ joined < j0
          BY <1>01, <2>3
        <4>2. joined > 0 => futures[joined][2] <= p[1] /\ futures[joined] # p
          BY <1>01, <2>2, <4>1
        <4>3. j0 <= Len(futures) /\ j0 \in Nat /\ Len(futures) \in Nat /\ joined \in Nat
          BY <1>00, <1>01
        <4>4. joined > 0 => joined # Len(futures)
          BY <4>1, <4>3
        <4> QED
          BY <4>1, <4>2, <4>4
      <3>2. joined > 0 => futures[joined] \in Parts /\ futures[joined][2] \in Nat
        BY <1>01
      <3>3. joined > 0 => out'[futures[joined]] = out[futures[joined]]
        BY <1>00, <2>1, <3>1, <3>2
      <3> QED
        BY <2>4, <3>1, <3>2, <3>3
    <2>8. ASSUME main \in {"join", "returned"}, joined > 0 PROVE Lists(dst', merged, behind)
      <3>1. \A k \in merged : k \in 0 .. n - 1 /\ k # out[p]
        <4>1. new_end <= futures[joined][2] /\ futures[joined][2] <= out[p] /\ futures[joined][2] \in Nat
          BY <1>01, <1>03, <2>7, <2>8
        <4>2. new_end \in Nat /\ n \in Nat
          BY <1>00, <1>01
        <4>3. new_end <= out[p] /\ out[p] < n /\ out[p] \in Nat
          BY <2>4, <4>1, <4>2
        <4> QED
          BY <4>2, <4>3
      <3>2. \A k \in merged : dst'[k] = dst[k]
        BY <2>5, <3>1
      <3>3. Lists(dst, merged, behind)
        BY <1>02, <2>8
      <3> HIDE DEF merged, behind
      <3> QED
        BY <3>2, <3>3, ListsFrame
    <2>9. ASSUME main = "move" PROVE Lists(dst', merged \cup moving, behind)
      <3>1. \A k \in merged \cup moving : k \in 0 .. n - 1 /\ k # out[p]
        <4>1. joined > 0 /\ new_end <= from /\ from <= out[futures[joined]] /\ new_end \in Nat /\ from \in Nat
          BY <1>01, <2>9
        <4>2. out[futures[joined]] <= futures[joined][2] /\ out[futures[joined]] \in Nat /\ futures[joined][2] \in Nat
          BY <1>01, <2>7, <4>1
        <4>3. futures[joined][2] <= out[p]
          BY <2>7, <4>1
        <4>4. n \in Nat /\ out[p] < n /\ out[p] \in Nat
          BY <1>00, <2>4
        <4>5. out[futures[joined]] <= out[p]
          BY <4>2, <4>3, <4>4
        <4>6. new_end <= out[p]
          BY <4>1, <4>2, <4>4, <4>5
        <4> QED
          BY <4>1, <4>2, <4>4, <4>5, <4>6
      <3>2. \A k \in merged \cup moving : dst'[k] = dst[k]
        BY <2>5, <3>1
      <3>3. Lists(dst, merged \cup moving, behind)
        BY <1>02, <2>9
      <3> HIDE DEF merged, moving, behind
      <3> QED
        BY <3>2, <3>3, ListsFrame
    <2>10. main = "move" => out'[futures[joined]] = out[futures[joined]]
      BY <1>01, <2>7
    <2> QED
      BY <1>0, <2>1, <2>6, <2>8, <2>9, <2>10 DEF SplitResults
  <1>4. CASE LaunchChunk
    <2>1. PICK p \in Parts \ Started : futures' = Append(futures, p)
      BY <1>4, FreshChunk
    <2>2. UNCHANGED <<next, out, dst, joined, main>> /\ main = "launch" /\ joined = 0
      BY <1>4 DEF LaunchChunk, leaf, memory, Types
    <2>3. out[p] = p[1] /\ next[p] = p[1] /\ p[1] \in Nat
      BY Ends DEF LoopsInv
    <2>4. Lists(dst, p[1] .. out[p] - 1, keep \cap Passed(p))
      <3>1. p[1] .. out[p] - 1 = {} /\ keep \cap Passed(p) = {}
        BY <2>3 DEF Passed
      <3> QED
        BY <3>1 DEF Lists
    <2>5. ASSUME NEW j \in DOMAIN futures'
          PROVE  Lists(dst, futures'[j][1] .. out[futures'[j]] - 1, keep \cap Passed(futures'[j]))
      <3>1. CASE j \in DOMAIN futures
        <4>1. futures'[j] = futures[j]
          BY <1>00, <2>1, <3>1
        <4>2. j > joined
          BY <1>01, <2>2, <3>1, <1>00
        <4> QED
          BY <1>02, <3>1, <4>1, <4>2
      <3>2. CASE j = Len(futures) + 1
        <4>1. futures'[j] = p
          BY <1>00, <2>1, <3>2
        <4> QED
          BY <2>4, <4>1
      <3>3. DOMAIN futures' = 1 .. Len(futures) + 1
        BY <1>00, <2>1
      <3> QED
        BY <1>00, <3>1, <3>2, <3>3
    <2> QED
      BY <1>0, <2>2, <2>5 DEF SplitResults, Passed
  <1>5. CASE AllLaunched
    <2>1. UNCHANGED <<next, out, dst, futures, joined>> /\ joined = 0 /\ main' # "move"
      BY <1>5 DEF AllLaunched, leaf, memory, Types
    <2> QED
      BY <1>0, <1>02, <2>1 DEF SplitResults, Passed
  <1>6. CASE Join
    <2>1. /\ main = "join" /\ IsOver(Joining) /\ joined' = joined + 1 /\ UNCHANGED <<call, next, out, dst, futures>>
          /\ joined + 1 \in DOMAIN futures
      <3>1. main = "join" /\ IsOver(Joining) /\ joined' = joined + 1 /\ UNCHANGED <<call, next, out, dst, futures>>
        BY <1>6 DEF Join, leaf, memory
      <3>2. joined < Len(futures)
        BY <3>1 DEF Types
      <3> QED
        BY <1>00, <1>01, <3>1, <3>2
    <2>2. PICK p \in Parts : p = futures[joined + 1] /\ p = Joining
      BY <1>01, <2>1 DEF Joining
    <2>3. ASSUME NEW j \in DOMAIN futures, j > joined' PROVE Lists(dst, chunkOf(j), keep \cap Passed(futures[j]))
      <3>1. j > joined
        BY <1>01, <2>1, <2>3
      <3> QED
        BY <1>02, <2>3, <3>1
    <2>4. Lists(dst, p[1] .. out[p] - 1, keep \cap Passed(p))
      <3>1. joined + 1 > joined
        BY <1>01
      <3>2. Lists(dst, chunkOf(joined + 1), keep \cap Passed(futures[joined + 1]))
        BY <1>02, <2>1, <3>1
      <3> QED
        BY <2>2, <3>2
    <2>5. call[p] = "returned" => keep \cap Passed(p) = keep \cap (p[1] .. p[2] - 1)
      BY <1>00 DEF LoopsInv, Undivided, Passed
    <2>6. /\ p[1] \in Nat /\ p[2] \in Nat /\ out[p] \in Nat /\ p[1] < p[2]
          /\ joined = 0 => p[1] = 0
          /\ joined > 0 => p[1] = futures[joined][2]
      <3>1. /\ futures # <<>> => futures[1][1] = 0
            /\ \A j \in DOMAIN futures : j > 1 => futures[j][1] = futures[j - 1][2]
        BY <1>00 DEF ChunkResults
      <3>2. (joined + 1) - 1 = joined /\ futures # <<>>
        BY <1>00, <1>01, <2>1
      <3>3. joined > 0 => p[1] = futures[joined][2]
        <4>1. joined > 0 => joined + 1 > 1
          BY <1>01
        <4>2. joined > 0 => futures[joined + 1][1] = futures[(joined + 1) - 1][2]
          BY <2>1, <3>1, <4>1
        <4> QED
          BY <2>2, <3>2, <4>2
      <3>4. joined = 0 => p[1] = 0
        <4>1. joined = 0 => joined + 1 = 1
          OBVIOUS
        <4> QED
          BY <2>2, <3>1, <3>2, <4>1
      <3>5. p[1] \in Nat /\ p[2] \in Nat /\ out[p] \in Nat /\ p[1] < p[2]
        BY <1>01, <2>1, <2>2
      <3> QED
        BY <3>3, <3>4, <3>5
    <2>7. CASE call[p] = "threw" /\ main' = "unwind"
      BY <1>0, <2>1, <2>3, <2>7 DEF SplitResults, Passed
    <2>8. CASE call[p] = "returned" /\ joined = 0 /\ new_end' = out[p] /\ main' \in {"returned", "join"}
      <3>1. Lists(dst, 0 .. new_end' - 1, keep \cap (0 .. futures[joined'][2] - 1))
        <4>1. joined' = 1 /\ futures[joined'] = p /\ p[1] = 0
          BY <2>1, <2>2, <2>6, <2>8
        <4> QED
          BY <2>4, <2>5, <2>8, <4>1
      <3> QED
        BY <1>0, <2>1, <2>3, <2>8, <3>1 DEF SplitResults, Passed
    <2>9. CASE call[p] = "returned" /\ joined > 0 /\ from' = p[1] /\ main' = "move" /\ new_end' = new_end
      <3>1. Lists(dst, merged, behind) /\ new_end <= p[1]
        <4>1. new_end <= futures[joined][2]
          BY <2>1, <2>9 DEF Merged
        <4> QED
          BY <1>02, <2>1, <2>6, <2>9, <4>1
      <3>2. Lists(dst, p[1] .. out[p] - 1, keep \cap (p[1] .. p[2] - 1))
        BY <2>4, <2>5, <2>9
      <3>3. /\ merged \in SUBSET Nat /\ p[1] .. out[p] - 1 \in SUBSET Nat
            /\ \A k \in merged, l \in p[1] .. out[p] - 1 : k < l
            /\ \A s \in behind, t \in keep \cap (p[1] .. p[2] - 1) : s < t
        <4>1. \A k \in merged, l \in p[1] .. out[p] - 1 : k < l
          BY <1>01, <2>6, <3>1
        <4>2. \A s \in behind, t \in keep \cap (p[1] .. p[2] - 1) : s < t
          BY <2>6, <2>9
        <4>3. merged \in SUBSET Nat /\ p[1] .. out[p] - 1 \in SUBSET Nat
          BY <1>01, <2>6
        <4> QED
          BY <4>1, <4>2, <4>3
      <3>4. Lists(dst, merged \cup (p[1] .. out[p] - 1), behind \cup (keep \cap (p[1] .. p[2] - 1)))
        <4> HIDE DEF merged, behind
        <4> QED
          BY <3>1, <3>2, <3>3, ListsJoin
      <3>5. behind \cup (keep \cap (p[1] .. p[2] - 1)) = keep \cap (0 .. p[2] - 1)
        BY <1>00, <2>6, <2>9
      <3>6. Lists(dst, (0 .. new_end' - 1) \cup (from' .. out[futures[joined']] - 1), keep \cap (0 .. futures[joined'][2] - 1))
        BY <2>1, <2>2, <2>9, <3>4, <3>5
      <3> QED
        BY <1>0, <2>1, <2>3, <2>9, <3>6 DEF SplitResults, Passed
    <2> QED
      BY <1>00, <1>6, <2>2, <2>7, <2>8, <2>9 DEF Join, merge
  <1>7. CASE Move
    <2>1. main = "move" /\ UNCHANGED <<next, out, futures, joined>>
      BY <1>7 DEF Move, leaf
    <2>2. /\ joined \in DOMAIN futures /\ new_end <= from /\ from <= out[futures[joined]]
          /\ out[futures[joined]] <= futures[joined][2] /\ futures[joined][2] <= n /\ out[futures[joined]] \in Nat
          /\ futures[joined][2] \in Nat
      BY <1>01, <2>1
    <2>3. Lists(dst, merged \cup moving, behind)
      BY <1>02, <2>1
    <2>4. CASE /\ from < out[futures[joined]] /\ from' = from + 1 /\ new_end' = new_end + 1
               /\ dst' = [dst EXCEPT ![new_end] = dst[from]] /\ main' = main
      <3>1. dst'[new_end] = dst[from] /\ \A k \in 0 .. n - 1 : k # new_end => dst'[k] = dst[k]
        <4>1. new_end \in 0 .. n - 1
          BY <1>00, <1>01, <2>2, <2>4
        <4> QED
          BY <1>00, <2>4, <4>1 DEF Elements
      <3>2. \A k \in (0 .. new_end - 1) \cup (from + 1 .. out[futures[joined]] - 1) : dst'[k] = dst[k]
        <4>1. \A k \in (0 .. new_end - 1) \cup (from + 1 .. out[futures[joined]] - 1) : k \in 0 .. n - 1 /\ k # new_end
          BY <1>00, <1>01, <2>2, <2>4
        <4> QED
          BY <3>1, <4>1
      <3>3. Lists(dst', (0 .. new_end) \cup (from + 1 .. out[futures[joined]] - 1), behind)
        <4>1. PICK c \in Nat : c = out[futures[joined]]
          BY <2>2
        <4>2. new_end \in Nat /\ from \in Nat /\ new_end <= from /\ from < c
          BY <1>01, <2>2, <2>4, <4>1
        <4>3. Lists(dst, (0 .. new_end - 1) \cup (from .. c - 1), behind)
          BY <2>3, <4>1
        <4>4. dst'[new_end] = dst[from] /\ \A k \in (0 .. new_end - 1) \cup (from + 1 .. c - 1) : dst'[k] = dst[k]
          BY <3>1, <3>2, <4>1
        <4> HIDE DEF behind
        <4>5. Lists(dst', (0 .. new_end) \cup (from + 1 .. c - 1), behind)
          BY <4>2, <4>3, <4>4, ListsShift
        <4> QED
          BY <4>1, <4>5
      <3>4. Lists(dst', (0 .. new_end' - 1) \cup (from' .. out[futures[joined]] - 1), behind)
        <4>1. new_end' - 1 = new_end
          BY <1>01, <2>4
        <4> QED
          BY <2>4, <3>3, <4>1
      <3>5. ASSUME NEW j \in DOMAIN futures, j > joined PROVE Lists(dst', chunkOf(j), keep \cap Passed(futures[j]))
        <4>1. futures[joined][2] <= futures[j][1]
          BY <1>01, <2>2, <3>5
        <4>2. \A k \in chunkOf(j) : k \in 0 .. n - 1 /\ k # new_end
          <5>1. /\ futures[j][1] \in Nat /\ futures[j][2] \in Nat /\ out[futures[j]] \in Nat
                /\ futures[j][1] <= out[futures[j]] /\ out[futures[j]] <= futures[j][2] /\ futures[j][2] <= n
            BY <1>01, <3>5
          <5>2. new_end \in Nat /\ new_end < futures[j][1]
            BY <1>01, <2>2, <2>4, <4>1, <5>1
          <5> QED
            BY <1>00, <5>1, <5>2
        <4>3. \A k \in chunkOf(j) : dst'[k] = dst[k]
          BY <3>1, <4>2
        <4>4. Lists(dst, chunkOf(j), keep \cap Passed(futures[j]))
          BY <1>02, <3>5
        <4> HIDE DEF chunkOf
        <4> QED
          BY <4>3, <4>4, ListsFrame
      <3> QED
        BY <1>0, <2>1, <2>4, <3>4, <3>5 DEF SplitResults, Passed
    <2>5. CASE from = out[futures[joined]] /\ UNCHANGED <<dst, new_end, from>> /\ main' \in {"returned", "join"}
      <3>1. merged \cup moving = merged
        BY <2>2, <2>5
      <3>2. Lists(dst, merged, behind)
        BY <2>3, <3>1
      <3> QED
        BY <1>0, <1>02, <2>1, <2>5, <3>2 DEF SplitResults, Passed
    <2> QED
      BY <1>7, <2>4, <2>5 DEF Move, merge
  <1>8. CASE RunDeferred \/ Unwind \/ UNCHANGED vars
    BY <1>1, <1>8 DEF RunDeferred, Unwind, vars, leaf, memory, caller, merge
  <1>9. ASSUME NEW p \in Parts, part(p), ~Test(p), ~Write(p) PROVE SplitResults'
    <2>1. ~Transform(p) /\ ~Claim(p) /\ ~Divide(p) /\ ~Wait(p)
      BY <1>00 DEF Transform, Claim, Divide, Wait, ChunkedInv
    <2>2. Begin(p) \/ EndOfLoop(p) => UNCHANGED <<next, out, dst, futures, joined, new_end, from, main>>
      BY DEF Begin, EndOfLoop, leaf, memory, caller, merge
    <2> QED
      BY <1>1, <1>9, <2>1, <2>2 DEF part
  <1> QED
    BY <1>2, <1>3, <1>4, <1>5, <1>6, <1>7, <1>8, <1>9 DEF Next, Ended, chunks
-----------------------------------------------------------------------------
(* The results of a call that is over.                                       *)
\* A list has as many elements as positions.
LEMMA ListsCount ==
    ASSUME NEW d, NEW m \in Nat, NEW S \in SUBSET Nat, Lists(d, 0 .. m - 1, S)
    PROVE  Cardinality(S) = m
  <1> DEFINE f == [k \in 0 .. m - 1 |-> d[k]]
  <1>1. {d[k] : k \in 0 .. m - 1} = S /\ \A k, l \in 0 .. m - 1 : k < l => d[k] < d[l]
    BY DEF Lists
  <1>2. \A k \in 0 .. m - 1 : d[k] \in S /\ d[k] \in Nat /\ k \in Nat
    <2>1. \A k \in 0 .. m - 1 : d[k] \in S
      BY <1>1
    <2>2. \A s \in S : s \in Nat
      OBVIOUS
    <2>3. \A k \in 0 .. m - 1 : k \in Nat
      OBVIOUS
    <2> QED
      BY <2>1, <2>2, <2>3
  <1>3. \A k, l \in 0 .. m - 1 : d[k] = d[l] => k = l
    <2>1. ASSUME NEW k \in 0 .. m - 1, NEW l \in 0 .. m - 1, d[k] = d[l], k # l PROVE FALSE
      <3>1. k < l \/ l < k
        BY <1>2, <2>1
      <3>2. d[k] < d[l] \/ d[l] < d[k]
        BY <1>1, <3>1
      <3> QED
        BY <1>2, <2>1, <3>2
    <2> QED
      BY <2>1
  <1>4. f \in Bijection(0 .. m - 1, S)
    BY <1>1, <1>3 DEF Bijection, Injection, Surjection, IsInjective
  <1>5. IsFiniteSet(0 .. m - 1) /\ Cardinality(0 .. m - 1) = m
    <2>1. IsFiniteSet(0 .. m - 1) /\ Cardinality(0 .. m - 1) = IF 0 > m - 1 THEN 0 ELSE m - 1 - 0 + 1
      BY FS_Interval
    <2> QED
      BY <2>1
  <1>6. ExistsBijection(0 .. m - 1, S)
    BY <1>4 DEF ExistsBijection
  <1> QED
    BY <1>5, <1>6, FS_Bijection

\* The caller of chunks that has returned has joined chunks that cover the range.
LEMMA AllChunksJoined ==
    ASSUME ParallelInv, ResultsInv, algorithm \in Chunked, Over, NEW i \in Elements
    PROVE  \E p \in Parts : /\ Undivided(p) /\ i \in Span(p)
                            /\ main = "returned" => IsOver(p) /\ (Gets => call[p] = "returned")
  <1> USE DEF ParallelInv
  <1>1. main \in {"returned", "threw"}
    BY DEF Over, Outcome, Recursive, Chunked
  <1>2. Len(futures) * Chunk >= n
    BY <1>1 DEF ResultsInv, ChunkResults
  <1>3. i \in Nat /\ i < n /\ n \in Nat /\ Len(futures) \in Nat /\ Chunk \in Nat
    <2>1. n \in Nat /\ n_tasks \in Nat \ {0} /\ chunk_sz \in Nat
      BY SizesAssumption DEF Types, Given
    <2>2. (n + n_tasks - 1) \div n_tasks \in Nat
      BY <2>1
    <2> QED
      BY <2>1, <2>2 DEF Chunk, Types, Elements
  <1>4. Len(futures) * Chunk \in Nat
    BY <1>3
  <1>5. PICK j \in DOMAIN futures : i \in Span(futures[j])
    BY <1>2, <1>3, <1>4 DEF ResultsInv, ChunkResults
  <1>6. futures[j] \in Parts /\ Undivided(futures[j]) /\ DOMAIN futures = 1 .. Len(futures)
    BY DEF Types, Undivided
  <1>7. ASSUME main = "returned" PROVE IsOver(futures[j]) /\ (Gets => call[futures[j]] = "returned")
    <2>1. joined = Len(futures) /\ \A k \in 1 .. joined : IsOver(futures[k])
      BY <1>7 DEF ChunkedInv
    <2>2. Gets => \A k \in 1 .. joined : call[futures[k]] = "returned"
      BY <1>7 DEF ResultsInv, ChunkResults
    <2> QED
      BY <1>6, <2>1, <2>2
  <1> QED
    BY <1>5, <1>6, <1>7

\* The results of a call that is over are the sequential algorithm's.
LEMMA ResultsSuffice ==
    ASSUME ParallelInv, ResultsInv, NoTaskOutlives
    PROVE  SameAsSequential
  <1> USE DEF ParallelInv, ResultsInv
  <1> SUFFICES ASSUME Over PROVE SameAsSequential
    BY DEF SameAsSequential
  <1>0. Root \in Parts /\ Span(Root) = Elements /\ algorithm \in Recursive \cup Chunked /\ n \in Nat
    BY RootIsPart, SizesAssumption DEF Types, Given, Span, Elements
  <1>1. ASSUME NEW p \in Parts, Undivided(p), call[p] = "returned" PROVE Passed(p) = Span(p)
    BY <1>1 DEF LoopsInv, Passed, Span
  <1>2. algorithm \in Recursive => call[Root] = Outcome /\ IsOver(Root)
    BY DEF Over, Outcome, IsOver
  <1>3. ASSUME Gets, Outcome = "returned" PROVE bad = {}
    <2>1. CASE algorithm \in Recursive
      <3>1. Elements \cap bad = {}
        BY <1>0, <1>2, <1>3, <2>1 DEF TreeResults
      <3> QED
        BY <3>1 DEF DataTypes
    <2>2. CASE algorithm \in Chunked /\ algorithm \notin Recursive
      <3>1. main = "returned"
        BY <1>3, <2>2 DEF Outcome
      <3>2. ASSUME NEW i \in bad PROVE FALSE
        <4>1. i \in Elements
          BY DEF DataTypes
        <4>2. PICK p \in Parts : Undivided(p) /\ i \in Span(p) /\ call[p] = "returned"
          BY <1>3, <2>2, <3>1, <4>1, AllChunksJoined
        <4> QED
          BY <1>1, <4>2 DEF LoopsInv
      <3> QED
        BY <3>2
    <2> QED
      BY <1>0, <2>1, <2>2
  <1>4. ASSUME algorithm \in Transforms, NEW i \in Elements, dst[i] # i
        PROVE  \E p \in Parts : Undivided(p) /\ call[p] = "threw" /\ i \in next[p] .. p[2] - 1
    <2>1. PICK p \in Parts : Undivided(p) /\ IsOver(p) /\ i \in Span(p)
      <3>1. CASE algorithm \in Recursive
        <4>1. Launched = {"ready"}
          BY <1>4 DEF Launched, Transforms
        <4> QED
          BY <1>0, <1>2, <1>4, <3>1, <4>1 DEF TreeResults, Undivided
      <3>2. CASE algorithm \in Chunked /\ algorithm \notin Recursive
        <4>1. main = "returned"
          BY <1>4, <3>2 DEF Over, Outcome, ChunkResults, Gets, Transforms
        <4> QED
          BY <1>4, <3>2, <4>1, AllChunksJoined
      <3> QED
        BY <1>0, <3>1, <3>2
    <2>2. i \notin Passed(p)
      BY <1>4 DEF Transformed
    <2>3. call[p] = "threw"
      BY <1>1, <2>1, <2>2 DEF IsOver
    <2>4. i \in next[p] .. p[2] - 1
      BY <2>1, <2>2, Ends DEF Span, Passed, Types
    <2> QED
      BY <2>1, <2>3, <2>4
  <1>5. ASSUME algorithm = "par_count_if", Outcome = "returned" PROVE num[Root] = Copied
    <2>1. call[Root] = "returned" /\ keep \cap Elements = keep
      BY <1>2, <1>5 DEF Recursive, DataTypes
    <2>2. num[Root] = Matches(Span(Root))
      BY <1>0, <1>5, <2>1 DEF CountResults
    <2> QED
      BY <1>0, <2>1, <2>2 DEF Matches, Copied
  <1>6. ASSUME algorithm = "par_copy_if_sync", bad = {}
        PROVE  dst_idx = Copied /\ {dst[i] : i \in 0 .. dst_idx - 1} = keep
    <2>1. Holding = {}
      <3>1. ASSUME NEW p \in Holding PROVE FALSE
        BY <1>6 DEF SyncResults, NoTaskOutlives, Holding
      <3> QED
        BY <3>1
    <2>2. Held = {} /\ Pending = {}
      BY <2>1 DEF Held, Pending
    <2>3. ASSUME NEW i \in keep PROVE i \in Seen
      <3>1. i \in Elements /\ algorithm \in Recursive
        BY <1>6 DEF DataTypes, Recursive
      <3>2. PICK p \in Parts : Small(p) /\ IsOver(p) /\ i \in Span(p)
        BY <1>0, <1>2, <1>6, <3>1 DEF TreeResults
      <3>3. call[p] = "returned" /\ Undivided(p) /\ p \in Started
        BY <1>6, <3>2 DEF LoopsInv, IsOver, Undivided, Started
      <3> QED
        BY <1>1, <3>2, <3>3 DEF Seen
    <2>4. Seen = keep
      BY <2>3 DEF Seen
    <2>5. dst_idx = Cardinality(keep) /\ {dst[k] : k \in 0 .. dst_idx - 1} = keep
      <3>1. Seen \cup Pending = keep /\ (0 .. dst_idx - 1) \ Held = 0 .. dst_idx - 1
        BY <2>2, <2>4
      <3> QED
        BY <1>6, <2>4, <3>1 DEF SyncResults
    <2> QED
      BY <2>5 DEF Copied
  <1>7. ASSUME algorithm = "par_copy_if_split", Outcome = "returned"
        PROVE  /\ new_end = Copied /\ {dst[i] : i \in 0 .. new_end - 1} = keep
               /\ \A i, j \in 0 .. new_end - 1 : i < j => dst[i] < dst[j]
    <2>1. main = "returned" /\ algorithm \in Chunked /\ n > 0
      BY <1>7 DEF Outcome, Recursive, Chunked, DataTypes
    <2>2. joined = Len(futures) /\ Len(futures) * Chunk >= n /\ Len(futures) \in Nat /\ new_end \in Nat
      BY <2>1 DEF ChunkedInv, ChunkResults, Types
    <2>3. Chunk \in Nat
      BY <1>7, SizesAssumption DEF Chunk, Types, Given
    <2>4. joined > 0 /\ futures # <<>>
      <3>1. Len(futures) = 0 => Len(futures) * Chunk = 0
        BY <2>3
      <3>2. Len(futures) > 0
        BY <1>0, <2>1, <2>2, <3>1
      <3> QED
        BY <2>2, <3>2
    <2>5. futures[joined][2] = n
      <3>1. Len(futures) * Chunk \in Nat
        BY <2>2, <2>3
      <3> QED
        BY <1>0, <2>1, <2>2, <2>4, <3>1 DEF ChunkResults
    <2>6. keep \cap (0 .. n - 1) = keep /\ keep \in SUBSET Nat
      <3>1. keep \subseteq 0 .. n - 1
        BY DEF DataTypes, Elements
      <3>2. 0 .. n - 1 \subseteq Nat
        BY <1>0
      <3> HIDE DEF DataTypes
      <3>3. keep \cap (0 .. n - 1) = keep
        BY <3>1
      <3>4. keep \subseteq Nat
        BY <3>1, <3>2
      <3> QED
        BY <3>3, <3>4
    <2>7. Lists(dst, 0 .. new_end - 1, keep)
      BY <1>7, <2>1, <2>4, <2>5, <2>6 DEF SplitResults
    <2> QED
      BY <2>2, <2>6, <2>7, ListsCount DEF Lists, Copied
  <1>8. CASE algorithm \in Transforms
    BY <1>3, <1>4, <1>8 DEF SameAsSequential, Transforms
  <1>9. CASE algorithm \notin Transforms
    BY <1>0, <1>3, <1>5, <1>6, <1>7, <1>9 DEF SameAsSequential, Transforms, Recursive, Chunked
  <1> QED
    BY <1>8, <1>9

\* What the loops and the caller of chunks have done so far is right in every
\* state.
THEOREM ResultsInvariant == Spec => []ResultsInv
  <1>1. ParallelInv /\ ResultsInv /\ [Next]_vars => ResultsInv'
    <2> SUFFICES ASSUME ParallelInv, ResultsInv, [Next]_vars PROVE ResultsInv'
      OBVIOUS
    <2> USE DEF ResultsInv
    <2>1. DataTypes' /\ LoopsInv'
      BY DataKept, LoopsKept
    <2>2. TreeResults' /\ ChunkResults'
      BY TreeResultsKept, ChunkResultsKept
    <2>3. Transformed' /\ CountResults'
      BY TransformedKept, CountsKept
    <2>4. SyncResults' /\ SplitResults'
      BY SyncKept, SplitKept
    <2> QED
      BY <2>1, <2>2, <2>3, <2>4
  <1> QED
    BY <1>1, ResultsInitially, ParallelInvariant, PTL DEF Spec

\* A parallel algorithm that is over has the sequential algorithm's result.
THEOREM SameResults == Spec => []SameAsSequential
  <1>1. ParallelInv /\ ResultsInv /\ NoTaskOutlives => SameAsSequential
    BY ResultsSuffice
  <1> QED
    BY <1>1, ParallelInvariant, ResultsInvariant, NothingOutlives, PTL
=============================================================================
