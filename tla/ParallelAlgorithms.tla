------------------------- MODULE ParallelAlgorithms ------------------------
(* Chapter13-ParallelAlgorithm: algorithms over n elements that hand parts   *)
(* of the range to std::async.  Three divide their range in two and recurse  *)
(* (par_copy_if_sync, par_count_if, par_transform_dac), two cut it in chunks *)
(* first (par_copy_if_split, par_transform_naive).                           *)
EXTENDS Naturals, FiniteSets, SequencesExt
CONSTANTS
    MaxN, ChunkSizes,    \* bounds of the range's length, and the chunk sizes
    Tasks,               \* what n_tasks may be: hardware_concurrency() or 1
    MaxBad,              \* bound: for how many elements func or pred throws
    None
ASSUME SizesAssumption ==
    /\ MaxN \in Nat /\ MaxBad \in Nat /\ None \notin Nat
    /\ ChunkSizes \subseteq Nat \ {0} /\ Tasks \subseteq Nat \ {0}
VARIABLES
    algorithm, n, chunk_sz, n_tasks,  \* the call
    keep, bad,    \* the elements for which pred holds, and where it throws
    call,         \* for each part of the range, where its call or task is
    next,         \* the element it is at
    out, num,     \* the write position that it holds, the matches it counted
    dst, dst_idx, \* the destination, by the number of the element; write index
    main, futures, joined,  \* the caller of chunks: its statement, its futures
    new_end, from           \* the merge of chunks: destination and source
given == <<algorithm, n, chunk_sz, n_tasks, keep, bad>>
leaf == <<next, out, num>>
memory == <<dst, dst_idx>>
merge == <<new_end, from>>
caller == <<main, futures, joined, merge>>
vars == <<given, call, leaf, memory, caller>>

Recursive == {"par_copy_if_sync", "par_count_if", "par_transform_dac"}
Chunked == {"par_copy_if_split", "par_transform_naive"}
Parts == {p \in (0 .. MaxN) \X (0 .. MaxN) : p[1] <= p[2]}     \* [first, last)
Root == <<0, n>>
Elements == 0 .. n - 1
\* Mutant: the halves overlap when the length is odd.
MiddleUp(p) == <<p[1], p[1] + (p[2] - p[1] + 1) \div 2>>
FirstHalf(p) == <<p[1], p[1] + (p[2] - p[1]) \div 2>>
SecondHalf(p) == <<p[1] + (p[2] - p[1]) \div 2, p[2]>>
Small(p) == p[2] - p[1] <= chunk_sz
Undivided(p) == algorithm \in Chunked \/ Small(p)
\* std::async of the copying algorithms may defer the task to wait() or get().
Launched == IF algorithm \in {"par_copy_if_sync", "par_copy_if_split"} THEN {"ready", "deferred"} ELSE {"ready"}
Gets == algorithm \in {"par_count_if", "par_copy_if_split"}    \* not just wait()
IsOver(p) == call[p] \in {"returned", "threw"}
\* Mutant: the last elements are left out when n_tasks does not divide n.
ChunkFloor == IF algorithm = "par_transform_naive" THEN n \div n_tasks ELSE chunk_sz
Chunk == IF algorithm = "par_transform_naive" THEN (n + n_tasks - 1) \div n_tasks ELSE chunk_sz

Init ==
    /\ algorithm \in Recursive \cup Chunked /\ n \in 0 .. MaxN
    /\ chunk_sz \in ChunkSizes /\ n_tasks \in Tasks
    \* each call has one of the two, and par_copy_if_split is given elements
    /\ IF algorithm = "par_transform_naive" THEN chunk_sz = Min(ChunkSizes) ELSE n_tasks = Min(Tasks)
    /\ algorithm = "par_copy_if_split" => n > 0
    /\ keep \in SUBSET Elements /\ bad \in {B \in SUBSET Elements : Cardinality(B) <= MaxBad}
    /\ algorithm \in {"par_transform_dac", "par_transform_naive"} => keep = {}
    /\ call = [p \in Parts |-> IF p = Root /\ algorithm \in Recursive THEN "ready" ELSE "none"]
    /\ next = [p \in Parts |-> p[1]] /\ num = [p \in Parts |-> 0]
    /\ out = [p \in Parts |-> IF algorithm = "par_copy_if_split" THEN p[1] ELSE None]
    /\ dst = [i \in Elements |-> None] /\ dst_idx = 0
    /\ main = (IF algorithm \in Recursive THEN "recursive" ELSE "launch")
    /\ futures = <<>> /\ joined = 0 /\ new_end = 0 /\ from = 0
-----------------------------------------------------------------------------
\* The loop over a part that is not divided (any more): std::for_each,
\* std::count_if, std::transform and std::copy_if.
AtElement(p) == call[p] = "loop" /\ next[p] < p[2] /\ next[p] \notin bad
Past(p) == next' = [next EXCEPT ![p] = @ + 1]

Begin(p) ==
    /\ call[p] = "ready" /\ Undivided(p)
    /\ call' = [call EXCEPT ![p] = "loop"] /\ UNCHANGED <<given, leaf, memory, caller>>

Transform(p) ==
    /\ AtElement(p) /\ algorithm \in {"par_transform_dac", "par_transform_naive"}
    /\ dst' = [dst EXCEPT ![next[p]] = next[p]] /\ Past(p)
    /\ UNCHANGED <<given, call, out, num, dst_idx, caller>>

Test(p) ==
    /\ AtElement(p) /\ algorithm \notin {"par_transform_dac", "par_transform_naive"}
    /\ \/ next[p] \notin keep /\ Past(p) /\ UNCHANGED num
       \/ /\ next[p] \in keep /\ algorithm = "par_count_if" /\ Past(p)
          /\ num' = [num EXCEPT ![p] = @ + 1]
    /\ UNCHANGED <<given, call, out, memory, caller>>

Claim(p) ==                                             \* CopyIf.cpp 27
    /\ AtElement(p) /\ next[p] \in keep /\ algorithm = "par_copy_if_sync" /\ out[p] = None
    /\ out' = [out EXCEPT ![p] = dst_idx] /\ dst_idx' = dst_idx + 1
    /\ UNCHANGED <<given, call, next, num, dst, caller>>

Write(p) ==                                             \* CopyIf.cpp 28, 71
    /\ AtElement(p) /\ next[p] \in keep /\ out[p] # None
    /\ algorithm \in {"par_copy_if_sync", "par_copy_if_split"}
    /\ dst' = [dst EXCEPT ![out[p]] = next[p]] /\ Past(p)
    /\ out' = [out EXCEPT ![p] = IF algorithm = "par_copy_if_sync" THEN None ELSE @ + 1]
    /\ UNCHANGED <<given, call, num, dst_idx, caller>>

EndOfLoop(p) ==
    /\ call[p] = "loop"
    /\ \/ next[p] = p[2] /\ call' = [call EXCEPT ![p] = "returned"]
       \/ next[p] < p[2] /\ next[p] \in bad /\ call' = [call EXCEPT ![p] = "threw"]
    /\ UNCHANGED <<given, leaf, memory, caller>>
-----------------------------------------------------------------------------
\* Mutant: neither wait() nor the future makes the caller wait.
NoWait(p) ==
    /\ call[p] = "second" /\ IsOver(SecondHalf(p))
    /\ num' = [num EXCEPT ![p] = num[FirstHalf(p)] + num[SecondHalf(p)]]
    /\ call' = [call EXCEPT ![p] = call[SecondHalf(p)]]
    /\ UNCHANGED <<given, next, out, memory, caller>>

Divide(p) ==                                            \* the first half is a task
    /\ call[p] = "ready" /\ algorithm \in Recursive /\ ~Small(p)
    /\ \E launched \in Launched :
          call' = [call EXCEPT ![p] = "second", ![FirstHalf(p)] = launched, ![SecondHalf(p)] = "ready"]
    /\ UNCHANGED <<given, leaf, memory, caller>>

\* Mutant: waits until a task is over that nobody has started.
WaitNoDeferred(p) ==
    /\ call[p] = "second" /\ IsOver(SecondHalf(p)) /\ IsOver(FirstHalf(p))
    /\ num' = [num EXCEPT ![p] = num[FirstHalf(p)] + num[SecondHalf(p)]]
    /\ call' = [call EXCEPT ![p] = call[SecondHalf(p)]]
    /\ UNCHANGED <<given, next, out, memory, caller>>

\* wait() or get() runs a deferred task; the future's destructor does not.
Wait(p) ==                                              \* the calling thread's half
    /\ call[p] = "second"
    /\ \/ /\ call[SecondHalf(p)] = "returned" /\ call[FirstHalf(p)] = "deferred"
          /\ call' = [call EXCEPT ![FirstHalf(p)] = "ready"] /\ UNCHANGED num
       \/ /\ call[SecondHalf(p)] = "returned" /\ IsOver(FirstHalf(p))
          /\ call' = [call EXCEPT ![p] = IF Gets THEN call[FirstHalf(p)] ELSE "returned"]
          /\ num' = [num EXCEPT ![p] = num[FirstHalf(p)] + num[SecondHalf(p)]]
       \/ /\ call[SecondHalf(p)] = "threw" /\ (IsOver(FirstHalf(p)) \/ call[FirstHalf(p)] = "deferred")
          /\ call' = [call EXCEPT ![p] = "threw"] /\ UNCHANGED num
    /\ UNCHANGED <<given, next, out, memory, caller>>
-----------------------------------------------------------------------------
\* The chunks are handed out in order, then joined in order.
LaunchChunk ==
    /\ main = "launch" /\ Len(futures) * Chunk < n
    /\ algorithm = "par_transform_naive" => Len(futures) < n_tasks
    /\ LET start == Len(futures) * Chunk
           stop == IF start + Chunk < n THEN start + Chunk ELSE n
       IN  /\ futures' = Append(futures, <<start, stop>>)
           /\ \E launched \in Launched : call' = [call EXCEPT ![<<start, stop>>] = launched]
    /\ UNCHANGED <<given, leaf, memory, main, joined, merge>>

AllLaunched ==
    /\ main = "launch"
    /\ Len(futures) * Chunk >= n \/ (algorithm = "par_transform_naive" /\ Len(futures) >= n_tasks)
    /\ main' = IF futures = <<>> THEN "returned" ELSE "join"
    /\ UNCHANGED <<given, call, leaf, memory, futures, joined, merge>>

Joining == futures[joined + 1]
\* Mutant: only waits for the task of the chunk.
JoinLosesError ==
    /\ main = "join" /\ IsOver(Joining) /\ joined' = joined + 1
    /\ main' = (IF joined' = Len(futures) THEN "returned" ELSE "join")
    /\ new_end' = (IF joined = 0 THEN out[Joining] ELSE new_end)
    /\ UNCHANGED <<given, call, leaf, memory, futures, from>>

Join ==
    /\ main = "join" /\ IsOver(Joining) /\ joined' = joined + 1
    /\ \/ /\ Gets /\ call[Joining] = "threw" /\ main' = "unwind" /\ UNCHANGED merge
       \/ /\ Gets /\ call[Joining] = "returned" /\ joined = 0 /\ new_end' = out[Joining]
          /\ main' = (IF joined' = Len(futures) THEN "returned" ELSE "join") /\ UNCHANGED from
       \/ /\ Gets /\ call[Joining] = "returned" /\ joined > 0 /\ from' = Joining[1]
          /\ main' = "move" /\ UNCHANGED new_end
       \/ /\ ~Gets /\ main' = (IF joined' = Len(futures) THEN "returned" ELSE "join")
          /\ UNCHANGED merge
    /\ UNCHANGED <<given, call, leaf, memory, futures>>

RunDeferred ==
    /\ main = "join" /\ call[Joining] = "deferred"
    /\ call' = [call EXCEPT ![Joining] = "ready"]
    /\ UNCHANGED <<given, leaf, memory, caller>>

\* std::move of a chunk's result behind the results before it.
Move ==                                                 \* CopyIf.cpp 83
    /\ main = "move"
    /\ \/ /\ from < out[futures[joined]] /\ from' = from + 1 /\ new_end' = new_end + 1
          /\ dst' = [dst EXCEPT ![new_end] = dst[from]] /\ UNCHANGED main
       \/ /\ from = out[futures[joined]] /\ UNCHANGED <<dst, merge>>
          /\ main' = IF joined = Len(futures) THEN "returned" ELSE "join"
    /\ UNCHANGED <<given, call, leaf, dst_idx, futures, joined>>

\* The destructors of the futures wait for the tasks that have been started.
Unwind ==
    /\ main = "unwind" /\ \A j \in DOMAIN futures : IsOver(futures[j]) \/ call[futures[j]] = "deferred"
    /\ main' = "threw" /\ UNCHANGED <<given, call, leaf, memory, futures, joined, merge>>

part(p) == Begin(p) \/ Transform(p) \/ Test(p) \/ Claim(p) \/ Write(p) \/ EndOfLoop(p) \/ Divide(p) \/ Wait(p)
chunks == LaunchChunk \/ AllLaunched \/ Join \/ RunDeferred \/ Move \/ Unwind
Outcome == IF algorithm \in Recursive THEN call[Root] ELSE main
Over == Outcome \in {"returned", "threw"}
Ended == Over /\ (\A p \in Parts : call[p] \in {"none", "deferred"} \/ IsOver(p)) /\ UNCHANGED vars
Next == (\E p \in Parts : part(p)) \/ chunks \/ Ended
\* Every task that has been started gets a thread, which runs on.
Spec == Init /\ [][Next]_vars /\ WF_vars(chunks) /\ \A p \in Parts : WF_vars(part(p))
-----------------------------------------------------------------------------
\* The result is the sequential algorithm's: the same elements in the same
\* order, in any order for par_copy_if_sync, or their number.  Transform
\* leaves out only what comes behind an exception in the same small part.
\* With get() an exception in any part reaches the caller, whatever the other
\* parts have done, and is never replaced by a result (CountIf.cpp 26).
Copied == Cardinality(keep)
SameAsSequential == Over =>
    /\ Gets /\ Outcome = "returned" => bad = {}
    /\ CASE algorithm \in {"par_transform_dac", "par_transform_naive"} -> \A i \in Elements :
              dst[i] = i \/ \E p \in Parts : Undivided(p) /\ call[p] = "threw" /\ i \in next[p] .. p[2] - 1
         [] algorithm = "par_count_if" -> Outcome = "returned" => num[Root] = Copied
         [] algorithm = "par_copy_if_sync" ->
              bad = {} => dst_idx = Copied /\ {dst[i] : i \in 0 .. dst_idx - 1} = keep
         [] OTHER -> Outcome = "returned" =>
              /\ new_end = Copied /\ {dst[i] : i \in 0 .. new_end - 1} = keep
              /\ \A i, j \in 0 .. new_end - 1 : i < j => dst[i] < dst[j]

\* No two threads write the same element of dst, and the merge never writes
\* where a task may still write (CopyIf.cpp 27-28, 70-71, 82-83).
Target(p) == IF algorithm = "par_transform_dac" \/ algorithm = "par_transform_naive" THEN next[p] ELSE out[p]
Writing == {p \in Parts : AtElement(p) /\ Target(p) # None /\ algorithm # "par_count_if"}
NoTwoWriters ==
    /\ \A p, q \in Writing : p # q => Target(p) # Target(q)
    /\ main = "move" /\ from < out[futures[joined]] => \A j \in DOMAIN futures :
          ~IsOver(futures[j]) => new_end < futures[j][1] /\ from < futures[j][1]

\* When an algorithm returns or throws, no task runs that holds a reference
\* to its pred, func or write index (35, 68 and their like: "&pred, &dst_idx").
NoTaskOutlives == Over => \A p \in Parts : call[p] \notin {"ready", "loop", "second"}

\* The caller waits for tasks, and tasks for tasks, but not for ever.
AllReturn == <>Over
=============================================================================
