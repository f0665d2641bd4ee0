--------------------------- MODULE LockFreeQueue ---------------------------
(* LockFreeQueue<T, N> of Chapter10-Concurrent/MemoryModel.cpp: a ring of N  *)
(* slots between one writer and one reader that share nothing but the slots  *)
(* and the atomic size_.  Its operations are sequentially consistent, so any *)
(* execution without a data race is an interleaving.  A pc names the         *)
(* statement its thread is about to run; the line follows each action.       *)
EXTENDS Naturals, Sequences
CONSTANTS Items, N, MayThrow, None
ASSUME QueueAssumption == N \in Nat \ {0} /\ None \notin Items /\ MayThrow \in BOOLEAN
VARIABLES
    buffer_, size_, read_pos_, write_pos_,
    wpc, t,     \* the writer's pc, and the argument of its push
    rpc, val    \* the reader's pc, and the optional its pop returns
vars == <<buffer_, size_, read_pos_, write_pos_, wpc, t, rpc, val>>
writer == <<write_pos_, wpc, t>>
reader == <<read_pos_, rpc, val>>

Init ==
    /\ buffer_ = [s \in 0 .. N-1 |-> None] /\ size_ = 0
    /\ read_pos_ = 0 /\ write_pos_ = 0
    /\ wpc = "idle" /\ t = None
    /\ rpc = "idle" /\ val = None

WGo(from, to) == wpc = from /\ wpc' = to
RGo(from, to) == rpc = from /\ rpc' = to

CallPush(i) ==
    /\ WGo("idle", "load") /\ t' = i
    /\ UNCHANGED <<buffer_, size_, write_pos_, reader>>

\* Mutant: the writer takes a queue of N elements for one with room.
LoadFullOffByOne ==
    /\ IF size_ > N THEN WGo("load", "refused") ELSE WGo("load", "store")
    /\ UNCHANGED <<buffer_, size_, write_pos_, t, reader>>

LoadFull ==                                                             \* 189-192
    /\ IF size_ = N THEN WGo("load", "refused") ELSE WGo("load", "store")
    /\ UNCHANGED <<buffer_, size_, write_pos_, t, reader>>

\* The slot is free: an assignment that throws may leave anything in it.
Store ==                                                                \* 194
    /\ \/ WGo("store", "advance") /\ buffer_' = [buffer_ EXCEPT ![write_pos_] = t]
       \/ /\ MayThrow /\ WGo("store", "thrown")
          /\ \E i \in {None, t} : buffer_' = [buffer_ EXCEPT ![write_pos_] = i]
    /\ UNCHANGED <<size_, write_pos_, t, reader>>

AdvanceWrite ==                                                         \* 195
    /\ WGo("advance", "fetchAdd")
    /\ write_pos_' = (write_pos_ + 1) % N
    /\ UNCHANGED <<buffer_, size_, t, reader>>

FetchAdd ==                                                             \* 196
    /\ WGo("fetchAdd", "added")
    /\ size_' = size_ + 1
    /\ UNCHANGED <<buffer_, write_pos_, t, reader>>

ReturnPush ==                                                           \* 191, 197
    /\ wpc \in {"added", "refused", "thrown"} /\ wpc' = "idle" /\ t' = None
    /\ UNCHANGED <<buffer_, size_, write_pos_, reader>>

CallPop ==                                                              \* 212
    /\ RGo("idle", "load")
    /\ UNCHANGED <<buffer_, size_, read_pos_, val, writer>>

\* Mutant: the reader leaves the last element.
LoadEmptyTooLate ==
    /\ IF size_ > 1 THEN RGo("load", "move") ELSE RGo("load", "return")
    /\ UNCHANGED <<buffer_, size_, read_pos_, val, writer>>

LoadEmpty ==                                                            \* 213
    /\ IF size_ > 0 THEN RGo("load", "move") ELSE RGo("load", "return")
    /\ UNCHANGED <<buffer_, size_, read_pos_, val, writer>>

\* A move empties the slot; a throwing one is a copy, and leaves it as it was.
Move ==                                                                 \* 215
    /\ \/ /\ RGo("move", "advance") /\ val' = buffer_[read_pos_]
          /\ buffer_' = [buffer_ EXCEPT ![read_pos_] = None]
       \/ MayThrow /\ RGo("move", "thrown") /\ UNCHANGED <<val, buffer_>>
    /\ UNCHANGED <<size_, read_pos_, writer>>

AdvanceRead ==                                                          \* 216
    /\ RGo("advance", "fetchSub")
    /\ read_pos_' = (read_pos_ + 1) % N
    /\ UNCHANGED <<buffer_, size_, val, writer>>

FetchSub ==                                                             \* 217
    /\ RGo("fetchSub", "return")
    /\ size_' = size_ - 1
    /\ UNCHANGED <<buffer_, read_pos_, val, writer>>

ReturnPop ==                                                            \* 219
    /\ rpc \in {"return", "thrown"} /\ rpc' = "idle" /\ val' = None
    /\ UNCHANGED <<buffer_, size_, read_pos_, writer>>

do_push == LoadFull \/ Store \/ AdvanceWrite \/ FetchAdd \/ ReturnPush
pop == LoadEmpty \/ Move \/ AdvanceRead \/ FetchSub \/ ReturnPop

Next == (\E i \in Items : CallPush(i)) \/ do_push \/ CallPop \/ pop
Spec == Init /\ [][Next]_vars
-----------------------------------------------------------------------------
TypeOK ==
    /\ buffer_ \in [0 .. N-1 -> Items \cup {None}]
    /\ size_ \in 0 .. N /\ read_pos_ \in 0 .. N-1 /\ write_pos_ \in 0 .. N-1
    /\ wpc \in {"idle", "load", "store", "advance", "fetchAdd",
                "added", "refused", "thrown"}
    /\ rpc \in {"idle", "load", "move", "advance", "fetchSub", "return", "thrown"}
    /\ t \in Items \cup {None} /\ val \in Items \cup {None}

\* A pop has an element in hand from its move to its fetch_sub, and the slot it
\* came from is at the front of the ring until then.
Taken == rpc \in {"advance", "fetchSub"}
Front == IF rpc = "fetchSub" THEN (read_pos_ + N - 1) % N ELSE read_pos_

\* The writer's store at 194 and the reader's move at 215, which no lock
\* orders, are never about to touch the same slot.
NoDataRace == ~(wpc = "store" /\ rpc = "move" /\ write_pos_ = read_pos_)

\* The reader never takes a slot the writer has not finished, nor one twice;
\* the writer never starts on a slot the reader still owes a fetch_sub for.
SlotsHandedOver ==
    /\ rpc = "move" => buffer_[read_pos_] # None
    /\ wpc = "store" /\ Taken => write_pos_ # Front

\* The elements inside: from the fetch_add of their push to the fetch_sub of
\* their pop.
Contents ==
    [k \in 1 .. size_ |-> IF k = 1 /\ Taken THEN val ELSE buffer_[(Front + k - 1) % N]]
Progress(p) ==
    IF p = "writer"
    THEN [op |-> IF wpc = "idle" THEN "none" ELSE "push",
          item |-> IF wpc \in {"refused", "thrown"} THEN None ELSE t,
          result |-> CASE wpc = "added" -> "ok" [] wpc = "refused" -> "refused"
                       [] wpc = "thrown" -> "threw" [] OTHER -> "none"]
    ELSE [op |-> IF rpc = "idle" THEN "none" ELSE "pop",
          item |-> IF Taken THEN None ELSE val,
          result |-> CASE rpc = "return" -> IF val = None THEN "refused" ELSE "ok"
                       [] rpc = "thrown" -> "threw" [] OTHER -> "none"]

\* The queue is a bounded FIFO queue for its two threads: push returns false
\* only when N elements are inside, pop returns an empty optional only when none
\* is, and no element is lost, repeated or reordered.
Fifo == INSTANCE BoundedFifo WITH
    Threads <- {"writer", "reader"}, Blocking <- FALSE,
    fifo <- Contents, call <- [p \in {"writer", "reader"} |-> Progress(p)]
ImplementsFifo == Fifo!Spec
=============================================================================
