------------------------------- MODULE Arena -------------------------------
(* Chapter6-Memory/CustomAllocator.cpp: Arena, and its users CUser (operator *)
(* new and delete) and ShortAlloc (containers).  Addresses are counted from  *)
(* buffer_; ::operator new is external and gives places outside the buffer.  *)
EXTENDS Integers
CONSTANTS
    N, alignment,  \* the length of buffer_, alignof(std::max_align_t)
    PtrdiffMax,    \* PTRDIFF_MAX: a size_t goes up to twice that and one
    HeapPlaces     \* where ::operator new may put blocks
ASSUME ArenaAssumption ==
    /\ N \in Nat /\ alignment \in Nat \ {0} /\ PtrdiffMax \in Nat
    /\ N <= PtrdiffMax /\ alignment <= PtrdiffMax
    \* in their own places, even right behind buffer_
    /\ HeapPlaces \subseteq Nat /\ \A q \in HeapPlaces : q >= N
    /\ \A q, r \in HeapPlaces : q < r => q + PtrdiffMax <= r
\* What containers and new-expressions ask for: PTRDIFF_MAX at most, never 0.
Sizes == 1 .. PtrdiffMax
VARIABLES
    ptr_,      \* the first byte of buffer_ that is free
    live,      \* the blocks in use, with the length asked for
    heap,      \* what ::operator new has given and not got back
    lifo       \* history: no block has been left behind since ptr_ was buffer_
vars == <<ptr_, live, heap, lifo>>
Init == ptr_ = 0 /\ live = {} /\ heap = {} /\ lifo = TRUE

\* Mutant: does not round up.
AlignDown(n) == n - (n % alignment)
align_up(n) == LET m == (n + alignment - 1) % (2 * (PtrdiffMax + 1)) IN m - (m % alignment)
\* Mutant: one byte too far.
InBufferOrBehind(p) == p >= 0 /\ p <= N
pointer_in_buffer(p) == p >= 0 /\ p < N
used == ptr_
InBuffer == {b \in live : pointer_in_buffer(b.p)}

Available(n) == N - ptr_ >= align_up(n)

AllocateHere(n) ==                                      \* 54-61, 88-91, 98-101, 181-184
    /\ Available(n)
    /\ live' = live \cup {[p |-> ptr_, n |-> n]} /\ ptr_' = ptr_ + align_up(n)
    /\ UNCHANGED <<heap, lifo>>

\* Without a free place ::operator new throws, and nothing changes.
AllocateElsewhere(n) ==                                 \* 62
    /\ ~Available(n)
    /\ \E q \in HeapPlaces \ heap :
          heap' = heap \cup {q} /\ live' = live \cup {[p |-> q, n |-> n]}
    /\ UNCHANGED <<ptr_, lifo>>

\* Mutant: forgets that the length was rounded up.
RewindExact(b) ==
    /\ pointer_in_buffer(b.p) /\ live' = live \ {b}
    /\ ptr_' = (IF b.p + b.n = ptr_ THEN b.p ELSE ptr_)
    /\ lifo' = (lifo /\ \A c \in InBuffer : c.p <= b.p) /\ UNCHANGED heap

\* Only the block at the end makes room; what is below another stays lost.
DeallocateHere(b) ==                                    \* 68-75, 93-96, 103-106, 185-188
    /\ pointer_in_buffer(b.p) /\ live' = live \ {b}
    /\ ptr_' = (IF b.p + align_up(b.n) = ptr_ THEN b.p ELSE ptr_)
    /\ lifo' = (lifo /\ \A c \in InBuffer : c.p <= b.p) /\ UNCHANGED heap

DeallocateElsewhere(b) ==                               \* 76-79
    /\ ~pointer_in_buffer(b.p) /\ live' = live \ {b} /\ heap' = heap \ {b.p}
    /\ UNCHANGED <<ptr_, lifo>>

\* To be called when nothing in the buffer is in use.
reset ==                                                \* 22-25
    /\ InBuffer = {} /\ ptr_' = 0 /\ lifo' = TRUE /\ UNCHANGED <<live, heap>>

Next ==
    \/ \E n \in Sizes : AllocateHere(n) \/ AllocateElsewhere(n)
    \/ \E b \in live : DeallocateHere(b) \/ DeallocateElsewhere(b)
    \/ reset
Spec == Init /\ [][Next]_vars
-----------------------------------------------------------------------------
\* A block handed out is long enough and nobody else's, whatever was given
\* back before, in whatever order: Arena is an allocator (51-80).
Allocator == INSTANCE DisjointBlocks
IsAnAllocator == Allocator!Spec

\* Blocks lie below ptr_ and within buffer_, at aligned addresses, so what
\* comes next overlaps none of them (47, 54-60, 70-74).
BelowPtr ==
    /\ ptr_ \in 0 .. N /\ ptr_ % alignment = 0
    /\ \A b \in InBuffer : b.p % alignment = 0 /\ b.p + b.n <= ptr_

\* What comes from ::operator new goes back to it, and nothing else does:
\* pointer_in_buffer tells them apart even right behind buffer_ (42-46, 62, 78).
HeapBalance == heap = {b.p : b \in {c \in live : ~pointer_in_buffer(c.p)}} /\ \A b \in live : b.p < N \/ b.p \in heap

\* If blocks are given back in the reverse order none of the buffer is lost:
\* each byte that is used belongs to one block in use (71-74).
Holding(x) == {b \in InBuffer : b.p <= x /\ x < b.p + align_up(b.n)}
LosesNothing == lifo => \A x \in 0 .. used - 1 : \E b \in InBuffer : Holding(x) = {b}
=============================================================================
