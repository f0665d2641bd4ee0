--------------------------- MODULE DisjointBlocks --------------------------
(* What an allocator promises: each block that it hands out is as long as it *)
(* was asked to be and shares no byte with a block still in use, and a block *)
(* given back is in use no more.                                             *)
EXTENDS Naturals
CONSTANT Sizes
VARIABLE live      \* the blocks in use, records of an address p and a length n
Bytes(b) == b.p .. b.p + b.n - 1
Init == live = {}
Allocate ==
    \E b \in live' \ live :
        /\ b.n \in Sizes /\ \A c \in live : Bytes(b) \cap Bytes(c) = {}
        /\ live' = live \cup {b}
Deallocate == \E b \in live : live' = live \ {b}
Next == Allocate \/ Deallocate
Spec == Init /\ [][Next]_live
=============================================================================
