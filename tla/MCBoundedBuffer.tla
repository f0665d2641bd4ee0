-------------------------- MODULE MCBoundedBuffer --------------------------
(* BoundedBuffer for TLC: threads are interchangeable, and so are items.     *)
EXTENDS BoundedBuffer, TLC
Symmetry == Permutations(Threads) \cup Permutations(Items)
=============================================================================
