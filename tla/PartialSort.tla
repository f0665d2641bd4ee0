---------------------------- MODULE PartialSort ----------------------------
(* Chapter4-Algorithm/PartialSort.cpp: nth_element and partial_sort put      *)
(* three numbers of a vector where sorting all of it would put them.         *)
EXTENDS Naturals, Sequences, SequencesExt
CONSTANTS Size,          \* bound: the size of the vector, 12 in the code
          Numbers        \* bound: the numbers that rand() gives
SizeAssumption == Size \in Nat /\ Size >= 4 /\ Numbers \subseteq Nat
VARIABLES v,             \* the vector
          sorted,        \* its numbers in ascending order
          pc
vars == <<v, sorted, pc>>
Vectors == [1 .. Size -> Numbers]
iter == Size \div 2 + 1                                                 \* 9, counted from 1

\* Before nth nothing is larger than the number there, after it nothing is less.
Parted(s, nth) == \A k \in 1 .. Size : (k < nth => s[k] <= s[nth]) /\ (k > nth => s[nth] <= s[k])
\* The range [first, middle) holds the least numbers from first on, ascending.
SortedUpTo(s, first, middle) == \A j \in first .. middle - 1 : \A k \in j .. Size : s[j] <= s[k]

Init ==
    /\ v \in Vectors /\ sorted \in {s \in Vectors : SortedUpTo(s, 1, Size + 1) /\ ToBag(s) = ToBag(v)}
    /\ pc = "nth_element"

\* Mutant: the element at iter is put into its place, and not the one before.
NthElementAfter ==
    /\ pc = "nth_element" /\ pc' = "partial_sort"
    /\ v' \in {s \in Vectors : Parted(s, iter + 1) /\ ToBag(s) = ToBag(v)}
    /\ UNCHANGED sorted
NthElement ==                                                           \* 15
    /\ pc = "nth_element" /\ pc' = "partial_sort"
    /\ v' \in {s \in Vectors : Parted(s, iter - 1) /\ ToBag(s) = ToBag(v)}
    /\ UNCHANGED sorted
PartialSort ==                                                          \* 18
    /\ pc = "partial_sort" /\ pc' = "print"
    /\ v' \in {s \in Vectors : /\ SortedUpTo(s, iter - 1, iter + 2) /\ ToBag(s) = ToBag(v)
                               /\ \A k \in 1 .. iter - 2 : s[k] = v[k]}
    /\ UNCHANGED sorted
Printed == pc = "print" /\ UNCHANGED vars                               \* 22-26
-----------------------------------------------------------------------------
\* When the vector is printed, its numbers from iter - 1 to iter + 1 are those
\* that sorting all of it would put there (11-20), and none has got lost.
MiddleSorted == pc = "print" =>
    /\ \A k \in iter - 1 .. iter + 1 : v[k] = sorted[k]
    /\ ToBag(v) = ToBag(sorted)
=============================================================================
