------------------------------ MODULE Searches -----------------------------
(* Chapter2-Performance/BigONotation.cpp 16-51 and, like linear_search over  *)
(* any range, contains() of Chapter4-Algorithm/IteratorAndRanges.cpp 51-71.  *)
EXTENDS Integers
CONSTANTS Values, MaxSize      \* the elements; the most that a vector has
ASSUME SearchesAssumption == Values \subseteq Int /\ MaxSize \in Nat
Ascending(s, n) == \A j, k \in 0 .. n - 1 : j <= k => s[j] <= s[k]
VARIABLES
    search,       \* the function that was called
    size, a, key, \* its arguments; binary_search is given a sorted vector
    low, high,    \* its locals; linear_search counts with low
    result,       \* "none" until it returns
    looked        \* history: how many elements it has looked at
vars == <<search, size, a, key, low, high, result, looked>>
args == <<search, size, a, key>>

LastIndex == size - 1
Init ==
    /\ search \in {"linear_search", "binary_search"} /\ size \in 0 .. MaxSize
    /\ a \in [0 .. size - 1 -> Values] /\ key \in Values
    /\ search = "binary_search" => Ascending(a, size)
    /\ low = 0 /\ high = LastIndex /\ result = "none" /\ looked = 0

Looks == result = "none" /\ low <= high
Returns(r) == result' = r /\ UNCHANGED <<args, low, high>>

LinearLoop ==
    /\ search = "linear_search" /\ Looks /\ looked' = looked + 1
    /\ IF a[low] = key THEN Returns("true")
       ELSE low' = low + 1 /\ UNCHANGED <<args, high, result>>

mid == low + (high - low) \div 2          \* std::midpoint
\* Mutant: leaves one element more than it has to.
GoLeftSlowly == key < a[mid] /\ high' = mid /\ UNCHANGED <<args, low, result>>
\* Mutant: leaves the element before mid out.
GoLeftTooFar == key < a[mid] /\ high' = mid - 2 /\ UNCHANGED <<args, low, result>>
GoLeft == key < a[mid] /\ high' = mid - 1 /\ UNCHANGED <<args, low, result>>
GoRight == a[mid] < key /\ low' = mid + 1 /\ UNCHANGED <<args, high, result>>
BinaryLoop ==
    /\ search = "binary_search" /\ Looks /\ looked' = looked + 1
    /\ GoRight \/ GoLeft \/ (a[mid] = key /\ Returns("true"))

NotFound == result = "none" /\ low > high /\ Returns("false") /\ UNCHANGED looked
Returned == result # "none" /\ UNCHANGED vars
Next == LinearLoop \/ BinaryLoop \/ NotFound \/ Returned
Spec == Init /\ [][Next]_vars /\ WF_vars(Next)
-----------------------------------------------------------------------------
\* The answer is right: true if and only if the key is among the elements.
FoundIfThere == result # "none" => (result = "true" <=> \E j \in 0 .. size - 1 : a[j] = key)

\* No element outside the vector is read (21, 37-41).
ReadsInside == Looks => (IF search = "binary_search" THEN mid ELSE low) \in 0 .. size - 1

Power[k \in Nat] == IF k = 0 THEN 1 ELSE 2 * Power[k - 1]       \* 2 ^ k

\* binary_search is O(log N) as its comment says (29): each look halves what
\* is left, so 2^looked never exceeds twice the size.
Logarithmic == search = "binary_search" /\ looked > 0 => Power[looked - 1] <= size
=============================================================================
