------------------------- MODULE SequentialExamples ------------------------
(* The examples that are plain algorithms; each runs on its own.             *)
EXTENDS Searches, Sequences
CONSTANTS Players, Length,                  \* of PlayerSort
          Size, Numbers,                    \* of PartialSort
          Chars, MaxLength, SizeRange,      \* of StringProxies
          MaxFrames, MaxN                   \* of Factorials
VARIABLES
    example,
    store, given, pc,            \* what the example changes, what it was given
    local, depth, called         \* its locals
Sorts == INSTANCE PlayerSort WITH players <- store
Middle == INSTANCE PartialSort WITH v <- store, sorted <- given
Swaps == INSTANCE CopyAndSwap WITH str <- store, before <- given, tmp <- local
Proxies == INSTANCE StringProxies WITH strings <- given, compared <- store
Tails == INSTANCE Factorials WITH
    argument <- given, function <- called, n <- local, accum <- store, frames <- depth
ASSUME ExamplesAssumption ==
    Sorts!PlayerAssumption /\ Middle!SizeAssumption /\ Proxies!ProxyAssumption /\ Tails!FactorialAssumption
others == <<store, given, pc, local, depth, called>>

\* An example that does not run has one initial state.
NoSearch == search = "none" /\ size = 0 /\ a = <<>> /\ key = 0 /\ low = 0 /\ high = -1
            /\ result = "none" /\ looked = 0
NoCalls == depth = <<>> /\ called = "none"
ExamplesInit ==
    \/ example = "search" /\ Init /\ store = <<>> /\ given = <<>> /\ pc = "none" /\ local = <<>> /\ NoCalls
    \/ example = "sort" /\ Sorts!Init /\ local = <<>> /\ NoSearch /\ NoCalls
    \/ example = "middle" /\ Middle!Init /\ local = <<>> /\ NoSearch /\ NoCalls
    \/ example = "swap" /\ Swaps!Init /\ NoSearch /\ NoCalls
    \/ example = "proxies" /\ Proxies!Init /\ local = <<>> /\ NoSearch /\ NoCalls
    \/ example = "factorials" /\ Tails!Init /\ NoSearch

In(this, A) == example = this /\ A /\ UNCHANGED <<example, vars>>
InSearch(A) == example = "search" /\ A /\ UNCHANGED <<example, others>>
InSort(A)    == In("sort", A) /\ UNCHANGED <<local, depth, called>>
InMiddle(A)  == In("middle", A) /\ UNCHANGED <<local, depth, called>>
InSwap(A)    == In("swap", A) /\ UNCHANGED <<depth, called>>
InProxies(A) == In("proxies", A) /\ UNCHANGED <<local, depth, called>>
InTails(A)   == In("factorials", A)
ExamplesNext ==
    \/ InSearch(LinearLoop) \/ InSearch(BinaryLoop) \/ InSearch(NotFound) \/ InSearch(Returned)
    \/ InSort(Sorts!Sort) \/ InSort(Sorts!RangesSort) \/ InSort(Sorts!Printed)
    \/ InMiddle(Middle!NthElement) \/ InMiddle(Middle!PartialSort) \/ InMiddle(Middle!Printed)
    \/ InSwap(Swaps!Next) \/ InProxies(Proxies!Compare) \/ InProxies(Proxies!Compared)
    \/ InTails(Tails!Next)
ExamplesSpec == ExamplesInit /\ [][ExamplesNext]_<<example, vars, others>>

\* What has been sorted is printed in order: all players (PlayerSort), and the
\* three middle numbers of a vector (PartialSort).
PrintedInOrder ==
    /\ example = "sort" => Sorts!PrintedInOrder
    /\ example = "middle" => Middle!MiddleSorted

\* A string is changed as a whole or, when something throws, not (CopyAndSwap).
AllOrNothing == example = "swap" => Swaps!AllOrNothing

\* Strings are compared piece by piece like the whole (StringProxies).
ComparedAsWhole == example = "proxies" => Proxies!ComparedAsWhole

\* factorial and factorial_tail_call compute the same (Factorials).
SameFactorial == example = "factorials" => Tails!SameFactorial
=============================================================================
