------------------------------ MODULE FlipCoin ------------------------------
(* Chapter10-Concurrent/AdditionalInCpp20.cpp 189-214, 382-387: flip_coin    *)
(* shares its flips between two threads that count through atomic_ref into a *)
(* plain struct, and joins them before it returns to a caller that reads it. *)
EXTENDS Naturals, Sequences, Functions
CONSTANTS Calls        \* the number of flips of each call of flip_coin
FlipAssumption == Calls \in Seq(Nat)
VARIABLES
    heads_, tails_,    \* the Stats of the caller
    call, pc,          \* the call the caller is at, "caller" or "flip_coin"
    left               \* the flips each jthread has still to make
vars == <<heads_, tails_, call, pc, left>>
Threads == {"t1", "t2"}

\* Mutant: both threads take the half that is rounded down.
HalfRoundedDown(t, n) == n \div 2
Half(t, n) == IF t = "t1" THEN n \div 2 ELSE n - n \div 2              \* 212-213

Init == heads_ = 0 /\ tails_ = 0 /\ call = 1 /\ pc = "caller" /\ left = [t \in Threads |-> 0]

flip_coin ==                                                            \* 201, 212-213
    /\ pc = "caller" /\ call <= Len(Calls) /\ pc' = "flip_coin"
    /\ left' = [t \in Threads |-> Half(t, Calls[call])]
    /\ UNCHANGED <<heads_, tails_, call>>

flip(t) ==                                                              \* 203-211
    /\ left[t] > 0 /\ left' = [left EXCEPT ![t] = @ - 1]
    /\ \/ heads_' = heads_ + 1 /\ UNCHANGED tails_
       \/ tails_' = tails_ + 1 /\ UNCHANGED heads_
    /\ UNCHANGED <<call, pc>>

Return ==                                                               \* 214
    /\ pc = "flip_coin" /\ \A t \in Threads : left[t] = 0
    /\ pc' = "caller" /\ call' = call + 1
    /\ UNCHANGED <<heads_, tails_, left>>

Finished == pc = "caller" /\ call > Len(Calls)
Next == flip_coin \/ Return \/ \E t \in Threads : flip(t)
-----------------------------------------------------------------------------
\* "The concurrency of flip_coin should be completely transparent" (line 187):
\* whenever the caller can read the statistics, every flip of the calls so far
\* is in them, and no thread is left that changes them behind its back.
TransparentToCaller ==
    pc = "caller" =>
        /\ heads_ + tails_ = SumFunctionOnSet(Calls, 1 .. call - 1)
        /\ \A t \in Threads : left[t] = 0
=============================================================================
