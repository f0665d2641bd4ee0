----------------------------- MODULE Factorials -----------------------------
(* Chapter12-Asyncchronous/TailCallOptimization.cpp: factorial, which keeps  *)
(* a frame for every number, and factorial_tail_call, whose compiler may let *)
(* each call take over the frame of the one before.                          *)
EXTENDS Naturals, Sequences, SequencesExt
CONSTANTS SizeRange,     \* bound: size_t counts modulo this
          MaxFrames,     \* bound: the frames that fit on the stack
          MaxN           \* bound: the largest argument
FactorialAssumption == {SizeRange, MaxFrames, MaxN} \subseteq Nat \ {0} /\ MaxFrames + 1 < SizeRange /\ MaxN < SizeRange
VARIABLES
    argument,
    function,            \* the function that is called and how it was compiled
    n, accum,            \* its locals; accum also holds what a call returns
    frames,              \* the n of each frame below
    pc
vars == <<argument, function, n, accum, frames, pc>>

Init ==
    /\ argument \in 0 .. MaxN /\ n = argument /\ accum = 1 /\ frames = <<>> /\ pc = "enter"
    /\ function \in {"factorial", "tail_call", "optimized_tail_call"}
Times(x, y) == (x * y) % SizeRange
Less1(x) == (x + SizeRange - 1) % SizeRange       \* 0 - 1 is the largest size_t

\* Only factorial_tail_call asks for 0.
Enter ==                                                                \* 61-65
    /\ pc = "enter" /\ pc' = IF n = 0 /\ function # "factorial" THEN "return" ELSE "call"
    /\ UNCHANGED <<argument, function, n, accum, frames>>
Base ==                                                                 \* 21-22, 30-31
    /\ pc = "call" /\ n = 1 /\ pc' = "return"
    /\ UNCHANGED <<argument, function, n, accum, frames>>

\* The next call takes a frame of its own, if there is room for one.
Push ==
    IF function = "optimized_tail_call" THEN UNCHANGED <<frames, pc>>
    ELSE IF Len(frames) < MaxFrames THEN frames' = Append(frames, n) /\ UNCHANGED pc
    ELSE pc' = "overflow" /\ UNCHANGED frames

\* Mutant: n is counted down before it is multiplied.
InnerSwapped ==
    /\ pc = "call" /\ n # 1 /\ function # "factorial" /\ Push
    /\ n' = Less1(n) /\ accum' = Times(accum, Less1(n)) /\ UNCHANGED <<argument, function>>
Inner ==                                                                \* 28-34
    /\ pc = "call" /\ n # 1 /\ function # "factorial" /\ Push
    /\ n' = Less1(n) /\ accum' = Times(accum, n) /\ UNCHANGED <<argument, function>>
Recurse ==                                                              \* 19-23
    /\ pc = "call" /\ n # 1 /\ function = "factorial" /\ Push
    /\ n' = Less1(n) /\ UNCHANGED <<argument, function, accum>>
\* Back in the frame of a caller; factorial has still to multiply.
Unwind ==                                                               \* 23, 33
    /\ pc = "return" /\ frames # <<>> /\ frames' = Front(frames)
    /\ accum' = IF function = "factorial" THEN Times(Last(frames), accum) ELSE accum
    /\ UNCHANGED <<argument, function, n, pc>>
Returned == pc = "return" /\ frames = <<>>
Over == (Returned \/ pc = "overflow") /\ UNCHANGED vars
Next == Enter \/ Base \/ Inner \/ Recurse \/ Unwind \/ Over
Spec == Init /\ [][Next]_vars
-----------------------------------------------------------------------------
Factorial[k \in Nat] == IF k = 0 THEN 1 ELSE Times(k, Factorial[k - 1])

\* The three compute the same number where they return, also where it does not
\* fit into size_t, and the optimized tail call needs no stack for any argument:
\* it eliminates "the risk of stack overflow" (43-44).
SameFactorial ==
    /\ Returned => accum = Factorial[argument]
    /\ pc = "overflow" => function # "optimized_tail_call" /\ argument \notin 1 .. MaxFrames

\* "This is the tail call optimization version of factorial" (36): what one of
\* them computes the other computes too, given the stack for its frames.
SameFunction == pc = "overflow" => argument > MaxFrames
=============================================================================
