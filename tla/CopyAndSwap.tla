---------------------------- MODULE CopyAndSwap ----------------------------
(* Chapter1-CppBasic/ErrorHandlering.cpp 45-101: a string is changed in a    *)
(* copy that is swapped in when nothing can throw any more.                  *)
EXTENDS Naturals, Sequences
VARIABLES str,           \* the string, as the parts that were appended
          before,        \* the string when the function was called
          tmp,           \* the local of the function
          pc             \* the function and its statement
vars == <<str, before, tmp, pc>>
Functions == {"func", "func_throw"}

Init == str = <<>> /\ before = <<>> /\ tmp = <<>> /\ pc = <<"func", "copy">>

Go(from, to) == \E f \in Functions : pc = <<f, from>> /\ pc' = <<f, to>>

\* Mutant: the string itself is changed, as in the func of lines 46-50.
AppendInPlace(part, from, to) ==
    /\ Go(from, to) /\ str' = Append(str, part) /\ tmp' = Append(tmp, part) /\ UNCHANGED before
AppendTo(part, from, to) ==
    /\ Go(from, to) /\ tmp' = Append(tmp, part) /\ UNCHANGED <<str, before>>

Copy ==                                                                 \* 71, 79
    Go("copy", "f1") /\ tmp' = str /\ UNCHANGED <<str, before>>
f1 == AppendTo("Hello", "f1", "f2")                                    \* 72, 80
f2 == pc[1] = "func" /\ AppendTo("No", "f2", "swap")                  \* 73
Swap ==                                                                 \* 74, 82
    Go("swap", "return") /\ str' = tmp /\ tmp' = str /\ UNCHANGED before
Return ==                                                               \* 91-92
    /\ pc = <<"func", "return">> /\ pc' = <<"func_throw", "copy">>
    /\ before' = str /\ tmp' = <<>> /\ UNCHANGED str
\* Every copy and append may run out of memory; f2_throw always does.
Throw ==                                                                \* 62-66, 71-73, 79-81
    /\ pc[2] \in {"copy", "f1", "f2"} /\ pc' = <<pc[1], "caught">>
    /\ tmp' = <<>> /\ UNCHANGED <<str, before>>
Output == pc[2] = "caught" /\ UNCHANGED vars                            \* 94-100
Next == Copy \/ f1 \/ f2 \/ Swap \/ Return \/ Throw \/ Output
-----------------------------------------------------------------------------
\* A function appends both parts or, when it throws, leaves the string as it
\* was (68, 92, 99): nobody who catches the error finds half of the change.
AllOrNothing ==
    /\ str \in {before, before \o <<"Hello", "No">>}
    /\ pc[2] = "caught" => str = before
    /\ pc[2] = "return" => str # before
=============================================================================
