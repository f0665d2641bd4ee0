-------------------------- MODULE StructuredCalls --------------------------
(* What coroutines that co_await each other promise: they behave like calls. *)
(* A call returns to its caller when it is over; an error that it does not   *)
(* handle, and it handles none, is also the end of its caller.               *)
EXTENDS Naturals, Sequences, SequencesExt
CONSTANTS Body, Starters
Callees(c) == {Body[c][k] : k \in DOMAIN Body[c]} \ {"sleep"}
VARIABLES
    stack,      \* the calls under way, the innermost last
    outcome     \* "none" until a call is over; then "value" or "error"
cvars == <<stack, outcome>>

Init == stack = <<>> /\ outcome = [c \in DOMAIN Body |-> "none"]
Begin == /\ stack = <<>> /\ \A c \in DOMAIN Body : outcome[c] = "none"
         /\ \E c \in Starters : stack' = <<c>>
         /\ UNCHANGED outcome
\* Callees are called in the order of the body, each once.
Invoke ==
    /\ stack # <<>>
    /\ \E k \in DOMAIN Body[Last(stack)] :
          LET callee == Body[Last(stack)][k]
          IN  /\ callee # "sleep" /\ outcome[callee] = "none"
              /\ \A j \in 1 .. k - 1 : Body[Last(stack)][j] = "sleep" \/ outcome[Body[Last(stack)][j]] = "value"
              /\ stack' = Append(stack, callee)
    /\ UNCHANGED outcome
\* A call gives a value only when all its callees gave theirs.
Give ==
    /\ stack # <<>> /\ stack' = Front(stack)
    /\ \E result \in {"value", "error"} :
          /\ result = "value" => \A d \in Callees(Last(stack)) : outcome[d] = "value"
          /\ outcome' = [outcome EXCEPT ![Last(stack)] = result]
Next == Begin \/ Invoke \/ Give
Spec == Init /\ [][Next]_cvars
=============================================================================
