-------------------------- MODULE FutureAndPromise --------------------------
(* Chapter10-Concurrent/FutureAndPromise.cpp: a caller hands work to threads *)
(* it never joins and waits for their results, or their exceptions, through  *)
(* the shared state of a future.  The promises p and p1 live on the caller's *)
(* stack; the detached threads hold references to them.                      *)
EXTENDS Naturals, Sequences
CONSTANTS
    Divisors      \* what the tasks may divide by: "zero" or "nonzero" each
VARIABLES
    Divisor,      \* what they do divide by
    state,        \* the shared state of each future: "none", "value", "error"
    thread,       \* each worker: "unborn", "divide", "set", "ended"
    promises,     \* whether p and p1 exist
    pc, output    \* the caller's statement, and what it has printed
vars == <<Divisor, state, thread, promises, pc, output>>

Tasks == {"p", "p1", "packaged", "async"}
OnStack == {"p", "p1"}
\* The caller skips the second get when the first one throws, and p1 then dies
\* under its thread: the driver's first task must succeed, as it does (line 34).
FutureAssumption ==
    Divisors \subseteq {d \in [Tasks -> {"zero", "nonzero"}] : d["p"] = "nonzero"}

Init ==
    /\ Divisor \in Divisors
    /\ state = [w \in Tasks |-> "none"] /\ thread = [w \in Tasks |-> "unborn"]
    /\ promises = TRUE /\ pc = "detach p" /\ output = <<>>

Goto(from, to) == pc = from /\ pc' = to
Outcome(w) == IF Divisor[w] = "zero" THEN "error" ELSE "value"

Start(w, from, to) ==                                          \* 34, 35, 55-57, 72
    /\ Goto(from, to) /\ thread' = [thread EXCEPT ![w] = "divide"]
    /\ UNCHANGED <<Divisor, state, promises, output>>

divide(w) ==                                                   \* 9, 16, 23-27
    /\ thread[w] = "divide" /\ thread' = [thread EXCEPT ![w] = "set"]
    /\ UNCHANGED <<Divisor, state, promises, pc, output>>

SetResult(w) ==                                                \* 11-12, 17
    /\ thread[w] = "set" /\ thread' = [thread EXCEPT ![w] = "ended"]
    /\ state' = [state EXCEPT ![w] = Outcome(w)]
    /\ UNCHANGED <<Divisor, promises, pc, output>>

\* Mutant: the caller looks at the future without waiting for it.
GetAtOnce(w, from, to, caught) ==
    /\ Goto(from, IF state[w] = "error" THEN caught ELSE to)
    /\ output' = Append(output, state[w])
    /\ UNCHANGED <<Divisor, state, thread, promises>>

\* get blocks until the result is there; an exception goes to the handler.
Get(w, from, to, caught) ==                                    \* 41-49, 62-68, 77-83
    /\ state[w] # "none"
    /\ Goto(from, IF state[w] = "error" THEN caught ELSE to)
    /\ output' = Append(output, state[w])
    /\ UNCHANGED <<Divisor, state, thread, promises>>

\* The future of async waits for its thread when it is destroyed, the others do
\* not; then the promises die with the caller's frame.
Return ==                                                      \* 84-85
    /\ thread["async"] = "ended" /\ Goto("return", "returned")
    /\ promises' = FALSE
    /\ UNCHANGED <<Divisor, state, thread, output>>

caller ==
    \/ Start("p", "detach p", "detach p1")
    \/ Start("p1", "detach p1", "get p")
    \/ Get("p", "get p", "get p1", "packaged")
    \/ Get("p1", "get p1", "packaged", "packaged")
    \/ Start("packaged", "packaged", "get packaged")
    \/ Get("packaged", "get packaged", "async", "async")
    \/ Start("async", "async", "get async")
    \/ Get("async", "get async", "return", "return")
    \/ Return
worker(w) == divide(w) \/ SetResult(w)

Finished == pc = "returned"
Next == caller \/ \E w \in Tasks : worker(w)
-----------------------------------------------------------------------------
\* No detached thread is still about to set a promise that has died with the
\* caller's frame.
PromisesOutliveThreads ==
    ~promises => \A w \in OnStack : thread[w] = "ended"

\* The caller prints the outcome of every task, the value it computed or the
\* error it ended with, though it never joins the thread that made it.
OutcomesArrive ==
    pc = "returned" =>
        output = <<Outcome("p"), Outcome("p1"), Outcome("packaged"), Outcome("async")>>
=============================================================================
