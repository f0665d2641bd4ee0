----------------------------- MODULE StopThread -----------------------------
(* Chapter10-Concurrent/Thread.cpp 25-76: a thread that is joined, and a     *)
(* jthread that polls its stop token until the main thread asks it to stop.  *)
EXTENDS Naturals
VARIABLES
    pc,              \* the statement of the main thread, of t1 and of jt1
    stop             \* the stop state of jt1
vars == <<pc, stop>>

Init ==
    /\ pc = [t \in {"main", "t1", "jt1"} |-> IF t = "main" THEN "create" ELSE "unborn"]
    /\ stop = FALSE

Go(t, from, to) == pc[t] = from /\ pc' = [pc EXCEPT ![t] = to]
Create(t, from, to) == pc["main"] = from /\ pc' = [pc EXCEPT !["main"] = to, ![t] = "begin"]

print ==                                                                \* 25-29
    Go("t1", "begin", "ended") /\ UNCHANGED stop

\* Mutant: the loop polls the state that its copy of the token had at first.
PollCopy == Go("jt1", "begin", "write") /\ UNCHANGED stop
Poll ==                                                                 \* 33
    /\ IF stop THEN Go("jt1", "begin", "stopping") ELSE Go("jt1", "begin", "write")
    /\ UNCHANGED stop
Output ==                                                               \* 35
    Go("jt1", "write", "sleep") /\ UNCHANGED stop
Awake ==                                                                \* 36
    Go("jt1", "sleep", "begin") /\ UNCHANGED stop
StopRequested ==                                                        \* 38
    Go("jt1", "stopping", "ended") /\ UNCHANGED stop

MainThread ==
    \/ Create("t1", "create", "join") /\ UNCHANGED stop    \* 43
    \/ pc["t1"] = "ended" /\ Create("jt1", "join", "sleep") /\ UNCHANGED stop    \* 48, 51
    \/ Go("main", "sleep", "destroy") /\ stop' = TRUE    \* 53-56
    \* ~jthread asks once more and joins.
    \/ pc["jt1"] = "ended" /\ Go("main", "destroy", "over") /\ stop' = TRUE    \* 66-76

print_with_stop_token == Poll \/ Output \/ Awake \/ StopRequested
Finished == pc["main"] = "over"
Next == print \/ print_with_stop_token \/ MainThread
=============================================================================
