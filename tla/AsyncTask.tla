----------------------------- MODULE AsyncTask -----------------------------
(* Chapter12-Asyncchronous/AsyncTask.cpp: coroutines that return a Task and  *)
(* co_await each other, the helper coroutines that start them, SyncWaitTask  *)
(* and Detached, and asynchronous sleeps that an io_context completes.       *)
EXTENDS Naturals, Sequences
CONSTANTS
    Body,          \* what each coroutine co_awaits, in order: a Task or "sleep"
    MayThrow,      \* whether the body of a Task may end with an exception
    TimerMayFail   \* whether a timer may complete with an error_code
Coroutines == DOMAIN Body
Starters == {"SyncWaitTask", "Detached"}     \* each awaits the Task it is given
AwaitedBy(c) == {Body[c][k] : k \in DOMAIN Body[c]} \ {"sleep"}
ASSUME TaskAssumption ==
    /\ Starters \subseteq Coroutines /\ {MayThrow, TimerMayFail} \subseteq BOOLEAN
    \* "sleep", the caller and no coroutine at all are none of them
    /\ {"sleep", "base", "none"} \cap Coroutines = {}
    /\ \A c \in Coroutines : Body[c] \in Seq(Coroutines \cup {"sleep"})
    /\ \A c \in Coroutines : AwaitedBy(c) \subseteq Coroutines \ Starters
    /\ \A c \in Starters : Len(Body[c]) = 1 /\ Body[c][1] # "sleep"
    \* every Task object is awaited by one coroutine, once
    /\ \A c, d \in Coroutines : c # d => AwaitedBy(c) \cap AwaitedBy(d) = {}
    /\ \A c \in Coroutines : \A j, k \in DOMAIN Body[c] :
           Body[c][j] = Body[c][k] /\ Body[c][j] # "sleep" => j = k
VARIABLES
    starter,       \* the coroutine the caller has started
    base,          \* the statement of the caller, below all coroutines
    control,       \* the coroutine that runs, or "base"
    frame,         \* each coroutine's frame
    step, at,      \* where a coroutine is in its body, and the co_await it is at
    result_,       \* the outcome in its promise
    continuation_, \* the coroutine that awaits it
    timers, ec_    \* the coroutines whose timer runs, and its error_code
vars == <<starter, base, control, frame, step, at, result_, continuation_, timers, ec_>>
io == <<timers, ec_>>

Init ==
    /\ starter \in Starters /\ base = "start" /\ control = "base"
    /\ frame = [c \in Coroutines |-> "none"] /\ step = [c \in Coroutines |-> "body"]
    /\ at = [c \in Coroutines |-> 1] /\ result_ = [c \in Coroutines |-> "empty"]
    /\ continuation_ = [c \in Coroutines |-> "none"]
    /\ timers = {} /\ ec_ = FALSE

Runs(c, where) == control = c /\ step[c] = where
Awaits(c) == at[c] <= Len(Body[c])
Operand(c) == Body[c][at[c]]
Root == Operand(starter)
Goto(c, where) == step' = [step EXCEPT ![c] = where]
Past(c) == at' = [at EXCEPT ![c] = @ + 1]
Suspend(c) == [frame EXCEPT ![c] = "suspended"]
\* The Task temporaries of c die with its expression or its unwinding.
Destroyed(S) == [d \in Coroutines |-> IF d \in S /\ frame[d] # "none" THEN "destroyed" ELSE frame[d]]
Ends(c, outcome) ==
    /\ result_' = [result_ EXCEPT ![c] = outcome] /\ Goto(c, "final")
    /\ frame' = Destroyed(IF c \in Starters THEN {} ELSE AwaitedBy(c))
-----------------------------------------------------------------------------
\* The caller makes a Task and hands it to a starter, which runs at once.
Start ==                                                \* 432-433, 460; 283, 355, 383
    /\ base = "start" /\ base' = "resume" /\ control' = starter
    /\ frame' = [frame EXCEPT ![Body[starter][1]] = "suspended", ![starter] = "running"]
    /\ UNCHANGED <<starter, step, at, result_, continuation_, io>>

\* A call of a coroutine allocates its frame and suspends it at its start.
Call(c) ==                                              \* 45-50, 151-156, 340-341
    /\ Runs(c, "body") /\ Awaits(c) /\ Operand(c) # "sleep" /\ frame[Operand(c)] = "none"
    /\ frame' = Suspend(Operand(c))
    /\ UNCHANGED <<starter, base, control, step, at, result_, continuation_, io>>

\* Mutant: the handle of the awaiting coroutine is not saved.
AwaitNoContinuation(c) ==
    /\ Runs(c, "body") /\ Awaits(c) /\ Operand(c) # "sleep" /\ frame[Operand(c)] = "suspended"
    /\ frame' = [Suspend(c) EXCEPT ![Operand(c)] = "running"] /\ control' = Operand(c)
    /\ Goto(c, "resumed")
    /\ UNCHANGED <<starter, base, at, result_, continuation_, io>>

Await(c) ==                                             \* 85-121, 189-197
    /\ Runs(c, "body") /\ Awaits(c) /\ Operand(c) # "sleep" /\ frame[Operand(c)] = "suspended"
    /\ frame' = [Suspend(c) EXCEPT ![Operand(c)] = "running"] /\ control' = Operand(c)
    /\ continuation_' = [continuation_ EXCEPT ![Operand(c)] = c]
    /\ Goto(c, "resumed")
    /\ UNCHANGED <<starter, base, at, result_, io>>

\* Mutant: the stored exception is not rethrown.
AwaitResumeSwallows(c) ==
    /\ Runs(c, "resumed") /\ Past(c) /\ Goto(c, "body")
    /\ UNCHANGED <<starter, base, control, frame, result_, continuation_, io>>

\* The awaiting coroutine takes the value, or the exception ends its body too.
AwaitResume(c) ==                                       \* 122-133, 198-202
    /\ Runs(c, "resumed")
    /\ \/ result_[Operand(c)] = "value" /\ Past(c) /\ Goto(c, "body") /\ UNCHANGED <<frame, result_>>
       \/ result_[Operand(c)] # "value" /\ Ends(c, "error") /\ UNCHANGED at
    /\ UNCHANGED <<starter, base, control, continuation_, io>>

Return(c) ==                                            \* 39-42, 147-148, 227-231, 304
    /\ Runs(c, "body") /\ ~Awaits(c) /\ Ends(c, "value")
    /\ UNCHANGED <<starter, base, control, at, continuation_, io>>

Throw(c) ==                                             \* 43-46, 149-152
    /\ MayThrow /\ c \notin Starters
    /\ Runs(c, "body") /\ ~Awaits(c) /\ Ends(c, "error")
    /\ UNCHANGED <<starter, base, control, at, continuation_, io>>

\* Mutant: the frame is not kept at its end for whoever reads the result.
FinalSuspendNever(c) ==
    /\ Runs(c, "final") /\ c \notin Starters
    /\ frame' = [frame EXCEPT ![c] = "destroyed", ![continuation_[c]] = "running"]
    /\ control' = continuation_[c]
    /\ UNCHANGED <<starter, base, step, at, result_, continuation_, io>>

FinalSuspend(c) ==                                      \* 51-68, 157-173
    /\ Runs(c, "final") /\ c \notin Starters
    /\ frame' = [d \in Coroutines |-> CASE d = c -> "suspended"
                                        [] d = continuation_[c] -> "running"
                                        [] OTHER -> frame[d]]
    /\ control' = continuation_[c]
    /\ UNCHANGED <<starter, base, step, at, result_, continuation_, io>>
-----------------------------------------------------------------------------
\* An async_sleep of no time does not suspend.
SleepReady(c) ==                                        \* 397-400
    /\ Runs(c, "body") /\ Awaits(c) /\ Operand(c) = "sleep" /\ Past(c)
    /\ UNCHANGED <<starter, base, control, frame, step, result_, continuation_, io>>

Sleep(c) ==                                             \* 401-410
    /\ Runs(c, "body") /\ Awaits(c) /\ Operand(c) = "sleep"
    /\ frame' = Suspend(c) /\ Goto(c, "slept") /\ timers' = timers \cup {c}
    /\ control' = "base"
    /\ UNCHANGED <<starter, base, at, result_, continuation_, ec_>>

\* Only ctx.run() calls the handlers of timers that have expired.
Expire(c) ==                                            \* 405-409
    /\ base = "run" /\ control = "base" /\ c \in timers /\ timers' = timers \ {c}
    /\ ec_' \in IF TimerMayFail THEN BOOLEAN ELSE {FALSE}
    /\ frame' = [frame EXCEPT ![c] = "running"] /\ control' = c
    /\ UNCHANGED <<starter, base, step, at, result_, continuation_>>

SleepResume(c) ==                                       \* 411-415
    /\ Runs(c, "slept")
    /\ \/ ~ec_ /\ Past(c) /\ Goto(c, "body") /\ UNCHANGED <<frame, result_>>
       \/ ec_ /\ Ends(c, "error") /\ UNCHANGED at
    /\ UNCHANGED <<starter, base, control, continuation_, io>>
-----------------------------------------------------------------------------
\* SyncWaitTask stays suspended at its end and releases its semaphore.
Signal ==                                               \* 236-255
    /\ Runs("SyncWaitTask", "final") /\ frame' = Suspend("SyncWaitTask") /\ control' = "base"
    /\ UNCHANGED <<starter, base, step, at, result_, continuation_, io>>

\* Detached does not suspend at its end and goes; an exception ends the program.
Vanish ==                                               \* 359-368, 379
    /\ Runs("Detached", "final") /\ control' = "base"
    /\ frame' = [frame EXCEPT !["Detached"] = "destroyed"]
    /\ base' = IF result_["Detached"] = "error" THEN "terminated" ELSE base
    /\ UNCHANGED <<starter, step, at, result_, continuation_, io>>

Resumed ==                                              \* 283-284, 384
    /\ base = "resume" /\ control = "base"
    /\ base' = IF starter = "Detached" THEN "run" ELSE "acquire"
    /\ UNCHANGED <<starter, control, frame, step, at, result_, continuation_, io>>

\* The semaphore is released when SyncWaitTask has come to its end; then both
\* its frame and, when the caller's scope ends, that of the Task are destroyed.
Acquire ==                                              \* 284-287, 272-275, 79-82
    /\ base = "acquire" /\ control = "base" /\ step["SyncWaitTask"] = "final"
    /\ base' = IF result_["SyncWaitTask"] = "error" THEN "threw" ELSE "returned"
    /\ frame' = Destroyed({"SyncWaitTask", Body["SyncWaitTask"][1]})
    /\ UNCHANGED <<starter, control, step, at, result_, continuation_, io>>

\* Mutant: no work guard, and the timer's handler is not counted as work.
RunNoWork ==
    /\ base = "run" /\ control = "base" /\ base' = "returned"
    /\ frame' = Destroyed({Body["Detached"][1]})
    /\ UNCHANGED <<starter, control, step, at, result_, continuation_, io>>

\* run() returns when no timer is left and Detached has dropped its work guard.
RunReturns ==                                           \* 377, 384-385, 186
    /\ base = "run" /\ control = "base" /\ timers = {} /\ frame["Detached"] = "destroyed"
    /\ base' = "returned" /\ frame' = Destroyed({Body["Detached"][1]})
    /\ UNCHANGED <<starter, control, step, at, result_, continuation_, io>>

coroutine(c) ==
    \/ Call(c) \/ Await(c) \/ AwaitResume(c) \/ Return(c) \/ Throw(c) \/ FinalSuspend(c)
    \/ SleepReady(c) \/ Sleep(c) \/ Expire(c) \/ SleepResume(c)
caller == Start \/ Signal \/ Vanish \/ Resumed \/ Acquire \/ RunReturns
Over == base \in {"returned", "threw", "terminated"}
Ended == Over /\ UNCHANGED vars
Next == (\E c \in Coroutines : coroutine(c)) \/ caller \/ Ended
\* The one thread runs on, and timers expire.
Spec == Init /\ [][Next]_vars /\ WF_vars(Next)
-----------------------------------------------------------------------------
\* The coroutines under way: each awaits the next, which is not over yet.
UnderWay(c) == frame[c] # "none" /\ (c = starter \/ continuation_[c] # "none") /\ step[c] # "final"
Chain[c \in Coroutines] ==
    IF step[c] = "resumed" /\ step[Operand(c)] # "final" THEN <<c>> \o Chain[Operand(c)] ELSE <<c>>
Calls == INSTANCE StructuredCalls WITH
    stack   <- IF UnderWay(starter) THEN Chain[starter] ELSE <<>>,
    outcome <- [c \in Coroutines |-> IF result_[c] = "empty" THEN "none" ELSE result_[c]]

\* Symmetric transfer and timers keep the order of ordinary calls: callees
\* run one after the other, each returns to its caller, none gives a value
\* whose callees failed (await_suspend, final_suspend, await_resume).
ImplementsCalls == Calls!Spec

\* A suspended coroutine is waited for by exactly what will resume it: the
\* Task that it awaits holds its handle, or a timer does and its Awaitable,
\* which lives in the frame, is there for the handler (119, 405-409).
HeldByOne ==
    \A c \in Coroutines : UnderWay(c) /\ frame[c] = "suspended" /\ base \notin {"start", "terminated"} =>
        \/ step[c] = "slept" /\ c \in timers /\ \A d \in Coroutines : continuation_[d] = c => step[d] = "final"
        \/ /\ step[c] = "resumed" /\ c \notin timers
           /\ continuation_[Operand(c)] = c /\ frame[Operand(c)] \in {"suspended", "running"}

\* No handle dangles and none is forgotten: whoever is resumed reads a result
\* that is there, in a frame that is there (124-131, 200), a timer's callback,
\* which holds a raw this and a raw handle, runs for a coroutine that still
\* waits for it (405-409), and when sync_wait or run_task is over no frame is
\* left and no timer runs (79-82, 272-275, 384).
NothingDangles ==
    /\ \A c \in Coroutines :
           Runs(c, "resumed") => frame[Operand(c)] = "suspended" /\ result_[Operand(c)] # "empty"
    /\ \A c \in timers : frame[c] = "suspended" /\ step[c] = "slept"
    /\ base \in {"returned", "threw"} =>
           timers = {} /\ \A c \in Coroutines : frame[c] \in {"none", "destroyed"}

\* sync_wait and run_task come to an end, and the caller learns of every error:
\* sync_wait throws it, and it terminates the program under run_task; without
\* an error neither happens.
ErrorsArrive == <>[](Over /\ (base = "returned" <=> \A c \in Coroutines : result_[c] # "error"))
=============================================================================
