----------------------------- MODULE StartLatch -----------------------------
(* Chapter10-Concurrent/AdditionalInCpp20.cpp 21-38, 220-240: threads        *)
(* initialize, meet at a std::latch, and then do their work under a mutex;   *)
(* the main thread waits for the latch as well and then joins them.          *)
EXTENDS Naturals, FiniteSets
CONSTANTS Threads, None
LatchAssumption == IsFiniteSet(Threads) /\ "main" \notin Threads /\ None \notin Threads
VARIABLES
    initialized,     \* the latch's counter
    mutex,           \* the holder of the global mutex
    pc,              \* the statement of each thread and of the main thread
    mapped           \* the threads whose stack is in memory
vars == <<initialized, mutex, pc, mapped>>
n_threads == Cardinality(Threads)

Init ==
    /\ initialized = n_threads /\ mutex = None /\ mapped = {}
    /\ pc = [t \in Threads \cup {"main"} |-> IF t = "main" THEN "start" ELSE "unborn"]

Go(t, from, to) == pc[t] = from /\ pc' = [pc EXCEPT ![t] = to]
Unborn == {t \in Threads : pc[t] = "unborn"}

\* Threads are created one by one, while those created before already run.
Emplace(t) ==                                                           \* 224-226
    /\ pc["main"] = "start" /\ Go(t, "unborn", "prefault")
    /\ UNCHANGED <<initialized, mutex, mapped>>

prefault_stack(t) ==                                                    \* 21-28
    /\ Go(t, "prefault", "arrive") /\ mapped' = mapped \cup {t}
    /\ UNCHANGED <<initialized, mutex>>

Arrive(t) ==                                                            \* 229
    /\ Go(t, "arrive", "wait") /\ initialized' = initialized - 1
    /\ UNCHANGED <<mutex, mapped>>

\* Mutant: the latch's counter is taken to be used up by the first to arrive.
WaitForOne(t) ==
    /\ initialized < n_threads /\ Go(t, "wait", "sleep")
    /\ UNCHANGED <<initialized, mutex, mapped>>

Wait(t) ==                                                              \* 229
    /\ initialized = 0 /\ Go(t, "wait", "sleep")
    /\ UNCHANGED <<initialized, mutex, mapped>>

Lock(t) ==                                                              \* 34-36
    /\ mutex = None /\ mutex' = t /\ Go(t, "sleep", "print")
    /\ UNCHANGED <<initialized, mapped>>

Output(t) ==                                                             \* 37-38
    /\ Go(t, "print", "ended") /\ mutex' = None
    /\ UNCHANGED <<initialized, mapped>>

MainWait ==                                                             \* 234-235
    /\ Unborn = {} /\ initialized = 0 /\ Go("main", "start", "join")
    /\ UNCHANGED <<initialized, mutex, mapped>>

Join ==                                                                 \* 237-240
    /\ \A t \in Threads : pc[t] = "ended"
    /\ Go("main", "join", "joined")
    /\ UNCHANGED <<initialized, mutex, mapped>>

do_work(t) == Lock(t) \/ Output(t)
thread(t) == prefault_stack(t) \/ Arrive(t) \/ Wait(t) \/ do_work(t)
main == (\E t \in Threads : Emplace(t)) \/ MainWait \/ Join
Finished == pc["main"] = "joined"
Next == main \/ \E t \in Threads : thread(t)
-----------------------------------------------------------------------------
\* Nobody works, and the main thread does not announce the start, before every
\* thread exists and has initialized: the latch opens once, for all of them.
StartsTogether ==
    (\E t \in Threads \cup {"main"} : pc[t] \in {"sleep", "print", "ended", "join", "joined"})
        => mapped = Threads /\ Unborn = {}
=============================================================================
