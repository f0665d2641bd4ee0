------------------------ MODULE ConcurrencyExamples ------------------------
(* Chapter10-Concurrent/Main.cpp: main runs the examples one after the other *)
(* and each joins its threads before the next begins.  They share no         *)
(* variables, so this module lets any one of them run, each from its start,  *)
(* and Server, which no example uses, with clients of its own.               *)
EXTENDS Integers, Sequences, FiniteSets
CONSTANTS
    Workers, Program, Initial,     \* the threads of CriticalSection, its blocks
    Divisors,
    LatchThreads, DiceThreads, MaxTurns,
    Consumers, Share, N,           \* the clients of BoundedBuffer, its capacity
    Flips,
    Clients, Permits, Requests,    \* of Server
    None
VARIABLES
    example,                                                      \* the one that runs
    block, cell, owner, job, at, c_pc, reg,                       \* CriticalSection, 44-66
    Divisor, state, worker, promises, f_pc, output,               \* FutureAndPromise
    initialized, mutex, l_pc, mapped,                             \* AdditionalInCpp20, 220-240
    dice, done, n_turns, expected, phase, token, d_pc, rolls,     \* 253-292
    buf_, read_pos_, write_pos_, m_, n_empty_slots_, n_full_slots_,
        b_pc, item, i, calls, received,                           \* 296-322
    heads_, tails_, call, s_pc, left,                             \* 382-387
    sem_, h_pc, requests,                                         \* Server, 54-79
    t_pc, stop                                                    \* StopThread

Section == INSTANCE CriticalSection WITH Threads <- Workers, pc <- c_pc
Futures == INSTANCE FutureAndPromise WITH thread <- worker, pc <- f_pc
Latch == INSTANCE StartLatch WITH Threads <- LatchThreads, pc <- l_pc
Dice == INSTANCE DiceBarrier WITH Threads <- DiceThreads, pc <- d_pc
Buffer == INSTANCE BoundedBufferDriver WITH
    producer0 <- "producer0", Threads <- Consumers \cup {"producer0"},
    Items <- 0 .. Share * Cardinality(Consumers) - 1, MayThrow <- FALSE, pc <- b_pc
Coin == INSTANCE FlipCoin WITH Calls <- Flips, pc <- s_pc
Pool == INSTANCE Server WITH pc <- h_pc, left <- requests
Stop == INSTANCE StopThread WITH pc <- t_pc

ASSUME ExamplesAssumption ==
    /\ Section!SectionAssumption
    /\ Futures!FutureAssumption /\ Latch!LatchAssumption /\ Dice!DiceAssumption
    /\ Buffer!BufferAssumption /\ Buffer!DriverAssumption
    /\ Coin!FlipAssumption /\ Pool!ServerAssumption

v1 == <<block, cell, owner, job, at, c_pc, reg>>
v2 == <<Divisor, state, worker, promises, f_pc, output>>
v3 == <<initialized, mutex, l_pc, mapped>>
v4 == <<dice, done, n_turns, expected, phase, token, d_pc, rolls>>
v5 == <<buf_, read_pos_, write_pos_, m_, n_empty_slots_, n_full_slots_, b_pc, item,
        i, calls, received>>
v6 == <<heads_, tails_, call, s_pc, left>>
v7 == <<sem_, h_pc, requests>>
v8 == <<t_pc, stop>>
vars == <<example, v1, v2, v3, v4, v5, v6, v7, v8>>

Examples == {"section", "futures", "latch", "dice", "buffer", "coin", "server", "stop"}

Init ==
    /\ example \in Examples
    /\ Section!Init /\ Futures!Init /\ Latch!Init /\ Dice!Init
    /\ Buffer!DriverInit /\ Coin!Init /\ Pool!Init /\ Stop!Init
    /\ example # "section" => block = CHOOSE b \in DOMAIN Initial : TRUE

InSection(A)   == example = "section" /\ A /\ UNCHANGED <<example, v2, v3, v4, v5, v6, v7, v8>>
InFutures(A)   == example = "futures" /\ A /\ UNCHANGED <<example, v1, v3, v4, v5, v6, v7, v8>>
InLatch(A)     == example = "latch" /\ A /\ UNCHANGED <<example, v1, v2, v4, v5, v6, v7, v8>>
InDice(A)      == example = "dice" /\ A /\ UNCHANGED <<example, v1, v2, v3, v5, v6, v7, v8>>
InBuffer(A)    == example = "buffer" /\ A /\ UNCHANGED <<example, v1, v2, v3, v4, v6, v7, v8>>
InCoin(A)      == example = "coin" /\ A /\ UNCHANGED <<example, v1, v2, v3, v4, v5, v7, v8>>
InServer(A)    == example = "server" /\ A /\ UNCHANGED <<example, v1, v2, v3, v4, v5, v6, v8>>
InStop(A)      == example = "stop" /\ A /\ UNCHANGED <<example, v1, v2, v3, v4, v5, v6, v7>>

\* The function of the example returns when all its threads have been joined.
End(this, finished) ==
    /\ example = this /\ finished /\ example' = "returned"
    /\ UNCHANGED <<v1, v2, v3, v4, v5, v6, v7, v8>>
EndExample ==
    \/ End("section", Section!Finished)                                 \* 48-62
    \/ End("futures", Futures!Finished)                                 \* 85
    \/ End("latch", Latch!Finished)                                     \* 237-240
    \/ End("dice", Dice!Finished)                                       \* 286-289
    \/ End("buffer", Buffer!Finished)                                   \* 318-322
    \/ End("coin", Coin!Finished)                                       \* 382-388
    \/ End("server", Pool!Finished)
    \/ End("stop", Stop!Finished)
Returned == example = "returned" /\ UNCHANGED vars

Next ==
    \/ InSection(Section!Next) \/ InFutures(Futures!Next)
    \/ InLatch(Latch!Next) \/ InDice(Dice!Next) \/ InBuffer(Buffer!DriverNext)
    \/ InCoin(Coin!Next) \/ InServer(Pool!Next) \/ InStop(Stop!Next)
    \/ EndExample \/ Returned

\* The operating system runs every thread that can run.  Nothing says which of
\* the threads blocked at a mutex or a semaphore gets it, but two callers of
\* std::lock do not spoil each other's tries for ever: the one chance of a
\* livelock it leaves.
Fairness ==
    /\ \A t \in Workers :
           /\ WF_vars(InSection(Section!step(t)))
           /\ SF_vars(InSection(Section!LockFirst(t) /\ Section!Several(t)))
           /\ SF_vars(InSection(Section!TryRest(t) /\ Section!Several(t) /\ c_pc'[t] = "load"))
    /\ WF_vars(InFutures(Futures!caller))
    /\ \A w \in Futures!Tasks : WF_vars(InFutures(Futures!worker(w)))
    /\ WF_vars(InLatch(Latch!main)) /\ \A t \in LatchThreads : WF_vars(InLatch(Latch!thread(t)))
    /\ \A t \in DiceThreads : WF_vars(InDice(Dice!thread(t)))
    /\ WF_vars(InBuffer(Buffer!producer))
    /\ \A c \in Consumers : WF_vars(InBuffer(Buffer!consumer(c)))
    /\ WF_vars(InCoin(Coin!Next))
    /\ \A c \in Clients : WF_vars(InServer(Pool!handle(c))) /\ WF_vars(InServer(Pool!Call(c)))
    /\ WF_vars(InStop(Stop!print)) /\ WF_vars(InStop(Stop!print_with_stop_token))
    /\ WF_vars(InStop(Stop!MainThread)) /\ WF_vars(EndExample)
Spec == Init /\ [][Next]_vars /\ Fairness
-----------------------------------------------------------------------------
\* CriticalSection.cpp: no increment and no transfer is lost, at any time, and
\* flip_coin, which hides its threads, has counted every flip when it returns.
NoLostUpdate == Section!NoLostUpdate /\ Coin!TransparentToCaller

\* FutureAndPromise.cpp: the promises on the stack outlive the detached threads
\* that set them, and every outcome, value or exception, reaches the caller.
OutcomesArrive == Futures!PromisesOutliveThreads /\ Futures!OutcomesArrive

\* Where threads meet in AdditionalInCpp20: at the latch nobody works before all
\* have initialized; at the barrier the completion function runs alone, the dice
\* take turns in step, and the game ends for all on the same turn of sixes.
PhasesInStep == Latch!StartsTogether /\ Dice!NoDataRace /\ Dice!InStep /\ Dice!EndsOnSixes

\* The bounded buffer's clients: each item reaches one consumer, in order.
EachOnceInOrder == Buffer!EachOnceInOrder

\* Every example returns: in no example do threads wait for each other for ever, neither
\* at two mutexes taken in opposite orders (CriticalSection.cpp:37), nor at the
\* latch, the barrier, the semaphores of the buffer, a future, a join, or in a loop
\* that polls a stop token (Thread.cpp:33).
EveryExampleReturns == <>(example = "returned")
=============================================================================
