------------------------------ MODULE Sleepers -----------------------------
(* The code of Chapter 10 whose threads sleep until another one notifies     *)
(* them: ProducerAndConsumer.cpp on a condition variable, and SimpleMutex of *)
(* AdditionalInCpp20.cpp, which no example uses, on an atomic_flag, with     *)
(* threads of its own.  Each runs from its start.                            *)
EXTENDS ProducerAndConsumer
CONSTANT Lockers                      \* the threads of SimpleMutex
VARIABLES example,                    \* the one that runs
          is_locked_, place           \* of SimpleMutex
Mutex == INSTANCE SimpleMutex WITH Threads <- Lockers, pc <- place
mutexVars == <<is_locked_, place>>
sleepersVars == <<example, vars, mutexVars>>

SleepersInit == example \in {"printing", "locking"} /\ Init /\ Mutex!Init

InPrinting(A) == example = "printing" /\ A /\ UNCHANGED <<example, mutexVars>>
InLocking(A)  == example = "locking" /\ A /\ UNCHANGED <<example, vars>>
SleepersNext == InPrinting(Next) \/ InLocking(Mutex!Next)

\* Threads inside a call run on: the producer and the consumers to their end,
\* and a thread of SimpleMutex until unlock returns.
SleepersSpec ==
    /\ SleepersInit /\ [][SleepersNext]_sleepersVars
    /\ WF_sleepersVars(InPrinting(generate_ints))
    /\ \A c \in Consumers : WF_sleepersVars(InPrinting(print_ints(c)))
    /\ \A t \in Lockers : WF_sleepersVars(InLocking(Mutex!lock(t) \/ Mutex!unlock(t)))
-----------------------------------------------------------------------------
\* ProducerAndConsumer.tla: every thread ends and every integer is printed.
PrintingEnds == example = "printing" => AllEnd

\* SimpleMutex.tla: two threads are never between lock and unlock together.
MutualExclusion == Mutex!MutualExclusion

\* SimpleMutex.tla: while some thread waits for the mutex, one gets it.
SomebodyGetsIn == Mutex!SomebodyGetsIn
=============================================================================
