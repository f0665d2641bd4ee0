---------------------------- MODULE SimpleMutex ----------------------------
(* SimpleMutex of Chapter10-Concurrent/AdditionalInCpp20.cpp: a mutex made   *)
(* of an atomic_flag and its wait and notify_one.                            *)
CONSTANT Threads
VARIABLES is_locked_, pc
vars == <<is_locked_, pc>>

At(label) == {t \in Threads : pc[t] = label}
Go(t, from, to) == pc[t] = from /\ pc' = [pc EXCEPT ![t] = to]

Init == is_locked_ = FALSE /\ pc = [t \in Threads |-> "outside"]

Lock(t) == Go(t, "outside", "testAndSet") /\ UNCHANGED is_locked_

\* Mutant: the flag is tested and not set.
TestOnly(t) ==
    /\ IF is_locked_ THEN Go(t, "testAndSet", "wait") ELSE Go(t, "testAndSet", "inside")
    /\ UNCHANGED is_locked_

TestAndSet(t) ==                                                        \* 164
    /\ IF is_locked_ THEN Go(t, "testAndSet", "wait") ELSE Go(t, "testAndSet", "inside")
    /\ is_locked_' = TRUE

\* wait( true ) compares and falls asleep in one step.  A sleeper that is woken,
\* by a notification or spuriously, compares again: wait returns only to a
\* thread that saw the flag clear, whatever it was in between (the ABA of 150).
Wait(t) ==                                                              \* 169
    /\ IF is_locked_ THEN Go(t, "wait", "asleep") ELSE Go(t, "wait", "testAndSet")
    /\ UNCHANGED is_locked_

Spurious(t) == Go(t, "asleep", "wait") /\ UNCHANGED is_locked_

\* Mutant: unlock clears the flag and wakes nobody.
ClearOnly(t) == Go(t, "inside", "outside") /\ is_locked_' = FALSE

Clear(t) == Go(t, "inside", "notify") /\ is_locked_' = FALSE            \* 176

NotifyOne(t) ==                                                         \* 177
    /\ \/ At("asleep") = {} /\ Go(t, "notify", "outside")
       \/ \E s \in At("asleep") :
            /\ pc[t] = "notify"
            /\ pc' = [pc EXCEPT ![t] = "outside", ![s] = "wait"]
    /\ UNCHANGED is_locked_

lock(t) == TestAndSet(t) \/ Wait(t)
unlock(t) == Clear(t) \/ NotifyOne(t)

Next == \E t \in Threads : Lock(t) \/ lock(t) \/ unlock(t) \/ Spurious(t)

\* A thread inside a call keeps running, and one inside the critical section
\* unlocks; none has to lock, and nothing wakes a sleeper but a notification.
Spec == Init /\ [][Next]_vars /\ \A t \in Threads : WF_vars(lock(t) \/ unlock(t))
-----------------------------------------------------------------------------
TypeOK ==
    /\ is_locked_ \in BOOLEAN
    /\ pc \in [Threads -> {"outside", "testAndSet", "wait", "asleep", "inside", "notify"}]

\* Two threads are never between lock and unlock together.
MutualExclusion == \A t, u \in At("inside") : t = u

\* No wake-up is lost: while somebody sleeps and the flag is clear, another
\* thread is about to notify, or awake on its way to take the flag and to notify
\* in its turn.
NoLostWakeup ==
    At("asleep") # {} /\ ~is_locked_ =>
        At("notify") \cup At("wait") \cup At("testAndSet") # {}

\* A mutex somebody waits for is taken again and again: the sleepers are never
\* all forgotten.  Which of them gets it is open, so one may starve.
SomebodyGetsIn ==
    At("testAndSet") \cup At("wait") \cup At("asleep") # {} ~> At("inside") # {}
=============================================================================
