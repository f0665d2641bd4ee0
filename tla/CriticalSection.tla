-------------------------- MODULE CriticalSection --------------------------
(* Chapter10-Concurrent/CriticalSection.cpp: threads that update integers,   *)
(* each guarded by a mutex.  increment_counter locks one mutex per round,    *)
(* transfer_money both mutexes of two accounts through std::lock.  A job is  *)
(* one critical section: its updates <<cell, amount>>, in program order.     *)
EXTENDS Integers, Sequences, Functions
CONSTANTS
    Threads,     \* the two jthreads of each block
    Program,     \* for each block of CriticalSection(), the jobs of each thread
    Initial,     \* and its cells at first: counter, or the balance_ of each Account
    None
\* A transfer from an account to itself would lock its mutex twice.
Job(cells) == {j \in Seq(cells \X Int) :
                  j # <<>> /\ \A k, l \in DOMAIN j : j[k][1] = j[l][1] => k = l}
SectionAssumption ==
    /\ None \notin Threads
    /\ \A b \in DOMAIN Initial :
           /\ Initial[b] \in [DOMAIN Initial[b] -> Int]
           /\ \A t \in Threads : Program[b][t] \in Seq(Job(DOMAIN Initial[b]))
VARIABLES
    block,           \* the block that runs
    cell, owner,     \* each cell, and who holds its mutex
    job, at,         \* the job a thread is on, and the update in it
    pc, reg          \* its statement, and the value it has loaded
vars == <<block, cell, owner, job, at, pc, reg>>
Cells == DOMAIN Initial[block]

increment_counter(n) == [k \in 1 .. n |-> <<<<"counter", 1>>>>]                   \* 9-17
transfer_money(from, to, amount) == <<<<from, -amount>>, <<to, amount>>>>        \* 40-41

Init ==
    /\ block \in DOMAIN Initial
    /\ cell = Initial[block] /\ owner = [c \in Cells |-> None]
    /\ job = [t \in Threads |-> 1] /\ at = [t \in Threads |-> 1]
    /\ pc = [t \in Threads |-> "lock"] /\ reg = [t \in Threads |-> 0]

Busy(t) == job[t] <= Len(Program[block][t])
Updates(t) == IF Busy(t) THEN Program[block][t][job[t]] ELSE <<>>

\* Mutant: only the account that is debited is locked.
NeededFirst(t) == {Updates(t)[1][1]}
Needed(t) == {Updates(t)[k][1] : k \in DOMAIN Updates(t)}                   \* 14, 34-35

Several(t) == \E k \in DOMAIN Updates(t) : k > 1

Held(t) == {c \in Cells : owner[c] = t}
Free == {c \in Cells : owner[c] = None}
Give(S, t) == [c \in Cells |-> IF c \in S THEN t ELSE owner[c]]
Go(t, from, to) == Busy(t) /\ pc[t] = from /\ pc' = [pc EXCEPT ![t] = to]

\* std::lock waits for one mutex, which the standard leaves open, and tries the
\* others; if one is taken it gives up those it has and starts again.
LockFirst(t) ==                                                         \* 14, 38
    /\ Go(t, "lock", "tryRest")
    /\ \E c \in Needed(t) \cap Free : owner' = Give({c}, t)
    /\ UNCHANGED <<block, cell, job, at, reg>>

\* Mutant: the mutexes are locked one after the other, none is given up.
TryRestStubborn(t) ==
    /\ LET rest == Needed(t) \ Held(t)
       IN  \/ rest \subseteq Free /\ Go(t, "tryRest", "load") /\ owner' = Give(rest, t)
           \/ ~(rest \subseteq Free) /\ Go(t, "tryRest", "tryRest") /\ UNCHANGED owner
    /\ UNCHANGED <<block, cell, job, at, reg>>

TryRest(t) ==                                                           \* 38
    /\ LET rest == Needed(t) \ Held(t)
       IN  \/ rest \subseteq Free /\ Go(t, "tryRest", "load") /\ owner' = Give(rest, t)
           \/ ~(rest \subseteq Free) /\ Go(t, "tryRest", "lock") /\ owner' = Give(Held(t), None)
    /\ UNCHANGED <<block, cell, job, at, reg>>

Load(t) ==                                                              \* 15, 40, 41
    /\ Go(t, "load", "store")
    /\ reg' = [reg EXCEPT ![t] = cell[Updates(t)[at[t]][1]]]
    /\ UNCHANGED <<block, cell, owner, job, at>>

Store(t) ==                                                             \* 15, 40, 41
    /\ Go(t, "store", IF at[t] < Len(Updates(t)) THEN "load" ELSE "unlock")
    /\ cell' = [cell EXCEPT ![Updates(t)[at[t]][1]] = reg[t] + Updates(t)[at[t]][2]]
    /\ at' = [at EXCEPT ![t] = @ + 1]
    /\ UNCHANGED <<block, owner, job, reg>>

\* The destructors of the locks release the mutexes in the reverse order.
Unlock(t) ==                                                            \* 16, 42
    LET held == {k \in DOMAIN Updates(t) : owner[Updates(t)[k][1]] = t}
    IN  \E k \in held :
            /\ \A l \in held : l <= k
            /\ Go(t, "unlock", IF k = 1 THEN "lock" ELSE "unlock")
            /\ owner' = Give({Updates(t)[k][1]}, None)
            /\ job' = [job EXCEPT ![t] = IF k = 1 THEN @ + 1 ELSE @]
            /\ at' = [at EXCEPT ![t] = IF k = 1 THEN 1 ELSE @]
            /\ UNCHANGED <<block, cell, reg>>

step(t) == LockFirst(t) \/ TryRest(t) \/ Load(t) \/ Store(t) \/ Unlock(t)
Finished == \A t \in Threads : ~Busy(t)
Next == \E t \in Threads : step(t)
-----------------------------------------------------------------------------
\* The updates of the block, <<thread, its job, the place in the job>>.
AllUpdates == UNION {UNION {{<<t, n, k>> : k \in DOMAIN Program[block][t][n]} :
                               n \in DOMAIN Program[block][t]} : t \in Threads}
Cell(u) == Program[block][u[1]][u[2]][u[3]][1]
Amount == [u \in AllUpdates |-> Program[block][u[1]][u[2]][u[3]][2]]
Over(u) == \/ u[2] < job[u[1]]
           \/ u[2] = job[u[1]] /\ pc[u[1]] = "unlock" /\ owner[Cell(u)] # u[1]

\* No update is lost: a cell nobody has locked holds its first value and the
\* amounts of all the critical sections that are over, whatever their order.
\* When all threads have been joined these are the asserts of lines 54, 64, 65.
NoLostUpdate ==
    \A c \in Free : cell[c] = Initial[block][c]
        + SumFunctionOnSet(Amount, {u \in AllUpdates : Cell(u) = c /\ Over(u)})
=============================================================================
