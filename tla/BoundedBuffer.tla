--------------------------- MODULE BoundedBuffer ---------------------------
(* BoundedBuffer<T, N> of Chapter10-Concurrent/AdditionalInCpp20.cpp: a ring *)
(* of N slots shared by any number of threads, guarded by two counting       *)
(* semaphores (free and filled slots) and a mutex.  A thread's pc names the  *)
(* statement it is about to run; the source line follows each action.        *)
EXTENDS Naturals, FiniteSets, Sequences
CONSTANTS Threads, Items, N, MayThrow,
          None   \* a slot that holds no item: value-initialised, or moved from
ASSUME BufferAssumption ==
    /\ N \in Nat \ {0} /\ IsFiniteSet(Threads)
    /\ None \notin Items /\ None \notin Threads /\ MayThrow \in BOOLEAN
VARIABLES
    buf_, read_pos_, write_pos_,
    m_,              \* the thread that holds the mutex, or None
    n_empty_slots_, n_full_slots_,
    pc,
    item             \* the value a thread pushes, or has popped
vars == <<buf_, read_pos_, write_pos_, m_, n_empty_slots_, n_full_slots_, pc, item>>
ring == <<buf_, read_pos_, write_pos_>>
semaphores == <<n_empty_slots_, n_full_slots_>>

Pushing == {"pushLock", "store", "advanceWrite", "pushCatch"}
Popping == {"popLock", "take", "advanceRead", "popCatch"}
Critical == {"store", "advanceWrite", "take", "advanceRead"}
At(labels) == {t \in Threads : pc[t] \in labels}

Init ==
    /\ buf_ = [s \in 0 .. N-1 |-> None] /\ read_pos_ = 0 /\ write_pos_ = 0
    /\ m_ = None
    /\ n_empty_slots_ = N /\ n_full_slots_ = 0
    /\ pc = [t \in Threads |-> "idle"]
    /\ item = [t \in Threads |-> None]

Go(t, from, to) == pc[t] = from /\ pc' = [pc EXCEPT ![t] = to]
Carry(t, i) == item' = [item EXCEPT ![t] = i]
Lock(t) == m_ = None /\ m_' = t
Unlock == m_' = None

\* An exception inside the try block: unique_lock's destructor has released
\* the mutex when the handler starts.
Throw(t, from, handler) ==
    /\ MayThrow
    /\ Go(t, from, handler)
    /\ m_' = IF from \in Critical THEN None ELSE m_

CallPush(t, i) == Go(t, "idle", "push") /\ Carry(t, i) /\ UNCHANGED <<ring, m_, semaphores>>

\* Mutant: the push does not wait for a free slot.
PushAcquireNoWait(t) == Go(t, "push", "pushLock") /\ UNCHANGED <<ring, m_, semaphores, item>>

PushAcquire(t) ==                                                       \* 98
    /\ Go(t, "push", "pushLock")
    /\ n_empty_slots_ > 0 /\ n_empty_slots_' = n_empty_slots_ - 1
    /\ UNCHANGED <<ring, m_, n_full_slots_, item>>

PushLock(t) ==                                                          \* 102
    /\ \/ Go(t, "pushLock", "store") /\ Lock(t)
       \/ Throw(t, "pushLock", "pushCatch")
    /\ UNCHANGED <<ring, semaphores, item>>

\* Mutant: the handler swallows the exception of a failed store.
StoreSwallowsFailure(t) ==
    /\ Go(t, "store", "advanceWrite")
    /\ \E i \in {None, item[t]} : buf_' = [buf_ EXCEPT ![write_pos_] = i]
    /\ UNCHANGED <<read_pos_, write_pos_, m_, semaphores, item>>

\* An assignment that throws may leave anything in its target, a free slot.
Store(t) ==                                                             \* 103
    /\ \/ /\ Go(t, "store", "advanceWrite") /\ UNCHANGED m_
          /\ buf_' = [buf_ EXCEPT ![write_pos_] = item[t]]
       \/ /\ Throw(t, "store", "pushCatch")
          /\ \E i \in {None, item[t]} : buf_' = [buf_ EXCEPT ![write_pos_] = i]
    /\ UNCHANGED <<read_pos_, write_pos_, semaphores, item>>

\* Mutant: the position does not wrap.
AdvanceWriteNoWrap(t) ==
    /\ Go(t, "advanceWrite", "pushed") /\ Unlock
    /\ write_pos_' = write_pos_ + 1
    /\ UNCHANGED <<buf_, read_pos_, semaphores, item>>

AdvanceWrite(t) ==                                                      \* 104, 105
    /\ Go(t, "advanceWrite", "pushed") /\ Unlock
    /\ write_pos_' = (write_pos_ + 1) % N
    /\ UNCHANGED <<buf_, read_pos_, semaphores, item>>

ReleaseFull(t) ==                                                       \* 113
    /\ Go(t, "pushed", "idle") /\ Carry(t, None)
    /\ n_full_slots_' = n_full_slots_ + 1
    /\ UNCHANGED <<ring, m_, n_empty_slots_>>

\* Mutant: the handler rethrows without giving the free slot back.
PushCatchNoRelease(t) ==
    Go(t, "pushCatch", "idle") /\ Carry(t, None) /\ UNCHANGED <<ring, m_, semaphores>>

PushCatch(t) ==                                                         \* 108, 109
    /\ Go(t, "pushCatch", "idle") /\ Carry(t, None)
    /\ n_empty_slots_' = n_empty_slots_ + 1
    /\ UNCHANGED <<ring, m_, n_full_slots_>>

CallPop(t) == Go(t, "idle", "pop") /\ UNCHANGED <<ring, m_, semaphores, item>>

PopAcquire(t) ==                                                        \* 127
    /\ Go(t, "pop", "popLock")
    /\ n_full_slots_ > 0 /\ n_full_slots_' = n_full_slots_ - 1
    /\ UNCHANGED <<ring, m_, n_empty_slots_, item>>

\* Mutant: pop does not take the mutex.
PopLockUnlocked(t) == Go(t, "popLock", "take") /\ UNCHANGED <<ring, m_, semaphores, item>>

PopLock(t) ==                                                           \* 132
    /\ \/ Go(t, "popLock", "take") /\ Lock(t)
       \/ Throw(t, "popLock", "popCatch")
    /\ UNCHANGED <<ring, semaphores, item>>

\* A move empties the slot; a throwing one is a copy, and leaves it as it was.
Take(t) ==                                                              \* 133
    /\ \/ /\ Go(t, "take", "advanceRead") /\ UNCHANGED m_
          /\ Carry(t, buf_[read_pos_])
          /\ buf_' = [buf_ EXCEPT ![read_pos_] = None]
       \/ Throw(t, "take", "popCatch") /\ UNCHANGED <<buf_, item>>
    /\ UNCHANGED <<read_pos_, write_pos_, semaphores>>

AdvanceRead(t) ==                                                       \* 134, 135
    /\ Go(t, "advanceRead", "popped") /\ Unlock
    /\ read_pos_' = (read_pos_ + 1) % N
    /\ UNCHANGED <<buf_, write_pos_, semaphores, item>>

ReleaseEmpty(t) ==                                                      \* 143
    /\ Go(t, "popped", "popReturn")
    /\ n_empty_slots_' = n_empty_slots_ + 1
    /\ UNCHANGED <<ring, m_, n_full_slots_, item>>

PopCatch(t) ==                                                          \* 138, 139
    /\ Go(t, "popCatch", "idle")
    /\ n_full_slots_' = n_full_slots_ + 1
    /\ UNCHANGED <<ring, m_, n_empty_slots_, item>>

\* Mutant: the return inside the try block, so that a throw there gives the
\* full slot back too.
PopReturnInTry(t) ==
    /\ Go(t, "popReturn", "idle") \/ Throw(t, "popReturn", "popCatch")
    /\ Carry(t, None) /\ UNCHANGED <<ring, m_, semaphores>>

\* The move into the caller's object may throw too: the slot is free again by
\* then, and no handler gives anything back.
PopReturn(t) ==                                                         \* 144
    /\ Go(t, "popReturn", "idle") \/ Throw(t, "popReturn", "popThrew")
    /\ Carry(t, None) /\ UNCHANGED <<ring, m_, semaphores>>

\* The exception leaves the function, and its local item with the element.
PopUnwind(t) == Go(t, "popThrew", "idle") /\ UNCHANGED <<ring, m_, semaphores, item>>   \* 145

do_push(t) == PushAcquire(t) \/ PushLock(t) \/ Store(t) \/ AdvanceWrite(t)
              \/ ReleaseFull(t) \/ PushCatch(t)
pop(t) == PopAcquire(t) \/ PopLock(t) \/ Take(t) \/ AdvanceRead(t)
          \/ ReleaseEmpty(t) \/ PopCatch(t) \/ PopReturn(t) \/ PopUnwind(t)

Next == \E t \in Threads :
    (\E i \in Items : CallPush(t, i)) \/ do_push(t) \/ CallPop(t) \/ pop(t)

Spec == Init /\ [][Next]_vars
-----------------------------------------------------------------------------
TypeOK ==
    /\ buf_ \in [0 .. N-1 -> Items \cup {None}]
    /\ read_pos_ \in 0 .. N-1 /\ write_pos_ \in 0 .. N-1
    /\ m_ \in Threads \cup {None}
    /\ n_empty_slots_ \in 0 .. N /\ n_full_slots_ \in 0 .. N
    /\ pc \in [Threads -> {"idle", "push", "pushed", "pop", "popped", "popReturn", "popThrew"}
                          \cup Pushing \cup Popping]
    /\ item \in [Threads -> Items \cup {None}]

\* The elements inside: a push counts once it has advanced write_pos_, a pop
\* until it has advanced read_pos_.
Counted == {"pushed"} \cup Popping
Reserved == {"popped"} \cup Pushing
Count == n_full_slots_ + Cardinality(At(Counted))
InWindow(s) == (read_pos_ <= s /\ s < read_pos_ + Count) \/ s < read_pos_ + Count - N

\* Every slot is accounted for, whatever threw where: each is free, filled, or
\* on its way with exactly one thread.  So neither counting_semaphore<N> is ever
\* released above its maximum, which the standard leaves undefined (108-143).
PermitsConserved == n_empty_slots_ + Cardinality(At(Reserved)) + Count = N

\* The store at 103 never hits a slot whose element nobody has popped yet, also
\* when the threads that released the semaphores are not those that hold the
\* mutex now.
NeverOverwrites == \A t \in At({"store"}) : ~InWindow(write_pos_)

\* The pop at 133 never moves from a slot without an element: not from one that
\* was moved from before, nor from one whose store threw half way.
NeverTakesAHole == \A t \in At({"take"}) : buf_[read_pos_] # None /\ Count > 0

\* Pushes and pops get at the ring only where it is their turn, however calls
\* and exceptions interleave: no element is overwritten or taken twice.
SlotsInTurn == NeverOverwrites /\ NeverTakesAHole

\* When every call waits at its semaphore, a push finds a free slot unless the
\* buffer holds N elements, and a pop finds an element unless it holds none:
\* no permit is lost on any path, the throwing ones included.
NoLostPermit ==
    At({"idle", "push", "pop", "popReturn", "popThrew"}) = Threads =>
        n_full_slots_ = Count /\ n_empty_slots_ = N - Count

\* An element a pop carries at its line 134 is still counted, at the head.
Contents ==
    [i \in 1 .. Count |->
        IF i = 1 /\ \E t \in Threads : pc[t] = "advanceRead"
        THEN item[CHOOSE t \in Threads : pc[t] = "advanceRead"]
        ELSE buf_[(read_pos_ + i - 1) % N]]
Progress(t) ==
    [op |-> CASE pc[t] \in {"push", "pushed"} \cup Pushing -> "push"
              [] pc[t] \in {"pop", "popped", "popReturn", "popThrew"} \cup Popping -> "pop"
              [] OTHER -> "none",
     item |-> IF pc[t] \in {"pushCatch", "advanceRead"} THEN None ELSE item[t],
     result |-> CASE pc[t] \in {"pushed", "popped", "popReturn"} -> "ok"
                  [] pc[t] \in {"pushCatch", "popCatch", "popThrew"} -> "threw"
                  [] OTHER -> "none"]

\* The buffer is a bounded FIFO queue: each call takes effect at once when it
\* advances its position, or throws and leaves the elements as they were.  Only
\* a pop whose last move throws (144) has taken out an element it does not give.
Fifo == INSTANCE BoundedFifo WITH
    fifo <- Contents, call <- [t \in Threads |-> Progress(t)], Blocking <- TRUE
ImplementsFifo == Fifo!Spec
=============================================================================
