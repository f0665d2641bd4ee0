------------------------ MODULE BoundedBufferProofs ------------------------
(* BoundedBuffer is safe for every number of threads, every capacity N and   *)
(* every set of items, whether or not moving an item throws.                 *)
EXTENDS BoundedBufferDriver, FiniteSetTheorems, SequenceTheorems, TLAPS

Labels == {"idle", "push", "pushed", "pop", "popped", "popReturn", "popThrew"}
              \cup Pushing \cup Popping

(* The mutex is held by exactly the thread that is between its lock and its  *)
(* unlock.                                                                   *)
LockHeld == \A t \in Threads : m_ = t <=> pc[t] \in Critical

(* The two positions are the ends of the window of filled slots.             *)
Ends == write_pos_ = read_pos_ + Count \/ write_pos_ = read_pos_ + Count - N

(* A slot of the window holds an item, the one a pop has just emptied        *)
(* excepted; so does the slot a push is about to put in the window.          *)
Filled ==
    /\ \A s \in 0 .. N-1 :
        InWindow(s) /\ (s = read_pos_ => At({"advanceRead"}) = {}) => buf_[s] # None
    /\ At({"advanceWrite"}) # {} => buf_[write_pos_] # None
    /\ \A t \in At(Pushing \cup {"push"}) : item[t] # None

IInv == TypeOK /\ LockHeld /\ PermitsConserved /\ Ends /\ Filled

-----------------------------------------------------------------------------
(* Threads at a set of labels are finitely many, and one that moves from a   *)
(* label to another changes their number by at most itself.                  *)
LEMMA AtFinite ==
    ASSUME NEW L
    PROVE  IsFiniteSet(At(L)) /\ Cardinality(At(L)) \in Nat
<1>1. At(L) \subseteq Threads
  BY DEF At
<1>2. IsFiniteSet(At(L))
  BY <1>1, BufferAssumption, FS_Subset
<1> QED
  BY <1>2, FS_CardinalityType

\* If a thread is at one of the statements L, it is counted.
LEMMA Present ==
    ASSUME NEW L, NEW t \in Threads, pc[t] \in L
    PROVE  Cardinality(At(L)) > 0
<1>1. At(L) # {}
  BY DEF At
<1> QED
  BY <1>1, AtFinite, FS_EmptySet

\* A thread that moves into L, or out of it, changes that count by one.
LEMMA Moves ==
    ASSUME NEW L, NEW t \in Threads, NEW from, NEW to, pc \in [Threads -> Labels], Go(t, from, to)
    PROVE  /\ from \in L /\ to \notin L => Cardinality(At(L)') = Cardinality(At(L)) - 1
           /\ from \notin L /\ to \in L => Cardinality(At(L)') = Cardinality(At(L)) + 1
           /\ (from \in L <=> to \in L) => At(L)' = At(L)
<1>1. /\ from \in L /\ to \notin L => At(L)' = At(L) \ {t} /\ t \in At(L)
      /\ from \notin L /\ to \in L => At(L)' = At(L) \cup {t} /\ t \notin At(L)
      /\ (from \in L <=> to \in L) => At(L)' = At(L)
  BY DEF Go, At
<1>2. CASE from \in L /\ to \notin L
  BY <1>1, <1>2, AtFinite, FS_RemoveElement
<1>3. CASE from \notin L /\ to \in L
  BY <1>1, <1>3, AtFinite, FS_AddElement
<1> QED
  BY <1>1, <1>2, <1>3

\* The position after p, as do_push and pop compute it: p + 1, or 0 after the
\* last.
LEMMA Successor ==
    ASSUME NEW p \in 0 .. N-1
    PROVE  (p + 1) % N = IF p = N-1 THEN 0 ELSE p + 1
<1>1. CASE p = N-1
  BY <1>1, BufferAssumption
<1>2. CASE p + 1 < N
  BY <1>2, BufferAssumption
<1> QED
  BY <1>1, <1>2, BufferAssumption

(* What a step from one label to another does to the two numbers of threads  *)
(* the invariant counts.                                                     *)
LEMMA Counts ==
    ASSUME NEW t \in Threads, NEW from, NEW to, pc \in [Threads -> Labels], Go(t, from, to)
    PROVE  LET d(L) == (IF to \in L THEN 1 ELSE 0) - (IF from \in L THEN 1 ELSE 0)
           IN  /\ Cardinality(At(Reserved)) \in Nat /\ Cardinality(At(Reserved)') \in Nat
               /\ Cardinality(At(Counted)) \in Nat /\ Cardinality(At(Counted)') \in Nat
               /\ Cardinality(At(Reserved)') = Cardinality(At(Reserved)) + d(Reserved)
               /\ Cardinality(At(Counted)') = Cardinality(At(Counted)) + d(Counted)
<1> DEFINE d(L) == (IF to \in L THEN 1 ELSE 0) - (IF from \in L THEN 1 ELSE 0)
<1>1. ASSUME NEW L PROVE Cardinality(At(L)') = Cardinality(At(L)) + d(L)
  <2>1. Cardinality(At(L)) \in Nat
    BY AtFinite
  <2> QED
    BY <2>1, Moves
<1>2. ASSUME NEW L PROVE Cardinality(At(L)) \in Nat /\ Cardinality(At(L)') \in Nat
  <2>1. At(L)' \subseteq Threads
    BY DEF At
  <2>2. IsFiniteSet(At(L)')
    BY <2>1, BufferAssumption, FS_Subset
  <2> QED
    BY <2>2, AtFinite, FS_CardinalityType
<1> HIDE DEF d
<1>3. /\ Cardinality(At(Reserved)') = Cardinality(At(Reserved)) + d(Reserved)
      /\ Cardinality(At(Counted)') = Cardinality(At(Counted)) + d(Counted)
  BY <1>1
<1> QED
  BY <1>2, <1>3 DEF d

-----------------------------------------------------------------------------
(* A step that leaves the ring and the number of elements alone, and is not  *)
(* one of a thread about to advance a position, keeps the invariant if it    *)
(* keeps the parts on types, mutex and permits.                              *)
LEMMA QuietStep ==
    ASSUME NEW t \in Threads, NEW from, NEW to, Go(t, from, to), IInv,
           {from, to} \cap {"advanceRead", "advanceWrite"} = {},
           UNCHANGED ring, Count' = Count,
           TypeOK', LockHeld', PermitsConserved',
           to \in Pushing \cup {"push"} => item'[t] # None,
           \A u \in Threads \ {t} : item'[u] = item[u]
    PROVE  IInv'
<1>1. pc \in [Threads -> Labels]
  BY DEF IInv, TypeOK, Labels
<1>2. At({"advanceRead"})' = At({"advanceRead"}) /\ At({"advanceWrite"})' = At({"advanceWrite"})
  BY <1>1, Moves
<1>3. \A u \in At(Pushing \cup {"push"})' : item'[u] # None
  BY <1>1 DEF IInv, Filled, At, Go
<1> QED
  BY <1>2, <1>3 DEF IInv, Ends, Filled, ring, InWindow

\* The invariant holds of a new buffer.
THEOREM Initially == Init => IInv
<1> SUFFICES ASSUME Init PROVE IInv
  OBVIOUS
<1>1. \A L : "idle" \notin L => At(L) = {}
  BY DEF Init, At
<1>2. At(Reserved) = {} /\ At(Counted) = {} /\ At(Pushing \cup {"push"}) = {}
      /\ At({"advanceWrite"}) = {}
  BY <1>1 DEF Reserved, Counted, Pushing, Popping
<1>3. Cardinality(At(Reserved)) = 0 /\ Count = 0
  BY <1>2, FS_EmptySet DEF Count, Init
<1>4. TypeOK
  BY BufferAssumption DEF Init, TypeOK
<1>5. LockHeld
  BY BufferAssumption DEF Init, LockHeld, Critical
<1>6. PermitsConserved /\ Ends
  BY <1>3, BufferAssumption DEF Init, PermitsConserved, Ends
<1>7. \A s \in 0 .. N-1 : ~InWindow(s)
  BY <1>3, BufferAssumption DEF InWindow, Init
<1>8. Filled
  BY <1>2, <1>7 DEF Filled
<1> QED
  BY <1>4, <1>5, <1>6, <1>8 DEF IInv

\* Every statement of do_push and pop keeps the invariant.
THEOREM Inductive == IInv /\ [Next]_vars => IInv'
<1> SUFFICES ASSUME IInv, [Next]_vars PROVE IInv'
  OBVIOUS
<1> USE BufferAssumption DEF Pushing, Popping, Critical, Reserved, Counted, semaphores
<1>1. pc \in [Threads -> Labels]
  BY DEF IInv, TypeOK, Labels
<1>2. ASSUME NEW t \in Threads, NEW v \in Items, CallPush(t, v) PROVE IInv'
  <2>1. Go(t, "idle", "push")
    BY <1>2 DEF CallPush
  <2>2. /\ Cardinality(At(Reserved)) \in Nat /\ Cardinality(At(Reserved)') \in Nat
        /\ Cardinality(At(Counted)) \in Nat /\ Cardinality(At(Counted)') \in Nat
        /\ Cardinality(At(Reserved)') = Cardinality(At(Reserved))
        /\ Cardinality(At(Counted)') = Cardinality(At(Counted))
    BY <1>1, <2>1, Counts
  <2>3. PermitsConserved' /\ Count' = Count
    BY <1>2, <2>2 DEF IInv, TypeOK, PermitsConserved, Count, CallPush
  <2>4. TypeOK'
    BY <1>2, <2>1, <2>2, <2>3 DEF IInv, TypeOK, PermitsConserved, Count, Go, Carry, ring, CallPush
  <2>5. LockHeld'
    BY <1>2, <2>1 DEF IInv, TypeOK, LockHeld, Go, CallPush
  <2>6. UNCHANGED ring /\ (\A u \in Threads \ {t} : item'[u] = item[u]) /\ item'[t] # None
    BY <1>2, <2>1 DEF IInv, TypeOK, Filled, At, Carry, Go, CallPush
  <2> QED
    BY <2>1, <2>3, <2>4, <2>5, <2>6, QuietStep
<1>3. ASSUME NEW t \in Threads, PushAcquire(t) PROVE IInv'
  <2>1. Go(t, "push", "pushLock")
    BY <1>3 DEF PushAcquire
  <2>2. /\ Cardinality(At(Reserved)) \in Nat /\ Cardinality(At(Reserved)') \in Nat
        /\ Cardinality(At(Counted)) \in Nat /\ Cardinality(At(Counted)') \in Nat
        /\ Cardinality(At(Reserved)') = Cardinality(At(Reserved)) + 1
        /\ Cardinality(At(Counted)') = Cardinality(At(Counted))
    BY <1>1, <2>1, Counts
  <2>3. PermitsConserved' /\ Count' = Count
    BY <1>3, <2>2 DEF IInv, TypeOK, PermitsConserved, Count, PushAcquire
  <2>4. TypeOK'
    BY <1>3, <2>1, <2>2, <2>3 DEF IInv, TypeOK, PermitsConserved, Count, Go, Carry, ring, PushAcquire
  <2>5. LockHeld'
    BY <1>3, <2>1 DEF IInv, TypeOK, LockHeld, Go, PushAcquire
  <2>6. UNCHANGED ring /\ (\A u \in Threads \ {t} : item'[u] = item[u]) /\ item'[t] # None
    BY <1>3, <2>1 DEF IInv, TypeOK, Filled, At, Carry, Go, PushAcquire
  <2> QED
    BY <2>1, <2>3, <2>4, <2>5, <2>6, QuietStep
<1>4. ASSUME NEW t \in Threads, ReleaseFull(t) PROVE IInv'
  <2>1. Go(t, "pushed", "idle")
    BY <1>4 DEF ReleaseFull
  <2>2. /\ Cardinality(At(Reserved)) \in Nat /\ Cardinality(At(Reserved)') \in Nat
        /\ Cardinality(At(Counted)) \in Nat /\ Cardinality(At(Counted)') \in Nat
        /\ Cardinality(At(Reserved)') = Cardinality(At(Reserved))
        /\ Cardinality(At(Counted)') = Cardinality(At(Counted)) - 1
    BY <1>1, <2>1, Counts
  <2>3. PermitsConserved' /\ Count' = Count
    BY <1>4, <2>2 DEF IInv, TypeOK, PermitsConserved, Count, ReleaseFull
  <2>4. TypeOK'
    BY <1>4, <2>1, <2>2, <2>3 DEF IInv, TypeOK, PermitsConserved, Count, Go, Carry, ring, ReleaseFull
  <2>5. LockHeld'
    BY <1>4, <2>1 DEF IInv, TypeOK, LockHeld, Go, ReleaseFull
  <2>6. UNCHANGED ring /\ (\A u \in Threads \ {t} : item'[u] = item[u])
    BY <1>4, <2>1 DEF IInv, TypeOK, Filled, At, Carry, Go, ReleaseFull
  <2> QED
    BY <2>1, <2>3, <2>4, <2>5, <2>6, QuietStep
<1>5. ASSUME NEW t \in Threads, PushCatch(t) PROVE IInv'
  <2>1. Go(t, "pushCatch", "idle")
    BY <1>5 DEF PushCatch
  <2>2. /\ Cardinality(At(Reserved)) \in Nat /\ Cardinality(At(Reserved)') \in Nat
        /\ Cardinality(At(Counted)) \in Nat /\ Cardinality(At(Counted)') \in Nat
        /\ Cardinality(At(Reserved)') = Cardinality(At(Reserved)) - 1
        /\ Cardinality(At(Counted)') = Cardinality(At(Counted))
    BY <1>1, <2>1, Counts
  <2>3. PermitsConserved' /\ Count' = Count
    BY <1>5, <2>2 DEF IInv, TypeOK, PermitsConserved, Count, PushCatch
  <2>4. TypeOK'
    BY <1>5, <2>1, <2>2, <2>3 DEF IInv, TypeOK, PermitsConserved, Count, Go, Carry, ring, PushCatch
  <2>5. LockHeld'
    BY <1>5, <2>1 DEF IInv, TypeOK, LockHeld, Go, PushCatch
  <2>6. UNCHANGED ring /\ (\A u \in Threads \ {t} : item'[u] = item[u])
    BY <1>5, <2>1 DEF IInv, TypeOK, Filled, At, Carry, Go, PushCatch
  <2> QED
    BY <2>1, <2>3, <2>4, <2>5, <2>6, QuietStep
<1>6. ASSUME NEW t \in Threads, CallPop(t) PROVE IInv'
  <2>1. Go(t, "idle", "pop")
    BY <1>6 DEF CallPop
  <2>2. /\ Cardinality(At(Reserved)) \in Nat /\ Cardinality(At(Reserved)') \in Nat
        /\ Cardinality(At(Counted)) \in Nat /\ Cardinality(At(Counted)') \in Nat
        /\ Cardinality(At(Reserved)') = Cardinality(At(Reserved))
        /\ Cardinality(At(Counted)') = Cardinality(At(Counted))
    BY <1>1, <2>1, Counts
  <2>3. PermitsConserved' /\ Count' = Count
    BY <1>6, <2>2 DEF IInv, TypeOK, PermitsConserved, Count, CallPop
  <2>4. TypeOK'
    BY <1>6, <2>1, <2>2, <2>3 DEF IInv, TypeOK, PermitsConserved, Count, Go, Carry, ring, CallPop
  <2>5. LockHeld'
    BY <1>6, <2>1 DEF IInv, TypeOK, LockHeld, Go, CallPop
  <2>6. UNCHANGED ring /\ (\A u \in Threads \ {t} : item'[u] = item[u])
    BY <1>6, <2>1 DEF IInv, TypeOK, Filled, At, Carry, Go, CallPop
  <2> QED
    BY <2>1, <2>3, <2>4, <2>5, <2>6, QuietStep
<1>7. ASSUME NEW t \in Threads, PopAcquire(t) PROVE IInv'
  <2>1. Go(t, "pop", "popLock")
    BY <1>7 DEF PopAcquire
  <2>2. /\ Cardinality(At(Reserved)) \in Nat /\ Cardinality(At(Reserved)') \in Nat
        /\ Cardinality(At(Counted)) \in Nat /\ Cardinality(At(Counted)') \in Nat
        /\ Cardinality(At(Reserved)') = Cardinality(At(Reserved))
        /\ Cardinality(At(Counted)') = Cardinality(At(Counted)) + 1
    BY <1>1, <2>1, Counts
  <2>3. PermitsConserved' /\ Count' = Count
    <3>1. /\ n_full_slots_ \in Nat /\ n_full_slots_ > 0 /\ n_full_slots_' = n_full_slots_ - 1
          /\ n_empty_slots_' = n_empty_slots_ /\ n_empty_slots_ \in Nat
      BY <1>7 DEF IInv, TypeOK, PopAcquire
    <3> QED
      BY <2>2, <3>1 DEF IInv, PermitsConserved, Count
  <2>4. TypeOK'
    BY <1>7, <2>1, <2>2, <2>3 DEF IInv, TypeOK, PermitsConserved, Count, Go, Carry, ring, PopAcquire
  <2>5. LockHeld'
    BY <1>7, <2>1 DEF IInv, TypeOK, LockHeld, Go, PopAcquire
  <2>6. UNCHANGED ring /\ (\A u \in Threads \ {t} : item'[u] = item[u])
    BY <1>7, <2>1 DEF IInv, TypeOK, Filled, At, Carry, Go, PopAcquire
  <2> QED
    BY <2>1, <2>3, <2>4, <2>5, <2>6, QuietStep
<1>8. ASSUME NEW t \in Threads, ReleaseEmpty(t) PROVE IInv'
  <2>1. Go(t, "popped", "popReturn")
    BY <1>8 DEF ReleaseEmpty
  <2>2. /\ Cardinality(At(Reserved)) \in Nat /\ Cardinality(At(Reserved)') \in Nat
        /\ Cardinality(At(Counted)) \in Nat /\ Cardinality(At(Counted)') \in Nat
        /\ Cardinality(At(Reserved)') = Cardinality(At(Reserved)) - 1
        /\ Cardinality(At(Counted)') = Cardinality(At(Counted))
    BY <1>1, <2>1, Counts
  <2>3. PermitsConserved' /\ Count' = Count
    BY <1>8, <2>2 DEF IInv, TypeOK, PermitsConserved, Count, ReleaseEmpty
  <2>4. TypeOK'
    BY <1>8, <2>1, <2>2, <2>3 DEF IInv, TypeOK, PermitsConserved, Count, Go, Carry, ring, ReleaseEmpty
  <2>5. LockHeld'
    BY <1>8, <2>1 DEF IInv, TypeOK, LockHeld, Go, ReleaseEmpty
  <2>6. UNCHANGED ring /\ (\A u \in Threads \ {t} : item'[u] = item[u])
    BY <1>8, <2>1 DEF IInv, TypeOK, Filled, At, Carry, Go, ReleaseEmpty
  <2> QED
    BY <2>1, <2>3, <2>4, <2>5, <2>6, QuietStep
<1>9. ASSUME NEW t \in Threads, PopCatch(t) PROVE IInv'
  <2>1. Go(t, "popCatch", "idle")
    BY <1>9 DEF PopCatch
  <2>2. /\ Cardinality(At(Reserved)) \in Nat /\ Cardinality(At(Reserved)') \in Nat
        /\ Cardinality(At(Counted)) \in Nat /\ Cardinality(At(Counted)') \in Nat
        /\ Cardinality(At(Reserved)') = Cardinality(At(Reserved))
        /\ Cardinality(At(Counted)') = Cardinality(At(Counted)) - 1
    BY <1>1, <2>1, Counts
  <2>3. PermitsConserved' /\ Count' = Count
    BY <1>9, <2>2 DEF IInv, TypeOK, PermitsConserved, Count, PopCatch
  <2>4. TypeOK'
    BY <1>9, <2>1, <2>2, <2>3 DEF IInv, TypeOK, PermitsConserved, Count, Go, Carry, ring, PopCatch
  <2>5. LockHeld'
    BY <1>9, <2>1 DEF IInv, TypeOK, LockHeld, Go, PopCatch
  <2>6. UNCHANGED ring /\ (\A u \in Threads \ {t} : item'[u] = item[u])
    BY <1>9, <2>1 DEF IInv, TypeOK, Filled, At, Carry, Go, PopCatch
  <2> QED
    BY <2>1, <2>3, <2>4, <2>5, <2>6, QuietStep
<1>10. ASSUME NEW t \in Threads, PopReturn(t) PROVE IInv'
  <2>1. PICK to \in {"idle", "popThrew"} : Go(t, "popReturn", to)
    BY <1>10 DEF PopReturn, Throw
  <2>2. /\ Cardinality(At(Reserved)) \in Nat /\ Cardinality(At(Reserved)') \in Nat
        /\ Cardinality(At(Counted)) \in Nat /\ Cardinality(At(Counted)') \in Nat
        /\ Cardinality(At(Reserved)') = Cardinality(At(Reserved))
        /\ Cardinality(At(Counted)') = Cardinality(At(Counted))
    BY <1>1, <2>1, Counts
  <2>3. PermitsConserved' /\ Count' = Count
    BY <1>10, <2>2 DEF IInv, TypeOK, PermitsConserved, Count, PopReturn
  <2>4. TypeOK'
    BY <1>10, <2>1, <2>2, <2>3
    DEF IInv, TypeOK, PermitsConserved, Count, Go, Carry, Throw, Critical, ring, PopReturn
  <2>5. LockHeld'
    BY <1>10, <2>1 DEF IInv, TypeOK, LockHeld, Go, Throw, Critical, PopReturn
  <2>6. UNCHANGED ring /\ (\A u \in Threads \ {t} : item'[u] = item[u])
    BY <1>10, <2>1 DEF IInv, TypeOK, Filled, At, Carry, Go, PopReturn
  <2> QED
    BY <2>1, <2>3, <2>4, <2>5, <2>6, QuietStep
<1>11. ASSUME NEW t \in Threads, PushLock(t) PROVE IInv'
  <2>1. PICK to \in {"store", "pushCatch"} : Go(t, "pushLock", to)
    BY <1>11 DEF PushLock, Throw
  <2>2. Cardinality(At(Reserved)') = Cardinality(At(Reserved)) /\ At(Counted)' = At(Counted)
    BY <1>1, <2>1, Counts, Moves
  <2>3. PermitsConserved' /\ Count' = Count
    BY <1>11, <2>2 DEF IInv, PermitsConserved, Count, PushLock
  <2>4. TypeOK' /\ LockHeld'
    BY <1>11 DEF IInv, TypeOK, LockHeld, Go, Lock, Throw, ring, PushLock
  <2>5. UNCHANGED ring /\ (\A u \in Threads \ {t} : item'[u] = item[u]) /\ item'[t] # None
    BY <1>11, <2>1 DEF IInv, Filled, At, Go, PushLock
  <2> QED
    BY <2>1, <2>3, <2>4, <2>5, QuietStep
<1>12. ASSUME NEW t \in Threads, PopLock(t) PROVE IInv'
  <2>1. PICK to \in {"take", "popCatch"} : Go(t, "popLock", to)
    BY <1>12 DEF PopLock, Throw
  <2>2. Cardinality(At(Counted)') = Cardinality(At(Counted)) /\ At(Reserved)' = At(Reserved)
    BY <1>1, <2>1, Counts, Moves
  <2>3. PermitsConserved' /\ Count' = Count
    BY <1>12, <2>2 DEF IInv, PermitsConserved, Count, PopLock
  <2>4. TypeOK' /\ LockHeld'
    BY <1>12 DEF IInv, TypeOK, LockHeld, Go, Lock, Throw, ring, PopLock
  <2>5. UNCHANGED ring /\ (\A u \in Threads \ {t} : item'[u] = item[u])
    BY <1>12 DEF PopLock
  <2> QED
    BY <2>1, <2>3, <2>4, <2>5, QuietStep
<1>13. ASSUME NEW t \in Threads, Store(t) PROVE IInv'
  <2>1. PICK to \in {"advanceWrite", "pushCatch"} : Go(t, "store", to)
    BY <1>13 DEF Store, Throw
  <2>2. /\ Cardinality(At(Reserved)') = Cardinality(At(Reserved)) /\ At(Counted)' = At(Counted)
        /\ At({"advanceRead"})' = At({"advanceRead"})
    BY <1>1, <2>1, Counts, Moves
  <2>3. PermitsConserved' /\ Count' = Count
    BY <1>13, <2>2 DEF IInv, PermitsConserved, Count, Store
  <2>4. TypeOK' /\ LockHeld' /\ item[t] # None
    BY <1>13 DEF IInv, TypeOK, LockHeld, Filled, At, Go, Lock, Throw, ring, Store
  <2>5. Count \in Nat /\ Count < N
    <3>1. Cardinality(At(Reserved)) > 0
      BY <2>1, Present DEF Go
    <3> QED
      BY <3>1, AtFinite DEF IInv, TypeOK, PermitsConserved, Count
  <2>6. ~InWindow(write_pos_)
    BY <2>5 DEF IInv, TypeOK, Ends, InWindow
  <2>7. Ends' /\ \A s : InWindow(s)' <=> InWindow(s)
    BY <1>13, <2>3 DEF IInv, Ends, InWindow, Store
  <2>8. \A s \in 0 .. N-1 :
            InWindow(s)' /\ (s = read_pos_' => At({"advanceRead"})' = {}) => buf_'[s] # None
    BY <1>13, <2>2, <2>6, <2>7 DEF IInv, TypeOK, Filled, Store
  <2>9. At({"advanceWrite"})' # {} => buf_'[write_pos_'] # None
    <3>1. CASE to = "advanceWrite"
      BY <1>13, <2>1, <2>4, <3>1 DEF IInv, TypeOK, Go, Throw, Store
    <3>2. CASE to = "pushCatch"
      <4>1. At({"advanceWrite"})' = {}
        BY <2>1, <3>2 DEF IInv, TypeOK, LockHeld, At, Go
      <4> QED
        BY <4>1
    <3> QED
      BY <3>1, <3>2
  <2>10. \A u \in At(Pushing \cup {"push"})' : item'[u] # None
    BY <1>13, <2>1, <2>4 DEF IInv, TypeOK, Filled, At, Go, Store
  <2> QED
    BY <2>3, <2>4, <2>7, <2>8, <2>9, <2>10 DEF IInv, Filled
<1>14. ASSUME NEW t \in Threads, AdvanceWrite(t) PROVE IInv'
  <2>1. Go(t, "advanceWrite", "pushed") /\ write_pos_' = IF write_pos_ = N-1 THEN 0 ELSE write_pos_ + 1
    BY <1>14, Successor DEF AdvanceWrite, IInv, TypeOK
  <2>2. /\ Cardinality(At(Reserved)) \in Nat /\ Cardinality(At(Reserved)') \in Nat
        /\ Cardinality(At(Counted)) \in Nat /\ Cardinality(At(Counted)') \in Nat
        /\ Cardinality(At(Reserved)') = Cardinality(At(Reserved)) - 1
        /\ Cardinality(At(Counted)') = Cardinality(At(Counted)) + 1
        /\ At({"advanceRead"})' = At({"advanceRead"})
    BY <1>1, <2>1, Counts, Moves
  <2>3. /\ PermitsConserved' /\ Count' = Count + 1
        /\ Count \in 0 .. N-1
    <3>1. n_empty_slots_ \in Nat /\ n_full_slots_ \in Nat
      BY DEF IInv, TypeOK
    <3>2. n_empty_slots_' = n_empty_slots_ /\ n_full_slots_' = n_full_slots_
      BY <1>14 DEF AdvanceWrite
    <3> QED
      BY <2>2, <3>1, <3>2 DEF IInv, PermitsConserved, Count
  <2>4. TypeOK' /\ LockHeld'
    BY <1>14, <2>1 DEF IInv, TypeOK, LockHeld, Go, Unlock, AdvanceWrite
  <2>5. Ends'
    BY <1>14, <2>1, <2>3 DEF IInv, TypeOK, Ends, AdvanceWrite
  <2>6. \A s \in 0 .. N-1 : InWindow(s)' => InWindow(s) \/ s = write_pos_
    BY <1>14, <2>3 DEF IInv, TypeOK, Ends, InWindow, AdvanceWrite
  <2>7. buf_[write_pos_] # None
    BY <2>1 DEF IInv, Filled, At, Go
  <2>8. \A s \in 0 .. N-1 :
            InWindow(s)' /\ (s = read_pos_' => At({"advanceRead"})' = {}) => buf_'[s] # None
    BY <1>14, <2>2, <2>6, <2>7 DEF IInv, Filled, AdvanceWrite
  <2>9. At({"advanceWrite"})' = {}
    BY <2>1 DEF IInv, TypeOK, LockHeld, At, Go
  <2>10. \A u \in At(Pushing \cup {"push"})' : item'[u] # None
    BY <1>14, <2>1 DEF IInv, TypeOK, Filled, At, Go, AdvanceWrite
  <2> QED
    BY <2>3, <2>4, <2>5, <2>8, <2>9, <2>10 DEF IInv, Filled
<1>15. ASSUME NEW t \in Threads, Take(t) PROVE IInv'
  <2>1. PICK to \in {"advanceRead", "popCatch"} : Go(t, "take", to)
    BY <1>15 DEF Take, Throw
  <2>2. /\ Cardinality(At(Counted)') = Cardinality(At(Counted)) /\ At(Reserved)' = At(Reserved)
        /\ At({"advanceWrite"})' = At({"advanceWrite"})
    BY <1>1, <2>1, Counts, Moves
  <2>3. PermitsConserved' /\ Count' = Count
    BY <1>15, <2>2 DEF IInv, PermitsConserved, Count, Take
  <2>4. TypeOK' /\ LockHeld'
    BY <1>15 DEF IInv, TypeOK, LockHeld, Go, Lock, Carry, Throw, ring, Take
  <2>5. Ends' /\ \A s : InWindow(s)' <=> InWindow(s)
    BY <1>15, <2>3 DEF IInv, Ends, InWindow, Take
  <2>6. At({"advanceRead"}) = {} /\ At({"advanceWrite"}) = {}
    BY <2>1 DEF IInv, TypeOK, LockHeld, At, Go
  <2>7. \A s \in 0 .. N-1 :
            InWindow(s)' /\ (s = read_pos_' => At({"advanceRead"})' = {}) => buf_'[s] # None
    <3>1. CASE to = "advanceRead"
      <4>1. t \in At({"advanceRead"})'
        BY <1>1, <2>1, <3>1 DEF At, Go
      <4> QED
        BY <1>15, <2>1, <2>5, <2>6, <3>1, <4>1 DEF IInv, TypeOK, Filled, Go, Throw, Take
    <3>2. CASE to = "popCatch"
      BY <1>15, <1>1, <2>1, <2>5, <2>6, <3>2 DEF IInv, Filled, Go, Throw, Take
    <3> QED
      BY <3>1, <3>2
  <2>8. \A u \in At(Pushing \cup {"push"})' : item'[u] # None
    BY <1>15, <2>1 DEF IInv, TypeOK, Filled, At, Go, Carry, Take
  <2> QED
    BY <2>2, <2>3, <2>4, <2>5, <2>6, <2>7, <2>8 DEF IInv, Filled
<1>16. ASSUME NEW t \in Threads, AdvanceRead(t) PROVE IInv'
  <2>1. Go(t, "advanceRead", "popped") /\ read_pos_' = IF read_pos_ = N-1 THEN 0 ELSE read_pos_ + 1
    BY <1>16, Successor DEF AdvanceRead, IInv, TypeOK
  <2>2. /\ Cardinality(At(Reserved)) \in Nat /\ Cardinality(At(Reserved)') \in Nat
        /\ Cardinality(At(Counted)) \in Nat /\ Cardinality(At(Counted)') \in Nat
        /\ Cardinality(At(Reserved)') = Cardinality(At(Reserved)) + 1
        /\ Cardinality(At(Counted)') = Cardinality(At(Counted)) - 1
        /\ At({"advanceWrite"})' = At({"advanceWrite"})
    BY <1>1, <2>1, Counts, Moves
  <2>3. /\ PermitsConserved' /\ Count' = Count - 1
        /\ Count \in 1 .. N
    <3>1. n_empty_slots_ \in Nat /\ n_full_slots_ \in Nat
      BY DEF IInv, TypeOK
    <3>2. n_empty_slots_' = n_empty_slots_ /\ n_full_slots_' = n_full_slots_
      BY <1>16 DEF AdvanceRead
    <3> QED
      BY <2>2, <3>1, <3>2 DEF IInv, PermitsConserved, Count
  <2>4. TypeOK' /\ LockHeld'
    BY <1>16, <2>1 DEF IInv, TypeOK, LockHeld, Go, Unlock, AdvanceRead
  <2>5. Ends'
    <3>1. /\ read_pos_ \in 0 .. N-1 /\ write_pos_ \in 0 .. N-1 /\ write_pos_' = write_pos_ /\ Ends
          /\ N \in Nat \ {0}
      BY <1>16 DEF IInv, TypeOK, AdvanceRead
    <3>2. CASE read_pos_ = N-1
      BY <2>1, <2>3, <3>1, <3>2 DEF Ends
    <3>3. CASE read_pos_ # N-1
      BY <2>1, <2>3, <3>1, <3>3 DEF Ends
    <3> QED
      BY <3>2, <3>3
  <2>6. \A s \in 0 .. N-1 : InWindow(s)' => InWindow(s) /\ s # read_pos_
    BY <1>16, <2>1, <2>3 DEF IInv, TypeOK, InWindow
  <2>7. \A s \in 0 .. N-1 : InWindow(s)' => buf_'[s] # None
    BY <1>16, <2>6 DEF IInv, Filled, AdvanceRead
  <2>8. At({"advanceWrite"})' = {}
    BY <2>1, <2>2 DEF IInv, TypeOK, LockHeld, At, Go
  <2>9. \A u \in At(Pushing \cup {"push"})' : item'[u] # None
    BY <1>16, <2>1 DEF IInv, TypeOK, Filled, At, Go, AdvanceRead
  <2> QED
    BY <2>3, <2>4, <2>5, <2>7, <2>8, <2>9 DEF IInv, Filled
<1>17. ASSUME NEW t \in Threads, PopUnwind(t) PROVE IInv'
  <2>1. Go(t, "popThrew", "idle")
    BY <1>17 DEF PopUnwind
  <2>2. /\ Cardinality(At(Reserved)) \in Nat /\ Cardinality(At(Reserved)') \in Nat
        /\ Cardinality(At(Counted)) \in Nat /\ Cardinality(At(Counted)') \in Nat
        /\ Cardinality(At(Reserved)') = Cardinality(At(Reserved))
        /\ Cardinality(At(Counted)') = Cardinality(At(Counted))
    BY <1>1, <2>1, Counts
  <2>3. PermitsConserved' /\ Count' = Count
    BY <1>17, <2>2 DEF IInv, TypeOK, PermitsConserved, Count, PopUnwind
  <2>4. TypeOK'
    BY <1>17, <2>1, <2>2, <2>3 DEF IInv, TypeOK, PermitsConserved, Count, Go, ring, PopUnwind
  <2>5. LockHeld'
    BY <1>17, <2>1 DEF IInv, TypeOK, LockHeld, Go, PopUnwind
  <2>6. UNCHANGED ring /\ (\A u \in Threads \ {t} : item'[u] = item[u])
    BY <1>17, <2>1 DEF IInv, TypeOK, Filled, At, Go, PopUnwind
  <2> QED
    BY <2>1, <2>3, <2>4, <2>5, <2>6, QuietStep
<1>18. CASE UNCHANGED vars
  <2>1. Count' = Count /\ \A L : At(L)' = At(L)
    BY <1>18 DEF vars, Count, At
  <2> QED
    BY <1>18, <2>1 DEF vars, IInv, TypeOK, LockHeld, PermitsConserved, Ends, Filled, InWindow
<1> QED
  BY <1>2, <1>3, <1>4, <1>5, <1>6, <1>7, <1>8, <1>9, <1>10, <1>11, <1>12, <1>13, <1>14, <1>15,
     <1>16, <1>17, <1>18 DEF Next, do_push, pop

-----------------------------------------------------------------------------
(* Every reachable state satisfies the inductive invariant, its types        *)
(* included: the semaphores stay within 0 .. N.                              *)
THEOREM Invariance == Spec => []IInv
<1> QED
  BY Initially, Inductive, PTL DEF Spec

(* TypeOK: the positions stay in the ring and both semaphores in 0 .. N.     *)
THEOREM TypeCorrect == Spec => []TypeOK
<1>1. IInv => TypeOK
  BY DEF IInv
<1> QED
  BY <1>1, Invariance, PTL

(* PermitsConserved: no path through do_push or pop, throwing or not, loses  *)
(* or forges a permit.                                                       *)
THEOREM Conservation == Spec => []PermitsConserved
<1>1. IInv => PermitsConserved
  BY DEF IInv
<1> QED
  BY <1>1, Invariance, PTL

\* A thread about to store has a permit, so the window of elements is not full
\* and does not reach its slot.
LEMMA FreeSlot == IInv => NeverOverwrites
<1>1. ASSUME IInv, NEW t \in At({"store"}) PROVE ~InWindow(write_pos_)
  <2>1. Cardinality(At(Reserved)) > 0
    BY <1>1, Present DEF At, Reserved, Pushing
  <2>2. Count \in Nat /\ Count < N
    BY <1>1, <2>1, AtFinite, BufferAssumption DEF IInv, TypeOK, PermitsConserved, Count
  <2> QED
    BY <1>1, <2>2, BufferAssumption DEF IInv, TypeOK, Ends, InWindow
<1> QED
  BY <1>1 DEF NeverOverwrites

(* NeverOverwrites: the store at line 103 hits a free slot.                  *)
THEOREM NoOverwrite == Spec => []NeverOverwrites
BY FreeSlot, Invariance, PTL

\* A thread about to take has a permit, so the window is not empty and begins
\* with an element.
LEMMA HoleFree == IInv => NeverTakesAHole
<1>1. ASSUME IInv, NEW t \in At({"take"}) PROVE buf_[read_pos_] # None /\ Count > 0
  <2>1. Cardinality(At(Counted)) > 0
    BY <1>1, Present DEF At, Counted, Popping
  <2>2. Count \in Nat /\ Count > 0
    BY <1>1, <2>1, AtFinite DEF IInv, TypeOK, Count
  <2>3. InWindow(read_pos_) /\ read_pos_ \in 0 .. N-1
    BY <1>1, <2>2 DEF IInv, TypeOK, InWindow
  <2>4. At({"advanceRead"}) = {}
    BY <1>1 DEF IInv, TypeOK, LockHeld, At, Critical
  <2> QED
    BY <1>1, <2>2, <2>3, <2>4 DEF IInv, Filled
<1> QED
  BY <1>1 DEF NeverTakesAHole

(* NeverTakesAHole: the move at line 133 finds an item.                      *)
THEOREM NoHole == Spec => []NeverTakesAHole
BY HoleFree, Invariance, PTL

(* SlotsInTurn: both accesses to the ring are to slots whose turn it is.     *)
THEOREM InTurn == Spec => []SlotsInTurn
<1>1. NeverOverwrites /\ NeverTakesAHole => SlotsInTurn
  BY DEF SlotsInTurn
<1> QED
  BY <1>1, NoOverwrite, NoHole, PTL

(* NoLostPermit: when nobody is inside an operation, the semaphores say      *)
(* exactly how many slots are filled and how many are free.                  *)
THEOREM PermitsReturned == Spec => []NoLostPermit
<1>1. ASSUME IInv, At({"idle", "push", "pop", "popReturn", "popThrew"}) = Threads
      PROVE  n_full_slots_ = Count /\ n_empty_slots_ = N - Count
  <2>1. At(Reserved) = {} /\ At(Counted) = {}
    BY <1>1 DEF At, Reserved, Counted, Pushing, Popping
  <2>2. Cardinality(At(Reserved)) = 0 /\ Cardinality(At(Counted)) = 0
    BY <2>1, FS_EmptySet
  <2> QED
    BY <1>1, <2>2, BufferAssumption DEF IInv, TypeOK, PermitsConserved, Count
<1>2. IInv => NoLostPermit
  BY <1>1 DEF NoLostPermit
<1> QED
  BY <1>2, Invariance, PTL
-----------------------------------------------------------------------------
(* The refinement needs to know more of the items that threads carry: a call *)
(* that has nothing yet carries None, a pop that has moved its item out of   *)
(* the ring carries one, and a push has put its own where it is to be found. *)
Carried ==
    /\ \A t \in At({"idle", "pop", "popLock", "take", "popCatch", "popThrew"}) : item[t] = None
    /\ \A t \in At({"advanceRead"}) : item[t] # None
    /\ \A t \in At({"advanceWrite"}) : buf_[write_pos_] = item[t]

\* No thread holds an item before the first call.
THEOREM CarriedInitially == Init => Carried
BY DEF Init, Carried, At

\* Each statement keeps what the threads hold in hand: a push its item, a pop
\* what it took.
THEOREM CarriedInductive == IInv /\ Carried /\ [Next]_vars => Carried'
<1> SUFFICES ASSUME IInv, Carried, [Next]_vars PROVE Carried'
  OBVIOUS
<1> USE DEF Carried, At, Go, Carry
<1>1. pc \in [Threads -> Labels] /\ item \in [Threads -> Items \cup {None}] /\ None \notin Items
  BY BufferAssumption DEF IInv, TypeOK, Labels
<1>2. ASSUME NEW t \in Threads, NEW v \in Items, CallPush(t, v) PROVE Carried'
  BY <1>1, <1>2 DEF CallPush, ring
<1>3. ASSUME NEW t \in Threads, PushAcquire(t) PROVE Carried'
  BY <1>1, <1>3 DEF PushAcquire, ring
<1>4. ASSUME NEW t \in Threads, PushLock(t) PROVE Carried'
  BY <1>1, <1>4 DEF PushLock, Throw, ring
<1>5. ASSUME NEW t \in Threads, Store(t) PROVE Carried'
  <2>1. \A u \in Threads \ {t} : pc[u] # "advanceWrite"
    BY <1>1, <1>5 DEF Store, Throw, IInv, LockHeld, Critical
  <2>2. pc'[t] = "advanceWrite" => buf_'[write_pos_] = item[t]
    BY <1>1, <1>5 DEF Store, Throw, IInv, TypeOK
  <2> QED
    BY <1>1, <1>5, <2>1, <2>2 DEF Store, Throw
<1>6. ASSUME NEW t \in Threads, AdvanceWrite(t) PROVE Carried'
  <2>1. \A u \in Threads \ {t} : pc[u] # "advanceWrite"
    BY <1>1, <1>6 DEF AdvanceWrite, IInv, LockHeld, Critical
  <2> QED
    BY <1>1, <1>6, <2>1 DEF AdvanceWrite
<1>7. ASSUME NEW t \in Threads, ReleaseFull(t) PROVE Carried'
  BY <1>1, <1>7 DEF ReleaseFull, ring
<1>8. ASSUME NEW t \in Threads, PushCatch(t) PROVE Carried'
  BY <1>1, <1>8 DEF PushCatch, ring
<1>9. ASSUME NEW t \in Threads, CallPop(t) PROVE Carried'
  BY <1>1, <1>9 DEF CallPop, ring
<1>10. ASSUME NEW t \in Threads, PopAcquire(t) PROVE Carried'
  BY <1>1, <1>10 DEF PopAcquire, ring
<1>11. ASSUME NEW t \in Threads, PopLock(t) PROVE Carried'
  BY <1>1, <1>11 DEF PopLock, Throw, ring
<1>12. ASSUME NEW t \in Threads, Take(t) PROVE Carried'
  <2>1. \A u \in Threads \ {t} : pc[u] \notin {"advanceWrite", "advanceRead"}
    BY <1>1, <1>12 DEF Take, Throw, IInv, LockHeld, Critical
  <2>2. buf_[read_pos_] # None
    BY <1>12, HoleFree DEF Take, Throw, NeverTakesAHole
  <2> QED
    BY <1>1, <1>12, <2>1, <2>2 DEF Take, Throw
<1>13. ASSUME NEW t \in Threads, AdvanceRead(t) PROVE Carried'
  BY <1>1, <1>13 DEF AdvanceRead
<1>14. ASSUME NEW t \in Threads, ReleaseEmpty(t) PROVE Carried'
  BY <1>1, <1>14 DEF ReleaseEmpty, ring
<1>15. ASSUME NEW t \in Threads, PopCatch(t) PROVE Carried'
  BY <1>1, <1>15 DEF PopCatch, ring
<1>16. ASSUME NEW t \in Threads, PopReturn(t) PROVE Carried'
  BY <1>1, <1>16 DEF PopReturn, Throw, ring
<1>17. ASSUME NEW t \in Threads, PopUnwind(t) PROVE Carried'
  BY <1>1, <1>17 DEF PopUnwind, ring
<1>18. CASE UNCHANGED vars
  BY <1>18 DEF vars
<1> QED
  BY <1>2, <1>3, <1>4, <1>5, <1>6, <1>7, <1>8, <1>9, <1>10, <1>11, <1>12, <1>13, <1>14, <1>15,
     <1>16, <1>17, <1>18 DEF Next, do_push, pop

(* Contents is a sequence of Count items; the k-th lies k-1 slots after      *)
(* read_pos_, or, if it is the first, in the hand of the pop that has it.    *)
Slot(k) == IF read_pos_ + k - 1 < N THEN read_pos_ + k - 1 ELSE read_pos_ + k - 1 - N

Shape ==
    /\ Count \in 0 .. N /\ read_pos_ \in 0 .. N-1
    /\ Contents \in Seq(Items) /\ Len(Contents) = Count
    /\ \A k \in 1 .. Count : Slot(k) \in 0 .. N-1 /\ (k # 1 => Slot(k) # read_pos_)
    /\ \A k \in 1 .. Count : k # 1 \/ At({"advanceRead"}) = {} => Contents[k] = buf_[Slot(k)]
    /\ \A t \in At({"advanceRead"}) : Count > 0 /\ Contents[1] = item[t]

\* Modulo N of a position that passed the end at most once is a subtraction.
LEMMA Wrap ==
    ASSUME NEW a \in 0 .. 2*N - 1
    PROVE  a % N = IF a < N THEN a ELSE a - N
<1>1. N \in Nat /\ N > 0
  BY BufferAssumption
<1>2. CASE a < N
  BY <1>1, <1>2
<1>3. CASE a >= N
  <2>1. a = N * 1 + (a - N) /\ a - N \in 0 .. N-1
    BY <1>1, <1>3
  <2> QED
    BY <1>1, <1>3, <2>1
<1> QED
  BY <1>1, <1>2, <1>3

\* The positions of Contents are the slots of the window, counted from
\* read_pos_.
LEMMA Sequence == IInv /\ Carried => Shape
<1> SUFFICES ASSUME IInv, Carried PROVE Shape
  OBVIOUS
<1> USE BufferAssumption
<1>1. Count \in 0 .. N /\ read_pos_ \in 0 .. N-1 /\ N \in Nat
  BY AtFinite DEF IInv, TypeOK, PermitsConserved, Count
<1>2. ASSUME NEW k \in 1 .. Count
      PROVE  /\ (read_pos_ + k - 1) % N = Slot(k) /\ Slot(k) \in 0 .. N-1
             /\ InWindow(Slot(k)) /\ (k # 1 => Slot(k) # read_pos_)
  <2> DEFINE a == read_pos_ + k - 1
  <2>1. a \in 0 .. 2*N - 1
    BY <1>1
  <2> HIDE DEF a
  <2>2. a % N = IF a < N THEN a ELSE a - N
    BY <2>1, Wrap
  <2> QED
    BY <1>1, <2>2 DEF Slot, InWindow, a
<1>3. ASSUME NEW t \in At({"advanceRead"})
      PROVE  /\ Count > 0 /\ item[t] \in Items
             /\ t = CHOOSE u \in Threads : pc[u] = "advanceRead"
  <2>1. Cardinality(At(Counted)) > 0
    BY Present DEF At, Counted, Popping
  <2>2. Count > 0
    BY <2>1, AtFinite DEF IInv, TypeOK, Count
  <2>3. \A u \in Threads : pc[u] = "advanceRead" => u = t
    BY DEF IInv, LockHeld, At, Critical
  <2>4. item[t] \in Items
    BY DEF IInv, TypeOK, Carried, At
  <2> QED
    BY <2>2, <2>3, <2>4 DEF At
<1>4. ASSUME NEW k \in 1 .. Count, k # 1 \/ At({"advanceRead"}) = {}
      PROVE  Contents[k] = buf_[Slot(k)] /\ buf_[Slot(k)] \in Items
  <2>1. ~(k = 1 /\ \E t \in Threads : pc[t] = "advanceRead")
    BY <1>4 DEF At
  <2>2. Contents[k] = buf_[Slot(k)]
    BY <1>2, <2>1 DEF Contents
  <2> QED
    BY <1>2, <1>4, <2>2 DEF IInv, TypeOK, Filled
<1>5. ASSUME NEW t \in At({"advanceRead"}) PROVE Contents[1] = item[t]
  BY <1>1, <1>3 DEF Contents, At
<1>6. \A k \in 1 .. Count : Contents[k] \in Items
  BY <1>3, <1>4, <1>5
<1>7. Contents \in Seq(Items) /\ Len(Contents) = Count
  <2>1. Contents \in [1 .. Count -> Items]
    BY <1>6 DEF Contents
  <2> QED
    BY <1>1, <2>1
<1> QED
  BY <1>1, <1>2, <1>3, <1>4, <1>5, <1>7 DEF Shape

\* The same of the next state.
LEMMA SequenceNext == IInv' /\ Carried' => Shape'
BY Sequence, PTL

(* A step that leaves the ring, the number of elements and the item of a pop *)
(* at its line 134 alone leaves the contents alone.                          *)
LEMMA SameContents ==
    ASSUME Shape, Shape', Count' = Count, read_pos_' = read_pos_,
           \A k \in 1 .. Count : k # 1 \/ At({"advanceRead"}) = {} => buf_'[Slot(k)] = buf_[Slot(k)],
           At({"advanceRead"})' = At({"advanceRead"}),
           \A t \in At({"advanceRead"}) : item'[t] = item[t]
    PROVE  Contents' = Contents
<1>1. \A k \in 1 .. Count : Slot(k)' = Slot(k)
  BY DEF Slot
<1>2. \A k \in 1 .. Count : Contents'[k] = Contents[k]
  <2>1. CASE At({"advanceRead"}) = {}
    BY <1>1, <2>1 DEF Shape
  <2>2. CASE At({"advanceRead"}) # {}
    <3>1. \A k \in 1 .. Count : k # 1 => Contents'[k] = Contents[k]
      BY <1>1 DEF Shape
    <3>2. Contents'[1] = Contents[1]
      BY <2>2 DEF Shape
    <3> QED
      BY <3>1, <3>2
  <2> QED
    BY <2>1, <2>2
<1> QED
  BY <1>2, SeqEqual DEF Shape

(* The calls as the abstract queue sees them: only the one of the thread     *)
(* that moves can change.                                                    *)
Calls == [t \in Threads |-> Progress(t)]

\* A step of one thread changes the call of that thread only.
LEMMA OneCall ==
    ASSUME NEW t \in Threads, NEW from, NEW to, Go(t, from, to),
           pc \in [Threads -> Labels], \A u \in Threads \ {t} : item'[u] = item[u]
    PROVE  Calls' = [Calls EXCEPT ![t] = Progress(t)']
<1>1. \A u \in Threads \ {t} : Progress(u)' = Progress(u)
  <2> SUFFICES ASSUME NEW u \in Threads \ {t} PROVE Progress(u)' = Progress(u)
    OBVIOUS
  <2>1. pc'[u] = pc[u] /\ item'[u] = item[u]
    BY DEF Go
  <2> QED
    BY <2>1 DEF Progress
<1> QED
  BY <1>1 DEF Calls

\* A new buffer is an empty queue without calls.
THEOREM InitRefines == Init => Fifo!Init
<1> SUFFICES ASSUME Init PROVE Fifo!Init
  OBVIOUS
<1>1. At(Counted) = {}
  BY DEF Init, At, Counted, Popping
<1>2. Count = 0
  BY <1>1, FS_EmptySet DEF Count, Init
<1>3. Contents = <<>>
  BY <1>2 DEF Contents
<1>4. Calls = [t \in Threads |-> Fifo!Idle]
  BY DEF Init, Calls, Progress, Pushing, Popping, Fifo!Idle
<1> QED
  BY <1>3, <1>4 DEF Fifo!Init, Calls

(* A step of one thread that touches neither the ring nor its own place in   *)
(* it: the contents stay when the number of elements does.                   *)
LEMMA QuietContents ==
    ASSUME NEW t \in Threads, NEW from, NEW to, Go(t, from, to),
           pc \in [Threads -> Labels], Shape, Shape',
           {from, to} \cap {"advanceRead"} = {}, UNCHANGED ring, Count' = Count,
           \A u \in Threads \ {t} : item'[u] = item[u]
    PROVE  Contents' = Contents
<1>1. At({"advanceRead"})' = At({"advanceRead"})
  BY Moves
<1>2. \A u \in At({"advanceRead"}) : item'[u] = item[u]
  BY DEF At, Go
<1> QED
  BY <1>1, <1>2, SameContents DEF ring

(* A step of one thread that leaves the contents alone shows as a change of  *)
(* its call, and if its call has not changed, not at all.                    *)
LEMMA Invisible ==
    ASSUME NEW t \in Threads, Calls' = [Calls EXCEPT ![t] = Progress(t)'],
           Contents' = Contents, Progress(t)' = Progress(t)
    PROVE  UNCHANGED Fifo!vars
<1>1. Calls' = Calls
  BY DEF Calls
<1> QED
  BY <1>1 DEF Fifo!vars, Calls

(* A call whose result changes from q to r, its item from v to j.            *)
LEMMA FinishedAs ==
    ASSUME NEW t \in Threads, NEW op, NEW v, NEW q, NEW j, NEW r,
           Calls' = [Calls EXCEPT ![t] = Progress(t)'],
           Progress(t) = [op |-> op, item |-> v, result |-> q],
           Progress(t)' = [op |-> op, item |-> j, result |-> r]
    PROVE  Calls[t] = Progress(t) /\ Fifo!Finish(t, j, r)
<1>1. Calls[t] = Progress(t)
  BY DEF Calls
<1>2. [[Progress(t) EXCEPT !.item = j] EXCEPT !.result = r] = Progress(t)'
  <2>1. [Progress(t) EXCEPT !.item = j] = [op |-> op, item |-> j, result |-> q]
    OBVIOUS
  <2>2. [[op |-> op, item |-> j, result |-> q] EXCEPT !.result = r]
            = [op |-> op, item |-> j, result |-> r]
    OBVIOUS
  <2> QED
    BY <2>1, <2>2
<1>3. [Calls EXCEPT ![t].item = j, ![t].result = r]
         = [Calls EXCEPT ![t] = [[Calls[t] EXCEPT !.item = j] EXCEPT !.result = r]]
  BY DEF Calls
<1>4. [Calls EXCEPT ![t].item = j, ![t].result = r] = [Calls EXCEPT ![t] = Progress(t)']
  BY <1>1, <1>2, <1>3
<1> QED
  BY <1>1, <1>4 DEF Fifo!Finish, Calls

(* A call that is over, with the result it ends with.                        *)
LEMMA FinishedCall ==
    ASSUME NEW t \in Threads, NEW op, NEW v, NEW j, NEW r,
           Calls' = [Calls EXCEPT ![t] = Progress(t)'],
           Progress(t) = [op |-> op, item |-> v, result |-> "none"],
           Progress(t)' = [op |-> op, item |-> j, result |-> r]
    PROVE  Fifo!Pending(t, op) /\ Fifo!Finish(t, j, r)
<1>1. Calls[t] = Progress(t) /\ Fifo!Finish(t, j, r)
  BY FinishedAs
<1> QED
  BY <1>1 DEF Fifo!Pending, Calls

(* What each step is to the abstract queue: a call is invoked, takes effect, *)
(* throws or returns, or nothing of it shows.                                *)
LEMMA StepKinds ==
    ASSUME IInv, Carried, IInv', Carried', NEW t \in Threads
    PROVE  /\ \A v \in Items : CallPush(t, v) => Fifo!Invoke(t, "push", v)
           /\ CallPop(t) => Fifo!Invoke(t, "pop", None)
           /\ do_push(t) => \/ UNCHANGED Fifo!vars \/ Fifo!Throw(t)
                            \/ Fifo!Enqueue(t) \/ Fifo!Return(t)
           /\ pop(t) => IF pc[t] \in {"popCatch", "popThrew"} THEN Fifo!Return(t)
                        ELSE IF pc[t] = "popReturn"
                             THEN (pc'[t] = "idle" /\ Fifo!Return(t)) \/ Fifo!Lose(t)
                             ELSE UNCHANGED Fifo!vars \/ Fifo!Throw(t) \/ Fifo!Dequeue(t)
<1> DEFINE Others == \A u \in Threads \ {t} : item'[u] = item[u]
<1>a. /\ pc \in [Threads -> Labels] /\ item \in [Threads -> Items \cup {None}]
      /\ None \notin Items /\ n_full_slots_ \in Nat /\ n_full_slots_' \in Nat
  BY BufferAssumption DEF IInv, TypeOK, Labels
<1>b. Shape /\ Shape'
  BY Sequence, SequenceNext
<1> USE DEF Pushing, Popping, Counted, semaphores
<1>c. ASSUME NEW from, NEW to, Go(t, from, to), Others
      PROVE  /\ Calls' = [Calls EXCEPT ![t] = Progress(t)']
             /\ n_full_slots_' - n_full_slots_
                   = (IF from \in Counted THEN 1 ELSE 0) - (IF to \in Counted THEN 1 ELSE 0)
                => Count' = Count
             /\ pc[t] = from /\ pc'[t] = to
  <2>1. Calls' = [Calls EXCEPT ![t] = Progress(t)']
    BY <1>a, <1>c, OneCall
  <2> DEFINE e == (IF to \in Counted THEN 1 ELSE 0) - (IF from \in Counted THEN 1 ELSE 0)
  <2>2. /\ Cardinality(At(Counted)) \in Nat /\ Cardinality(At(Counted)') \in Nat
        /\ Cardinality(At(Counted)') = Cardinality(At(Counted)) + e /\ e \in Int
        /\ (IF from \in Counted THEN 1 ELSE 0) - (IF to \in Counted THEN 1 ELSE 0) = 0 - e
    BY <1>a, <1>c, Counts
  <2> HIDE DEF e
  <2>3. pc[t] = from /\ pc'[t] = to
    BY <1>a, <1>c DEF Go
  <2>4. Count' - Count = n_full_slots_' - n_full_slots_ + e /\ Count \in Int /\ Count' \in Int
    BY <1>a, <2>2 DEF Count
  <2>5. e \in Int /\ n_full_slots_' - n_full_slots_ \in Int
    BY <1>a, <2>2
  <2>6. n_full_slots_' - n_full_slots_ = 0 - e => Count' = Count
    BY <2>4, <2>5
  <2> QED
    BY <2>1, <2>2, <2>3, <2>6
<1>1. ASSUME NEW v \in Items, CallPush(t, v) PROVE Fifo!Invoke(t, "push", v)
  <2>1. Go(t, "idle", "push") /\ Others /\ UNCHANGED ring
    BY <1>a, <1>1 DEF CallPush, Go, Carry
  <2>2. /\ Calls' = [Calls EXCEPT ![t] = Progress(t)'] /\ Count' = Count
        /\ pc[t] = "idle" /\ pc'[t] = "push"
    BY <1>a, <1>1, <1>c, <2>1 DEF CallPush
  <2>3. Contents' = Contents
    BY <1>a, <1>b, <2>1, <2>2, QuietContents
  <2>4. item[t] = None /\ item'[t] = v
    BY <1>a, <1>1, <2>2 DEF CallPush, Carry, Carried, At
  <2>5. Progress(t) = [op |-> "none", item |-> None, result |-> "none"] /\ Progress(t)' = [op |-> "push", item |-> v, result |-> "none"]
    BY <2>2, <2>4 DEF Progress
  <2> QED
    BY <2>2, <2>3, <2>5 DEF Fifo!Invoke, Fifo!Idle, Calls
<1>2. ASSUME PushAcquire(t) PROVE UNCHANGED Fifo!vars
  <2>1. Go(t, "push", "pushLock") /\ Others /\ UNCHANGED ring
    BY <1>a, <1>2 DEF PushAcquire, Go, Carry
  <2>2. /\ Calls' = [Calls EXCEPT ![t] = Progress(t)'] /\ Count' = Count
        /\ pc[t] = "push" /\ pc'[t] = "pushLock"
    BY <1>a, <1>2, <1>c, <2>1 DEF PushAcquire
  <2>3. Contents' = Contents
    BY <1>a, <1>b, <2>1, <2>2, QuietContents
  <2>4. item'[t] = item[t]
    BY <1>a, <1>2, <2>2 DEF PushAcquire, Carry, Carried, At
  <2>5. Progress(t)' = Progress(t)
    BY <2>2, <2>4 DEF Progress
  <2> QED
    BY <2>2, <2>3, <2>5, Invisible
<1>3. ASSUME ReleaseFull(t) PROVE Fifo!Return(t)
  <2>1. Go(t, "pushed", "idle") /\ Others /\ UNCHANGED ring
    BY <1>a, <1>3 DEF ReleaseFull, Go, Carry
  <2>2. /\ Calls' = [Calls EXCEPT ![t] = Progress(t)'] /\ Count' = Count
        /\ pc[t] = "pushed" /\ pc'[t] = "idle"
    BY <1>a, <1>3, <1>c, <2>1 DEF ReleaseFull
  <2>3. Contents' = Contents
    BY <1>a, <1>b, <2>1, <2>2, QuietContents
  <2>4. item'[t] = None
    BY <1>a, <1>3, <2>2 DEF ReleaseFull, Carry, Carried, At
  <2>5. Progress(t) = [op |-> "push", item |-> item[t], result |-> "ok"] /\ Progress(t)' = [op |-> "none", item |-> None, result |-> "none"]
    BY <2>2, <2>4 DEF Progress
  <2> QED
    BY <2>2, <2>3, <2>5 DEF Fifo!Return, Fifo!Idle, Calls
<1>4. ASSUME PushCatch(t) PROVE Fifo!Return(t)
  <2>1. Go(t, "pushCatch", "idle") /\ Others /\ UNCHANGED ring
    BY <1>a, <1>4 DEF PushCatch, Go, Carry
  <2>2. /\ Calls' = [Calls EXCEPT ![t] = Progress(t)'] /\ Count' = Count
        /\ pc[t] = "pushCatch" /\ pc'[t] = "idle"
    BY <1>a, <1>4, <1>c, <2>1 DEF PushCatch
  <2>3. Contents' = Contents
    BY <1>a, <1>b, <2>1, <2>2, QuietContents
  <2>4. item'[t] = None
    BY <1>a, <1>4, <2>2 DEF PushCatch, Carry, Carried, At
  <2>5. Progress(t) = [op |-> "push", item |-> None, result |-> "threw"] /\ Progress(t)' = [op |-> "none", item |-> None, result |-> "none"]
    BY <2>2, <2>4 DEF Progress
  <2> QED
    BY <2>2, <2>3, <2>5 DEF Fifo!Return, Fifo!Idle, Calls
<1>5. ASSUME CallPop(t) PROVE Fifo!Invoke(t, "pop", None)
  <2>1. Go(t, "idle", "pop") /\ Others /\ UNCHANGED ring
    BY <1>a, <1>5 DEF CallPop, Go, Carry
  <2>2. /\ Calls' = [Calls EXCEPT ![t] = Progress(t)'] /\ Count' = Count
        /\ pc[t] = "idle" /\ pc'[t] = "pop"
    BY <1>a, <1>5, <1>c, <2>1 DEF CallPop
  <2>3. Contents' = Contents
    BY <1>a, <1>b, <2>1, <2>2, QuietContents
  <2>4. item[t] = None /\ item'[t] = None
    BY <1>a, <1>5, <2>2 DEF CallPop, Carry, Carried, At
  <2>5. Progress(t) = [op |-> "none", item |-> None, result |-> "none"] /\ Progress(t)' = [op |-> "pop", item |-> None, result |-> "none"]
    BY <2>2, <2>4 DEF Progress
  <2> QED
    BY <2>2, <2>3, <2>5 DEF Fifo!Invoke, Fifo!Idle, Calls
<1>6. ASSUME PopAcquire(t) PROVE UNCHANGED Fifo!vars
  <2>1. Go(t, "pop", "popLock") /\ Others /\ UNCHANGED ring
    BY <1>a, <1>6 DEF PopAcquire, Go, Carry
  <2>2. /\ Calls' = [Calls EXCEPT ![t] = Progress(t)'] /\ Count' = Count
        /\ pc[t] = "pop" /\ pc'[t] = "popLock"
    BY <1>a, <1>6, <1>c, <2>1 DEF PopAcquire
  <2>3. Contents' = Contents
    BY <1>a, <1>b, <2>1, <2>2, QuietContents
  <2>4. item'[t] = item[t]
    BY <1>a, <1>6, <2>2 DEF PopAcquire, Carry, Carried, At
  <2>5. Progress(t)' = Progress(t)
    BY <2>2, <2>4 DEF Progress
  <2> QED
    BY <2>2, <2>3, <2>5, Invisible
<1>7. ASSUME ReleaseEmpty(t) PROVE UNCHANGED Fifo!vars
  <2>1. Go(t, "popped", "popReturn") /\ Others /\ UNCHANGED ring
    BY <1>a, <1>7 DEF ReleaseEmpty, Go, Carry
  <2>2. /\ Calls' = [Calls EXCEPT ![t] = Progress(t)'] /\ Count' = Count
        /\ pc[t] = "popped" /\ pc'[t] = "popReturn"
    BY <1>a, <1>7, <1>c, <2>1 DEF ReleaseEmpty
  <2>3. Contents' = Contents
    BY <1>a, <1>b, <2>1, <2>2, QuietContents
  <2>4. item'[t] = item[t]
    BY <1>a, <1>7, <2>2 DEF ReleaseEmpty, Carry, Carried, At
  <2>5. Progress(t)' = Progress(t)
    BY <2>2, <2>4 DEF Progress
  <2> QED
    BY <2>2, <2>3, <2>5, Invisible
<1>8. ASSUME PopCatch(t) PROVE Fifo!Return(t)
  <2>1. Go(t, "popCatch", "idle") /\ Others /\ UNCHANGED ring
    BY <1>a, <1>8 DEF PopCatch, Go, Carry
  <2>2. /\ Calls' = [Calls EXCEPT ![t] = Progress(t)'] /\ Count' = Count
        /\ pc[t] = "popCatch" /\ pc'[t] = "idle"
    BY <1>a, <1>8, <1>c, <2>1 DEF PopCatch
  <2>3. Contents' = Contents
    BY <1>a, <1>b, <2>1, <2>2, QuietContents
  <2>4. item[t] = None /\ item'[t] = None
    BY <1>a, <1>8, <2>2 DEF PopCatch, Carry, Carried, At
  <2>5. Progress(t) = [op |-> "pop", item |-> None, result |-> "threw"] /\ Progress(t)' = [op |-> "none", item |-> None, result |-> "none"]
    BY <2>2, <2>4 DEF Progress
  <2> QED
    BY <2>2, <2>3, <2>5 DEF Fifo!Return, Fifo!Idle, Calls
(* The last move of a pop gives the caller the element, or throws and loses  *)
(* it; the queue is as it was either way.                                    *)
<1>9. ASSUME PopReturn(t) PROVE (pc'[t] = "idle" /\ Fifo!Return(t)) \/ Fifo!Lose(t)
  <2>1. PICK to \in {"idle", "popThrew"} :
            Go(t, "popReturn", to) /\ (to = "popThrew" => MayThrow)
    BY <1>9 DEF PopReturn, Throw
  <2>6. Others /\ UNCHANGED ring
    BY <1>a, <1>9 DEF PopReturn, Carry
  <2>2. /\ Calls' = [Calls EXCEPT ![t] = Progress(t)'] /\ Count' = Count
        /\ pc[t] = "popReturn" /\ pc'[t] = to
    BY <1>a, <1>9, <1>c, <2>1, <2>6 DEF PopReturn
  <2>3. Contents' = Contents
    BY <1>a, <1>b, <2>1, <2>2, <2>6, QuietContents
  <2>4. item'[t] = None
    BY <1>a, <1>9 DEF PopReturn, Carry
  <2>5. Progress(t) = [op |-> "pop", item |-> item[t], result |-> "ok"]
    BY <2>2 DEF Progress
  <2>7. CASE to = "idle"
    <3>1. Progress(t)' = [op |-> "none", item |-> None, result |-> "none"]
      BY <2>2, <2>4, <2>7 DEF Progress
    <3> QED
      BY <2>2, <2>3, <2>5, <2>7, <3>1 DEF Fifo!Return, Fifo!Idle, Calls
  <2>8. CASE to = "popThrew"
    <3>1. Progress(t)' = [op |-> "pop", item |-> None, result |-> "threw"]
      BY <2>2, <2>4, <2>8 DEF Progress
    <3>2. Calls[t] = Progress(t) /\ Fifo!Finish(t, None, "threw")
      BY <2>2, <2>5, <3>1, FinishedAs
    <3>3. Calls[t].op = "pop" /\ Calls[t].result = "ok"
      BY <2>5, <3>2
    <3> QED
      BY <2>1, <2>3, <2>8, <3>2, <3>3 DEF Fifo!Lose, Calls
  <2> QED
    BY <2>7, <2>8
<1>10. ASSUME PushLock(t) PROVE Fifo!Throw(t) \/ UNCHANGED Fifo!vars
  <2>1. PICK to \in {"store", "pushCatch"} : Go(t, "pushLock", to) /\ (to = "pushCatch" => MayThrow)
    BY <1>10 DEF PushLock, Throw
  <2>2. Others /\ UNCHANGED ring /\ item'[t] = item[t]
    BY <1>10 DEF PushLock
  <2>3. /\ Calls' = [Calls EXCEPT ![t] = Progress(t)'] /\ Count' = Count
        /\ pc[t] = "pushLock" /\ pc'[t] = to
    BY <1>a, <1>10, <1>c, <2>1, <2>2 DEF PushLock
  <2>4. Contents' = Contents
    BY <1>a, <1>b, <2>1, <2>2, <2>3, QuietContents
  <2>5. CASE to = "store"
    <3>1. Progress(t)' = Progress(t)
      BY <2>2, <2>3, <2>5 DEF Progress
    <3> QED
      BY <2>3, <2>4, <3>1, Invisible
  <2>6. CASE to = "pushCatch"
    <3>1. /\ Progress(t) = [op |-> "push", item |-> item[t], result |-> "none"]
          /\ Progress(t)' = [op |-> "push", item |-> None, result |-> "threw"]
      BY <2>2, <2>3, <2>6 DEF Progress
    <3> QED
      BY <2>1, <2>3, <2>4, <2>6, <3>1, FinishedCall DEF Fifo!Throw
  <2> QED
    BY <2>5, <2>6
<1>11. ASSUME PopLock(t) PROVE Fifo!Throw(t) \/ UNCHANGED Fifo!vars
  <2>1. PICK to \in {"take", "popCatch"} : Go(t, "popLock", to) /\ (to = "popCatch" => MayThrow)
    BY <1>11 DEF PopLock, Throw
  <2>2. Others /\ UNCHANGED ring /\ item'[t] = item[t]
    BY <1>11 DEF PopLock
  <2>3. /\ Calls' = [Calls EXCEPT ![t] = Progress(t)'] /\ Count' = Count
        /\ pc[t] = "popLock" /\ pc'[t] = to
    BY <1>a, <1>11, <1>c, <2>1, <2>2 DEF PopLock
  <2>4. Contents' = Contents
    BY <1>a, <1>b, <2>1, <2>2, <2>3, QuietContents
  <2>5. item[t] = None
    BY <2>3 DEF Carried, At
  <2>6. CASE to = "take"
    <3>1. Progress(t)' = Progress(t)
      BY <2>2, <2>3, <2>6 DEF Progress
    <3> QED
      BY <2>3, <2>4, <3>1, Invisible
  <2>7. CASE to = "popCatch"
    <3>1. /\ Progress(t) = [op |-> "pop", item |-> None, result |-> "none"]
          /\ Progress(t)' = [op |-> "pop", item |-> None, result |-> "threw"]
      BY <2>2, <2>3, <2>5, <2>7 DEF Progress
    <3> QED
      BY <2>1, <2>3, <2>4, <2>7, <3>1, FinishedCall DEF Fifo!Throw
  <2> QED
    BY <2>6, <2>7
(* The slot a store writes is not among those of the contents.               *)
<1>12. ASSUME Store(t) PROVE Fifo!Throw(t) \/ UNCHANGED Fifo!vars
  <2>1. PICK to \in {"advanceWrite", "pushCatch"} : Go(t, "store", to) /\ (to = "pushCatch" => MayThrow)
    BY <1>12 DEF Store, Throw
  <2>2. Others /\ read_pos_' = read_pos_ /\ item'[t] = item[t]
    BY <1>12 DEF Store
  <2>3. /\ Calls' = [Calls EXCEPT ![t] = Progress(t)'] /\ Count' = Count
        /\ pc[t] = "store" /\ pc'[t] = to
    BY <1>a, <1>12, <1>c, <2>1, <2>2 DEF Store
  <2>4. \A k \in 1 .. Count : buf_'[Slot(k)] = buf_[Slot(k)]
    <3>1. ~InWindow(write_pos_)
      BY <2>3, FreeSlot DEF NeverOverwrites, At
    <3>2. \A s \in 0 .. N-1 : s # write_pos_ => buf_'[s] = buf_[s]
      BY <1>12 DEF Store, IInv, TypeOK
    <3>3. \A k \in 1 .. Count : InWindow(Slot(k)) /\ Slot(k) \in 0 .. N-1
      BY <1>b, BufferAssumption DEF Shape, Slot, InWindow
    <3> QED
      BY <3>1, <3>2, <3>3
  <2>5. Contents' = Contents
    <3>1. At({"advanceRead"})' = At({"advanceRead"})
      BY <1>a, <2>1, Moves
    <3>2. \A u \in At({"advanceRead"}) : item'[u] = item[u]
      BY <2>2 DEF At
    <3> QED
      BY <1>b, <2>2, <2>3, <2>4, <3>1, <3>2, SameContents
  <2>6. CASE to = "advanceWrite"
    <3>1. Progress(t)' = Progress(t)
      BY <2>2, <2>3, <2>6 DEF Progress
    <3> QED
      BY <2>3, <2>5, <3>1, Invisible
  <2>7. CASE to = "pushCatch"
    <3>1. /\ Progress(t) = [op |-> "push", item |-> item[t], result |-> "none"]
          /\ Progress(t)' = [op |-> "push", item |-> None, result |-> "threw"]
      BY <2>2, <2>3, <2>7 DEF Progress
    <3> QED
      BY <2>1, <2>3, <2>5, <2>7, <3>1, FinishedCall DEF Fifo!Throw
  <2> QED
    BY <2>6, <2>7
(* A pop takes its item out of the first slot into its hand.                 *)
<1>13. ASSUME Take(t) PROVE Fifo!Throw(t) \/ UNCHANGED Fifo!vars
  <2>1. PICK to \in {"advanceRead", "popCatch"} : Go(t, "take", to)
    BY <1>13 DEF Take, Throw
  <2>2. Others /\ read_pos_' = read_pos_
    BY <1>a, <1>13 DEF Take, Carry
  <2>3. /\ Calls' = [Calls EXCEPT ![t] = Progress(t)'] /\ Count' = Count
        /\ pc[t] = "take" /\ pc'[t] = to /\ item[t] = None
    BY <1>a, <1>13, <1>c, <2>1, <2>2 DEF Take, Carried, At
  <2>4. At({"advanceRead"}) = {}
    BY <2>3 DEF IInv, LockHeld, At, Critical
  <2>5. CASE to = "popCatch"
    <3>1. MayThrow /\ buf_' = buf_ /\ item' = item
      BY <1>13, <2>3, <2>5 DEF Take, Throw, Go, IInv, TypeOK
    <3>2. At({"advanceRead"})' = At({"advanceRead"})
      BY <1>a, <2>1, <2>5, Moves
    <3>3. Contents' = Contents
      BY <1>b, <2>2, <2>3, <3>1, <3>2, SameContents
    <3>4. /\ Progress(t) = [op |-> "pop", item |-> None, result |-> "none"]
          /\ Progress(t)' = [op |-> "pop", item |-> None, result |-> "threw"]
      BY <2>3, <2>5, <3>1 DEF Progress
    <3> QED
      BY <2>3, <3>1, <3>3, <3>4, FinishedCall DEF Fifo!Throw
  <2>6. CASE to = "advanceRead"
    <3>1. item'[t] = buf_[read_pos_] /\ buf_' = [buf_ EXCEPT ![read_pos_] = None]
      BY <1>a, <1>13, <2>3, <2>6 DEF Take, Throw, Go, Carry
    <3>2. t \in At({"advanceRead"})'
      BY <2>3, <2>6 DEF At
    <3>3. Contents'[1] = buf_[read_pos_] /\ Count > 0
      BY <1>b, <2>3, <3>1, <3>2 DEF Shape
    <3>4. Slot(1) = read_pos_ /\ Contents[1] = buf_[read_pos_]
      <4>1. Slot(1) = read_pos_ /\ 1 \in 1 .. Count
        BY <1>b, <3>3, BufferAssumption DEF Shape, Slot
      <4> QED
        BY <1>b, <2>4, <4>1 DEF Shape
    <3>5. \A k \in 1 .. Count : k # 1 => Contents'[k] = Contents[k]
      <4>1. \A k \in 1 .. Count : Slot(k)' = Slot(k)
        BY <2>2 DEF Slot
      <4>2. \A k \in 1 .. Count : k # 1 => buf_'[Slot(k)] = buf_[Slot(k)]
        BY <1>b, <3>1 DEF Shape, IInv, TypeOK
      <4> QED
        BY <1>b, <2>3, <4>1, <4>2 DEF Shape
    <3>6. Contents' = Contents
      BY <1>b, <2>3, <3>3, <3>4, <3>5, SeqEqual DEF Shape
    <3>7. Progress(t)' = Progress(t)
      BY <2>3, <2>6 DEF Progress
    <3> QED
      BY <2>3, <3>6, <3>7, Invisible
  <2> QED
    BY <2>5, <2>6
(* A push takes effect when it advances write_pos_.                          *)
<1>14. ASSUME AdvanceWrite(t) PROVE Fifo!Enqueue(t)
  <2>1. Go(t, "advanceWrite", "pushed") /\ Others /\ item'[t] = item[t]
    BY <1>14 DEF AdvanceWrite
  <2>2. /\ Calls' = [Calls EXCEPT ![t] = Progress(t)']
        /\ pc[t] = "advanceWrite" /\ pc'[t] = "pushed"
    BY <1>c, <2>1
  <2>3. Count' = Count + 1
    <3>1. /\ Cardinality(At(Counted)) \in Nat /\ Cardinality(At(Counted)') \in Nat
          /\ Cardinality(At(Counted)') = Cardinality(At(Counted)) + 1
      BY <1>a, <2>1, Counts
    <3> QED
      BY <1>a, <1>14, <3>1 DEF AdvanceWrite, Count
  <2>4. /\ Count \in 0 .. N-1 /\ read_pos_' = read_pos_ /\ buf_' = buf_
        /\ buf_[write_pos_] = item[t] /\ item[t] \in Items
    <3>1. item[t] # None
      BY <2>2 DEF IInv, Filled, At
    <3>2. Count \in Nat /\ Count + 1 <= N
      BY <1>b, <2>3 DEF Shape
    <3>3. read_pos_' = read_pos_ /\ buf_' = buf_
      BY <1>14 DEF AdvanceWrite
    <3>4. buf_[write_pos_] = item[t]
      BY <2>2 DEF Carried, At
    <3> QED
      BY <1>a, <3>1, <3>2, <3>3, <3>4, BufferAssumption
  <2>5. At({"advanceRead"}) = {} /\ At({"advanceRead"})' = {}
    <3>1. At({"advanceRead"})' = At({"advanceRead"})
      BY <1>a, <2>1, Moves
    <3> QED
      BY <2>2, <3>1 DEF IInv, LockHeld, At, Critical
  <2>6. \A k \in 1 .. Count : Contents'[k] = Contents[k]
    <3>1. \A k \in 1 .. Count : Slot(k)' = Slot(k)
      BY <2>4 DEF Slot
    <3>2. \A k \in 1 .. Count : Contents[k] = buf_[Slot(k)]
      BY <1>b, <2>5 DEF Shape
    <3>3. \A k \in 1 .. Count' : Contents'[k] = buf_'[Slot(k)']
      BY <1>b, <2>5 DEF Shape
    <3>4. \A k \in 1 .. Count : k \in 1 .. Count'
      BY <2>3, <2>4
    <3> QED
      BY <2>4, <3>1, <3>2, <3>3, <3>4
  <2>7. Contents'[Count + 1] = item[t]
    <3>1. Slot(Count + 1) = write_pos_
      BY <1>b, <2>4, BufferAssumption DEF Shape, Slot, IInv, TypeOK, Ends
    <3>2. \A k \in 1 .. Count + 1 : Contents'[k] = buf_'[Slot(k)']
      BY <1>b, <2>3, <2>5 DEF Shape
    <3>3. \A k \in 1 .. Count + 1 : Slot(k)' = Slot(k)
      BY <2>4 DEF Slot
    <3> QED
      BY <2>4, <3>1, <3>2, <3>3
  <2>8. Contents' = Append(Contents, item[t])
    BY <1>b, <2>3, <2>4, <2>6, <2>7, AppendProperties, SeqEqual DEF Shape
  <2>9. /\ Progress(t) = [op |-> "push", item |-> item[t], result |-> "none"]
        /\ Progress(t)' = [op |-> "push", item |-> item[t], result |-> "ok"]
    BY <2>1, <2>2 DEF Progress
  <2>10. Len(Contents) < N
    BY <1>b, <2>4, BufferAssumption DEF Shape
  <2> QED
    BY <2>2, <2>8, <2>9, <2>10, FinishedCall DEF Fifo!Enqueue, Calls
(* A pop takes effect when it advances read_pos_.                            *)
<1>15. ASSUME AdvanceRead(t) PROVE Fifo!Dequeue(t)
  <2>1. Go(t, "advanceRead", "popped") /\ Others /\ item'[t] = item[t]
    BY <1>15 DEF AdvanceRead
  <2>2. /\ Calls' = [Calls EXCEPT ![t] = Progress(t)']
        /\ pc[t] = "advanceRead" /\ pc'[t] = "popped"
    BY <1>c, <2>1
  <2>3. Count' = Count - 1
    <3>1. /\ Cardinality(At(Counted)) \in Nat /\ Cardinality(At(Counted)') \in Nat
          /\ Cardinality(At(Counted)') = Cardinality(At(Counted)) - 1
      BY <1>a, <2>1, Counts
    <3> QED
      BY <1>a, <1>15, <3>1 DEF AdvanceRead, Count
  <2>4. /\ Count > 0 /\ Contents[1] = item[t] /\ item[t] \in Items /\ buf_' = buf_
        /\ read_pos_' = IF read_pos_ = N-1 THEN 0 ELSE read_pos_ + 1
    <3>1. t \in At({"advanceRead"})
      BY <2>2 DEF At
    <3>2. Count > 0 /\ Contents[1] = item[t]
      BY <1>b, <3>1 DEF Shape
    <3> QED
      BY <1>a, <1>15, <3>1, <3>2, Successor DEF AdvanceRead, IInv, TypeOK, Carried
  <2>5. At({"advanceRead"})' = {}
    BY <1>a, <2>1, <2>2 DEF IInv, LockHeld, At, Critical, Go
  <2>6. \A k \in 1 .. Count - 1 : Contents'[k] = Contents[k + 1]
    <3>1. ASSUME NEW k \in 1 .. Count - 1 PROVE Slot(k)' = Slot(k + 1) /\ k + 1 \in 1 .. Count
      <4>1. Count \in 0 .. N /\ read_pos_ \in 0 .. N-1 /\ N \in Nat \ {0}
        BY <1>b, BufferAssumption DEF Shape
      <4>2. k \in Nat /\ k + 1 \in 1 .. Count /\ k <= N - 1 /\ k >= 1
        BY <4>1
      <4>3. CASE read_pos_ = N-1
        BY <2>4, <4>1, <4>2, <4>3 DEF Slot
      <4>4. CASE read_pos_ # N-1
        BY <2>4, <4>1, <4>2, <4>4 DEF Slot
      <4> QED
        BY <4>2, <4>3, <4>4
    <3>2. \A k \in 1 .. Count - 1 : Contents'[k] = buf_'[Slot(k)']
      BY <1>b, <2>3, <2>5 DEF Shape
    <3>3. \A k \in 1 .. Count : k # 1 => Contents[k] = buf_[Slot(k)]
      BY <1>b DEF Shape
    <3>4. Count \in Nat
      BY <1>b DEF Shape
    <3> QED
      BY <2>4, <3>1, <3>2, <3>3, <3>4
  <2>7. Contents' = Tail(Contents) /\ Head(Contents) = item[t] /\ Contents # <<>>
    <3>1. Contents \in Seq(Items) /\ Contents # <<>> /\ Len(Contents) = Count /\ Count \in Nat
      BY <1>b, <2>4 DEF Shape
    <3>2. /\ Tail(Contents) \in Seq(Items) /\ Len(Tail(Contents)) = Count - 1
          /\ \A k \in 1 .. Count - 1 : Tail(Contents)[k] = Contents[k + 1]
      BY <3>1, HeadTailProperties
    <3>3. Contents' \in Seq(Items) /\ Len(Contents') = Count - 1
      BY <1>b, <2>3 DEF Shape
    <3> QED
      BY <2>4, <2>6, <3>1, <3>2, <3>3, SeqEqual
  <2>8. /\ Progress(t) = [op |-> "pop", item |-> None, result |-> "none"]
        /\ Progress(t)' = [op |-> "pop", item |-> item[t], result |-> "ok"]
    BY <2>1, <2>2 DEF Progress
  <2> QED
    BY <2>2, <2>7, <2>8, FinishedCall DEF Fifo!Dequeue, Calls
<1>16. ASSUME PopUnwind(t) PROVE Fifo!Return(t)
  <2>1. Go(t, "popThrew", "idle") /\ Others /\ UNCHANGED ring
    BY <1>a, <1>16 DEF PopUnwind, Go
  <2>2. /\ Calls' = [Calls EXCEPT ![t] = Progress(t)'] /\ Count' = Count
        /\ pc[t] = "popThrew" /\ pc'[t] = "idle"
    BY <1>a, <1>16, <1>c, <2>1 DEF PopUnwind
  <2>3. Contents' = Contents
    BY <1>a, <1>b, <2>1, <2>2, QuietContents
  <2>4. item[t] = None /\ item'[t] = None
    BY <1>a, <1>16, <2>2 DEF PopUnwind, Carried, At
  <2>5. /\ Progress(t) = [op |-> "pop", item |-> None, result |-> "threw"]
        /\ Progress(t)' = [op |-> "none", item |-> None, result |-> "none"]
    BY <2>2, <2>4 DEF Progress
  <2> QED
    BY <2>2, <2>3, <2>5 DEF Fifo!Return, Fifo!Idle, Calls
<1>17. ASSUME pop(t)
       PROVE  IF pc[t] \in {"popCatch", "popThrew"} THEN Fifo!Return(t)
              ELSE IF pc[t] = "popReturn"
                   THEN (pc'[t] = "idle" /\ Fifo!Return(t)) \/ Fifo!Lose(t)
                   ELSE UNCHANGED Fifo!vars \/ Fifo!Throw(t) \/ Fifo!Dequeue(t)
  <2>1. CASE PopCatch(t) \/ PopUnwind(t)
    BY <1>8, <1>16, <2>1 DEF PopUnwind, PopCatch, Go
  <2>2. CASE PopReturn(t)
    <3>1. pc[t] = "popReturn"
      BY <2>2 DEF PopReturn, Throw, Go
    <3> QED
      BY <1>9, <2>2, <3>1
  <2>3. CASE ~(PopReturn(t) \/ PopCatch(t) \/ PopUnwind(t))
    <3>1. pc[t] \notin {"popReturn", "popCatch", "popThrew"}
      BY <1>17, <2>3 DEF pop, PopAcquire, PopLock, Take, AdvanceRead, ReleaseEmpty, Throw, Go
    <3> QED
      BY <1>6, <1>7, <1>11, <1>13, <1>15, <1>17, <2>3, <3>1 DEF pop
  <2> QED
    BY <2>1, <2>2, <2>3
<1> QED
  BY <1>1, <1>2, <1>3, <1>4, <1>5, <1>10, <1>12, <1>14, <1>17 DEF do_push

(* Every step of the buffer is a step of the abstract queue, or invisible.   *)
THEOREM StepRefines ==
    IInv /\ Carried /\ IInv' /\ Carried' /\ [Next]_vars => [Fifo!Next]_(Fifo!vars)
<1> SUFFICES ASSUME IInv, Carried, IInv', Carried', [Next]_vars PROVE [Fifo!Next]_(Fifo!vars)
  OBVIOUS
<1>1. CASE Next
  <2> PICK t \in Threads :
          (\E v \in Items : CallPush(t, v)) \/ do_push(t) \/ CallPop(t) \/ pop(t)
    BY <1>1 DEF Next
  <2> QED
    BY StepKinds DEF Fifo!Next
<1>2. CASE UNCHANGED vars
  <2>1. Count' = Count /\ At({"advanceRead"})' = At({"advanceRead"})
    BY <1>2 DEF vars, Count, At
  <2>2. Contents' = Contents
    BY <1>2, <2>1, Sequence, SequenceNext, SameContents DEF vars
  <2>3. \A t \in Threads : Progress(t)' = Progress(t)
    BY <1>2 DEF vars, Progress
  <2> QED
    BY <2>2, <2>3 DEF Fifo!vars
<1> QED
  BY <1>1, <1>2

(* ImplementsFifo: a push or a pop takes effect at once where it advances    *)
(* its position, in FIFO order; one that throws has no effect.               *)
THEOREM Refinement == Spec => ImplementsFifo
<1>1. Spec => []Carried
  BY CarriedInitially, CarriedInductive, Invariance, PTL DEF Spec
<1> QED
  BY <1>1, InitRefines, StepRefines, Invariance, PTL DEF Spec, ImplementsFifo, Fifo!Spec
-----------------------------------------------------------------------------
(* The driver (AdditionalInCpp20.cpp 296-322) as a client of the abstract    *)
(* queue: how many items it has pushed, what has come out, and who has got   *)
(* what, a pop that has not returned yet included.                           *)
Pushed == IF Calls[producer0].op = "push" /\ Calls[producer0].result = "none" THEN i - 1 ELSE i
Popped == Pushed - Len(Contents)
Handed(c) == IF Calls[c].result = "ok" THEN {Calls[c].item} ELSE {}
Got(c) == TakenBy(c) \cup Handed(c)

DriverTypes ==
    /\ i \in Nat /\ i <= Total /\ Contents \in Seq(Items)
    /\ calls \in [Consumers -> 0 .. Share] /\ received \in [Consumers -> Seq(Items)]
    /\ Calls \in [Threads -> [op : {"none", "push", "pop"}, item : Items \cup {None},
                              result : {"none", "ok"}]]
(* One producer pushes the numbers in order, the consumers only pop.         *)
Roles ==
    /\ Calls[producer0].op \in {"none", "push"}
    /\ Calls[producer0].op = "push" => i > 0 /\ Calls[producer0].item = i - 1
    /\ \A c \in Consumers :
        /\ Calls[c].op \in {"none", "pop"} /\ (Calls[c].op = "none" => Calls[c].result = "none")
        /\ Calls[c].result = "ok" => Calls[c].item \in Items
        /\ Len(received[c]) = calls[c] - IF Calls[c].op = "none" THEN 0 ELSE 1
InOrder ==
    /\ Popped \in Nat
    /\ \A k \in 1 .. Len(Contents) : Contents[k] = Popped + k - 1
(* Exactly the numbers that have come out are shared among the consumers.    *)
Shared ==
    /\ \A x \in 0 .. Popped - 1 : \E c \in Consumers : x \in Got(c)
    /\ \A c \in Consumers : \A x \in Got(c) : x \in 0 .. Popped - 1
    /\ \A c, d \in Consumers : c # d => Got(c) \cap Got(d) = {}
Ascending == \A c \in Consumers :
    /\ \A k, m \in 1 .. Len(received[c]) : k < m => received[c][k] < received[c][m]
    /\ Calls[c].result = "ok" =>
           \A k \in 1 .. Len(received[c]) : received[c][k] < Calls[c].item
DriverInv == DriverTypes /\ Roles /\ InOrder /\ Shared /\ Ascending

(* What the driver shares with the abstract queue, beside its own variables. *)
LEMMA DriverNumbers ==
    ASSUME DriverAssumption
    PROVE  /\ Total \in Nat /\ Items = 0 .. Total - 1 /\ None \notin Items
           /\ producer0 \in Threads /\ producer0 \notin Consumers /\ Consumers \subseteq Threads
           /\ IsFiniteSet(Consumers) /\ Share \in Nat
<1>1. IsFiniteSet(Consumers)
  BY FS_Subset, BufferAssumption DEF DriverAssumption
<1>2. Cardinality(Consumers) \in Nat /\ Share \in Nat
  BY <1>1, FS_CardinalityType DEF DriverAssumption
<1>3. Total \in Nat
  BY <1>2 DEF Total
<1> QED
  BY <1>1, <1>2, <1>3, BufferAssumption DEF DriverAssumption, Total

\* The driver's counters and lists agree with the queue before the first call.
LEMMA DriverInitially ==
    ASSUME DriverAssumption, DriverInit
    PROVE  DriverInv
<1> USE DriverNumbers
<1>1. Fifo!Init
  BY InitRefines DEF DriverInit
<1>2. Contents = <<>> /\ Calls = [t \in Threads |-> Fifo!Idle]
  BY <1>1 DEF Fifo!Init, Calls
<1>3. \A t \in Threads : Calls[t].op = "none" /\ Calls[t].item = None /\ Calls[t].result = "none"
  BY <1>2 DEF Fifo!Idle
<1>4. Pushed = 0 /\ Popped = 0 /\ Len(Contents) = 0
  BY <1>2, <1>3 DEF DriverInit, Pushed, Popped
<1>5. received = [c \in Consumers |-> <<>>] /\ calls = [c \in Consumers |-> 0] /\ i = 0
  BY DEF DriverInit
<1>6. \A c \in Consumers : Got(c) = {}
  BY <1>3, <1>5 DEF Got, TakenBy, Handed
<1>7. DriverTypes
  BY <1>2, <1>5 DEF DriverTypes, Fifo!Idle
<1>8. Roles /\ Ascending
  BY <1>3, <1>5 DEF Roles, Ascending
<1>9. InOrder /\ Shared
  BY <1>4, <1>6 DEF InOrder, Shared
<1> QED
  BY <1>7, <1>8, <1>9 DEF DriverInv

\* A call of the abstract queue, by its three fields.
Call(o, v, r) == [op |-> o, item |-> v, result |-> r]

\* An operation that finishes changes the item and result of that call only.
LEMMA Finishes ==
    ASSUME DriverTypes, NEW t \in Threads, NEW j, NEW r, Fifo!Finish(t, j, r)
    PROVE  Calls' = [Calls EXCEPT ![t] = Call(Calls[t].op, j, r)]
<1>1. Calls[t] = Call(Calls[t].op, Calls[t].item, Calls[t].result)
  BY DEF DriverTypes, Call
<1>2. [[Calls[t] EXCEPT !.item = j] EXCEPT !.result = r] = Call(Calls[t].op, j, r)
  <2>1. [Calls[t] EXCEPT !.item = j] = Call(Calls[t].op, j, Calls[t].result)
    BY <1>1 DEF Call
  <2>2. [Call(Calls[t].op, j, Calls[t].result) EXCEPT !.result = r] = Call(Calls[t].op, j, r)
    BY DEF Call
  <2> QED
    BY <2>1, <2>2
<1>3. [Calls EXCEPT ![t].item = j, ![t].result = r]
         = [Calls EXCEPT ![t] = [[Calls[t] EXCEPT !.item = j] EXCEPT !.result = r]]
  BY DEF DriverTypes
<1> QED
  BY <1>2, <1>3 DEF Fifo!Finish, Calls

(* Who is shared what stays the same when nothing comes out and no consumer  *)
(* loses what it was handed.                                                 *)
LEMMA StaysShared ==
    ASSUME Shared, Popped' = Popped, \A c \in Consumers : Got(c)' = Got(c)
    PROVE  Shared'
BY DEF Shared

\* The producer counts i up when it calls do_push: its call then holds the last
\* number.
LEMMA PushInvoked ==
    ASSUME DriverAssumption, DriverInv, Fifo!Invoke(producer0, "push", i), i < Total, i' = i + 1,
           UNCHANGED <<calls, received>>
    PROVE  DriverInv'
<1> USE DriverNumbers DEF DriverInv
<1>1. /\ Calls[producer0].result = "none" /\ Calls[producer0].op = "none"
      /\ Calls' = [Calls EXCEPT ![producer0] = Call("push", i, "none")] /\ Contents' = Contents
  BY DEF Fifo!Invoke, Fifo!Idle, Calls, Call
<1>2. /\ Calls'[producer0].op = "push" /\ Calls'[producer0].item = i
      /\ Calls'[producer0].result = "none"
      /\ \A c \in Consumers : Calls'[c] = Calls[c]
  BY <1>1 DEF DriverTypes, Call
<1>3. DriverTypes'
  BY <1>1 DEF DriverTypes, Call
<1>4. Pushed' = Pushed /\ Popped' = Popped
  BY <1>1, <1>2 DEF Pushed, Popped, DriverTypes
<1>5. \A c \in Consumers : Got(c)' = Got(c)
  BY <1>2 DEF Got, Handed, TakenBy
<1>6. Roles'
  BY <1>2 DEF Roles, DriverTypes
<1>7. InOrder' /\ Ascending'
  BY <1>1, <1>2, <1>4 DEF InOrder, Ascending
<1> QED
  BY <1>3, <1>4, <1>5, <1>6, <1>7, StaysShared

\* When do_push returns, the number is in the queue or already handed out.
LEMMA PushReturned ==
    ASSUME DriverAssumption, DriverInv, Fifo!Return(producer0), UNCHANGED <<i, calls, received>>
    PROVE  DriverInv'
<1> USE DriverNumbers DEF DriverInv
<1>1. /\ Calls[producer0].result # "none"
      /\ Calls' = [Calls EXCEPT ![producer0] = Call("none", None, "none")] /\ Contents' = Contents
  BY DEF Fifo!Return, Fifo!Idle, Calls, Call
<1>2. /\ Calls'[producer0].op = "none" /\ \A c \in Consumers : Calls'[c] = Calls[c]
  BY <1>1 DEF DriverTypes, Call
<1>3. DriverTypes'
  BY <1>1 DEF DriverTypes, Call
<1>4. Pushed' = Pushed /\ Popped' = Popped
  BY <1>1, <1>2 DEF Pushed, Popped, DriverTypes
<1>5. \A c \in Consumers : Got(c)' = Got(c)
  BY <1>2 DEF Got, Handed, TakenBy
<1>6. Roles'
  BY <1>2 DEF Roles, DriverTypes
<1>7. InOrder' /\ Ascending'
  BY <1>1, <1>2, <1>4 DEF InOrder, Ascending
<1> QED
  BY <1>3, <1>4, <1>5, <1>6, <1>7, StaysShared

\* A push that takes effect puts the next number behind the others in the
\* queue.
LEMMA PushTakesEffect ==
    ASSUME DriverAssumption, DriverInv, Fifo!Enqueue(producer0), UNCHANGED <<i, calls, received>>
    PROVE  DriverInv'
<1> USE DriverNumbers DEF DriverInv
<1>1. /\ Calls[producer0].op = "push" /\ Calls[producer0].result = "none"
      /\ Calls[producer0].item = i - 1 /\ i > 0 /\ i - 1 \in Items
      /\ Contents' = Append(Contents, i - 1)
      /\ Calls' = [Calls EXCEPT ![producer0] = Call("push", i - 1, "ok")]
  <2>1. /\ Calls[producer0].op = "push" /\ Calls[producer0].result = "none"
        /\ Contents' = Append(Contents, Calls[producer0].item)
        /\ Fifo!Finish(producer0, Calls[producer0].item, "ok")
    BY DEF Fifo!Enqueue, Fifo!Pending, Calls
  <2>2. Calls[producer0].item = i - 1 /\ i > 0 /\ i - 1 \in Items
    BY <2>1 DEF Roles, DriverTypes
  <2>3. Calls' = [Calls EXCEPT ![producer0] = Call("push", i - 1, "ok")]
    BY <2>1, <2>2, Finishes
  <2> QED
    BY <2>1, <2>2, <2>3
<1>2. /\ Calls'[producer0].op = "push" /\ Calls'[producer0].result = "ok"
      /\ Calls'[producer0].item = i - 1 /\ \A c \in Consumers : Calls'[c] = Calls[c]
  BY <1>1 DEF DriverTypes, Call
<1>3. DriverTypes'
  BY <1>1 DEF DriverTypes, Call
<1>4. /\ Contents \in Seq(Items) /\ Len(Contents) \in Nat
      /\ Len(Contents') = Len(Contents) + 1 /\ Contents'[Len(Contents) + 1] = i - 1
      /\ \A k \in 1 .. Len(Contents) : Contents'[k] = Contents[k]
  BY <1>1, AppendProperties DEF DriverTypes
<1>5. Pushed = i - 1 /\ Pushed' = i /\ Popped' = Popped
  BY <1>1, <1>2, <1>4 DEF Pushed, Popped, DriverTypes
<1>6. InOrder'
  <2>1. Popped' = Popped /\ Popped \in Nat
    BY <1>5 DEF InOrder
  <2>2. Popped + Len(Contents) = i - 1 /\ i \in Nat
    BY <1>4, <1>5 DEF Popped, DriverTypes
  <2>3. ASSUME NEW k \in 1 .. Len(Contents) + 1 PROVE Contents'[k] = Popped + k - 1
    <3>1. CASE k \in 1 .. Len(Contents)
      BY <1>4, <3>1 DEF InOrder
    <3>2. CASE k = Len(Contents) + 1
      BY <1>4, <2>1, <2>2, <3>2
    <3> QED
      BY <1>4, <3>1, <3>2
  <2> QED
    BY <1>4, <2>1, <2>3 DEF InOrder
<1>7. \A c \in Consumers : Got(c)' = Got(c)
  BY <1>2 DEF Got, Handed, TakenBy
<1>8. Roles' /\ Ascending'
  BY <1>1, <1>2 DEF Roles, Ascending, DriverTypes
<1> QED
  BY <1>3, <1>5, <1>6, <1>7, <1>8, StaysShared

\* A consumer that calls pop has nothing more in hand than before.
LEMMA PopInvoked ==
    ASSUME DriverAssumption, DriverInv, NEW c \in Consumers, Fifo!Invoke(c, "pop", None),
           calls[c] < Share, calls' = [calls EXCEPT ![c] = @ + 1], UNCHANGED <<i, received>>
    PROVE  DriverInv'
<1> USE DriverNumbers DEF DriverInv
<1>1. /\ Calls[c].result = "none" /\ Calls[c].op = "none"
      /\ Calls' = [Calls EXCEPT ![c] = Call("pop", None, "none")] /\ Contents' = Contents
  BY DEF Fifo!Invoke, Fifo!Idle, Calls, Call
<1>2. /\ Calls'[c].op = "pop" /\ Calls'[c].result = "none"
      /\ \A u \in Threads \ {c} : Calls'[u] = Calls[u]
  BY <1>1 DEF DriverTypes, Call
<1>3. DriverTypes'
  BY <1>1 DEF DriverTypes, Call
<1>4. Pushed' = Pushed /\ Popped' = Popped
  BY <1>1, <1>2 DEF Pushed, Popped
<1>5. \A d \in Consumers : Got(d)' = Got(d)
  BY <1>1, <1>2 DEF Got, Handed, TakenBy
<1>6. Roles'
  BY <1>1, <1>2 DEF Roles, DriverTypes
<1>7. InOrder' /\ Ascending'
  BY <1>1, <1>2, <1>4 DEF InOrder, Ascending
<1> QED
  BY <1>3, <1>4, <1>5, <1>6, <1>7, StaysShared

\* A pop that takes effect moves the least number of the queue to its caller,
\* above all it had.
LEMMA PopTakesEffect ==
    ASSUME DriverAssumption, DriverInv, NEW c \in Consumers, Fifo!Dequeue(c),
           UNCHANGED <<i, calls, received>>
    PROVE  DriverInv'
<1> USE DriverNumbers DEF DriverInv
<1>1. /\ Calls[c].op = "pop" /\ Calls[c].result = "none"
      /\ Contents # <<>> /\ Contents' = Tail(Contents) /\ Fifo!Finish(c, Head(Contents), "ok")
  BY DEF Fifo!Dequeue, Fifo!Pending, Calls
<1>2. /\ Contents \in Seq(Items) /\ Len(Contents) \in Nat \ {0}
      /\ Len(Contents') = Len(Contents) - 1 /\ Contents' \in Seq(Items)
      /\ \A k \in 1 .. Len(Contents) - 1 : Contents'[k] = Contents[k + 1]
  BY <1>1, HeadTailProperties DEF DriverTypes
<1>3. Head(Contents) = Popped /\ Popped \in Items
  BY <1>1, <1>2 DEF InOrder
<1>4. Calls' = [Calls EXCEPT ![c] = Call("pop", Popped, "ok")]
  BY <1>1, <1>3, Finishes
<1>5. /\ Calls'[c].op = "pop" /\ Calls'[c].result = "ok" /\ Calls'[c].item = Popped
      /\ \A u \in Threads \ {c} : Calls'[u] = Calls[u]
  BY <1>4 DEF DriverTypes, Call
<1>6. DriverTypes'
  BY <1>2, <1>3, <1>4 DEF DriverTypes, Call
<1>7. Pushed' = Pushed /\ Popped' = Popped + 1 /\ Pushed \in Int
  <2>1. Calls'[producer0] = Calls[producer0] /\ i' = i /\ i \in Int
    BY <1>5 DEF DriverTypes
  <2>2. Pushed' = Pushed /\ Pushed \in Int
    BY <2>1 DEF Pushed
  <2> QED
    BY <1>2, <2>2 DEF Popped
<1>8. InOrder'
  <2>1. Popped \in Nat /\ Popped' \in Nat
    BY <1>7 DEF InOrder
  <2>2. ASSUME NEW k \in 1 .. Len(Contents) - 1 PROVE Contents'[k] = Popped' + k - 1
    <3>1. k + 1 \in 1 .. Len(Contents)
      BY <1>2
    <3>2. Contents'[k] = Contents[k + 1] /\ Contents[k + 1] = Popped + (k + 1) - 1
      BY <1>2, <3>1 DEF InOrder
    <3> QED
      BY <1>7, <2>1, <3>2
  <2> QED
    BY <1>2, <2>1, <2>2 DEF InOrder
<1>9. Got(c)' = Got(c) \cup {Popped} /\ \A d \in Consumers \ {c} : Got(d)' = Got(d)
  BY <1>1, <1>5 DEF Got, Handed, TakenBy
<1>10. Shared'
  <2>1. \A x \in 0 .. Popped' - 1 : x = Popped \/ x \in 0 .. Popped - 1
    BY <1>7 DEF InOrder
  <2>2. \A x \in 0 .. Popped' - 1 : \E d \in Consumers : x \in Got(d)'
    BY <1>9, <2>1 DEF Shared
  <2>3. \A d \in Consumers : \A x \in Got(d)' : x \in 0 .. Popped' - 1
    BY <1>7, <1>9 DEF Shared, InOrder
  <2>4. \A d \in Consumers : Popped \notin Got(d)
    BY DEF Shared, InOrder
  <2>5. \A d, e \in Consumers : d # e => Got(d)' \cap Got(e)' = {}
    BY <1>9, <2>4 DEF Shared
  <2> QED
    BY <2>2, <2>3, <2>5 DEF Shared
<1>11. Roles'
  BY <1>1, <1>3, <1>5 DEF Roles
<1>12. Ascending'
  <2>1. \A k \in 1 .. Len(received[c]) : received[c][k] < Popped
    <3>1. \A k \in 1 .. Len(received[c]) : received[c][k] \in Got(c)
      BY DEF Got, TakenBy, DriverTypes
    <3> QED
      BY <3>1 DEF Shared, InOrder
  <2> QED
    BY <1>5, <2>1 DEF Ascending
<1> QED
  BY <1>6, <1>8, <1>10, <1>11, <1>12

\* A consumer that gets its number from pop appends it to what it has received.
LEMMA PopReturned ==
    ASSUME DriverAssumption, DriverInv, NEW c \in Consumers, Fifo!Return(c),
           received' = [received EXCEPT ![c] = Append(@, Calls[c].item)], UNCHANGED <<i, calls>>
    PROVE  DriverInv'
<1> USE DriverNumbers DEF DriverInv
<1>1. /\ Calls[c].result # "none"
      /\ Calls' = [Calls EXCEPT ![c] = Call("none", None, "none")] /\ Contents' = Contents
  BY DEF Fifo!Return, Fifo!Idle, Calls, Call
<1>2. Calls[c].op = "pop" /\ Calls[c].result = "ok" /\ Calls[c].item \in Items
  BY <1>1 DEF Roles, DriverTypes
<1>3. /\ Calls'[c].op = "none" /\ Calls'[c].result = "none"
      /\ \A u \in Threads \ {c} : Calls'[u] = Calls[u]
  BY <1>1 DEF DriverTypes, Call
<1>4. /\ received[c] \in Seq(Items) /\ Len(received[c]) \in Nat
      /\ Append(received[c], Calls[c].item) \in Seq(Items)
      /\ received'[c] = Append(received[c], Calls[c].item)
      /\ \A d \in Consumers \ {c} : received'[d] = received[d]
  BY <1>2, AppendProperties DEF DriverTypes
<1>5. /\ Len(received'[c]) = Len(received[c]) + 1
      /\ received'[c][Len(received[c]) + 1] = Calls[c].item
      /\ \A k \in 1 .. Len(received[c]) : received'[c][k] = received[c][k]
  BY <1>2, <1>4, AppendProperties
<1>6. DriverTypes'
  BY <1>1, <1>2, <1>4 DEF DriverTypes, Call
<1>7. Pushed' = Pushed /\ Popped' = Popped
  BY <1>1, <1>3 DEF Pushed, Popped
<1>8. \A d \in Consumers : Got(d)' = Got(d)
  <2>1. TakenBy(c)' = TakenBy(c) \cup {Calls[c].item}
    <3>1. DOMAIN received[c] = 1 .. Len(received[c]) /\ DOMAIN received'[c] = 1 .. Len(received[c]) + 1
      BY <1>4, <1>5 DEF DriverTypes
    <3> QED
      BY <1>4, <1>5, <3>1 DEF TakenBy
  <2>2. Handed(c) = {Calls[c].item} /\ Handed(c)' = {}
    BY <1>2, <1>3 DEF Handed
  <2>3. ASSUME NEW d \in Consumers \ {c} PROVE Got(d)' = Got(d)
    <3>1. Calls'[d] = Calls[d] /\ received'[d] = received[d]
      BY <1>3, <1>4
    <3> QED
      BY <3>1 DEF Got, TakenBy, Handed
  <2> QED
    BY <2>1, <2>2, <2>3 DEF Got
<1>9. Roles'
  <2>1. Len(received'[c]) = calls'[c] - 0
    <3>1. Len(received[c]) = calls[c] - 1
      BY <1>2 DEF Roles
    <3>2. calls[c] \in Nat /\ calls' = calls
      BY DEF DriverTypes
    <3> QED
      BY <1>4, <1>5, <3>1, <3>2
  <2>2. \A d \in Consumers \ {c} : Calls'[d] = Calls[d] /\ received'[d] = received[d] /\ calls'[d] = calls[d]
    BY <1>3, <1>4
  <2>3. Calls'[producer0] = Calls[producer0]
    BY <1>3
  <2> QED
    BY <1>3, <2>1, <2>2, <2>3 DEF Roles
<1>10. InOrder'
  BY <1>1, <1>7 DEF InOrder
<1>11. Ascending'
  <2>1. \A k, m \in 1 .. Len(received'[c]) : k < m => received'[c][k] < received'[c][m]
    BY <1>2, <1>4, <1>5 DEF Ascending
  <2>2. Calls'[c].result # "ok"
    BY <1>3
  <2>3. \A d \in Consumers \ {c} : received'[d] = received[d] /\ Calls'[d] = Calls[d]
    BY <1>3, <1>4
  <2>4. ASSUME NEW d \in Consumers \ {c}
        PROVE  /\ \A k, m \in 1 .. Len(received'[d]) : k < m => received'[d][k] < received'[d][m]
               /\ Calls'[d].result = "ok" =>
                      \A k \in 1 .. Len(received'[d]) : received'[d][k] < Calls'[d].item
    BY <2>3 DEF Ascending
  <2> QED
    BY <2>1, <2>2, <2>4 DEF Ascending
<1> QED
  BY <1>6, <1>7, <1>8, <1>9, <1>10, <1>11, StaysShared

\* A step that changes neither queue nor calls nor counters keeps the driver's
\* invariant.
LEMMA Unseen ==
    ASSUME DriverInv, Contents' = Contents, Calls' = Calls, UNCHANGED <<i, calls, received>>
    PROVE  DriverInv'
<1>1. Pushed' = Pushed /\ Popped' = Popped /\ \A c : Got(c)' = Got(c)
  BY DEF Pushed, Popped, Got, Handed, TakenBy
<1>2. DriverTypes' /\ Roles' /\ Ascending'
  BY DEF DriverInv, DriverTypes, Roles, Ascending
<1> QED
  BY <1>1, <1>2, StaysShared DEF DriverInv, InOrder

(* No item and no lock of the driver throws, so no call ends that way.       *)
LEMMA DriverStep ==
    ASSUME DriverAssumption, ~MayThrow, IInv, Carried, IInv', Carried', DriverInv,
           DriverNext \/ UNCHANGED driverVars
    PROVE  DriverInv'
<1> USE DriverNumbers
<1>0. \A t \in Threads : ~Fifo!Throw(t) /\ ~Fifo!Lose(t)
  BY DEF Fifo!Throw, Fifo!Lose
<1>1. CASE \/ UNCHANGED Fifo!vars /\ UNCHANGED <<i, calls, received>>
           \/ UNCHANGED driverVars
  <2>1. CASE UNCHANGED Fifo!vars /\ UNCHANGED <<i, calls, received>>
    BY <2>1, Unseen DEF Fifo!vars, Calls
  <2>2. CASE UNCHANGED driverVars
    <3>1. Count' = Count /\ At({"advanceRead"})' = At({"advanceRead"})
      BY <2>2 DEF driverVars, vars, Count, At
    <3>2. Contents' = Contents
      BY <2>2, <3>1, Sequence, SequenceNext, SameContents DEF driverVars, vars
    <3>3. Calls' = Calls
      BY <2>2 DEF driverVars, vars, Progress, Calls
    <3> QED
      BY <2>2, <3>2, <3>3, Unseen DEF driverVars
  <2> QED
    BY <1>1, <2>1, <2>2
<1>2. CASE producer
  <2>1. CASE i < Total /\ CallPush(producer0, i) /\ i' = i + 1 /\ UNCHANGED <<calls, received>>
    <3>1. i \in Items
      BY <2>1 DEF DriverInv, DriverTypes
    <3>2. Fifo!Invoke(producer0, "push", i)
      BY <2>1, <3>1, StepKinds
    <3> QED
      BY <2>1, <3>2, PushInvoked
  <2>2. CASE do_push(producer0) /\ UNCHANGED <<i, calls, received>>
    <3>1. UNCHANGED Fifo!vars \/ Fifo!Enqueue(producer0) \/ Fifo!Return(producer0)
      BY <1>0, <2>2, StepKinds
    <3> QED
      BY <1>1, <2>2, <3>1, PushTakesEffect, PushReturned
  <2> QED
    BY <1>2, <2>1, <2>2 DEF producer
<1>3. ASSUME NEW c \in Consumers, consumer(c) PROVE DriverInv'
  <2>1. CASE /\ calls[c] < Share /\ CallPop(c)
             /\ calls' = [calls EXCEPT ![c] = @ + 1] /\ UNCHANGED <<i, received>>
    <3>1. Fifo!Invoke(c, "pop", None)
      BY <2>1, StepKinds
    <3> QED
      BY <2>1, <3>1, PopInvoked
  <2>2. CASE /\ pop(c) /\ UNCHANGED <<i, calls>>
             /\ received' = IF pc[c] = "popReturn" /\ pc'[c] = "idle"
                            THEN [received EXCEPT ![c] = Append(@, item[c])] ELSE received
    <3>1. /\ Calls[c].result = (CASE pc[c] \in {"pushed", "popped", "popReturn"} -> "ok"
                                  [] pc[c] \in {"pushCatch", "popCatch", "popThrew"} -> "threw"
                                  [] OTHER -> "none")
          /\ Calls[c].item = (IF pc[c] \in {"pushCatch", "advanceRead"} THEN None ELSE item[c])
      BY DEF Calls, Progress
    <3>2. pc[c] \notin {"popCatch", "popThrew"}
      BY <3>1 DEF DriverInv, DriverTypes
    <3>3. CASE pc[c] = "popReturn"
      <4>1. Fifo!Return(c) /\ pc'[c] = "idle"
        BY <1>0, <2>2, <3>3, StepKinds
      <4>2. Calls[c].item = item[c]
        BY <3>1, <3>3
      <4> QED
        BY <2>2, <3>3, <4>1, <4>2, PopReturned
    <3>4. CASE pc[c] # "popReturn"
      <4>1. UNCHANGED Fifo!vars \/ Fifo!Dequeue(c)
        BY <1>0, <2>2, <3>2, <3>4, StepKinds
      <4> QED
        BY <1>1, <2>2, <3>4, <4>1, PopTakesEffect
    <3> QED
      BY <3>3, <3>4
  <2> QED
    BY <1>3, <2>1, <2>2 DEF consumer
<1> QED
  BY <1>1, <1>2, <1>3 DEF DriverNext

\* Every step of the driver is a step of the buffer's specification.
LEMMA DriverSteps ==
    ASSUME DriverAssumption, DriverInv
    PROVE  DriverNext \/ UNCHANGED driverVars => [Next]_vars
<1> USE DriverNumbers
<1>1. i \in Nat
  BY DEF DriverInv, DriverTypes
<1>2. producer => [Next]_vars
  BY <1>1 DEF producer, Next
<1>3. ASSUME NEW c \in Consumers, consumer(c) PROVE [Next]_vars
  BY <1>3 DEF consumer, Next
<1> QED
  BY <1>2, <1>3 DEF DriverNext, driverVars

(* When each consumer has its share, they have got as many items as were     *)
(* pushed: the places in what they received are as many as the items.        *)
LEMMA AllReceived ==
    ASSUME DriverAssumption, DriverInv, \A c \in Consumers : Len(received[c]) = Share,
           \A c \in Consumers : Handed(c) = {}
    PROVE  Popped = Total
<1> USE DriverNumbers DEF DriverInv
<1> DEFINE Places == Consumers \X (1 .. Share)
           at == [x \in Places |-> received[x[1]][x[2]]]
<1>1. /\ IsFiniteSet(1 .. Share) /\ Cardinality(1 .. Share) = Share
      /\ IsFiniteSet(0 .. Popped - 1) /\ Cardinality(0 .. Popped - 1) = Popped
  <2>1. Popped \in Nat /\ Popped - 1 \in Int /\ Share \in Nat
    BY DEF InOrder
  <2> HIDE DEF DriverInv
  <2>2. /\ IsFiniteSet(1 .. Share)
        /\ Cardinality(1 .. Share) = IF 1 > Share THEN 0 ELSE Share - 1 + 1
    BY <2>1, FS_Interval
  <2>3. /\ IsFiniteSet(0 .. Popped - 1)
        /\ Cardinality(0 .. Popped - 1) = IF 0 > Popped - 1 THEN 0 ELSE (Popped - 1) - 0 + 1
    BY <2>1, FS_Interval
  <2> QED
    BY <2>1, <2>2, <2>3
<1>2. IsFiniteSet(Places) /\ Cardinality(Places) = Cardinality(Consumers) * Share
  BY <1>1, FS_Product
<1>3. \A c \in Consumers : Got(c) = {received[c][k] : k \in 1 .. Share}
  BY DEF Got, TakenBy, DriverTypes
<1>4. at \in [Places -> 0 .. Popped - 1]
  <2>1. \A c \in Consumers : \A k \in 1 .. Share : received[c][k] \in 0 .. Popped - 1
    BY <1>3 DEF Shared
  <2> QED
    BY <2>1
<1>5. \A y \in 0 .. Popped - 1 : \E x \in Places : at[x] = y
  <2> SUFFICES ASSUME NEW y \in 0 .. Popped - 1 PROVE \E x \in Places : at[x] = y
    OBVIOUS
  <2>1. PICK c \in Consumers : y \in Got(c)
    BY DEF Shared
  <2>2. PICK k \in 1 .. Share : received[c][k] = y
    BY <1>3, <2>1
  <2>3. <<c, k>> \in Places /\ at[<<c, k>>] = y
    BY <2>2
  <2> QED
    BY <2>3
<1>6. ASSUME NEW x \in Places, NEW z \in Places, at[x] = at[z] PROVE x = z
  <2> PICK c \in Consumers, k \in 1 .. Share : x = <<c, k>>
    OBVIOUS
  <2> PICK d \in Consumers, m \in 1 .. Share : z = <<d, m>>
    OBVIOUS
  <2>1. received[c][k] = received[d][m]
    BY <1>6
  <2>2. received[c][k] \in Got(c) /\ received[d][m] \in Got(d)
    BY <1>3
  <2>3. c = d
    BY <2>1, <2>2 DEF Shared
  <2>4. k = m
    <3>1. received[c][k] \in Nat /\ received[c][m] \in Nat
      <4>1. received[c] \in Seq(Items) /\ Len(received[c]) = Share /\ m \in 1 .. Share
        BY DEF DriverTypes
      <4>2. received[c][k] \in Items /\ received[c][m] \in Items
        BY <4>1, ElementOfSeq
      <4> QED
        BY <4>2
    <3>2. k < m => received[c][k] < received[c][m]
      BY DEF Ascending
    <3>3. m < k => received[c][m] < received[c][k]
      BY DEF Ascending
    <3> QED
      BY <2>1, <2>3, <3>1, <3>2, <3>3
  <2> QED
    BY <2>3, <2>4
<1>7. ExistsBijection(Places, 0 .. Popped - 1)
  <2> HIDE DEF Places, at
  <2>1. at \in Bijection(Places, 0 .. Popped - 1)
    BY <1>4, <1>5, <1>6 DEF Bijection, Injection, Surjection, IsInjective
  <2> QED
    BY <2>1 DEF ExistsBijection
<1>8. Popped = Cardinality(Consumers) * Share
  <2> HIDE DEF Places
  <2> QED
    BY <1>1, <1>2, <1>7, FS_Bijection
<1>9. Cardinality(Consumers) \in Nat
  BY FS_CardinalityType
<1> QED
  BY <1>8, <1>9 DEF Total

\* The driver's invariant says of the lists of the consumers what
\* EachOnceInOrder says.
LEMMA InOrderOnce ==
    ASSUME DriverAssumption, DriverInv, IInv, Carried
    PROVE  EachOnceInOrder
<1> USE DriverNumbers DEF DriverInv
<1>1. \A c, d \in Consumers : c # d => TakenBy(c) \cap TakenBy(d) = {}
  BY DEF Shared, Got
<1>2. ASSUME NEW c \in Consumers, NEW k \in 2 .. Len(received[c])
      PROVE  received[c][k-1] < received[c][k]
  <2>1. Len(received[c]) \in Nat
    BY DEF DriverTypes
  <2>2. k - 1 \in 1 .. Len(received[c]) /\ k \in 1 .. Len(received[c]) /\ k - 1 < k
    BY <2>1
  <2> QED
    BY <2>2 DEF Ascending
<1>3. ASSUME Finished
      PROVE  UNION {TakenBy(c) : c \in Consumers} = Items /\ Count = 0
  <2>1. \A t \in Threads : Calls[t].op = "none" /\ Calls[t].result = "none"
    BY <1>3 DEF Finished, At, Calls, Progress, Pushing, Popping
  <2>2. \A c \in Consumers : Len(received[c]) = Share /\ Handed(c) = {}
    <3>1. \A c \in Consumers : Len(received[c]) = calls[c] - 0 /\ calls[c] = Share
      BY <1>3, <2>1 DEF Roles, Finished
    <3> QED
      BY <2>1, <3>1 DEF Handed
  <2>3. Popped = Total
    BY <2>2, AllReceived
  <2>4. Pushed = Total
    BY <1>3, <2>1 DEF Pushed, Finished
  <2>5. Len(Contents) = 0
    BY <2>3, <2>4 DEF Popped, DriverTypes
  <2>6. Count = 0
    BY <2>5, Sequence DEF Shape
  <2>7. \A c \in Consumers : TakenBy(c) = Got(c)
    BY <2>2 DEF Got
  <2>8. \A x : x \in Items <=> \E c \in Consumers : x \in TakenBy(c)
    BY <2>3, <2>7 DEF Shared
  <2> QED
    BY <2>6, <2>8
<1> QED
  BY <1>1, <1>2, <1>3 DEF EachOnceInOrder

DeliveryInv == IInv /\ Carried /\ DriverInv

(* The driver starts in the invariant of its deliveries and stays there.     *)
THEOREM DeliveryInitially ==
    ASSUME DriverAssumption
    PROVE  DriverInit => DeliveryInv
BY Initially, CarriedInitially, DriverInitially DEF DriverInit, DeliveryInv

\* Buffer and driver together keep their invariant when the assignment of an
\* item, an int here, cannot throw.
THEOREM DeliveryInductive ==
    ASSUME DriverAssumption, ~MayThrow
    PROVE  DeliveryInv /\ [DriverNext]_driverVars => DeliveryInv'
<1> SUFFICES ASSUME DeliveryInv, [DriverNext]_driverVars PROVE DeliveryInv'
  OBVIOUS
<1> USE DEF DeliveryInv
<1>1. [Next]_vars
  BY DriverSteps
<1>2. IInv' /\ Carried'
  BY <1>1, Inductive, CarriedInductive
<1> QED
  BY <1>2, DriverStep

\* That invariant implies the property of the driver.
THEOREM DeliveryInOrder ==
    ASSUME DriverAssumption
    PROVE  DeliveryInv => EachOnceInOrder
BY InOrderOnce DEF DeliveryInv

(* EachOnceInOrder: for any number of consumers, any share and any capacity, *)
(* each item that the producer of AdditionalInCpp20() pushes reaches exactly *)
(* one consumer, and each consumer sees its items in order (296-322).        *)
THEOREM DriverDelivers ==
    ASSUME DriverAssumption, ~MayThrow
    PROVE  DriverInit /\ [][DriverNext]_driverVars => []EachOnceInOrder
BY DeliveryInitially, DeliveryInductive, DeliveryInOrder, PTL
=============================================================================
