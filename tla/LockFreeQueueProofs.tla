------------------------ MODULE LockFreeQueueProofs ------------------------
(* LockFreeQueue is free of data races and implements a bounded FIFO queue,  *)
(* for every capacity and every set of items.                                *)
EXTENDS LockFreeQueue, SequenceTheorems, TLAPS

(* Slots from the front on that hold elements, and the one the writer has    *)
(* written and not yet counted.                                              *)
Length == size_ + (IF wpc = "fetchAdd" THEN 1 ELSE 0)
InWindow(s) == (Front <= s /\ s < Front + Length) \/ s < Front + Length - N
Written == IF wpc = "fetchAdd" THEN (write_pos_ + N - 1) % N ELSE write_pos_

(* Between its load and its read-modify-write each thread keeps the right    *)
(* the load gave it: the other one can only give it more.                    *)
Rights ==
    /\ wpc \in {"store", "advance", "fetchAdd"} => size_ < N
    /\ rpc \in {"move", "advance", "fetchSub"} => size_ > 0

InHand ==
    /\ wpc \in {"load", "store", "advance", "fetchAdd", "added"} => t \in Items
    /\ wpc = "idle" => t = None
    /\ Taken => val \in Items
    /\ rpc \in {"idle", "load", "move", "thrown"} => val = None

Ends == write_pos_ = Front + Length \/ write_pos_ = Front + Length - N

Slots ==
    /\ \A s \in 0 .. N-1 : InWindow(s) /\ ~(Taken /\ s = Front) => buffer_[s] \in Items
    /\ wpc \in {"advance", "fetchAdd"} => buffer_[Written] = t

IInv == TypeOK /\ Rights /\ InHand /\ Ends /\ Slots

-----------------------------------------------------------------------------
\* Modulo N of a position that passed the end at most once is a subtraction.
LEMMA Wrap ==
    ASSUME NEW a \in 0 .. 2*N - 1
    PROVE  a % N = IF a < N THEN a ELSE a - N
<1>1. N \in Nat /\ N > 0
  BY QueueAssumption
<1>2. CASE a < N
  BY <1>1, <1>2
<1>3. CASE a >= N
  <2>1. a = N * 1 + (a - N) /\ a - N \in 0 .. N-1
    BY <1>1, <1>3
  <2> QED
    BY <1>1, <1>3, <2>1
<1> QED
  BY <1>1, <1>2, <1>3

\* The positions after and before p, around the end of the ring.
LEMMA Neighbours ==
    ASSUME NEW p \in 0 .. N-1
    PROVE  /\ (p + 1) % N = IF p = N-1 THEN 0 ELSE p + 1
           /\ (p + N - 1) % N = IF p = 0 THEN N-1 ELSE p - 1
<1>1. N \in Nat /\ N > 0
  BY QueueAssumption
<1>2. p + 1 \in 0 .. 2*N - 1 /\ p + N - 1 \in 0 .. 2*N - 1
  BY <1>1
<1> QED
  BY <1>1, <1>2, Wrap

(* The positions of the two ends, without the modulo.                        *)
LEMMA Positions ==
    ASSUME TypeOK
    PROVE  /\ Front = IF rpc # "fetchSub" THEN read_pos_
                      ELSE IF read_pos_ = 0 THEN N-1 ELSE read_pos_ - 1
           /\ Written = IF wpc # "fetchAdd" THEN write_pos_
                        ELSE IF write_pos_ = 0 THEN N-1 ELSE write_pos_ - 1
           /\ Front \in 0 .. N-1 /\ Written \in 0 .. N-1
BY QueueAssumption, Neighbours DEF TypeOK, Front, Written

(* A step that moves neither end keeps what is said of the slots if it does  *)
(* not write one and keeps what is in hand.                                  *)
LEMMA Quiet ==
    ASSUME IInv, TypeOK', Rights', InHand',
           UNCHANGED <<buffer_, write_pos_>>, Front' = Front, Length' = Length,
           wpc' \in {"advance", "fetchAdd"} => UNCHANGED <<wpc, t>>,
           Taken' = Taken
    PROVE  IInv'
<1>1. Ends' /\ \A x : InWindow(x)' <=> InWindow(x)
  BY DEF IInv, Ends, InWindow
<1> QED
  BY <1>1 DEF IInv, Slots, Written

\* The invariant holds of an empty queue.
THEOREM Initially == Init => IInv
BY QueueAssumption DEF Init, IInv, TypeOK, Rights, InHand, Ends, Slots, InWindow, Length, Front,
   Written, Taken

\* Every statement of do_push and pop keeps the invariant.
THEOREM Inductive == IInv /\ [Next]_vars => IInv'
<1> SUFFICES ASSUME IInv, [Next]_vars PROVE IInv'
  OBVIOUS
<1> USE QueueAssumption DEF WGo, RGo, writer, reader
<1>1. ASSUME NEW i \in Items, CallPush(i) PROVE IInv'
  <2>1. TypeOK' /\ Rights' /\ InHand'
    BY <1>1 DEF IInv, TypeOK, Rights, InHand, Taken, CallPush
  <2>2. /\ UNCHANGED <<buffer_, write_pos_>> /\ Front' = Front /\ Length' = Length
        /\ wpc' \in {"advance", "fetchAdd"} => UNCHANGED <<wpc, t>>
        /\ Taken' = Taken
    BY <1>1 DEF IInv, TypeOK, Front, Length, Taken, CallPush
  <2> QED
    BY <2>1, <2>2, Quiet
<1>2. ASSUME LoadFull PROVE IInv'
  <2>1. TypeOK' /\ Rights' /\ InHand'
    BY <1>2 DEF IInv, TypeOK, Rights, InHand, Taken, LoadFull
  <2>2. /\ UNCHANGED <<buffer_, write_pos_>> /\ Front' = Front /\ Length' = Length
        /\ wpc' \in {"advance", "fetchAdd"} => UNCHANGED <<wpc, t>>
        /\ Taken' = Taken
    BY <1>2 DEF IInv, TypeOK, Front, Length, Taken, LoadFull
  <2> QED
    BY <2>1, <2>2, Quiet
<1>3. ASSUME ReturnPush PROVE IInv'
  <2>1. TypeOK' /\ Rights' /\ InHand'
    BY <1>3 DEF IInv, TypeOK, Rights, InHand, Taken, ReturnPush
  <2>2. /\ UNCHANGED <<buffer_, write_pos_>> /\ Front' = Front /\ Length' = Length
        /\ wpc' \in {"advance", "fetchAdd"} => UNCHANGED <<wpc, t>>
        /\ Taken' = Taken
    BY <1>3 DEF IInv, TypeOK, Front, Length, Taken, ReturnPush
  <2> QED
    BY <2>1, <2>2, Quiet
<1>4. ASSUME CallPop PROVE IInv'
  <2>1. TypeOK' /\ Rights' /\ InHand'
    BY <1>4 DEF IInv, TypeOK, Rights, InHand, Taken, CallPop
  <2>2. /\ UNCHANGED <<buffer_, write_pos_>> /\ Front' = Front /\ Length' = Length
        /\ wpc' \in {"advance", "fetchAdd"} => UNCHANGED <<wpc, t>>
        /\ Taken' = Taken
    BY <1>4 DEF IInv, TypeOK, Front, Length, Taken, CallPop
  <2> QED
    BY <2>1, <2>2, Quiet
<1>5. ASSUME LoadEmpty PROVE IInv'
  <2>1. TypeOK' /\ Rights' /\ InHand'
    BY <1>5 DEF IInv, TypeOK, Rights, InHand, Taken, LoadEmpty
  <2>2. /\ UNCHANGED <<buffer_, write_pos_>> /\ Front' = Front /\ Length' = Length
        /\ wpc' \in {"advance", "fetchAdd"} => UNCHANGED <<wpc, t>>
        /\ Taken' = Taken
    BY <1>5 DEF IInv, TypeOK, Front, Length, Taken, LoadEmpty
  <2> QED
    BY <2>1, <2>2, Quiet
<1>6. ASSUME ReturnPop PROVE IInv'
  <2>1. TypeOK' /\ Rights' /\ InHand'
    BY <1>6 DEF IInv, TypeOK, Rights, InHand, Taken, ReturnPop
  <2>2. /\ UNCHANGED <<buffer_, write_pos_>> /\ Front' = Front /\ Length' = Length
        /\ wpc' \in {"advance", "fetchAdd"} => UNCHANGED <<wpc, t>>
        /\ Taken' = Taken
    BY <1>6 DEF IInv, TypeOK, Front, Length, Taken, ReturnPop
  <2> QED
    BY <2>1, <2>2, Quiet
<1>7. ASSUME Store PROVE IInv'
  <2>1. TypeOK' /\ Rights' /\ InHand'
    BY <1>7 DEF IInv, TypeOK, Rights, InHand, Taken, Store
  <2>2. Front' = Front /\ Length' = Length /\ Written = write_pos_ /\ Written' = write_pos_
    BY <1>7 DEF Front, Length, Written, Store
  <2>3. Ends' /\ \A x : InWindow(x)' <=> InWindow(x)
    BY <1>7, <2>2 DEF IInv, Ends, InWindow, Store
  <2>4. ~InWindow(write_pos_)
    BY <1>7, Positions DEF IInv, TypeOK, Rights, Ends, InWindow, Length, Store
  <2>5. Slots'
    BY <1>7, <2>2, <2>3, <2>4 DEF IInv, TypeOK, Slots, Taken, Store
  <2> QED
    BY <2>1, <2>3, <2>5 DEF IInv
<1>8. ASSUME AdvanceWrite PROVE IInv'
  <2>1. TypeOK' /\ Rights' /\ InHand'
    BY <1>8, Neighbours DEF IInv, TypeOK, Rights, InHand, Taken, AdvanceWrite
  <2>2. Front' = Front /\ Length' = Length + 1 /\ Written = write_pos_ /\ Written' = write_pos_
    <3>1. write_pos_ \in 0 .. N-1 /\ write_pos_' \in 0 .. N-1
      BY <2>1 DEF IInv, TypeOK
    <3>2. write_pos_' = IF write_pos_ = N-1 THEN 0 ELSE write_pos_ + 1
      BY <1>8, <3>1, Neighbours DEF AdvanceWrite
    <3>3. (write_pos_' + N - 1) % N = IF write_pos_' = 0 THEN N-1 ELSE write_pos_' - 1
      BY <3>1, Neighbours
    <3>4. (write_pos_' + N - 1) % N = write_pos_
      BY <3>1, <3>2, <3>3
    <3> QED
      BY <1>8, <3>4 DEF IInv, TypeOK, Front, Length, Written, AdvanceWrite
  <2>3. Length \in 0 .. N-1
    BY <1>8 DEF IInv, TypeOK, Rights, Length, AdvanceWrite
  <2>4. Ends'
    <3>1. write_pos_ \in 0 .. N-1 /\ Front \in 0 .. N-1
      BY Positions DEF IInv, TypeOK
    <3>2. write_pos_' = IF write_pos_ = N-1 THEN 0 ELSE write_pos_ + 1
      BY <1>8, <3>1, Neighbours DEF AdvanceWrite
    <3> QED
      BY <2>2, <2>3, <3>1, <3>2 DEF IInv, Ends
  <2>5. \A x \in 0 .. N-1 : InWindow(x)' => InWindow(x) \/ x = write_pos_
    BY <2>2, <2>3, Positions DEF IInv, TypeOK, Ends, InWindow
  <2>6. Slots'
    BY <1>8, <2>2, <2>5 DEF IInv, TypeOK, Slots, InHand, Taken, AdvanceWrite
  <2> QED
    BY <2>1, <2>4, <2>6 DEF IInv
<1>9. ASSUME FetchAdd PROVE IInv'
  <2>1. TypeOK' /\ Rights' /\ InHand'
    BY <1>9 DEF IInv, TypeOK, Rights, InHand, Taken, FetchAdd
  <2>2. /\ UNCHANGED <<buffer_, write_pos_>> /\ Front' = Front /\ Length' = Length
        /\ wpc' \notin {"advance", "fetchAdd"} /\ Taken' = Taken
    BY <1>9 DEF IInv, TypeOK, Front, Length, Taken, FetchAdd
  <2> QED
    BY <2>1, <2>2, Quiet
<1>10. ASSUME Move PROVE IInv'
  <2>1. TypeOK' /\ Rights' /\ Front = read_pos_ /\ Front' = read_pos_ /\ Length' = Length
    BY <1>10 DEF IInv, TypeOK, Rights, Front, Length, Move
  <2>2. Ends' /\ \A x : InWindow(x)' <=> InWindow(x)
    BY <1>10, <2>1 DEF IInv, Ends, InWindow, Move
  <2>3. InWindow(read_pos_) /\ ~Taken
    BY <1>10, <2>1 DEF IInv, TypeOK, Rights, InWindow, Length, Taken, Move
  <2>4. buffer_[read_pos_] \in Items
    BY <2>3 DEF IInv, TypeOK, Slots
  <2>5. InHand'
    BY <1>10, <2>4 DEF IInv, InHand, Taken, Move
  <2>6. wpc \in {"advance", "fetchAdd"} => Written # read_pos_
    BY <1>10, <2>1, Positions DEF IInv, TypeOK, Rights, Ends, Length, Move
  <2>7. Slots'
    BY <1>10, <2>1, <2>2, <2>3, <2>6, Positions
    DEF IInv, TypeOK, Slots, Taken, Written, Move
  <2> QED
    BY <2>1, <2>2, <2>5, <2>7 DEF IInv
<1>11. ASSUME AdvanceRead PROVE IInv'
  <2>1. TypeOK' /\ Rights' /\ InHand'
    BY <1>11, Neighbours DEF IInv, TypeOK, Rights, InHand, Taken, AdvanceRead
  <2>2. /\ UNCHANGED <<buffer_, write_pos_>> /\ Length' = Length
        /\ UNCHANGED <<wpc, t>> /\ Taken' = Taken
    BY <1>11 DEF Length, Taken, AdvanceRead
  <2>3. Front = read_pos_ /\ Front' = read_pos_
    <3>1. read_pos_ \in 0 .. N-1 /\ read_pos_' \in 0 .. N-1
      BY <2>1 DEF IInv, TypeOK
    <3>2. read_pos_' = IF read_pos_ = N-1 THEN 0 ELSE read_pos_ + 1
      BY <1>11, <3>1, Neighbours DEF AdvanceRead
    <3>3. (read_pos_' + N - 1) % N = IF read_pos_' = 0 THEN N-1 ELSE read_pos_' - 1
      BY <3>1, Neighbours
    <3>4. (read_pos_' + N - 1) % N = read_pos_
      BY <3>1, <3>2, <3>3
    <3> QED
      BY <1>11, <3>4 DEF Front, AdvanceRead
  <2> QED
    BY <2>1, <2>2, <2>3, Quiet
<1>12. ASSUME FetchSub PROVE IInv'
  <2>1. TypeOK' /\ Rights' /\ InHand'
    BY <1>12 DEF IInv, TypeOK, Rights, InHand, Taken, FetchSub
  <2>2. /\ Length' = Length - 1 /\ Length \in 1 .. N /\ Taken /\ ~Taken'
        /\ Front' = IF Front = N-1 THEN 0 ELSE Front + 1
    BY <1>12, Positions DEF IInv, TypeOK, Rights, Length, Front, Taken, FetchSub
  <2>3. Ends'
    BY <1>12, <2>2, Positions DEF IInv, TypeOK, Ends, FetchSub
  <2>4. \A x \in 0 .. N-1 : InWindow(x)' => InWindow(x) /\ x # Front
    BY <2>2, Positions DEF IInv, InWindow
  <2>5. Slots'
    BY <1>12, <2>2, <2>4 DEF IInv, Slots, Written, FetchSub
  <2> QED
    BY <2>1, <2>3, <2>5 DEF IInv
<1>13. CASE UNCHANGED vars
  BY <1>13 DEF vars, IInv, TypeOK, Rights, InHand, Ends, Slots, InWindow, Length, Front, Written, Taken
<1> QED
  BY <1>1, <1>2, <1>3, <1>4, <1>5, <1>6, <1>7, <1>8, <1>9, <1>10, <1>11, <1>12, <1>13
  DEF Next, do_push, pop

\* The invariant holds in every state, for any capacity.
THEOREM Invariance == Spec => []IInv
<1> QED
  BY Initially, Inductive, PTL DEF Spec

(* TypeOK: size_ never leaves 0 .. N, so that fetch_sub does not wrap.       *)
THEOREM TypeCorrect == Spec => []TypeOK
<1>1. IInv => TypeOK
  BY DEF IInv
<1> QED
  BY <1>1, Invariance, PTL

(* NoDataRace: the unlocked accesses at 194 and 215 never meet.              *)
THEOREM RaceFree == Spec => []NoDataRace
<1>1. IInv => NoDataRace
  <2> SUFFICES ASSUME IInv, wpc = "store", rpc = "move", write_pos_ = read_pos_ PROVE FALSE
    BY DEF NoDataRace
  <2>1. size_ \in 1 .. N-1 /\ Length = size_ /\ Front = read_pos_
    BY QueueAssumption DEF IInv, TypeOK, Rights, Length, Front
  <2> QED
    BY <2>1, QueueAssumption DEF IInv, TypeOK, Ends
<1> QED
  BY <1>1, Invariance, PTL

(* SlotsHandedOver: the reader moves from finished slots only, the writer    *)
(* writes to released slots only.                                            *)
THEOREM HandedOver == Spec => []SlotsHandedOver
<1>1. ASSUME IInv, rpc = "move" PROVE buffer_[read_pos_] # None
  <2>1. Front = read_pos_ /\ ~Taken /\ InWindow(read_pos_) /\ read_pos_ \in 0 .. N-1
    BY <1>1, QueueAssumption DEF IInv, TypeOK, Rights, InWindow, Length, Front, Taken
  <2> QED
    BY <1>1, <2>1, QueueAssumption DEF IInv, Slots
<1>2. ASSUME IInv, wpc = "store", Taken PROVE write_pos_ # Front
  <2>1. size_ \in 1 .. N-1 /\ Length = size_
    BY <1>2, QueueAssumption DEF IInv, TypeOK, Rights, Length, Taken
  <2> QED
    BY <1>2, <2>1, Positions, QueueAssumption DEF IInv, Ends
<1>3. IInv => SlotsHandedOver
  BY <1>1, <1>2 DEF SlotsHandedOver
<1> QED
  BY <1>3, Invariance, PTL

-----------------------------------------------------------------------------
(* The refinement.  Contents is a sequence of size_ items; the k-th lies k-1 *)
(* slots after the front.                                                    *)
Slot(k) == IF Front + k - 1 < N THEN Front + k - 1 ELSE Front + k - 1 - N

Shape ==
    /\ Contents \in Seq(Items) /\ Len(Contents) = size_ /\ size_ \in 0 .. N
    /\ \A k \in 1 .. size_ :
           /\ (Front + k - 1) % N = Slot(k) /\ Slot(k) \in 0 .. N-1
           /\ Contents[k] = IF k = 1 /\ Taken THEN val ELSE buffer_[Slot(k)]

\* The positions of Contents are the slots counted from Front.
LEMMA Sequence == IInv => Shape
<1> SUFFICES ASSUME IInv PROVE Shape
  OBVIOUS
<1>1. Front \in 0 .. N-1 /\ size_ \in 0 .. N /\ N \in Nat
  BY Positions, QueueAssumption DEF IInv, TypeOK
<1>2. ASSUME NEW k \in 1 .. size_
      PROVE  (Front + k - 1) % N = Slot(k) /\ Slot(k) \in 0 .. N-1
  <2> DEFINE a == Front + k - 1
  <2>1. a \in 0 .. 2*N - 1
    BY <1>1
  <2> HIDE DEF a
  <2>2. a % N = IF a < N THEN a ELSE a - N
    BY <2>1, Wrap
  <2> QED
    BY <1>1, <2>2 DEF Slot, a
<1>3. ASSUME NEW k \in 1 .. size_ PROVE Contents[k] \in Items
  <2>1. InWindow(Slot(k)) /\ (k # 1 => Slot(k) # Front)
    BY <1>1, <1>2 DEF InWindow, Length, Slot
  <2>2. ~(k = 1 /\ Taken) => buffer_[Slot(k)] \in Items
    BY <1>2, <2>1 DEF IInv, Slots
  <2> QED
    BY <1>2, <2>2 DEF IInv, InHand, Contents
<1>4. Contents \in Seq(Items) /\ Len(Contents) = size_
  BY <1>1, <1>3 DEF Contents
<1> QED
  BY <1>1, <1>2, <1>4 DEF Contents, Shape

(* The calls of the two threads, and how a step of one of them shows.        *)
Calls == [p \in {"writer", "reader"} |-> Progress(p)]

\* The same of the next state.
LEMMA SequenceNext == IInv' => Shape'
BY Sequence, PTL

\* A new queue is an empty abstract queue without calls.
THEOREM InitRefines == Init => Fifo!Init
<1> SUFFICES ASSUME Init PROVE Fifo!Init
  OBVIOUS
<1>1. Contents = <<>>
  BY DEF Init, Contents
<1>2. Calls = [p \in {"writer", "reader"} |-> Fifo!Idle]
  BY DEF Init, Calls, Progress, Taken, Fifo!Idle
<1> QED
  BY <1>1, <1>2 DEF Fifo!Init, Calls

(* Every step of the queue is a step of the abstract one, or invisible.      *)
THEOREM StepRefines == IInv /\ IInv' /\ [Next]_vars => [Fifo!Next]_(Fifo!vars)
<1> SUFFICES ASSUME IInv, IInv', [Next]_vars PROVE [Fifo!Next]_(Fifo!vars)
  OBVIOUS
<1> USE QueueAssumption DEF WGo, RGo, writer, reader
<1>1. ASSUME NEW i \in Items, CallPush(i) PROVE Fifo!Invoke("writer", "push", i)
  <2>1. Contents' = Contents
    BY <1>1 DEF CallPush, Contents, Front, Taken
  <2> QED
    BY <1>1, <2>1 DEF CallPush, IInv, InHand, Fifo!Invoke, Fifo!Idle, Progress, Taken
<1>2. ASSUME LoadFull PROVE Fifo!Refuse("writer") \/ UNCHANGED Fifo!vars
  <2>1. Contents' = Contents /\ Len(Contents) = size_
    BY <1>2, Sequence DEF Shape, LoadFull, Contents, Front, Taken
  <2>2. CASE size_ = N
    BY <1>2, <2>1, <2>2 DEF LoadFull, Fifo!Refuse, Fifo!Pending, Fifo!Finish, Progress, Taken
  <2>3. CASE size_ # N
    BY <1>2, <2>1, <2>3 DEF LoadFull, Fifo!vars, Progress, Taken
  <2> QED
    BY <2>2, <2>3
<1>3. ASSUME Store PROVE Fifo!Throw("writer") \/ UNCHANGED Fifo!vars
  <2>1. Contents' = Contents
    <3>1. size_' = size_ /\ Front' = Front /\ Taken' = Taken /\ val' = val
      BY <1>3 DEF Store, Front, Taken
    <3>2. write_pos_ = Front + size_ \/ write_pos_ = Front + size_ - N
      BY <1>3 DEF Store, IInv, TypeOK, Ends, Length
    <3>3. Front \in 0 .. N-1 /\ size_ \in 0 .. N-1 /\ write_pos_ \in 0 .. N-1
      BY <1>3, Positions DEF Store, IInv, TypeOK, Rights
    <3>4. \A k \in 1 .. size_ : Slot(k) # write_pos_ /\ Slot(k) \in 0 .. N-1
      BY <3>2, <3>3 DEF Slot
    <3>5. \A s \in 0 .. N-1 : s # write_pos_ => buffer_'[s] = buffer_[s]
      BY <1>3 DEF Store, IInv, TypeOK
    <3>6. \A k \in 1 .. size_ : Slot(k)' = Slot(k)
      BY <3>1 DEF Slot
    <3>7. \A k \in 1 .. size_ : Contents'[k] = Contents[k]
      BY <3>1, <3>4, <3>5, <3>6, Sequence, SequenceNext DEF Shape
    <3> QED
      BY <3>1, <3>7, Sequence, SequenceNext, SeqEqual DEF Shape
  <2>2. CASE wpc' = "thrown"
    BY <1>3, <2>1, <2>2 DEF Store, Fifo!Throw, Fifo!Pending, Fifo!Finish, Progress, Taken
  <2>3. CASE wpc' = "advance"
    BY <1>3, <2>1, <2>3 DEF Store, Fifo!vars, Progress, Taken
  <2> QED
    BY <1>3, <2>2, <2>3 DEF Store
<1>4. ASSUME AdvanceWrite PROVE UNCHANGED Fifo!vars
  <2>1. Contents' = Contents
    BY <1>4 DEF AdvanceWrite, Contents, Front, Taken
  <2> QED
    BY <1>4, <2>1 DEF AdvanceWrite, Fifo!vars, Progress, Taken
<1>5. ASSUME FetchAdd PROVE Fifo!Enqueue("writer")
  <2>1. /\ size_ \in 0 .. N-1 /\ size_' = size_ + 1 /\ Front \in 0 .. N-1 /\ t \in Items
        /\ Front' = Front /\ Taken' = Taken /\ val' = val /\ buffer_' = buffer_
    BY <1>5, Positions DEF FetchAdd, IInv, TypeOK, Rights, InHand, Front, Taken
  <2>2. Contents \in Seq(Items) /\ Len(Contents) = size_
    BY Sequence DEF Shape
  <2>3. Contents' \in Seq(Items) /\ Len(Contents') = size_ + 1
    BY <2>1, SequenceNext DEF Shape
  <2>4. \A k \in 1 .. size_ : Contents'[k] = Contents[k]
    BY <2>1 DEF Contents
  <2>5. Contents'[size_ + 1] = t
    <3>1. Slot(size_ + 1) = Written /\ size_ + 1 \in 1 .. size_'
      BY <1>5, <2>1, Positions DEF FetchAdd, IInv, TypeOK, Ends, Length, Slot
    <3>2. ~(size_ + 1 = 1 /\ Taken)
      BY <1>5, <2>1 DEF IInv, Rights, Taken
    <3>3. \A k \in 1 .. size_' : Slot(k)' = Slot(k)
      BY <2>1 DEF Slot
    <3>4. Contents'[size_ + 1] = buffer_[Slot(size_ + 1)]
      BY <2>1, <3>1, <3>2, <3>3, SequenceNext DEF Shape
    <3> QED
      BY <1>5, <3>1, <3>4 DEF FetchAdd, IInv, Slots
  <2>6. Contents' = Append(Contents, t)
    BY <2>1, <2>2, <2>3, <2>4, <2>5, AppendProperties, SeqEqual
  <2>7. wpc = "fetchAdd" /\ wpc' = "added" /\ t' = t /\ rpc' = rpc /\ val' = val
    BY <1>5 DEF FetchAdd
  <2>8. Fifo!Pending("writer", "push") /\ Fifo!Finish("writer", t, "ok")
    BY <2>7 DEF Fifo!Pending, Fifo!Finish, Progress, Taken
  <2>9. Progress("writer").item = t
    BY <2>7 DEF Progress
  <2> QED
    BY <2>1, <2>2, <2>6, <2>8, <2>9 DEF Fifo!Enqueue
<1>6. ASSUME ReturnPush PROVE Fifo!Return("writer")
  <2>1. Contents' = Contents
    BY <1>6 DEF ReturnPush, Contents, Front, Taken
  <2> QED
    BY <1>6, <2>1 DEF ReturnPush, Fifo!Return, Fifo!Idle, Progress, Taken
<1>7. ASSUME CallPop PROVE Fifo!Invoke("reader", "pop", None)
  <2>1. Contents' = Contents
    BY <1>7 DEF CallPop, Contents, Front, Taken
  <2> QED
    BY <1>7, <2>1 DEF CallPop, IInv, InHand, Fifo!Invoke, Fifo!Idle, Progress, Taken
<1>8. ASSUME LoadEmpty PROVE Fifo!Refuse("reader") \/ UNCHANGED Fifo!vars
  <2>1. Contents' = Contents
    BY <1>8 DEF LoadEmpty, Contents, Front, Taken
  <2>2. CASE size_ = 0
    <3>1. Contents = <<>> /\ val = None
      BY <1>8, <2>2 DEF LoadEmpty, Contents, IInv, InHand
    <3>2. rpc = "load" /\ rpc' = "return" /\ val = None /\ val' = None /\ wpc' = wpc /\ t' = t
      BY <1>8, <2>2, <3>1 DEF LoadEmpty
    <3>3. Fifo!Pending("reader", "pop") /\ Fifo!Finish("reader", None, "refused")
      BY <3>2 DEF Fifo!Pending, Fifo!Finish, Progress, Taken
    <3> QED
      BY <2>1, <3>1, <3>3 DEF Fifo!Refuse
  <2>3. CASE size_ > 0
    BY <1>8, <2>1, <2>3 DEF LoadEmpty, Fifo!vars, Progress, Taken
  <2> QED
    BY <2>2, <2>3 DEF IInv, TypeOK
<1>9. ASSUME Move PROVE Fifo!Throw("reader") \/ UNCHANGED Fifo!vars
  <2>1. /\ size_ \in 1 .. N /\ Front = read_pos_ /\ Front' = read_pos_ /\ size_' = size_
        /\ val = None /\ Front \in 0 .. N-1
    BY <1>9 DEF Move, IInv, TypeOK, Rights, InHand, Front
  <2>2. CASE rpc' = "thrown"
    <3>1. Contents' = Contents
      BY <1>9, <2>1, <2>2 DEF Move, Contents, Taken
    <3> QED
      BY <1>9, <2>1, <2>2, <3>1 DEF Move, Fifo!Throw, Fifo!Pending, Fifo!Finish, Progress, Taken
  <2>3. CASE rpc' = "advance"
    <3>1. \A k \in 2 .. size_ : Slot(k) # read_pos_ /\ Slot(k)' = Slot(k)
      BY <2>1 DEF Slot
    <3>2. \A k \in 1 .. size_ : Contents'[k] = Contents[k]
      <4>1. Slot(1) = read_pos_ /\ 1 \in 1 .. size_ /\ 1 \in 1 .. size_' /\ ~Taken /\ Taken'
        BY <1>9, <2>1, <2>3 DEF Move, Slot, Taken
      <4>2. Contents'[1] = Contents[1]
        BY <1>9, <2>1, <2>3, <4>1, Sequence, SequenceNext DEF Move, Shape
      <4>3. \A k \in 2 .. size_ : Contents'[k] = Contents[k]
        BY <1>9, <2>1, <2>3, <3>1, Sequence, SequenceNext DEF Move, Shape, IInv, TypeOK
      <4> QED
        BY <2>1, <4>2, <4>3
    <3>3. Contents' = Contents
      BY <2>1, <3>2, Sequence, SequenceNext, SeqEqual DEF Shape
    <3> QED
      BY <1>9, <2>1, <2>3, <3>3 DEF Move, Fifo!vars, Progress, Taken
  <2> QED
    BY <1>9, <2>2, <2>3 DEF Move
<1>10. ASSUME AdvanceRead PROVE UNCHANGED Fifo!vars
  <2>1. Front' = Front
    <3>1. read_pos_ \in 0 .. N-1 /\ read_pos_' \in 0 .. N-1
      BY DEF IInv, TypeOK
    <3>2. read_pos_' = IF read_pos_ = N-1 THEN 0 ELSE read_pos_ + 1
      BY <1>10, <3>1, Neighbours DEF AdvanceRead
    <3>3. (read_pos_' + N - 1) % N = IF read_pos_' = 0 THEN N-1 ELSE read_pos_' - 1
      BY <3>1, Neighbours
    <3> QED
      BY <1>10, <3>1, <3>2, <3>3 DEF Front, AdvanceRead
  <2>2. Contents' = Contents
    BY <1>10, <2>1 DEF AdvanceRead, Contents, Taken
  <2> QED
    BY <1>10, <2>2 DEF AdvanceRead, Fifo!vars, Progress, Taken
<1>11. ASSUME FetchSub PROVE Fifo!Dequeue("reader")
  <2>1. /\ size_ \in 1 .. N /\ size_' = size_ - 1 /\ Front \in 0 .. N-1 /\ val \in Items
        /\ Front' = (IF Front = N-1 THEN 0 ELSE Front + 1)
        /\ Taken /\ ~Taken' /\ val' = val /\ buffer_' = buffer_
    BY <1>11, Positions DEF FetchSub, IInv, TypeOK, Rights, InHand, Front, Taken
  <2>2. Contents \in Seq(Items) /\ Len(Contents) = size_ /\ Contents # <<>> /\ Contents[1] = val
    BY <2>1, Sequence DEF Shape
  <2>3. Contents' \in Seq(Items) /\ Len(Contents') = size_ - 1
    BY <2>1, SequenceNext DEF Shape
  <2>4. \A k \in 1 .. size_ - 1 : Contents'[k] = Contents[k + 1]
    <3>1. \A k \in 1 .. size_ - 1 : Slot(k)' = Slot(k + 1) /\ k + 1 \in 2 .. size_
      BY <2>1 DEF Slot
    <3>2. \A k \in 2 .. size_ : Contents[k] = buffer_[Slot(k)]
      BY <2>1, Sequence DEF Shape
    <3>3. \A k \in 1 .. size_ - 1 : Contents'[k] = buffer_'[Slot(k)']
      BY <2>1, SequenceNext DEF Shape
    <3> QED
      BY <2>1, <3>1, <3>2, <3>3
  <2>5. Contents' = Tail(Contents) /\ Head(Contents) = val
    <3>1. /\ Tail(Contents) \in Seq(Items) /\ Len(Tail(Contents)) = size_ - 1
          /\ \A k \in 1 .. size_ - 1 : Tail(Contents)[k] = Contents[k + 1]
      BY <2>2, HeadTailProperties
    <3> QED
      BY <2>2, <2>3, <2>4, <3>1, SeqEqual
  <2> QED
    BY <1>11, <2>1, <2>2, <2>5
    DEF FetchSub, Fifo!Dequeue, Fifo!Pending, Fifo!Finish, Progress, Taken, IInv
<1>12. ASSUME ReturnPop PROVE Fifo!Return("reader")
  <2>1. Contents' = Contents
    BY <1>12 DEF ReturnPop, Contents, Front, Taken
  <2> QED
    BY <1>12, <2>1 DEF ReturnPop, Fifo!Return, Fifo!Idle, Progress, Taken
<1>13. CASE UNCHANGED vars
  BY <1>13 DEF vars, Fifo!vars, Contents, Progress, Front, Taken
<1> QED
  BY <1>1, <1>2, <1>3, <1>4, <1>5, <1>6, <1>7, <1>8, <1>9, <1>10, <1>11, <1>12, <1>13
  DEF Next, do_push, pop, Fifo!Next

(* ImplementsFifo: a push or a pop takes effect at its fetch_add or          *)
(* fetch_sub, and refuses only at a full or an empty queue.                  *)
THEOREM Refinement == Spec => ImplementsFifo
<1> QED
  BY InitRefines, StepRefines, Invariance, PTL DEF Spec, ImplementsFifo, Fifo!Spec
=============================================================================
