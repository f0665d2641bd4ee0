---------------------------- MODULE ArenaProofs ----------------------------
(* Arena is an allocator whatever the sizes of buffer_, of the alignment and *)
(* of the requests: its blocks never overlap and each goes back where it     *)
(* came from.                                                                *)
EXTENDS Arena, TLAPS

\* Rounding down to a multiple of a gives a multiple of a.
LEMMA MultipleOf == ASSUME NEW m \in Nat, NEW a \in Nat \ {0}
                    PROVE  (m - (m % a)) % a = 0
<1>1. m = a * (m \div a) + (m % a) /\ m \div a \in Nat
  OBVIOUS
<1>2. ASSUME NEW q \in Nat PROVE (a * q) % a = 0
  OBVIOUS
<1>3. m - (m % a) = a * (m \div a)
  BY <1>1
<1> QED BY <1>1, <1>2, <1>3

\* Multiples of a add up to multiples of a.
LEMMA SumOfMultiples == ASSUME NEW m \in Nat, NEW k \in Nat, NEW a \in Nat \ {0},
                               m % a = 0, k % a = 0
                        PROVE  (m + k) % a = 0
<1>1. m = a * (m \div a) /\ m \div a \in Nat /\ k = a * (k \div a) /\ k \div a \in Nat
  OBVIOUS
<1>2. ASSUME NEW p \in Nat, NEW q \in Nat PROVE a * p + a * q = a * (p + q) /\ p + q \in Nat
  OBVIOUS
<1>3. ASSUME NEW q \in Nat PROVE (a * q) % a = 0
  OBVIOUS
<1>4. m + k = a * (m \div a) + a * (k \div a)
  BY <1>1
<1>5. m + k = a * ((m \div a) + (k \div a))
  BY <1>1, <1>2, <1>4
<1> QED BY <1>1, <1>2, <1>3, <1>5

\* What fits is not wrapped around.
LEMMA SmallModulo == ASSUME NEW i \in Nat, NEW k \in Nat, i < k PROVE i % k = i
  OBVIOUS

\* align_up() gives a multiple of the alignment that is large enough: for
\* what is asked for the sum in it does not wrap around.
LEMMA AlignUp == ASSUME NEW n \in Sizes
                 PROVE  /\ align_up(n) \in Nat /\ n <= align_up(n) /\ n \in Nat \ {0}
                        /\ align_up(n) % alignment = 0
<1> DEFINE m == n + alignment - 1
<1>1. n \in Nat \ {0} /\ alignment \in Nat \ {0} /\ m \in Nat /\ m < 2 * (PtrdiffMax + 1)
  BY ArenaAssumption DEF Sizes, ArenaAssumption
<1>2. m % (2 * (PtrdiffMax + 1)) = m
  <2>1. 2 * (PtrdiffMax + 1) \in Nat
    BY ArenaAssumption DEF ArenaAssumption
  <2> QED BY <1>1, <2>1, SmallModulo
<1>3. align_up(n) = m - (m % alignment)
  BY <1>2 DEF align_up
<1>4. m % alignment \in 0 .. alignment - 1
  BY <1>1
<1>5. (m - (m % alignment)) % alignment = 0
  BY <1>1, MultipleOf
<1> QED BY <1>1, <1>3, <1>4, <1>5
-----------------------------------------------------------------------------
TypeInv == /\ ptr_ \in Nat /\ heap \subseteq HeapPlaces
           /\ live \subseteq [p : Nat, n : Sizes]
\* The bytes a block takes up in the buffer, the rounding included.
Apart(b, c) == b.p + align_up(b.n) <= c.p \/ c.p + align_up(c.n) <= b.p
Spaced == /\ \A b \in InBuffer : b.p + align_up(b.n) <= ptr_
          /\ \A b, c \in InBuffer : b # c => Apart(b, c)
OwnPlaces == \A b, c \in live : b.p = c.p => b = c
IInv == TypeInv /\ BelowPtr /\ Spaced /\ HeapBalance /\ OwnPlaces

\* The invariant holds of a new arena, which has nothing allocated.
LEMMA InitInv == Init => IInv
  BY ArenaAssumption DEF Init, IInv, TypeInv, BelowPtr, Spaced, HeapBalance, OwnPlaces, InBuffer, ArenaAssumption

\* allocate, deallocate and reset keep the invariant.
LEMMA NextInv == IInv /\ [Next]_vars => IInv'
<1> SUFFICES ASSUME IInv, [Next]_vars PROVE IInv'
  OBVIOUS
<1> USE ArenaAssumption DEF ArenaAssumption
<1>1. ASSUME NEW n \in Sizes, AllocateHere(n) PROVE IInv'
  <2> DEFINE new == [p |-> ptr_, n |-> n]
  <2>0. ptr_ \in Nat /\ ptr_ <= N /\ ptr_ % alignment = 0 /\ N - ptr_ >= align_up(n)
    BY <1>1 DEF IInv, TypeInv, BelowPtr, AllocateHere, Available
  <2>1. align_up(n) \in Nat /\ n <= align_up(n) /\ n \in Nat \ {0} /\ align_up(n) % alignment = 0
    BY AlignUp
  <2>2. ptr_ < N
    BY <2>0, <2>1
  <2>3. live' = live \cup {new} /\ ptr_' = ptr_ + align_up(n) /\ heap' = heap
    BY <1>1 DEF AllocateHere
  <2>4. InBuffer' = InBuffer \cup {new} /\ pointer_in_buffer(new.p)
    BY <2>0, <2>2, <2>3 DEF InBuffer, pointer_in_buffer
  <2>5. ASSUME NEW b \in InBuffer PROVE b \in [p : Nat, n : Sizes] /\ align_up(b.n) \in Nat /\ b.p + align_up(b.n) <= ptr_ /\ b.n <= align_up(b.n) /\ b.n \in Nat \ {0}
    <3>1. b \in [p : Nat, n : Sizes] /\ b.p + align_up(b.n) <= ptr_
      BY <2>5 DEF IInv, TypeInv, Spaced, InBuffer
    <3> QED BY <3>1, AlignUp
  <2>6. TypeInv'
    BY <2>0, <2>1, <2>3 DEF IInv, TypeInv
  <2>7. BelowPtr'
    <3>1. ptr_' \in 0 .. N /\ ptr_' % alignment = 0
      BY <2>0, <2>1, <2>3, SumOfMultiples
    <3>2. ASSUME NEW b \in InBuffer' PROVE b.p % alignment = 0 /\ b.p + b.n <= ptr_'
      <4>1. CASE b = new
        BY <4>1, <2>0, <2>1, <2>3
      <4>2. CASE b \in InBuffer
        BY <4>2, <2>0, <2>1, <2>3, <2>5 DEF IInv, BelowPtr
      <4> QED BY <2>4, <4>1, <4>2
    <3> QED BY <3>1, <3>2 DEF BelowPtr
  <2>8. Spaced'
    <3>1. ASSUME NEW b \in InBuffer' PROVE b.p + align_up(b.n) <= ptr_'
      BY <2>0, <2>1, <2>3, <2>4, <2>5
    <3>2. ASSUME NEW b \in InBuffer', NEW c \in InBuffer', b # c PROVE Apart(b, c)
      <4>1. CASE b = new
        BY <4>1, <3>2, <2>0, <2>4, <2>5 DEF Apart
      <4>2. CASE c = new
        BY <4>2, <3>2, <2>0, <2>4, <2>5 DEF Apart
      <4>3. CASE b \in InBuffer /\ c \in InBuffer
        BY <4>3, <3>2 DEF IInv, Spaced
      <4> QED BY <2>4, <4>1, <4>2, <4>3
    <3> QED BY <3>1, <3>2 DEF Spaced, Apart
  <2>9. HeapBalance'
    <3>1. {c \in live' : ~pointer_in_buffer(c.p)} = {c \in live : ~pointer_in_buffer(c.p)}
      BY <2>3, <2>4
    <3> QED BY <3>1, <2>2, <2>3 DEF IInv, HeapBalance
  <2>10. OwnPlaces'
    <3>1. ASSUME NEW b \in live, b.p = ptr_ PROVE FALSE
      <4>1. b \in InBuffer
        BY <3>1, <2>0, <2>2 DEF InBuffer, pointer_in_buffer
      <4> QED BY <4>1, <3>1, <2>5, <2>0
    <3> QED BY <3>1, <2>3 DEF IInv, OwnPlaces
  <2> QED BY <2>6, <2>7, <2>8, <2>9, <2>10 DEF IInv
<1>2. ASSUME NEW n \in Sizes, AllocateElsewhere(n) PROVE IInv'
  <2>1. PICK q \in HeapPlaces \ heap : heap' = heap \cup {q} /\ live' = live \cup {[p |-> q, n |-> n]}
    BY <1>2 DEF AllocateElsewhere
  <2>2. ptr_' = ptr_ /\ q \in Nat /\ q >= N /\ ~pointer_in_buffer(q)
    <3>1. ptr_' = ptr_
      BY <1>2 DEF AllocateElsewhere
    <3>2. q \in Nat /\ q >= N
      BY <2>1
    <3> QED BY <3>1, <3>2 DEF pointer_in_buffer
  <2>3. InBuffer' = InBuffer
    BY <2>1, <2>2 DEF InBuffer
  <2>4. TypeInv' /\ BelowPtr' /\ Spaced'
    <3>1. TypeInv'
      BY <2>1, <2>2 DEF IInv, TypeInv
    <3>2. BelowPtr' /\ Spaced'
      BY <2>2, <2>3 DEF IInv, BelowPtr, Spaced, Apart
    <3> QED BY <3>1, <3>2
  <2>5. HeapBalance'
    <3> DEFINE new == [p |-> q, n |-> n]
    <3>1. {c \in live' : ~pointer_in_buffer(c.p)} = {c \in live : ~pointer_in_buffer(c.p)} \cup {new}
      BY <2>1, <2>2
    <3>2. {d.p : d \in {c \in live' : ~pointer_in_buffer(c.p)}} = {d.p : d \in {c \in live : ~pointer_in_buffer(c.p)}} \cup {q}
      <4>1. new.p = q
        OBVIOUS
      <4> HIDE DEF new
      <4> QED BY <3>1, <4>1
    <3>3. ASSUME NEW c \in live' PROVE c.p < N \/ c.p \in heap'
      BY <2>1 DEF IInv, HeapBalance
    <3> QED BY <3>2, <3>3, <2>1 DEF IInv, HeapBalance
  <2>6. OwnPlaces'
    <3>1. ASSUME NEW b \in live PROVE b.p # q
      <4>1. b.p < N \/ b.p \in heap
        BY <3>1 DEF IInv, HeapBalance
      <4>2. q \notin heap /\ q \in Nat /\ q >= N
        BY <2>1, <2>2
      <4> QED BY <4>1, <4>2
    <3> QED BY <2>1, <3>1 DEF IInv, OwnPlaces
  <2> QED BY <2>4, <2>5, <2>6 DEF IInv
<1>3. ASSUME NEW b \in live, DeallocateHere(b) PROVE IInv'
  <2>1. live' = live \ {b} /\ heap' = heap /\ pointer_in_buffer(b.p) /\ b \in InBuffer
        /\ ptr_' = (IF b.p + align_up(b.n) = ptr_ THEN b.p ELSE ptr_)
    BY <1>3 DEF DeallocateHere, InBuffer
  <2>2. InBuffer' = InBuffer \ {b}
    BY <2>1 DEF InBuffer
  <2>3. ASSUME NEW c \in InBuffer PROVE c \in [p : Nat, n : Sizes] /\ align_up(c.n) \in Nat \ {0} /\ c.n <= align_up(c.n) /\ c.n \in Nat
    <3>1. c \in [p : Nat, n : Sizes]
      BY <2>3 DEF IInv, TypeInv, InBuffer
    <3> QED BY <3>1, AlignUp
  <2>4. ASSUME NEW c \in InBuffer' PROVE c.p + align_up(c.n) <= ptr_'
    <3>1. c \in InBuffer /\ c # b /\ Apart(b, c) /\ c.p + align_up(c.n) <= ptr_
      BY <2>1, <2>2, <2>4 DEF IInv, Spaced
    <3> QED BY <3>1, <2>1, <2>3 DEF Apart, IInv, TypeInv
  <2>5. TypeInv'
    BY <2>1, <2>3 DEF IInv, TypeInv
  <2>6. BelowPtr'
    BY <2>1, <2>2, <2>3, <2>4 DEF IInv, BelowPtr, TypeInv, pointer_in_buffer
  <2>7. Spaced'
    BY <2>2, <2>4 DEF IInv, Spaced, Apart
  <2>8. HeapBalance'
    <3>1. {c \in live' : ~pointer_in_buffer(c.p)} = {c \in live : ~pointer_in_buffer(c.p)}
      BY <2>1
    <3> QED BY <3>1, <2>1 DEF IInv, HeapBalance
  <2>9. OwnPlaces'
    BY <2>1 DEF IInv, OwnPlaces
  <2> QED BY <2>5, <2>6, <2>7, <2>8, <2>9 DEF IInv
<1>4. ASSUME NEW b \in live, DeallocateElsewhere(b) PROVE IInv'
  <2>1. live' = live \ {b} /\ heap' = heap \ {b.p} /\ ptr_' = ptr_ /\ ~pointer_in_buffer(b.p)
    BY <1>4 DEF DeallocateElsewhere
  <2>2. InBuffer' = InBuffer
    BY <2>1 DEF InBuffer
  <2>3. TypeInv' /\ BelowPtr' /\ Spaced' /\ OwnPlaces'
    BY <2>1, <2>2 DEF IInv, TypeInv, BelowPtr, Spaced, Apart, OwnPlaces
  <2>4. HeapBalance'
    BY <2>1 DEF IInv, HeapBalance, OwnPlaces
  <2> QED BY <2>3, <2>4 DEF IInv
<1>5. CASE reset
  <2>1. ptr_' = 0 /\ live' = live /\ heap' = heap /\ InBuffer = {} /\ InBuffer' = {}
    BY <1>5 DEF reset, InBuffer
  <2>2. 0 % alignment = 0
    OBVIOUS
  <2> QED BY <2>1, <2>2 DEF IInv, TypeInv, BelowPtr, Spaced, HeapBalance, OwnPlaces
<1>6. CASE UNCHANGED vars
  BY <1>6 DEF vars, IInv, TypeInv, BelowPtr, Spaced, Apart, HeapBalance, OwnPlaces, InBuffer
<1> QED BY <1>1, <1>2, <1>3, <1>4, <1>5, <1>6 DEF Next
-----------------------------------------------------------------------------
\* Blocks lie aligned below ptr_, which stays within buffer_, in every state.
THEOREM Below == Spec => []BelowPtr
<1>1. IInv => BelowPtr
  BY DEF IInv
<1> QED BY <1>1, InitInv, NextInv, PTL DEF Spec

\* ::operator delete gets what ::operator new gave, once, and nothing else.
THEOREM Balance == Spec => []HeapBalance
<1>1. IInv => HeapBalance
  BY DEF IInv
<1> QED BY <1>1, InitInv, NextInv, PTL DEF Spec

\* A block of the buffer shares no byte with any block in use.
LEMMA NoSharedByte ==
    ASSUME IInv, NEW q \in Nat, NEW n \in Sizes,
           \A c \in live : q + n <= c.p \/ c.p + c.n <= q
    PROVE  \A c \in live : Allocator!Bytes([p |-> q, n |-> n]) \cap Allocator!Bytes(c) = {}
<1> TAKE c \in live
<1>1. c \in [p : Nat, n : Sizes] /\ c.n \in Nat /\ n \in Nat
  BY ArenaAssumption DEF IInv, TypeInv, Sizes, ArenaAssumption
<1>2. q + n <= c.p \/ c.p + c.n <= q
  OBVIOUS
<1> QED BY <1>1, <1>2 DEF Allocator!Bytes

\* Each step is a step of the abstract allocator or leaves the blocks alone.
LEMMA StepRefines == IInv /\ [Next]_vars => [Allocator!Next]_live
<1> SUFFICES ASSUME IInv, [Next]_vars PROVE [Allocator!Next]_live
  OBVIOUS
<1> USE ArenaAssumption DEF ArenaAssumption
<1>0. ASSUME NEW c \in live PROVE c \in [p : Nat, n : Sizes] /\ c.n \in Nat /\ c.n <= PtrdiffMax
  BY <1>0 DEF IInv, TypeInv, Sizes
<1>1. ASSUME NEW n \in Sizes, AllocateHere(n) PROVE Allocator!Next
  <2> DEFINE new == [p |-> ptr_, n |-> n]
  <2>1. live' = live \cup {new} /\ N - ptr_ >= align_up(n) /\ ptr_ \in Nat /\ ptr_ <= N
    BY <1>1 DEF AllocateHere, Available, IInv, TypeInv, BelowPtr
  <2>2. align_up(n) \in Nat /\ n <= align_up(n) /\ n \in Nat \ {0}
    BY AlignUp
  <2>3. ASSUME NEW c \in live PROVE ptr_ + n <= c.p \/ c.p + c.n <= ptr_
    <3>1. CASE c \in InBuffer
      BY <1>0, <3>1 DEF IInv, BelowPtr
    <3>2. CASE c \notin InBuffer
      <4>1. c.p >= N
        BY <1>0, <2>3, <3>2 DEF InBuffer, pointer_in_buffer
      <4> QED BY <1>0, <4>1, <2>1, <2>2
    <3> QED BY <3>1, <3>2
  <2>4. \A c \in live : Allocator!Bytes(new) \cap Allocator!Bytes(c) = {}
    BY <2>1, <2>3, NoSharedByte
  <2>5. new \notin live
    <3>1. ~(ptr_ + n <= ptr_)
      BY <2>1, <2>2
    <3> QED BY <3>1, <2>3
  <2> QED BY <2>1, <2>4, <2>5 DEF Allocator!Next, Allocator!Allocate
<1>2. ASSUME NEW n \in Sizes, AllocateElsewhere(n) PROVE Allocator!Next
  <2>1. PICK q \in HeapPlaces \ heap : live' = live \cup {[p |-> q, n |-> n]}
    BY <1>2 DEF AllocateElsewhere
  <2> DEFINE new == [p |-> q, n |-> n]
  <2>2. q \in Nat /\ q >= N /\ n \in Nat \ {0} /\ n <= PtrdiffMax
    BY <2>1 DEF Sizes
  <2>3. ASSUME NEW c \in live PROVE q + n <= c.p \/ c.p + c.n <= q
    <3>1. CASE c \in InBuffer
      <4>1. c.p + c.n <= N
        BY <1>0, <3>1 DEF IInv, BelowPtr, TypeInv
      <4> QED BY <4>1, <1>0, <2>2
    <3>2. CASE c \notin InBuffer
      <4>1. c.p \in heap /\ c.p \in HeapPlaces /\ c.p # q
        BY <1>0, <2>1, <3>2 DEF InBuffer, pointer_in_buffer, IInv, HeapBalance, TypeInv
      <4>2. q + PtrdiffMax <= c.p \/ c.p + PtrdiffMax <= q
        BY <4>1, <2>1, <2>2, <1>0
      <4> QED BY <4>2, <2>2, <1>0
    <3> QED BY <3>1, <3>2
  <2>4. \A c \in live : Allocator!Bytes(new) \cap Allocator!Bytes(c) = {}
    BY <2>2, <2>3, NoSharedByte
  <2>5. new \notin live
    <3>1. ~(q + n <= q)
      BY <2>2
    <3> QED BY <3>1, <2>3
  <2> QED BY <2>1, <2>4, <2>5 DEF Allocator!Next, Allocator!Allocate
<1>3. ASSUME NEW b \in live, DeallocateHere(b) \/ DeallocateElsewhere(b) PROVE Allocator!Next
  BY <1>3 DEF DeallocateHere, DeallocateElsewhere, Allocator!Next, Allocator!Deallocate
<1>4. CASE reset
  BY <1>4 DEF reset
<1>5. CASE UNCHANGED vars
  BY <1>5 DEF vars
<1> QED BY <1>1, <1>2, <1>3, <1>4, <1>5 DEF Next

\* Arena implements the allocator that keeps its blocks apart.
THEOREM Refinement == Spec => IsAnAllocator
<1>1. Init => Allocator!Init
  BY DEF Init, Allocator!Init
<1> QED BY <1>1, InitInv, NextInv, StepRefines, PTL DEF Spec, IsAnAllocator, Allocator!Spec
-----------------------------------------------------------------------------
\* While blocks are given back in the reverse order they leave no gap.
NoGap == lifo => \A x \in 0 .. ptr_ - 1 : Holding(x) # {}

\* What a block of the buffer takes up, the rounding included.
LEMMA TakenUp == ASSUME IInv, NEW b \in InBuffer
                 PROVE  /\ b \in live /\ b.p \in Nat /\ align_up(b.n) \in Nat \ {0} /\ ptr_ \in Nat
                        /\ b.p + align_up(b.n) <= ptr_
                        /\ \A c \in InBuffer : b # c => Apart(b, c)
<1>1. b \in live /\ b \in [p : Nat, n : Sizes] /\ ptr_ \in Nat
  BY DEF IInv, TypeInv, InBuffer
<1>2. align_up(b.n) \in Nat /\ b.n <= align_up(b.n) /\ b.n \in Nat \ {0}
  BY <1>1, AlignUp
<1>3. align_up(b.n) \in Nat \ {0}
  BY <1>2
<1> QED BY <1>1, <1>3 DEF IInv, Spaced

\* The last block given back ends at ptr_, which therefore goes back.
LEMMA NoGapNext == IInv /\ NoGap /\ [Next]_vars => NoGap'
<1> SUFFICES ASSUME IInv, NoGap, [Next]_vars, lifo', NEW x \in 0 .. ptr_' - 1
             PROVE  \E c \in InBuffer' : c.p <= x /\ x < c.p + align_up(c.n)
  BY DEF NoGap, Holding
<1>0. ptr_ \in Nat /\ \A c \in InBuffer : c \in live
  BY DEF IInv, TypeInv, InBuffer
<1>1. ASSUME NEW n \in Sizes, AllocateHere(n) PROVE \E c \in InBuffer' : c.p <= x /\ x < c.p + align_up(c.n)
  <2> DEFINE new == [p |-> ptr_, n |-> n]
  <2>1. live' = live \cup {new} /\ ptr_' = ptr_ + align_up(n) /\ lifo
    BY <1>1 DEF AllocateHere
  <2>2. align_up(n) \in Nat \ {0}
    BY AlignUp
  <2>3. pointer_in_buffer(ptr_) /\ new.p = ptr_ /\ new.n = n
    BY <1>0, <1>1, <2>2, ArenaAssumption DEF AllocateHere, Available, pointer_in_buffer, ArenaAssumption
  <2>4. InBuffer \subseteq InBuffer' /\ new \in InBuffer'
    BY <2>1, <2>3 DEF InBuffer
  <2>5. CASE x < ptr_
    <3>1. \E c \in InBuffer : c.p <= x /\ x < c.p + align_up(c.n)
      BY <1>0, <2>1, <2>5 DEF NoGap, Holding
    <3> QED BY <2>4, <3>1
  <2>6. CASE ptr_ <= x
    <3>1. new.p <= x /\ x < new.p + align_up(new.n)
      BY <1>0, <2>1, <2>2, <2>3, <2>6
    <3> QED BY <2>4, <3>1
  <2> QED BY <1>0, <2>5, <2>6
<1>2. ASSUME NEW n \in Sizes, AllocateElsewhere(n) PROVE \E c \in InBuffer' : c.p <= x /\ x < c.p + align_up(c.n)
  <2>1. live \subseteq live' /\ ptr_' = ptr_ /\ lifo
    BY <1>2 DEF AllocateElsewhere
  <2>2. InBuffer \subseteq InBuffer'
    BY <2>1 DEF InBuffer
  <2> QED BY <2>1, <2>2 DEF NoGap, Holding
<1>3. ASSUME NEW b \in live, DeallocateHere(b) PROVE \E c \in InBuffer' : c.p <= x /\ x < c.p + align_up(c.n)
  <2>1. /\ live' = live \ {b} /\ pointer_in_buffer(b.p) /\ lifo /\ \A c \in InBuffer : c.p <= b.p
        /\ ptr_' = IF b.p + align_up(b.n) = ptr_ THEN b.p ELSE ptr_
    BY <1>3 DEF DeallocateHere
  <2>2. b \in InBuffer /\ InBuffer' = InBuffer \ {b}
    BY <2>1 DEF InBuffer
  <2>3. b.p \in Nat /\ align_up(b.n) \in Nat \ {0} /\ b.p + align_up(b.n) <= ptr_
    BY <2>2, TakenUp
  <2>4. b.p + align_up(b.n) = ptr_
    <3>1. PICK c \in InBuffer : c.p <= ptr_ - 1 /\ ptr_ - 1 < c.p + align_up(c.n)
      <4>1. ptr_ - 1 \in 0 .. ptr_ - 1
        BY <1>0, <2>3
      <4> QED BY <2>1, <4>1 DEF NoGap, Holding
    <3>2. c.p \in Nat /\ align_up(c.n) \in Nat \ {0} /\ c.p + align_up(c.n) <= ptr_ /\ (c # b => Apart(c, b))
      BY <2>2, TakenUp
    <3>3. c = b
      BY <1>0, <2>1, <2>3, <3>1, <3>2 DEF Apart
    <3> QED BY <1>0, <3>1, <3>2, <3>3
  <2>5. x < b.p /\ x \in 0 .. ptr_ - 1
    BY <1>0, <2>1, <2>3, <2>4
  <2>6. PICK c \in InBuffer : c.p <= x /\ x < c.p + align_up(c.n)
    BY <2>1, <2>5 DEF NoGap, Holding
  <2>7. c # b
    BY <2>3, <2>5, <2>6
  <2> QED BY <2>2, <2>6, <2>7
<1>4. ASSUME NEW b \in live, DeallocateElsewhere(b) PROVE \E c \in InBuffer' : c.p <= x /\ x < c.p + align_up(c.n)
  <2>1. live' = live \ {b} /\ ptr_' = ptr_ /\ lifo /\ ~pointer_in_buffer(b.p)
    BY <1>4 DEF DeallocateElsewhere
  <2>2. InBuffer' = InBuffer
    BY <2>1 DEF InBuffer
  <2> QED BY <2>1, <2>2 DEF NoGap, Holding
<1>5. CASE reset
  BY <1>5 DEF reset
<1>6. CASE UNCHANGED vars
  BY <1>6 DEF vars, NoGap, Holding, InBuffer
<1> QED BY <1>1, <1>2, <1>3, <1>4, <1>5, <1>6 DEF Next

\* Given back in the reverse order, the blocks in use are all that is used.
THEOREM NothingLost == Spec => []LosesNothing
<1>1. Init => NoGap
  BY DEF Init, NoGap
<1>2. IInv /\ NoGap => LosesNothing
  <2> SUFFICES ASSUME IInv, NoGap, lifo, NEW x \in 0 .. ptr_ - 1
               PROVE  \E b \in InBuffer : Holding(x) = {b}
    BY DEF LosesNothing, used
  <2>1. PICK b \in InBuffer : b \in Holding(x)
    BY DEF NoGap, Holding
  <2>2. ASSUME NEW c \in Holding(x) PROVE c = b
    <3>1. b.p \in Nat /\ align_up(b.n) \in Nat \ {0} /\ (b # c => Apart(b, c))
      BY <2>2, TakenUp DEF Holding
    <3>2. c \in InBuffer /\ c.p \in Nat /\ align_up(c.n) \in Nat \ {0}
      BY <2>2, TakenUp DEF Holding
    <3> QED BY <2>1, <2>2, <3>1, <3>2 DEF Apart, Holding
  <2> QED BY <2>1, <2>2
<1> QED BY <1>1, <1>2, InitInv, NextInv, NoGapNext, PTL DEF Spec
=============================================================================
