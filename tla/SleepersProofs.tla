-------------------------- MODULE SleepersProofs ---------------------------
(* Threads that sleep until they are notified, any number of them: the       *)
(* consumers print every number once, and SimpleMutex excludes and loses no  *)
(* wake-up.                                                                  *)
EXTENDS Sleepers, FiniteSetTheorems, SequenceTheorems, TLAPS
-----------------------------------------------------------------------------
(* ProducerAndConsumer: the queue and what the producer has left are the end *)
(* of the script; what was taken is printed or in a consumer's hand.         *)
Items == 1 .. Last \cup {sentinel}
Total == Last + Sentinels
Taken == Total - Len(q) - Len(todo)
Types ==
    /\ q \in Seq(Items) /\ todo \in Seq(Items) /\ Len(q) + Len(todo) <= Total
    /\ pc["producer"] \in {"lock", "notify", "done"}
    /\ pc \in [Consumers \cup {"producer"} ->
                  {"lock", "notify", "check", "asleep", "relock", "take", "print", "done"}]
    /\ i \in [Consumers -> Items \cup {None}] /\ printed \in Seq(1 .. Last)
\* Both queues are consecutive pieces of the script, up to its end.
Line ==
    /\ \A k \in 1 .. Len(q) : q[k] = Script[Taken + k]
    /\ \A k \in 1 .. Len(todo) : todo[k] = Script[Total - Len(todo) + k]
    /\ pc["producer"] = "lock" => todo # <<>>
\* Who is between a lock and an unlock holds the mutex; who takes has seen an element since.
Holder ==
    /\ \A c \in Consumers : pc[c] \in {"check", "take"} => mtx = c
    /\ \A c \in Consumers : pc[c] = "take" => q # <<>>
\* No number is printed or held twice.
Once ==
    /\ \A j, k \in 1 .. Len(printed) : printed[j] = printed[k] => j = k
    /\ \A c, d \in InHand : i[c] = i[d] => c = d
    /\ \A c \in InHand : i[c] \in 1 .. Last /\ \A k \in 1 .. Len(printed) : printed[k] # i[c]
\* The numbers printed or held are exactly those that were taken from the queue.
Reached ==
    /\ \A c \in InHand : i[c] <= Taken
    /\ \A k \in 1 .. Len(printed) : printed[k] <= Taken
    /\ \A v \in 1 .. Last : v <= Taken =>
          (\E k \in 1 .. Len(printed) : printed[k] = v) \/ (\E c \in InHand : i[c] = v)
\* Whoever has met a sentinel met it behind all numbers.
Left ==
    /\ \A c \in Consumers : pc[c] = "print" => i[c] \in Items
    /\ \A c \in Consumers : (pc[c] = "done" \/ (pc[c] = "print" /\ i[c] = sentinel)) => Taken > Last
IInv == Types /\ Line /\ Holder /\ Once /\ Reached /\ Left

\* The numbers in order, then the sentinels.
LEMMA ScriptIs ==
    /\ Total \in Nat /\ Total > Last /\ Last \in Nat /\ Sentinels \in Nat
    /\ \A k \in 1 .. Total : Script[k] = IF k <= Last THEN k ELSE sentinel
    /\ \A k \in 1 .. Total : Script[k] \in Items
    /\ Script \in Seq(Items) /\ Len(Script) = Total
    /\ sentinel \notin 1 .. Last
<1>1. Last \in Nat /\ Sentinels = Cardinality(Consumers) /\ IsFiniteSet(Consumers) /\ Consumers # {} /\ sentinel \notin 1 .. Last
    BY ProducerAssumption DEF ProducerAssumption
<1>2. Sentinels \in Nat
    BY <1>1, FS_CardinalityType
<1>3. Sentinels # 0
    BY <1>1, FS_EmptySet
<1>4. Total \in Nat /\ Total > Last
    BY <1>1, <1>2, <1>3 DEF Total
<1>5. Script = [k \in 1 .. Total |-> IF k <= Last THEN k ELSE sentinel]
    BY DEF Script, Total
<1>6. \A k \in 1 .. Total : Script[k] \in Items /\ Script[k] = IF k <= Last THEN k ELSE sentinel
    BY <1>1, <1>4, <1>5 DEF Items
<1>7. Script \in [1 .. Total -> Items]
    <2> \A k \in 1 .. Total : (IF k <= Last THEN k ELSE sentinel) \in Items
        BY <1>5, <1>6
    <2> QED BY <1>5
<1>8. Script \in Seq(Items) /\ Len(Script) = Total
    BY <1>4, <1>7
<1> QED BY <1>1, <1>2, <1>4, <1>6, <1>8

\* Nothing has been produced.
LEMMA Initially == Init => IInv
<1> SUFFICES ASSUME Init PROVE IInv
    OBVIOUS
<1>1. /\ q = <<>> /\ todo = Script /\ pc = [t \in Consumers \cup {"producer"} |-> "lock"]
      /\ i = [c \in Consumers |-> None] /\ printed = <<>>
    BY DEF Init
<1>2. Len(q) = 0 /\ Len(printed) = 0 /\ Len(todo) = Total /\ Taken = 0 /\ todo # <<>> /\ q \in Seq(Items)
    BY <1>1, ScriptIs DEF Taken
<1>3. InHand = {} /\ \A c \in Consumers : pc[c] = "lock"
    BY <1>1 DEF InHand
<1>4. Types /\ Line
    BY <1>1, <1>2, ScriptIs DEF Types, Line
<1>5. Holder /\ Once /\ Reached /\ Left
    BY <1>2, <1>3 DEF Holder, Once, Reached, Left
<1> QED BY <1>4, <1>5 DEF IInv

\* What stays when only the places of the threads change.
LEMMA OnlyMoves ==
    ASSUME IInv, UNCHANGED <<q, todo, i, printed>>,
           pc' \in [Consumers \cup {"producer"} ->
                       {"lock", "notify", "check", "asleep", "relock", "take", "print", "done"}],
           pc'["producer"] \in {"lock", "notify", "done"}, pc'["producer"] = "lock" => todo # <<>>,
           \A c \in Consumers : \/ pc'[c] = pc[c]
                                \/ pc'[c] \notin {"print", "done"} /\ pc[c] \notin {"print", "done"},
           Holder'
    PROVE  IInv'
<1>1. Types /\ Line /\ Holder /\ Once /\ Reached /\ Left
    BY DEF IInv
<1>2. InHand' = InHand
    BY <1>1 DEF InHand
<1>3. Taken' = Taken
    BY DEF Taken
<1>4. Types'
    BY <1>1 DEF Types
<1>5. Line'
    BY <1>1, <1>3 DEF Line
<1>6. Once' /\ Reached'
    BY <1>1, <1>2, <1>3 DEF Once, Reached
<1>7. Left'
    BY <1>1, <1>3 DEF Left
<1> QED BY <1>4, <1>5, <1>6, <1>7 DEF IInv

\* The end of a sequence without its first element.
LEMMA Shorter ==
    ASSUME NEW s \in Seq(Items), s # <<>>
    PROVE  /\ Head(s) = s[1] /\ Head(s) \in Items /\ Tail(s) \in Seq(Items) /\ Len(s) \in Nat \ {0}
           /\ Len(Tail(s)) = Len(s) - 1 /\ \A k \in 1 .. Len(s) - 1 : Tail(s)[k] = s[k + 1]
<1>1. Len(s) \in Nat \ {0}
    OBVIOUS
<1>2. /\ Head(s) = s[1] /\ Tail(s) \in Seq(Items) /\ Len(Tail(s)) = Len(s) - 1
      /\ \A k \in 1 .. Len(Tail(s)) : Tail(s)[k] = s[k + 1]
    BY HeadTailProperties
<1> QED BY <1>1, <1>2

\* The producer moves the next number from its script to the queue.
LEMMA PushKeeps == ASSUME IInv, Push PROVE IInv'
<1>1. Types /\ Line /\ Holder /\ Once /\ Reached /\ Left
    BY DEF IInv
<1>2. /\ mtx = None /\ pc["producer"] = "lock" /\ pc' = [pc EXCEPT !["producer"] = "notify"]
      /\ q' = Append(q, Head(todo)) /\ todo' = Tail(todo) /\ UNCHANGED <<mtx, i, printed>>
    BY DEF Push, Go, consumer
<1>3. todo # <<>> /\ todo \in Seq(Items) /\ q \in Seq(Items) /\ Len(q) \in Nat /\ Len(todo) \in Nat
    BY <1>1, <1>2 DEF Line, Types
<1>4. /\ Head(todo) = todo[1] /\ Head(todo) \in Items /\ todo' \in Seq(Items) /\ Len(todo) >= 1
      /\ Len(todo') = Len(todo) - 1 /\ \A k \in 1 .. Len(todo) - 1 : todo'[k] = todo[k + 1]
    BY <1>2, <1>3, Shorter
<1>5. /\ q' \in Seq(Items) /\ Len(q') = Len(q) + 1
      /\ \A k \in 1 .. Len(q) + 1 : q'[k] = IF k = Len(q) + 1 THEN Head(todo) ELSE q[k]
    BY <1>2, <1>3, <1>4, AppendProperties
<1>6. /\ Taken' = Taken /\ Taken \in Nat /\ Total - Len(todo) = Taken + Len(q)
      /\ Len(q') + Len(todo') <= Total /\ Total \in Nat
    BY <1>1, <1>3, <1>4, <1>5, ScriptIs DEF Taken, Types, Total
<1>7. pc' \in [Consumers \cup {"producer"} ->
                  {"lock", "notify", "check", "asleep", "relock", "take", "print", "done"}]
      /\ pc'["producer"] = "notify" /\ \A c \in Consumers : pc'[c] = pc[c]
    BY <1>1, <1>2, ProducerAssumption DEF Types, ProducerAssumption
<1>8. Types'
    BY <1>1, <1>2, <1>4, <1>5, <1>6, <1>7 DEF Types, Total
<1>9. Line'
    <2>1. ASSUME NEW k \in 1 .. Len(q') PROVE q'[k] = Script[Taken' + k]
        <3>1. CASE k = Len(q) + 1
            <4>1. q'[k] = todo[1] /\ todo[1] = Script[Total - Len(todo) + 1]
                BY <1>1, <1>3, <1>4, <1>5, <3>1 DEF Line
            <4>2. Total - Len(todo) + 1 = Taken' + k
                BY <1>3, <1>6, <3>1
            <4> QED BY <4>1, <4>2
        <3>2. CASE k # Len(q) + 1
            <4>1. k \in 1 .. Len(q) /\ q'[k] = q[k]
                BY <1>3, <1>5, <3>2
            <4> QED BY <1>1, <1>6, <4>1 DEF Line
        <3> QED BY <3>1, <3>2
    <2>2. ASSUME NEW k \in 1 .. Len(todo') PROVE todo'[k] = Script[Total - Len(todo') + k]
        <3>1. k + 1 \in 1 .. Len(todo) /\ todo'[k] = todo[k + 1]
            BY <1>3, <1>4
        <3>2. todo[k + 1] = Script[Total - Len(todo) + (k + 1)]
            BY <1>1, <3>1 DEF Line
        <3>3. Total - Len(todo') + k = Total - Len(todo) + (k + 1)
            BY <1>3, <1>4, <1>6
        <3> QED BY <3>1, <3>2, <3>3
    <2> QED BY <1>7, <2>1, <2>2 DEF Line, Total
<1>10. Holder'
    <2>1. q' # <<>>
        BY <1>3, <1>5
    <2> QED BY <1>1, <1>2, <1>7, <2>1 DEF Holder
<1>11. InHand' = InHand
    BY <1>2, <1>7 DEF InHand
<1>12. Once' /\ Reached'
    BY <1>1, <1>2, <1>6, <1>11 DEF Once, Reached
<1>13. Left'
    BY <1>1, <1>2, <1>6, <1>7 DEF Left
<1> QED BY <1>8, <1>9, <1>10, <1>12, <1>13 DEF IInv

\* A consumer takes the number that is next, which nobody has had yet.
LEMMA TakeKeeps == ASSUME IInv, NEW c \in Consumers, Take(c) PROVE IInv'
<1>1. Types /\ Line /\ Holder /\ Once /\ Reached /\ Left
    BY DEF IInv
<1>2. /\ pc[c] = "take" /\ pc' = [pc EXCEPT ![c] = "print"] /\ mtx' = None
      /\ i' = [i EXCEPT ![c] = Head(q)] /\ q' = Tail(q) /\ UNCHANGED <<todo, printed>>
    BY DEF Take, Go
<1>3. q # <<>> /\ todo \in Seq(Items) /\ q \in Seq(Items) /\ Len(q) \in Nat /\ Len(todo) \in Nat /\ mtx = c
    BY <1>1, <1>2 DEF Holder, Types
<1>4. /\ Head(q) = q[1] /\ Head(q) \in Items /\ q' \in Seq(Items) /\ Len(q) >= 1
      /\ Len(q') = Len(q) - 1 /\ \A k \in 1 .. Len(q) - 1 : q'[k] = q[k + 1]
    BY <1>2, <1>3, Shorter
<1>5. /\ Taken' = Taken + 1 /\ Taken \in Nat /\ Taken + Len(q) <= Total /\ Taken + 1 \in 1 .. Total
      /\ Len(q') + Len(todo') <= Total /\ Total \in Nat /\ Last \in Nat
    BY <1>1, <1>2, <1>3, <1>4, ScriptIs DEF Taken, Types, Total
<1>6. Head(q) = IF Taken + 1 <= Last THEN Taken + 1 ELSE sentinel
    <2>1. Head(q) = Script[Taken + 1]
        BY <1>1, <1>3, <1>4 DEF Line
    <2> QED BY <1>5, <2>1, ScriptIs
<1>7. /\ pc' \in [Consumers \cup {"producer"} ->
                     {"lock", "notify", "check", "asleep", "relock", "take", "print", "done"}]
      /\ pc'["producer"] = pc["producer"] /\ pc'[c] = "print" /\ \A d \in Consumers \ {c} : pc'[d] = pc[d]
    BY <1>1, <1>2, ProducerAssumption DEF Types, ProducerAssumption
<1>8. /\ i' \in [Consumers -> Items \cup {None}] /\ i'[c] = Head(q) /\ \A d \in Consumers \ {c} : i'[d] = i[d]
    BY <1>1, <1>2, <1>4 DEF Types
<1>9. Types'
    BY <1>1, <1>2, <1>4, <1>5, <1>7, <1>8 DEF Types, Total
<1>10. Line'
    <2>1. ASSUME NEW k \in 1 .. Len(q') PROVE q'[k] = Script[Taken' + k]
        <3>1. k + 1 \in 1 .. Len(q) /\ q'[k] = q[k + 1]
            BY <1>3, <1>4
        <3>2. q[k + 1] = Script[Taken + (k + 1)]
            BY <1>1, <3>1 DEF Line
        <3>3. Taken + (k + 1) = Taken' + k
            BY <1>5
        <3> QED BY <3>1, <3>2, <3>3
    <2> QED BY <1>1, <1>2, <1>7, <2>1 DEF Line, Total
<1>11. Holder'
    <2>1. ASSUME NEW d \in Consumers, pc'[d] \in {"check", "take"} PROVE FALSE
        <3>1. d # c /\ pc[d] = pc'[d]
            BY <1>7, <2>1
        <3>2. mtx = d
            BY <1>1, <2>1, <3>1 DEF Holder
        <3> QED BY <1>3, <3>1, <3>2
    <2> QED BY <2>1 DEF Holder
<1>12. c \notin InHand
    BY <1>2 DEF InHand
<1>15. \A k \in 1 .. Len(printed) : printed[k] \in 1 .. Last
    <2>1. printed \in Seq(1 .. Last)
        BY <1>1 DEF Types
    <2> QED BY <2>1, ElementOfSeq
<1>13. CASE Taken + 1 <= Last
    <2>1. Head(q) = Taken + 1 /\ Head(q) # sentinel /\ Taken + 1 \in 1 .. Last
        BY <1>5, <1>6, <1>13, ScriptIs
    <2>2. InHand' = InHand \cup {c} /\ \A d \in InHand : i'[d] = i[d] /\ d # c
        BY <1>7, <1>8, <1>12, <2>1 DEF InHand
    <2>3. i'[c] = Taken + 1
        BY <1>8, <2>1
    <2>4. \A d \in InHand : i[d] \in 1 .. Last /\ i[d] <= Taken
        BY <1>1 DEF Once, Reached
    <2>5. printed' = printed /\ \A k \in 1 .. Len(printed) : printed[k] \in 1 .. Last /\ printed[k] <= Taken
        BY <1>1, <1>2, <1>15 DEF Reached
    <2>6. Once'
        <3>1. ASSUME NEW d \in InHand', NEW e \in InHand', i'[d] = i'[e] PROVE d = e
            <4>1. ASSUME NEW f \in InHand PROVE i'[f] # i'[c]
                BY <1>5, <2>2, <2>3, <2>4
            <4>2. d \in InHand /\ e \in InHand => i[d] = i[e]
                BY <2>2, <3>1
            <4> QED BY <1>1, <2>2, <3>1, <4>1, <4>2 DEF Once
        <3>2. ASSUME NEW d \in InHand', NEW k \in 1 .. Len(printed) PROVE i'[d] \in 1 .. Last /\ printed[k] # i'[d]
            <4>1. CASE d = c
                BY <1>5, <2>1, <2>3, <2>5, <4>1
            <4>2. CASE d \in InHand
                BY <1>1, <2>2, <4>2 DEF Once
            <4> QED BY <2>2, <4>1, <4>2
        <3>3. \A d \in InHand' : i'[d] \in 1 .. Last
            BY <2>1, <2>2, <2>3, <2>4
        <3> QED BY <1>1, <2>5, <3>1, <3>2, <3>3 DEF Once
    <2>7. Reached'
        <3>1. ASSUME NEW v \in 1 .. Last, v <= Taken'
              PROVE  (\E k \in 1 .. Len(printed) : printed[k] = v) \/ (\E d \in InHand' : i'[d] = v)
            <4>1. CASE v <= Taken
                BY <1>1, <2>2, <4>1 DEF Reached
            <4>2. CASE v = Taken + 1
                BY <2>2, <2>3, <4>2
            <4> QED BY <1>5, <3>1, <4>1, <4>2
        <3>2. \A d \in InHand' : i'[d] <= Taken'
            BY <1>5, <2>2, <2>3, <2>4
        <3>3. \A k \in 1 .. Len(printed) : printed[k] <= Taken'
            BY <1>5, <2>5
        <3> QED BY <2>5, <3>1, <3>2, <3>3 DEF Reached
    <2>8. Left'
        <3>1. \A d \in Consumers \ {c} : pc'[d] = pc[d] /\ i'[d] = i[d]
            BY <1>7, <1>8
        <3>2. pc'[c] = "print" /\ i'[c] \in Items /\ i'[c] # sentinel /\ (Taken > Last => Taken' > Last)
            BY <1>4, <1>5, <1>7, <1>8, <2>1
        <3> QED BY <1>1, <3>1, <3>2 DEF Left
    <2> QED BY <1>9, <1>10, <1>11, <2>6, <2>7, <2>8 DEF IInv
<1>14. CASE Taken + 1 > Last
    <2>1. Head(q) = sentinel /\ Taken' > Last
        BY <1>5, <1>6, <1>14
    <2>2. InHand' = InHand /\ \A d \in InHand : i'[d] = i[d]
        BY <1>7, <1>8, <1>12, <2>1 DEF InHand
    <2>3. Once'
        BY <1>1, <1>2, <2>2 DEF Once
    <2>4. Reached'
        <3>1. \A d \in InHand : i[d] \in 1 .. Last /\ i[d] <= Taken'
            BY <1>1, <1>5 DEF Once, Reached
        <3>2. \A k \in 1 .. Len(printed) : printed[k] <= Taken'
            <4>1. \A k \in 1 .. Len(printed) : printed[k] \in 1 .. Last /\ printed[k] <= Taken
                BY <1>1, <1>15 DEF Reached
            <4> QED BY <1>5, <4>1
        <3>3. \A v \in 1 .. Last : v <= Taken
            BY <1>5, <1>14
        <3> QED BY <1>1, <1>2, <2>2, <3>1, <3>2, <3>3 DEF Reached
    <2>5. Left'
        <3>1. i'[c] \in Items
            BY <1>4, <1>8
        <3> QED BY <1>1, <1>7, <1>8, <2>1, <3>1 DEF Left
    <2> QED BY <1>9, <1>10, <1>11, <2>3, <2>4, <2>5 DEF IInv
<1> QED BY <1>5, <1>13, <1>14

\* A consumer prints the number in its hand, or leaves with its sentinel.
LEMMA OutputKeeps == ASSUME IInv, NEW c \in Consumers, Output(c) PROVE IInv'
<1>1. Types /\ Line /\ Holder /\ Once /\ Reached /\ Left
    BY DEF IInv
<1>2. /\ pc[c] = "print" /\ UNCHANGED <<q, mtx, todo, i>> /\ Taken' = Taken
      /\ \/ i[c] # sentinel /\ pc' = [pc EXCEPT ![c] = "lock"] /\ printed' = Append(printed, i[c])
         \/ i[c] = sentinel /\ pc' = [pc EXCEPT ![c] = "done"] /\ printed' = printed
    BY DEF Output, Go, Taken
<1>3. /\ pc' \in [Consumers \cup {"producer"} ->
                     {"lock", "notify", "check", "asleep", "relock", "take", "print", "done"}]
      /\ pc'["producer"] = pc["producer"] /\ \A d \in Consumers \ {c} : pc'[d] = pc[d]
      /\ pc'[c] = IF i[c] = sentinel THEN "done" ELSE "lock"
    BY <1>1, <1>2, ProducerAssumption DEF Types, ProducerAssumption
<1>4. Line' /\ Holder'
    <2>1. \A d \in Consumers : pc'[d] \in {"check", "take"} => pc[d] = pc'[d]
        BY <1>3
    <2> QED BY <1>1, <1>2, <1>3, <2>1 DEF Line, Holder
<1>5. CASE i[c] = sentinel
    <2>1. InHand' = InHand /\ printed' = printed
        BY <1>2, <1>3, <1>5 DEF InHand
    <2>2. Types' /\ Once' /\ Reached'
        BY <1>1, <1>2, <1>3, <2>1 DEF Types, Once, Reached
    <2>3. Left'
        <3>1. \A d \in Consumers : pc'[d] = "print" => pc[d] = "print"
            BY <1>3, <1>5
        <3>2. Taken > Last
            BY <1>1, <1>2, <1>5 DEF Left
        <3> QED BY <1>1, <1>2, <3>1, <3>2 DEF Left
    <2> QED BY <1>4, <2>2, <2>3 DEF IInv
<1>6. CASE i[c] # sentinel
    <2>1. c \in InHand /\ InHand' = InHand \ {c}
        BY <1>2, <1>3, <1>6 DEF InHand
    <2>2. i[c] \in 1 .. Last /\ printed \in Seq(1 .. Last) /\ Len(printed) \in Nat
        BY <1>1, <2>1 DEF Once, Types
    <2>3. /\ printed' \in Seq(1 .. Last) /\ Len(printed') = Len(printed) + 1
          /\ \A k \in 1 .. Len(printed) + 1 : printed'[k] = IF k = Len(printed) + 1 THEN i[c] ELSE printed[k]
        <3> DEFINE x == i[c]
        <3>1. x \in 1 .. Last /\ printed' = Append(printed, x)
            BY <1>2, <1>6, <2>2
        <3> HIDE DEF x
        <3>2. /\ Append(printed, x) \in Seq(1 .. Last) /\ Len(Append(printed, x)) = Len(printed) + 1
              /\ \A k \in 1 .. Len(printed) + 1 :
                    Append(printed, x)[k] = IF k = Len(printed) + 1 THEN x ELSE printed[k]
            BY <2>2, <3>1, AppendProperties
        <3> QED BY <3>1, <3>2 DEF x
    <2>4. Types'
        BY <1>1, <1>2, <1>3, <2>3 DEF Types
    <2>5. \A k \in 1 .. Len(printed) : printed'[k] = printed[k] /\ k \in 1 .. Len(printed')
        BY <2>2, <2>3
    <2>6. printed'[Len(printed) + 1] = i[c] /\ Len(printed) + 1 \in 1 .. Len(printed')
        BY <2>2, <2>3
    <2>7. Once'
        <3>1. ASSUME NEW j \in 1 .. Len(printed'), NEW k \in 1 .. Len(printed'), printed'[j] = printed'[k] PROVE j = k
            <4>1. \A l \in 1 .. Len(printed) : printed[l] # i[c]
                BY <1>1, <2>1 DEF Once
            <4>2. CASE j \in 1 .. Len(printed) /\ k \in 1 .. Len(printed)
                BY <1>1, <2>5, <3>1, <4>2 DEF Once
            <4>3. CASE j = Len(printed) + 1 \/ k = Len(printed) + 1
                BY <2>2, <2>3, <2>5, <2>6, <3>1, <4>1, <4>3
            <4> QED BY <2>2, <2>3, <4>2, <4>3
        <3>2. ASSUME NEW d \in InHand', NEW k \in 1 .. Len(printed') PROVE printed'[k] # i[d]
            <4>1. d \in InHand /\ d # c /\ i[d] # i[c]
                BY <1>1, <2>1 DEF Once
            <4>2. CASE k \in 1 .. Len(printed)
                BY <1>1, <2>5, <4>1, <4>2 DEF Once
            <4>3. CASE k = Len(printed) + 1
                BY <2>6, <4>1, <4>3
            <4> QED BY <2>2, <2>3, <4>2, <4>3
        <3> QED BY <1>1, <1>2, <2>1, <3>1, <3>2 DEF Once
    <2>8. Reached'
        <3>1. ASSUME NEW v \in 1 .. Last, v <= Taken
              PROVE  (\E k \in 1 .. Len(printed') : printed'[k] = v) \/ (\E d \in InHand' : i[d] = v)
            <4>1. CASE \E k \in 1 .. Len(printed) : printed[k] = v
                BY <2>5, <4>1
            <4>2. CASE \E d \in InHand : i[d] = v
                BY <2>1, <2>6, <4>2
            <4> QED BY <1>1, <3>1, <4>1, <4>2 DEF Reached
        <3>2. ASSUME NEW k \in 1 .. Len(printed') PROVE printed'[k] <= Taken
            <4>1. CASE k \in 1 .. Len(printed)
                BY <1>1, <2>5, <4>1 DEF Reached
            <4>2. CASE k = Len(printed) + 1
                BY <1>1, <2>1, <2>6, <4>2 DEF Reached
            <4> QED BY <2>2, <2>3, <4>1, <4>2
        <3> QED BY <1>1, <1>2, <2>1, <3>1, <3>2 DEF Reached
    <2>9. Left'
        <3>1. \A d \in Consumers : pc'[d] \in {"print", "done"} => pc[d] = pc'[d]
            BY <1>3, <1>6
        <3> QED BY <1>1, <1>2, <3>1 DEF Left
    <2> QED BY <1>4, <2>4, <2>7, <2>8, <2>9 DEF IInv
<1> QED BY <1>5, <1>6

\* Everything else moves threads only: nobody but the holder of the mutex gets
\* past the check, and finds there what it has seen.
LEMMA Inductive == IInv /\ [Next]_vars => IInv'
<1> SUFFICES ASSUME IInv, [Next]_vars PROVE IInv'
    OBVIOUS
<1> DEFINE Labels == {"lock", "notify", "check", "asleep", "relock", "take", "print", "done"}
<1>1. /\ Types /\ Line /\ Holder
      /\ pc \in [Consumers \cup {"producer"} -> Labels] /\ pc["producer"] \in {"lock", "notify", "done"}
      /\ "producer" \notin Consumers /\ None \notin Consumers
    BY ProducerAssumption DEF IInv, Types, ProducerAssumption
<1>2. ASSUME NEW c \in Consumers, Lock(c) \/ Relock(c) PROVE IInv'
    <2>1. /\ pc[c] \in {"lock", "relock"} /\ pc' = [pc EXCEPT ![c] = "check"] /\ mtx = None /\ mtx' = c
          /\ UNCHANGED <<q, todo, i, printed>>
        BY <1>2 DEF Lock, Relock, Go, consumer
    <2>2. \A d \in Consumers : d # c => pc'[d] = pc[d] /\ pc[d] \notin {"check", "take"}
        BY <1>1, <2>1 DEF Holder
    <2>3. Holder'
        BY <1>1, <2>1, <2>2 DEF Holder
    <2>4. pc' \in [Consumers \cup {"producer"} -> Labels] /\ pc'["producer"] = pc["producer"] /\ pc'[c] = "check"
        BY <1>1, <2>1
    <2> QED BY <1>1, <2>1, <2>2, <2>3, <2>4, OnlyMoves DEF Line
<1>3. ASSUME NEW c \in Consumers, Check(c) PROVE IInv'
    <2>1. /\ pc[c] = "check" /\ UNCHANGED <<q, todo, i, printed>> /\ mtx = c
          /\ \/ q = <<>> /\ pc' = [pc EXCEPT ![c] = "asleep"] /\ mtx' = None
             \/ q # <<>> /\ pc' = [pc EXCEPT ![c] = "take"] /\ mtx' = mtx
        BY <1>1, <1>3 DEF Check, Go, consumer, Holder
    <2>2. \A d \in Consumers : d # c => pc'[d] = pc[d] /\ pc[d] \notin {"check", "take"}
        BY <1>1, <2>1 DEF Holder
    <2>3. Holder'
        BY <1>1, <2>1, <2>2 DEF Holder
    <2>4. /\ pc' \in [Consumers \cup {"producer"} -> Labels] /\ pc'["producer"] = pc["producer"]
          /\ pc'[c] \in {"asleep", "take"}
        BY <1>1, <2>1
    <2> QED BY <1>1, <2>1, <2>2, <2>3, <2>4, OnlyMoves DEF Line
<1>4. ASSUME NEW c \in Consumers, Spurious(c) PROVE IInv'
    <2>1. /\ pc[c] = "asleep" /\ pc' = [pc EXCEPT ![c] = "relock"] /\ UNCHANGED <<q, todo, i, printed, mtx>>
        BY <1>4 DEF Spurious, Go
    <2>2. \A d \in Consumers : d # c => pc'[d] = pc[d]
        BY <1>1, <2>1
    <2>4. /\ pc' \in [Consumers \cup {"producer"} -> Labels] /\ pc'["producer"] = pc["producer"] /\ pc'[c] = "relock"
        BY <1>1, <2>1
    <2>3. Holder'
        BY <1>1, <2>1, <2>2, <2>4 DEF Holder
    <2> QED BY <1>1, <2>1, <2>2, <2>3, <2>4, OnlyMoves DEF Line
<1>5. CASE NotifyOne
    <2>1. PICK woken \in IF Asleep = {} THEN {{}} ELSE {{c} : c \in Asleep} :
            pc' = [t \in DOMAIN pc |->
                    CASE t = "producer" -> IF todo = <<>> THEN "done" ELSE "lock"
                      [] t \in woken -> "relock" [] OTHER -> pc[t]]
        BY <1>5 DEF NotifyOne
    <2>2. UNCHANGED <<q, mtx, todo, i, printed>> /\ pc["producer"] = "notify"
        BY <1>5 DEF NotifyOne, consumer
    <2>3. \A c \in woken : c \in Consumers /\ pc[c] = "asleep"
        BY <2>1 DEF Asleep
    <2>4. /\ pc'["producer"] = IF todo = <<>> THEN "done" ELSE "lock"
          /\ \A c \in Consumers : pc'[c] = IF c \in woken THEN "relock" ELSE pc[c]
          /\ DOMAIN pc = Consumers \cup {"producer"}
        <3>1. DOMAIN pc = Consumers \cup {"producer"}
            BY <1>1
        <3>2. pc'["producer"] = IF todo = <<>> THEN "done" ELSE "lock"
            <4>1. "producer" \notin woken /\ "producer" \in DOMAIN pc
                BY <1>1, <2>3, <3>1
            <4>2. pc'["producer"] = CASE "producer" = "producer" -> IF todo = <<>> THEN "done" ELSE "lock"
                                      [] "producer" \in woken -> "relock" [] OTHER -> pc["producer"]
                BY <2>1, <4>1
            <4> QED BY <4>1, <4>2
        <3>3. ASSUME NEW c \in Consumers PROVE pc'[c] = IF c \in woken THEN "relock" ELSE pc[c]
            <4>1. c # "producer" /\ c \in DOMAIN pc
                BY <1>1, <3>1
            <4>2. pc'[c] = CASE c = "producer" -> IF todo = <<>> THEN "done" ELSE "lock"
                             [] c \in woken -> "relock" [] OTHER -> pc[c]
                BY <2>1, <4>1
            <4>3. CASE c \in woken
                BY <4>1, <4>2, <4>3
            <4>4. CASE c \notin woken
                BY <4>1, <4>2, <4>4
            <4> QED BY <4>3, <4>4
        <3> QED BY <3>1, <3>2, <3>3
    <2>5. pc' \in [Consumers \cup {"producer"} -> Labels]
        <3>1. \A t \in Consumers \cup {"producer"} : pc'[t] \in Labels
            BY <1>1, <2>4
        <3> QED BY <2>1, <2>4, <3>1
    <2>6. \A c \in Consumers : pc'[c] = pc[c] \/ (pc[c] = "asleep" /\ pc'[c] = "relock")
        BY <2>3, <2>4
    <2>7. Holder'
        BY <1>1, <2>2, <2>6 DEF Holder
    <2> QED BY <2>2, <2>4, <2>5, <2>6, <2>7, OnlyMoves
<1>6. CASE Joined \/ UNCHANGED vars
    <2>1. UNCHANGED <<q, todo, i, printed, pc, mtx>>
        BY <1>6 DEF Joined, vars
    <2> QED BY <1>1, <2>1, OnlyMoves DEF Line, Holder
<1> QED BY <1>2, <1>3, <1>4, <1>5, <1>6, PushKeeps, TakeKeeps, OutputKeeps DEF Next, generate_ints, print_ints

\* A step of one example leaves the other alone.
LEMMA OneRuns ==
    /\ SleepersInit => Init /\ Mutex!Init
    /\ [SleepersNext]_sleepersVars => [Next]_vars /\ [Mutex!Next]_(Mutex!vars)
<1>1. SleepersInit => Init /\ Mutex!Init
    BY DEF SleepersInit
<1>2. [SleepersNext]_sleepersVars => [Next]_vars /\ [Mutex!Next]_(Mutex!vars)
    BY DEF SleepersNext, sleepersVars, mutexVars, Mutex!vars, InPrinting, InLocking
<1> QED BY <1>1, <1>2

\* One or none.
LEMMA OneOrNone ==
    ASSUME NEW T
    PROVE  /\ T = {} => Cardinality(T) = 0
           /\ \A x : T = {x} => Cardinality(T) = 1
BY FS_EmptySet, FS_Singleton

\* Where a number is follows from how many were taken.
THEOREM OnceEach == SleepersSpec => []NothingLostOrRepeated
<1>1. ASSUME IInv PROVE NothingLostOrRepeated
    <2>1. Types /\ Line /\ Holder /\ Once /\ Reached /\ Left
        BY <1>1 DEF IInv
    <2>2. /\ Len(q) \in Nat /\ Len(todo) \in Nat /\ Total \in Nat /\ Last \in Nat /\ Taken \in Nat
          /\ Taken + Len(q) = Total - Len(todo) /\ Total > Last
          /\ DOMAIN q = 1 .. Len(q) /\ DOMAIN todo = 1 .. Len(todo) /\ DOMAIN printed = 1 .. Len(printed)
        BY <2>1, ScriptIs DEF Types, Taken
    <2>3. \A k \in 1 .. Total : Script[k] = (IF k <= Last THEN k ELSE sentinel) /\ sentinel \notin 1 .. Last
        BY ScriptIs
    <2>4. \A k \in 1 .. Len(q) : q[k] = IF Taken + k <= Last THEN Taken + k ELSE sentinel
        BY <2>1, <2>2, <2>3 DEF Line
    <2>5. \A k \in 1 .. Len(todo) :
             todo[k] = IF Taken + Len(q) + k <= Last THEN Taken + Len(q) + k ELSE sentinel
        <3>1. ASSUME NEW k \in 1 .. Len(todo)
              PROVE  todo[k] = IF Taken + Len(q) + k <= Last THEN Taken + Len(q) + k ELSE sentinel
            <4>1. todo[k] = Script[Total - Len(todo) + k]
                BY <2>1 DEF Line
            <4>2. Total - Len(todo) + k = Taken + Len(q) + k /\ Total - Len(todo) + k \in 1 .. Total
                BY <2>2
            <4> QED BY <2>3, <4>1, <4>2
        <3> QED BY <3>1
    <2>6. sentinel \notin 1 .. Last
        BY ScriptIs
    <2> DEFINE In(v, s) == {k \in DOMAIN s : s[k] = v}
               Holds(v) == {c \in InHand : i[c] = v}
    <2>7. ASSUME NEW v \in 1 .. Last, v <= Taken
          PROVE  /\ In(v, todo) = {} /\ In(v, q) = {}
                 /\ \/ Holds(v) = {} /\ \E k : In(v, printed) = {k}
                    \/ In(v, printed) = {} /\ \E c : Holds(v) = {c}
        <3>1. In(v, todo) = {} /\ In(v, q) = {}
            BY <2>2, <2>4, <2>5, <2>6, <2>7
        <3>2. CASE \E k \in 1 .. Len(printed) : printed[k] = v
            <4>1. PICK k \in 1 .. Len(printed) : printed[k] = v
                BY <3>2
            <4>2. In(v, printed) = {k} /\ Holds(v) = {}
                BY <2>1, <2>2, <4>1 DEF Once
            <4> QED BY <3>1, <4>2
        <3>3. CASE (\E c \in InHand : i[c] = v) /\ ~(\E k \in 1 .. Len(printed) : printed[k] = v)
            <4>1. PICK c \in InHand : i[c] = v
                BY <3>3
            <4>2. Holds(v) = {c} /\ In(v, printed) = {}
                BY <2>1, <2>2, <3>3, <4>1 DEF Once
            <4> QED BY <3>1, <4>2
        <3> QED BY <2>1, <2>7, <3>2, <3>3 DEF Reached
    <2>8. ASSUME NEW v \in 1 .. Last, v > Taken
          PROVE  /\ In(v, printed) = {} /\ Holds(v) = {}
                 /\ \/ In(v, todo) = {} /\ \E k : In(v, q) = {k}
                    \/ In(v, q) = {} /\ \E k : In(v, todo) = {k}
        <3>1. In(v, printed) = {} /\ Holds(v) = {}
            <4>1. \A k \in 1 .. Len(printed) : printed[k] <= Taken
                BY <2>1 DEF Reached
            <4>2. \A c \in InHand : i[c] <= Taken
                BY <2>1 DEF Reached
            <4> QED BY <2>2, <2>8, <4>1, <4>2
        <3>2. CASE v <= Taken + Len(q)
            <4>1. In(v, todo) = {}
                BY <2>2, <2>5, <2>6, <3>2
            <4>2. v - Taken \in 1 .. Len(q)
                BY <2>2, <2>8, <3>2
            <4>3. In(v, q) = {v - Taken}
                <5>1. q[v - Taken] = v
                    <6>1. Taken + (v - Taken) = v
                        BY <2>2
                    <6> QED BY <2>4, <4>2, <6>1
                <5>2. ASSUME NEW k \in 1 .. Len(q), q[k] = v PROVE k = v - Taken
                    <6>1. Taken + k = v
                        BY <2>4, <2>6, <5>2
                    <6> QED BY <2>2, <6>1
                <5> QED BY <2>2, <4>2, <5>1, <5>2
            <4> QED BY <3>1, <4>1, <4>3
        <3>3. CASE v > Taken + Len(q)
            <4>1. In(v, q) = {}
                BY <2>2, <2>4, <2>6, <3>3
            <4>2. v - (Taken + Len(q)) \in 1 .. Len(todo)
                BY <2>2, <3>3
            <4>3. In(v, todo) = {v - (Taken + Len(q))}
                <5>1. todo[v - (Taken + Len(q))] = v
                    <6>1. Taken + Len(q) + (v - (Taken + Len(q))) = v
                        BY <2>2
                    <6> QED BY <2>5, <4>2, <6>1
                <5>2. ASSUME NEW k \in 1 .. Len(todo), todo[k] = v PROVE k = v - (Taken + Len(q))
                    <6>1. Taken + Len(q) + k = v
                        BY <2>5, <2>6, <5>2
                    <6> QED BY <2>2, <6>1
                <5> QED BY <2>2, <4>2, <5>1, <5>2
            <4> QED BY <3>1, <4>1, <4>3
        <3>4. v <= Taken + Len(q) \/ v > Taken + Len(q)
            BY <2>2
        <3> QED BY <3>2, <3>3, <3>4
    <2>9. \A v \in 1 .. Last : \/ v <= Taken
                               \/ v > Taken
        BY <2>2
    <2>10. \A v, s : Occurs(v, s) = Cardinality(In(v, s))
        BY DEF Occurs
    <2> HIDE DEF In, Holds
    <2>11. ASSUME NEW v \in 1 .. Last
           PROVE  Occurs(v, todo) + Occurs(v, q) + Occurs(v, printed) + Cardinality(Holds(v)) = 1
        <3>1. CASE v <= Taken
            <4>1. Occurs(v, todo) = 0 /\ Occurs(v, q) = 0
                BY <2>7, <2>10, <3>1, OneOrNone
            <4>2. CASE Holds(v) = {} /\ \E k : In(v, printed) = {k}
                BY <2>10, <4>1, <4>2, OneOrNone
            <4>3. CASE In(v, printed) = {} /\ \E c : Holds(v) = {c}
                BY <2>10, <4>1, <4>3, OneOrNone
            <4> QED BY <2>7, <3>1, <4>2, <4>3
        <3>2. CASE v > Taken
            <4>1. Occurs(v, printed) = 0 /\ Cardinality(Holds(v)) = 0
                BY <2>8, <2>10, <3>2, OneOrNone
            <4>2. CASE In(v, todo) = {} /\ \E k : In(v, q) = {k}
                BY <2>10, <4>1, <4>2, OneOrNone
            <4>3. CASE In(v, q) = {} /\ \E k : In(v, todo) = {k}
                BY <2>10, <4>1, <4>3, OneOrNone
            <4> QED BY <2>8, <3>2, <4>2, <4>3
        <3> QED BY <2>9, <3>1, <3>2
    <2>12. ASSUME NEW c \in Consumers, pc[c] = "done", NEW v \in 1 .. Last PROVE Occurs(v, todo) + Occurs(v, q) = 0
        <3>1. v <= Taken
            BY <2>1, <2>2, <2>12 DEF Left
        <3> QED BY <2>7, <2>10, <3>1, OneOrNone
    <2> QED BY <2>1, <2>11, <2>12 DEF NothingLostOrRepeated, Holder, Holds
<1> QED BY <1>1, Initially, Inductive, OneRuns, PTL DEF SleepersSpec
-----------------------------------------------------------------------------
(* The flag is set exactly while a thread is inside, so nobody who finds it  *)
(* clear can join another one there.                                         *)
FlagHeld == is_locked_  <=> Mutex!At("inside") # {}

MutexInv == Mutex!TypeOK /\ FlagHeld /\ Mutex!MutualExclusion /\ Mutex!NoLostWakeup

\* A clear flag, and nobody inside.
LEMMA MutexInitially == Mutex!Init => MutexInv
BY DEF Mutex!Init, MutexInv, Mutex!TypeOK, FlagHeld, Mutex!MutualExclusion, Mutex!NoLostWakeup, Mutex!At

\* Every statement of lock and unlock keeps the invariant.
LEMMA MutexInductive == MutexInv /\ [Mutex!Next]_(Mutex!vars) => MutexInv'
<1> SUFFICES ASSUME MutexInv, [Mutex!Next]_(Mutex!vars) PROVE MutexInv'
    OBVIOUS
<1> USE DEF MutexInv, Mutex!TypeOK, Mutex!Go
<1>1. ASSUME NEW t \in Lockers, Mutex!Lock(t) PROVE MutexInv'
    BY <1>1 DEF Mutex!Lock, FlagHeld, Mutex!MutualExclusion, Mutex!NoLostWakeup, Mutex!At
<1>2. ASSUME NEW t \in Lockers, Mutex!TestAndSet(t) PROVE MutexInv'
    <2>1. Mutex!TypeOK' /\ Mutex!NoLostWakeup'
        BY <1>2 DEF Mutex!TestAndSet, Mutex!NoLostWakeup
    <2>2. CASE is_locked_
        <3>1. Mutex!At("inside")' = Mutex!At("inside")
            BY <1>2, <2>2 DEF Mutex!TestAndSet, Mutex!At
        <3> QED
            BY <1>2, <2>1, <2>2, <3>1 DEF Mutex!TestAndSet, FlagHeld, Mutex!MutualExclusion
    <2>3. CASE ~is_locked_
        <3>1. Mutex!At("inside")' = {t}
            BY <1>2, <2>3 DEF Mutex!TestAndSet, FlagHeld, Mutex!At
        <3> QED
            BY <1>2, <2>1, <2>3, <3>1 DEF Mutex!TestAndSet, FlagHeld, Mutex!MutualExclusion
    <2> QED
        BY <2>2, <2>3
<1>3. ASSUME NEW t \in Lockers, Mutex!Wait(t) PROVE MutexInv'
    <2>1. Mutex!TypeOK' /\ Mutex!At("inside")' = Mutex!At("inside") /\ is_locked_' = is_locked_
        BY <1>3 DEF Mutex!Wait, Mutex!At
    <2>2. ~is_locked_ => t \in Mutex!At("testAndSet")'
        BY <1>3 DEF Mutex!Wait, Mutex!At
    <2> QED
        BY <2>1, <2>2 DEF FlagHeld, Mutex!MutualExclusion, Mutex!NoLostWakeup
<1>4. ASSUME NEW t \in Lockers, Mutex!Spurious(t) PROVE MutexInv'
    BY <1>4 DEF Mutex!Spurious, FlagHeld, Mutex!MutualExclusion, Mutex!NoLostWakeup, Mutex!At
<1>5. ASSUME NEW t \in Lockers, Mutex!Clear(t) PROVE MutexInv'
    <2>1. Mutex!TypeOK' /\ Mutex!At("inside")' = {}
        <3>1. Mutex!At("inside") = {t}
            BY <1>5 DEF Mutex!Clear, Mutex!MutualExclusion, Mutex!At
        <3> QED
            BY <1>5, <3>1 DEF Mutex!Clear, Mutex!At
    <2>2. t \in Mutex!At("notify")'
        BY <1>5 DEF Mutex!Clear, Mutex!At
    <2> QED
        BY <1>5, <2>1, <2>2 DEF Mutex!Clear, FlagHeld, Mutex!MutualExclusion, Mutex!NoLostWakeup
<1>6. ASSUME NEW t \in Lockers, Mutex!NotifyOne(t) PROVE MutexInv'
    <2>1. Mutex!TypeOK' /\ Mutex!At("inside")' = Mutex!At("inside")
        BY <1>6 DEF Mutex!NotifyOne, Mutex!At
    <2>2. Mutex!At("asleep") # {} => Mutex!At("wait")' # {}
        BY <1>6 DEF Mutex!NotifyOne, Mutex!At
    <2>3. Mutex!At("asleep") = {} => Mutex!At("asleep")' = {}
        BY <1>6 DEF Mutex!NotifyOne, Mutex!At
    <2> QED
        BY <1>6, <2>1, <2>2, <2>3 DEF Mutex!NotifyOne, FlagHeld, Mutex!MutualExclusion, Mutex!NoLostWakeup
<1>7. CASE UNCHANGED Mutex!vars
    BY <1>7 DEF Mutex!vars, FlagHeld, Mutex!MutualExclusion, Mutex!NoLostWakeup, Mutex!At
<1> QED
    BY <1>1, <1>2, <1>3, <1>4, <1>5, <1>6, <1>7 DEF Mutex!Next, Mutex!lock, Mutex!unlock

\* lock of SimpleMutex returns to one thread at a time.
THEOREM Exclusion == SleepersSpec => []MutualExclusion
<1>1. MutexInv => MutualExclusion
    BY DEF MutexInv, MutualExclusion
<1> QED
    BY <1>1, MutexInitially, MutexInductive, OneRuns, PTL DEF SleepersSpec

\* wait and notify_one: a clear flag and a sleeper leave somebody awake to act.
THEOREM WakeupKept == SleepersSpec => []Mutex!NoLostWakeup
<1>1. MutexInv => Mutex!NoLostWakeup
    BY DEF MutexInv
<1> QED
    BY <1>1, MutexInitially, MutexInductive, OneRuns, PTL DEF SleepersSpec
=============================================================================
