------------------------ MODULE ProducerAndConsumer ------------------------
(* Chapter10-Concurrent/ProducerAndConsumer.cpp: a producer hands integers,  *)
(* and at last one sentinel per consumer, to consumers that sleep on a       *)
(* condition variable while the shared queue is empty.                       *)
EXTENDS Naturals, Sequences, FiniteSets
CONSTANTS Consumers, Last,   \* the integers produced are 1 .. Last
          Sentinels,         \* how many sentinels follow them
          MaxSpurious,       \* bound on spurious wake-ups, finitely many in a run
          sentinel, None
ASSUME ProducerAssumption ==
    /\ IsFiniteSet(Consumers) /\ Consumers # {} /\ "producer" \notin Consumers
    /\ Last \in Nat /\ MaxSpurious \in Nat
    /\ Sentinels = Cardinality(Consumers)     \* the comment of line 47
    /\ sentinel \notin 1 .. Last /\ None \notin Consumers \cup {"producer"}
VARIABLES
    q, mtx,       \* the shared queue, and the holder of the mutex or None
    pc,           \* the statement each thread is about to run
    todo,         \* what the producer has still to push
    i,            \* each consumer's local, the element it took last
    printed,      \* the output
    spurious      \* spurious wake-ups so far
vars == <<q, mtx, pc, todo, i, printed, spurious>>
consumer == <<i, printed, spurious>>

\* Mutant: one consumer was added and no sentinel for it.
ScriptShort == [k \in 1 .. Last + Sentinels - 1 |-> IF k <= Last THEN k ELSE sentinel]
Script == [k \in 1 .. Last + Sentinels |-> IF k <= Last THEN k ELSE sentinel]      \* 48

Init ==
    /\ q = <<>> /\ mtx = None
    /\ pc = [t \in Consumers \cup {"producer"} |-> "lock"]
    /\ todo = Script
    /\ i = [c \in Consumers |-> None] /\ printed = <<>> /\ spurious = 0

Go(t, from, to) == pc[t] = from /\ pc' = [pc EXCEPT ![t] = to]
Asleep == {c \in Consumers : pc[c] = "asleep"}

Push ==                                                                 \* 52-54
    /\ mtx = None /\ Go("producer", "lock", "notify")
    /\ q' = Append(q, Head(todo)) /\ todo' = Tail(todo)
    /\ UNCHANGED <<mtx, consumer>>

NotifyOne ==                                                            \* 55
    /\ pc["producer"] = "notify"
    /\ \E woken \in IF Asleep = {} THEN {{}} ELSE {{c} : c \in Asleep} :
           pc' = [t \in DOMAIN pc |->
                    CASE t = "producer" -> IF todo = <<>> THEN "done" ELSE "lock"
                      [] t \in woken -> "relock" [] OTHER -> pc[t]]
    /\ UNCHANGED <<q, mtx, todo, consumer>>

Lock(c) ==                                                              \* 18
    /\ mtx = None /\ mtx' = c /\ Go(c, "lock", "check")
    /\ UNCHANGED <<q, todo, consumer>>

\* wait gives the mutex up and falls asleep in one step.
Check(c) ==                                                             \* 19-21
    /\ \/ q = <<>> /\ Go(c, "check", "asleep") /\ mtx' = None
       \/ q # <<>> /\ Go(c, "check", "take") /\ UNCHANGED mtx
    /\ UNCHANGED <<q, todo, consumer>>

Spurious(c) ==                                                          \* 25
    /\ spurious < MaxSpurious /\ Go(c, "asleep", "relock") /\ spurious' = spurious + 1
    /\ UNCHANGED <<q, mtx, todo, i, printed>>

\* Mutant: an if instead of the while around wait.
RelockAndTake(c) ==
    /\ mtx = None /\ mtx' = c /\ Go(c, "relock", "take")
    /\ UNCHANGED <<q, todo, consumer>>

Relock(c) ==                                                            \* 21
    /\ mtx = None /\ mtx' = c /\ Go(c, "relock", "check")
    /\ UNCHANGED <<q, todo, consumer>>

\* Mutant: front without pop.
TakeNoPop(c) ==
    /\ Go(c, "take", "print") /\ mtx' = None
    /\ i' = [i EXCEPT ![c] = Head(q)]
    /\ UNCHANGED <<q, todo, printed, spurious>>

Take(c) ==                                                              \* 34-36
    /\ Go(c, "take", "print") /\ mtx' = None
    /\ i' = [i EXCEPT ![c] = Head(q)] /\ q' = Tail(q)
    /\ UNCHANGED <<todo, printed, spurious>>

Output(c) ==                                                             \* 38-41, 15
    /\ \/ i[c] # sentinel /\ Go(c, "print", "lock") /\ printed' = Append(printed, i[c])
       \/ i[c] = sentinel /\ Go(c, "print", "done") /\ UNCHANGED printed
    /\ UNCHANGED <<q, mtx, todo, i, spurious>>

generate_ints == Push \/ NotifyOne
print_ints(c) == Lock(c) \/ Check(c) \/ Relock(c) \/ Take(c) \/ Output(c)

Finished == \A t \in DOMAIN pc : pc[t] = "done"
Joined == Finished /\ UNCHANGED vars                                    \* 64

Next == generate_ints \/ (\E c \in Consumers : print_ints(c) \/ Spurious(c)) \/ Joined

Spec == /\ Init /\ [][Next]_vars
        /\ WF_vars(generate_ints) /\ \A c \in Consumers : WF_vars(print_ints(c))
-----------------------------------------------------------------------------
InHand == {c \in Consumers : pc[c] = "print" /\ i[c] # sentinel}
Occurs(v, s) == Cardinality({k \in DOMAIN s : s[k] = v})

\* Every integer is in exactly one place on its way from the producer to the
\* output: no interleaving of the consumers prints one twice or drops one, and
\* a consumer that leaves has left none behind for nobody.  None is made up
\* either: however a consumer was woken, front is not called on an empty queue.
NothingLostOrRepeated ==
    /\ \A v \in 1 .. Last :
           Occurs(v, todo) + Occurs(v, q) + Occurs(v, printed)
               + Cardinality({c \in InHand : i[c] = v}) = 1
    /\ (\E c \in Consumers : pc[c] = "done") =>
           \A v \in 1 .. Last : Occurs(v, todo) + Occurs(v, q) = 0
    /\ \A c \in Consumers : pc[c] = "take" => q # <<>>

\* Each consumer gets its sentinel, so all three threads end and are joined, and
\* all integers have been printed.
AllEnd == <>[](Finished /\ Len(printed) = Last)
=============================================================================
