------------------------ MODULE BoundedBufferDriver ------------------------
(* The client of BoundedBuffer in AdditionalInCpp20(): one producer pushes   *)
(* 0 .. Total-1 in order while each consumer pops its share, and the         *)
(* destructors of the jthreads join them all before the buffer dies.         *)
EXTENDS BoundedBuffer
CONSTANTS producer0, Consumers, Share
DriverAssumption ==
    /\ producer0 \notin Consumers /\ Threads = {producer0} \cup Consumers
    /\ Share \in Nat /\ Items = 0 .. Share * Cardinality(Consumers) - 1
VARIABLES
    i,          \* the producer's loop counter
    calls,      \* how often each consumer has called pop
    received    \* what each consumer has got, in order
driverVars == <<vars, i, calls, received>>

Total == Share * Cardinality(Consumers)

DriverInit ==
    /\ Init
    /\ i = 0 /\ calls = [c \in Consumers |-> 0]
    /\ received = [c \in Consumers |-> <<>>]

producer ==
    \/ i < Total /\ CallPush(producer0, i) /\ i' = i + 1 /\ UNCHANGED <<calls, received>>
    \/ do_push(producer0) /\ UNCHANGED <<i, calls, received>>

consumer(c) ==
    \/ /\ calls[c] < Share /\ CallPop(c)
       /\ calls' = [calls EXCEPT ![c] = @ + 1] /\ UNCHANGED <<i, received>>
    \/ /\ pop(c) /\ UNCHANGED <<i, calls>>
       /\ received' = IF pc[c] = "popReturn" /\ pc'[c] = "idle"
                      THEN [received EXCEPT ![c] = Append(@, item[c])] ELSE received

Finished == i = Total /\ (\A c \in Consumers : calls[c] = Share) /\ At({"idle"}) = Threads

DriverNext == producer \/ \E c \in Consumers : consumer(c)
-----------------------------------------------------------------------------
TakenBy(c) == {received[c][k] : k \in DOMAIN received[c]}

\* No item reaches two consumers, and each consumer sees the items it gets in
\* the order the producer pushed them, though three threads pop (308-316).
\* When all have been joined, every item pushed has reached a consumer.
EachOnceInOrder ==
    /\ \A c, d \in Consumers : c # d => TakenBy(c) \cap TakenBy(d) = {}
    /\ \A c \in Consumers : \A k \in 2 .. Len(received[c]) : received[c][k-1] < received[c][k]
    /\ Finished => UNION {TakenBy(c) : c \in Consumers} = Items /\ Count = 0
=============================================================================
