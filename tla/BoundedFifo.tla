---------------------------- MODULE BoundedFifo ----------------------------
(* What a bounded queue promises the threads that share it: every call takes *)
(* effect at one instant between its invocation and its return, an element   *)
(* comes out once and in the order it went in, and at most N are inside.     *)
(* BoundedBuffer implements it with blocking calls that may throw,           *)
(* LockFreeQueue with calls that refuse when the queue is full or empty.     *)
EXTENDS Naturals, Sequences
CONSTANTS
    Threads,   \* the callers
    Items,     \* the values put through the queue
    None,      \* "no item": what an idle caller, or a pop before it takes effect, holds
    N,         \* capacity
    Blocking,  \* a push at a full (a pop at an empty) queue waits, else it is refused
    MayThrow   \* copying or moving an element may throw
VARIABLES
    fifo,      \* the elements inside, oldest first
    call       \* what every caller is doing: its operation, its item, its result
vars == <<fifo, call>>

Idle == [op |-> "none", item |-> None, result |-> "none"]

Init == fifo = <<>> /\ call = [t \in Threads |-> Idle]

Pending(t, op) == call[t].op = op /\ call[t].result = "none"
Finish(t, i, r) == call' = [call EXCEPT ![t].item = i, ![t].result = r]

Invoke(t, op, i) ==
    /\ call[t] = Idle
    /\ call' = [call EXCEPT ![t] = [op |-> op, item |-> i, result |-> "none"]]
    /\ UNCHANGED fifo

Enqueue(t) ==
    /\ Pending(t, "push") /\ Len(fifo) < N
    /\ fifo' = Append(fifo, call[t].item)
    /\ Finish(t, call[t].item, "ok")

Dequeue(t) ==
    /\ Pending(t, "pop") /\ fifo # <<>>
    /\ fifo' = Tail(fifo)
    /\ Finish(t, Head(fifo), "ok")

Refuse(t) ==
    /\ ~Blocking
    /\ \/ Pending(t, "push") /\ Len(fifo) = N
       \/ Pending(t, "pop") /\ fifo = <<>>
    /\ Finish(t, None, "refused")
    /\ UNCHANGED fifo

Throw(t) ==
    /\ MayThrow
    /\ Pending(t, "push") \/ Pending(t, "pop")
    /\ Finish(t, None, "threw")
    /\ UNCHANGED fifo

\* A blocking pop hands its element over by value: if moving it throws, the
\* element is out of the queue and the caller does not have it.
Lose(t) ==
    /\ Blocking /\ MayThrow
    /\ call[t].op = "pop" /\ call[t].result = "ok"
    /\ Finish(t, None, "threw")
    /\ UNCHANGED fifo

Return(t) ==
    /\ call[t].result # "none"
    /\ call' = [call EXCEPT ![t] = Idle]
    /\ UNCHANGED fifo

Next == \E t \in Threads :
    \/ \E i \in Items : Invoke(t, "push", i)
    \/ Invoke(t, "pop", None)
    \/ Enqueue(t) \/ Dequeue(t) \/ Refuse(t) \/ Throw(t) \/ Lose(t) \/ Return(t)

Spec == Init /\ [][Next]_vars
=============================================================================
