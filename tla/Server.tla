------------------------------- MODULE Server -------------------------------
(* Chapter10-Concurrent/AdditionalInCpp20.cpp 54-79: clients call handle     *)
(* concurrently; a counting semaphore admits Permits of them.                *)
EXTENDS Naturals, FiniteSets
CONSTANTS Clients,
          Permits,      \* 4, the value and the maximum of sem_, 78
          Requests      \* bound: how often each client calls handle
ServerAssumption ==
    /\ IsFiniteSet(Clients) /\ Permits \in Nat \ {0} /\ Requests \in Nat
VARIABLES sem_, pc, left      \* the semaphore, each client, its calls to come
vars == <<sem_, pc, left>>

Init ==
    /\ sem_ = Permits
    /\ pc = [c \in Clients |-> "idle"] /\ left = [c \in Clients |-> Requests]

Go(c, from, to) == pc[c] = from /\ pc' = [pc EXCEPT ![c] = to]

Call(c) ==                                                              \* 57
    /\ left[c] > 0 /\ Go(c, "idle", "acquire") /\ left' = [left EXCEPT ![c] = @ - 1]
    /\ UNCHANGED sem_

Acquire(c) ==                                                           \* 59
    /\ sem_ > 0 /\ sem_' = sem_ - 1 /\ Go(c, "acquire", "handle")
    /\ UNCHANGED left

do_handle(c) ==                                                         \* 62, 66-69
    /\ Go(c, "handle", "release")
    /\ UNCHANGED <<sem_, left>>

Release(c) ==                                                           \* 63
    /\ sem_' = sem_ + 1 /\ Go(c, "release", "idle")
    /\ UNCHANGED left

handle(c) == Acquire(c) \/ do_handle(c) \/ Release(c)
Finished == \A c \in Clients : pc[c] = "idle" /\ left[c] = 0
Next == \E c \in Clients : Call(c) \/ handle(c)
=============================================================================
