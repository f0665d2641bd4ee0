------------------------------ MODULE AsyncTCP -----------------------------
(* Chapter12-Asyncchronous/AsyncTCP.cpp: one thread runs the coroutine that  *)
(* listens and one detached coroutine for each client.  The network and      *)
(* asio's operations are external: an operation ends with a result or with   *)
(* an error, and ctx.run() resumes one coroutine at a time.                  *)
EXTENDS Naturals, Sequences
CONSTANTS Clients,
          MaxCount,       \* bound: how often a session writes
          AcceptMayFail   \* whether async_accept may end with an error
ClientsAssumption == MaxCount \in Nat /\ AcceptMayFail \in BOOLEAN
VARIABLES
    running,      \* whether ctx.run() has not returned
    listener,     \* the coroutine listen(): accepting or ended
    client,       \* each client's end of its connection, and
    received,     \*   what has arrived there
    session,      \* the coroutine serve_client() of each client
    counter,      \* its local
    socket        \* the server's end: none, open or closed
vars == <<running, listener, client, received, session, counter, socket>>

Init ==
    /\ running = TRUE /\ listener = "accepting"
    /\ client = [c \in Clients |-> "away"] /\ received = [c \in Clients |-> <<>>]
    /\ session = [c \in Clients |-> "none"] /\ counter = [c \in Clients |-> 0]
    /\ socket = [c \in Clients |-> "none"]

Connect(c) ==
    /\ client[c] = "away" /\ listener = "accepting" /\ client' = [client EXCEPT ![c] = "connected"]
    /\ UNCHANGED <<running, listener, received, session, counter, socket>>
Disconnect(c) ==
    /\ client[c] = "connected" /\ client' = [client EXCEPT ![c] = "gone"]
    /\ UNCHANGED <<running, listener, received, session, counter, socket>>

\* The accepted socket moves into the session, which co_spawn posts.
Accept(c) ==                                            \* 45-51
    /\ running /\ listener = "accepting" /\ client[c] # "away" /\ socket[c] = "none"
    /\ socket' = [socket EXCEPT ![c] = "open"] /\ session' = [session EXCEPT ![c] = "spawned"]
    /\ UNCHANGED <<running, listener, client, received, counter>>

\* An error of async_accept leaves listen(), and nobody is told.
AcceptFails ==                                          \* 43-45, 78
    /\ AcceptMayFail /\ running /\ listener = "accepting" /\ listener' = "ended"
    /\ UNCHANGED <<running, client, received, session, counter, socket>>

Begin(c) ==                                             \* 12-22
    /\ running /\ session[c] = "spawned" /\ session' = [session EXCEPT ![c] = "writing"]
    /\ UNCHANGED <<running, listener, client, received, counter, socket>>

\* Mutant: one counter for all sessions.
WroteShared(c) ==
    /\ running /\ session[c] = "writing" /\ counter[c] < MaxCount
    /\ received' = [received EXCEPT ![c] = IF client[c] = "connected" THEN Append(@, counter[c]) ELSE @]
    /\ counter' = [d \in Clients |-> counter[d] + 1] /\ session' = [session EXCEPT ![c] = "waiting"]
    /\ UNCHANGED <<running, listener, client, socket>>

\* A write can succeed although the client is gone.
Wrote(c) ==                                             \* 22-26
    /\ running /\ session[c] = "writing" /\ counter[c] < MaxCount
    /\ received' = [received EXCEPT ![c] = IF client[c] = "connected" THEN Append(@, counter[c]) ELSE @]
    /\ counter' = [counter EXCEPT ![c] = @ + 1] /\ session' = [session EXCEPT ![c] = "waiting"]
    /\ UNCHANGED <<running, listener, client, socket>>

\* Mutant: the loop goes on after an error.
WriteRetries(c) ==
    /\ running /\ session[c] = "writing" /\ client[c] = "gone"
    /\ session' = [session EXCEPT ![c] = "waiting"]
    /\ UNCHANGED <<running, listener, client, received, counter, socket>>

\* catch ( ... ) breaks the loop; the session's locals go with its frame.
WriteFails(c) ==                                        \* 28-34
    /\ running /\ session[c] = "writing" /\ client[c] = "gone"
    /\ session' = [session EXCEPT ![c] = "ended"] /\ socket' = [socket EXCEPT ![c] = "closed"]
    /\ UNCHANGED <<running, listener, client, received, counter>>

TimerFires(c) ==                                        \* 26, 20
    /\ running /\ session[c] = "waiting" /\ session' = [session EXCEPT ![c] = "writing"]
    /\ UNCHANGED <<running, listener, client, received, counter, socket>>

RunReturns ==                                           \* 90
    /\ running /\ listener = "ended" /\ \A c \in Clients : session[c] \in {"none", "ended"}
    /\ running' = FALSE
    /\ UNCHANGED <<listener, client, received, session, counter, socket>>

Stopped == ~running /\ UNCHANGED vars
serve_client(c) == Begin(c) \/ Wrote(c) \/ WriteFails(c) \/ TimerFires(c)
listen(c) == Accept(c)
Next ==
    \/ \E c \in Clients : Connect(c) \/ Disconnect(c) \/ listen(c) \/ serve_client(c)
    \/ AcceptFails \/ RunReturns \/ Stopped
-----------------------------------------------------------------------------
\* The server keeps no socket of a client that is gone, whatever others do.
SocketsAreClosed == \A c \in Clients : client[c] = "gone" /\ socket[c] = "open" ~> socket[c] = "closed"

\* A client that stays is served, unless the listener has ended before, and
\* gets 0, 1, 2 and so on, whatever happens to the others: no session's error
\* ends the server, and sessions share nothing (15-24, 28-32, 55-63).
Served(c) == received[c] # <<>> /\ \A k \in DOMAIN received[c] : received[c][k] = k - 1
ClientsAreServed ==
    \A c \in Clients : client[c] = "connected" ~> (Served(c) \/ client[c] = "gone" \/ listener = "ended")
=============================================================================
