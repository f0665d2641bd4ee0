------------------------- MODULE CoroutineExamples -------------------------
(* The programs of Chapters 11 and 12 that own, resume and await coroutines: *)
(* the Tasks of AsyncTask.cpp, the server of AsyncTCP.cpp, and Resumables in *)
(* UseCoroutines.cpp and Await.cpp.  Each runs on its own, from its start.   *)
EXTENDS AsyncTask, FiniteSets
CONSTANTS Clients, MaxCount, AcceptMayFail      \* of AsyncTCP
VARIABLES
    example,                                                      \* the one that runs
    running, listener, client, received, session, counter, socket,    \* AsyncTCP
    program, statement, thread, h_, coroutine_frame, part, inside, alive  \* Resumables
Tcp == INSTANCE AsyncTCP
Owner == INSTANCE Resumables WITH frame <- coroutine_frame
ASSUME CoroutinesAssumption == Tcp!ClientsAssumption
tcpVars == <<running, listener, client, received, session, counter, socket>>
ownerVars == <<program, statement, thread, h_, coroutine_frame, part, inside, alive>>
examplesVars == <<example, vars, tcpVars, ownerVars>>

\* An example that does not run has one initial state.
ExamplesInit ==
    /\ example \in {"tasks", "tcp", "resumables"} /\ Init /\ Tcp!Init /\ Owner!Init
    /\ example # "tasks" => starter = "Detached"
    /\ example # "resumables" => program = "Await"

InTasks(A) == example = "tasks" /\ A /\ UNCHANGED <<example, tcpVars, ownerVars>>
InTcp(A)   == example = "tcp" /\ A /\ UNCHANGED <<example, vars, ownerVars>>
InOwner(A) == example = "resumables" /\ A /\ UNCHANGED <<example, vars, tcpVars>>
ExamplesNext == InTasks(Next) \/ InTcp(Tcp!Next) \/ InOwner(Owner!Next)

\* The one thread of AsyncTask runs on, and timers expire.  AsyncTCP: handlers
\* whose operation is over get their turn; writing to a client that is gone
\* fails in the end; clients and the network do as they like.  Both threads of
\* UseCoroutines run on, and the sleep of one ends.
ExamplesSpec ==
    /\ ExamplesInit /\ [][ExamplesNext]_examplesVars
    /\ WF_examplesVars(InTasks(Next))
    /\ WF_examplesVars(InTcp(Tcp!RunReturns))
    /\ \A c \in Clients :
           /\ WF_examplesVars(InTcp(Tcp!listen(c))) /\ WF_examplesVars(InTcp(Tcp!Begin(c)))
           /\ WF_examplesVars(InTcp(Tcp!TimerFires(c))) /\ WF_examplesVars(InTcp(Tcp!Wrote(c)))
           /\ SF_examplesVars(InTcp(Tcp!WriteFails(c)))
    /\ WF_examplesVars(InOwner(Owner!main)) /\ WF_examplesVars(InOwner(Owner!t))
-----------------------------------------------------------------------------
\* Resumables.tla: from its creation to its end each frame has one owner, which
\* alone resumes and destroys it, across moves and threads, and coroutines run
\* while the objects whose members they use exist.
OwnedOnce == Owner!OwnedOnce /\ Owner!SelfIsAlive

\* AsyncTCP.tla: the server keeps no socket of a client that is gone.
SocketsAreClosed == Tcp!SocketsAreClosed

\* AsyncTCP.tla: a client that stays is served, whatever happens to the others.
ClientsAreServed == Tcp!ClientsAreServed

\* Every program comes to its end: sync_wait and run_task, with every error
\* known to the caller (AsyncTask), and the program of Resumables with its
\* thread joined, so that no coroutine is resumed to wait for ever.
EndsWithErrors ==
    /\ example = "tasks" => ErrorsArrive
    /\ example = "resumables" => <>[]Owner!Finished
=============================================================================
