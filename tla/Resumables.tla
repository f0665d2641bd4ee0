----------------------------- MODULE Resumables -----------------------------
(* Chapter11-Coroutines/UseCoroutines.cpp and Chapter12-Asyncchronous/       *)
(* Await.cpp: Resumable, the owner of a coroutine's frame, and the programs  *)
(* that create, move, resume and destroy Resumables: by hand, from another   *)
(* thread, and for coroutines that use an object they do not own.            *)
EXTENDS Naturals, Sequences
VARIABLES
    program,    \* the function that runs
    statement,  \* the next statement of the main thread, and
    thread,     \*   of the jthread: "unborn", "sleep", "resume", "exit", "ended"
    h_,         \* the frame that each Resumable holds, "none" when moved from
    frame,      \* the state of each coroutine's frame
    part,       \* how many parts of its body have run
    inside,     \* the coroutine that each thread is in, or "none"
    alive       \* the other objects that exist
vars == <<program, statement, thread, h_, frame, part, inside, alive>>

New(c, r)   == [do |-> "new", coroutine |-> c, into |-> r]
Move(s, r)  == [do |-> "move", from |-> s, into |-> r]
Call(r)     == [do |-> "resume", on |-> r]
Drop(r)     == [do |-> "drop", on |-> r]
Object(o)   == [do |-> "object", on |-> o]
Gone(o)     == [do |-> "gone", on |-> o]
Do(what)    == [do |-> what]

\* What the functions do to Resumables, with the destructors that end a scope.
\* "[r]" is the lambda that captures r; jthread moves it into its own copy.
\* res may also be constructed in the place of r: then nothing is moved (99).
Statements == [
    UseCoroutines |->
        <<New("coroutine", "resumable"), Call("resumable"), Call("resumable"),        \* 116-120
          New("factory's", "res"), Move("res", "r"), Drop("res"), Call("r"),          \* 98, 126-127
          Move("r", "[r]"), Move("[r]", "thread's"), Do("start"), Drop("[r]"),        \* 128-133
          Object("w"), New("member", "coro"), Call("coro"), Call("coro"),             \* 136-139
          New("lambda", "coro0"), Call("coro0"),                                      \* 142-148
          Object("closure"), New("temporary", "coro1"), Gone("closure"),              \* 150-155
          Call("coro1"), Call("coro1"),                                               \* 156-157
          Drop("coro1"), Drop("coro0"), Drop("coro"), Gone("w"), Do("join"),
          Drop("r"), Drop("resumable")>>,
    Await |-> <<New("eager", "resumable"), Call("resumable"), Drop("resumable")>>]    \* 111-115
Coroutines == {"coroutine", "factory's", "member", "lambda", "temporary", "eager"}
Owners == {"resumable", "res", "r", "[r]", "thread's", "coro", "coro0", "coro1"}
Threads == {"main", "t"}

\* co_await suspend_always separates the parts of a body.
Parts(c) == IF c = "lambda" THEN 1 ELSE 2             \* 89-94, 104-109, 142-154; Await 74-79
\* The object whose members a body accesses.
Self(c) == CASE c = "member" -> "w" [] c = "temporary" -> "closure" [] OTHER -> "none"

Init ==
    /\ program \in DOMAIN Statements /\ statement = 1 /\ thread = "unborn"
    /\ h_ = [r \in Owners |-> "none"] /\ frame = [c \in Coroutines |-> "none"]
    /\ part = [c \in Coroutines |-> 0] /\ inside = [t \in Threads |-> "none"]
    /\ alive = {}
-----------------------------------------------------------------------------
Now == Statements[program][statement]
Main(what) ==
    /\ statement <= Len(Statements[program]) /\ inside["main"] = "none"
    /\ Now.do = what /\ statement' = statement + 1
Thread(from, to) == thread = from /\ thread' = to /\ inside["t"] = "none"

Enter(t, c) == inside' = [inside EXCEPT ![t] = c] /\ frame' = [frame EXCEPT ![c] = "running"]

\* get_return_object gives the frame to its first owner.  initial_suspend
\* suspends it there; that of Await.cpp is always ready, and the body begins.
Create ==                                             \* 32-40, 65-67; Await 12-15, 29-37
    /\ Main("new") /\ h_' = [h_ EXCEPT ![Now.into] = Now.coroutine]
    /\ IF Now.coroutine = "eager" THEN Enter("main", "eager")
       ELSE frame' = [frame EXCEPT ![Now.coroutine] = "suspended"] /\ UNCHANGED inside
    /\ UNCHANGED <<program, thread, part, alive>>

\* Mutant: the handle stays behind in the Resumable that is moved from.
MoveCopies ==
    /\ Main("move") /\ h_' = [h_ EXCEPT ![Now.into] = h_[Now.from]]
    /\ UNCHANGED <<program, thread, frame, part, inside, alive>>
MoveConstruct ==                                      \* 70-71, 128
    /\ Main("move") /\ h_' = [h_ EXCEPT ![Now.into] = h_[Now.from], ![Now.from] = "none"]
    /\ UNCHANGED <<program, thread, frame, part, inside, alive>>

\* What resume() does with its frame.  To ask an empty handle or a destroyed
\* frame whether it is done, or to resume one that runs, is undefined.
resume(t, r) ==                                       \* 79-86
    LET c == h_[r]
        state == IF c = "none" THEN "none" ELSE frame[c]
    IN  CASE state = "suspended" -> Enter(t, c)
          [] state = "done" -> UNCHANGED <<frame, inside>>
          [] OTHER -> frame' = [d \in Coroutines |-> "undefined"] /\ UNCHANGED inside

\* ~Resumable destroys the frame that it holds.
Destroy(r) ==                                         \* 72-78
    /\ h_' = [h_ EXCEPT ![r] = "none"]
    /\ frame' = [c \in Coroutines |->
           IF c # h_[r] THEN frame[c]
           ELSE IF frame[c] \in {"suspended", "done"} THEN "destroyed" ELSE "undefined"]

Resume ==
    /\ Main("resume") /\ resume("main", Now.on)
    /\ UNCHANGED <<program, thread, h_, part, alive>>
Destruct ==
    /\ Main("drop") /\ Destroy(Now.on) /\ UNCHANGED <<program, thread, part, inside, alive>>
Construct ==                                          \* 136, 150
    /\ Main("object") /\ alive' = alive \cup {Now.on}
    /\ UNCHANGED <<program, thread, h_, frame, part, inside>>
EndOfLife ==                                          \* 155, 158
    /\ Main("gone") /\ alive' = alive \ {Now.on}
    /\ UNCHANGED <<program, thread, h_, frame, part, inside>>

\* Part of a body runs up to its next suspension; final_suspend suspends too.
RunPart(t) ==                                         \* 41-46, 89-94, 104-109; Await 38-43
    /\ inside[t] # "none" /\ inside' = [inside EXCEPT ![t] = "none"]
    /\ part' = [part EXCEPT ![inside[t]] = @ + 1]
    /\ frame' = [frame EXCEPT ![inside[t]] =
           IF part[inside[t]] + 1 = Parts(inside[t]) THEN "done" ELSE "suspended"]
    /\ UNCHANGED <<program, statement, thread, h_, alive>>

Start ==                                              \* 128
    /\ Main("start") /\ thread' = "sleep" /\ UNCHANGED <<program, h_, frame, part, inside, alive>>
Awake ==                                              \* 130-131
    /\ Thread("sleep", "resume")
    /\ UNCHANGED <<program, statement, h_, frame, part, inside, alive>>
ResumeFromThread ==                                   \* 132
    /\ Thread("resume", "exit") /\ resume("t", "thread's")
    /\ UNCHANGED <<program, statement, h_, part, alive>>
\* The thread destroys its copy of the lambda.
Exit ==                                               \* 133
    /\ Thread("exit", "ended") /\ Destroy("thread's")
    /\ UNCHANGED <<program, statement, part, inside, alive>>
\* The destructor of t joins.
Join ==                                               \* 128, 158
    /\ Main("join") /\ thread = "ended" /\ UNCHANGED <<program, thread, h_, frame, part, inside, alive>>

main == Create \/ MoveConstruct \/ Resume \/ Destruct \/ Construct \/ EndOfLife \/ Start \/ Join \/ RunPart("main")
t == Awake \/ ResumeFromThread \/ Exit \/ RunPart("t")
Finished == statement > Len(Statements[program]) /\ inside["main"] = "none"
Returned == Finished /\ UNCHANGED vars
Next == main \/ t \/ Returned
-----------------------------------------------------------------------------
\* Each frame has exactly one owner from its creation to its end, through
\* moves and across threads (70, 98, 128): only that one resumes it, and not
\* while it runs, it is destroyed once, and none is left at the end.
OwnedOnce ==
    /\ \A c \in Coroutines :
          /\ frame[c] # "undefined"
          /\ LET owners == {r \in Owners : h_[r] = c}
             IN  IF frame[c] \in {"none", "destroyed"} THEN owners = {} ELSE \E r \in Owners : owners = {r}
    /\ Finished => \A c \in Coroutines : frame[c] \in {"none", "destroyed"}

\* "w must be alive before coro dies" (135): a body runs while the object whose
\* members it uses exists, in all but the one that the comments call undefined
\* (156-157): the lambda that is destroyed when its coroutine has been created.
SelfIsAlive ==
    \A u \in Threads : inside[u] \notin {"none", "temporary"} /\ Self(inside[u]) # "none"
                           => Self(inside[u]) \in alive
=============================================================================
