---------------------------- MODULE DiceBarrier ----------------------------
(* Chapter10-Concurrent/AdditionalInCpp20.cpp 253-292: n threads roll a die  *)
(* each and meet at a std::barrier after every roll; its completion function *)
(* counts the turn and ends the game when all dice show six.                 *)
EXTENDS Naturals, FiniteSets
CONSTANTS Threads,
          MaxTurns          \* bound: all dice show six in this turn at the latest
DiceAssumption ==
    IsFiniteSet(Threads) /\ Threads # {} /\ MaxTurns \in Nat \ {0}
VARIABLES
    dice, done, n_turns,    \* the variables the threads share, 258-261
    expected, phase,        \* bar: the arrivals it waits for, and its phase
    token,                  \* the phase each thread arrived in
    pc, rolls               \* the statement of each thread; history: its rolls
vars == <<dice, done, n_turns, expected, phase, token, pc, rolls>>
n == Cardinality(Threads)

Init ==
    /\ dice = [t \in Threads |-> "none"] /\ done = FALSE /\ n_turns = 0
    /\ expected = n /\ phase = 0 /\ token = [t \in Threads |-> 0]
    /\ pc = [t \in Threads |-> "test"] /\ rolls = [t \in Threads |-> 0]

Go(t, from, to) == pc[t] = from /\ pc' = [pc EXCEPT ![t] = to]

Test(t) ==                                                              \* 278
    /\ Go(t, "test", IF done THEN "joined" ELSE "roll")
    /\ UNCHANGED <<dice, done, n_turns, expected, phase, token, rolls>>

Faces == IF n_turns + 1 >= MaxTurns THEN {"six"} ELSE {"six", "other"}

\* Mutant: a die that shows six is kept, and its thread does not come to the barrier.
RollAndStay(t) ==
    /\ \E face \in Faces :
           Go(t, "roll", IF face = "six" THEN "test" ELSE "arrive")
               /\ dice' = [dice EXCEPT ![t] = face]
    /\ rolls' = [rolls EXCEPT ![t] = @ + 1]
    /\ UNCHANGED <<done, n_turns, expected, phase, token>>

Roll(t) ==                                                              \* 280
    /\ Go(t, "roll", "arrive")
    /\ \E face \in Faces : dice' = [dice EXCEPT ![t] = face]
    /\ rolls' = [rolls EXCEPT ![t] = @ + 1]
    /\ UNCHANGED <<done, n_turns, expected, phase, token>>

\* The last to arrive runs the completion function, in its own thread.
Arrive(t) ==                                                            \* 281
    /\ Go(t, "arrive", IF expected = 1 THEN "count" ELSE "wait")
    /\ expected' = expected - 1 /\ token' = [token EXCEPT ![t] = phase]
    /\ UNCHANGED <<dice, done, n_turns, phase, rolls>>

Count(t) ==                                                             \* 265
    /\ Go(t, "count", "check") /\ n_turns' = n_turns + 1
    /\ UNCHANGED <<dice, done, expected, phase, token, rolls>>

Check(t) ==                                                             \* 266-270
    /\ Go(t, "check", "reset")
    /\ done' = \A d \in Threads : dice[d] = "six"
    /\ UNCHANGED <<dice, n_turns, expected, phase, token, rolls>>

\* The barrier opens for the threads that wait and starts its next phase.
Reset(t) ==                                                             \* 250, 281
    /\ Go(t, "reset", "test") /\ expected' = n /\ phase' = phase + 1
    /\ UNCHANGED <<dice, done, n_turns, token, rolls>>

Leave(t) ==                                                             \* 281
    /\ token[t] # phase /\ Go(t, "wait", "test")
    /\ UNCHANGED <<dice, done, n_turns, expected, phase, token, rolls>>

check_result(t) == Count(t) \/ Check(t)
arrive_and_wait(t) == Arrive(t) \/ check_result(t) \/ Reset(t) \/ Leave(t)
thread(t) == Test(t) \/ Roll(t) \/ arrive_and_wait(t)

Finished == \A t \in Threads : pc[t] = "joined"
Next == \E t \in Threads : thread(t)
-----------------------------------------------------------------------------
Completing == {t \in Threads : pc[t] \in {"count", "check", "reset"}}

\* The comments of lines 258-259: while the completion function reads the dice
\* and writes done, it runs once and every other thread stands in the barrier,
\* so nobody rolls a die or reads done, and those two need no lock.
NoDataRace ==
    \A t \in Completing : \A u \in Threads \ {t} : pc[u] = "wait" /\ token[u] = phase

\* The threads take turns in step: nobody is a turn ahead of the count but for
\* its roll in this turn, and nobody misses a turn or rolls twice in one.
InStep ==
    \A t \in Threads :
        LET rolled == \/ pc[t] = "arrive"
                      \/ pc[t] \in {"wait", "count"} /\ token[t] = phase /\ n_turns = phase
        IN  rolls[t] = IF rolled THEN n_turns + 1 ELSE n_turns

\* The game ends on a turn of sixes and all threads see that same end: none
\* rolls again after it or leaves before it.
EndsOnSixes ==
    \/ done /\ \A t \in Threads : dice[t] = "six" /\ pc[t] \notin {"roll", "arrive"}
    \/ ~done /\ \A t \in Threads : pc[t] # "joined"
=============================================================================
