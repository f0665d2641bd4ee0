---------------------- MODULE ConcurrencyExamplesProofs ---------------------
(* Chapter10-Concurrent's examples for any number of threads: the latch, the *)
(* barrier, the futures, the bounded buffer's clients, the critical sections *)
(* and flip_coin keep what ConcurrencyExamples states of them.               *)
EXTENDS ConcurrencyExamples, FiniteSetTheorems, SequenceTheorems, WellFoundedInduction, TLAPS

\* Latch and Dice count with the operators of their own instance of FiniteSets.
LEMMA SameCount == \A S : /\ Latch!IsFiniteSet(S) = IsFiniteSet(S)
                         /\ Latch!Cardinality(S) = Cardinality(S)
BY DEF Latch!IsFiniteSet, IsFiniteSet, Latch!Cardinality, Cardinality

\* The barrier counts with operators of its own instance of FiniteSets as well.
LEMMA SameDiceCount == \A S : /\ Dice!IsFiniteSet(S) = IsFiniteSet(S)
                             /\ Dice!Cardinality(S) = Cardinality(S)
BY DEF Dice!IsFiniteSet, IsFiniteSet, Dice!Cardinality, Cardinality

\* The threads of the latch can be counted, and main is none of them.
LEMMA LatchThreadsFinite == IsFiniteSet(LatchThreads) /\ "main" \notin LatchThreads
<1>1. Latch!LatchAssumption
    BY ExamplesAssumption DEF ExamplesAssumption
<1> QED
    BY <1>1, SameCount DEF Latch!LatchAssumption
-----------------------------------------------------------------------------
\* AdditionalInCpp20.cpp 220-240.  The latch counts the threads that have not
\* arrived, and nobody is past it before it has counted them all.
Early == {t \in LatchThreads : l_pc[t] \in {"unborn", "prefault", "arrive"}}
LatchStates == {"unborn", "prefault", "arrive", "wait", "sleep", "print", "ended"}
LatchTypes ==
    /\ l_pc \in [LatchThreads \cup {"main"} -> LatchStates \cup {"start", "join", "joined"}]
    /\ \A t \in LatchThreads : l_pc[t] \in LatchStates
    /\ l_pc["main"] \in {"start", "join", "joined"}
Opened == \E t \in LatchThreads \cup {"main"} : l_pc[t] \in {"sleep", "print", "ended", "join", "joined"}
LatchInv ==
    /\ LatchTypes
    /\ initialized = Cardinality(Early)
    /\ mapped = {t \in LatchThreads : l_pc[t] \notin {"unborn", "prefault"}}
    /\ Opened => initialized = 0

\* The latch's invariant holds before the first thread is created (220).
LEMMA LatchStart == Latch!Init => LatchInv
<1> SUFFICES ASSUME Latch!Init PROVE LatchInv
    OBVIOUS
<1>1. IsFiniteSet(LatchThreads) /\ "main" \notin LatchThreads
    BY LatchThreadsFinite
<1>2. LatchTypes
    BY <1>1 DEF Latch!Init, LatchTypes, LatchStates
<1>3. Early = LatchThreads
    BY <1>1 DEF Latch!Init, Early
<1> QED
    BY <1>1, <1>2, <1>3, SameCount DEF LatchInv, Latch!Init, Latch!n_threads, Opened

\* A latch that has counted down to zero has counted every thread.
LEMMA NobodyEarly ==
    ASSUME LatchInv, initialized = 0
    PROVE  Early = {}
<1>1. IsFiniteSet(Early)
    BY FS_Subset, LatchThreadsFinite DEF Early
<1> QED
    BY <1>1, FS_EmptySet DEF LatchInv

\* Every step of the threads and of main keeps the latch's invariant (21-38,
\* 224-240): only an arrival counts, and only a latch at zero lets anyone by.
LEMMA LatchStep == LatchInv /\ Latch!Next => LatchInv'
<1> SUFFICES ASSUME LatchInv, Latch!Next PROVE LatchInv'
    OBVIOUS
<1> USE DEF LatchInv, LatchTypes, LatchStates, Latch!Go
<1>1. IsFiniteSet(LatchThreads) /\ "main" \notin LatchThreads
    BY LatchThreadsFinite
<1>2. ASSUME NEW t \in LatchThreads, Latch!Emplace(t) PROVE LatchInv'
    <2>1. Early' = Early
        BY <1>1, <1>2 DEF Latch!Emplace, Early
    <2> QED
        BY <1>1, <1>2, <2>1 DEF Latch!Emplace, Opened
<1>3. ASSUME NEW t \in LatchThreads, Latch!prefault_stack(t) PROVE LatchInv'
    <2>1. Early' = Early
        BY <1>1, <1>3 DEF Latch!prefault_stack, Early
    <2> QED
        BY <1>1, <1>3, <2>1 DEF Latch!prefault_stack, Opened
<1>4. ASSUME NEW t \in LatchThreads, Latch!Arrive(t) PROVE LatchInv'
    <2>1. t \in Early /\ Early' = Early \ {t}
        BY <1>1, <1>4 DEF Latch!Arrive, Early
    <2>2. IsFiniteSet(Early)
        BY <1>1, FS_Subset DEF Early
    <2>3. Cardinality(Early') = Cardinality(Early) - 1
        BY <2>1, <2>2, FS_RemoveElement
    <2>4. ~Opened /\ ~Opened'
        BY <1>1, <1>4, <2>1, NobodyEarly DEF Latch!Arrive, Opened
    <2> QED
        BY <1>1, <1>4, <2>3, <2>4 DEF Latch!Arrive
<1>5. ASSUME NEW t \in LatchThreads, Latch!Wait(t) PROVE LatchInv'
    <2>1. Early' = Early
        BY <1>1, <1>5 DEF Latch!Wait, Early
    <2> QED
        BY <1>1, <1>5, <2>1 DEF Latch!Wait
<1>6. ASSUME NEW t \in LatchThreads, Latch!do_work(t) PROVE LatchInv'
    <2>1. Early' = Early
        BY <1>1, <1>6 DEF Latch!do_work, Latch!Lock, Latch!Output, Early
    <2> QED
        BY <1>1, <1>6, <2>1 DEF Latch!do_work, Latch!Lock, Latch!Output, Opened
<1>7. ASSUME Latch!MainWait \/ Latch!Join PROVE LatchInv'
    <2>1. Early' = Early
        BY <1>1, <1>7 DEF Latch!MainWait, Latch!Join, Early
    <2> QED
        BY <1>1, <1>7, <2>1 DEF Latch!MainWait, Latch!Join, Opened
<1> QED
    BY <1>2, <1>3, <1>4, <1>5, <1>6, <1>7 DEF Latch!Next, Latch!main, Latch!thread

\* Once anybody is past the latch, every thread has initialized (229, 235).
LEMMA LatchOpensForAll == LatchInv => Latch!StartsTogether
<1> SUFFICES ASSUME LatchInv, Opened
             PROVE  mapped = LatchThreads /\ Latch!Unborn = {}
    BY DEF Latch!StartsTogether, Opened
<1>1. Early = {}
    BY NobodyEarly DEF LatchInv
<1> QED
    BY <1>1 DEF LatchInv, Latch!Unborn, Early
-----------------------------------------------------------------------------
\* AdditionalInCpp20.cpp 253-292.  The barrier waits for the threads that have
\* not arrived in its phase; when it waits for none, the last is completing it.
DiceStates == {"test", "roll", "arrive", "wait", "count", "check", "reset", "joined"}
Arrived == {t \in DiceThreads :
    d_pc[t] \in {"wait", "count", "check", "reset"} /\ token[t] = phase}
Missing == DiceThreads \ Arrived
DiceTypes ==
    /\ phase \in Nat /\ n_turns \in Nat /\ expected \in Nat /\ done \in BOOLEAN
    /\ dice \in [DiceThreads -> {"none", "six", "other"}]
    /\ token \in [DiceThreads -> Nat] /\ rolls \in [DiceThreads -> Nat]
    /\ d_pc \in [DiceThreads -> DiceStates]
Counted == \E t \in DiceThreads : d_pc[t] \in {"check", "reset"}
OneCompletes ==
    \A t \in Dice!Completing :
        expected = 0 /\ token[t] = phase /\ \A u \in Dice!Completing : u = t
Turns == IF Counted THEN n_turns = phase + 1 ELSE n_turns = phase
Ending ==
    /\ done => /\ \A t \in DiceThreads : dice[t] = "six"
               /\ \A t \in DiceThreads : d_pc[t] \in {"test", "wait", "reset", "joined"}
    /\ ~done => \A t \in DiceThreads : d_pc[t] # "joined"
DiceInv ==
    /\ DiceTypes /\ expected = Cardinality(Missing)
    /\ \A t \in DiceThreads : token[t] <= phase
    /\ OneCompletes /\ Turns /\ Ending /\ Dice!InStep

\* The barrier expects as many arrivals as there are dice threads, at least
\* one.
LEMMA DiceThreadsFinite ==
    /\ IsFiniteSet(DiceThreads)
    /\ Dice!n = Cardinality(DiceThreads) /\ Dice!n \in Nat \ {0}
<1>1. Dice!DiceAssumption
    BY ExamplesAssumption DEF ExamplesAssumption
<1>2. IsFiniteSet(DiceThreads) /\ DiceThreads # {}
    BY <1>1, SameDiceCount DEF Dice!DiceAssumption
<1> QED
    BY <1>2, SameDiceCount, FS_EmptySet, FS_CardinalityType DEF Dice!n

\* The invariant of the barrier holds before the first thread tests done (278).
LEMMA DiceStart == Dice!Init => DiceInv
<1> SUFFICES ASSUME Dice!Init PROVE DiceInv
    OBVIOUS
<1>1. Missing = DiceThreads
    BY DEF Dice!Init, Missing, Arrived
<1>2. DiceTypes /\ expected = Cardinality(Missing)
    BY <1>1, DiceThreadsFinite DEF Dice!Init, DiceTypes, DiceStates
<1> QED
    BY <1>2 DEF Dice!Init, DiceInv, OneCompletes, Dice!Completing, Turns, Counted, Ending,
                Dice!InStep

\* A barrier that waits for nobody has all the threads in it.
LEMMA AllArrived ==
    ASSUME DiceInv, expected = 0
    PROVE  \A t \in DiceThreads : t \in Arrived
<1>1. IsFiniteSet(Missing)
    BY FS_Difference, DiceThreadsFinite DEF Missing
<1>2. Missing = {}
    BY <1>1, FS_EmptySet DEF DiceInv
<1> QED
    BY <1>2 DEF Missing

\* While the completion function runs, the others stand in the barrier.
LEMMA OthersWait ==
    ASSUME DiceInv, NEW t \in DiceThreads, d_pc[t] \in {"count", "check", "reset"}
    PROVE  /\ expected = 0 /\ token[t] = phase
           /\ \A u \in DiceThreads \ {t} : d_pc[u] = "wait" /\ token[u] = phase
<1>1. t \in Dice!Completing
    BY DEF Dice!Completing
<1>2. expected = 0 /\ token[t] = phase
    BY <1>1 DEF DiceInv, OneCompletes
<1>3. ASSUME NEW u \in DiceThreads \ {t} PROVE d_pc[u] = "wait" /\ token[u] = phase
    <2>1. u \in Arrived
        BY <1>2, AllArrived
    <2>2. u \notin Dice!Completing
        BY <1>1 DEF DiceInv, OneCompletes
    <2> QED
        BY <2>1, <2>2 DEF Arrived, Dice!Completing
<1> QED
    BY <1>2, <1>3

\* A thread that has yet to arrive keeps the barrier from completing.
LEMMA NobodyCompletes ==
    ASSUME DiceInv, NEW t \in DiceThreads, t \notin Arrived
    PROVE  ~Counted /\ n_turns = phase /\ Dice!Completing = {} /\ expected # 0
<1>1. expected # 0
    BY AllArrived
<1>2. Dice!Completing = {}
    BY <1>1 DEF DiceInv, OneCompletes
<1> QED
    BY <1>1, <1>2 DEF DiceInv, Turns, Counted, Dice!Completing

\* Every step of a thread keeps the barrier's invariant (265-292).
LEMMA DiceStep == DiceInv /\ Dice!Next => DiceInv'
<1> SUFFICES ASSUME DiceInv, NEW t \in DiceThreads, Dice!thread(t) PROVE DiceInv'
    BY DEF Dice!Next
<1> USE DEF Dice!Go
<1>0. DiceTypes /\ t \in DiceThreads
    BY DEF DiceInv
<1>1. CASE Dice!Test(t)
    <2>1. d_pc[t] = "test" /\ t \notin Arrived
        BY <1>1 DEF Dice!Test, Arrived
    <2>2. ~Counted /\ n_turns = phase /\ Dice!Completing = {}
        BY <2>1, NobodyCompletes
    <2>3. DiceTypes' /\ Missing' = Missing
        BY <1>0, <1>1, <2>1 DEF Dice!Test, DiceTypes, DiceStates, Missing, Arrived
    <2>4. Dice!Completing' = {} /\ ~Counted'
        BY <1>0, <1>1, <2>2 DEF Dice!Test, DiceTypes, Dice!Completing, Counted
    <2>5. Ending'
        BY <1>0, <1>1 DEF Dice!Test, DiceTypes, DiceInv, Ending
    <2>6. Dice!InStep'
        BY <1>0, <1>1 DEF Dice!Test, DiceTypes, DiceInv, Dice!InStep
    <2> QED
        BY <1>1, <2>2, <2>3, <2>4, <2>5, <2>6 DEF Dice!Test, DiceInv, OneCompletes, Turns
<1>2. CASE Dice!Roll(t)
    <2>1. d_pc[t] = "roll" /\ t \notin Arrived
        BY <1>2 DEF Dice!Roll, Arrived
    <2>2. ~Counted /\ n_turns = phase /\ Dice!Completing = {}
        BY <2>1, NobodyCompletes
    <2>3. DiceTypes' /\ Missing' = Missing
        BY <1>0, <1>2, <2>1 DEF Dice!Roll, Dice!Faces, DiceTypes, DiceStates, Missing, Arrived
    <2>4. Dice!Completing' = {} /\ ~Counted'
        BY <1>0, <1>2, <2>2 DEF Dice!Roll, DiceTypes, Dice!Completing, Counted
    <2>5. ~done /\ Ending'
        BY <1>0, <1>2, <2>1 DEF Dice!Roll, DiceTypes, DiceInv, Ending
    <2>6. Dice!InStep'
        BY <1>0, <1>2, <2>2 DEF Dice!Roll, DiceTypes, DiceInv, Dice!InStep
    <2> QED
        BY <1>2, <2>2, <2>3, <2>4, <2>5, <2>6 DEF Dice!Roll, DiceInv, OneCompletes, Turns
<1>3. CASE Dice!Arrive(t)
    <2>1. d_pc[t] = "arrive" /\ t \in Missing
        BY <1>3 DEF Dice!Arrive, Arrived, Missing
    <2>2. ~Counted /\ n_turns = phase /\ Dice!Completing = {} /\ expected # 0
        BY <2>1, NobodyCompletes DEF Missing
    <2>3. DiceTypes'
        BY <1>0, <1>3, <2>2 DEF Dice!Arrive, DiceTypes, DiceStates
    <2>4. expected' = Cardinality(Missing')
        <3>1. Missing' = Missing \ {t}
            BY <1>0, <1>3, <2>1 DEF Dice!Arrive, DiceTypes, Missing, Arrived
        <3>2. IsFiniteSet(Missing)
            BY FS_Difference, DiceThreadsFinite DEF Missing
        <3> QED
            BY <1>3, <2>1, <3>1, <3>2, FS_RemoveElement DEF Dice!Arrive, DiceInv
    <2>5. OneCompletes'
        BY <1>0, <1>3, <2>2 DEF Dice!Arrive, DiceTypes, Dice!Completing, OneCompletes
    <2>6. ~Counted'
        BY <1>0, <1>3, <2>2 DEF Dice!Arrive, DiceTypes, Counted
    <2>7. Ending'
        BY <1>0, <1>3, <2>1 DEF Dice!Arrive, DiceTypes, DiceInv, Ending
    <2>8. Dice!InStep'
        BY <1>0, <1>3, <2>2 DEF Dice!Arrive, DiceTypes, DiceInv, Dice!InStep
    <2> QED
        BY <1>0, <1>3, <2>2, <2>3, <2>4, <2>5, <2>6, <2>7, <2>8
        DEF Dice!Arrive, DiceTypes, DiceInv, Turns
<1>4. CASE Dice!Count(t)
    <2>1. /\ d_pc[t] = "count" /\ expected = 0 /\ token[t] = phase
          /\ \A u \in DiceThreads \ {t} : d_pc[u] = "wait" /\ token[u] = phase
        BY <1>4, OthersWait DEF Dice!Count
    <2>2. ~Counted /\ n_turns = phase
        BY <2>1 DEF DiceInv, Turns, Counted
    <2>3. DiceTypes' /\ Missing' = Missing
        BY <1>0, <1>4, <2>1 DEF Dice!Count, DiceTypes, DiceStates, Missing, Arrived
    <2>4. OneCompletes' /\ Counted'
        BY <1>0, <1>4, <2>1 DEF Dice!Count, DiceTypes, Dice!Completing, OneCompletes, Counted
    <2>5. ~done /\ Ending'
        BY <1>0, <1>4, <2>1 DEF Dice!Count, DiceTypes, DiceInv, Ending
    <2>6. Dice!InStep'
        BY <1>0, <1>4, <2>1, <2>2 DEF Dice!Count, DiceTypes, DiceInv, Dice!InStep
    <2> QED
        BY <1>0, <1>4, <2>2, <2>3, <2>4, <2>5, <2>6 DEF Dice!Count, DiceTypes, DiceInv, Turns
<1>5. CASE Dice!Check(t)
    <2>1. /\ d_pc[t] = "check" /\ expected = 0 /\ token[t] = phase
          /\ \A u \in DiceThreads \ {t} : d_pc[u] = "wait" /\ token[u] = phase
        BY <1>5, OthersWait DEF Dice!Check
    <2>2. Counted /\ n_turns = phase + 1
        BY <2>1 DEF DiceInv, Turns, Counted
    <2>3. DiceTypes' /\ Missing' = Missing
        BY <1>0, <1>5, <2>1 DEF Dice!Check, DiceTypes, DiceStates, Missing, Arrived
    <2>4. OneCompletes' /\ Counted'
        BY <1>0, <1>5, <2>1 DEF Dice!Check, DiceTypes, Dice!Completing, OneCompletes, Counted
    <2>5. Ending'
        BY <1>0, <1>5, <2>1 DEF Dice!Check, DiceTypes, DiceInv, Ending
    <2>6. Dice!InStep'
        BY <1>0, <1>5, <2>1, <2>2 DEF Dice!Check, DiceTypes, DiceInv, Dice!InStep
    <2> QED
        BY <1>0, <1>5, <2>2, <2>3, <2>4, <2>5, <2>6 DEF Dice!Check, DiceTypes, DiceInv, Turns
<1>6. CASE Dice!Reset(t)
    <2>1. /\ d_pc[t] = "reset" /\ expected = 0 /\ token[t] = phase
          /\ \A u \in DiceThreads \ {t} : d_pc[u] = "wait" /\ token[u] = phase
        BY <1>6, OthersWait DEF Dice!Reset
    <2>2. Counted /\ n_turns = phase + 1
        BY <2>1 DEF DiceInv, Turns, Counted
    <2>3. DiceTypes'
        BY <1>0, <1>6, DiceThreadsFinite DEF Dice!Reset, DiceTypes, DiceStates
    <2>4. Missing' = DiceThreads
        BY <1>0, <1>6, <2>1 DEF Dice!Reset, DiceTypes, Missing, Arrived
    <2>5. Dice!Completing' = {} /\ ~Counted'
        BY <1>0, <1>6, <2>1 DEF Dice!Reset, DiceTypes, Dice!Completing, Counted
    <2>6. Ending'
        BY <1>0, <1>6, <2>1 DEF Dice!Reset, DiceTypes, DiceInv, Ending
    <2>7. Dice!InStep'
        BY <1>0, <1>6, <2>1, <2>2 DEF Dice!Reset, DiceTypes, DiceInv, Dice!InStep
    <2> QED
        BY <1>0, <1>6, <2>2, <2>3, <2>4, <2>5, <2>6, <2>7, DiceThreadsFinite
        DEF Dice!Reset, DiceTypes, DiceInv, OneCompletes, Turns
<1>7. CASE Dice!Leave(t)
    <2>1. d_pc[t] = "wait" /\ token[t] # phase /\ t \notin Arrived
        BY <1>7 DEF Dice!Leave, Arrived
    <2>2. ~Counted /\ n_turns = phase /\ Dice!Completing = {}
        BY <2>1, NobodyCompletes
    <2>3. DiceTypes' /\ Missing' = Missing
        BY <1>0, <1>7, <2>1 DEF Dice!Leave, DiceTypes, DiceStates, Missing, Arrived
    <2>4. Dice!Completing' = {} /\ ~Counted'
        BY <1>0, <1>7, <2>2 DEF Dice!Leave, DiceTypes, Dice!Completing, Counted
    <2>5. Ending'
        BY <1>0, <1>7 DEF Dice!Leave, DiceTypes, DiceInv, Ending
    <2>6. Dice!InStep'
        BY <1>0, <1>7, <2>1 DEF Dice!Leave, DiceTypes, DiceInv, Dice!InStep
    <2> QED
        BY <1>7, <2>2, <2>3, <2>4, <2>5, <2>6 DEF Dice!Leave, DiceInv, OneCompletes, Turns
<1> QED
    BY <1>1, <1>2, <1>3, <1>4, <1>5, <1>6, <1>7
    DEF Dice!thread, Dice!arrive_and_wait, Dice!check_result

\* What the threads of the dice game rely on without a lock (258-259).
LEMMA DiceGame == DiceInv => Dice!NoDataRace /\ Dice!InStep /\ Dice!EndsOnSixes
<1> SUFFICES ASSUME DiceInv PROVE Dice!NoDataRace /\ Dice!InStep /\ Dice!EndsOnSixes
    OBVIOUS
<1>1. Dice!NoDataRace
    BY OthersWait DEF Dice!NoDataRace, Dice!Completing
<1>2. Dice!EndsOnSixes
    BY DEF DiceInv, Ending, Dice!EndsOnSixes
<1> QED
    BY <1>1, <1>2 DEF DiceInv
-----------------------------------------------------------------------------
\* FutureAndPromise.cpp.  A shared state is set when its thread has ended, with
\* the outcome of its task; by each statement the caller has printed the
\* outcomes of the results it got before.
Statements == {"detach p", "detach p1", "get p", "get p1", "packaged", "get packaged",
               "async", "get async", "return", "returned"}
ResultsSet ==
    \A w \in Futures!Tasks :
        IF worker[w] = "ended" THEN state[w] = Futures!Outcome(w) ELSE state[w] = "none"
Printed ==
    CASE f_pc \in {"detach p", "detach p1", "get p"} -> output = <<>>
      [] f_pc = "get p1" -> output = <<Futures!Outcome("p")>>
      [] f_pc \in {"packaged", "get packaged"} ->
           output = <<Futures!Outcome("p"), Futures!Outcome("p1")>>
      [] f_pc \in {"async", "get async"} ->
           output = <<Futures!Outcome("p"), Futures!Outcome("p1"), Futures!Outcome("packaged")>>
      [] f_pc \in {"return", "returned"} ->
           output = <<Futures!Outcome("p"), Futures!Outcome("p1"), Futures!Outcome("packaged"),
                      Futures!Outcome("async")>>
\* The caller comes to a statement only after the threads it has waited for have
\* ended, and before the threads it has still to start.
Awaited ==
    /\ f_pc \notin {"detach p", "detach p1", "get p"} => worker["p"] = "ended"
    /\ f_pc \notin {"detach p", "detach p1", "get p", "get p1"} => worker["p1"] = "ended"
    /\ f_pc = "detach p" => worker["p"] = "unborn"
    /\ f_pc \in {"detach p", "detach p1"} => worker["p1"] = "unborn"
    /\ f_pc \notin {"get packaged", "async", "get async", "return", "returned"} =>
           worker["packaged"] = "unborn"
    /\ f_pc \notin {"get async", "return", "returned"} => worker["async"] = "unborn"
FuturesInv ==
    /\ Divisor \in Divisors /\ f_pc \in Statements
    /\ promises = (f_pc # "returned")
    /\ state \in [Futures!Tasks -> {"none", "value", "error"}]
    /\ worker \in [Futures!Tasks -> {"unborn", "divide", "set", "ended"}]
    /\ ResultsSet /\ Awaited /\ Printed

\* Append puts one more element behind the one, two or three of a tuple.
LEMMA AppendToTuple ==
    ASSUME NEW S, NEW a \in S, NEW b \in S, NEW c \in S, NEW d \in S
    PROVE  /\ Append(<<a>>, b) = <<a, b>>
           /\ Append(<<a, b>>, c) = <<a, b, c>>
           /\ Append(<<a, b, c>>, d) = <<a, b, c, d>>
<1>0. {<<a>>, <<a, b>>, <<a, b, c>>, <<a, b, c, d>>} \subseteq Seq(S)
    OBVIOUS
<1>1. Append(<<a>>, b) = <<a, b>>
    <2>1. \A k \in 1 .. 2 : Append(<<a>>, b)[k] = <<a, b>>[k]
        OBVIOUS
    <2>2. Append(<<a>>, b) \in Seq(S) /\ Len(Append(<<a>>, b)) = Len(<<a, b>>)
        BY <1>0, AppendProperties
    <2> QED
        BY <1>0, <2>1, <2>2, SeqEqual
<1>2. Append(<<a, b>>, c) = <<a, b, c>>
    <2>1. \A k \in 1 .. 3 : Append(<<a, b>>, c)[k] = <<a, b, c>>[k]
        OBVIOUS
    <2>2. Append(<<a, b>>, c) \in Seq(S) /\ Len(Append(<<a, b>>, c)) = Len(<<a, b, c>>)
        BY <1>0, AppendProperties
    <2> QED
        BY <1>0, <2>1, <2>2, SeqEqual
<1>3. Append(<<a, b, c>>, d) = <<a, b, c, d>>
    <2>1. \A k \in 1 .. 4 : Append(<<a, b, c>>, d)[k] = <<a, b, c, d>>[k]
        OBVIOUS
    <2>2. Append(<<a, b, c>>, d) \in Seq(S) /\ Len(Append(<<a, b, c>>, d)) = Len(<<a, b, c, d>>)
        BY <1>0, AppendProperties
    <2> QED
        BY <1>0, <2>1, <2>2, SeqEqual
<1> QED
    BY <1>1, <1>2, <1>3

\* The first task succeeds (34), so the caller gets the second result as well.
LEMMA FirstSucceeds == Divisor \in Divisors => Futures!Outcome("p") = "value"
<1>1. Futures!FutureAssumption
    BY ExamplesAssumption DEF ExamplesAssumption
<1> QED
    BY <1>1 DEF Futures!FutureAssumption, Futures!Outcome

\* The invariant of the futures holds before the first task is detached (34).
LEMMA FuturesStart == Futures!Init => FuturesInv
BY DEF Futures!Init, Futures!Tasks, FuturesInv, ResultsSet, Awaited, Printed, Statements

\* Every step of the caller and of the detached threads keeps it (9-85).
LEMMA FuturesStep == FuturesInv /\ Futures!Next => FuturesInv'
<1> SUFFICES ASSUME FuturesInv, Futures!Next PROVE FuturesInv'
    OBVIOUS
<1> USE DEF Futures!Goto, Futures!Tasks
<1>0. Futures!Outcome("p") = "value" /\ \A w : Futures!Outcome(w) \in {"value", "error"}
    BY FirstSucceeds DEF FuturesInv, Futures!Outcome
<1>6. /\ Append(<<Futures!Outcome("p")>>, Futures!Outcome("p1")) =
             <<Futures!Outcome("p"), Futures!Outcome("p1")>>
      /\ Append(<<Futures!Outcome("p"), Futures!Outcome("p1")>>, Futures!Outcome("packaged")) =
             <<Futures!Outcome("p"), Futures!Outcome("p1"), Futures!Outcome("packaged")>>
      /\ Append(<<Futures!Outcome("p"), Futures!Outcome("p1"), Futures!Outcome("packaged")>>,
                Futures!Outcome("async")) =
             <<Futures!Outcome("p"), Futures!Outcome("p1"), Futures!Outcome("packaged"),
               Futures!Outcome("async")>>
    <2>1. \A a, b, c, d \in {"value", "error"} :
              /\ Append(<<a>>, b) = <<a, b>>
              /\ Append(<<a, b>>, c) = <<a, b, c>>
              /\ Append(<<a, b, c>>, d) = <<a, b, c, d>>
        <3> DEFINE Outcomes == {"value", "error"}
        <3>1. ASSUME NEW a \in Outcomes, NEW b \in Outcomes, NEW c \in Outcomes, NEW d \in Outcomes
              PROVE  /\ Append(<<a>>, b) = <<a, b>>
                     /\ Append(<<a, b>>, c) = <<a, b, c>>
                     /\ Append(<<a, b, c>>, d) = <<a, b, c, d>>
            <4> HIDE DEF Outcomes
            <4> QED
                BY AppendToTuple
        <3> QED
            BY <3>1
    <2> HIDE DEF Futures!Tasks
    <2> QED
        BY <1>0, <2>1
<1>1. ASSUME NEW w \in Futures!Tasks, NEW from \in Statements, NEW to \in Statements,
             Futures!Start(w, from, to),
             <<w, from, to>> \in {<<"p", "detach p", "detach p1">>, <<"p1", "detach p1", "get p">>,
                 <<"packaged", "packaged", "get packaged">>, <<"async", "async", "get async">>}
      PROVE  FuturesInv'
    <2>1. \A v : Futures!Outcome(v)' = Futures!Outcome(v)
        BY <1>1 DEF Futures!Start, Futures!Outcome
    <2>2. ResultsSet'
        BY <1>1, <2>1 DEF Futures!Start, FuturesInv, ResultsSet, Awaited
    <2>3. Awaited'
        BY <1>1 DEF Futures!Start, FuturesInv, Awaited
    <2>4. Printed'
        <3>1. /\ f_pc = from /\ f_pc' = to /\ output' = output /\ Printed
              /\ <<from, to>> \in {<<"detach p", "detach p1">>, <<"detach p1", "get p">>,
                      <<"packaged", "get packaged">>, <<"async", "get async">>}
            BY <1>1 DEF Futures!Start, FuturesInv
        <3> QED
            BY <2>1, <3>1 DEF Printed
    <2> QED
        BY <1>1, <2>2, <2>3, <2>4 DEF Futures!Start, FuturesInv
<1>2. ASSUME NEW w \in Futures!Tasks, Futures!worker(w) PROVE FuturesInv'
    <2>1. \A v : Futures!Outcome(v)' = Futures!Outcome(v)
        BY <1>2 DEF Futures!worker, Futures!divide, Futures!SetResult, Futures!Outcome
    <2>2. ResultsSet'
        BY <1>2, <2>1 DEF Futures!worker, Futures!divide, Futures!SetResult, FuturesInv, ResultsSet
    <2>3. Awaited'
        <3>1. /\ f_pc' = f_pc /\ worker[w] \notin {"unborn", "ended"}
              /\ \A x \in Futures!Tasks \ {w} : worker'[x] = worker[x]
            BY <1>2 DEF Futures!worker, Futures!divide, Futures!SetResult, FuturesInv
        <3> QED
            BY <3>1 DEF FuturesInv, Awaited, Futures!Tasks
    <2>4. Printed'
        BY <1>2, <2>1 DEF Futures!worker, Futures!divide, Futures!SetResult, FuturesInv, Printed
    <2> QED
        BY <1>0, <1>2, <2>2, <2>3, <2>4 DEF Futures!worker, Futures!divide, Futures!SetResult, FuturesInv
<1>3. ASSUME NEW w \in Futures!Tasks, NEW from \in Statements, NEW to \in Statements,
             NEW caught \in Statements, Futures!Get(w, from, to, caught),
             <<w, from, to, caught>> \in {<<"p", "get p", "get p1", "packaged">>,
                 <<"p1", "get p1", "packaged", "packaged">>,
                 <<"packaged", "get packaged", "async", "async">>,
                 <<"async", "get async", "return", "return">>}
      PROVE  FuturesInv'
    <2>1. \A v : Futures!Outcome(v)' = Futures!Outcome(v)
        BY <1>3 DEF Futures!Get, Futures!Outcome
    <2>2. worker[w] = "ended" /\ state[w] = Futures!Outcome(w)
        BY <1>3 DEF Futures!Get, FuturesInv, ResultsSet
    <2>3. output' = Append(output, Futures!Outcome(w)) /\ f_pc' = to
        BY <1>0, <1>3, <2>2 DEF Futures!Get
    <2>4. ResultsSet'
        BY <1>3, <2>1 DEF Futures!Get, FuturesInv, ResultsSet
    <2>5. Awaited'
        BY <1>3, <2>2, <2>3 DEF Futures!Get, FuturesInv, Awaited
    <2>6. Printed'
        <3>1. f_pc = from /\ f_pc' = to /\ Divisor' = Divisor
            BY <1>3, <2>3 DEF Futures!Get
        <3>2. CASE w = "p"
            <4>1. output = <<>>
                BY <1>3, <3>1, <3>2 DEF FuturesInv, Printed
            <4>2. output' =
                      <<Futures!Outcome("p")>>
                BY <1>0, <2>3, <3>2, <4>1, AppendToTuple
            <4> QED
                BY <1>3, <3>1, <3>2, <4>2 DEF Printed, Futures!Outcome
        <3>3. CASE w = "p1"
            <4>1. output = <<Futures!Outcome("p")>>
                BY <1>3, <3>1, <3>3 DEF FuturesInv, Printed
            <4>2. output' =
                      <<Futures!Outcome("p"), Futures!Outcome("p1")>>
                BY <2>3, <3>3, <4>1, <1>6
            <4> QED
                BY <1>3, <3>1, <3>3, <4>2 DEF Printed, Futures!Outcome
        <3>4. CASE w = "packaged"
            <4>1. output = <<Futures!Outcome("p"), Futures!Outcome("p1")>>
                BY <1>3, <3>1, <3>4 DEF FuturesInv, Printed
            <4>2. output' =
                      <<Futures!Outcome("p"), Futures!Outcome("p1"), Futures!Outcome("packaged")>>
                BY <2>3, <3>4, <4>1, <1>6
            <4> QED
                BY <1>3, <3>1, <3>4, <4>2 DEF Printed, Futures!Outcome
        <3>5. CASE w = "async"
            <4>1. output = <<Futures!Outcome("p"), Futures!Outcome("p1"), Futures!Outcome("packaged")>>
                BY <1>3, <3>1, <3>5 DEF FuturesInv, Printed
            <4>2. output' =
                      <<Futures!Outcome("p"), Futures!Outcome("p1"), Futures!Outcome("packaged"), Futures!Outcome("async")>>
                BY <2>3, <3>5, <4>1, <1>6
            <4> QED
                BY <1>3, <3>1, <3>5, <4>2 DEF Printed, Futures!Outcome
        <3> QED
            BY <1>3, <3>2, <3>3, <3>4, <3>5
    <2> QED
        BY <1>3, <2>3, <2>4, <2>5, <2>6 DEF Futures!Get, FuturesInv, Statements
<1>4. CASE Futures!Return
    <2>1. \A v : Futures!Outcome(v)' = Futures!Outcome(v)
        BY <1>4 DEF Futures!Return, Futures!Outcome
    <2> QED
        <3>1. ResultsSet'
            BY <1>4, <2>1 DEF Futures!Return, FuturesInv, ResultsSet
        <3>2. Awaited'
            BY <1>4 DEF Futures!Return, FuturesInv, Awaited
        <3>3. Printed'
            BY <1>4, <2>1 DEF Futures!Return, FuturesInv, Printed
        <3> QED
            BY <1>4, <3>1, <3>2, <3>3 DEF Futures!Return, FuturesInv, Statements
<1>5. CASE Futures!caller
    <2>1. CASE \/ Futures!Start("p", "detach p", "detach p1")
               \/ Futures!Start("p1", "detach p1", "get p")
               \/ Futures!Start("packaged", "packaged", "get packaged")
               \/ Futures!Start("async", "async", "get async")
        BY <1>1, <2>1 DEF Statements
    <2>2. CASE \/ Futures!Get("p", "get p", "get p1", "packaged")
               \/ Futures!Get("p1", "get p1", "packaged", "packaged")
               \/ Futures!Get("packaged", "get packaged", "async", "async")
               \/ Futures!Get("async", "get async", "return", "return")
        BY <1>3, <2>2 DEF Statements
    <2> QED
        BY <1>4, <1>5, <2>1, <2>2 DEF Futures!caller
<1> QED
    BY <1>2, <1>5 DEF Futures!Next

\* What the caller and the threads it never joins rely on (34-85).
LEMMA FuturesHold == FuturesInv => Futures!PromisesOutliveThreads /\ Futures!OutcomesArrive
BY DEF FuturesInv, Awaited, Printed, Futures!PromisesOutliveThreads, Futures!OutcomesArrive,
       Futures!OnStack
-----------------------------------------------------------------------------
\* AdditionalInCpp20.cpp 296-322.  BoundedBufferProofs proves the driver right
\* for calls that do not throw; the buffer of the examples is that driver.
Proved == INSTANCE BoundedBufferProofs WITH
    producer0 <- "producer0", Threads <- Consumers \cup {"producer0"},
    Items <- 0 .. Share * Cardinality(Consumers) - 1, MayThrow <- FALSE, pc <- b_pc

\* The driver counts in its own instance, and in the one that is proved.
LEMMA SameBufferCount ==
    \A S : /\ Buffer!IsFiniteSet(S) = IsFiniteSet(S) /\ Proved!IsFiniteSet(S) = IsFiniteSet(S)
          /\ Buffer!Cardinality(S) = Cardinality(S) /\ Proved!Cardinality(S) = Cardinality(S)
BY DEF IsFiniteSet, Buffer!IsFiniteSet, Proved!IsFiniteSet,
       Cardinality, Buffer!Cardinality, Proved!Cardinality

\* The buffer that runs and the one that is proved have the same do_push and
\* pop.
LEMMA SameCalls == \A t : (Buffer!do_push(t) <=> Proved!do_push(t)) /\ (Buffer!pop(t) <=> Proved!pop(t))
<1> USE DEF Buffer!Go, Proved!Go, Buffer!Carry, Proved!Carry, Buffer!Lock, Proved!Lock,
            Buffer!Unlock, Proved!Unlock, Buffer!Throw, Proved!Throw, Buffer!ring, Proved!ring,
            Buffer!semaphores, Proved!semaphores, Buffer!Critical, Proved!Critical
<1>1. \A t : Buffer!PushAcquire(t) <=> Proved!PushAcquire(t)
    BY DEF Buffer!PushAcquire, Proved!PushAcquire
<1>2. \A t : Buffer!PushLock(t) <=> Proved!PushLock(t)
    BY DEF Buffer!PushLock, Proved!PushLock
<1>3. \A t : Buffer!Store(t) <=> Proved!Store(t)
    BY DEF Buffer!Store, Proved!Store
<1>4. \A t : Buffer!AdvanceWrite(t) <=> Proved!AdvanceWrite(t)
    BY DEF Buffer!AdvanceWrite, Proved!AdvanceWrite
<1>5. \A t : Buffer!ReleaseFull(t) <=> Proved!ReleaseFull(t)
    BY DEF Buffer!ReleaseFull, Proved!ReleaseFull
<1>6. \A t : Buffer!PushCatch(t) <=> Proved!PushCatch(t)
    BY DEF Buffer!PushCatch, Proved!PushCatch
<1>7. \A t : Buffer!PopAcquire(t) <=> Proved!PopAcquire(t)
    BY DEF Buffer!PopAcquire, Proved!PopAcquire
<1>8. \A t : Buffer!PopLock(t) <=> Proved!PopLock(t)
    BY DEF Buffer!PopLock, Proved!PopLock
<1>9. \A t : Buffer!Take(t) <=> Proved!Take(t)
    BY DEF Buffer!Take, Proved!Take
<1>10. \A t : Buffer!AdvanceRead(t) <=> Proved!AdvanceRead(t)
    BY DEF Buffer!AdvanceRead, Proved!AdvanceRead
<1>11. \A t : Buffer!ReleaseEmpty(t) <=> Proved!ReleaseEmpty(t)
    BY DEF Buffer!ReleaseEmpty, Proved!ReleaseEmpty
<1>12. \A t : Buffer!PopCatch(t) <=> Proved!PopCatch(t)
    BY DEF Buffer!PopCatch, Proved!PopCatch
<1>13. \A t : Buffer!PopReturn(t) <=> Proved!PopReturn(t)
    BY DEF Buffer!PopReturn, Proved!PopReturn
<1>14. \A t : Buffer!PopUnwind(t) <=> Proved!PopUnwind(t)
    BY DEF Buffer!PopUnwind, Proved!PopUnwind
<1> QED
    BY <1>1, <1>2, <1>3, <1>4, <1>5, <1>6, <1>7, <1>8, <1>9, <1>10, <1>11, <1>12, <1>13, <1>14
    DEF Buffer!do_push, Proved!do_push, Buffer!pop, Proved!pop

\* The driver that runs and the one that is proved are the same.
LEMMA SameDriver ==
    /\ Buffer!DriverInit <=> Proved!DriverInit
    /\ Buffer!DriverNext <=> Proved!DriverNext
    /\ Buffer!DriverAssumption <=> Proved!DriverAssumption
    /\ Buffer!EachOnceInOrder <=> Proved!EachOnceInOrder
<1> USE SameBufferCount DEF Buffer!Go, Proved!Go, Buffer!Carry, Proved!Carry, Buffer!ring, Proved!ring,
        Buffer!semaphores, Proved!semaphores, Buffer!Total, Proved!Total
<1>1. Buffer!DriverInit <=> Proved!DriverInit
    BY DEF Buffer!DriverInit, Proved!DriverInit, Buffer!Init, Proved!Init
<1>2. Buffer!producer <=> Proved!producer
    <2>1. Buffer!CallPush("producer0", i) <=> Proved!CallPush("producer0", i)
        BY DEF Buffer!CallPush, Proved!CallPush
    <2> QED
        BY <2>1, SameCalls DEF Buffer!producer, Proved!producer
<1>3. \A c : Buffer!consumer(c) <=> Proved!consumer(c)
    <2>1. \A c : Buffer!CallPop(c) <=> Proved!CallPop(c)
        BY DEF Buffer!CallPop, Proved!CallPop
    <2> QED
        BY <2>1, SameCalls DEF Buffer!consumer, Proved!consumer
<1>4. Buffer!DriverNext <=> Proved!DriverNext
    BY <1>2, <1>3 DEF Buffer!DriverNext, Proved!DriverNext
<1>5. Buffer!DriverAssumption <=> Proved!DriverAssumption
    BY DEF Buffer!DriverAssumption, Proved!DriverAssumption
<1>6. \A L : Buffer!At(L) = Proved!At(L)
    BY DEF Buffer!At, Proved!At
<1>7. Buffer!Count = Proved!Count
    BY <1>6 DEF Buffer!Count, Proved!Count, Buffer!Counted, Proved!Counted, Buffer!Popping, Proved!Popping
<1>8. Buffer!Finished <=> Proved!Finished
    BY <1>6 DEF Buffer!Finished, Proved!Finished
<1>9. Buffer!EachOnceInOrder <=> Proved!EachOnceInOrder
    BY <1>7, <1>8 DEF Buffer!EachOnceInOrder, Proved!EachOnceInOrder, Buffer!TakenBy, Proved!TakenBy
<1> QED
    BY <1>1, <1>4, <1>5, <1>9

\* The constants of the examples satisfy what the proof for the buffer assumes.
LEMMA BufferAssumptions == Proved!BufferAssumption /\ Proved!DriverAssumption
<1>1. Buffer!BufferAssumption /\ Buffer!DriverAssumption
    BY ExamplesAssumption DEF ExamplesAssumption
<1> QED
    BY <1>1, SameDriver, SameBufferCount

BufferInv == Proved!DeliveryInv

\* The driver's invariant holds when AdditionalInCpp20() starts its threads.
LEMMA BufferStart == Buffer!DriverInit => BufferInv
BY BufferAssumptions, SameDriver, Proved!DeliveryInitially DEF BufferInv

\* Each step of the driver keeps it.
LEMMA BufferStep == BufferInv /\ Buffer!DriverNext => BufferInv'
BY BufferAssumptions, SameDriver, Proved!DeliveryInductive DEF BufferInv

\* A step of another example does not disturb it.
LEMMA BufferKept == BufferInv /\ UNCHANGED v5 => BufferInv'
<1>1. UNCHANGED v5 => UNCHANGED Proved!driverVars
    BY DEF v5, Proved!driverVars, Proved!vars
<1> QED
    BY <1>1, BufferAssumptions, Proved!DeliveryInductive DEF BufferInv

\* It implies EachOnceInOrder.
LEMMA BufferDelivers == BufferInv => Buffer!EachOnceInOrder
BY BufferAssumptions, SameDriver, Proved!DeliveryInOrder DEF BufferInv
\* Every nonempty set of numbers has a least element.
LEMMA Least ==
    ASSUME NEW T \in SUBSET Nat, T # {}
    PROVE  \E x \in T : \A y \in T : x <= y
<1> DEFINE R == {ss \in Nat \X Nat : ss[1] < ss[2]}
<1>1. IsWellFoundedOn(R, Nat)
    BY NatLessThanWellFounded DEF OpToRel
<1> HIDE DEF R
<1>2. PICK x \in T : \A y \in T : <<y, x>> \notin R
    BY <1>1, WFMin
<1>3. ASSUME NEW y \in T PROVE x <= y
    <2>1. x \in Nat /\ y \in Nat
        OBVIOUS
    <2>2. ~(y < x)
        BY <1>2, <2>1 DEF R
    <2> QED BY <2>1, <2>2
<1> QED BY <1>3

Some(s) == CHOOSE x \in s : TRUE
Step(f, g, s) == IF s = {} THEN 0 ELSE f[Some(s)] + g[s \ {Some(s)}]
InAnyOrder(f, g, S) == \A s \in SUBSET S : \A x \in s : g[s] = f[x] + g[s \ {x}]
Adds(f, g, S) == g = [s \in SUBSET S |-> Step(f, g, s)]

Total(f, S) == (CHOOSE g : Adds(f, g, S))[S]

\* It is what the examples call SumFunctionOnSet, each in its own instance of Functions.
LEMMA SumIs == \A f, S : /\ Section!SumFunctionOnSet(f, S) = Total(f, S)
                        /\ Coin!SumFunctionOnSet(f, S) = Total(f, S)
BY DEF Section!SumFunctionOnSet, Section!FoldFunctionOnSet, Section!MapThenFoldSet,
       Coin!SumFunctionOnSet, Coin!FoldFunctionOnSet, Coin!MapThenFoldSet, Total, Adds, Step, Some

\* On a finite set there is such a function.
LEMMA SumExists ==
    ASSUME NEW S, IsFiniteSet(S), NEW f, \A x \in S : f[x] \in Int
    PROVE  \E g \in [SUBSET S -> Int] : Adds(f, g, S)
<1> DEFINE Upto(m, g) == g \in [SUBSET S -> Int] /\ \A s \in SUBSET S : Cardinality(s) <= m => g[s] = Step(f, g, s)
           Bad == {m \in Nat : ~\E g : Upto(m, g)}
<1>1. \A s \in SUBSET S : IsFiniteSet(s) /\ Cardinality(s) \in Nat /\ Cardinality(s) <= Cardinality(S) /\ (Cardinality(s) = 0 <=> s = {})
    BY FS_Subset, FS_CardinalityType, FS_EmptySet
<1>2. \A s \in SUBSET S : s # {} => Some(s) \in s /\ s \ {Some(s)} \in SUBSET S /\ Cardinality(s \ {Some(s)}) = Cardinality(s) - 1
    <2> SUFFICES ASSUME NEW s \in SUBSET S, s # {}
                 PROVE  Some(s) \in s /\ Cardinality(s \ {Some(s)}) = Cardinality(s) - 1
        OBVIOUS
    <2>1. Some(s) \in s
        BY DEF Some
    <2> QED BY <1>1, <2>1, FS_RemoveElement
<1>3. Bad = {}
    <2> SUFFICES ASSUME Bad # {} PROVE FALSE
        OBVIOUS
    <2>1. PICK m \in Bad : \A k \in Bad : m <= k
        <3>1. Bad \in SUBSET Nat
            OBVIOUS
        <3> HIDE DEF Bad
        <3> QED BY <3>1, Least
    <2>2. m \in Nat
        OBVIOUS
    <2>3. CASE m = 0
        <3> DEFINE g == [s \in SUBSET S |-> 0]
        <3>1. g \in [SUBSET S -> Int]
            OBVIOUS
        <3>2. ASSUME NEW s \in SUBSET S, Cardinality(s) <= 0 PROVE g[s] = Step(f, g, s)
            <4>1. s = {}
                BY <1>1, <3>2
            <4> QED BY <4>1 DEF Step
        <3>3. Upto(0, g)
            BY <3>1, <3>2
        <3> QED BY <2>3, <3>3
    <2>4. CASE m # 0
        <3>1. m - 1 \in Nat /\ m - 1 \notin Bad
            <4> HIDE DEF Bad
            <4>1. m - 1 \in Nat /\ ~(m <= m - 1)
                BY <2>2, <2>4
            <4> QED BY <2>1, <4>1
        <3>2. PICK g : Upto(m - 1, g)
            <4> HIDE DEF Upto
            <4> QED BY <3>1
        <3> DEFINE h == [s \in SUBSET S |-> IF Cardinality(s) = m THEN Step(f, g, s) ELSE g[s]]
        <3>3. \A s \in SUBSET S : Step(f, g, s) \in Int
            <4> SUFFICES ASSUME NEW s \in SUBSET S PROVE Step(f, g, s) \in Int
                OBVIOUS
            <4>1. CASE s = {}
                BY <4>1 DEF Step
            <4>2. CASE s # {}
                <5>1. f[Some(s)] \in Int /\ g[s \ {Some(s)}] \in Int
                    BY <1>2, <3>2, <4>2
                <5> QED BY <4>2, <5>1 DEF Step
            <4> QED BY <4>1, <4>2
        <3>4. h \in [SUBSET S -> Int]
            BY <3>2, <3>3
        <3>5. ASSUME NEW s \in SUBSET S, Cardinality(s) <= m PROVE h[s] = Step(f, h, s)
            <4>1. Step(f, h, s) = Step(f, g, s)
                <5>1. CASE s = {}
                    BY <5>1 DEF Step
                <5>2. CASE s # {}
                    <6>1. Cardinality(s \ {Some(s)}) # m /\ s \ {Some(s)} \in SUBSET S
                        BY <1>1, <1>2, <2>2, <3>5, <5>2
                    <6>2. h[s \ {Some(s)}] = g[s \ {Some(s)}]
                        BY <6>1
                    <6> QED BY <5>2, <6>2 DEF Step
                <5> QED BY <5>1, <5>2
            <4>2. Cardinality(s) = m \/ Cardinality(s) <= m - 1
                BY <1>1, <2>2, <3>5
            <4>3. Cardinality(s) <= m - 1 => g[s] = Step(f, g, s) /\ Cardinality(s) # m
                BY <1>1, <2>2, <3>2
            <4> QED BY <4>1, <4>2, <4>3
        <3> HIDE DEF h
        <3>6. Upto(m, h)
            BY <3>4, <3>5
        <3> QED BY <3>6
    <2> QED BY <2>3, <2>4
<1>4. Cardinality(S) \in Nat
    BY FS_CardinalityType
<1>5. PICK g : Upto(Cardinality(S), g)
    BY <1>3, <1>4
<1>6. \A s \in SUBSET S : g[s] = Step(f, g, s)
    BY <1>1, <1>5
<1>7. g = [s \in SUBSET S |-> g[s]]
    BY <1>5
<1> QED BY <1>5, <1>6, <1>7 DEF Adds

\* A set with a member is not empty, and one less is smaller.
LEMMA Smaller ==
    ASSUME NEW S, IsFiniteSet(S)
    PROVE  /\ \A s \in SUBSET S : IsFiniteSet(s) /\ Cardinality(s) \in Nat
           /\ \A s \in SUBSET S : \A x \in s : s \ {x} \in SUBSET S /\ Cardinality(s \ {x}) = Cardinality(s) - 1
           /\ \A s : s # {} => Some(s) \in s
<1>1. \A s \in SUBSET S : IsFiniteSet(s) /\ Cardinality(s) \in Nat
    BY FS_Subset, FS_CardinalityType
<1>2. \A s \in SUBSET S : \A x \in s : Cardinality(s \ {x}) = Cardinality(s) - 1
    BY <1>1, FS_RemoveElement
<1>3. \A s : s # {} => Some(s) \in s
    BY DEF Some
<1> QED BY <1>1, <1>2, <1>3

\* Two such functions agree where both are defined.
LEMMA SumUnique ==
    ASSUME NEW T, NEW S \in SUBSET T, IsFiniteSet(S), NEW f, NEW g, NEW h, Adds(f, g, S), Adds(f, h, T)
    PROVE  \A s \in SUBSET S : g[s] = h[s]
<1> DEFINE Bad == {m \in Nat : \E s \in SUBSET S : Cardinality(s) = m /\ g[s] # h[s]}
<1>1. SUFFICES ASSUME NEW s \in SUBSET S, g[s] # h[s] PROVE FALSE
    OBVIOUS
<1>2. Bad # {}
    BY <1>1, Smaller
<1>3. PICK m \in Bad : \A k \in Bad : m <= k
    <2>1. Bad \in SUBSET Nat
        OBVIOUS
    <2> HIDE DEF Bad
    <2> QED BY <1>2, <2>1, Least
<1>4. PICK t \in SUBSET S : Cardinality(t) = m /\ g[t] # h[t]
    OBVIOUS
<1>5. g[t] = Step(f, g, t) /\ h[t] = Step(f, h, t)
    BY DEF Adds
<1>6. t # {}
    BY <1>4, <1>5 DEF Step
<1> DEFINE u == t \ {Some(t)}
<1>7. u \in SUBSET S /\ Cardinality(u) = m - 1 /\ m - 1 \in Nat
    <2>1. Some(t) \in t
        BY <1>6, Smaller
    <2> QED BY <1>4, <2>1, Smaller
<1>8. g[u] = h[u]
    <2>1. m - 1 \notin Bad
        <3> HIDE DEF Bad, u
        <3>1. m \in Nat /\ ~(m <= m - 1)
            BY <1>4, <1>7, Smaller
        <3> QED BY <1>3, <3>1
    <2> HIDE DEF u
    <2> QED BY <1>7, <2>1
<1> QED BY <1>4, <1>5, <1>6, <1>8 DEF Step

\* The order in which elements are chosen does not matter.
LEMMA AnyOrder ==
    ASSUME NEW S, IsFiniteSet(S), NEW f, \A x \in S : f[x] \in Int
    PROVE  \E g \in [SUBSET S -> Int] :
              Adds(f, g, S) /\ InAnyOrder(f, g, S)
<1>0. PICK g \in [SUBSET S -> Int] : Adds(f, g, S)
    BY SumExists
<1> DEFINE Bad == {m \in Nat : \E s \in SUBSET S : Cardinality(s) = m /\ \E x \in s : g[s] # f[x] + g[s \ {x}]}
<1>1. SUFFICES ASSUME NEW s \in SUBSET S, NEW x \in s, g[s] # f[x] + g[s \ {x}] PROVE FALSE
    BY <1>0 DEF InAnyOrder
<1>2. Bad # {}
    BY <1>1, Smaller
<1>3. PICK m \in Bad : \A k \in Bad : m <= k
    <2>1. Bad \in SUBSET Nat
        OBVIOUS
    <2> HIDE DEF Bad
    <2> QED BY <1>2, <2>1, Least
<1>4. PICK t \in SUBSET S : Cardinality(t) = m /\ \E y \in t : g[t] # f[y] + g[t \ {y}]
    OBVIOUS
<1>5. PICK y \in t : g[t] # f[y] + g[t \ {y}]
    BY <1>4
<1> DEFINE z == Some(t)
<1>6. z \in t /\ g[t] = f[z] + g[t \ {z}] /\ z # y
    <2>1. Some(t) \in t
        BY <1>5, Smaller
    <2>2. g[t] = Step(f, g, t)
        BY <1>0 DEF Adds
    <2> QED BY <1>5, <2>1, <2>2 DEF Step
<1> HIDE DEF z
<1>7. /\ t \ {y} \in SUBSET S /\ Cardinality(t \ {y}) = m - 1
      /\ t \ {z} \in SUBSET S /\ Cardinality(t \ {z}) = m - 1
      /\ m - 1 \in Nat
    <2>1. y \in t /\ z \in t /\ t \in SUBSET S /\ Cardinality(t) = m
        BY <1>4, <1>5, <1>6
    <2> HIDE DEF Bad
    <2> QED BY <2>1, Smaller
<1>8. \A v \in SUBSET S : \A w \in v : Cardinality(v) = m - 1 => g[v] = f[w] + g[v \ {w}]
    <2>1. m - 1 \notin Bad
        <3> HIDE DEF Bad
        <3>1. m \in Nat /\ ~(m <= m - 1)
            BY <1>4, <1>7, Smaller
        <3> QED BY <1>3, <3>1
    <2> QED BY <1>7, <2>1
<1>9. g[t \ {y}] = f[z] + g[(t \ {y}) \ {z}] /\ g[t \ {z}] = f[y] + g[(t \ {z}) \ {y}]
    <2>1. z \in t \ {y} /\ y \in t \ {z}
        BY <1>5, <1>6
    <2> QED BY <1>7, <1>8, <2>1
<1>10. (t \ {y}) \ {z} = (t \ {z}) \ {y} /\ (t \ {y}) \ {z} \in SUBSET S
    OBVIOUS
<1>11. f[y] \in Int /\ f[z] \in Int /\ g[(t \ {y}) \ {z}] \in Int
    BY <1>5, <1>6, <1>10
<1> DEFINE w == (t \ {y}) \ {z}
<1>12. g[t \ {y}] = f[z] + g[w] /\ g[t \ {z}] = f[y] + g[w]
    BY <1>9, <1>10
<1>13. f[z] + (f[y] + g[w]) = f[y] + (f[z] + g[w])
    BY <1>11
<1> HIDE DEF w
<1>14. g[t] = f[y] + g[t \ {y}]
    BY <1>6, <1>12, <1>13
<1> QED BY <1>5, <1>14

\* Total is the sum: of nothing 0, and each element adds its value.
LEMMA SumOfNone == \A f : Total(f, {}) = 0
<1> SUFFICES ASSUME NEW f PROVE Total(f, {}) = 0
    OBVIOUS
<1>1. \E g : Adds(f, g, {})
    <2>1. IsFiniteSet({}) /\ \A x \in {} : f[x] \in Int
        BY FS_EmptySet
    <2> QED BY <2>1, SumExists
<1>2. PICK g : g = (CHOOSE h : Adds(f, h, {})) /\ Adds(f, g, {})
    BY <1>1
<1>3. g[{}] = Step(f, g, {})
    BY <1>2 DEF Adds
<1> QED BY <1>2, <1>3 DEF Total, Step

\* The sum over a finite set does not depend on which element comes last.
LEMMA SumOfMore ==
    ASSUME NEW S, IsFiniteSet(S), NEW f, \A y \in S : f[y] \in Int, NEW x, x \notin S, f[x] \in Int
    PROVE  /\ Total(f, S) \in Int
           /\ Total(f, S \cup {x}) = f[x] + Total(f, S)
<1> DEFINE T == S \cup {x}
<1>1. IsFiniteSet(T) /\ (\A y \in T : f[y] \in Int) /\ S \in SUBSET T
    BY FS_AddElement
<1> HIDE DEF T
<1>2. PICK g \in [SUBSET S -> Int] : Adds(f, g, S)
    BY SumExists
<1>3. PICK h \in [SUBSET T -> Int] : Adds(f, h, T) /\ InAnyOrder(f, h, T)
    BY <1>1, AnyOrder
<1>4. Total(f, S) = g[S]
    <2>1. PICK k : k = (CHOOSE e : Adds(f, e, S)) /\ Adds(f, k, S)
        BY <1>2
    <2>2. \A s \in SUBSET S : k[s] = g[s]
        BY <1>2, <2>1, SumUnique
    <2> QED BY <2>1, <2>2 DEF Total
<1>5. Total(f, T) = h[T]
    <2>1. PICK k : k = (CHOOSE e : Adds(f, e, T)) /\ Adds(f, k, T)
        BY <1>3
    <2>2. \A s \in SUBSET T : k[s] = h[s]
        BY <1>1, <1>3, <2>1, SumUnique
    <2> QED BY <2>1, <2>2 DEF Total
<1>6. g[S] = h[S]
    BY <1>1, <1>2, <1>3, SumUnique
<1>7. x \in T /\ T \ {x} = S /\ T \in SUBSET T
    BY DEF T
<1>8. h[T] = f[x] + h[S]
    BY <1>3, <1>7 DEF InAnyOrder
<1>9. g[S] \in Int
    BY <1>2
<1> QED BY <1>4, <1>5, <1>6, <1>8, <1>9 DEF T
-----------------------------------------------------------------------------
\* AdditionalInCpp20.cpp 189-214.  What was counted and what is still to flip
\* are the flips of the calls so far and of the one that runs.
CoinInv ==
    /\ heads_ \in Nat /\ tails_ \in Nat /\ call \in 1 .. Len(Flips) + 1
    /\ left \in [{"t1", "t2"} -> Nat] /\ s_pc \in {"caller", "flip_coin"}
    /\ s_pc = "flip_coin" => call <= Len(Flips)
    /\ s_pc = "caller" => left["t1"] = 0 /\ left["t2"] = 0
    /\ heads_ + tails_ + left["t1"] + left["t2"]
           = Total(Flips, 1 .. call - 1) + (IF s_pc = "flip_coin" THEN Flips[call] ELSE 0)

\* The calls up to the next one flip as often as those before it and it.
LEMMA FlipsAdd ==
    /\ Flips \in Seq(Nat) /\ Len(Flips) \in Nat
    /\ \A n \in 1 .. Len(Flips) : /\ Flips[n] \in Nat
                                  /\ Total(Flips, 1 .. n - 1) \in Int
                                  /\ Total(Flips, 1 .. n) = Flips[n] + Total(Flips, 1 .. n - 1)
<1>1. Flips \in Seq(Nat)
    BY ExamplesAssumption DEF ExamplesAssumption, Coin!FlipAssumption
<1>2. ASSUME NEW n \in 1 .. Len(Flips)
      PROVE  /\ Flips[n] \in Nat
             /\ Total(Flips, 1 .. n - 1) \in Int
             /\ Total(Flips, 1 .. n) = Flips[n] + Total(Flips, 1 .. n - 1)
    <2>1. \A m \in 1 .. n : Flips[m] \in Nat
        BY <1>1
    <2> DEFINE S == 1 .. n - 1
    <2>2. IsFiniteSet(S) /\ S \cup {n} = 1 .. n /\ n \notin S
        <3>1. n \in Int /\ n - 1 \in Int /\ Len(Flips) \in Nat
            BY <1>1
        <3>2. IsFiniteSet(S)
            BY <3>1, FS_Interval
        <3> QED BY <3>1, <3>2
    <2>3. (\A m \in S : Flips[m] \in Int) /\ Flips[n] \in Int /\ Flips[n] \in Nat
        BY <2>1
    <2> HIDE DEF S
    <2>4. Total(Flips, S) \in Int /\ Total(Flips, S \cup {n}) = Flips[n] + Total(Flips, S)
        BY <2>2, <2>3, SumOfMore
    <2> QED BY <2>2, <2>3, <2>4 DEF S
<1> QED BY <1>1, <1>2

\* Nothing has been flipped.
LEMMA CoinStart == Coin!Init => CoinInv
<1> SUFFICES ASSUME Coin!Init PROVE CoinInv
    OBVIOUS
<1>1. 1 .. 1 - 1 = {}
    OBVIOUS
<1>2. Total(Flips, 1 .. 1 - 1) = 0
    BY <1>1, SumOfNone
<1> QED BY <1>2, FlipsAdd DEF Coin!Init, CoinInv, Coin!Threads

\* A call adds its flips to what is to be made, a flip takes one of them.
LEMMA CoinStep == CoinInv /\ Coin!Next => CoinInv'
<1> SUFFICES ASSUME CoinInv, Coin!Next PROVE CoinInv'
    OBVIOUS
<1> USE DEF CoinInv
<1>1. CASE Coin!flip_coin
    <2>1. /\ s_pc = "caller" /\ call <= Len(Flips) /\ s_pc' = "flip_coin" /\ UNCHANGED <<heads_, tails_, call>>
          /\ left' = [t \in {"t1", "t2"} |-> IF t = "t1" THEN Flips[call] \div 2 ELSE Flips[call] - Flips[call] \div 2]
        BY <1>1 DEF Coin!flip_coin, Coin!Threads, Coin!Half
    <2>2. call \in 1 .. Len(Flips) /\ Flips[call] \in Nat /\ Total(Flips, 1 .. call - 1) \in Int
        BY <2>1, FlipsAdd
    <2>3. \A n \in Nat : n \div 2 \in Nat /\ n - n \div 2 \in Nat /\ n \div 2 + (n - n \div 2) = n
        OBVIOUS
    <2>4. left'["t1"] \in Nat /\ left'["t2"] \in Nat /\ left'["t1"] + left'["t2"] = Flips[call]
        BY <2>1, <2>2, <2>3
    <2>5. left' \in [{"t1", "t2"} -> Nat]
        BY <2>1, <2>4
    <2> QED BY <2>1, <2>2, <2>4, <2>5
<1>2. ASSUME NEW t \in {"t1", "t2"}, Coin!flip(t) PROVE CoinInv'
    <2>1. /\ left[t] > 0 /\ left' = [left EXCEPT ![t] = @ - 1] /\ UNCHANGED <<call, s_pc>>
          /\ \/ heads_' = heads_ + 1 /\ UNCHANGED tails_
             \/ tails_' = tails_ + 1 /\ UNCHANGED heads_
        BY <1>2 DEF Coin!flip
    <2>2. left' \in [{"t1", "t2"} -> Nat] /\ left'["t1"] + left'["t2"] = (left["t1"] + left["t2"]) - 1
        BY <2>1
    <2>3. s_pc # "caller"
        BY <2>1
    <2>4. call \in 1 .. Len(Flips) /\ Flips[call] \in Nat /\ Total(Flips, 1 .. call - 1) \in Int
        BY <2>3, FlipsAdd
    <2>5. left["t1"] \in Nat /\ left["t2"] \in Nat /\ left'["t1"] \in Nat /\ left'["t2"] \in Nat
        BY <2>2
    <2>6. /\ heads_ \in Nat /\ tails_ \in Nat /\ heads_' \in Nat /\ tails_' \in Nat
          /\ heads_' + tails_' = (heads_ + tails_) + 1
        <3>1. heads_ \in Nat /\ tails_ \in Nat
            OBVIOUS
        <3>2. \A a, b \in Nat : a + 1 \in Nat /\ (a + 1) + b = (a + b) + 1 /\ a + (b + 1) = (a + b) + 1
            OBVIOUS
        <3> HIDE DEF CoinInv
        <3> QED BY <2>1, <3>1, <3>2
    <2>7. heads_' + tails_' + left'["t1"] + left'["t2"] = heads_ + tails_ + left["t1"] + left["t2"]
        <3> HIDE DEF CoinInv
        <3>2. heads_' + tails_' + left'["t1"] + left'["t2"] = (heads_' + tails_') + (left'["t1"] + left'["t2"])
            BY <2>5, <2>6
        <3>3. heads_ + tails_ + left["t1"] + left["t2"] = (heads_ + tails_) + (left["t1"] + left["t2"])
            BY <2>5, <2>6
        <3>4. \A a, b \in Nat : (a + 1) + (b - 1) = a + b
            OBVIOUS
        <3>5. heads_ + tails_ \in Nat /\ left["t1"] + left["t2"] \in Nat
            BY <2>5, <2>6
        <3>6. (heads_' + tails_') + (left'["t1"] + left'["t2"])
                = ((heads_ + tails_) + 1) + ((left["t1"] + left["t2"]) - 1)
            BY <2>2, <2>6
        <3> QED BY <3>2, <3>3, <3>4, <3>5, <3>6
    <2>8. s_pc = "flip_coin" /\ call <= Len(Flips)
        BY <2>3
    <2> QED BY <2>1, <2>2, <2>6, <2>7, <2>8
<1>3. CASE Coin!Return
    <2>1. /\ s_pc = "flip_coin" /\ left["t1"] = 0 /\ left["t2"] = 0 /\ s_pc' = "caller" /\ call' = call + 1
          /\ UNCHANGED <<heads_, tails_, left>>
        BY <1>3 DEF Coin!Return, Coin!Threads
    <2>2. call \in 1 .. Len(Flips) /\ call' - 1 = call
        BY <2>1, FlipsAdd
    <2>3. /\ Flips[call] \in Nat /\ Total(Flips, 1 .. call - 1) \in Int
          /\ Total(Flips, 1 .. call) = Flips[call] + Total(Flips, 1 .. call - 1)
        BY <2>2, FlipsAdd
    <2>4. Total(Flips, 1 .. call' - 1) = Total(Flips, 1 .. call)
        BY <2>2
    <2> QED BY <2>1, <2>2, <2>3, <2>4, FlipsAdd
<1> QED BY <1>1, <1>2, <1>3 DEF Coin!Next, Coin!Threads

\* When the caller can read, nothing is left to flip.
LEMMA CoinCounts == CoinInv => Coin!TransparentToCaller
<1> SUFFICES ASSUME CoinInv, s_pc = "caller"
             PROVE  /\ heads_ + tails_ = Total(Flips, 1 .. call - 1)
                    /\ \A t \in {"t1", "t2"} : left[t] = 0
    BY SumIs DEF Coin!TransparentToCaller, Coin!Threads
<1>1. Total(Flips, 1 .. call - 1) \in Int
    <2>1. CASE call = 1
        <3>1. 1 .. call - 1 = {}
            BY <2>1
        <3>2. Total(Flips, 1 .. call - 1) = 0
            BY <3>1, SumOfNone
        <3> QED BY <3>2
    <2>2. CASE call # 1
        <3>1. call - 1 \in 1 .. Len(Flips)
            BY <2>2, FlipsAdd DEF CoinInv
        <3>2. Flips[call - 1] \in Nat /\ Total(Flips, 1 .. (call - 1) - 1) \in Int
            BY <3>1, FlipsAdd
        <3>3. Total(Flips, 1 .. call - 1) = Flips[call - 1] + Total(Flips, 1 .. (call - 1) - 1)
            BY <3>1, FlipsAdd
        <3> QED BY <3>2, <3>3
    <2> QED BY <2>1, <2>2
<1> QED BY <1>1 DEF CoinInv
-----------------------------------------------------------------------------
\* CriticalSection.cpp 9-42.  Every thread knows where it is in its job; it
\* holds the mutexes of all its cells while it updates them; what it has loaded
\* is still there when it stores; and the updates stored are in the cells.
SectionTypes ==
    /\ block \in DOMAIN Initial
    /\ cell \in [DOMAIN Initial[block] -> Int]
    /\ owner \in [DOMAIN Initial[block] -> Workers \cup {None}]
    /\ job \in [Workers -> Nat \ {0}] /\ at \in [Workers -> Nat \ {0}]
    /\ c_pc \in [Workers -> {"lock", "tryRest", "load", "store", "unlock"}]
    /\ reg \in [Workers -> Int]
InJob(t) ==
    /\ c_pc[t] \in {"lock", "tryRest"} => at[t] = 1
    /\ c_pc[t] # "lock" => Section!Busy(t)
    /\ c_pc[t] \in {"load", "store"} => at[t] <= Len(Section!Updates(t))
    /\ c_pc[t] = "unlock" => at[t] = Len(Section!Updates(t)) + 1
    /\ c_pc[t] \in {"load", "store"} =>
          \A k \in 1 .. Len(Section!Updates(t)) : owner[Section!Updates(t)[k][1]] = t
    /\ c_pc[t] = "store" => reg[t] = cell[Section!Updates(t)[at[t]][1]]
Stored ==
    {u \in Section!AllUpdates : u[2] < job[u[1]] \/ (u[2] = job[u[1]] /\ u[3] < at[u[1]])}
StoredIn(c) == {u \in Stored : Section!Cell(u) = c}
Summed ==
    /\ IsFiniteSet(Stored)
    /\ \A c \in DOMAIN Initial[block] : cell[c] = Initial[block][c] + Total(Section!Amount, StoredIn(c))
SectionInv == SectionTypes /\ (\A t \in Workers : InJob(t)) /\ Summed

\* What the assumption says of a job.
LEMMA JobsAre ==
    ASSUME NEW b \in DOMAIN Initial
    PROVE  /\ Initial[b] \in [DOMAIN Initial[b] -> Int] /\ None \notin Workers
           /\ \A t \in Workers :
                 /\ Len(Program[b][t]) \in Nat /\ DOMAIN Program[b][t] = 1 .. Len(Program[b][t])
                 /\ \A n \in 1 .. Len(Program[b][t]) :
                       /\ Len(Program[b][t][n]) \in Nat \ {0}
                       /\ DOMAIN Program[b][t][n] = 1 .. Len(Program[b][t][n])
                       /\ \A k \in 1 .. Len(Program[b][t][n]) :
                             Program[b][t][n][k][1] \in DOMAIN Initial[b] /\ Program[b][t][n][k][2] \in Int
                       /\ \A k, l \in 1 .. Len(Program[b][t][n]) :
                             Program[b][t][n][k][1] = Program[b][t][n][l][1] => k = l
<1>1. /\ None \notin Workers /\ Initial[b] \in [DOMAIN Initial[b] -> Int]
      /\ \A t \in Workers : Program[b][t] \in Seq(Section!Job(DOMAIN Initial[b]))
    BY ExamplesAssumption DEF ExamplesAssumption, Section!SectionAssumption
<1>2. ASSUME NEW t \in Workers
      PROVE  /\ Len(Program[b][t]) \in Nat /\ DOMAIN Program[b][t] = 1 .. Len(Program[b][t])
             /\ \A n \in 1 .. Len(Program[b][t]) : Program[b][t][n] \in Section!Job(DOMAIN Initial[b])
    <2> DEFINE T == Section!Job(DOMAIN Initial[b])
    <2>1. Program[b][t] \in Seq(T)
        BY <1>1
    <2> HIDE DEF T
    <2>2. /\ Len(Program[b][t]) \in Nat /\ DOMAIN Program[b][t] = 1 .. Len(Program[b][t])
          /\ \A n \in 1 .. Len(Program[b][t]) : Program[b][t][n] \in T
        BY <2>1
    <2> QED BY <2>2 DEF T
<1>3. ASSUME NEW j \in Section!Job(DOMAIN Initial[b])
      PROVE  /\ Len(j) \in Nat \ {0} /\ DOMAIN j = 1 .. Len(j)
             /\ \A k \in 1 .. Len(j) : j[k][1] \in DOMAIN Initial[b] /\ j[k][2] \in Int
             /\ \A k, l \in 1 .. Len(j) : j[k][1] = j[l][1] => k = l
    <2> DEFINE P == (DOMAIN Initial[b]) \X Int
    <2>1. j \in Seq(P) /\ j # <<>> /\ \A k, l \in DOMAIN j : j[k][1] = j[l][1] => k = l
        BY <1>3 DEF Section!Job
    <2>2. \A p \in P : p[1] \in DOMAIN Initial[b] /\ p[2] \in Int
        OBVIOUS
    <2> HIDE DEF P
    <2>3. Len(j) \in Nat /\ DOMAIN j = 1 .. Len(j) /\ \A k \in 1 .. Len(j) : j[k] \in P
        BY <2>1
    <2>4. Len(j) # 0
        BY <2>1
    <2> QED BY <2>1, <2>2, <2>3, <2>4
<1> QED BY <1>1, <1>2, <1>3

\* The updates of the job a thread is on, and all updates of the block.
LEMMA UpdatesAre ==
    ASSUME SectionTypes
    PROVE  /\ \A t \in Workers : Section!Busy(t) =>
                 /\ Section!Updates(t) = Program[block][t][job[t]]
                 /\ job[t] \in 1 .. Len(Program[block][t])
                 /\ Len(Section!Updates(t)) \in Nat \ {0}
                 /\ DOMAIN Section!Updates(t) = 1 .. Len(Section!Updates(t))
                 /\ \A k \in 1 .. Len(Section!Updates(t)) :
                       /\ Section!Updates(t)[k][1] \in DOMAIN Initial[block]
                       /\ Section!Updates(t)[k][2] \in Int
                 /\ \A k, l \in 1 .. Len(Section!Updates(t)) :
                       Section!Updates(t)[k][1] = Section!Updates(t)[l][1] => k = l
           /\ \A u : u \in Section!AllUpdates <=>
                 \E t \in Workers : \E n \in 1 .. Len(Program[block][t]) :
                    \E k \in 1 .. Len(Program[block][t][n]) : u = <<t, n, k>>
           /\ \A u \in Section!AllUpdates : Section!Amount[u] \in Int
<1>1. \A t \in Workers :
         /\ Len(Program[block][t]) \in Nat /\ DOMAIN Program[block][t] = 1 .. Len(Program[block][t])
         /\ \A n \in 1 .. Len(Program[block][t]) :
               /\ Len(Program[block][t][n]) \in Nat \ {0}
               /\ DOMAIN Program[block][t][n] = 1 .. Len(Program[block][t][n])
               /\ \A k \in 1 .. Len(Program[block][t][n]) :
                     Program[block][t][n][k][1] \in DOMAIN Initial[block] /\ Program[block][t][n][k][2] \in Int
               /\ \A k, l \in 1 .. Len(Program[block][t][n]) :
                     Program[block][t][n][k][1] = Program[block][t][n][l][1] => k = l
    BY JobsAre DEF SectionTypes
<1>2. ASSUME NEW t \in Workers, Section!Busy(t)
      PROVE  Section!Updates(t) = Program[block][t][job[t]] /\ job[t] \in 1 .. Len(Program[block][t])
    BY <1>1, <1>2 DEF Section!Busy, Section!Updates, SectionTypes
<1>3. \A u : u \in Section!AllUpdates <=>
         \E t \in Workers : \E n \in 1 .. Len(Program[block][t]) :
            \E k \in 1 .. Len(Program[block][t][n]) : u = <<t, n, k>>
    <2>1. ASSUME NEW u \in Section!AllUpdates
          PROVE  \E t \in Workers : \E n \in 1 .. Len(Program[block][t]) :
                    \E k \in 1 .. Len(Program[block][t][n]) : u = <<t, n, k>>
        <3>1. \E t \in Workers : \E n \in DOMAIN Program[block][t] : \E k \in DOMAIN Program[block][t][n] : u = <<t, n, k>>
            BY DEF Section!AllUpdates
        <3> QED BY <1>1, <3>1
    <2>2. ASSUME NEW t \in Workers, NEW n \in 1 .. Len(Program[block][t]), NEW k \in 1 .. Len(Program[block][t][n])
          PROVE  <<t, n, k>> \in Section!AllUpdates
        <3>1. n \in DOMAIN Program[block][t] /\ k \in DOMAIN Program[block][t][n]
            BY <1>1
        <3> QED BY <3>1 DEF Section!AllUpdates
    <2> QED BY <2>1, <2>2
<1>4. ASSUME NEW u \in Section!AllUpdates PROVE Section!Amount[u] \in Int
    <2>1. PICK t \in Workers : \E n \in 1 .. Len(Program[block][t]) :
             \E k \in 1 .. Len(Program[block][t][n]) : u = <<t, n, k>>
        BY <1>3
    <2>2. PICK n \in 1 .. Len(Program[block][t]) : \E k \in 1 .. Len(Program[block][t][n]) : u = <<t, n, k>>
        BY <2>1
    <2>3. PICK k \in 1 .. Len(Program[block][t][n]) : u = <<t, n, k>>
        BY <2>2
    <2>4. Section!Amount[u] = Program[block][t][n][k][2]
        BY <2>3 DEF Section!Amount
    <2> QED BY <1>1, <2>4
<1>5. ASSUME NEW t \in Workers, Section!Busy(t)
      PROVE  /\ Len(Section!Updates(t)) \in Nat \ {0}
             /\ DOMAIN Section!Updates(t) = 1 .. Len(Section!Updates(t))
             /\ \A k \in 1 .. Len(Section!Updates(t)) :
                   /\ Section!Updates(t)[k][1] \in DOMAIN Initial[block]
                   /\ Section!Updates(t)[k][2] \in Int
             /\ \A k, l \in 1 .. Len(Section!Updates(t)) :
                   Section!Updates(t)[k][1] = Section!Updates(t)[l][1] => k = l
    <2>1. Section!Updates(t) = Program[block][t][job[t]] /\ job[t] \in 1 .. Len(Program[block][t])
        BY <1>2, <1>5
    <2> DEFINE J == Program[block][t][job[t]]
    <2>2. /\ Len(J) \in Nat \ {0} /\ DOMAIN J = 1 .. Len(J)
          /\ \A k \in 1 .. Len(J) : J[k][1] \in DOMAIN Initial[block] /\ J[k][2] \in Int
          /\ \A k, l \in 1 .. Len(J) : J[k][1] = J[l][1] => k = l
        BY <1>1, <2>1
    <2>3. Section!Updates(t) = J
        BY <2>1
    <2> HIDE DEF J
    <2> QED BY <2>2, <2>3
<1> QED BY <1>2, <1>3, <1>4, <1>5

\* No thread has stored anything.
LEMMA SectionStart == Section!Init => SectionInv
<1> SUFFICES ASSUME Section!Init PROVE SectionInv
    OBVIOUS
<1>1. /\ block \in DOMAIN Initial /\ cell = Initial[block] /\ owner = [c \in DOMAIN Initial[block] |-> None]
      /\ job = [t \in Workers |-> 1] /\ at = [t \in Workers |-> 1]
      /\ c_pc = [t \in Workers |-> "lock"] /\ reg = [t \in Workers |-> 0]
    BY DEF Section!Init, Section!Cells
<1>2. Initial[block] \in [DOMAIN Initial[block] -> Int]
    BY <1>1, JobsAre
<1>3. SectionTypes
    BY <1>1, <1>2 DEF SectionTypes
<1>4. \A t \in Workers : InJob(t)
    BY <1>1 DEF InJob
<1>5. Stored = {}
    <2> SUFFICES ASSUME NEW u \in Stored PROVE FALSE
        OBVIOUS
    <2>1. u \in Section!AllUpdates /\ (u[2] < job[u[1]] \/ (u[2] = job[u[1]] /\ u[3] < at[u[1]]))
        BY DEF Stored
    <2>2. PICK t \in Workers : \E n \in 1 .. Len(Program[block][t]) :
             \E k \in 1 .. Len(Program[block][t][n]) : u = <<t, n, k>>
        BY <1>3, <2>1, UpdatesAre
    <2>3. PICK n \in 1 .. Len(Program[block][t]) : \E k \in 1 .. Len(Program[block][t][n]) : u = <<t, n, k>>
        BY <2>2
    <2>4. PICK k \in 1 .. Len(Program[block][t][n]) : u = <<t, n, k>>
        BY <2>3
    <2> QED BY <1>1, <2>1, <2>4
<1>6. ASSUME NEW c \in DOMAIN Initial[block]
      PROVE  cell[c] = Initial[block][c] + Total(Section!Amount, StoredIn(c))
    <2>1. StoredIn(c) = {}
        BY <1>5 DEF StoredIn
    <2>2. Total(Section!Amount, StoredIn(c)) = 0
        BY <2>1, SumOfNone
    <2>3. Initial[block][c] \in Int
        BY <1>2
    <2> QED BY <1>1, <2>2, <2>3
<1>7. Summed
    BY <1>5, <1>6, FS_EmptySet DEF Summed
<1> QED BY <1>3, <1>4, <1>7 DEF SectionInv

\* What a thread does under its own mutexes does not disturb the others.
LEMMA OthersInJob ==
    ASSUME SectionInv, NEW t \in Workers, block' = block,
           \A d \in Workers : d # t => /\ job'[d] = job[d] /\ at'[d] = at[d]
                                       /\ c_pc'[d] = c_pc[d] /\ reg'[d] = reg[d],
           \A c \in DOMAIN Initial[block] :
              owner[c] \notin {t, None} => owner'[c] = owner[c] /\ cell'[c] = cell[c]
    PROVE  \A d \in Workers : d # t => InJob(d)'
<1> SUFFICES ASSUME NEW d \in Workers, d # t PROVE InJob(d)'
    OBVIOUS
<1>1. Section!Updates(d)' = Section!Updates(d) /\ (Section!Busy(d)' <=> Section!Busy(d))
    BY DEF Section!Updates, Section!Busy
<1>2. InJob(d) /\ SectionTypes
    BY DEF SectionInv
<1> DEFINE V == Section!Updates(d)
<1>3. c_pc[d] \in {"load", "store"} =>
         \A k \in 1 .. Len(V) : owner'[V[k][1]] = d /\ cell'[V[k][1]] = cell[V[k][1]]
    <2> SUFFICES ASSUME c_pc[d] \in {"load", "store"}, NEW k \in 1 .. Len(V)
                 PROVE  owner'[V[k][1]] = d /\ cell'[V[k][1]] = cell[V[k][1]]
        OBVIOUS
    <2>1. V[k][1] \in DOMAIN Initial[block] /\ owner[V[k][1]] = d
        BY <1>2, UpdatesAre DEF InJob
    <2>2. d # None
        BY <1>2, JobsAre DEF SectionTypes
    <2> QED BY <2>1, <2>2
<1>4. c_pc[d] = "store" => at[d] \in 1 .. Len(V)
    BY <1>2, UpdatesAre DEF InJob, SectionTypes
<1> HIDE DEF V
<1>5. Section!Updates(d)' = V
    BY <1>1 DEF V
<1>6. /\ c_pc[d] \in {"lock", "tryRest"} => at[d] = 1
      /\ c_pc[d] # "lock" => Section!Busy(d)
      /\ c_pc[d] \in {"load", "store"} => at[d] <= Len(V)
      /\ c_pc[d] = "unlock" => at[d] = Len(V) + 1
      /\ c_pc[d] = "store" => reg[d] = cell[V[at[d]][1]]
    BY <1>2 DEF InJob, V
<1>7. c_pc'[d] = c_pc[d] /\ at'[d] = at[d] /\ reg'[d] = reg[d]
    OBVIOUS
<1>8. c_pc'[d] = "store" => reg'[d] = cell'[V[at'[d]][1]]
    BY <1>3, <1>4, <1>6, <1>7
<1> QED BY <1>1, <1>3, <1>5, <1>6, <1>7, <1>8 DEF InJob

\* A step that stores nothing leaves the sums.
LEMMA SumsKept ==
    ASSUME Summed, block' = block, cell' = cell, Stored' = Stored
    PROVE  Summed'
<1>1. Section!Amount' = Section!Amount /\ \A u : Section!Cell(u)' = Section!Cell(u)
    BY DEF Section!Amount, Section!AllUpdates, Section!Cell
<1>2. \A c : StoredIn(c)' = StoredIn(c)
    BY <1>1 DEF StoredIn
<1> QED BY <1>1, <1>2 DEF Summed

\* Jobs and positions decide what has been stored.
LEMMA StoredKept ==
    ASSUME block' = block, job' = job, at' = at
    PROVE  Stored' = Stored
BY DEF Stored, Section!AllUpdates

\* std::lock waits for one mutex, and takes none from anybody.
LEMMA LockFirstKeeps == ASSUME SectionInv, NEW t \in Workers, Section!LockFirst(t) PROVE SectionInv'
<1>1. /\ Section!Busy(t) /\ c_pc[t] = "lock" /\ c_pc' = [c_pc EXCEPT ![t] = "tryRest"]
      /\ UNCHANGED <<block, cell, job, at, reg>>
      /\ \E x \in DOMAIN Initial[block] :
            owner[x] = None /\ owner' = [c \in DOMAIN Initial[block] |-> IF c = x THEN t ELSE owner[c]]
    BY DEF Section!LockFirst, Section!Go, Section!Free, Section!Cells, Section!Give
<1>2. SectionTypes /\ InJob(t) /\ Summed
    BY DEF SectionInv
<1>3. SectionTypes'
    BY <1>1, <1>2 DEF SectionTypes
<1>4. \A d \in Workers : d # t => InJob(d)'
    <2>1. \A d \in Workers : d # t => c_pc'[d] = c_pc[d]
        BY <1>1, <1>2 DEF SectionTypes
    <2>2. \A c \in DOMAIN Initial[block] : owner[c] \notin {t, None} => owner'[c] = owner[c] /\ cell'[c] = cell[c]
        BY <1>1
    <2> QED BY <1>1, <2>1, <2>2, OthersInJob
<1>5. InJob(t)'
    <2>1. Section!Busy(t)' <=> Section!Busy(t)
        BY <1>1 DEF Section!Busy
    <2>2. c_pc'[t] = "tryRest" /\ at'[t] = 1
        BY <1>1, <1>2 DEF SectionTypes, InJob
    <2> QED BY <1>1, <2>1, <2>2 DEF InJob
<1>6. Summed'
    BY <1>1, <1>2, StoredKept, SumsKept
<1> QED BY <1>3, <1>4, <1>5, <1>6 DEF SectionInv

\* It has all the mutexes of its job, or gives up what it has.
LEMMA TryRestKeeps == ASSUME SectionInv, NEW t \in Workers, Section!TryRest(t) PROVE SectionInv'
<1> DEFINE V == Section!Updates(t)
           rest == Section!Needed(t) \ Section!Held(t)
<1>1. /\ Section!Busy(t) /\ c_pc[t] = "tryRest" /\ UNCHANGED <<block, cell, job, at, reg>>
      /\ \/ /\ rest \subseteq Section!Free /\ c_pc' = [c_pc EXCEPT ![t] = "load"]
            /\ owner' = [c \in DOMAIN Initial[block] |-> IF c \in rest THEN t ELSE owner[c]]
         \/ /\ c_pc' = [c_pc EXCEPT ![t] = "lock"]
            /\ owner' = [c \in DOMAIN Initial[block] |-> IF c \in Section!Held(t) THEN None ELSE owner[c]]
    BY DEF Section!TryRest, Section!Go, Section!Cells, Section!Give
<1>2. SectionTypes /\ InJob(t) /\ Summed
    BY DEF SectionInv
<1>3. SectionTypes'
    BY <1>1, <1>2 DEF SectionTypes
<1>4. \A c \in rest : rest \subseteq Section!Free => owner[c] = None
    BY DEF Section!Free
<1>5. \A c \in Section!Held(t) : owner[c] = t
    BY DEF Section!Held
<1>6. \A d \in Workers : d # t => InJob(d)'
    <2>1. \A d \in Workers : d # t => c_pc'[d] = c_pc[d]
        BY <1>1, <1>2 DEF SectionTypes
    <2>2. \A c \in DOMAIN Initial[block] : owner[c] \notin {t, None} => owner'[c] = owner[c] /\ cell'[c] = cell[c]
        <3> HIDE DEF rest
        <3> QED BY <1>1, <1>4, <1>5
    <2> QED BY <1>1, <2>1, <2>2, OthersInJob
<1>7. InJob(t)'
    <2>1. (Section!Busy(t)' <=> Section!Busy(t)) /\ V' = V
        BY <1>1 DEF Section!Busy, Section!Updates
    <2>2. at'[t] = 1 /\ c_pc'[t] \in {"lock", "load"}
        BY <1>1, <1>2 DEF SectionTypes, InJob
    <2>3. Len(V) >= 1 /\ \A k \in 1 .. Len(V) : V[k][1] \in DOMAIN Initial[block] /\ V[k][1] \in Section!Needed(t)
        BY <1>1, <1>2, UpdatesAre DEF Section!Needed
    <2>4. c_pc'[t] = "load" => \A k \in 1 .. Len(V) : owner'[V[k][1]] = t
        <3> SUFFICES ASSUME c_pc'[t] = "load", NEW k \in 1 .. Len(V) PROVE owner'[V[k][1]] = t
            OBVIOUS
        <3>1. owner' = [c \in DOMAIN Initial[block] |-> IF c \in rest THEN t ELSE owner[c]]
            BY <1>1, <1>2 DEF SectionTypes
        <3>2. V[k][1] \in rest \/ owner[V[k][1]] = t
            BY <2>3 DEF Section!Held
        <3> HIDE DEF rest, V
        <3> QED BY <2>3, <3>1, <3>2
    <2> HIDE DEF V
    <2>5. Section!Updates(t)' = V
        BY <2>1 DEF V
    <2> QED BY <1>1, <2>1, <2>2, <2>3, <2>4, <2>5 DEF InJob
<1>8. Summed'
    BY <1>1, <1>2, StoredKept, SumsKept
<1> QED BY <1>3, <1>6, <1>7, <1>8 DEF SectionInv

\* It reads a cell whose mutex it holds.
LEMMA LoadKeeps == ASSUME SectionInv, NEW t \in Workers, Section!Load(t) PROVE SectionInv'
<1> DEFINE V == Section!Updates(t)
<1>1. /\ Section!Busy(t) /\ c_pc[t] = "load" /\ c_pc' = [c_pc EXCEPT ![t] = "store"]
      /\ UNCHANGED <<block, cell, owner, job, at>>
      /\ reg' = [reg EXCEPT ![t] = cell[V[at[t]][1]]]
    BY DEF Section!Load, Section!Go
<1>2. SectionTypes /\ InJob(t) /\ Summed
    BY DEF SectionInv
<1>3. at[t] \in 1 .. Len(V) /\ V[at[t]][1] \in DOMAIN Initial[block]
    <2>1. at[t] \in Nat \ {0} /\ at[t] <= Len(V) /\ Len(V) \in Nat
        BY <1>1, <1>2, UpdatesAre DEF SectionTypes, InJob
    <2>2. at[t] \in 1 .. Len(V)
        <3> HIDE DEF V
        <3> QED BY <2>1
    <2> QED BY <1>1, <1>2, <2>2, UpdatesAre
<1>4. SectionTypes'
    <2>1. cell[V[at[t]][1]] \in Int
        BY <1>2, <1>3 DEF SectionTypes
    <2> HIDE DEF V
    <2> QED BY <1>1, <1>2, <2>1 DEF SectionTypes
<1>5. \A d \in Workers : d # t => InJob(d)'
    <2>1. \A d \in Workers : d # t => c_pc'[d] = c_pc[d] /\ reg'[d] = reg[d]
        <3> HIDE DEF V
        <3> QED BY <1>1, <1>2 DEF SectionTypes
    <2> QED BY <1>1, <2>1, OthersInJob
<1>6. InJob(t)'
    <2>1. (Section!Busy(t)' <=> Section!Busy(t)) /\ Section!Updates(t)' = V
        BY <1>1 DEF Section!Busy, Section!Updates
    <2>2. /\ at[t] <= Len(V) /\ \A k \in 1 .. Len(V) : owner[V[k][1]] = t
        BY <1>1, <1>2 DEF InJob
    <2> HIDE DEF V
    <2>3. c_pc'[t] = "store" /\ reg'[t] = cell[V[at[t]][1]]
        BY <1>1, <1>2 DEF SectionTypes
    <2> QED BY <1>1, <2>1, <2>2, <2>3 DEF InJob
<1>7. Summed'
    BY <1>1, <1>2, StoredKept, SumsKept
<1> QED BY <1>4, <1>5, <1>6, <1>7 DEF SectionInv

\* It stores the next amount of its job: one more update is in its cell.
LEMMA StoreKeeps == ASSUME SectionInv, NEW t \in Workers, Section!Store(t) PROVE SectionInv'
<1>0. \A u : u \in Section!AllUpdates <=>
         \E d \in Workers : \E n \in 1 .. Len(Program[block][d]) :
            \E k \in 1 .. Len(Program[block][d][n]) : u = <<d, n, k>>
    BY UpdatesAre DEF SectionInv
<1> DEFINE V == Section!Updates(t)
           x == V[at[t]][1]
           u0 == <<t, job[t], at[t]>>
<1>1. /\ Section!Busy(t) /\ c_pc[t] = "store" /\ UNCHANGED <<block, owner, job, reg>>
      /\ c_pc' = [c_pc EXCEPT ![t] = IF at[t] < Len(V) THEN "load" ELSE "unlock"]
      /\ cell' = [cell EXCEPT ![x] = reg[t] + V[at[t]][2]]
      /\ at' = [at EXCEPT ![t] = at[t] + 1]
    BY DEF Section!Store, Section!Go
<1>2. SectionTypes /\ InJob(t) /\ Summed
    BY DEF SectionInv
<1>3. /\ at[t] \in 1 .. Len(V) /\ Len(V) \in Nat /\ x \in DOMAIN Initial[block] /\ V[at[t]][2] \in Int
      /\ V = Program[block][t][job[t]] /\ job[t] \in 1 .. Len(Program[block][t])
    <2>1. at[t] \in Nat \ {0} /\ at[t] <= Len(V) /\ Len(V) \in Nat
        BY <1>1, <1>2, UpdatesAre DEF SectionTypes, InJob
    <2>2. at[t] \in 1 .. Len(V)
        <3> HIDE DEF V
        <3> QED BY <2>1
    <2> QED BY <1>1, <1>2, <2>1, <2>2, UpdatesAre
<1>4. owner[x] = t /\ reg[t] = cell[x] /\ reg[t] \in Int
    BY <1>1, <1>2, <1>3 DEF InJob, SectionTypes
<1>5. SectionTypes'
    <2> HIDE DEF V, x
    <2>1. cell' \in [DOMAIN Initial[block] -> Int]
        BY <1>1, <1>2, <1>3, <1>4 DEF SectionTypes
    <2>2. at' \in [Workers -> Nat \ {0}]
        BY <1>1, <1>2 DEF SectionTypes
    <2>3. c_pc' \in [Workers -> {"lock", "tryRest", "load", "store", "unlock"}]
        BY <1>1, <1>2 DEF SectionTypes
    <2> QED BY <1>1, <1>2, <2>1, <2>2, <2>3 DEF SectionTypes
<1>6. \A d \in Workers : d # t => InJob(d)'
    <2>1. \A d \in Workers : d # t => c_pc'[d] = c_pc[d] /\ at'[d] = at[d]
        <3> HIDE DEF V, x
        <3> QED BY <1>1, <1>2 DEF SectionTypes
    <2>2. \A c \in DOMAIN Initial[block] : owner[c] \notin {t, None} => owner'[c] = owner[c] /\ cell'[c] = cell[c]
        <3> HIDE DEF V, x
        <3> QED BY <1>1, <1>2, <1>4 DEF SectionTypes
    <2> QED BY <1>1, <2>1, <2>2, OthersInJob
<1>7. InJob(t)'
    <2>1. (Section!Busy(t)' <=> Section!Busy(t)) /\ Section!Updates(t)' = V
        BY <1>1 DEF Section!Busy, Section!Updates
    <2>2. \A k \in 1 .. Len(V) : owner[V[k][1]] = t
        BY <1>1, <1>2 DEF InJob
    <2> HIDE DEF V, x
    <2>3. c_pc'[t] = (IF at[t] < Len(V) THEN "load" ELSE "unlock") /\ at'[t] = at[t] + 1
        BY <1>1, <1>2 DEF SectionTypes
    <2>4. CASE at[t] < Len(V)
        <3>1. c_pc'[t] = "load" /\ at'[t] <= Len(V)
            <4>1. at[t] \in Nat /\ Len(V) \in Nat
                BY <1>3
            <4> QED BY <2>3, <2>4, <4>1
        <3> QED BY <1>1, <2>1, <2>2, <3>1 DEF InJob
    <2>5. CASE ~(at[t] < Len(V))
        <3>1. c_pc'[t] = "unlock" /\ at'[t] = Len(V) + 1
            <4>1. at[t] \in Nat /\ Len(V) \in Nat /\ at[t] <= Len(V)
                BY <1>3
            <4>2. at[t] = Len(V)
                BY <2>5, <4>1
            <4> QED BY <2>3, <2>5, <4>2
        <3> QED BY <1>1, <2>1, <3>1 DEF InJob
    <2> QED BY <2>4, <2>5
<1>8. u0 \in Section!AllUpdates /\ u0 \notin Stored /\ Section!Cell(u0) = x /\ Section!Amount[u0] = V[at[t]][2]
    <2>1. u0 \in Section!AllUpdates
        BY <1>2, <1>3, UpdatesAre
    <2>2. u0 \notin Stored
        <3>1. u0[1] = t /\ u0[2] = job[t] /\ u0[3] = at[t]
            OBVIOUS
        <3>2. job[t] \in Nat /\ at[t] \in Nat
            BY <1>2 DEF SectionTypes
        <3> HIDE DEF u0
        <3> QED BY <3>1, <3>2 DEF Stored
    <2>3. Section!Cell(u0) = x
        BY <1>3 DEF Section!Cell
    <2>4. Section!Amount[u0] = V[at[t]][2]
        BY <1>3, <2>1 DEF Section!Amount
    <2> QED BY <2>1, <2>2, <2>3, <2>4
<1>9. Stored' = Stored \cup {u0}
    <2>1. Section!AllUpdates' = Section!AllUpdates
        BY <1>1 DEF Section!AllUpdates
    <2>2. ASSUME NEW u \in Section!AllUpdates
          PROVE  u \in Stored' <=> u \in Stored \/ u = u0
        <3>1. PICK d \in Workers : \E n \in 1 .. Len(Program[block][d]) :
                 \E k \in 1 .. Len(Program[block][d][n]) : u = <<d, n, k>>
            <4> HIDE DEF u0, x, V
            <4> QED BY <1>0
        <3>2. PICK n \in 1 .. Len(Program[block][d]) : \E k \in 1 .. Len(Program[block][d][n]) : u = <<d, n, k>>
            BY <3>1
        <3>3. PICK k \in 1 .. Len(Program[block][d][n]) : u = <<d, n, k>>
            BY <3>2
        <3>4. /\ u \in Stored <=> n < job[d] \/ (n = job[d] /\ k < at[d])
              /\ u \in Stored' <=> n < job[d] \/ (n = job[d] /\ k < at'[d])
            BY <1>1, <2>1, <3>3 DEF Stored
        <3>5. CASE d # t
            <4>1. at'[d] = at[d]
                BY <1>1, <1>2, <3>5 DEF SectionTypes
            <4> QED BY <3>3, <3>4, <3>5, <4>1
        <3>6. CASE d = t
            <4>1. at'[t] = at[t] + 1 /\ at[t] \in Nat /\ k \in Nat
                BY <1>1, <1>2 DEF SectionTypes
            <4>2. u = u0 <=> n = job[t] /\ k = at[t]
                BY <3>3, <3>6
            <4>3. k < at[t] + 1 <=> k < at[t] \/ k = at[t]
                BY <4>1
            <4> QED BY <3>4, <3>6, <4>1, <4>2, <4>3
        <3> QED BY <3>5, <3>6
    <2> HIDE DEF u0
    <2>3. u0 \in Section!AllUpdates
        BY <1>8
    <2>4. \A u \in Stored : u \in Section!AllUpdates
        BY DEF Stored
    <2>5. \A u \in Stored' : u \in Section!AllUpdates
        BY <2>1 DEF Stored
    <2> QED BY <2>2, <2>3, <2>4, <2>5
<1>10. Summed'
    <2>1. Section!Amount' = Section!Amount /\ \A u : Section!Cell(u)' = Section!Cell(u)
        BY <1>1 DEF Section!Amount, Section!AllUpdates, Section!Cell
    <2> HIDE DEF u0, x, V
    <2>2. IsFiniteSet(Stored')
        BY <1>2, <1>9, FS_AddElement DEF Summed
    <2>3. ASSUME NEW c \in DOMAIN Initial[block]
          PROVE  cell'[c] = Initial[block][c] + Total(Section!Amount, StoredIn(c)')
        <3>1. cell[c] = Initial[block][c] + Total(Section!Amount, StoredIn(c))
            BY <1>2 DEF Summed
        <3>2. CASE c # x
            <4>1. StoredIn(c)' = StoredIn(c)
                BY <1>8, <1>9, <2>1, <3>2 DEF StoredIn
            <4>2. cell'[c] = cell[c]
                BY <1>1, <1>2, <3>2 DEF SectionTypes
            <4> QED BY <3>1, <4>1, <4>2
        <3>3. CASE c = x
            <4>1. StoredIn(c)' = StoredIn(c) \cup {u0} /\ u0 \notin StoredIn(c)
                BY <1>8, <1>9, <2>1, <3>3 DEF StoredIn
            <4>2. IsFiniteSet(StoredIn(c))
                <5>1. StoredIn(c) \in SUBSET Stored
                    BY DEF StoredIn
                <5> QED BY <1>2, <5>1, FS_Subset DEF Summed
            <4>3. \A u \in StoredIn(c) : Section!Amount[u] \in Int
                <5>1. \A u \in StoredIn(c) : u \in Section!AllUpdates
                    BY DEF StoredIn, Stored
                <5> QED BY <1>2, <5>1, UpdatesAre
            <4>4. Section!Amount[u0] \in Int
                BY <1>3, <1>8
            <4> DEFINE S == StoredIn(c)
                       f == Section!Amount
            <4>5. Total(f, S) \in Int /\ Total(f, S \cup {u0}) = f[u0] + Total(f, S)
                <5>1. IsFiniteSet(S) /\ (\A u \in S : f[u] \in Int) /\ u0 \notin S /\ f[u0] \in Int
                    BY <4>1, <4>2, <4>3, <4>4
                <5> HIDE DEF S, f
                <5> QED BY <5>1, SumOfMore
            <4>6. cell'[c] = cell[c] + f[u0]
                BY <1>1, <1>2, <1>4, <1>8, <3>3 DEF SectionTypes
            <4>7. Initial[block][c] \in Int
                BY <1>2, JobsAre DEF SectionTypes
            <4> HIDE DEF S, f
            <4>8. cell[c] = Initial[block][c] + Total(f, S) /\ f[u0] \in Int /\ Total(f, StoredIn(c)') = f[u0] + Total(f, S)
                BY <3>1, <4>1, <4>4, <4>5 DEF S, f
            <4>9. cell'[c] = Initial[block][c] + Total(f, StoredIn(c)')
                BY <4>5, <4>6, <4>7, <4>8
            <4> QED BY <4>9 DEF f
        <3> QED BY <3>2, <3>3
    <2> QED BY <1>1, <2>1, <2>2, <2>3 DEF Summed
<1> QED BY <1>5, <1>6, <1>7, <1>10 DEF SectionInv

\* It gives up one mutex; with the first cell's, which is the last, the job is over.
LEMMA UnlockKeeps == ASSUME SectionInv, NEW t \in Workers, Section!Unlock(t) PROVE SectionInv'
<1>0. \A u : u \in Section!AllUpdates <=>
         \E d \in Workers : \E n \in 1 .. Len(Program[block][d]) :
            \E k \in 1 .. Len(Program[block][d][n]) : u = <<d, n, k>>
    BY UpdatesAre DEF SectionInv
<1>1. PICK k \in DOMAIN Section!Updates(t) :
         /\ owner[Section!Updates(t)[k][1]] = t
         /\ Section!Busy(t) /\ c_pc[t] = "unlock" /\ UNCHANGED <<block, cell, reg>>
         /\ c_pc' = [c_pc EXCEPT ![t] = IF k = 1 THEN "lock" ELSE "unlock"]
         /\ owner' = [c \in DOMAIN Initial[block] |->
                         IF c \in {Section!Updates(t)[k][1]} THEN None ELSE owner[c]]
         /\ job' = [job EXCEPT ![t] = IF k = 1 THEN job[t] + 1 ELSE job[t]]
         /\ at' = [at EXCEPT ![t] = IF k = 1 THEN 1 ELSE at[t]]
    BY DEF Section!Unlock, Section!Go, Section!Cells, Section!Give
<1>2. SectionTypes /\ InJob(t) /\ Summed
    BY DEF SectionInv
<1>3. /\ at[t] = Len(Program[block][t][job[t]]) + 1 /\ at[t] \in Nat
      /\ Section!Updates(t) = Program[block][t][job[t]]
    BY <1>1, <1>2, UpdatesAre DEF InJob, SectionTypes
<1> DEFINE x == Section!Updates(t)[k][1]
<1>4. /\ owner[x] = t
      /\ owner' = [c \in DOMAIN Initial[block] |-> IF c = x THEN None ELSE owner[c]]
    BY <1>1
<1> HIDE DEF x
<1>5. SectionTypes'
    BY <1>1, <1>2, <1>4 DEF SectionTypes
<1>6. \A d \in Workers : d # t => InJob(d)'
    <2>1. \A d \in Workers : d # t => c_pc'[d] = c_pc[d] /\ at'[d] = at[d] /\ job'[d] = job[d]
        BY <1>1, <1>2 DEF SectionTypes
    <2>2. \A c \in DOMAIN Initial[block] : owner[c] \notin {t, None} => owner'[c] = owner[c] /\ cell'[c] = cell[c]
        BY <1>1, <1>4
    <2>3. block' = block /\ reg' = reg
        BY <1>1
    <2> QED BY <2>1, <2>2, <2>3, OthersInJob
<1>7. InJob(t)'
    <2>1. CASE k = 1
        <3>1. c_pc'[t] = "lock" /\ at'[t] = 1
            BY <1>1, <1>2, <2>1 DEF SectionTypes
        <3> QED BY <3>1 DEF InJob
    <2>2. CASE k # 1
        <3>1. c_pc'[t] = "unlock" /\ at'[t] = at[t] /\ job'[t] = job[t]
            BY <1>1, <1>2, <2>2 DEF SectionTypes
        <3>2. (Section!Busy(t)' <=> Section!Busy(t)) /\ Section!Updates(t)' = Section!Updates(t)
            BY <1>1, <3>1 DEF Section!Busy, Section!Updates
        <3> QED BY <1>1, <1>2, <3>1, <3>2 DEF InJob
    <2> QED BY <2>1, <2>2
<1>8. Stored' = Stored
    <2>1. Section!AllUpdates' = Section!AllUpdates
        BY <1>1 DEF Section!AllUpdates
    <2>2. ASSUME NEW u \in Section!AllUpdates PROVE u \in Stored' <=> u \in Stored
        <3>1. PICK d \in Workers : \E n \in 1 .. Len(Program[block][d]) :
                 \E l \in 1 .. Len(Program[block][d][n]) : u = <<d, n, l>>
            BY <1>0
        <3>2. PICK n \in 1 .. Len(Program[block][d]) : \E l \in 1 .. Len(Program[block][d][n]) : u = <<d, n, l>>
            BY <3>1
        <3>3. PICK l \in 1 .. Len(Program[block][d][n]) : u = <<d, n, l>>
            BY <3>2
        <3>4. /\ u \in Stored <=> n < job[d] \/ (n = job[d] /\ l < at[d])
              /\ u \in Stored' <=> n < job'[d] \/ (n = job'[d] /\ l < at'[d])
            BY <2>1, <3>3 DEF Stored
        <3>5. CASE d # t \/ k # 1
            <4>1. at'[d] = at[d] /\ job'[d] = job[d]
                BY <1>1, <1>2, <3>5 DEF SectionTypes
            <4> QED BY <3>4, <4>1
        <3>6. CASE d = t /\ k = 1
            <4>1. at'[t] = 1 /\ job'[t] = job[t] + 1 /\ job[t] \in Nat
                BY <1>1, <1>2, <3>6 DEF SectionTypes
            <4>2. n \in Nat /\ l \in Nat \ {0} /\ Len(Program[block][d][n]) \in Nat /\ l <= Len(Program[block][d][n])
                <5>1. \A m \in 1 .. Len(Program[block][d]) : Len(Program[block][d][m]) \in Nat
                    BY <1>2, JobsAre DEF SectionTypes
                <5>2. Len(Program[block][d]) \in Nat
                    BY <1>2, JobsAre DEF SectionTypes
                <5>3. Len(Program[block][d][n]) \in Nat
                    BY <5>1
                <5> QED BY <5>2, <5>3
            <4>3. n = job[t] => l < at[t]
                BY <1>3, <3>6, <4>2
            <4>4. ~(l < 1) /\ (n < job[t] + 1 <=> n < job[t] \/ n = job[t])
                BY <4>1, <4>2
            <4> QED BY <3>4, <3>6, <4>1, <4>3, <4>4
        <3> QED BY <3>5, <3>6
    <2>3. \A u \in Stored : u \in Section!AllUpdates
        BY DEF Stored
    <2>4. \A u \in Stored' : u \in Section!AllUpdates
        BY <2>1 DEF Stored
    <2> QED BY <2>2, <2>3, <2>4
<1>9. Summed'
    BY <1>1, <1>2, <1>8, SumsKept
<1> QED BY <1>5, <1>6, <1>7, <1>9 DEF SectionInv

\* Every step of a thread keeps it.
LEMMA SectionStep == SectionInv /\ Section!Next => SectionInv'
<1> SUFFICES ASSUME SectionInv, NEW t \in Workers, Section!step(t) PROVE SectionInv'
    BY DEF Section!Next
<1> QED BY LockFirstKeeps, TryRestKeeps, LoadKeeps, StoreKeeps, UnlockKeeps DEF Section!step

\* In a cell nobody has locked, what is stored is what its critical sections
\* that are over have stored.
LEMMA SectionCounts == SectionInv => Section!NoLostUpdate
<1> SUFFICES ASSUME SectionInv, NEW c \in Section!Free
             PROVE  cell[c] = Initial[block][c] + Section!SumFunctionOnSet(Section!Amount,
                                 {u \in Section!AllUpdates : Section!Cell(u) = c /\ Section!Over(u)})
    BY DEF Section!NoLostUpdate
<1>1. SectionTypes /\ Summed /\ c \in DOMAIN Initial[block] /\ owner[c] = None
    BY DEF SectionInv, Section!Free, Section!Cells
<1>2. ASSUME NEW u \in Section!AllUpdates, Section!Cell(u) = c
      PROVE  u \in Stored <=> Section!Over(u)
    <2>1. PICK t \in Workers : \E n \in 1 .. Len(Program[block][t]) :
             \E k \in 1 .. Len(Program[block][t][n]) : u = <<t, n, k>>
        BY <1>1, UpdatesAre
    <2>2. PICK n \in 1 .. Len(Program[block][t]) : \E k \in 1 .. Len(Program[block][t][n]) : u = <<t, n, k>>
        BY <2>1
    <2>3. PICK k \in 1 .. Len(Program[block][t][n]) : u = <<t, n, k>>
        BY <2>2
    <2>4. u[1] = t /\ u[2] = n /\ u[3] = k /\ c = Program[block][t][n][k][1]
        BY <1>2, <2>3 DEF Section!Cell
    <2>5. owner[c] # t
        BY <1>1, JobsAre DEF SectionTypes
    <2>6. CASE n # job[t]
        BY <2>4, <2>6 DEF Stored, Section!Over
    <2>7. CASE n = job[t]
        <3>1. InJob(t) /\ Len(Program[block][t][n]) \in Nat /\ k \in Nat \ {0} /\ k <= Len(Program[block][t][n])
            BY <1>1, JobsAre DEF SectionInv, SectionTypes
        <3>2. Section!Busy(t) /\ Section!Updates(t) = Program[block][t][n] /\ job[t] \in Nat
            <4>1. Section!Busy(t)
                BY <1>1, <2>7, JobsAre DEF Section!Busy, SectionTypes
            <4> QED BY <1>1, <2>7, <4>1, UpdatesAre DEF SectionTypes
        <3>3. c_pc[t] \notin {"load", "store"}
            BY <2>4, <2>5, <3>1, <3>2 DEF InJob
        <3>4. k < at[t] <=> c_pc[t] = "unlock"
            <4>1. CASE c_pc[t] = "unlock"
                BY <3>1, <3>2, <4>1 DEF InJob
            <4>2. CASE c_pc[t] # "unlock"
                <5>1. at[t] = 1
                    BY <1>1, <3>1, <3>3, <4>2 DEF InJob, SectionTypes
                <5> QED BY <3>1, <4>2, <5>1
            <4> QED BY <4>1, <4>2
        <3> QED BY <1>2, <2>4, <2>5, <2>7, <3>2, <3>4 DEF Stored, Section!Over
    <2> QED BY <2>6, <2>7
<1>3. StoredIn(c) = {u \in Section!AllUpdates : Section!Cell(u) = c /\ Section!Over(u)}
    BY <1>2 DEF StoredIn, Stored
<1> QED BY <1>1, <1>3, SumIs DEF Summed
-----------------------------------------------------------------------------
ExamplesInv == LatchInv /\ DiceInv /\ FuturesInv /\ BufferInv /\ SectionInv /\ CoinInv

\* Each example starts in its own initial state.
LEMMA ExamplesStart == Init => ExamplesInv
BY LatchStart, DiceStart, FuturesStart, BufferStart, SectionStart, CoinStart DEF Init, ExamplesInv

\* A step of another example does not disturb the latch.
LEMMA LatchKept == LatchInv /\ UNCHANGED v3 => LatchInv'
BY DEF LatchInv, v3, LatchTypes, Early, Opened
\* A step of another example does not disturb the barrier.
LEMMA DiceKept == DiceInv /\ UNCHANGED v4 => DiceInv'
BY DEF DiceInv, v4, DiceTypes, Missing, Arrived, OneCompletes, Dice!Completing, Turns, Counted,
       Ending, Dice!InStep
\* A step of another example does not disturb the futures.
LEMMA FuturesKept == FuturesInv /\ UNCHANGED v2 => FuturesInv'
<1> SUFFICES ASSUME FuturesInv, UNCHANGED v2 PROVE FuturesInv'
    OBVIOUS
<1>1. \A v : Futures!Outcome(v)' = Futures!Outcome(v)
    BY DEF v2, Futures!Outcome
<1>2. ResultsSet'
    BY <1>1 DEF FuturesInv, v2, ResultsSet
<1>3. Awaited'
    BY DEF FuturesInv, v2, Awaited
<1>4. Printed'
    BY <1>1 DEF FuturesInv, v2, Printed
<1> QED
    BY <1>2, <1>3, <1>4 DEF FuturesInv, v2

\* A step of another example does not disturb the critical sections.
LEMMA SectionKept == SectionInv /\ UNCHANGED v1 => SectionInv'
<1> SUFFICES ASSUME SectionInv, UNCHANGED v1 PROVE SectionInv'
    OBVIOUS
<1>1. UNCHANGED <<block, cell, owner, job, at, c_pc, reg>>
    BY DEF v1
<1>2. SectionTypes'
    BY <1>1 DEF SectionInv, SectionTypes
<1>3. ASSUME NEW t \in Workers PROVE InJob(t)'
    <2>1. (Section!Busy(t)' <=> Section!Busy(t)) /\ Section!Updates(t)' = Section!Updates(t)
        BY <1>1 DEF Section!Busy, Section!Updates
    <2> QED BY <1>1, <2>1 DEF SectionInv, InJob
<1>4. Summed'
    BY <1>1, StoredKept, SumsKept DEF SectionInv
<1> QED
    BY <1>2, <1>3, <1>4 DEF SectionInv
\* Nor the flips of the coin.
LEMMA CoinKept == CoinInv /\ UNCHANGED v6 => CoinInv'
BY DEF CoinInv, v6

\* A step of one example keeps its own invariant, and the others' variables.
LEMMA ExamplesStep == ExamplesInv /\ [Next]_vars => ExamplesInv'
<1> SUFFICES ASSUME ExamplesInv, [Next]_vars PROVE ExamplesInv'
    OBVIOUS
<1> USE DEF ExamplesInv
<1>1. CASE InLatch(Latch!Next)
    BY <1>1, LatchStep, DiceKept, FuturesKept, BufferKept, SectionKept, CoinKept DEF InLatch
<1>2. CASE InDice(Dice!Next)
    BY <1>2, DiceStep, LatchKept, FuturesKept, BufferKept, SectionKept, CoinKept DEF InDice
<1>3. CASE InFutures(Futures!Next)
    BY <1>3, FuturesStep, LatchKept, DiceKept, BufferKept, SectionKept, CoinKept DEF InFutures
<1>4. CASE InBuffer(Buffer!DriverNext)
    BY <1>4, BufferStep, LatchKept, DiceKept, FuturesKept, SectionKept, CoinKept DEF InBuffer
<1>5. CASE InSection(Section!Next)
    BY <1>5, SectionStep, LatchKept, DiceKept, FuturesKept, BufferKept, CoinKept DEF InSection
<1>6. CASE InCoin(Coin!Next)
    BY <1>6, CoinStep, LatchKept, DiceKept, FuturesKept, BufferKept, SectionKept DEF InCoin
<1>7. CASE UNCHANGED <<v1, v2, v3, v4, v5, v6>>
    BY <1>7, LatchKept, DiceKept, FuturesKept, BufferKept, SectionKept, CoinKept
<1> QED
    BY <1>1, <1>2, <1>3, <1>4, <1>5, <1>6, <1>7
    DEF Next, InServer, InStop, EndExample, End, Returned, vars

\* CriticalSection.cpp and flip_coin: for any blocks of jobs on any cells, any
\* number of threads and any calls, no increment, transfer or flip is ever lost.
THEOREM NoUpdateLost == Spec => []NoLostUpdate
<1>1. ExamplesInv => NoLostUpdate
    BY SectionCounts, CoinCounts DEF ExamplesInv, NoLostUpdate
<1> QED
    BY <1>1, ExamplesStart, ExamplesStep, PTL DEF Spec

\* AdditionalInCpp20.cpp 220-292: however many threads meet at the latch and at
\* the barrier, and whatever the dice show, they stay in step with each other.
THEOREM PhasesAlwaysInStep == Spec => []PhasesInStep
<1>1. ExamplesInv => PhasesInStep
    BY LatchOpensForAll, DiceGame DEF ExamplesInv, PhasesInStep
<1> QED
    BY <1>1, ExamplesStart, ExamplesStep, PTL DEF Spec

\* FutureAndPromise.cpp 34-85: for all divisors the driver may choose, every
\* outcome reaches the caller, and no promise dies under its thread.
THEOREM OutcomesAlwaysArrive == Spec => []OutcomesArrive
<1>1. ExamplesInv => OutcomesArrive
    BY FuturesHold DEF ExamplesInv, OutcomesArrive
<1> QED
    BY <1>1, ExamplesStart, ExamplesStep, PTL DEF Spec

\* AdditionalInCpp20.cpp 296-322: for any number of consumers, any share and any
\* capacity of the buffer, each item reaches one consumer, in order.
THEOREM AlwaysEachOnceInOrder == Spec => []EachOnceInOrder
<1>1. ExamplesInv => EachOnceInOrder
    BY BufferDelivers DEF ExamplesInv, EachOnceInOrder
<1> QED
    BY <1>1, ExamplesStart, ExamplesStep, PTL DEF Spec
=============================================================================
