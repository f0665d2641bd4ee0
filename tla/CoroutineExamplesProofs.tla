---------------------- MODULE CoroutineExamplesProofs ----------------------
(* The Tasks of AsyncTask.cpp, for any tree of coroutines that await each    *)
(* other: what is suspended is resumed by one other coroutine, timer or      *)
(* starter, no frame is used after its end or left behind, and they behave   *)
(* like calls.  Then the generators of Generator.cpp, for any arguments:     *)
(* they take turns, lose no value, and the codec gives back any ids.  Last,  *)
(* Resumables: each frame has one owner, statement by statement.             *)
EXTENDS CoroutineExamples, GeneratorPipeline, FiniteSetTheorems, SequenceTheorems, WellFoundedInduction, TLAPS
-----------------------------------------------------------------------------
(* Tasks: the types, and what holds of the frames, handles and results.      *)
TaskTypes ==
    /\ starter \in Starters
    /\ base \in {"start", "resume", "acquire", "run", "returned", "threw", "terminated"}
    /\ control \in Coroutines \cup {"base"}
    /\ frame \in [Coroutines -> {"none", "suspended", "running", "destroyed"}]
    /\ step \in [Coroutines -> {"body", "resumed", "slept", "final"}]
    /\ at \in [Coroutines -> Nat \ {0}]
    /\ result_ \in [Coroutines -> {"empty", "value", "error"}]
    /\ continuation_ \in [Coroutines -> Coroutines \cup {"none"}]
    /\ timers \subseteq Coroutines

Live == {c \in Coroutines : frame[c] # "none"}
NotBegun(c) == step[c] = "body" /\ at[c] = 1 /\ continuation_[c] = "none" /\ AwaitedBy(c) \cap Live = {}

\* A coroutine that has no frame, or whose frame has not been resumed.
Unborn ==
    /\ \A c \in Coroutines \ Live : NotBegun(c)
    /\ \A c \in Starters \ {starter} : c \notin Live
    /\ base = "start" => Live = {}
    /\ base # "start" => {starter, Body[starter][1]} \subseteq Live
    /\ \A c \in Coroutines : frame[c] = "suspended" /\ step[c] = "body" => NotBegun(c) /\ c \notin Starters

\* What a coroutine has awaited is over, what it will await is not there.
Awaited(c, k, d) ==
    /\ k < at[c] => step[d] = "final" /\ d \in Live
    /\ k > at[c] => d \notin Live
    /\ k = at[c] /\ step[c] = "body" /\ d \in Live => frame[d] = "suspended" /\ step[d] = "body"
    /\ k = at[c] => step[c] # "slept"
    /\ k = at[c] /\ step[c] = "resumed" =>
          continuation_[d] = c /\ frame[d] \in {"suspended", "running"}
    /\ step[c] = "final" /\ d \in Live => step[d] = "final"
    /\ step[c] = "final" /\ c \notin Starters => frame[d] \in {"none", "destroyed"}
    /\ frame[d] = "destroyed" => step[c] = "final"
Bodies == \A c \in Coroutines : \A k \in DOMAIN Body[c] : Body[c][k] # "sleep" => Awaited(c, k, Body[c][k])
Results == \A c \in Coroutines :
    /\ step[c] = "final" <=> result_[c] # "empty"
    /\ frame[c] = "destroyed" => step[c] = "final"
    /\ step[c] \in {"resumed", "slept"} => at[c] \in DOMAIN Body[c]
    /\ step[c] = "resumed" => Operand(c) # "sleep"

\* Who has control, and who gets it next.
Handles ==
    /\ \A c \in Coroutines : control = c <=> frame[c] = "running"
    /\ \A c, d \in Coroutines : continuation_[d] = c =>
          /\ d \in AwaitedBy(c) /\ d \in Live
          /\ step[d] # "final" \/ control = d =>
                step[c] = "resumed" /\ frame[c] = "suspended" /\ Operand(c) = d
    /\ \A c \in Coroutines : control = c \/ step[c] # "body" => c = starter \/ continuation_[c] # "none"
    /\ \A c \in Coroutines : control = c /\ step[c] = "resumed" =>
          frame[Operand(c)] = "suspended" /\ step[Operand(c)] = "final"
Sleeps ==
    /\ \A c \in timers : frame[c] = "suspended" /\ step[c] = "slept"
    /\ \A c \in Coroutines : step[c] = "slept" => c \in timers \/ control = c

\* Every coroutine with a frame is awaited, over others, by the starter.
Reachable ==
    /\ \A d \in Live : d = starter \/ \E c \in Live : d \in AwaitedBy(c)
    /\ \A X \in SUBSET Live :
          X # {} /\ (\A d \in X : d = starter \/ \E c \in X : d \in AwaitedBy(c)) => starter \in X
Ending ==
    /\ base \in {"start", "returned", "threw", "terminated"} => control = "base"
    /\ base = "acquire" => starter = "SyncWaitTask"
    /\ base = "run" => starter = "Detached"
    /\ base \in {"returned", "threw"} => timers = {} /\ \A c \in Coroutines : frame[c] \in {"none", "destroyed"}
TaskInv == TaskTypes /\ Unborn /\ Bodies /\ Results /\ Handles /\ Sleeps /\ Reachable /\ Ending
-----------------------------------------------------------------------------
(* The coroutines of a program.                                              *)
\* A body is a sequence of Tasks and sleeps.
LEMMA BodyItems ==
    ASSUME NEW c \in Coroutines
    PROVE  /\ Len(Body[c]) \in Nat /\ DOMAIN Body[c] = 1 .. Len(Body[c])
           /\ c \notin {"base", "none", "sleep"}
           /\ \A k \in DOMAIN Body[c] : Body[c][k] \in Coroutines \cup {"sleep"}
           /\ \A k \in DOMAIN Body[c] : Body[c][k] # "sleep" =>
                 Body[c][k] \in AwaitedBy(c) /\ Body[c][k] \in Coroutines \ Starters
           /\ \A d \in AwaitedBy(c) :
                 d \in Coroutines \ Starters /\ \E k \in DOMAIN Body[c] : d = Body[c][k] /\ d # "sleep"
  <1>1. Body[c] \in Seq(Coroutines \cup {"sleep"}) /\ c \notin {"base", "none", "sleep"}
    BY TaskAssumption
  <1>2. AwaitedBy(c) \subseteq Coroutines \ Starters
    BY TaskAssumption
  <1> QED
    BY <1>1, <1>2 DEF AwaitedBy

\* Each Task is awaited by one coroutine, at one place.
LEMMA AwaitedOnce ==
    ASSUME NEW c \in Coroutines, NEW d \in Coroutines, NEW j \in DOMAIN Body[c], NEW k \in DOMAIN Body[d],
           Body[c][j] = Body[d][k], Body[c][j] # "sleep"
    PROVE  c = d /\ j = k
  <1>1. Body[c][j] \in AwaitedBy(c) \cap AwaitedBy(d)
    BY DEF AwaitedBy
  <1>2. c = d
    BY <1>1, TaskAssumption
  <1> QED
    BY <1>2, TaskAssumption

\* The starters await one Task each.
LEMMA StarterBody ==
    ASSUME NEW c \in Starters
    PROVE  /\ c \in Coroutines /\ DOMAIN Body[c] = {1} /\ Body[c][1] # "sleep"
           /\ Body[c][1] \in Coroutines \ Starters /\ AwaitedBy(c) = {Body[c][1]}
  <1>1. c \in Coroutines /\ Len(Body[c]) = 1 /\ Body[c][1] # "sleep"
    BY TaskAssumption
  <1> QED
    BY <1>1, BodyItems DEF AwaitedBy

\* Before the caller has made a Task there is none.
LEMMA TasksInitially == Init => TaskInv
  <1> SUFFICES ASSUME Init PROVE TaskInv
    OBVIOUS
  <1>1. TaskTypes
    BY DEF Init, TaskTypes
  <1>2. Live = {}
    BY DEF Init, Live
  <1>3. Unborn
    BY <1>2, BodyItems DEF Init, Unborn, NotBegun, Starters
  <1>4. Bodies
    <2> SUFFICES ASSUME NEW c \in Coroutines, NEW k \in DOMAIN Body[c], Body[c][k] # "sleep"
                 PROVE  Awaited(c, k, Body[c][k])
      BY DEF Bodies
    <2>1. Body[c][k] \in Coroutines /\ k >= 1 /\ k \in Nat
      BY BodyItems
    <2> QED
      BY <1>2, <2>1 DEF Init, Awaited
  <1>5. Results
    BY DEF Init, Results
  <1>6. Handles /\ Sleeps
    BY BodyItems DEF Init, Handles, Sleeps
  <1>7. Reachable /\ Ending
    BY <1>2 DEF Init, Reachable, Ending
  <1> QED
    BY <1>1, <1>3, <1>4, <1>5, <1>6, <1>7 DEF TaskInv
-----------------------------------------------------------------------------
(* The steps of a coroutine.                                                 *)
\* A step that makes no frame reaches no new coroutine.
LEMMA ReachableKept ==
    ASSUME Reachable, Live' = Live, starter' = starter PROVE Reachable'
  BY DEF Reachable

\* A coroutine whose Tasks are over comes to its end, with a value or an error.
LEMMA EndsKeeps ==
    ASSUME TaskInv, NEW c \in Coroutines, control = c, step[c] # "final", NEW outcome \in {"value", "error"},
           Ends(c, outcome), UNCHANGED <<starter, base, control, at, continuation_, timers>>,
           \A k \in DOMAIN Body[c] : Body[c][k] # "sleep" /\ Body[c][k] \in Live => step[Body[c][k]] = "final"
    PROVE  TaskInv'
  <1> USE DEF TaskInv
  <1>0. c \in Live /\ frame[c] = "running" /\ c # "base"
    BY BodyItems DEF Handles, Live
  <1>1. /\ step' = [step EXCEPT ![c] = "final"] /\ result_' = [result_ EXCEPT ![c] = outcome]
        /\ frame' = Destroyed(IF c \in Starters THEN {} ELSE AwaitedBy(c))
    BY DEF Ends, Goto
  <1>2. /\ step'[c] = "final" /\ \A d \in Coroutines : d # c => step'[d] = step[d]
        /\ result_'[c] = outcome /\ \A d \in Coroutines : d # c => result_'[d] = result_[d]
    BY <1>1 DEF TaskTypes
  <1>3. \A d \in AwaitedBy(c) : d \in Live => step[d] = "final"
    BY BodyItems
  <1>4. /\ \A d \in Coroutines : frame'[d] # frame[d] =>
              c \notin Starters /\ d \in AwaitedBy(c) /\ d \in Live /\ frame'[d] = "destroyed"
        /\ \A d \in AwaitedBy(c) : c \notin Starters => frame'[d] \in {"none", "destroyed"}
    BY <1>1, BodyItems DEF Destroyed, Live
  <1>5. frame'[c] = "running" /\ c \notin AwaitedBy(c)
    BY <1>0, <1>3, <1>4
  <1>6. Live' = Live
    BY <1>1 DEF Destroyed, Live, TaskTypes
  <1>7. TaskTypes'
    <2>1. frame' \in [Coroutines -> {"none", "suspended", "running", "destroyed"}]
      BY <1>1 DEF Destroyed, TaskTypes
    <2> QED
      BY <1>1, <2>1 DEF TaskTypes
  <1>8. Unborn'
    <2>1. \A d \in Coroutines : d # c /\ NotBegun(d) => NotBegun(d)'
      BY <1>2, <1>6 DEF NotBegun
    <2> QED
      BY <1>0, <1>2, <1>4, <1>6, <2>1 DEF Unborn
  <1>9. Bodies'
    <2> SUFFICES ASSUME NEW e \in Coroutines, NEW k \in DOMAIN Body[e], Body[e][k] # "sleep"
                 PROVE  Awaited(e, k, Body[e][k])'
      BY DEF Bodies
    <2> DEFINE d == Body[e][k]
    <2>1. d \in Coroutines /\ d \in AwaitedBy(e) /\ d # "sleep" /\ k \in Nat
      BY BodyItems
    <2>2. Awaited(e, k, d) /\ at' = at /\ at[e] \in Nat
      BY DEF Bodies, TaskTypes
    <2>3. CASE e = c
      <3>1. d # c /\ (d \in Live => step[d] = "final") /\ step'[d] = step[d]
        BY <1>2, <1>3, <1>5, <2>1, <2>3
      <3>2. c \notin Starters => frame'[d] \in {"none", "destroyed"}
        BY <1>4, <2>1, <2>3
      <3> QED
        BY <1>2, <1>6, <2>2, <2>3, <3>1, <3>2 DEF Awaited
    <2>4. CASE e # c
      <3>1. frame'[d] = frame[d] /\ step'[e] = step[e]
        BY <1>2, <1>4, <2>1, <2>4, TaskAssumption
      <3>2. CASE d # c
        BY <1>2, <1>6, <2>1, <2>2, <3>1, <3>2 DEF Awaited
      <3>3. CASE d = c
        BY <1>0, <1>2, <1>6, <2>2, <3>1, <3>3 DEF Awaited
      <3> QED
        BY <3>2, <3>3
    <2> QED
      BY <2>3, <2>4
  <1>10. Results'
    BY <1>0, <1>2, <1>3, <1>4, BodyItems DEF Results, Operand
  <1>11. Handles'
    <2>1. \A x \in Coroutines : control' = x <=> frame'[x] = "running"
      BY <1>4, <1>5 DEF Handles
    <2>2. ASSUME NEW x \in Coroutines, NEW d \in Coroutines, continuation_[d] = x
          PROVE  /\ d \in AwaitedBy(x) /\ d \in Live
                 /\ step'[d] # "final" \/ control = d =>
                       step'[x] = "resumed" /\ frame'[x] = "suspended" /\ Operand(x) = d
      <3>1. /\ d \in AwaitedBy(x) /\ d \in Live
            /\ step[d] # "final" \/ control = d =>
                  step[x] = "resumed" /\ frame[x] = "suspended" /\ Operand(x) = d
        BY <2>2 DEF Handles
      <3>2. ASSUME step[x] = "resumed", frame[x] = "suspended" PROVE x # c /\ frame'[x] = "suspended"
        BY <1>0, <1>3, <1>4, <3>2
      <3> QED
        BY <1>0, <1>2, <3>1, <3>2
    <2> QED
      BY <1>2, <1>6, <2>1, <2>2 DEF Handles, Operand
  <1>12. Sleeps'
    BY <1>0, <1>2, <1>3, <1>4 DEF Sleeps, TaskTypes
  <1>13. Reachable'
    BY <1>6, ReachableKept
  <1>14. Ending'
    BY <1>0 DEF Ending
  <1> QED
    BY <1>7, <1>8, <1>9, <1>10, <1>11, <1>12, <1>13, <1>14

\* A coroutine goes past a co_await that is over.
LEMMA PastKeeps ==
    ASSUME TaskInv, NEW c \in Coroutines, control = c, step[c] # "final", at[c] \in DOMAIN Body[c],
           Operand(c) = "sleep" \/ (step[Operand(c)] = "final" /\ Operand(c) \in Live),
           Past(c), step' = [step EXCEPT ![c] = "body"],
           UNCHANGED <<starter, base, control, frame, result_, continuation_, timers>>
    PROVE  TaskInv'
  <1> USE DEF TaskInv
  <1>0. c \in Live /\ frame[c] = "running" /\ c # "base"
    BY BodyItems DEF Handles, Live
  <1>1. /\ step'[c] = "body" /\ \A d \in Coroutines : d # c => step'[d] = step[d]
        /\ at'[c] = at[c] + 1 /\ \A d \in Coroutines : d # c => at'[d] = at[d]
    BY DEF Past, TaskTypes
  <1>2. Live' = Live
    BY DEF Live
  <1>3. TaskTypes'
    BY DEF TaskTypes, Past
  <1>4. Unborn'
    <2>1. \A d \in Coroutines : d # c /\ NotBegun(d) => NotBegun(d)'
      BY <1>1, <1>2 DEF NotBegun
    <2> QED
      BY <1>0, <1>1, <1>2, <2>1 DEF Unborn
  <1>5. Bodies'
    <2> SUFFICES ASSUME NEW e \in Coroutines, NEW k \in DOMAIN Body[e], Body[e][k] # "sleep"
                 PROVE  Awaited(e, k, Body[e][k])'
      BY DEF Bodies
    <2> DEFINE d == Body[e][k]
    <2>1. d \in Coroutines /\ d \in AwaitedBy(e) /\ d # "sleep" /\ k \in Nat
      BY BodyItems
    <2>2. Awaited(e, k, d) /\ at[e] \in Nat
      BY DEF Bodies, TaskTypes
    <2>3. CASE e = c
      <3>1. k < at'[c] => step[d] = "final" /\ d \in Live
        BY <1>1, <2>1, <2>2, <2>3 DEF Awaited, Operand
      <3>2. ~(k < at'[c]) => d \notin Live
        BY <1>1, <2>1, <2>2, <2>3 DEF Awaited
      <3>3. d \in Live => d # c
        BY <1>1, <2>1, <3>1, <3>2
      <3>4. frame[d] # "destroyed"
        BY <2>2, <2>3 DEF Awaited
      <3> QED
        <4>1. at'[c] \in Nat /\ (d \in Live => step'[d] = step[d])
          BY <1>1, <2>1, <2>2, <2>3, <3>3
        <4> HIDE DEF d
        <4>2. Awaited(e, k, d)'
          BY <1>1, <1>2, <2>1, <2>3, <3>1, <3>2, <3>4, <4>1 DEF Awaited
        <4> QED
          BY <4>2 DEF d
    <2>4. CASE e # c
      BY <1>0, <1>1, <1>2, <2>1, <2>2, <2>4 DEF Awaited
    <2> QED
      BY <2>3, <2>4
  <1>6. Results'
    BY <1>0, <1>1 DEF Results, Operand
  <1>7. Handles'
    BY <1>0, <1>1, <1>2 DEF Handles, Operand
  <1>8. Sleeps'
    BY <1>0, <1>1 DEF Sleeps, TaskTypes
  <1>9. Reachable'
    BY <1>2, ReachableKept
  <1>10. Ending'
    BY <1>0 DEF Ending
  <1> QED
    BY <1>3, <1>4, <1>5, <1>6, <1>7, <1>8, <1>9, <1>10

\* A call makes the frame of a Task, which is not resumed yet.
LEMMA CallKeeps ==
    ASSUME TaskInv, NEW c \in Coroutines, Call(c) PROVE TaskInv'
  <1> USE DEF TaskInv
  <1>d. PICK d : d = Operand(c)
    OBVIOUS
  <1>0. c \in Live /\ frame[c] = "running" /\ c # "base" /\ step[c] = "body"
    BY BodyItems DEF Handles, Live, Call, Runs
  <1>1. at[c] \in DOMAIN Body[c] /\ d = Body[c][at[c]] /\ d # "sleep" /\ frame[d] = "none"
    BY <1>d, BodyItems DEF Call, Awaits, Operand, TaskTypes
  <1>2. d \in Coroutines \ Starters /\ d \in AwaitedBy(c) /\ d # c
    BY <1>0, <1>1, BodyItems
  <1>3. frame' = [frame EXCEPT ![d] = "suspended"]
        /\ UNCHANGED <<starter, base, control, step, at, result_, continuation_, timers>>
    BY <1>d DEF Call, Suspend, io
  <1>4. frame'[d] = "suspended" /\ \A e \in Coroutines : e # d => frame'[e] = frame[e]
    BY <1>2, <1>3 DEF TaskTypes
  <1>5. Live' = Live \cup {d} /\ d \notin Live
    BY <1>1, <1>2, <1>4 DEF Live
  <1>6. NotBegun(d)
    BY <1>2, <1>5 DEF Unborn
  <1>7. d \notin AwaitedBy(d)
    BY <1>2, TaskAssumption
  <1>8. \A e \in Coroutines : d \in AwaitedBy(e) => e = c
    BY <1>2, TaskAssumption
  <1>9. TaskTypes'
    BY <1>3 DEF TaskTypes
  <1>10. \A e \in Coroutines : NotBegun(e) /\ e # c => NotBegun(e)'
    BY <1>3, <1>5, <1>8 DEF NotBegun
  <1>11. Unborn'
    <2>1. starter \in Starters
      BY DEF TaskTypes
    <2>2. NotBegun(d)' /\ \A e \in Coroutines \ Live' : NotBegun(e)'
      BY <1>0, <1>2, <1>5, <1>6, <1>10 DEF Unborn
    <2>3. \A e \in Coroutines : frame'[e] = "suspended" /\ step[e] = "body" => NotBegun(e)' /\ e \notin Starters
      BY <1>0, <1>2, <1>4, <1>10, <2>2 DEF Unborn
    <2> QED
      BY <1>0, <1>2, <1>3, <1>5, <2>1, <2>2, <2>3 DEF Unborn
  <1>12. Bodies'
    <2> SUFFICES ASSUME NEW e \in Coroutines, NEW k \in DOMAIN Body[e], Body[e][k] # "sleep"
                 PROVE  Awaited(e, k, Body[e][k])'
      BY DEF Bodies
    <2> DEFINE b == Body[e][k]
    <2>1. b \in Coroutines /\ b \in AwaitedBy(e) /\ b # "sleep" /\ k \in Nat
      BY BodyItems
    <2>2. Awaited(e, k, b) /\ at[e] \in Nat
      BY DEF Bodies, TaskTypes
    <2>3. CASE b = d
      <3>1. e = c /\ k = at[c]
        BY <1>1, <2>3, AwaitedOnce
      <3> QED
        <4>1. Awaited(e, k, d)'
          BY <1>0, <1>3, <1>4, <1>5, <1>6, <2>1, <2>2, <2>3, <3>1 DEF Awaited, NotBegun
        <4> QED
          BY <2>3, <4>1
    <2>4. CASE b # d
      BY <1>3, <1>4, <1>5, <2>1, <2>2, <2>4 DEF Awaited
    <2> QED
      BY <2>3, <2>4
  <1>13. Results'
    BY <1>3, <1>4, <1>6 DEF Results, Operand, NotBegun
  <1>14. Handles'
    BY <1>0, <1>1, <1>2, <1>3, <1>4, <1>5, <1>6 DEF Handles, Operand, NotBegun
  <1>15. Sleeps'
    BY <1>1, <1>3, <1>4 DEF Sleeps, TaskTypes
  <1>16. Reachable'
    <2>0. \A x \in Live' : x = starter' \/ \E y \in Live' : x \in AwaitedBy(y)
      BY <1>0, <1>2, <1>3, <1>5 DEF Reachable
    <2> SUFFICES ASSUME NEW X \in SUBSET (Live \cup {d}), X # {},
                        \A x \in X : x = starter \/ \E y \in X : x \in AwaitedBy(y)
                 PROVE  starter \in X
      BY <1>3, <1>5, <2>0 DEF Reachable
    <2> DEFINE Y == X \ {d}
    <2>1. X \subseteq Coroutines
      BY <1>2 DEF Live
    <2>2. \A x \in Y : x = starter \/ \E y \in Y : x \in AwaitedBy(y)
      BY <1>6 DEF NotBegun
    <2>3. Y # {} \/ starter = d
      BY <1>7, <1>8, <2>1
    <2>4. starter # d
      BY <1>2 DEF TaskTypes
    <2>5. Y \in SUBSET Live
      OBVIOUS
    <2> HIDE DEF Y
    <2>6. starter \in Y
      BY <2>2, <2>3, <2>4, <2>5 DEF Reachable
    <2> QED
      BY <2>6 DEF Y
  <1>17. Ending'
    BY <1>0, <1>3 DEF Ending
  <1> QED
    BY <1>9, <1>11, <1>12, <1>13, <1>14, <1>15, <1>16, <1>17

\* A coroutine awaits a Task: it is suspended, its handle in the Task's
\* promise, and the Task is resumed.
LEMMA AwaitKeeps ==
    ASSUME TaskInv, NEW c \in Coroutines, Await(c) PROVE TaskInv'
  <1> USE DEF TaskInv
  <1>d. PICK d : d = Operand(c)
    OBVIOUS
  <1>0. c \in Live /\ frame[c] = "running" /\ c # "base" /\ control = c /\ step[c] = "body" /\ c # "none"
    BY BodyItems DEF Handles, Live, Await, Runs
  <1>1. at[c] \in DOMAIN Body[c] /\ d = Body[c][at[c]] /\ d # "sleep" /\ frame[d] = "suspended"
    BY <1>d, BodyItems DEF Await, Awaits, Operand, TaskTypes
  <1>2. d \in Coroutines \ Starters /\ d \in AwaitedBy(c) /\ d # c /\ d \in Live /\ d # "base"
    BY <1>0, <1>1, BodyItems DEF Live
  <1>3. /\ frame' = [frame EXCEPT ![c] = "suspended", ![d] = "running"] /\ control' = d
        /\ step' = [step EXCEPT ![c] = "resumed"] /\ continuation_' = [continuation_ EXCEPT ![d] = c]
        /\ UNCHANGED <<starter, base, at, result_, timers>>
    BY <1>d DEF Await, Suspend, Goto, io
  <1>4. /\ frame'[c] = "suspended" /\ frame'[d] = "running" /\ step'[c] = "resumed" /\ continuation_'[d] = c
        /\ \A e \in Coroutines : e # c => step'[e] = step[e]
        /\ \A e \in Coroutines : e # d => continuation_'[e] = continuation_[e]
        /\ \A e \in Coroutines : e # c /\ e # d => frame'[e] = frame[e]
    BY <1>2, <1>3 DEF TaskTypes
  <1>5. Live' = Live
    BY <1>0, <1>2, <1>4 DEF Live
  <1>6. step[d] = "body" /\ NotBegun(d)
    <2>1. Awaited(c, at[c], d)
      BY <1>1 DEF Bodies
    <2> QED
      BY <1>0, <1>1, <1>2, <2>1 DEF Awaited, Unborn
  <1>7. TaskTypes'
    BY <1>2, <1>3 DEF TaskTypes
  <1>8. Unborn'
    <2>1. \A e \in Coroutines : NotBegun(e) /\ e # c /\ e # d => NotBegun(e)'
      BY <1>3, <1>4, <1>5 DEF NotBegun
    <2> QED
      BY <1>0, <1>2, <1>3, <1>4, <1>5, <2>1 DEF Unborn
  <1>9. Bodies'
    <2> SUFFICES ASSUME NEW e \in Coroutines, NEW k \in DOMAIN Body[e], Body[e][k] # "sleep"
                 PROVE  Awaited(e, k, Body[e][k])'
      BY DEF Bodies
    <2>b. PICK b : b = Body[e][k]
      OBVIOUS
    <2>1. b \in Coroutines /\ b \in AwaitedBy(e) /\ b # "sleep" /\ k \in Nat
      BY <2>b, BodyItems
    <2>2. Awaited(e, k, b) /\ at[e] \in Nat
      BY <2>b DEF Bodies, TaskTypes
    <2>3. CASE b = d
      <3>1. e = c /\ k = at[c]
        <4>1. Body[c][at[c]] = Body[e][k] /\ Body[c][at[c]] # "sleep"
          BY <1>1, <2>b, <2>3
        <4> QED
          BY <1>1, <4>1, AwaitedOnce
      <3>2. Awaited(e, k, d)'
        BY <1>0, <1>2, <1>3, <1>4, <1>5, <2>1, <2>2, <2>3, <3>1 DEF Awaited
      <3> QED
        BY <2>b, <2>3, <3>2
    <2>4. CASE b # d /\ e = c
      <3>1. k # at[c] /\ b # c
        BY <1>0, <1>1, <2>b, <2>1, <2>2, <2>4 DEF Awaited
      <3>2. Awaited(e, k, b)'
        BY <1>0, <1>3, <1>4, <1>5, <2>1, <2>2, <2>4, <3>1 DEF Awaited
      <3> QED
        BY <2>b, <3>2
    <2>5. CASE b # d /\ e # c
      <3>1. Awaited(e, k, b)'
        BY <1>0, <1>3, <1>4, <1>5, <2>1, <2>2, <2>5 DEF Awaited
      <3> QED
        BY <2>b, <3>1
    <2> QED
      BY <2>3, <2>4, <2>5
  <1>10. Results'
    <2> SUFFICES ASSUME NEW e \in Coroutines
                 PROVE  /\ step'[e] = "final" <=> result_[e] # "empty"
                        /\ frame'[e] = "destroyed" => step'[e] = "final"
                        /\ step'[e] \in {"resumed", "slept"} => at[e] \in DOMAIN Body[e]
                        /\ step'[e] = "resumed" => Body[e][at[e]] # "sleep"
      BY <1>3 DEF Results, Operand
    <2>1. CASE e = c
      BY <1>0, <1>1, <1>4, <2>1 DEF Results
    <2>2. CASE e # c
      BY <1>4, <2>2 DEF Results, Operand
    <2> QED
      BY <2>1, <2>2
  <1>11. Handles'
    <2>1. \A x \in Coroutines : control' = x <=> frame'[x] = "running"
      <3>1. \A x \in Coroutines : frame[x] = "running" => x = c
        BY <1>0 DEF Handles
      <3> QED
        BY <1>0, <1>2, <1>3, <1>4, <3>1
    <2>2. ASSUME NEW x \in Coroutines, NEW y \in Coroutines, continuation_'[y] = x
          PROVE  /\ y \in AwaitedBy(x) /\ y \in Live
                 /\ step'[y] # "final" \/ control' = y =>
                       step'[x] = "resumed" /\ frame'[x] = "suspended" /\ Operand(x) = y
      <3>1. CASE y = d
        BY <1>d, <1>2, <1>4, <2>2, <3>1
      <3>2. CASE y # d
        <4>1. /\ continuation_[y] = x /\ y \in AwaitedBy(x) /\ y \in Live
              /\ step[y] # "final" => step[x] = "resumed" /\ frame[x] = "suspended" /\ Operand(x) = y
          BY <1>4, <2>2, <3>2 DEF Handles
        <4>2. x # d
          BY <1>6, <4>1 DEF NotBegun
        <4>3. step'[y] # "final" => step[y] # "final"
          BY <1>0, <1>4
        <4> QED
          BY <1>0, <1>3, <1>4, <3>2, <4>1, <4>2, <4>3
      <3> QED
        BY <3>1, <3>2
    <2>3. \A x \in Coroutines : control' = x \/ step'[x] # "body" => x = starter \/ continuation_'[x] # "none"
      BY <1>0, <1>3, <1>4 DEF Handles
    <2>4. \A x \in Coroutines : control' = x => step'[x] # "resumed"
      BY <1>2, <1>3, <1>4, <1>6
    <2> QED
      <3>1. \A x : Operand(x)' = Operand(x)
        BY <1>3 DEF Operand
      <3>2. starter' = starter
        BY <1>3
      <3> QED
        BY <1>5, <2>1, <2>2, <2>3, <2>4, <3>1, <3>2 DEF Handles
  <1>12. Sleeps'
    BY <1>0, <1>1, <1>3, <1>4, <1>6 DEF Sleeps, TaskTypes
  <1>13. Reachable'
    BY <1>3, <1>5, ReachableKept
  <1>14. Ending'
    BY <1>0, <1>3 DEF Ending
  <1> QED
    BY <1>7, <1>8, <1>9, <1>10, <1>11, <1>12, <1>13, <1>14

\* A Task at its end gives control back to the coroutine that awaits it.
LEMMA FinalSuspendKeeps ==
    ASSUME TaskInv, NEW c \in Coroutines, FinalSuspend(c) PROVE TaskInv'
  <1> USE DEF TaskInv
  <1>p. PICK p : p = continuation_[c]
    OBVIOUS
  <1>0. c \in Live /\ frame[c] = "running" /\ control = c /\ step[c] = "final" /\ c \notin Starters
    BY BodyItems DEF Handles, Live, FinalSuspend, Runs
  <1>1. p \in Coroutines /\ c \in AwaitedBy(p) /\ step[p] = "resumed" /\ frame[p] = "suspended" /\ Operand(p) = c
        /\ p \in Live /\ p # c /\ p # "base"
    <2>1. p \in Coroutines
      BY <1>p, <1>0 DEF Handles, TaskTypes
    <2> QED
      BY <1>p, <1>0, <2>1, BodyItems DEF Handles, Live
  <1>2. /\ frame' = [d \in Coroutines |-> CASE d = c -> "suspended" [] d = p -> "running" [] OTHER -> frame[d]]
        /\ control' = p /\ UNCHANGED <<starter, base, step, at, result_, continuation_, timers>>
    BY <1>p DEF FinalSuspend, io
  <1>3. /\ frame'[c] = "suspended" /\ frame'[p] = "running"
        /\ \A e \in Coroutines : e # c /\ e # p => frame'[e] = frame[e]
    BY <1>1, <1>2
  <1>4. Live' = Live
    BY <1>0, <1>1, <1>3 DEF Live
  <1>5. TaskTypes'
    <2>1. frame' \in [Coroutines -> {"none", "suspended", "running", "destroyed"}]
      BY <1>2 DEF TaskTypes
    <2> QED
      BY <1>1, <1>2, <2>1 DEF TaskTypes
  <1>6. Unborn'
    <2>1. \A e \in Coroutines : NotBegun(e) => NotBegun(e)'
      BY <1>2, <1>4 DEF NotBegun
    <2> QED
      BY <1>0, <1>2, <1>3, <1>4, <2>1 DEF Unborn
  <1>7. Bodies'
    <2> SUFFICES ASSUME NEW e \in Coroutines, NEW k \in DOMAIN Body[e], Body[e][k] # "sleep"
                 PROVE  Awaited(e, k, Body[e][k])'
      BY DEF Bodies
    <2>b. PICK b : b = Body[e][k]
      OBVIOUS
    <2>1. b \in Coroutines /\ b \in AwaitedBy(e) /\ b # "sleep" /\ k \in Nat
      BY <2>b, BodyItems
    <2>2. Awaited(e, k, b) /\ at[e] \in Nat
      BY <2>b DEF Bodies, TaskTypes
    <2>3. b = c => e = p
      BY <1>1, <2>1, TaskAssumption
    <2>4. Awaited(e, k, b)'
      BY <1>0, <1>1, <1>2, <1>3, <1>4, <2>1, <2>2, <2>3 DEF Awaited
    <2> QED
      BY <2>b, <2>4
  <1>8. Results'
    BY <1>0, <1>1, <1>2, <1>3 DEF Results, Operand
  <1>9. Handles'
    <2>1. \A x \in Coroutines : control' = x <=> frame'[x] = "running"
      BY <1>0, <1>1, <1>2, <1>3 DEF Handles
    <2>2. ASSUME NEW x \in Coroutines, NEW y \in Coroutines, continuation_[y] = x
          PROVE  /\ y \in AwaitedBy(x) /\ y \in Live
                 /\ step[y] # "final" \/ control' = y =>
                       step[x] = "resumed" /\ frame'[x] = "suspended" /\ Operand(x) = y
      <3>1. /\ y \in AwaitedBy(x) /\ y \in Live
            /\ step[y] # "final" => step[x] = "resumed" /\ frame[x] = "suspended" /\ Operand(x) = y
        BY <2>2 DEF Handles
      <3>2. control' = y => step[y] # "final"
        BY <1>1, <1>2
      <3>3. step[y] # "final" => x # p
        BY <1>0, <1>1, <3>1
      <3> QED
        BY <1>0, <1>3, <3>1, <3>2, <3>3
    <2> QED
      BY <1>0, <1>1, <1>2, <1>3, <1>4, <2>1, <2>2 DEF Handles, Operand
  <1>10. Sleeps'
    BY <1>0, <1>1, <1>2, <1>3 DEF Sleeps, TaskTypes
  <1>11. Reachable'
    BY <1>2, <1>4, ReachableKept
  <1>12. Ending'
    BY <1>0, <1>2, BodyItems DEF Ending
  <1> QED
    BY <1>5, <1>6, <1>7, <1>8, <1>9, <1>10, <1>11, <1>12

\* A sleep suspends its coroutine and leaves its handle with the timer.
LEMMA SleepKeeps ==
    ASSUME TaskInv, NEW c \in Coroutines, Sleep(c) PROVE TaskInv'
  <1> USE DEF TaskInv
  <1>0. c \in Live /\ frame[c] = "running" /\ c # "base" /\ control = c /\ step[c] = "body"
    BY BodyItems DEF Handles, Live, Sleep, Runs
  <1>1. at[c] \in DOMAIN Body[c] /\ Body[c][at[c]] = "sleep"
    BY BodyItems DEF Sleep, Awaits, Operand, TaskTypes
  <1>2. /\ frame' = [frame EXCEPT ![c] = "suspended"] /\ control' = "base"
        /\ step' = [step EXCEPT ![c] = "slept"] /\ timers' = timers \cup {c}
        /\ UNCHANGED <<starter, base, at, result_, continuation_>>
    BY DEF Sleep, Suspend, Goto
  <1>3. /\ frame'[c] = "suspended" /\ step'[c] = "slept"
        /\ \A e \in Coroutines : e # c => step'[e] = step[e] /\ frame'[e] = frame[e]
        /\ \A e \in Coroutines : e # "base"
    BY <1>2, BodyItems DEF TaskTypes
  <1>4. Live' = Live
    BY <1>0, <1>3 DEF Live
  <1>5. TaskTypes'
    BY <1>2 DEF TaskTypes
  <1>6. Unborn'
    <2>1. \A e \in Coroutines : NotBegun(e) /\ e # c => NotBegun(e)'
      BY <1>2, <1>3, <1>4 DEF NotBegun
    <2> QED
      BY <1>0, <1>2, <1>3, <1>4, <2>1 DEF Unborn
  <1>7. Bodies'
    <2> SUFFICES ASSUME NEW e \in Coroutines, NEW k \in DOMAIN Body[e], Body[e][k] # "sleep"
                 PROVE  Awaited(e, k, Body[e][k])'
      BY DEF Bodies
    <2>b. PICK b : b = Body[e][k]
      OBVIOUS
    <2>1. b \in Coroutines /\ b \in AwaitedBy(e) /\ b # "sleep" /\ k \in Nat
      BY <2>b, BodyItems
    <2>2. Awaited(e, k, b) /\ at[e] \in Nat
      BY <2>b DEF Bodies, TaskTypes
    <2>3. e = c => k # at[c] /\ b # c
      BY <1>0, <1>1, <2>b, <2>1, <2>2 DEF Awaited
    <2>4. Awaited(e, k, b)'
      BY <1>0, <1>1, <1>2, <1>3, <1>4, <2>1, <2>2, <2>3 DEF Awaited
    <2> QED
      BY <2>b, <2>4
  <1>8. Results'
    BY <1>0, <1>1, <1>2, <1>3 DEF Results, Operand
  <1>9. Handles'
    <2>1. c = starter \/ continuation_[c] # "none"
      BY <1>0 DEF Handles
    <2> QED
      BY <1>0, <1>2, <1>3, <1>4, <2>1 DEF Handles, Operand
  <1>10. Sleeps'
    BY <1>0, <1>2, <1>3 DEF Sleeps, TaskTypes
  <1>11. Reachable'
    BY <1>2, <1>4, ReachableKept
  <1>12. Ending'
    BY <1>0, <1>2 DEF Ending
  <1> QED
    BY <1>5, <1>6, <1>7, <1>8, <1>9, <1>10, <1>11, <1>12

\* A timer resumes the coroutine that waits for it.
LEMMA ExpireKeeps ==
    ASSUME TaskInv, NEW c \in Coroutines, Expire(c) PROVE TaskInv'
  <1> USE DEF TaskInv
  <1>0. c \in Live /\ frame[c] = "suspended" /\ c # "base" /\ control = "base" /\ step[c] = "slept" /\ base = "run"
    BY BodyItems DEF Sleeps, Live, Expire
  <1>1. /\ frame' = [frame EXCEPT ![c] = "running"] /\ control' = c /\ timers' = timers \ {c}
        /\ UNCHANGED <<starter, base, step, at, result_, continuation_>>
    BY DEF Expire
  <1>2. /\ frame'[c] = "running" /\ \A e \in Coroutines : e # c => frame'[e] = frame[e]
        /\ \A e \in Coroutines : e # "base"
    BY <1>1, BodyItems DEF TaskTypes
  <1>3. Live' = Live
    BY <1>0, <1>2 DEF Live
  <1>4. TaskTypes'
    BY <1>1 DEF TaskTypes
  <1>5. Unborn'
    <2>1. \A e \in Coroutines : NotBegun(e) => NotBegun(e)'
      BY <1>1, <1>3 DEF NotBegun
    <2> QED
      BY <1>0, <1>1, <1>2, <1>3, <2>1 DEF Unborn
  <1>6. Bodies'
    <2> SUFFICES ASSUME NEW e \in Coroutines, NEW k \in DOMAIN Body[e], Body[e][k] # "sleep"
                 PROVE  Awaited(e, k, Body[e][k])'
      BY DEF Bodies
    <2>b. PICK b : b = Body[e][k]
      OBVIOUS
    <2>1. b \in Coroutines /\ b \in AwaitedBy(e) /\ b # "sleep" /\ k \in Nat
      BY <2>b, BodyItems
    <2>2. Awaited(e, k, b) /\ at[e] \in Nat
      BY <2>b DEF Bodies, TaskTypes
    <2>3. Awaited(e, k, b)'
      BY <1>0, <1>1, <1>2, <1>3, <2>1, <2>2 DEF Awaited
    <2> QED
      BY <2>b, <2>3
  <1>7. Results'
    BY <1>0, <1>1, <1>2 DEF Results, Operand
  <1>8. Handles'
    BY <1>0, <1>1, <1>2, <1>3 DEF Handles, Operand
  <1>9. Sleeps'
    BY <1>0, <1>1, <1>2 DEF Sleeps, TaskTypes
  <1>10. Reachable'
    BY <1>1, <1>3, ReachableKept
  <1>11. Ending'
    BY <1>0, <1>1 DEF Ending
  <1> QED
    BY <1>4, <1>5, <1>6, <1>7, <1>8, <1>9, <1>10, <1>11
-----------------------------------------------------------------------------
(* The steps of the caller.                                                  *)
\* When the starter is over, so is every coroutine: none has been forgotten.
LEMMA AllOver ==
    ASSUME TaskInv, step[starter] = "final"
    PROVE  /\ \A c \in Live : step[c] = "final"
           /\ timers = {}
           /\ \A c \in Live : c = starter \/ c = Body[starter][1] \/ frame[c] \in {"none", "destroyed"}
  <1> USE DEF TaskInv
  <1> DEFINE X == {c \in Live : step[c] # "final"}
  <1>1. ASSUME NEW d \in X PROVE \E c \in X : d \in AwaitedBy(c)
    <2>1. PICK c \in Live : d \in AwaitedBy(c)
      BY <1>1 DEF Reachable
    <2>2. c \in Coroutines
      BY DEF Live
    <2>3. PICK k \in DOMAIN Body[c] : d = Body[c][k] /\ d # "sleep"
      BY <2>1, <2>2, BodyItems
    <2>4. Awaited(c, k, d)
      BY <2>2, <2>3 DEF Bodies
    <2> QED
      BY <1>1, <2>1, <2>4 DEF Awaited
  <1>2. X = {}
    <2>1. X \in SUBSET Live /\ starter \notin X
      OBVIOUS
    <2> HIDE DEF X
    <2> QED
      BY <1>1, <2>1 DEF Reachable
  <1>3. \A c \in Live : step[c] = "final"
    BY <1>2
  <1>4. timers = {}
    BY <1>3 DEF Sleeps, TaskTypes, Live
  <1>5. ASSUME NEW d \in Live, d # starter, d # Body[starter][1] PROVE frame[d] \in {"none", "destroyed"}
    <2>1. PICK c \in Live : d \in AwaitedBy(c)
      BY <1>5 DEF Reachable
    <2>2. c \in Coroutines /\ step[c] = "final"
      BY <1>3 DEF Live
    <2>3. PICK k \in DOMAIN Body[c] : d = Body[c][k] /\ d # "sleep"
      BY <2>1, <2>2, BodyItems
    <2>4. Awaited(c, k, d)
      BY <2>2, <2>3 DEF Bodies
    <2>5. c \notin Starters
      BY <1>5, <2>1, <2>2, StarterBody DEF Unborn
    <2> QED
      BY <2>2, <2>4, <2>5 DEF Awaited
  <1> QED
    BY <1>3, <1>4, <1>5

\* The caller makes a Task and starts its starter.
LEMMA StartKeeps ==
    ASSUME TaskInv, Start PROVE TaskInv'
  <1> USE DEF TaskInv
  <1>d. PICK c, d : c = starter /\ d = Body[starter][1]
    OBVIOUS
  <1>0. /\ c \in Starters /\ c \in Coroutines /\ d \in Coroutines \ Starters /\ d \in AwaitedBy(c)
        /\ DOMAIN Body[c] = {1} /\ d = Body[c][1] /\ AwaitedBy(c) = {d} /\ c # "base" /\ d # "base"
    BY <1>d, StarterBody, BodyItems DEF TaskTypes
  <1>1. /\ Live = {} /\ control = "base" /\ base = "start"
        /\ frame' = [frame EXCEPT ![d] = "suspended", ![c] = "running"]
        /\ base' = "resume" /\ control' = c
        /\ UNCHANGED <<starter, step, at, result_, continuation_, timers>>
    BY <1>d DEF Start, Unborn, Ending, io
  <1>2. /\ frame'[c] = "running" /\ frame'[d] = "suspended"
        /\ \A e \in Coroutines : e # c /\ e # d => frame'[e] = "none"
    BY <1>0, <1>1 DEF TaskTypes, Live
  <1>3. Live' = {c, d}
    BY <1>0, <1>2 DEF Live
  <1>4. \A e \in Coroutines : NotBegun(e)
    BY <1>1 DEF Unborn
  <1>5. \A e \in Coroutines : d \in AwaitedBy(e) => e = c
    BY <1>0, TaskAssumption
  <1>6. TaskTypes'
    BY <1>0, <1>1 DEF TaskTypes
  <1>7. ASSUME NEW e \in Coroutines, e # c PROVE NotBegun(e)'
    <2>1. c \notin AwaitedBy(e) /\ d \notin AwaitedBy(e)
      BY <1>0, <1>5, <1>7, BodyItems
    <2> QED
      BY <1>1, <1>3, <1>4, <2>1 DEF NotBegun
  <1>8. Unborn'
    BY <1>d, <1>0, <1>1, <1>2, <1>3, <1>7 DEF Unborn
  <1>9. Bodies'
    <2> SUFFICES ASSUME NEW e \in Coroutines, NEW k \in DOMAIN Body[e], Body[e][k] # "sleep"
                 PROVE  Awaited(e, k, Body[e][k])'
      BY DEF Bodies
    <2>b. PICK b : b = Body[e][k]
      OBVIOUS
    <2>1. b \in Coroutines /\ b \in AwaitedBy(e) /\ b # "sleep" /\ k \in Nat /\ b \notin Starters /\ k >= 1
      BY <2>b, BodyItems
    <2>2. at'[e] = 1 /\ step'[e] = "body" /\ step'[b] = "body"
      BY <1>1, <1>4, <2>1 DEF NotBegun
    <2>3. b = d => e = c /\ k = 1
      BY <1>0, <1>5, <2>1
    <2>4. Awaited(e, k, b)'
      BY <1>0, <1>2, <1>3, <2>1, <2>2, <2>3 DEF Awaited
    <2> QED
      BY <2>b, <2>4
  <1>10. Results'
    BY <1>0, <1>1, <1>2, <1>4 DEF Results, Operand, NotBegun
  <1>11. Handles'
    <2>1. \A x \in Coroutines : control' = x <=> frame'[x] = "running"
      BY <1>0, <1>1, <1>2
    <2>2. \A x \in Coroutines : step'[x] = "body" /\ continuation_'[x] = "none" /\ x # "none"
      BY <1>1, <1>4, BodyItems DEF NotBegun
    <2>3. \A x \in Coroutines : control' = x => x = starter'
      BY <1>d, <1>1
    <2> QED
      BY <2>1, <2>2, <2>3 DEF Handles
  <1>12. Sleeps'
    BY <1>1, <1>4 DEF Sleeps, NotBegun, TaskTypes, Live
  <1>13. Reachable'
    <2>1. \A e \in AwaitedBy(d) : e \notin {c, d}
      BY <1>0, <1>5, BodyItems
    <2> QED
      BY <1>d, <1>0, <1>1, <1>3, <2>1 DEF Reachable
  <1>14. Ending'
    BY <1>1 DEF Ending
  <1> QED
    BY <1>6, <1>8, <1>9, <1>10, <1>11, <1>12, <1>13, <1>14

\* A step that takes the frames of some coroutines that are over, among them
\* the one that has control if any, and leaves control with the caller.
LEMMA CallerKeeps ==
    ASSUME TaskInv, base # "start",
           NEW S \in SUBSET Coroutines, S \subseteq {starter, Body[starter][1]},
           S = {} \/ step[starter] = "final",
           \A c \in Coroutines : frame[c] = "running" => c = starter /\ frame'[c] # "running",
           \A c \in Coroutines \ S : frame'[c] = frame[c],
           \A c \in S : c \in Live /\ step[c] = "final" /\ frame'[c] \in {"suspended", "destroyed"},
           frame' \in [Coroutines -> {"none", "suspended", "running", "destroyed"}],
           control' = "base", UNCHANGED <<starter, step, at, result_, continuation_, timers>>,
           base' \in {"start", "resume", "acquire", "run", "returned", "threw", "terminated"},
           base' # "start", Ending'
    PROVE  TaskInv'
  <1> USE DEF TaskInv
  <1>0. starter \in Starters /\ starter \in Coroutines /\ \A c \in Coroutines : c # "base"
    BY StarterBody, BodyItems DEF TaskTypes
  <1>1. Live' = Live
    BY DEF Live
  <1>2. TaskTypes'
    BY DEF TaskTypes
  <1>3. Unborn'
    <2>1. \A e \in Coroutines : NotBegun(e) => NotBegun(e)'
      BY <1>1 DEF NotBegun
    <2> QED
      BY <1>0, <1>1, <2>1 DEF Unborn
  <1>4. Bodies'
    <2> SUFFICES ASSUME NEW e \in Coroutines, NEW k \in DOMAIN Body[e], Body[e][k] # "sleep"
                 PROVE  Awaited(e, k, Body[e][k])'
      BY DEF Bodies
    <2>b. PICK b : b = Body[e][k]
      OBVIOUS
    <2>1. b \in Coroutines /\ b \in AwaitedBy(e) /\ b # "sleep" /\ k \in Nat /\ b \notin Starters
      BY <2>b, BodyItems
    <2>2. Awaited(e, k, b) /\ at[e] \in Nat
      BY <2>b DEF Bodies, TaskTypes
    <2>3. CASE b \notin S
      <3>1. Awaited(e, k, b)'
        BY <1>1, <2>1, <2>2, <2>3 DEF Awaited
      <3> QED
        BY <2>b, <3>1
    <2>4. CASE b \in S
      <3>1. b = Body[starter][1] /\ b \in AwaitedBy(starter)
        BY <1>0, <2>1, <2>4, StarterBody
      <3>2. e = starter
        BY <1>0, <2>1, <3>1, TaskAssumption
      <3>3. step[e] = "final" /\ step[b] = "final" /\ b \in Live
        BY <2>4, <3>2
      <3>4. Awaited(e, k, b)'
        BY <1>0, <1>1, <2>1, <2>2, <3>2, <3>3 DEF Awaited
      <3> QED
        BY <2>b, <3>4
    <2> QED
      BY <2>3, <2>4
  <1>5. Results'
    <2> SUFFICES ASSUME NEW e \in Coroutines, frame'[e] = "destroyed" PROVE step[e] = "final"
      BY DEF Results, Operand
    <2> QED
      BY DEF Results
  <1>6. \A x \in Coroutines : frame'[x] # "running"
    OBVIOUS
  <1>7. \A x \in Coroutines : step[x] # "final" => frame'[x] = frame[x]
    OBVIOUS
  <1>8. Handles'
    <2>1. ASSUME NEW x \in Coroutines, NEW y \in Coroutines, continuation_[y] = x
          PROVE  /\ y \in AwaitedBy(x) /\ y \in Live
                 /\ step[y] # "final" => step[x] = "resumed" /\ frame'[x] = "suspended" /\ Operand(x) = y
      BY <1>7, <2>1 DEF Handles
    <2>2. \A x : Operand(x)' = Operand(x)
      BY DEF Operand
    <2>3. \A x \in Coroutines : step[x] # "body" => x = starter \/ continuation_[x] # "none"
      BY DEF Handles
    <2> QED
      BY <1>0, <1>1, <1>6, <2>1, <2>2, <2>3 DEF Handles
  <1>9. Sleeps'
    <2>1. \A c \in timers : frame'[c] = "suspended" /\ step[c] = "slept"
      BY <1>7 DEF Sleeps, TaskTypes
    <2>2. ASSUME NEW c \in Coroutines, step[c] = "slept" PROVE c \in timers
      <3>1. frame[c] # "running"
        BY <1>6, <1>7, <2>2
      <3> QED
        BY <2>2, <3>1 DEF Sleeps, Handles
    <2> QED
      BY <2>1, <2>2 DEF Sleeps
  <1>10. Reachable'
    BY <1>1, ReachableKept
  <1> QED
    BY <1>2, <1>3, <1>4, <1>5, <1>8, <1>9, <1>10

\* Signal, Vanish, Resumed, Acquire and RunReturns.
LEMMA CallersKeep ==
    ASSUME TaskInv, Signal \/ Vanish \/ Resumed \/ Acquire \/ RunReturns PROVE TaskInv'
  <1> USE DEF TaskInv
  <1>0. starter \in Starters /\ starter \in Coroutines /\ Body[starter][1] \in Coroutines \ Starters
        /\ \A c \in Coroutines : c # "base"
    BY StarterBody, BodyItems DEF TaskTypes
  <1>1. \A c \in Starters : control = c => c = starter
    <2>1. ASSUME NEW c \in Starters, control = c, c # starter PROVE FALSE
      <3>1. c \in Coroutines /\ continuation_[c] # "none"
        BY <2>1, StarterBody DEF Handles
      <3>2. continuation_[c] \in Coroutines /\ c \in AwaitedBy(continuation_[c])
        BY <3>1 DEF Handles, TaskTypes
      <3> QED
        BY <2>1, <3>2, BodyItems
    <2> QED
      BY <2>1
  <1>2. \A c \in Coroutines : frame[c] = "running" => control = c
    BY DEF Handles
  <1>3. CASE Resumed
    <2>1. /\ base = "resume" /\ control = "base" /\ base' = IF starter = "Detached" THEN "run" ELSE "acquire"
          /\ UNCHANGED <<starter, control, frame, step, at, result_, continuation_, timers>>
      BY <1>3 DEF Resumed, io
    <2>2. Ending'
      BY <1>0, <2>1 DEF Ending, Starters
    <2>3. \A c \in Coroutines : frame[c] # "running"
      BY <1>0, <1>2, <2>1
    <2>4. frame' \in [Coroutines -> {"none", "suspended", "running", "destroyed"}]
      BY <2>1 DEF TaskTypes
    <2> DEFINE S == {}
    <2> HIDE DEF S
    <2>5. S = {}
      BY DEF S
    <2> QED
      BY <2>1, <2>2, <2>3, <2>4, <2>5, CallerKeeps
  <1>4. CASE Signal \/ Vanish
    <2>1. /\ control = starter /\ step[starter] = "final" /\ control' = "base"
          /\ \E f \in {"suspended", "destroyed"} : frame' = [frame EXCEPT ![starter] = f]
          /\ base' \in {base, "terminated"} /\ UNCHANGED <<starter, step, at, result_, continuation_, timers>>
      BY <1>1, <1>4 DEF Signal, Vanish, Runs, Suspend, io, Starters
    <2>2. PICK f \in {"suspended", "destroyed"} : frame' = [frame EXCEPT ![starter] = f]
      BY <2>1
    <2>3. frame'[starter] = f /\ \A c \in Coroutines : c # starter => frame'[c] = frame[c]
      BY <1>0, <2>2 DEF TaskTypes
    <2>4. frame[starter] = "running" /\ starter \in Live
      BY <1>0, <2>1 DEF Handles, Live
    <2>5. base \notin {"start", "returned", "threw", "terminated"}
      BY <1>0, <2>1 DEF Ending
    <2>6. Ending'
      BY <2>1, <2>5 DEF Ending
    <2>7. frame' \in [Coroutines -> {"none", "suspended", "running", "destroyed"}]
      BY <2>2 DEF TaskTypes
    <2>8. \A c \in Coroutines : frame[c] = "running" => c = starter /\ frame'[c] # "running"
      BY <1>2, <2>1, <2>3
    <2>9. base' \in {"start", "resume", "acquire", "run", "returned", "threw", "terminated"} /\ base' # "start"
      BY <2>1, <2>5 DEF TaskTypes
    <2>10. PICK S : S = {starter}
      OBVIOUS
    <2> QED
      BY <1>0, <2>1, <2>3, <2>4, <2>5, <2>6, <2>7, <2>8, <2>9, <2>10, CallerKeeps
  <1>5. CASE Acquire \/ RunReturns
    <2>1. /\ control = "base" /\ base' \in {"returned", "threw"} /\ base \in {"acquire", "run"}
          /\ UNCHANGED <<starter, control, step, at, result_, continuation_, timers>>
      BY <1>5 DEF Acquire, RunReturns, io
    <2>2. step[starter] = "final"
      BY <1>0, <1>5 DEF Acquire, RunReturns, Ending, Results
    <2>3. frame[starter] = "destroyed" \/ Acquire
      BY <1>5 DEF RunReturns, Ending
    <2>4. PICK S : S = {starter, Body[starter][1]}
      OBVIOUS
    <2>5. S \subseteq Live
      BY <2>1, <2>4 DEF Unborn
    <2>6. \A c \in Coroutines : frame'[c] = IF c \in S /\ ~(c = starter /\ ~Acquire) THEN "destroyed" ELSE frame[c]
      BY <1>0, <1>5, <2>4, <2>5 DEF Acquire, RunReturns, Ending, Destroyed, Live
    <2>7. frame' \in [Coroutines -> {"none", "suspended", "running", "destroyed"}]
      BY <1>5 DEF Acquire, RunReturns, Destroyed, TaskTypes
    <2>8. \A c \in Coroutines : frame[c] # "running"
      BY <1>0, <1>2, <2>1
    <2>9. /\ \A c \in S : c \in Coroutines /\ step[c] = "final" /\ frame'[c] = "destroyed"
          /\ timers = {} /\ \A c \in Coroutines \ S : frame'[c] = frame[c] /\ frame[c] \in {"none", "destroyed"}
      <3>1. /\ \A c \in Live : step[c] = "final"
            /\ timers = {}
            /\ \A c \in Live : c = starter \/ c = Body[starter][1] \/ frame[c] \in {"none", "destroyed"}
        BY <2>2, AllOver
      <3>2. \A c \in Coroutines \ S : frame[c] \in {"none", "destroyed"}
        BY <2>4, <3>1 DEF Live
      <3> QED
        BY <1>0, <2>3, <2>4, <2>5, <2>6, <3>1, <3>2
    <2>10. Ending'
      BY <2>1, <2>9 DEF Ending
    <2> QED
      BY <1>0, <2>1, <2>2, <2>4, <2>5, <2>7, <2>8, <2>9, <2>10, CallerKeeps
  <1> QED
    BY <1>3, <1>4, <1>5

\* Every step of the Tasks keeps the invariant.
LEMMA TaskStepKeeps == TaskInv /\ [Next]_vars => TaskInv'
  <1> SUFFICES ASSUME TaskInv, [Next]_vars PROVE TaskInv'
    OBVIOUS
  <1> USE DEF TaskInv
  <1>1. ASSUME NEW c \in Coroutines, coroutine(c) PROVE TaskInv'
    <2>1. Awaits(c) <=> at[c] \in DOMAIN Body[c]
      BY BodyItems DEF Awaits, TaskTypes
    <2>2. CASE Call(c)
      BY <2>2, CallKeeps
    <2>3. CASE Await(c)
      BY <2>3, AwaitKeeps
    <2>4. CASE FinalSuspend(c)
      BY <2>4, FinalSuspendKeeps
    <2>5. CASE Sleep(c)
      BY <2>5, SleepKeeps
    <2>6. CASE Expire(c)
      BY <2>6, ExpireKeeps
    <2>7. ASSUME NEW k \in DOMAIN Body[c], Body[c][k] # "sleep" PROVE Awaited(c, k, Body[c][k]) /\ k \in Nat /\ at[c] \in Nat
      BY <2>7, BodyItems DEF Bodies, TaskTypes
    <2>8. CASE AwaitResume(c)
      <3>1. /\ control = c /\ step[c] = "resumed" /\ Operand(c) \in Live /\ step[Operand(c)] = "final"
            /\ at[c] \in DOMAIN Body[c] /\ Operand(c) # "sleep"
        <4>1. control = c /\ step[c] = "resumed"
          BY <2>8 DEF AwaitResume, Runs
        <4>2. at[c] \in DOMAIN Body[c] /\ Operand(c) # "sleep"
          BY <4>1 DEF Results
        <4>3. Operand(c) \in Coroutines
          BY <4>2, BodyItems DEF Operand
        <4> QED
          BY <4>1, <4>2, <4>3 DEF Handles, Live
      <3>2. CASE Past(c) /\ Goto(c, "body") /\ UNCHANGED <<frame, result_>>
        BY <2>8, <3>1, <3>2, PastKeeps DEF AwaitResume, Goto, io
      <3>3. CASE Ends(c, "error") /\ UNCHANGED at
        <4>1. ASSUME NEW k \in DOMAIN Body[c], Body[c][k] # "sleep", Body[c][k] \in Live
              PROVE  step[Body[c][k]] = "final"
          <5>1. k < at[c] \/ k = at[c] \/ k > at[c]
            BY <2>7, <4>1
          <5> QED
            BY <2>7, <3>1, <4>1, <5>1 DEF Awaited, Operand
        <4> QED
          BY <2>8, <3>1, <3>3, <4>1, EndsKeeps DEF AwaitResume, io
      <3> QED
        BY <2>8, <3>2, <3>3 DEF AwaitResume
    <2>9. CASE Return(c) \/ Throw(c)
      <3>1. control = c /\ step[c] = "body" /\ at[c] \notin DOMAIN Body[c]
        BY <2>1, <2>9 DEF Return, Throw, Runs
      <3>2. ASSUME NEW k \in DOMAIN Body[c], Body[c][k] # "sleep", Body[c][k] \in Live
            PROVE  step[Body[c][k]] = "final"
        <4>1. k < at[c] \/ k > at[c]
          BY <2>7, <3>1, <3>2
        <4> QED
          BY <2>7, <3>2, <4>1 DEF Awaited
      <3> QED
        BY <2>9, <3>1, <3>2, EndsKeeps DEF Return, Throw, io
    <2>10. CASE SleepReady(c)
      <3>1. /\ control = c /\ step[c] = "body" /\ at[c] \in DOMAIN Body[c] /\ Operand(c) = "sleep" /\ Past(c)
            /\ UNCHANGED <<starter, base, control, step, frame, result_, continuation_, timers>>
        BY <2>1, <2>10 DEF SleepReady, Runs, io
      <3>2. step' = [step EXCEPT ![c] = "body"]
        BY <3>1 DEF TaskTypes
      <3> QED
        BY <3>1, <3>2, PastKeeps
    <2>11. CASE SleepResume(c)
      <3>1. control = c /\ step[c] = "slept" /\ at[c] \in DOMAIN Body[c] /\ Operand(c) = "sleep"
        <4>1. control = c /\ step[c] = "slept"
          BY <2>11 DEF SleepResume, Runs
        <4>2. at[c] \in DOMAIN Body[c]
          BY <4>1 DEF Results
        <4> QED
          BY <4>1, <4>2 DEF Bodies, Awaited, Operand
      <3>2. CASE Past(c) /\ Goto(c, "body") /\ UNCHANGED <<frame, result_>>
        <4>1. /\ UNCHANGED <<starter, base, control, frame, result_, continuation_, timers>>
              /\ step' = [step EXCEPT ![c] = "body"] /\ Past(c)
          BY <2>11, <3>2 DEF SleepResume, Goto, io
        <4> QED
          BY <3>1, <4>1, PastKeeps
      <3>3. CASE Ends(c, "error") /\ UNCHANGED at
        <4>1. ASSUME NEW k \in DOMAIN Body[c], Body[c][k] # "sleep", Body[c][k] \in Live
              PROVE  step[Body[c][k]] = "final"
          <5>1. k < at[c] \/ k > at[c]
            BY <2>7, <3>1, <4>1 DEF Operand
          <5> QED
            BY <2>7, <4>1, <5>1 DEF Awaited
        <4> QED
          BY <2>11, <3>1, <3>3, <4>1, EndsKeeps DEF SleepResume, io
      <3> QED
        BY <2>11, <3>2, <3>3 DEF SleepResume
    <2> QED
      BY <1>1, <2>2, <2>3, <2>4, <2>5, <2>6, <2>8, <2>9, <2>10, <2>11 DEF coroutine
  <1>2. CASE caller
    BY <1>2, StartKeeps, CallersKeep DEF caller
  <1>3. CASE UNCHANGED vars
    BY <1>3 DEF vars, TaskTypes, Unborn, NotBegun, Live, Bodies, Awaited, Results, Handles, Operand, Sleeps,
                Reachable, Ending
  <1> QED
    BY <1>1, <1>2, <1>3 DEF Next, Ended

\* What the invariant says of the handles and of the frames.
LEMMA TaskInvImplies == TaskInv => HeldByOne /\ NothingDangles
  <1> SUFFICES ASSUME TaskInv PROVE HeldByOne /\ NothingDangles
    OBVIOUS
  <1> USE DEF TaskInv
  <1>1. ASSUME NEW c \in Coroutines, UnderWay(c), frame[c] = "suspended"
        PROVE  \/ step[c] = "slept" /\ c \in timers /\ \A d \in Coroutines : continuation_[d] = c => step[d] = "final"
               \/ /\ step[c] = "resumed" /\ c \notin timers
                  /\ continuation_[Operand(c)] = c /\ frame[Operand(c)] \in {"suspended", "running"}
    <2>1. step[c] \in {"resumed", "slept"}
      <3>1. step[c] # "body"
        <4>1. CASE step[c] = "body"
          <5>1. NotBegun(c) /\ c \notin Starters
            BY <1>1, <4>1 DEF Unborn
          <5> QED
            BY <1>1, <5>1 DEF UnderWay, NotBegun, TaskTypes
        <4> QED
          BY <4>1
      <3> QED
        BY <1>1, <3>1 DEF UnderWay, TaskTypes
    <2>2. control # c
      BY <1>1 DEF Handles
    <2>3. CASE step[c] = "slept"
      <3>1. c \in timers
        BY <2>2, <2>3 DEF Sleeps
      <3>2. ASSUME NEW d \in Coroutines, continuation_[d] = c, step[d] # "final" PROVE FALSE
        BY <2>3, <3>2 DEF Handles
      <3> QED
        BY <2>3, <3>1, <3>2
    <2>4. CASE step[c] = "resumed"
      <3>1. c \notin timers /\ at[c] \in DOMAIN Body[c] /\ Operand(c) # "sleep"
        BY <2>4 DEF Sleeps, Results
      <3>2. Awaited(c, at[c], Operand(c))
        BY <3>1 DEF Bodies, Operand
      <3>3. continuation_[Operand(c)] = c /\ frame[Operand(c)] \in {"suspended", "running"}
        BY <2>4, <3>2 DEF Awaited
      <3> QED
        BY <2>4, <3>1, <3>3
    <2> QED
      BY <2>1, <2>3, <2>4
  <1>2. \A c \in Coroutines : Runs(c, "resumed") => frame[Operand(c)] = "suspended" /\ result_[Operand(c)] # "empty"
    <2> SUFFICES ASSUME NEW c \in Coroutines, control = c, step[c] = "resumed"
                 PROVE  frame[Operand(c)] = "suspended" /\ result_[Operand(c)] # "empty"
      BY DEF Runs
    <2>1. frame[Operand(c)] = "suspended" /\ step[Operand(c)] = "final"
      BY DEF Handles
    <2>2. Operand(c) \in Coroutines
      BY BodyItems DEF Results, Operand
    <2> QED
      BY <2>1, <2>2 DEF Results
  <1>3. \A c \in timers : frame[c] = "suspended" /\ step[c] = "slept"
    BY DEF Sleeps
  <1>4. base \in {"returned", "threw"} =>
            timers = {} /\ \A c \in Coroutines : frame[c] \in {"none", "destroyed"}
    BY DEF Ending
  <1> QED
    BY <1>1, <1>2, <1>3, <1>4 DEF HeldByOne, NothingDangles

\* The invariant of the Tasks holds whichever example runs.
THEOREM TasksInvariant == ExamplesSpec => []TaskInv
  <1>1. ExamplesInit => TaskInv
    BY TasksInitially DEF ExamplesInit
  <1>2. TaskInv /\ [ExamplesNext]_examplesVars => TaskInv'
    <2> SUFFICES ASSUME TaskInv, [ExamplesNext]_examplesVars PROVE TaskInv'
      OBVIOUS
    <2>1. [Next]_vars
      BY DEF ExamplesNext, InTasks, InTcp, InOwner, examplesVars
    <2> QED
      BY <2>1, TaskStepKeeps
  <1> QED
    BY <1>1, <1>2, PTL DEF ExamplesSpec

\* A suspended coroutine is waited for by exactly what will resume it.
THEOREM AlwaysHeldByOne == ExamplesSpec => []HeldByOne
  BY TaskInvImplies, TasksInvariant, PTL

\* Whoever is resumed reads a result that is there, in a frame that is there;
\* timers are for coroutines that wait; and no frame is left at the end.
THEOREM NeverDangles == ExamplesSpec => []NothingDangles
  BY TaskInvImplies, TasksInvariant, PTL
-----------------------------------------------------------------------------
(* Induction, from the fact that < is well-founded on the numbers.           *)
\* Every nonempty set of numbers has a least element.
LEMMA Least ==
    ASSUME NEW T \in SUBSET Nat, T # {}
    PROVE  \E x \in T : \A y \in T : x <= y
<1> DEFINE R == {ss \in Nat \X Nat : ss[1] < ss[2]}
<1>1. IsWellFoundedOn(R, Nat)
    BY NatLessThanWellFounded DEF OpToRel
<1> HIDE DEF R
<1>2. PICK x \in T : \A y \in T : <<y, x>> \notin R
    BY <1>1, WFMin
<1>3. ASSUME NEW y \in T PROVE x <= y
    <2>1. x \in Nat /\ y \in Nat
        OBVIOUS
    <2>2. ~(y < x)
        BY <1>2, <2>1 DEF R
    <2> QED BY <2>1, <2>2
<1> QED BY <1>3

\* A set that holds 0, and with every number the next, holds all numbers.
LEMMA Induct ==
    ASSUME NEW S \in SUBSET Nat, 0 \in S, \A k \in S : k + 1 \in S
    PROVE  S = Nat
<1>1. SUFFICES ASSUME Nat \ S # {} PROVE FALSE
    OBVIOUS
<1>2. PICK x \in Nat \ S : \A y \in Nat \ S : x <= y
    BY <1>1, Least
<1>3. x - 1 \in Nat /\ x - 1 \in S
    BY <1>2
<1> QED BY <1>2, <1>3
-----------------------------------------------------------------------------
(* Tasks: they implement calls.                                              *)
\* A coroutine that awaits another one that is not over yet.
Onward(c) == step[c] = "resumed" /\ step[Operand(c)] # "final"
\* The starter, or one that has been awaited.
Begun(c) == c = starter \/ continuation_[c] # "none"
\* The coroutines under way in a row, from the starter to the innermost.
IsChain(s) ==
    /\ Len(s) > 0 /\ s[1] = starter
    /\ \A k \in 1 .. Len(s) - 1 : Onward(s[k]) /\ s[k + 1] = Operand(s[k])
    /\ \A j, k \in 1 .. Len(s) : s[j] = s[k] => j = k
    /\ ~Onward(s[Len(s)])
    /\ \A c \in Coroutines : Begun(c) /\ step[c] # "final" => \E k \in 1 .. Len(s) : c = s[k]
\* The state of StructuredCalls, as AsyncTask maps it, and the chain it is.
Stack == IF UnderWay(starter) THEN Chain[starter] ELSE <<>>
Outcome == [c \in Coroutines |-> IF result_[c] = "empty" THEN "none" ELSE result_[c]]
StackOf(s) == IF base # "start" /\ step[starter] # "final" THEN s ELSE <<>>

\* What is left of a sequence from one of its places on.
LEMMA RestOfChain ==
    ASSUME NEW S, NEW s \in Seq(S), NEW k \in 1 .. Len(s)
    PROVE  /\ k < Len(s) => SubSeq(s, k, Len(s)) = <<s[k]>> \o SubSeq(s, k + 1, Len(s))
           /\ k = Len(s) => SubSeq(s, k, Len(s)) = <<s[k]>>
<1>0. Len(s) \in Nat /\ k \in Nat /\ s[k] \in S
    BY LenProperties
<1>1. SubSeq(s, k, Len(s)) = <<s[k]>> \o SubSeq(s, k + 1, Len(s))
    BY <1>0, SubSeqRecursiveFirst
<1>2. CASE k = Len(s)
    <2>1. SubSeq(s, k + 1, Len(s)) = <<>>
        BY <1>0, <1>2, SubSeqEmpty
    <2>2. <<s[k]>> \in Seq(S)
        BY <1>0
    <2>3. <<s[k]>> \o <<>> = <<s[k]>>
        BY <2>2, ConcatEmptySeq
    <2> QED BY <1>1, <2>1, <2>3
<1> QED BY <1>1, <1>2

\* Chain is what its recursive definition says: the coroutines under way.
LEMMA ChainIs ==
    ASSUME TaskInv, NEW s \in Seq(Coroutines), IsChain(s)
    PROVE  Chain[starter] = s
<1> DEFINE H(f) == [c \in Coroutines |-> IF step[c] = "resumed" /\ step[Operand(c)] # "final"
                                         THEN <<c>> \o f[Operand(c)] ELSE <<c>>]
           size == Len(s)
           G == [c \in Coroutines |-> IF \E k \in 1 .. size : s[k] = c
                                      THEN SubSeq(s, CHOOSE k \in 1 .. size : s[k] = c, size) ELSE <<c>>]
<1>0. size \in Nat /\ size > 0 /\ \A k \in 1 .. size : s[k] \in Coroutines
    BY LenProperties DEF IsChain
<1>1. ASSUME NEW k \in 1 .. size PROVE G[s[k]] = SubSeq(s, k, size)
    <2> DEFINE m == CHOOSE m \in 1 .. size : s[m] = s[k]
    <2>1. m \in 1 .. size /\ s[m] = s[k]
        OBVIOUS
    <2>2. m = k
        BY <2>1 DEF IsChain
    <2>3. G[s[k]] = SubSeq(s, m, size)
        BY <1>0
    <2> QED BY <2>2, <2>3
<1>2. \A c \in Coroutines : (~\E k \in 1 .. size : s[k] = c) => G[c] = <<c>>
    OBVIOUS
<1>3. \A k \in 1 .. size : IF k < size THEN SubSeq(s, k, size) = <<s[k]>> \o SubSeq(s, k + 1, size) ELSE SubSeq(s, k, size) = <<s[k]>>
    <2> SUFFICES ASSUME NEW k \in 1 .. size
                 PROVE  IF k < size THEN SubSeq(s, k, size) = <<s[k]>> \o SubSeq(s, k + 1, size) ELSE SubSeq(s, k, size) = <<s[k]>>
        OBVIOUS
    <2>1. k < size \/ k = size
        BY <1>0
    <2> QED BY <2>1, RestOfChain
<1>4. \A k \in 1 .. size : IF k < size THEN Onward(s[k]) /\ s[k + 1] = Operand(s[k]) /\ k + 1 \in 1 .. size ELSE ~Onward(s[k])
    <2> SUFFICES ASSUME NEW k \in 1 .. size
                 PROVE  IF k < size THEN Onward(s[k]) /\ s[k + 1] = Operand(s[k]) /\ k + 1 \in 1 .. size ELSE ~Onward(s[k])
        OBVIOUS
    <2>1. k = size \/ (k < size /\ k \in 1 .. size - 1 /\ k + 1 \in 1 .. size)
        BY <1>0
    <2> QED BY <2>1 DEF IsChain
<1>5. \A c \in Coroutines : Onward(c) => \E k \in 1 .. size : s[k] = c
    <2> SUFFICES ASSUME NEW c \in Coroutines, Onward(c) PROVE \E k \in 1 .. size : s[k] = c
        OBVIOUS
    <2>1. Begun(c) /\ step[c] # "final"
        BY DEF Onward, Begun, TaskInv, Handles
    <2> QED BY <2>1 DEF IsChain
<1> HIDE DEF G, size
<1>6. ASSUME NEW c \in Coroutines PROVE G[c] = H(G)[c]
    <2>1. CASE Onward(c)
        <3>1. PICK k \in 1 .. size : s[k] = c
            BY <1>5, <2>1
        <3>2. k < size /\ Operand(c) = s[k + 1] /\ k + 1 \in 1 .. size
            BY <1>4, <2>1, <3>1
        <3>3. G[c] = <<c>> \o G[Operand(c)]
            BY <1>1, <1>3, <3>1, <3>2
        <3> QED BY <2>1, <3>3 DEF Onward
    <2>2. CASE ~Onward(c)
        <3>1. G[c] = <<c>>
            <4>1. CASE \E k \in 1 .. size : s[k] = c
                <5>1. PICK k \in 1 .. size : s[k] = c
                    BY <4>1
                <5>2. ~(k < size)
                    BY <1>4, <2>2, <5>1
                <5> QED BY <1>1, <1>3, <5>1, <5>2
            <4>2. CASE ~\E k \in 1 .. size : s[k] = c
                BY <1>2, <4>2
            <4> QED BY <4>1, <4>2
        <3> QED BY <2>2, <3>1 DEF Onward
    <2> QED BY <2>1, <2>2
<1>7. G = H(G)
    BY <1>6 DEF G
<1>8. Chain = CHOOSE f : f = H(f)
    BY DEF Chain
<1>9. Chain = H(Chain)
    BY <1>7, <1>8
<1>10. \A c \in Coroutines : Chain[c] = IF Onward(c) THEN <<c>> \o Chain[Operand(c)] ELSE <<c>>
    BY <1>9 DEF Onward
<1> HIDE DEF H
<1> DEFINE T == {j \in Nat : j < size /\ Chain[s[size - j]] # SubSeq(s, size - j, size)}
<1>11. T = {}
    <2> SUFFICES ASSUME T # {} PROVE FALSE
        OBVIOUS
    <2>1. PICK j \in T : \A i \in T : j <= i
        BY Least
    <2> DEFINE k == size - j
    <2>2. k \in 1 .. size /\ j \in Nat /\ Chain[s[k]] # SubSeq(s, k, size)
        BY <1>0, <2>1
    <2>3. k < size => j - 1 \in Nat /\ j - 1 < size /\ size - (j - 1) = k + 1
        BY <1>0, <2>1
    <2>4. CASE k < size
        <3>1. j - 1 \notin T
            <4>1. ~(j <= j - 1)
                BY <2>2
            <4> QED BY <2>1, <4>1
        <3>2. Chain[s[k + 1]] = SubSeq(s, k + 1, size)
            BY <2>3, <2>4, <3>1
        <3>3. Onward(s[k]) /\ s[k + 1] = Operand(s[k]) /\ SubSeq(s, k, size) = <<s[k]>> \o SubSeq(s, k + 1, size) /\ s[k] \in Coroutines
            BY <1>0, <1>3, <1>4, <2>2, <2>4
        <3>4. Chain[s[k]] = <<s[k]>> \o Chain[Operand(s[k])]
            BY <1>10, <3>3
        <3> QED BY <2>2, <3>2, <3>3, <3>4
    <2>5. CASE ~(k < size)
        BY <1>0, <1>3, <1>4, <1>10, <2>2, <2>5
    <2> QED BY <2>4, <2>5
<1>12. Chain[s[1]] = SubSeq(s, 1, size)
    <2>1. size - 1 \in Nat /\ size - 1 < size /\ size - (size - 1) = 1
        BY <1>0
    <2> QED BY <1>11, <2>1
<1>13. SubSeq(s, 1, size) = s
    BY SubSeqFull DEF size
<1> QED BY <1>12, <1>13 DEF IsChain

\* The abstract stack.
LEMMA StackIs == \A s \in Seq(Coroutines) : TaskInv /\ IsChain(s) => Stack = StackOf(s)
<1> SUFFICES ASSUME NEW s \in Seq(Coroutines), TaskInv, IsChain(s) PROVE Stack = StackOf(s)
    OBVIOUS
<1>1. starter \in Coroutines
    BY StarterBody DEF TaskInv, TaskTypes
<1>2. frame[starter] = "none" <=> base = "start"
    BY <1>1 DEF TaskInv, Unborn, Live
<1>3. UnderWay(starter) <=> base # "start" /\ step[starter] # "final"
    BY <1>2 DEF UnderWay
<1> QED BY <1>3, ChainIs DEF Stack, StackOf

\* And so after every step.
LEMMA StackIsNext == (\A s \in Seq(Coroutines) : TaskInv /\ IsChain(s) => Stack = StackOf(s))'
<1>1. [](\A s \in Seq(Coroutines) : TaskInv /\ IsChain(s) => Stack = StackOf(s))
    BY StackIs, PTL
<1> QED BY <1>1, PTL

\* All in a chain have begun.
LEMMA ChainHasBegun ==
    ASSUME TaskInv, NEW s \in Seq(Coroutines), IsChain(s)
    PROVE  /\ Len(s) \in Nat /\ Len(s) > 0 /\ (\A k \in 1 .. Len(s) : s[k] \in Coroutines /\ Begun(s[k]))
           /\ starter \in Coroutines
<1>0. Len(s) \in Nat /\ Len(s) > 0 /\ \A k \in 1 .. Len(s) : s[k] \in Coroutines
    BY LenProperties DEF IsChain
<1>1. ASSUME NEW k \in 1 .. Len(s) PROVE Begun(s[k])
    <2>1. CASE k = 1
        BY <2>1 DEF IsChain, Begun
    <2>2. CASE k # 1
        <3> DEFINE p == s[k - 1]
        <3>1. k - 1 \in 1 .. Len(s) - 1 /\ k - 1 \in 1 .. Len(s) /\ (k - 1) + 1 = k
            BY <1>0, <2>2
        <3>2. Onward(p) /\ s[k] = Operand(p) /\ p \in Coroutines
            BY <1>0, <3>1 DEF IsChain
        <3> HIDE DEF p
        <3>3. at[p] \in DOMAIN Body[p] /\ Operand(p) # "sleep" /\ step[p] = "resumed"
            BY <3>2 DEF TaskInv, Results, Onward
        <3>4. Awaited(p, at[p], Operand(p))
            BY <3>2, <3>3 DEF TaskInv, Bodies, Operand
        <3>5. continuation_[Operand(p)] = p /\ p # "none"
            BY <3>2, <3>3, <3>4, BodyItems DEF Awaited
        <3> QED BY <3>2, <3>5 DEF Begun
    <2> QED BY <2>1, <2>2
<1>2. starter \in Coroutines
    BY StarterBody DEF TaskInv, TaskTypes
<1> QED BY <1>0, <1>1, <1>2

\* Whoever has control and is not over is the innermost.
LEMMA Innermost ==
    ASSUME TaskInv, NEW s \in Seq(Coroutines), IsChain(s), NEW c \in Coroutines, control = c,
           step[c] # "final", ~Onward(c)
    PROVE  c = s[Len(s)] /\ base # "start" /\ step[starter] # "final" /\ Stack = s
<1>0. Len(s) \in Nat /\ Len(s) > 0
    BY ChainHasBegun
<1>1. PICK k \in 1 .. Len(s) : c = s[k]
    <2>1. Begun(c)
        BY DEF TaskInv, Handles, Begun
    <2> QED BY <2>1 DEF IsChain
<1>2. c = s[Len(s)]
    <2>1. k = Len(s) \/ k \in 1 .. Len(s) - 1
        BY <1>0
    <2> QED BY <1>1, <2>1 DEF IsChain
<1>3. base # "start"
    BY BodyItems DEF TaskInv, Ending
<1>4. step[starter] # "final"
    <2>1. CASE Len(s) = 1
        BY <1>2, <2>1 DEF IsChain
    <2>2. CASE Len(s) # 1
        <3>0. \A m \in Nat : m > 0 /\ m # 1 => 1 \in 1 .. m - 1
            OBVIOUS
        <3>1. 1 \in 1 .. Len(s) - 1
            BY <1>0, <2>2, <3>0
        <3>2. Onward(starter)
            BY <3>1 DEF IsChain
        <3> QED BY <3>2 DEF Onward
    <2> QED BY <2>1, <2>2
<1>5. Stack = s
    BY <1>3, <1>4, StackIs DEF StackOf
<1> QED BY <1>2, <1>3, <1>4, <1>5

\* A step that neither awaits nor ends keeps the chain.
LEMMA ChainStays ==
    ASSUME TaskInv, NEW s \in Seq(Coroutines), IsChain(s), starter' = starter, continuation_' = continuation_,
           \A x \in Coroutines : Onward(x) => step'[x] = "resumed" /\ at'[x] = at[x],
           \A x \in Coroutines : ~Onward(x) => ~(Onward(x)'),
           \A x \in Coroutines : step'[x] = "final" <=> step[x] = "final"
    PROVE  IsChain(s)'
<1>0. Len(s) \in Nat /\ Len(s) > 0 /\ (\A k \in 1 .. Len(s) : s[k] \in Coroutines)
    BY ChainHasBegun
<1>1. ASSUME NEW k \in 1 .. Len(s) - 1 PROVE Onward(s[k])' /\ s[k + 1] = Operand(s[k])'
    <2>1. k \in 1 .. Len(s) /\ k + 1 \in 1 .. Len(s)
        BY <1>0
    <2>2. Onward(s[k]) /\ s[k + 1] = Operand(s[k]) /\ s[k] \in Coroutines /\ s[k + 1] \in Coroutines
        BY <1>0, <2>1 DEF IsChain
    <2>3. step'[s[k]] = "resumed" /\ Operand(s[k])' = s[k + 1]
        BY <2>2 DEF Operand
    <2>4. step'[s[k + 1]] # "final"
        BY <2>2 DEF Onward
    <2> QED BY <2>3, <2>4 DEF Onward
<1>2. ~(Onward(s[Len(s)])')
    <2>1. Len(s) \in 1 .. Len(s)
        BY <1>0
    <2>2. s[Len(s)] \in Coroutines /\ ~Onward(s[Len(s)])
        BY <1>0, <2>1 DEF IsChain
    <2> QED BY <2>2
<1>3. \A c \in Coroutines : Begun(c)' /\ step'[c] # "final" => \E k \in 1 .. Len(s) : c = s[k]
    BY DEF IsChain, Begun
<1>4. s[1] = starter'
    BY DEF IsChain
<1>5. \A j, k \in 1 .. Len(s) : s[j] = s[k] => j = k
    BY DEF IsChain
<1> QED BY <1>0, <1>1, <1>2, <1>3, <1>4, <1>5 DEF IsChain

\* One that awaits makes it longer.
LEMMA ChainAwaits ==
    ASSUME TaskInv, NEW s \in Seq(Coroutines), IsChain(s), NEW c \in Coroutines, Await(c),
           NEW d, d = Operand(c)
    PROVE  /\ d \in Coroutines /\ step[d] = "body"
           /\ Append(s, d) \in Seq(Coroutines) /\ IsChain(Append(s, d))'
<1>d. d = Operand(c)
    OBVIOUS
<1>t. PICK t : t = Append(s, d)
    OBVIOUS
<1> DEFINE size == Len(s)
<1>0. size \in Nat /\ size > 0 /\ size \in 1 .. size /\ (\A k \in 1 .. size : s[k] \in Coroutines /\ Begun(s[k])) /\ starter \in Coroutines
    BY ChainHasBegun
<1>1. /\ control = c /\ step[c] = "body" /\ frame[d] = "suspended" /\ d # "sleep" /\ at[c] \in DOMAIN Body[c]
    BY <1>d, BodyItems DEF Await, Runs, Awaits, TaskInv, TaskTypes
<1>2. d \in Coroutines \ Starters /\ d # "none"
    BY <1>1, <1>d, BodyItems DEF Operand
<1>3. NotBegun(d) /\ d \in Live
    <2>1. Awaited(c, at[c], d)
        BY <1>1, <1>d DEF TaskInv, Bodies, Operand
    <2>2. d \in Live
        BY <1>1, <1>2 DEF Live
    <2>3. step[d] = "body"
        BY <1>1, <2>1, <2>2 DEF Awaited
    <2> QED BY <1>1, <1>2, <2>2, <2>3 DEF TaskInv, Unborn
<1>4. ~Begun(d) /\ step[d] = "body"
    BY <1>2, <1>3 DEF NotBegun, Begun, TaskInv, TaskTypes
<1>5. c = s[size]
    BY <1>1, Innermost DEF Onward
<1>6. d # c /\ c # "none"
    BY <1>0, <1>4, <1>5, BodyItems
<1>7. /\ step'[c] = "resumed" /\ (\A x \in Coroutines : x # c => step'[x] = step[x]) /\ at' = at /\ starter' = starter
      /\ continuation_'[d] = c /\ (\A x \in Coroutines : x # d => continuation_'[x] = continuation_[x])
    BY <1>2, <1>d DEF Await, Goto, TaskInv, TaskTypes
<1>8. /\ t \in Seq(Coroutines) /\ Len(t) = size + 1 /\ t[size + 1] = d /\ \A k \in 1 .. size : t[k] = s[k]
    BY <1>2, <1>t, AppendProperties
<1> HIDE DEF size
<1>9. ASSUME NEW k \in 1 .. size PROVE Onward(t[k])' /\ t[k + 1] = Operand(t[k])'
    <2>1. CASE k = size
        <3>1. t[k] = c /\ t[k + 1] = d
            BY <1>5, <1>8, <2>1
        <3>2. Operand(c)' = d
            BY <1>7, <1>d DEF Operand
        <3>3. step'[d] # "final"
            BY <1>2, <1>4, <1>6, <1>7
        <3> QED BY <1>7, <3>1, <3>2, <3>3 DEF Onward
    <2>2. CASE k # size
        <3>1. k \in 1 .. size - 1 /\ k + 1 \in 1 .. size
            BY <1>0, <2>2
        <3>2. Onward(s[k]) /\ s[k + 1] = Operand(s[k]) /\ t[k] = s[k] /\ t[k + 1] = s[k + 1]
            BY <1>8, <3>1 DEF IsChain, size
        <3>3. s[k] \in Coroutines /\ s[k + 1] \in Coroutines /\ s[k] # c
            BY <1>0, <1>1, <3>1, <3>2 DEF Onward
        <3>4. step'[s[k]] = "resumed" /\ Operand(s[k])' = s[k + 1]
            BY <1>7, <3>2, <3>3 DEF Onward, Operand
        <3>5. step'[s[k + 1]] # "final"
            BY <1>7, <3>2, <3>3 DEF Onward
        <3> QED BY <3>2, <3>4, <3>5 DEF Onward
    <2> QED BY <2>1, <2>2
<1>10. \A k \in 1 .. size + 1 : k = size + 1 \/ k \in 1 .. size
    BY <1>0
<1>11. ASSUME NEW j \in 1 .. size + 1, NEW k \in 1 .. size + 1, t[j] = t[k] PROVE j = k
    <2>1. \A m \in 1 .. size : t[m] = s[m] /\ t[m] # d
        BY <1>0, <1>4, <1>8
    <2>2. CASE j \in 1 .. size /\ k \in 1 .. size
        BY <1>11, <2>1, <2>2 DEF IsChain, size
    <2>3. CASE j = size + 1
        BY <1>8, <1>10, <1>11, <2>1, <2>3
    <2>4. CASE k = size + 1
        BY <1>8, <1>10, <1>11, <2>1, <2>4
    <2> QED BY <1>10, <2>2, <2>3, <2>4
<1>12. ~(Onward(d)')
    BY <1>2, <1>4, <1>6, <1>7 DEF Onward
<1>13. ASSUME NEW x \in Coroutines, Begun(x)', step'[x] # "final" PROVE \E k \in 1 .. size + 1 : x = t[k]
    <2>1. CASE x = d
        <3>1. size + 1 \in 1 .. size + 1
            BY <1>0
        <3> QED BY <1>8, <2>1, <3>1
    <2>2. CASE x # d
        <3>1. Begun(x) /\ step[x] # "final"
            BY <1>1, <1>7, <1>13, <2>2 DEF Begun
        <3>2. PICK k \in 1 .. size : x = s[k]
            BY <3>1 DEF IsChain, size
        <3>3. k \in 1 .. size + 1
            BY <1>0
        <3> QED BY <1>8, <3>2, <3>3
    <2> QED BY <2>1, <2>2
<1>14. Len(t) > 0 /\ t[1] = starter'
    <2>1. 1 \in 1 .. size /\ size + 1 > 0
        BY <1>0
    <2>2. s[1] = starter
        BY DEF IsChain
    <2> QED BY <1>7, <1>8, <2>1, <2>2
<1>15. Len(t) - 1 = size
    BY <1>0, <1>8
<1>16. IsChain(t)'
    BY <1>8, <1>9, <1>11, <1>12, <1>13, <1>14, <1>15 DEF IsChain
<1> QED BY <1>2, <1>4, <1>8, <1>16, <1>t

\* A coroutine that comes to its end leaves the others.
LEMMA ChainEnds ==
    ASSUME TaskInv, NEW s \in Seq(Coroutines), IsChain(s), NEW c \in Coroutines, c = s[Len(s)],
           step' = [step EXCEPT ![c] = "final"], UNCHANGED <<starter, at, continuation_>>
    PROVE  /\ Len(s) = 1 => IsChain(s)'
           /\ Len(s) > 1 => SubSeq(s, 1, Len(s) - 1) \in Seq(Coroutines) /\ IsChain(SubSeq(s, 1, Len(s) - 1))'
<1> DEFINE size == Len(s)
<1>0. size \in Nat /\ size > 0 /\ size \in 1 .. size /\ (\A k \in 1 .. size : s[k] \in Coroutines /\ Begun(s[k])) /\ starter \in Coroutines
    BY ChainHasBegun
<1>1. step'[c] = "final" /\ \A x \in Coroutines : x # c => step'[x] = step[x]
    BY DEF TaskInv, TaskTypes
<1>2. ASSUME NEW x \in Coroutines, Begun(x)', step'[x] # "final" PROVE x # c /\ \E k \in 1 .. size : x = s[k]
    <2>1. x # c /\ Begun(x) /\ step[x] # "final"
        BY <1>1, <1>2 DEF Begun
    <2> QED BY <2>1 DEF IsChain
<1>3. ~(Onward(c)')
    BY <1>1 DEF Onward
<1>4. CASE size = 1
    <2>1. \A k \in 1 .. size - 1 : FALSE
        BY <1>4
    <2>2. s[size] = c /\ s[1] = starter /\ \A j, k \in 1 .. size : s[j] = s[k] => j = k
        BY DEF IsChain
    <2>3. IsChain(s)'
        BY <1>0, <1>2, <1>3, <2>1, <2>2 DEF IsChain
    <2> QED BY <1>4, <2>3
<1>5. CASE size > 1
    <2>t. PICK t : t = SubSeq(s, 1, size - 1)
        OBVIOUS
    <2>1. size - 1 \in Nat /\ 1 <= size - 1 /\ \A k \in 1 .. size - 1 : k \in 1 .. size /\ k # size /\ k \in Nat
        BY <1>0, <1>5
    <2>2. t \in Seq(Coroutines) /\ Len(t) = size - 1 /\ \A k \in 1 .. size - 1 : t[k] = s[k]
        <3>1. \A k \in 1 .. size - 1 : s[k] \in Coroutines
            BY <1>0, <2>1
        <3>2. /\ t \in Seq(Coroutines) /\ Len(t) = (size - 1) - 1 + 1
              /\ \A k \in 1 .. (size - 1) - 1 + 1 : t[k] = s[1 + k - 1]
            BY <2>t, <2>1, <3>1, SubSeqProperties
        <3>3. (size - 1) - 1 + 1 = size - 1 /\ \A k \in 1 .. size - 1 : 1 + k - 1 = k
            BY <2>1
        <3> QED BY <3>2, <3>3
    <2> HIDE DEF size
    <2>3. ASSUME NEW k \in 1 .. size - 1 PROVE s[k] # c /\ s[k] \in Coroutines /\ Onward(s[k]) /\ s[k + 1] = Operand(s[k])
        <3>1. k \in 1 .. size /\ k # size /\ c = s[size]
            BY <2>1 DEF size
        <3>2. s[k] # c
            BY <1>0, <3>1 DEF IsChain, size
        <3> QED BY <1>0, <3>1, <3>2 DEF IsChain, size
    <2>4. ASSUME NEW k \in 1 .. (size - 1) - 1 PROVE Onward(t[k])' /\ t[k + 1] = Operand(t[k])'
        <3>1. k \in 1 .. size - 1 /\ k + 1 \in 1 .. size - 1
            BY <2>1
        <3>2. t[k] = s[k] /\ t[k + 1] = s[k + 1]
            BY <2>2, <3>1
        <3>3. s[k] # c /\ s[k] \in Coroutines /\ Onward(s[k]) /\ s[k + 1] = Operand(s[k]) /\ s[k + 1] # c /\ s[k + 1] \in Coroutines
            BY <2>3, <3>1
        <3>4. step'[s[k]] = "resumed" /\ Operand(s[k])' = s[k + 1]
            BY <1>1, <3>3 DEF Onward, Operand
        <3>5. step'[s[k + 1]] # "final"
            BY <1>1, <3>3 DEF Onward
        <3> QED BY <3>2, <3>4, <3>5 DEF Onward
    <2>5. ~(Onward(t[size - 1])')
        <3>1. size - 1 \in 1 .. size - 1 /\ (size - 1) + 1 = size
            BY <1>0, <1>5
        <3>2. t[size - 1] = s[size - 1] /\ s[size - 1] \in Coroutines /\ c = Operand(s[size - 1])
            BY <2>2, <2>3, <3>1 DEF size
        <3>3. Operand(s[size - 1])' = c
            BY <3>2 DEF Operand
        <3> QED BY <1>1, <3>2, <3>3 DEF Onward
    <2>6. \A j, k \in 1 .. size - 1 : t[j] = t[k] => j = k
        BY <2>1, <2>2 DEF IsChain, size
    <2>7. ASSUME NEW x \in Coroutines, Begun(x)', step'[x] # "final" PROVE \E k \in 1 .. size - 1 : x = t[k]
        <3>1. PICK k \in 1 .. size : x = s[k]
            BY <1>2, <2>7
        <3>2. k # size
            BY <1>2, <2>7, <3>1 DEF size
        <3>3. k \in 1 .. size - 1
            BY <1>0, <3>2
        <3> QED BY <2>2, <3>1, <3>3
    <2>8. Len(t) > 0 /\ t[1] = starter'
        <3>1. 1 \in 1 .. size - 1 /\ size - 1 > 0
            BY <2>1
        <3> QED BY <2>2, <3>1 DEF IsChain
    <2>9. IsChain(t)'
        BY <2>2, <2>4, <2>5, <2>6, <2>7, <2>8 DEF IsChain
    <2> QED BY <1>5, <2>t, <2>2, <2>9 DEF size
<1> QED BY <1>0, <1>4, <1>5

\* What a coroutine has gone past has given a value.
Gave == \A c \in Coroutines : \A k \in DOMAIN Body[c] :
    k < at[c] /\ Body[c][k] # "sleep" => result_[Body[c][k]] = "value"
Chained == \E s \in Seq(Coroutines) : IsChain(s)
CallsInv == Gave /\ Chained

\* The steps of StructuredCalls, in terms of the stack and of the outcomes.
LEMMA CallsStep ==
    /\ Calls!Init <=> Stack = <<>> /\ Outcome = [c \in Coroutines |-> "none"]
    /\ Calls!Begin <=> /\ Stack = <<>> /\ \A c \in Coroutines : Outcome[c] = "none"
                       /\ \E c \in Starters : Stack' = <<c>>
                       /\ UNCHANGED Outcome
    /\ Calls!Invoke <=> /\ Stack # <<>>
                        /\ \E k \in DOMAIN Body[Stack[Len(Stack)]] :
                              LET callee == Body[Stack[Len(Stack)]][k]
                              IN  /\ callee # "sleep" /\ Outcome[callee] = "none"
                                  /\ \A j \in 1 .. k - 1 : \/ Body[Stack[Len(Stack)]][j] = "sleep"
                                                           \/ Outcome[Body[Stack[Len(Stack)]][j]] = "value"
                                  /\ Stack' = Append(Stack, callee)
                        /\ UNCHANGED Outcome
    /\ Calls!Give <=> /\ Stack # <<>> /\ Stack' = SubSeq(Stack, 1, Len(Stack) - 1)
                      /\ \E result \in {"value", "error"} :
                            /\ result = "value" => \A d \in AwaitedBy(Stack[Len(Stack)]) : Outcome[d] = "value"
                            /\ Outcome' = [Outcome EXCEPT ![Stack[Len(Stack)]] = result]
    /\ (Calls!Begin \/ Calls!Invoke \/ Calls!Give \/ UNCHANGED <<Stack, Outcome>>) => [Calls!Next]_(Calls!cvars)
<1>1. Calls!Init <=> Stack = <<>> /\ Outcome = [c \in Coroutines |-> "none"]
    BY DEF Calls!Init, Coroutines, Stack, Outcome
<1>2. Calls!Begin <=> /\ Stack = <<>> /\ \A c \in Coroutines : Outcome[c] = "none"
                      /\ \E c \in Starters : Stack' = <<c>>
                      /\ UNCHANGED Outcome
    BY DEF Calls!Begin, Coroutines, Stack, Outcome
<1>3. Calls!Invoke <=> /\ Stack # <<>>
                       /\ \E k \in DOMAIN Body[Stack[Len(Stack)]] :
                             LET callee == Body[Stack[Len(Stack)]][k]
                             IN  /\ callee # "sleep" /\ Outcome[callee] = "none"
                                 /\ \A j \in 1 .. k - 1 : \/ Body[Stack[Len(Stack)]][j] = "sleep"
                                                          \/ Outcome[Body[Stack[Len(Stack)]][j]] = "value"
                                 /\ Stack' = Append(Stack, callee)
                       /\ UNCHANGED Outcome
    BY DEF Calls!Invoke, Calls!Last, Stack, Outcome
<1>4. Calls!Give <=> /\ Stack # <<>> /\ Stack' = SubSeq(Stack, 1, Len(Stack) - 1)
                     /\ \E result \in {"value", "error"} :
                           /\ result = "value" => \A d \in AwaitedBy(Stack[Len(Stack)]) : Outcome[d] = "value"
                           /\ Outcome' = [Outcome EXCEPT ![Stack[Len(Stack)]] = result]
    BY DEF Calls!Give, Calls!Callees, Calls!Last, Calls!Front, AwaitedBy, Stack, Outcome
<1>5. (Calls!Begin \/ Calls!Invoke \/ Calls!Give \/ UNCHANGED <<Stack, Outcome>>) => [Calls!Next]_(Calls!cvars)
    BY DEF Calls!Next, Calls!cvars, Stack, Outcome
<1> QED BY <1>1, <1>2, <1>3, <1>4, <1>5

\* A step that keeps the chain and the results is none of a call.
LEMMA NothingCalled ==
    ASSUME TaskInv, TaskInv', NEW s \in Seq(Coroutines), IsChain(s), IsChain(s)', starter' = starter,
           base = "start" <=> base' = "start", \A x \in Coroutines : step'[x] = "final" <=> step[x] = "final",
           result_' = result_
    PROVE  Chained' /\ UNCHANGED <<Stack, Outcome>>
<1>1. Stack = StackOf(s) /\ Stack' = StackOf(s)'
    BY StackIs, StackIsNext
<1>2. StackOf(s)' = StackOf(s)
    BY ChainHasBegun DEF StackOf
<1>3. Outcome' = Outcome
    BY DEF Outcome
<1> QED BY <1>1, <1>2, <1>3 DEF Chained

\* A coroutine that comes to its end gives its outcome to its caller (43-46, 147-152).
LEMMA GivesBack ==
    ASSUME TaskInv, TaskInv', Gave, NEW s \in Seq(Coroutines), IsChain(s), NEW c \in Coroutines, control = c,
           step[c] # "final", ~Onward(c), NEW result \in {"value", "error"}, Ends(c, result),
           UNCHANGED <<starter, base, at, continuation_>>, result = "value" => ~Awaits(c)
    PROVE  CallsInv' /\ Calls!Give
<1>0. Len(s) \in Nat /\ Len(s) > 0 /\ (\A k \in 1 .. Len(s) : s[k] \in Coroutines) /\ starter \in Coroutines /\ s[1] = starter
    BY ChainHasBegun DEF IsChain
<1>1. c = s[Len(s)] /\ base # "start" /\ step[starter] # "final" /\ Stack = s
    BY Innermost
<1>2. /\ step' = [step EXCEPT ![c] = "final"] /\ result_' = [result_ EXCEPT ![c] = result] /\ starter' = starter
      /\ step'[c] = "final" /\ (\A x \in Coroutines : x # c => step'[x] = step[x])
      /\ result_'[c] = result /\ (\A x \in Coroutines : x # c => result_'[x] = result_[x])
    BY DEF Ends, Goto, TaskInv, TaskTypes
<1>3. Chained' /\ Stack' = SubSeq(s, 1, Len(s) - 1)
    <2>1. CASE Len(s) = 1
        <3>1. IsChain(s)' /\ step'[starter] = "final"
            BY <1>0, <1>1, <1>2, <2>1, ChainEnds
        <3>2. Stack' = <<>>
            BY <1>2, <3>1, StackIsNext DEF StackOf
        <3>3. SubSeq(s, 1, Len(s) - 1) = <<>>
            BY <2>1, SubSeqEmpty
        <3> QED BY <3>1, <3>2, <3>3 DEF Chained
    <2>2. CASE Len(s) > 1
        <3>t. PICK t : t = SubSeq(s, 1, Len(s) - 1)
            OBVIOUS
        <3>1. t \in Seq(Coroutines) /\ IsChain(t)'
            BY <1>1, <1>2, <2>2, <3>t, ChainEnds
        <3>2. starter # c
            <4>1. 1 \in 1 .. Len(s) /\ Len(s) \in 1 .. Len(s) /\ 1 # Len(s)
                BY <1>0, <2>2
            <4> QED BY <1>0, <1>1, <4>1 DEF IsChain
        <3>3. step'[starter] # "final" /\ base' # "start"
            BY <1>0, <1>1, <1>2, <3>2
        <3>4. Stack' = t
            BY <1>2, <3>1, <3>3, StackIsNext DEF StackOf
        <3> QED BY <3>t, <3>1, <3>4 DEF Chained
    <2>3. \A m \in Nat : m > 0 => m = 1 \/ m > 1
        OBVIOUS
    <2> QED BY <1>0, <2>1, <2>2, <2>3
<1>4. result_[c] = "empty"
    BY DEF TaskInv, Results
<1>5. Gave'
    <2> SUFFICES ASSUME NEW e \in Coroutines, NEW k \in DOMAIN Body[e], k < at[e], Body[e][k] # "sleep"
                 PROVE  result_'[Body[e][k]] = "value"
        BY DEF Gave
    <2>1. Body[e][k] \in Coroutines /\ result_[Body[e][k]] = "value"
        BY BodyItems DEF Gave
    <2> QED BY <1>2, <1>4, <2>1
<1>6. Outcome' = [Outcome EXCEPT ![c] = result]
    BY <1>2 DEF Outcome
<1>7. result = "value" => \A d \in AwaitedBy(c) : Outcome[d] = "value"
    <2> SUFFICES ASSUME ~Awaits(c), NEW d \in AwaitedBy(c) PROVE Outcome[d] = "value"
        OBVIOUS
    <2>1. PICK k \in DOMAIN Body[c] : d = Body[c][k] /\ d # "sleep"
        BY BodyItems
    <2>2. k < at[c] /\ d \in Coroutines
        BY <2>1, BodyItems DEF Awaits, TaskInv, TaskTypes
    <2>3. result_[d] = "value"
        BY <2>1, <2>2 DEF Gave
    <2> QED BY <2>2, <2>3 DEF Outcome
<1>8. s # <<>>
    <2>1. Len(<<>>) = 0
        BY EmptySeq
    <2> QED BY <1>0, <2>1
<1>9. Calls!Give
    BY <1>1, <1>3, <1>6, <1>7, <1>8, CallsStep
<1> QED BY <1>3, <1>5, <1>9 DEF CallsInv

\* A coroutine that awaits a Task calls it (189-197).
LEMMA AwaitCalls ==
    ASSUME TaskInv, TaskInv', Gave, NEW s \in Seq(Coroutines), IsChain(s), NEW c \in Coroutines, Await(c)
    PROVE  CallsInv' /\ Calls!Invoke
<1>d. PICK d : d = Operand(c)
    OBVIOUS
<1>t. PICK t : t = Append(s, d)
    OBVIOUS
<1>0. Len(s) \in Nat /\ Len(s) > 0 /\ starter \in Coroutines
    BY ChainHasBegun
<1>1. d \in Coroutines /\ step[d] = "body" /\ t \in Seq(Coroutines) /\ IsChain(t)'
    BY <1>d, <1>t, ChainAwaits
<1>2. control = c /\ step[c] = "body" /\ at[c] \in DOMAIN Body[c] /\ d = Body[c][at[c]] /\ d # "sleep"
    BY <1>d, BodyItems DEF Await, Runs, Awaits, Operand, TaskInv, TaskTypes
<1>3. c = s[Len(s)] /\ base # "start" /\ step[starter] # "final" /\ Stack = s
    BY <1>2, Innermost DEF Onward
<1>4. starter' = starter /\ base' = base /\ result_' = result_ /\ at' = at /\ step' = [step EXCEPT ![c] = "resumed"]
    BY DEF Await, Goto
<1>5. Stack' = t
    <2>1. step'[starter] # "final"
        BY <1>0, <1>3, <1>4 DEF TaskInv, TaskTypes
    <2> QED BY <1>1, <1>3, <1>4, <2>1, StackIsNext DEF StackOf
<1>6. Outcome' = Outcome /\ Outcome[d] = "none"
    BY <1>1, <1>4 DEF Outcome, TaskInv, TaskTypes, Results
<1>7. ASSUME NEW j \in 1 .. at[c] - 1, Body[c][j] # "sleep" PROVE Outcome[Body[c][j]] = "value"
    <2>1. j \in DOMAIN Body[c] /\ j < at[c]
        BY <1>2, BodyItems
    <2>2. Body[c][j] \in Coroutines /\ result_[Body[c][j]] = "value"
        BY <1>7, <2>1, BodyItems DEF Gave
    <2> QED BY <2>2 DEF Outcome
<1>8. s # <<>>
    <2>1. Len(<<>>) = 0
        BY EmptySeq
    <2> QED BY <1>0, <2>1
<1>9. Calls!Invoke
    BY <1>t, <1>2, <1>3, <1>5, <1>6, <1>7, <1>8, CallsStep
<1>10. Gave'
    BY <1>4 DEF Gave
<1> QED BY <1>1, <1>9, <1>10 DEF CallsInv, Chained

\* The caller begins with a starter (283, 383).
LEMMA StartCalls ==
    ASSUME TaskInv, TaskInv', Gave, NEW s \in Seq(Coroutines), IsChain(s), Start
    PROVE  CallsInv' /\ Calls!Begin
<1>0. Len(s) \in Nat /\ Len(s) > 0 /\ starter \in Coroutines /\ starter \in Starters /\ s[1] = starter
    BY ChainHasBegun DEF TaskInv, TaskTypes, IsChain
<1>1. /\ base = "start" /\ base' = "resume" /\ UNCHANGED <<starter, step, at, result_, continuation_>>
    BY DEF Start
<1>2. \A c \in Coroutines : step[c] = "body" /\ result_[c] = "empty"
    BY <1>1 DEF TaskInv, Unborn, NotBegun, Results
<1>3. IsChain(s)'
    BY <1>1, ChainStays DEF Onward, Operand
<1>4. Len(s) = 1
    <2>1. CASE Len(s) # 1
        <3>0. \A m \in Nat : m > 0 /\ m # 1 => 1 \in 1 .. m - 1
            OBVIOUS
        <3>1. 1 \in 1 .. Len(s) - 1
            BY <1>0, <2>1, <3>0
        <3>2. Onward(starter)
            BY <3>1 DEF IsChain
        <3> QED BY <1>0, <1>2, <3>2 DEF Onward
    <2> QED BY <2>1
<1>5. s = <<starter>>
    BY <1>0, <1>4
<1>6. Stack = <<>> /\ Stack' = s
    BY <1>0, <1>1, <1>2, <1>3, StackIs, StackIsNext DEF StackOf
<1>7. Outcome' = Outcome /\ \A c \in Coroutines : Outcome[c] = "none"
    BY <1>1, <1>2 DEF Outcome
<1>8. Calls!Begin
    BY <1>0, <1>5, <1>6, <1>7, CallsStep
<1>9. Gave'
    BY <1>1 DEF Gave
<1> QED BY <1>3, <1>8, <1>9 DEF CallsInv, Chained

\* A coroutine goes past a co_await that gave a value, or sleeps.
LEMMA StaysInCall ==
    ASSUME TaskInv, TaskInv', Gave, NEW s \in Seq(Coroutines), IsChain(s), NEW c \in Coroutines,
           step[c] # "final", ~Onward(c), UNCHANGED <<starter, base, result_, continuation_>>,
           \A x \in Coroutines : x # c => step'[x] = step[x] /\ at'[x] = at[x],
           step'[c] \in {"body", "slept"},
           at'[c] # at[c] => /\ at'[c] = at[c] + 1
                             /\ at[c] \in DOMAIN Body[c] /\ (Operand(c) = "sleep" \/ result_[Operand(c)] = "value")
    PROVE  CallsInv' /\ UNCHANGED <<Stack, Outcome>>
<1>1. ASSUME NEW x \in Coroutines PROVE step'[x] = "final" <=> step[x] = "final"
    <2>1. CASE x = c
        BY <2>1
    <2>2. CASE x # c
        BY <2>2
    <2> QED BY <2>1, <2>2
<1>2. \A x \in Coroutines : Onward(x) => step'[x] = "resumed" /\ at'[x] = at[x]
    BY DEF Onward
<1>3. ASSUME NEW x \in Coroutines, ~Onward(x) PROVE ~(Onward(x)')
    <2>1. CASE x = c
        BY <2>1 DEF Onward
    <2>2. CASE x # c /\ step[x] = "resumed"
        <3>1. Operand(x) \in Coroutines /\ Operand(x)' = Operand(x) /\ step[Operand(x)] = "final"
            BY <1>3, <2>2, BodyItems DEF Onward, Operand, TaskInv, Results
        <3>2. step'[Operand(x)] = "final"
            BY <1>1, <3>1
        <3> QED BY <3>1, <3>2 DEF Onward
    <2>3. CASE x # c /\ step[x] # "resumed"
        BY <2>3 DEF Onward
    <2> QED BY <2>1, <2>2, <2>3
<1>4. IsChain(s)'
    BY <1>1, <1>2, <1>3, ChainStays
<1>5. Chained' /\ UNCHANGED <<Stack, Outcome>>
    BY <1>1, <1>4, NothingCalled
<1>6. ASSUME NEW e \in Coroutines, NEW k \in DOMAIN Body[e], k < at'[e], Body[e][k] # "sleep"
      PROVE  result_'[Body[e][k]] = "value"
    <2>1. CASE k < at[e]
        BY <1>6, <2>1 DEF Gave
    <2>2. CASE ~(k < at[e])
        <3>1. e = c /\ at'[c] = at[c] + 1 /\ (Operand(c) = "sleep" \/ result_[Operand(c)] = "value")
            BY <1>6, <2>2
        <3>2. k = at[c]
            <4>1. k \in Nat /\ at[c] \in Nat
                BY <1>6, BodyItems DEF TaskInv, TaskTypes
            <4>2. ~(k < at[c]) /\ k < at[c] + 1
                BY <1>6, <2>2, <3>1
            <4>3. \A x, y \in Nat : ~(x < y) /\ x < y + 1 => x = y
                OBVIOUS
            <4> QED BY <4>1, <4>2, <4>3
        <3> QED BY <1>6, <3>1, <3>2 DEF Operand
    <2> QED BY <2>1, <2>2
<1>7. Gave'
    BY <1>6 DEF Gave
<1> QED BY <1>5, <1>7 DEF CallsInv

\* The other steps move no coroutine in its body.
LEMMA KeepsCalls ==
    ASSUME TaskInv, TaskInv', Gave, NEW s \in Seq(Coroutines), IsChain(s),
           UNCHANGED <<starter, step, at, result_, continuation_>>, base = "start" <=> base' = "start"
    PROVE  CallsInv' /\ UNCHANGED <<Stack, Outcome>>
<1>1. IsChain(s)'
    BY ChainStays DEF Onward, Operand
<1>2. Chained' /\ UNCHANGED <<Stack, Outcome>>
    BY <1>1, NothingCalled
<1>3. Gave'
    BY DEF Gave
<1> QED BY <1>2, <1>3 DEF CallsInv

\* At first nothing is called.
LEMMA CallsInitially == Init => CallsInv /\ Calls!Init
<1> SUFFICES ASSUME Init PROVE CallsInv /\ Calls!Init
    OBVIOUS
<1>0. starter \in Coroutines /\ "none" \notin Coroutines
    BY StarterBody, TaskAssumption DEF Init
<1>1. Gave
    <2>1. ASSUME NEW c \in Coroutines, NEW k \in DOMAIN Body[c] PROVE ~(k < at[c])
        BY BodyItems DEF Init
    <2> QED BY <2>1 DEF Gave
<1>2. IsChain(<<starter>>)
    <2>1. \A c \in Coroutines : ~Onward(c) /\ (Begun(c) => c = starter)
        BY <1>0 DEF Init, Onward, Begun
    <2>2. Len(<<starter>>) = 1 /\ <<starter>>[1] = starter /\ 1 \in 1 .. 1 /\ (\A k \in 1 .. 1 : k = 1) /\ \A k \in 1 .. 1 - 1 : FALSE
        OBVIOUS
    <2> QED BY <1>0, <2>1, <2>2 DEF IsChain
<1>3. Chained
    <2>1. <<starter>> \in Seq(Coroutines)
        BY <1>0
    <2> QED BY <1>2, <2>1 DEF Chained
<1>4. Stack = <<>>
    BY <1>0 DEF Init, Stack, UnderWay
<1>5. Outcome = [c \in Coroutines |-> "none"]
    BY DEF Init, Outcome
<1> QED BY <1>1, <1>3, <1>4, <1>5, CallsStep DEF CallsInv

\* Each step of a Task is a step of StructuredCalls, or none.
LEMMA StepCalls == TaskInv /\ TaskInv' /\ CallsInv /\ [Next]_vars => CallsInv' /\ [Calls!Next]_(Calls!cvars)
<1> SUFFICES ASSUME TaskInv, TaskInv', CallsInv, [Next]_vars PROVE CallsInv' /\ [Calls!Next]_(Calls!cvars)
    OBVIOUS
<1>s. PICK s \in Seq(Coroutines) : IsChain(s)
    BY DEF CallsInv, Chained
<1>g. Gave
    BY DEF CallsInv
<1>k. ASSUME UNCHANGED <<starter, step, at, result_, continuation_>>, base = "start" <=> base' = "start"
      PROVE  CallsInv' /\ [Calls!Next]_(Calls!cvars)
    BY <1>s, <1>g, <1>k, KeepsCalls, CallsStep
<1>o. ASSUME NEW c \in Coroutines, step[c] # "final", ~Onward(c), UNCHANGED <<starter, base, result_, continuation_>>,
             \A x \in Coroutines : x # c => step'[x] = step[x] /\ at'[x] = at[x],
             step'[c] \in {"body", "slept"},
             at'[c] # at[c] => /\ at'[c] = at[c] + 1
                               /\ at[c] \in DOMAIN Body[c] /\ (Operand(c) = "sleep" \/ result_[Operand(c)] = "value")
      PROVE  CallsInv' /\ [Calls!Next]_(Calls!cvars)
    <2>1. CallsInv' /\ UNCHANGED <<Stack, Outcome>>
        BY <1>s, <1>g, <1>o, StaysInCall
    <2> QED BY <2>1, CallsStep
<1>1. ASSUME NEW c \in Coroutines, coroutine(c) PROVE CallsInv' /\ [Calls!Next]_(Calls!cvars)
    <2>1. CASE Call(c) \/ FinalSuspend(c) \/ Expire(c)
        BY <1>k, <2>1 DEF Call, FinalSuspend, Expire
    <2>2. CASE Await(c)
        BY <1>s, <1>g, <2>2, AwaitCalls, CallsStep
    <2>3. CASE AwaitResume(c)
        <3>1. /\ control = c /\ step[c] = "resumed" /\ ~Onward(c) /\ at[c] \in DOMAIN Body[c]
              /\ UNCHANGED <<starter, base, continuation_>>
            BY <2>3 DEF AwaitResume, Runs, Onward, TaskInv, Handles, Results
        <3>2. CASE result_[Operand(c)] = "value" /\ Past(c) /\ Goto(c, "body") /\ UNCHANGED <<frame, result_>>
            <4>1. /\ step'[c] = "body" /\ at'[c] = at[c] + 1
                  /\ \A x \in Coroutines : x # c => step'[x] = step[x] /\ at'[x] = at[x]
                BY <3>2 DEF Past, Goto, TaskInv, TaskTypes
            <4> QED BY <1>o, <3>1, <3>2, <4>1
        <3>3. CASE Ends(c, "error") /\ UNCHANGED at
            BY <1>s, <1>g, <3>1, <3>3, GivesBack, CallsStep
        <3> QED BY <2>3, <3>2, <3>3 DEF AwaitResume
    <2>4. CASE Return(c)
        <3>1. control = c /\ step[c] = "body" /\ ~Awaits(c) /\ Ends(c, "value") /\ UNCHANGED <<starter, base, at, continuation_>>
            BY <2>4 DEF Return, Runs
        <3> QED BY <1>s, <1>g, <3>1, GivesBack, CallsStep DEF Onward
    <2>5. CASE Throw(c)
        <3>1. control = c /\ step[c] = "body" /\ Ends(c, "error") /\ UNCHANGED <<starter, base, at, continuation_>>
            BY <2>5 DEF Throw, Runs
        <3> QED BY <1>s, <1>g, <3>1, GivesBack, CallsStep DEF Onward
    <2>6. CASE SleepReady(c)
        <3>1. /\ step[c] = "body" /\ at[c] \in DOMAIN Body[c] /\ Operand(c) = "sleep" /\ Past(c) /\ step' = step
              /\ UNCHANGED <<starter, base, result_, continuation_>>
            BY <2>6, BodyItems DEF SleepReady, Runs, Awaits, TaskInv, TaskTypes
        <3>2. at'[c] = at[c] + 1 /\ \A x \in Coroutines : x # c => step'[x] = step[x] /\ at'[x] = at[x]
            BY <3>1 DEF Past, TaskInv, TaskTypes
        <3>3. ~Onward(c)
            BY <3>1 DEF Onward
        <3> QED BY <1>o, <3>1, <3>2, <3>3
    <2>7. CASE Sleep(c)
        <3>1. step[c] = "body" /\ Goto(c, "slept") /\ at' = at /\ UNCHANGED <<starter, base, result_, continuation_>>
            BY <2>7 DEF Sleep, Runs
        <3>2. step'[c] = "slept" /\ \A x \in Coroutines : x # c => step'[x] = step[x] /\ at'[x] = at[x]
            BY <3>1 DEF Goto, TaskInv, TaskTypes
        <3>3. ~Onward(c)
            BY <3>1 DEF Onward
        <3> QED BY <1>o, <3>1, <3>2, <3>3
    <2>8. CASE SleepResume(c)
        <3>1. control = c /\ step[c] = "slept" /\ UNCHANGED <<starter, base, continuation_>>
            BY <2>8 DEF SleepResume, Runs
        <3>2. at[c] \in DOMAIN Body[c] /\ Operand(c) = "sleep"
            BY <3>1, BodyItems DEF TaskInv, Results, Bodies, Awaited, Operand
        <3>3. CASE Past(c) /\ Goto(c, "body") /\ UNCHANGED <<frame, result_>>
            <4>1. /\ step'[c] = "body" /\ at'[c] = at[c] + 1
                  /\ \A x \in Coroutines : x # c => step'[x] = step[x] /\ at'[x] = at[x]
                BY <3>3 DEF Past, Goto, TaskInv, TaskTypes
            <4>2. ~Onward(c)
                BY <3>1 DEF Onward
            <4> QED BY <1>o, <3>1, <3>2, <3>3, <4>1, <4>2
        <3>4. CASE Ends(c, "error") /\ UNCHANGED at
            BY <1>s, <1>g, <3>1, <3>4, GivesBack, CallsStep DEF Onward
        <3> QED BY <2>8, <3>3, <3>4 DEF SleepResume
    <2> QED BY <1>1, <2>1, <2>2, <2>3, <2>4, <2>5, <2>6, <2>7, <2>8 DEF coroutine
<1>2. CASE caller
    <2>1. CASE Start
        BY <1>s, <1>g, <2>1, StartCalls, CallsStep
    <2>2. CASE Signal \/ Resumed \/ Acquire \/ RunReturns
        BY <1>k, <2>2 DEF Signal, Resumed, Acquire, RunReturns
    <2>3. CASE Vanish
        <3>1. control = "Detached" /\ "Detached" # "base"
            BY <2>3, TaskAssumption DEF Vanish, Runs, Starters
        <3>2. base # "start"
            BY <3>1 DEF TaskInv, Ending
        <3> QED BY <1>k, <2>3, <3>2 DEF Vanish
    <2> QED BY <1>2, <2>1, <2>2, <2>3 DEF caller
<1>3. CASE UNCHANGED vars
    BY <1>k, <1>3 DEF vars
<1> QED BY <1>1, <1>2, <1>3 DEF Next, Ended

\* Coroutines that await each other, suspended and resumed in whatever order
\* timers take, are called and return, each once, as ordinary calls would.
THEOREM TasksImplementCalls == ExamplesSpec => ImplementsCalls
<1>1. ExamplesInit => CallsInv /\ Calls!Init
    BY CallsInitially DEF ExamplesInit
<1>2. TaskInv /\ TaskInv' /\ CallsInv /\ [ExamplesNext]_examplesVars => CallsInv' /\ [Calls!Next]_(Calls!cvars)
    <2>1. [ExamplesNext]_examplesVars => [Next]_vars
        BY DEF ExamplesNext, InTasks, InTcp, InOwner, examplesVars
    <2> QED BY <2>1, StepCalls
<1> QED BY <1>1, <1>2, TasksInvariant, PTL DEF ExamplesSpec, ImplementsCalls, Calls!Spec

-----------------------------------------------------------------------------
(* The bytes of a number (268-277).                                          *)
Abs(a) == IF a >= 0 THEN a ELSE -a
FirstByte(a) == Byte(Byte(a - 128 * Quotient(a, 128)) + Cont(Quotient(a, 128)))
Encoding(f, a) == <<FirstByte(a)>> \o IF Quotient(a, 128) = 0 THEN <<>> ELSE f[Quotient(a, 128)]
Encodes(f, k) == \A a \in Int : Abs(a) <= k => f[a] = Encoding(f, a)
ToBytes == [Int -> Seq(0 .. 255)]

\* Division by 128 leads towards 0.
LEMMA QuotientShrinks ==
    ASSUME NEW a \in Int
    PROVE  /\ Quotient(a, 128) \in Int /\ Abs(Quotient(a, 128)) <= Abs(a)
           /\ a # 0 => Abs(Quotient(a, 128)) < Abs(a)
           /\ a = 0 => Quotient(a, 128) = 0
           /\ Abs(a) \in Nat /\ Abs(Quotient(a, 128)) \in Nat
BY DEF Quotient, Abs

\* A byte is a byte.
LEMMA FirstByteType == ASSUME NEW a \in Int PROVE FirstByte(a) \in 0 .. 255
<1>1. \A x \in Int : Byte(x) \in 0 .. 255
    BY DEF Byte
<1>2. Cont(Quotient(a, 128)) \in Int /\ a - 128 * Quotient(a, 128) \in Int
    BY QuotientShrinks DEF Cont
<1>3. Byte(a - 128 * Quotient(a, 128)) \in Int
    BY <1>1, <1>2
<1>4. Byte(a - 128 * Quotient(a, 128)) + Cont(Quotient(a, 128)) \in Int
    BY <1>2, <1>3
<1> QED BY <1>1, <1>4 DEF FirstByte

\* So are the bytes of a number's encoding.
LEMMA EncodingType ==
    ASSUME NEW f \in ToBytes, NEW a \in Int
    PROVE  Encoding(f, a) \in Seq(0 .. 255)
<1>1. <<FirstByte(a)>> \in Seq(0 .. 255)
    BY FirstByteType
<1>2. f[Quotient(a, 128)] \in Seq(0 .. 255) /\ <<>> \in Seq(0 .. 255)
    BY QuotientShrinks DEF ToBytes
<1> QED BY <1>1, <1>2, ConcatProperties DEF Encoding

\* An encoding depends only on that of a smaller number.
LEMMA EncodingOfSmaller ==
    ASSUME NEW f, NEW g, NEW a \in Int, Quotient(a, 128) # 0 => f[Quotient(a, 128)] = g[Quotient(a, 128)]
    PROVE  Encoding(f, a) = Encoding(g, a)
BY DEF Encoding

\* For numbers up to any bound the recursive definition has a solution.
LEMMA EncodesUpTo == \A k \in Nat : \E f \in ToBytes : Encodes(f, k)
<1> DEFINE S == {k \in Nat : \E f \in ToBytes : Encodes(f, k)}
<1>1. 0 \in S
    <2> DEFINE f == [a \in Int |-> <<FirstByte(a)>>]
    <2>1. f \in ToBytes
        BY FirstByteType DEF ToBytes
    <2>2. ASSUME NEW a \in Int, Abs(a) <= 0 PROVE f[a] = Encoding(f, a)
        <3>1. a = 0
            BY <2>2 DEF Abs
        <3>2. Quotient(a, 128) = 0
            BY <3>1, QuotientShrinks
        <3>3. <<FirstByte(a)>> \o <<>> = <<FirstByte(a)>>
            BY FirstByteType, ConcatEmptySeq
        <3> QED BY <3>2, <3>3 DEF Encoding
    <2> HIDE DEF f
    <2>3. Encodes(f, 0)
        BY <2>2 DEF Encodes
    <2> QED BY <2>1, <2>3
<1>2. ASSUME NEW k \in S PROVE k + 1 \in S
    <2>1. PICK f \in ToBytes : Encodes(f, k)
        OBVIOUS
    <2>2. k \in Nat /\ f \in ToBytes
        BY <2>1
    <2> DEFINE g == [a \in Int |-> IF Abs(a) <= k THEN f[a] ELSE Encoding(f, a)]
    <2>3. g \in ToBytes
        BY <2>2, EncodingType DEF ToBytes
    <2>4. ASSUME NEW a \in Int, Abs(a) <= k PROVE g[a] = f[a]
        BY <2>4
    <2>5. ASSUME NEW a \in Int, Abs(a) <= k + 1 PROVE g[a] = Encoding(g, a)
        <3>1. Quotient(a, 128) # 0 => Abs(Quotient(a, 128)) <= k
            <4>1. Quotient(a, 128) # 0 => Abs(Quotient(a, 128)) < Abs(a)
                BY QuotientShrinks
            <4>2. Abs(a) \in Nat /\ Abs(Quotient(a, 128)) \in Nat
                BY QuotientShrinks
            <4> QED BY <2>2, <2>5, <4>1, <4>2
        <3>2. Quotient(a, 128) # 0 => g[Quotient(a, 128)] = f[Quotient(a, 128)]
            BY <2>4, <3>1, QuotientShrinks
        <3>3. g[a] = Encoding(f, a)
            <4>1. CASE Abs(a) <= k
                BY <2>1, <2>4, <4>1 DEF Encodes
            <4>2. CASE ~(Abs(a) <= k)
                BY <4>2
            <4> QED BY <4>1, <4>2
        <3> HIDE DEF g
        <3> QED BY <3>2, <3>3, EncodingOfSmaller
    <2> HIDE DEF g
    <2>6. Encodes(g, k + 1)
        BY <2>5 DEF Encodes
    <2> QED BY <2>2, <2>3, <2>6
<1>3. S = Nat
    <2> HIDE DEF S
    <2>1. S \in SUBSET Nat
        BY DEF S
    <2> QED BY <1>1, <1>2, <2>1, Induct
<1> QED BY <1>3

\* And only one.
LEMMA EncodesOnce ==
    ASSUME NEW k \in Nat, NEW f, NEW g, Encodes(f, k), Encodes(g, k)
    PROVE  \A a \in Int : Abs(a) <= k => f[a] = g[a]
<1> DEFINE T == {j \in Nat : \A a \in Int : Abs(a) <= j /\ Abs(a) <= k => f[a] = g[a]}
<1>1. ASSUME NEW a \in Int, Abs(a) <= k,
             Quotient(a, 128) # 0 => f[Quotient(a, 128)] = g[Quotient(a, 128)]
      PROVE  f[a] = g[a]
    BY <1>1, EncodingOfSmaller DEF Encodes
<1>2. 0 \in T
    <2> SUFFICES ASSUME NEW a \in Int, Abs(a) <= 0, Abs(a) <= k PROVE f[a] = g[a]
        OBVIOUS
    <2>1. a = 0
        BY DEF Abs
    <2> QED BY <1>1, <2>1, QuotientShrinks
<1>3. ASSUME NEW j \in T PROVE j + 1 \in T
    <2> SUFFICES ASSUME NEW a \in Int, Abs(a) <= j + 1, Abs(a) <= k PROVE f[a] = g[a]
        OBVIOUS
    <2>1. Quotient(a, 128) \in Int /\ Abs(Quotient(a, 128)) <= k
        BY QuotientShrinks
    <2>2. Quotient(a, 128) # 0 => Abs(Quotient(a, 128)) <= j
        BY QuotientShrinks
    <2>3. Quotient(a, 128) # 0 => f[Quotient(a, 128)] = g[Quotient(a, 128)]
        BY <2>1, <2>2
    <2> HIDE DEF T
    <2> QED BY <1>1, <2>3
<1>4. T = Nat
    <2> HIDE DEF T
    <2>1. T \in SUBSET Nat
        BY DEF T
    <2> QED BY <1>2, <1>3, <2>1, Induct
<1>5. k \in T
    BY <1>4
<1> QED BY <1>5

\* So the recursive definition has a solution for every number.
LEMMA EncodingExists ==
    \E f \in ToBytes : f = [a \in Int |-> Encoding(f, a)]
<1> DEFINE G(k) == CHOOSE f \in ToBytes : Encodes(f, k)
<1>1. ASSUME NEW k \in Nat PROVE G(k) \in ToBytes /\ Encodes(G(k), k)
    BY EncodesUpTo
<1> HIDE DEF G
<1> DEFINE F == [a \in Int |-> G(Abs(a))[a]]
<1>2. ASSUME NEW a \in Int PROVE Abs(a) \in Nat /\ G(Abs(a)) \in ToBytes
    BY <1>1, QuotientShrinks
<1>3. F \in ToBytes
    BY <1>2 DEF ToBytes
<1>4. ASSUME NEW a \in Int PROVE F[a] = Encoding(F, a)
    <2>1. F[a] = Encoding(G(Abs(a)), a)
        <3>1. Encodes(G(Abs(a)), Abs(a)) /\ Abs(a) <= Abs(a)
            BY <1>1, <1>2
        <3> QED BY <3>1 DEF Encodes
    <2> DEFINE q == Quotient(a, 128)
    <2>2. q \in Int /\ Abs(q) \in Nat /\ Abs(q) <= Abs(a)
        BY QuotientShrinks
    <2>3. Encodes(G(Abs(a)), Abs(q)) /\ Encodes(G(Abs(q)), Abs(q))
        <3>1. Encodes(G(Abs(a)), Abs(a)) /\ Encodes(G(Abs(q)), Abs(q))
            BY <1>1, <1>2, <2>2
        <3>2. \A b \in Int : Abs(b) \in Nat /\ (Abs(b) <= Abs(q) => Abs(b) <= Abs(a))
            <4> TAKE b \in Int
            <4>1. Abs(b) \in Nat
                BY <1>2
            <4>2. Abs(a) \in Nat
                BY <1>2
            <4> HIDE DEF q
            <4> QED BY <2>2, <4>1, <4>2
        <3> HIDE DEF q
        <3> QED BY <3>1, <3>2 DEF Encodes
    <2>4. G(Abs(a))[q] = G(Abs(q))[q]
        BY <2>2, <2>3, EncodesOnce
    <2>5. F[q] = G(Abs(a))[q]
        BY <2>2, <2>4
    <2> HIDE DEF F
    <2> QED BY <2>1, <2>5, EncodingOfSmaller
<1>5. F = [a \in Int |-> Encoding(F, a)]
    <2> HIDE DEF F
    <2> QED BY <1>3, <1>4 DEF ToBytes
<1> HIDE DEF F
<1> QED BY <1>3, <1>5

\* variable_encode_num is what its recursive definition says.
LEMMA EncodeDef ==
    /\ variable_encode_num \in ToBytes
    /\ \A a \in Int : variable_encode_num[a] = Encoding(variable_encode_num, a)
<1>1. PICK f \in ToBytes : f = [a \in Int |-> Encoding(f, a)]
    BY EncodingExists
<1>2. variable_encode_num = CHOOSE g : g = [a \in Int |-> Encoding(g, a)]
    BY DEF variable_encode_num, Encoding, FirstByte
<1>3. variable_encode_num = [a \in Int |-> Encoding(variable_encode_num, a)]
    BY <1>1, <1>2
<1>4. \A a \in Int : variable_encode_num[a] = Encoding(variable_encode_num, a)
    BY <1>3
<1>5. ASSUME NEW a \in Int PROVE variable_encode_num[a] = f[a]
    <2>1. Encodes(variable_encode_num, Abs(a))
        BY <1>4 DEF Encodes
    <2>2. Encodes(f, Abs(a))
        <3>1. \A b \in Int : f[b] = Encoding(f, b)
            BY <1>1
        <3> QED BY <3>1 DEF Encodes
    <2>3. Abs(a) \in Nat /\ Abs(a) <= Abs(a)
        BY QuotientShrinks
    <2> QED BY <2>1, <2>2, <2>3, EncodesOnce
<1>6. variable_encode_num = f
    BY <1>1, <1>3, <1>5 DEF ToBytes
<1> QED BY <1>1, <1>4, <1>6
-----------------------------------------------------------------------------
(* The pipelines: the types, and whose turn it is.                           *)
Chains == {Examples.includes, Examples.lin_space, Examples.decoded, Examples.write, Examples.read}
Phases ==
    /\ chain = Examples.includes => phase \in {"includes", "sum", "summing", "over"}
    /\ chain = Examples.lin_space => phase \in {"lin_space", "over"}
    /\ chain = Examples.decoded => phase \in {"decoded", "over"}
    /\ chain = Examples.write => phase = "write"
    /\ chain = Examples.read => phase \in {"read", "over"}
PipelineTypes ==
    /\ chain \in Chains /\ Phases
    /\ chain = Examples.lin_space => ids \in Int \X Int \X (Nat \ {1})
    /\ chain # Examples.lin_space => ids \in Seq(Int)
    /\ source \in Seq(Int)
    /\ active \in 1 .. Top + 1
    /\ frames \in [1 .. Top -> {"suspended", "running", "done"}]
    /\ value_ \in [1 .. Top -> Int] /\ unread \in [1 .. Top -> BOOLEAN]
    /\ n \in [1 .. Top -> Int] /\ weight \in [1 .. Top -> Nat \ {0}]
    /\ yields \in [1 .. Top -> Seq(Int)]
    /\ first2 \in Nat \ {0} /\ (phase = "includes" => first2 \in DOMAIN Wanted)
    /\ output \in Seq(Int) /\ file \in Seq(0 .. 255)

\* Those above the one that runs are in the middle of a resume() and have
\* nothing left to yield; what is done has nothing left at all.
Turns ==
    /\ \A i \in 1 .. Top : frames[i] = "running" <=> i >= active
    /\ \A i \in 1 .. Top : frames[i] = "running" => ~unread[i]
    /\ \A i \in 1 .. Top : i > active => yields[i] = <<>>
    /\ \A i \in 1 .. Top : frames[i] = "done" => yields[i] = <<>> /\ ~unread[i]
    /\ chain # Examples.includes => \A i \in 2 .. Top : frames[i] = "done" => frames[i - 1] = "done"
    /\ frames[1] = "done" => source = <<>>
    /\ phase = "over" => frames[Top] = "done"
\* The second loop over a generator does not find it done (368).
GoesOn == phase = "sum" => frames[Top] # "done"

\* The stages of the five pipelines.
LEMMA Stages ==
    /\ Examples.includes = <<"seq", "take_until", "add">>
    /\ Examples.lin_space = <<"lin_space_coroutine">>
    /\ Examples.decoded = <<"gap_encode", "gap_decode">>
    /\ Examples.write = <<"gap_encode", "variable_encode", "compress">>
    /\ Examples.read = <<"read", "variable_decode", "gap_decode", "decompress">>
    /\ \A p \in {"includes", "lin_space", "decoded", "write", "read"} :
          /\ Examples[p] = CASE p = "includes" -> Examples.includes [] p = "lin_space" -> Examples.lin_space
               [] p = "decoded" -> Examples.decoded [] p = "write" -> Examples.write [] OTHER -> Examples.read
BY DEF Examples

\* They are five different ones, of up to four generators.
LEMMA FiveChains ==
    /\ Len(Examples.includes) = 3 /\ Len(Examples.lin_space) = 1 /\ Len(Examples.decoded) = 2
    /\ Len(Examples.write) = 3 /\ Len(Examples.read) = 4
    /\ Examples.includes # Examples.write
<1>1. Examples.includes[1] # Examples.write[1]
    BY Stages
<1> QED BY Stages, <1>1

\* Only the first of them draws from a range or counts; one stops at a value.
LEMMA FirstStage ==
    ASSUME NEW c \in Chains
    PROVE  /\ Len(c) \in 1 .. 4 /\ DOMAIN c = 1 .. Len(c)
           /\ \A i \in 1 .. Len(c) :
                 /\ c[i] \in {"gap_encode", "read", "lin_space_coroutine"} => i = 1
                 /\ c[i] = "seq" => i = 1 /\ c = Examples.includes
                 /\ c[i] = "take_until" => c = Examples.includes /\ i = 2
                 /\ c[i] = "lin_space_coroutine" => c = Examples.lin_space
<1>1. CASE c = Examples.includes
    BY Stages, <1>1
<1>2. CASE c = Examples.lin_space
    BY Stages, <1>2
<1>3. CASE c = Examples.decoded
    BY Stages, <1>3
<1>4. CASE c = Examples.write
    BY Stages, <1>4
<1>5. CASE c = Examples.read
    BY Stages, <1>5
<1> QED BY <1>1, <1>2, <1>3, <1>4, <1>5 DEF Chains

\* What a body does with a number has the right types.
LEMMA DoesTypes ==
    ASSUME NEW stage, NEW v \in Int, NEW m \in Int, NEW w \in Nat \ {0},
           stage = "lin_space_coroutine" => ids \in Int \X Int \X (Nat \ {1})
    PROVE  /\ Does(stage, v, m, w).out \in Seq(Int) /\ Does(stage, v, m, w).n \in Int
           /\ Does(stage, v, m, w).weight \in Nat \ {0}
<1> DEFINE Typed(e) == e.out \in Seq(Int) /\ e.n \in Int /\ e.weight \in Nat \ {0}
<1>0. \A out \in Seq(Int), k \in Int, l \in Nat \ {0} : Typed(Effect(out, k, l))
    BY DEF Effect
<1>a. \A x \in Int : <<x>> \in Seq(Int)
    OBVIOUS
<1>b. <<>> \in Seq(Int)
    OBVIOUS
<1> SUFFICES Typed(Does(stage, v, m, w))
    OBVIOUS
<1> HIDE DEF Typed
<1>1. CASE stage = "add"
    <2>1. v + Adder \in Int
        BY GeneratorsAssumption
    <2>2. Does(stage, v, m, w) = Effect(<<v + Adder>>, m, w)
        BY <1>1 DEF Does
    <2> QED BY <1>0, <1>a, <2>1, <2>2
<1>2. CASE stage = "gap_encode"
    <2>1. v - m \in Int
        OBVIOUS
    <2>2. Does(stage, v, m, w) = Effect(<<v - m>>, v, w)
        BY <1>2 DEF Does
    <2> QED BY <1>0, <1>a, <2>1, <2>2
<1>3. CASE stage = "gap_decode"
    <2>1. v + m \in Int
        OBVIOUS
    <2>2. Does(stage, v, m, w) = Effect(<<v + m>>, v + m, w)
        BY <1>3 DEF Does
    <2> QED BY <1>0, <1>a, <2>1, <2>2
<1>4. CASE stage = "variable_encode"
    <2>1. variable_encode_num[v] \in Seq(Int)
        <3>1. variable_encode_num[v] \in Seq(0 .. 255)
            BY EncodeDef DEF ToBytes
        <3>2. 0 .. 255 \subseteq Int
            OBVIOUS
        <3> QED BY <3>1, <3>2, SeqMonotonic
    <2>2. Does(stage, v, m, w) = Effect(variable_encode_num[v], m, w)
        BY <1>4 DEF Does
    <2> QED BY <1>0, <2>1, <2>2
<1>5. CASE stage = "variable_decode"
    <2>1. v * w \in Int /\ (v - 128) * w \in Int /\ w * 128 \in Nat \ {0}
        OBVIOUS
    <2>2. Does(stage, v, m, w) = IF v < 128 THEN Effect(<<>>, m + (v * w), w * 128) ELSE Effect(<<m + ((v - 128) * w)>>, 0, 1)
        BY <1>5 DEF Does, VariableDecode
    <2>3. m + (v * w) \in Int /\ m + ((v - 128) * w) \in Int
        BY <2>1
    <2>4. CASE v < 128
        <3>1. Does(stage, v, m, w) = Effect(<<>>, m + (v * w), w * 128)
            BY <2>2, <2>4
        <3> QED BY <1>0, <1>b, <2>1, <2>3, <3>1
    <2>5. CASE ~(v < 128)
        <3>1. Does(stage, v, m, w) = Effect(<<m + ((v - 128) * w)>>, 0, 1)
            BY <2>2, <2>5
        <3> DEFINE x == m + ((v - 128) * w)
        <3>2. 1 \in Nat \ {0} /\ 0 \in Int
            OBVIOUS
        <3>3. x \in Int /\ Does(stage, v, m, w) = Effect(<<x>>, 0, 1)
            BY <2>3, <3>1
        <3> HIDE DEF x
        <3>4. <<x>> \in Seq(Int)
            BY <1>a, <3>3
        <3>5. Typed(Effect(<<x>>, 0, 1))
            BY <1>0, <3>2, <3>4
        <3> QED BY <3>3, <3>5
    <2> QED BY <2>4, <2>5
<1>6. CASE stage = "lin_space_coroutine"
    <2>1. ids[1] \in Int /\ ids[2] \in Int /\ ids[3] \in Int
        BY <1>6
    <2>2. lin_value(ids[1], ids[2], v, ids[3]) \in Int
        BY <2>1 DEF lin_value
    <2>3. Does(stage, v, m, w) = Effect(<<lin_value(ids[1], ids[2], v, ids[3])>>, m, w)
        BY <1>6 DEF Does
    <2> QED BY <1>0, <1>a, <2>2, <2>3
<1>7. CASE stage = "read"
    <2>1. Byte(v) \in Int
        BY DEF Byte
    <2>2. Does(stage, v, m, w) = Effect(<<Byte(v)>>, m, w)
        BY <1>7 DEF Does
    <2> QED BY <1>0, <1>a, <2>1, <2>2
<1>8. CASE stage \notin {"add", "gap_encode", "gap_decode", "variable_encode", "variable_decode", "lin_space_coroutine", "read"}
    <2>1. Does(stage, v, m, w) = Effect(<<v>>, m, w)
        BY <1>8 DEF Does
    <2> QED BY <1>0, <1>a, <2>1
<1> QED BY <1>1, <1>2, <1>3, <1>4, <1>5, <1>6, <1>7, <1>8
-----------------------------------------------------------------------------
\* A pipeline that stays has the same generators.
LEMMA SameTop == ASSUME PipelineTypes PROVE Top \in 1 .. 4 /\ (chain' = chain => Top' = Top)
BY FirstStage DEF PipelineTypes, Top

\* resume() of a generator that is suspended.
LEMMA ResumeKeeps ==
    ASSUME PipelineTypes, Turns, NEW i \in 1 .. Top, active = i + 1, frames[i] = "suspended", Resume(i),
           active \in 1 .. Top => yields[active] = <<>>,
           chain' = chain, yields' = yields, UNCHANGED <<ids, source, value_, weight, n, file>>,
           output' \in Seq(Int), Phases', first2' \in Nat \ {0}, phase' = "includes" => first2' \in DOMAIN Wanted,
           phase' # "over", unread' \in [1 .. Top -> BOOLEAN], ~unread'[i],
           \A j \in 1 .. Top : j # i => unread'[j] = unread[j]
    PROVE  PipelineTypes' /\ Turns'
<1>0. Top' = Top /\ Top \in 1 .. 4
    BY SameTop
<1>1. active' = i /\ frames' = [frames EXCEPT ![i] = "running"]
    BY DEF Resume
<1>a. frames' \in [1 .. Top -> {"suspended", "running", "done"}]
    BY <1>1 DEF PipelineTypes
<1>b. active' \in 1 .. Top + 1
    BY <1>0, <1>1
<1>2. PipelineTypes'
    BY <1>0, <1>a, <1>b DEF PipelineTypes
<1>3. \A j \in 1 .. Top : frames'[j] = (IF j = i THEN "running" ELSE frames[j])
    BY <1>1 DEF PipelineTypes
<1>4. \A j \in 1 .. Top : frames'[j] = "running" <=> j >= active'
    BY <1>0, <1>1, <1>3 DEF Turns
<1>5. \A j \in 1 .. Top : frames'[j] = "running" => ~unread'[j]
    BY <1>0, <1>3 DEF Turns
<1>6. \A j \in 1 .. Top : j > active' => yields'[j] = <<>>
    <2> SUFFICES ASSUME NEW j \in 1 .. Top, j > i PROVE yields[j] = <<>>
        BY <1>1
    <2> QED BY <1>0 DEF Turns
<1>7. \A j \in 1 .. Top : frames'[j] = "done" => yields'[j] = <<>> /\ ~unread'[j]
    BY <1>3 DEF Turns
<1>8. chain # Examples.includes => \A j \in 2 .. Top : frames'[j] = "done" => frames'[j - 1] = "done"
    <2> SUFFICES ASSUME chain # Examples.includes, NEW j \in 2 .. Top, frames'[j] = "done" PROVE frames'[j - 1] = "done"
        OBVIOUS
    <2>1. j \in 1 .. Top /\ j - 1 \in 1 .. Top /\ j # i /\ frames[j] = "done"
        BY <1>0, <1>3
    <2>2. frames[j - 1] = "done"
        BY <2>1 DEF Turns
    <2> QED BY <1>3, <2>1, <2>2
<1>9. frames'[1] = "done" => source' = <<>>
    BY <1>0, <1>3 DEF Turns
<1> QED BY <1>0, <1>2, <1>4, <1>5, <1>6, <1>7, <1>8, <1>9 DEF Turns

\* The end of a body.
LEMMA ReturnKeeps ==
    ASSUME PipelineTypes, Turns, NEW i \in 1 .. Top, active = i, frames[i] = "running", yields[i] = <<>>, Returns(i),
           chain # Examples.includes /\ i > 1 => frames[i - 1] = "done", i = 1 => source = <<>>
    PROVE  PipelineTypes' /\ Turns'
<1>0. Top' = Top /\ Top \in 1 .. 4 /\ chain' = chain /\ source' = source /\ unread' = unread /\ yields' = yields /\ phase' = phase
    BY SameTop DEF Returns, consumer
<1>1. active' = i + 1 /\ frames' = [frames EXCEPT ![i] = "done"]
    BY DEF Returns
<1>a. frames' \in [1 .. Top -> {"suspended", "running", "done"}]
    BY <1>1 DEF PipelineTypes
<1>b. active' \in 1 .. Top + 1
    BY <1>0, <1>1
<1>c. Phases' /\ UNCHANGED <<ids, value_, locals, consumer>>
    BY <1>0 DEF PipelineTypes, Returns, Phases
<1>2. PipelineTypes'
    BY <1>0, <1>a, <1>b, <1>c DEF PipelineTypes, consumer, locals
<1>3. \A j \in 1 .. Top : frames'[j] = (IF j = i THEN "done" ELSE frames[j])
    BY <1>1 DEF PipelineTypes
<1>4. \A j \in 1 .. Top : frames'[j] = "running" <=> j >= active'
    BY <1>0, <1>1, <1>3 DEF Turns
<1>5. \A j \in 1 .. Top : frames'[j] = "running" => ~unread'[j]
    BY <1>0, <1>3 DEF Turns
<1>6. \A j \in 1 .. Top : j > active' => yields'[j] = <<>>
    BY <1>0, <1>1 DEF Turns
<1>7. \A j \in 1 .. Top : frames'[j] = "done" => yields'[j] = <<>> /\ ~unread'[j]
    BY <1>0, <1>3 DEF Turns
<1>8. chain # Examples.includes => \A j \in 2 .. Top : frames'[j] = "done" => frames'[j - 1] = "done"
    <2> SUFFICES ASSUME chain # Examples.includes, NEW j \in 2 .. Top, frames'[j] = "done" PROVE frames'[j - 1] = "done"
        OBVIOUS
    <2>1. j \in 1 .. Top /\ j - 1 \in 1 .. Top /\ j - 1 # j
        BY <1>0
    <2>2. frames[j - 1] = "done"
        <3>1. CASE j = i
            BY <2>1, <3>1
        <3>2. CASE j # i
            BY <1>3, <2>1, <3>2 DEF Turns
        <3> QED BY <3>1, <3>2
    <2> QED BY <1>3, <2>1, <2>2
<1>9. (frames'[1] = "done" => source' = <<>>) /\ (phase' = "over" => frames'[Top] = "done")
    BY <1>0, <1>3 DEF Turns
<1> QED BY <1>0, <1>2, <1>4, <1>5, <1>6, <1>7, <1>8, <1>9 DEF Turns

\* The generator that runs works: all it changes is its own.
LEMMA WorkKeeps ==
    ASSUME PipelineTypes, Turns, NEW i \in 1 .. Top, active = i, frames[i] = "running",
           UNCHANGED <<chain, ids, active, frames, value_, consumer>>, source' \in Seq(Int),
           n' \in [1 .. Top -> Int], weight' \in [1 .. Top -> Nat \ {0}], yields' \in [1 .. Top -> Seq(Int)],
           unread' \in [1 .. Top -> BOOLEAN],
           \A j \in 1 .. Top : j # i => yields'[j] = yields[j],
           \A j \in 1 .. Top : unread'[j] => unread[j],
           source' = source \/ i = 1
    PROVE  PipelineTypes' /\ Turns'
<1>0. Top' = Top /\ Top \in 1 .. 4
    BY SameTop
<1>2. PipelineTypes'
    BY <1>0 DEF PipelineTypes, consumer, Phases
<1>3. \A j \in 1 .. Top : j > active' => yields'[j] = <<>>
    <2> SUFFICES ASSUME NEW j \in 1 .. Top, j > active PROVE yields[j] = <<>>
        OBVIOUS
    <2> QED BY DEF Turns
<1>4. \A j \in 1 .. Top : frames'[j] = "done" => yields'[j] = <<>> /\ ~unread'[j]
    BY <1>0 DEF Turns
<1>5. frames'[1] = "done" => source' = <<>>
    BY <1>0 DEF Turns
<1> QED BY <1>0, <1>2, <1>3, <1>4, <1>5 DEF Turns, consumer

\* co_yield (35-44).
LEMMA YieldKeeps ==
    ASSUME PipelineTypes, Turns, NEW i \in 1 .. Top, co_yield(i)
    PROVE  PipelineTypes' /\ Turns'
<1>0. Top' = Top /\ Top \in 1 .. 4 /\ chain' = chain /\ source' = source /\ phase' = phase /\ active' = i + 1 /\ active = i
    BY SameTop DEF co_yield, consumer
<1>1. Head(yields[i]) \in Int /\ Tail(yields[i]) \in Seq(Int)
    <2>1. yields[i] \in Seq(Int) /\ yields[i] # <<>>
        BY DEF PipelineTypes, co_yield
    <2> QED BY <2>1, HeadTailProperties
<1>a. /\ frames' \in [1 .. Top -> {"suspended", "running", "done"}] /\ value_' \in [1 .. Top -> Int]
      /\ unread' \in [1 .. Top -> BOOLEAN] /\ yields' \in [1 .. Top -> Seq(Int)]
    BY <1>1 DEF PipelineTypes, co_yield
<1>b. active' \in 1 .. Top + 1
    BY <1>0
<1>c. Phases' /\ UNCHANGED <<ids, locals, consumer>>
    BY <1>0 DEF PipelineTypes, co_yield, Phases
<1>2. PipelineTypes'
    BY <1>0, <1>a, <1>b, <1>c DEF PipelineTypes, consumer, locals
<1>3. \A j \in 1 .. Top : /\ frames'[j] = (IF j = i THEN "suspended" ELSE frames[j])
                          /\ j # i => unread'[j] = unread[j] /\ yields'[j] = yields[j]
    BY DEF PipelineTypes, co_yield
<1>4. \A j \in 1 .. Top : frames'[j] = "running" <=> j >= active'
    BY <1>0, <1>3 DEF Turns
<1>5. \A j \in 1 .. Top : frames'[j] = "running" => ~unread'[j]
    BY <1>0, <1>3 DEF Turns
<1>6. \A j \in 1 .. Top : j > active' => yields'[j] = <<>>
    BY <1>0, <1>3 DEF Turns
<1>7. \A j \in 1 .. Top : frames'[j] = "done" => yields'[j] = <<>> /\ ~unread'[j]
    BY <1>0, <1>3 DEF Turns
<1>8. chain # Examples.includes => \A j \in 2 .. Top : frames'[j] = "done" => frames'[j - 1] = "done"
    <2> SUFFICES ASSUME chain # Examples.includes, NEW j \in 2 .. Top, frames'[j] = "done" PROVE frames'[j - 1] = "done"
        OBVIOUS
    <2>1. j \in 1 .. Top /\ j - 1 \in 1 .. Top /\ j # i /\ frames[j] = "done"
        BY <1>0, <1>3
    <2>2. frames[j - 1] = "done"
        BY <2>1 DEF Turns
    <2>3. j - 1 # i
        BY <2>2 DEF co_yield
    <2> QED BY <1>3, <2>1, <2>2, <2>3
<1>9. (frames'[1] = "done" => source' = <<>>) /\ (phase' = "over" => frames'[Top] = "done")
    BY <1>0, <1>3 DEF Turns, co_yield
<1> QED BY <1>0, <1>2, <1>4, <1>5, <1>6, <1>7, <1>8, <1>9 DEF Turns

\* seq (109-115).
LEMMA SeqKeeps ==
    ASSUME PipelineTypes, Turns, NEW i \in 1 .. Top, seq(i)
    PROVE  PipelineTypes' /\ Turns'
<1>0. n[i] \in Int
    BY DEF PipelineTypes
<1>1. <<n[i]>> \in Seq(Int)
    BY <1>0
<1>2. n' \in [1 .. Top -> Int] /\ yields' \in [1 .. Top -> Seq(Int)] /\ \A j \in 1 .. Top : j # i => yields'[j] = yields[j]
    BY <1>0, <1>1 DEF PipelineTypes, seq
<1>3. source' \in Seq(Int) /\ unread' = unread /\ weight' = weight
    BY DEF PipelineTypes, seq
<1>4. weight \in [1 .. Top -> Nat \ {0}] /\ unread \in [1 .. Top -> BOOLEAN]
    BY DEF PipelineTypes
<1>5. active = i /\ frames[i] = "running" /\ UNCHANGED <<chain, ids, active, frames, value_, consumer>> /\ source' = source
    BY DEF seq
<1> QED BY <1>2, <1>3, <1>4, <1>5, WorkKeeps

\* The loops over a range (248, 347-352, 236-239).
LEMMA RangeKeeps ==
    ASSUME PipelineTypes, Turns, NEW i \in 1 .. Top, OverRange(i)
    PROVE  PipelineTypes' /\ Turns'
<1>0. active = i /\ frames[i] = "running" /\ yields[i] = <<>> /\ i = 1
    <2>1. Top = Len(chain) /\ chain \in Chains
        BY DEF Top, PipelineTypes
    <2> QED BY <2>1, FirstStage DEF OverRange
<1>1. CASE source = <<>> /\ Returns(i)
    BY <1>0, <1>1, ReturnKeeps
<1>2. CASE ~(source = <<>> /\ Returns(i))
    <2> DEFINE body == Does(chain[i], Head(source), n[i], weight[i])
    <2>1. /\ source # <<>> /\ source' = Tail(source)
          /\ yields' = [yields EXCEPT ![i] = body.out] /\ n' = [n EXCEPT ![i] = body.n]
          /\ UNCHANGED <<chain, ids, active, frames, value_, unread, weight, consumer>>
        BY <1>2 DEF OverRange
    <2>2. Head(source) \in Int /\ Tail(source) \in Seq(Int)
        <3>1. source \in Seq(Int)
            BY DEF PipelineTypes
        <3> QED BY <2>1, <3>1, HeadTailProperties
    <2>3. chain[i] = "lin_space_coroutine" => ids \in Int \X Int \X (Nat \ {1})
        <3>1. Top = Len(chain) /\ chain \in Chains
            BY DEF Top, PipelineTypes
        <3>2. chain[i] = "lin_space_coroutine" => chain = Examples.lin_space
            BY <3>1, FirstStage
        <3> QED BY <3>2 DEF PipelineTypes
    <2>4. body.out \in Seq(Int) /\ body.n \in Int
        <3>1. n[i] \in Int /\ weight[i] \in Nat \ {0}
            BY DEF PipelineTypes
        <3> QED BY <2>2, <2>3, <3>1, DoesTypes
    <2> HIDE DEF body
    <2>5. n' \in [1 .. Top -> Int] /\ yields' \in [1 .. Top -> Seq(Int)] /\ \A j \in 1 .. Top : j # i => yields'[j] = yields[j]
        BY <2>1, <2>4 DEF PipelineTypes
    <2>6. weight' \in [1 .. Top -> Nat \ {0}] /\ unread' \in [1 .. Top -> BOOLEAN] /\ unread' = unread
        BY <2>1 DEF PipelineTypes
    <2> QED BY <1>0, <2>1, <2>2, <2>5, <2>6, WorkKeeps
<1> QED BY <1>1, <1>2

\* begin() and ++ in a loop (60-64, 97-101).
LEMMA DrawKeeps ==
    ASSUME PipelineTypes, Turns, NEW i \in 1 .. Top, Draw(i)
    PROVE  PipelineTypes' /\ Turns'
<1>0. Top \in 1 .. 4 /\ i > 1 /\ active = i /\ yields[i] = <<>>
    BY SameTop DEF Draw, Loops
<1>1. i - 1 \in 1 .. Top /\ active = (i - 1) + 1 /\ frames[i - 1] = "suspended" /\ Resume(i - 1) /\ ~unread[i - 1]
    BY <1>0 DEF Draw
<1>2. UNCHANGED <<chain, ids, source, value_, unread, yields, n, weight, phase, first2, output, file>>
    BY DEF Draw, locals, consumer
<1>3. /\ output \in Seq(Int) /\ Phases /\ first2 \in Nat \ {0} /\ (phase = "includes" => first2 \in DOMAIN Wanted)
      /\ unread \in [1 .. Top -> BOOLEAN]
    BY DEF PipelineTypes
<1>4. phase # "over"
    <2> SUFFICES ASSUME phase = "over" PROVE FALSE
        OBVIOUS
    <2>1. frames[Top] = "done" /\ frames[Top] = "running"
        BY <1>0 DEF Turns
    <2> QED BY <2>1
<1>5. Phases'
    BY <1>2, <1>3 DEF Phases
<1>6. active \in 1 .. Top => yields[active] = <<>>
    BY <1>0
<1>7. /\ output' \in Seq(Int) /\ first2' \in Nat \ {0} /\ (phase' = "includes" => first2' \in DOMAIN Wanted)
      /\ phase' # "over" /\ unread' \in [1 .. Top -> BOOLEAN] /\ ~unread'[i - 1] /\ unread' = unread
    BY <1>1, <1>2, <1>3, <1>4
<1> QED BY <1>1, <1>2, <1>5, <1>6, <1>7, ResumeKeeps

\* The body of a loop takes the value and works on it (69-72).
LEMMA UseKeeps ==
    ASSUME PipelineTypes, Turns, NEW i \in 1 .. Top, Use(i)
    PROVE  PipelineTypes' /\ Turns'
<1>0. Top \in 1 .. 4 /\ i > 1 /\ i - 1 \in 1 .. Top /\ active = i /\ frames[i] = "running"
    BY SameTop DEF Use, Loops
<1> DEFINE body == Does(chain[i], value_[i - 1], n[i], weight[i])
<1>1. /\ yields' = [yields EXCEPT ![i] = body.out]
      /\ n' = [n EXCEPT ![i] = body.n] /\ weight' = [weight EXCEPT ![i] = body.weight]
      /\ unread' = [unread EXCEPT ![i - 1] = FALSE]
      /\ UNCHANGED <<chain, ids, source, active, frames, value_, consumer>>
    BY DEF Use
<1>2. chain[i] = "lin_space_coroutine" => ids \in Int \X Int \X (Nat \ {1})
    <2>1. Top = Len(chain) /\ chain \in Chains
        BY DEF Top, PipelineTypes
    <2>2. chain[i] = "lin_space_coroutine" => chain = Examples.lin_space
        BY <2>1, FirstStage
    <2> QED BY <2>2 DEF PipelineTypes
<1>3. body.out \in Seq(Int) /\ body.n \in Int /\ body.weight \in Nat \ {0}
    <2>1. value_[i - 1] \in Int /\ n[i] \in Int /\ weight[i] \in Nat \ {0}
        BY <1>0 DEF PipelineTypes
    <2> QED BY <1>2, <2>1, DoesTypes
<1> HIDE DEF body
<1>4. /\ n' \in [1 .. Top -> Int] /\ weight' \in [1 .. Top -> Nat \ {0}] /\ yields' \in [1 .. Top -> Seq(Int)]
      /\ \A j \in 1 .. Top : j # i => yields'[j] = yields[j]
    BY <1>1, <1>3 DEF PipelineTypes
<1>5. unread' \in [1 .. Top -> BOOLEAN] /\ \A j \in 1 .. Top : unread'[j] => unread[j]
    BY <1>1 DEF PipelineTypes
<1>6. source' \in Seq(Int) /\ source' = source
    BY <1>1 DEF PipelineTypes
<1> QED BY <1>0, <1>1, <1>4, <1>5, <1>6, WorkKeeps

\* The end of a loop, or co_return in it (77-80, 122-125).
LEMMA StopKeeps ==
    ASSUME PipelineTypes, Turns, NEW i \in 1 .. Top, Stops(i)
    PROVE  PipelineTypes' /\ Turns'
<1>0. i > 1 /\ active = i /\ frames[i] = "running" /\ yields[i] = <<>> /\ Returns(i)
    BY DEF Stops, Loops
<1>1. chain # Examples.includes => frames[i - 1] = "done"
    <2>1. Top = Len(chain) /\ chain \in Chains
        BY DEF Top, PipelineTypes
    <2>2. chain # Examples.includes => chain[i] # "take_until"
        BY <2>1, FirstStage
    <2> QED BY <2>2 DEF Stops, TakesUntil
<1> QED BY <1>0, <1>1, ReturnKeeps

\* The consumer reads the value and goes on with its own work.
LEMMA ConsumerKeeps ==
    ASSUME PipelineTypes, Turns, UNCHANGED <<chain, ids, source, active, frames, value_, yields, locals>>,
           unread' \in [1 .. Top -> BOOLEAN], \A j \in 1 .. Top : unread'[j] => unread[j],
           Phases', first2' \in Nat \ {0}, phase' = "includes" => first2' \in DOMAIN Wanted,
           phase' = "over" => frames[Top] = "done", output' \in Seq(Int), file' \in Seq(0 .. 255)
    PROVE  PipelineTypes' /\ Turns'
<1>0. Top' = Top /\ Top \in 1 .. 4
    BY SameTop
<1>1. PipelineTypes'
    BY <1>0 DEF PipelineTypes, locals
<1> QED BY <1>0, <1>1 DEF Turns

\* std::ranges::includes (363).
LEMMA IncludesKeeps ==
    ASSUME PipelineTypes, Turns, Includes
    PROVE  PipelineTypes' /\ Turns'
<1>0. /\ active = Top + 1 /\ Top \in 1 .. 4 /\ phase = "includes" /\ chain = Examples.includes
      /\ UNCHANGED <<chain, ids, source, value_, yields, n, weight, locals, file>>
      /\ first2 \in DOMAIN Wanted /\ unread \in [1 .. Top -> BOOLEAN] /\ frames \in [1 .. Top -> {"suspended", "running", "done"}]
      /\ value_[Top] \in Int /\ output \in Seq(Int) /\ file \in Seq(0 .. 255)
    BY SameTop DEF Includes, InConsumer, PipelineTypes, Chains, Phases, locals
<1>1. Top \in 1 .. Top /\ first2 \in Nat \ {0} /\ first2 <= Len(Wanted) /\ ~(active \in 1 .. Top)
    BY <1>0, GeneratorsAssumption
<1>2. ASSUME phase' \in {"includes", "sum"} PROVE Phases'
    <2>1. chain = Examples.includes /\ Len(Examples.includes) = 3 /\ Examples.includes # Examples.write
        BY <1>0, FiveChains
    <2>2. Examples.includes # Examples.lin_space /\ Examples.includes # Examples.decoded /\ Examples.includes # Examples.read
        BY FiveChains
    <2> QED BY <1>0, <1>2, <2>1, <2>2 DEF Phases
<1>3. CASE /\ ~unread[Top] /\ frames[Top] = "suspended" /\ first2 <= Len(Wanted)
           /\ Resume(Top) /\ UNCHANGED <<unread, phase, first2, output>>
    <2>1. Phases'
        BY <1>0, <1>2, <1>3
    <2> QED BY <1>0, <1>1, <1>3, <2>1, ResumeKeeps
<1>4. ASSUME unread[Top], unread' = [unread EXCEPT ![Top] = FALSE], output' = Append(output, value_[Top])
      PROVE  /\ output' \in Seq(Int) /\ unread' \in [1 .. Top -> BOOLEAN] /\ ~unread'[Top]
             /\ \A j \in 1 .. Top : (unread'[j] => unread[j]) /\ (j # Top => unread'[j] = unread[j])
             /\ frames[Top] = "suspended"
    <2>1. output' \in Seq(Int)
        BY <1>0, <1>4
    <2>2. frames[Top] # "done" /\ frames[Top] # "running"
        BY <1>1, <1>4 DEF Turns
    <2> QED BY <1>0, <1>1, <1>4, <2>1, <2>2
<1>5. CASE /\ unread[Top] /\ unread' = [unread EXCEPT ![Top] = FALSE] /\ output' = Append(output, value_[Top])
           /\ phase' \in {"includes", "sum"} /\ UNCHANGED <<active, frames>>
           /\ first2' \in Nat \ {0} /\ (phase' = "includes" => first2' \in DOMAIN Wanted)
    <2>1. Phases'
        BY <1>2, <1>5
    <2>2. /\ output' \in Seq(Int) /\ unread' \in [1 .. Top -> BOOLEAN] /\ file' \in Seq(0 .. 255)
          /\ \A j \in 1 .. Top : unread'[j] => unread[j]
        BY <1>0, <1>4, <1>5
    <2>3. UNCHANGED <<chain, ids, source, active, frames, value_, yields, locals>> /\ phase' # "over"
        BY <1>0, <1>5
    <2> QED BY <1>5, <2>1, <2>2, <2>3, ConsumerKeeps
<1>6. CASE /\ unread[Top] /\ unread' = [unread EXCEPT ![Top] = FALSE] /\ output' = Append(output, value_[Top])
           /\ phase' = "sum" /\ first2' = first2 + 1 /\ Resume(Top)
    <2>1. Phases'
        BY <1>2, <1>6
    <2>2. /\ output' \in Seq(Int) /\ unread' \in [1 .. Top -> BOOLEAN] /\ ~unread'[Top] /\ frames[Top] = "suspended"
          /\ \A j \in 1 .. Top : j # Top => unread'[j] = unread[j]
        BY <1>4, <1>6
    <2>3. first2' \in Nat \ {0} /\ phase' # "over" /\ phase' # "includes"
        BY <1>1, <1>6
    <2>4. chain' = chain /\ yields' = yields /\ UNCHANGED <<ids, source, value_, weight, n, file>>
        BY <1>0
    <2> QED BY <1>0, <1>1, <1>6, <2>1, <2>2, <2>3, <2>4, ResumeKeeps
<1>7. CASE frames[Top] = "done" /\ phase' = "sum" /\ UNCHANGED <<unread, first2, output, active, frames>>
    <2>1. Phases'
        BY <1>2, <1>7
    <2> QED BY <1>0, <1>1, <1>7, <2>1, ConsumerKeeps
<1>8. CASE /\ unread[Top] /\ unread' = [unread EXCEPT ![Top] = FALSE] /\ output' = Append(output, value_[Top])
           /\ ~(Wanted[first2] < value_[Top]) /\ ~(value_[Top] < Wanted[first2])
           /\ first2' = first2 + 1 /\ phase' = IF first2 = Len(Wanted) THEN "sum" ELSE phase
           /\ \/ first2 = Len(Wanted) /\ Resume(Top)
              \/ UNCHANGED <<active, frames>>
    <2>1. first2' \in Nat \ {0} /\ phase' \in {"includes", "sum"} /\ (phase' = "includes" => first2' \in DOMAIN Wanted)
        BY <1>0, <1>1, <1>8, GeneratorsAssumption
    <2> QED BY <1>5, <1>6, <1>8, <2>1
<1>9. CASE /\ unread[Top] /\ unread' = [unread EXCEPT ![Top] = FALSE] /\ output' = Append(output, value_[Top])
           /\ UNCHANGED <<first2, active, frames>> /\ phase' \in {phase, "sum"}
    BY <1>0, <1>1, <1>5, <1>9
<1> QED BY <1>3, <1>7, <1>8, <1>9 DEF Includes

\* begin() of the second loop (368, 97-101).
LEMMA BeginAgainKeeps ==
    ASSUME PipelineTypes, Turns, GoesOn, BeginAgain
    PROVE  PipelineTypes' /\ Turns'
<1>0. /\ active = Top + 1 /\ Top \in 1 .. 4 /\ phase = "sum" /\ phase' = "summing" /\ Resume(Top) /\ output \in Seq(Int)
      /\ UNCHANGED <<chain, ids, source, value_, yields, n, weight, first2, output, file>>
      /\ first2 \in Nat \ {0} /\ unread' = [unread EXCEPT ![Top] = FALSE] /\ Phases /\ chain \in Chains
    BY SameTop DEF BeginAgain, InConsumer, PipelineTypes, locals
<1>1. Top \in 1 .. Top /\ ~(active \in 1 .. Top) /\ frames[Top] = "suspended"
    <2>1. Top \in 1 .. Top /\ ~(active \in 1 .. Top)
        BY <1>0
    <2>2. frames[Top] \in {"suspended", "running", "done"} /\ frames[Top] # "running"
        BY <1>0, <2>1 DEF PipelineTypes, Turns
    <2> QED BY <1>0, <2>1, <2>2 DEF GoesOn
<1>2. unread' \in [1 .. Top -> BOOLEAN] /\ ~unread'[Top] /\ \A j \in 1 .. Top : j # Top => unread'[j] = unread[j]
    BY <1>0, <1>1 DEF PipelineTypes
<1>3. Phases'
    BY <1>0 DEF Phases, Chains
<1> QED BY <1>0, <1>1, <1>2, <1>3, ResumeKeeps

\* ++ in a loop of the program (60-64).
LEMMA IncrementKeeps ==
    ASSUME PipelineTypes, Turns, Increment
    PROVE  PipelineTypes' /\ Turns'
<1>0. /\ active = Top + 1 /\ Top \in 1 .. 4 /\ phase # "over" /\ phase # "includes" /\ Resume(Top) /\ output \in Seq(Int)
      /\ frames[Top] = "suspended" /\ ~unread[Top]
      /\ UNCHANGED <<chain, ids, source, value_, unread, yields, n, weight, phase, first2, output, file>>
      /\ first2 \in Nat \ {0} /\ Phases /\ unread \in [1 .. Top -> BOOLEAN]
    BY SameTop DEF Increment, InConsumer, InLoop, PipelineTypes, locals, consumer
<1>1. Top \in 1 .. Top /\ ~(active \in 1 .. Top)
    BY <1>0
<1>2. Phases'
    BY <1>0 DEF Phases
<1> QED BY <1>0, <1>1, <1>2, ResumeKeeps

\* * in a loop of the program (69-72).
LEMMA DereferenceKeeps ==
    ASSUME PipelineTypes, Turns, Dereference
    PROVE  PipelineTypes' /\ Turns'
<1>0. /\ Top \in 1 .. 4 /\ phase # "over" /\ phase # "includes" /\ output \in Seq(Int)
      /\ UNCHANGED <<chain, ids, source, active, frames, value_, yields, locals, phase, first2>>
      /\ first2 \in Nat \ {0} /\ Phases /\ unread' = [unread EXCEPT ![Top] = FALSE] /\ value_[Top] \in Int
    <2>1. Top \in 1 .. 4 /\ Top \in 1 .. Top
        BY SameTop
    <2>2. output \in Seq(Int) /\ first2 \in Nat \ {0} /\ Phases /\ value_[Top] \in Int
        BY <2>1 DEF PipelineTypes
    <2>3. /\ phase # "over" /\ phase # "includes" /\ unread' = [unread EXCEPT ![Top] = FALSE]
          /\ UNCHANGED <<chain, ids, source, active, frames, value_, yields, locals, phase, first2>>
        BY DEF Dereference, InLoop
    <2> QED BY <2>1, <2>2, <2>3
<1>1. unread' \in [1 .. Top -> BOOLEAN] /\ \A j \in 1 .. Top : unread'[j] => unread[j]
    BY <1>0 DEF PipelineTypes
<1>2. Phases'
    BY <1>0 DEF Phases
<1>3. Byte(value_[Top]) \in 0 .. 255
    <2>1. \A x \in Int : Byte(x) \in 0 .. 255
        BY DEF Byte
    <2> QED BY <1>0, <2>1
<1>4. output' \in Seq(Int) /\ file' \in Seq(0 .. 255)
    <2>1. file \in Seq(0 .. 255)
        BY DEF PipelineTypes
    <2>2. Append(file, Byte(value_[Top])) \in Seq(0 .. 255) /\ Append(output, value_[Top]) \in Seq(Int)
        BY <1>0, <1>3, <2>1, AppendProperties
    <2> QED BY <1>0, <2>1, <2>2 DEF Dereference
<1> QED BY <1>0, <1>1, <1>2, <1>4, ConsumerKeeps

\* The end of a loop of the program (77-80, 442-443).
LEMMA LoopEndKeeps ==
    ASSUME PipelineTypes, Turns, LoopEnds
    PROVE  PipelineTypes' /\ Turns'
<1>1. CASE phase # "write"
    <2>1. /\ phase' = "over" /\ frames[Top] = "done" /\ phase \in {"summing", "lin_space", "decoded", "read"}
          /\ UNCHANGED <<chain, ids, source, active, frames, value_, yields, locals, unread, first2, output, file>>
        BY <1>1 DEF LoopEnds, InLoop
    <2>2. Phases'
        <3>1. Phases /\ chain # Examples.write
            BY <1>1 DEF PipelineTypes, Phases
        <3> QED BY <2>1, <3>1 DEF Phases
    <2>3. /\ unread \in [1 .. Top -> BOOLEAN] /\ first2 \in Nat \ {0} /\ output \in Seq(Int) /\ file \in Seq(0 .. 255)
        BY DEF PipelineTypes
    <2>4. unread' = unread
        BY <2>1
    <2> QED BY <2>1, <2>2, <2>3, <2>4, ConsumerKeeps
<1>2. CASE phase = "write"
    <2>1. /\ chain' = Examples.read /\ source' = file /\ active' = 5 /\ phase' = "read"
          /\ frames' = [j \in 1 .. 4 |-> "suspended"] /\ value_' = [j \in 1 .. 4 |-> 0] /\ unread' = [j \in 1 .. 4 |-> FALSE]
          /\ n' = [j \in 1 .. 4 |-> 0] /\ weight' = [j \in 1 .. 4 |-> 1] /\ yields' = [j \in 1 .. 4 |-> <<>>]
          /\ UNCHANGED <<ids, first2, output, file>> /\ Top' = 4
        <3>1. Pipeline("read", file) /\ UNCHANGED <<ids, first2, output, file>>
            BY <1>2 DEF LoopEnds
        <3>2. Len(Examples["read"]) = 4 /\ DOMAIN Examples["read"] = 1 .. 4
            BY Stages
        <3> QED BY <3>1, <3>2 DEF Pipeline, Top
    <2>2. chain = Examples.write
        BY <1>2 DEF PipelineTypes, Phases, Chains
    <2>3. Examples.write # Examples.lin_space /\ Examples.read # Examples.lin_space /\ Examples.read # Examples.includes
          /\ Examples.read # Examples.decoded /\ Examples.read # Examples.write
        BY FiveChains
    <2>4. Phases'
        BY <2>1, <2>3 DEF Phases
    <2>5. file \in Seq(Int)
        <3>1. file \in Seq(0 .. 255) /\ 0 .. 255 \subseteq Int
            BY DEF PipelineTypes
        <3> QED BY <3>1, SeqMonotonic
    <2>6. PipelineTypes'
        BY <2>1, <2>2, <2>3, <2>4, <2>5 DEF PipelineTypes, Chains
    <2> QED BY <2>1, <2>3, <2>6 DEF Turns
<1> QED BY <1>1, <1>2

\* The first pipeline of the program that is looked at.
LEMMA PipelineBegins == GeneratorsInit => PipelineTypes /\ Turns
<1> SUFFICES ASSUME GeneratorsInit PROVE PipelineTypes /\ Turns
    OBVIOUS
<1>1. PICK p \in {"includes", "lin_space", "decoded", "write"} :
          /\ phase = p /\ chain = Examples[p] /\ active = Len(Examples[p]) + 1
          /\ ids \in CASE p = "includes" -> {<<>>} [] p = "lin_space" -> Spaces [] OTHER -> Ids
          /\ source = IF p = "lin_space" THEN [k \in 1 .. ids[3] |-> k - 1] ELSE ids
    BY DEF GeneratorsInit
<1>2. /\ chain \in Chains /\ Top \in 1 .. 4 /\ DOMAIN chain = 1 .. Top /\ active = Top + 1
      /\ (p = "includes" <=> chain = Examples.includes) /\ (p = "lin_space" <=> chain = Examples.lin_space)
      /\ (p = "decoded" <=> chain = Examples.decoded) /\ (p = "write" <=> chain = Examples.write)
      /\ chain # Examples.read
    <2>1. /\ p = "includes" => chain = Examples.includes
          /\ p = "lin_space" => chain = Examples.lin_space
          /\ p = "decoded" => chain = Examples.decoded
          /\ p = "write" => chain = Examples.write
        BY <1>1
    <2>2. chain \in Chains
        BY <1>1, <2>1 DEF Chains
    <2>3. Top \in 1 .. 4 /\ DOMAIN chain = 1 .. Top /\ active = Top + 1
        BY <1>1, <2>2, FirstStage DEF Top
    <2>4. /\ Examples.includes # Examples.lin_space /\ Examples.includes # Examples.decoded /\ Examples.includes # Examples.write
          /\ Examples.lin_space # Examples.decoded /\ Examples.lin_space # Examples.write /\ Examples.decoded # Examples.write
          /\ Examples.read \notin {Examples.includes, Examples.lin_space, Examples.decoded, Examples.write}
        BY FiveChains
    <2>5. p \in {"includes", "lin_space", "decoded", "write"}
        OBVIOUS
    <2> QED BY <2>1, <2>2, <2>3, <2>4, <2>5
<1>3. Phases
    BY <1>1, <1>2 DEF Phases
<1>4. /\ frames = [j \in 1 .. Top |-> "suspended"] /\ value_ = [j \in 1 .. Top |-> 0] /\ unread = [j \in 1 .. Top |-> FALSE]
      /\ n = [j \in 1 .. Top |-> 0] /\ weight = [j \in 1 .. Top |-> 1] /\ yields = [j \in 1 .. Top |-> <<>>]
      /\ first2 = 1 /\ output = <<>> /\ file = <<>>
    BY <1>2 DEF GeneratorsInit
<1>5. /\ chain = Examples.lin_space => ids \in Int \X Int \X (Nat \ {1})
      /\ chain # Examples.lin_space => ids \in Seq(Int)
    <2>1. CASE p = "includes"
        BY <1>1, <1>2, <2>1
    <2>2. CASE p = "lin_space"
        BY <1>1, <1>2, <2>2, GeneratorsAssumption
    <2>3. CASE p = "decoded" \/ p = "write"
        BY <1>1, <1>2, <2>3, GeneratorsAssumption
    <2> QED BY <2>1, <2>2, <2>3
<1>6. source \in Seq(Int)
    <2>1. CASE p = "lin_space"
        <3>1. ids[3] \in Nat
            BY <1>2, <1>5, <2>1
        <3>2. source = [k \in 1 .. ids[3] |-> k - 1]
            BY <1>1, <2>1
        <3>3. \A k \in 1 .. ids[3] : k - 1 \in Int
            BY <3>1
        <3> QED BY <3>1, <3>2, <3>3, IsASeq
    <2>2. CASE p # "lin_space"
        BY <1>1, <1>2, <1>5, <2>2
    <2> QED BY <2>1, <2>2
<1>7. phase = "includes" => first2 \in DOMAIN Wanted
    <2>1. Wanted \in Seq(Int) /\ Wanted # <<>>
        BY GeneratorsAssumption
    <2> QED BY <1>4, <2>1
<1>8. PipelineTypes
    BY <1>2, <1>3, <1>4, <1>5, <1>6, <1>7 DEF PipelineTypes
<1>9. Turns
    <2>1. phase # "over"
        BY <1>1
    <2> QED BY <1>2, <1>4, <2>1 DEF Turns
<1> QED BY <1>8, <1>9
-----------------------------------------------------------------------------
(* What a generator has still to hand over: the value in its promise, if     *)
(* nobody has read it, and what its body has yet to yield.                   *)
Pending(i) == (IF unread[i] THEN <<value_[i]>> ELSE <<>>) \o yields[i]

\* It is a sequence of numbers.
LEMMA PendingType ==
    ASSUME PipelineTypes, NEW i \in 1 .. Top
    PROVE  /\ Pending(i) \in Seq(Int) /\ Len(Pending(i)) \in Nat
           /\ ~unread[i] => Pending(i) = yields[i]
<1>1. yields[i] \in Seq(Int) /\ value_[i] \in Int
    BY DEF PipelineTypes
<1>2. <<value_[i]>> \in Seq(Int) /\ <<>> \in Seq(Int)
    BY <1>1
<1>3. Pending(i) \in Seq(Int)
    BY <1>1, <1>2, ConcatProperties DEF Pending
<1>4. ~unread[i] => Pending(i) = yields[i]
    BY <1>1, ConcatEmptySeq DEF Pending
<1> QED BY <1>3, <1>4

\* co_yield moves the next value to the promise.
LEMMA YieldKeepsPending ==
    ASSUME PipelineTypes, Turns, NEW i \in 1 .. Top, co_yield(i), NEW j \in 1 .. Top
    PROVE  Pending(j)' = Pending(j)
<1>1. CASE j # i
    BY <1>1 DEF co_yield, Pending, PipelineTypes
<1>2. CASE j = i
    <2>1. /\ unread'[j] /\ value_'[j] = Head(yields[j]) /\ yields'[j] = Tail(yields[j]) /\ ~unread[j]
          /\ yields[j] \in Seq(Int) /\ yields[j] # <<>>
        BY <1>2 DEF co_yield, PipelineTypes, Turns
    <2>2. <<Head(yields[j])>> \o Tail(yields[j]) = yields[j]
        BY <2>1
    <2> QED BY <2>1, <2>2, PendingType DEF Pending
<1> QED BY <1>1, <1>2

\* Who reads a value takes the first that is pending.
LEMMA ReadTakesFirst ==
    ASSUME PipelineTypes, NEW i \in 1 .. Top, unread[i], ~unread'[i], yields'[i] = yields[i]
    PROVE  /\ Len(Pending(i)) > 0 /\ Pending(i)[1] = value_[i]
           /\ Pending(i)' = Tail(Pending(i)) /\ Len(Pending(i)') = Len(Pending(i)) - 1
           /\ Pending(i) = <<value_[i]>> \o Pending(i)'
<1>1. yields[i] \in Seq(Int) /\ value_[i] \in Int
    BY DEF PipelineTypes
<1>2. Pending(i) = <<value_[i]>> \o yields[i]
    BY DEF Pending
<1>3. Pending(i)' = yields[i]
    <2>1. Pending(i)' = <<>> \o yields[i]
        BY DEF Pending
    <2> QED BY <1>1, <2>1, ConcatEmptySeq
<1> QED BY <1>1, <1>2, <1>3

\* A loop that takes a value has nothing left to yield itself.
LEMMA UsePending ==
    ASSUME PipelineTypes, Turns, NEW i \in 1 .. Top, Use(i)
    PROVE  /\ i - 1 \in 1 .. Top /\ Pending(i) = <<>>
           /\ Pending(i)' = Does(chain[i], value_[i - 1], n[i], weight[i]).out
           /\ Len(Pending(i - 1)) > 0 /\ Pending(i - 1)[1] = value_[i - 1]
           /\ Pending(i - 1)' = Tail(Pending(i - 1)) /\ Len(Pending(i - 1)') = Len(Pending(i - 1)) - 1
           /\ \A j \in 1 .. Top : j # i /\ j # i - 1 => Pending(j)' = Pending(j)
           /\ frames[i] = "running" /\ ~TakesUntil(i, value_[i - 1])
<1>1. i - 1 \in 1 .. Top /\ i # i - 1 /\ frames[i] = "running" /\ yields[i] = <<>> /\ ~TakesUntil(i, value_[i - 1])
    BY SameTop DEF Use, Loops
<1>2. ~unread[i] /\ unread[i - 1] /\ yields'[i - 1] = yields[i - 1] /\ ~unread'[i - 1]
      /\ ~unread'[i] /\ yields'[i] = Does(chain[i], value_[i - 1], n[i], weight[i]).out
    BY <1>1 DEF Use, Turns, PipelineTypes
<1>3. Pending(i) = <<>>
    BY <1>1, <1>2, PendingType
<1>4. Pending(i)' = yields'[i]
    <2>1. PipelineTypes'
        BY UseKeeps
    <2>2. yields'[i] \in Seq(Int)
        <3>1. Top' = Top
            BY SameTop DEF Use
        <3> QED BY <2>1, <3>1 DEF PipelineTypes
    <2>3. Pending(i)' = <<>> \o yields'[i]
        BY <1>2 DEF Pending
    <2> QED BY <2>2, <2>3, ConcatEmptySeq
<1>5. \A j \in 1 .. Top : j # i /\ j # i - 1 => Pending(j)' = Pending(j)
    BY DEF Use, Pending, PipelineTypes
<1>6. /\ Len(Pending(i - 1)) > 0 /\ Pending(i - 1)[1] = value_[i - 1]
      /\ Pending(i - 1)' = Tail(Pending(i - 1)) /\ Len(Pending(i - 1)') = Len(Pending(i - 1)) - 1
    BY <1>1, <1>2, ReadTakesFirst
<1> QED BY <1>1, <1>2, <1>3, <1>4, <1>5, <1>6

\* The consumer takes from the generator on top.
LEMMA ReadPending ==
    ASSUME PipelineTypes, unread[Top], unread' = [unread EXCEPT ![Top] = FALSE], UNCHANGED <<value_, yields>>
    PROVE  /\ Len(Pending(Top)) > 0 /\ Pending(Top)[1] = value_[Top]
           /\ \A i \in 1 .. Top : i = Top => Pending(i)' = Tail(Pending(Top)) /\ Len(Pending(i)') = Len(Pending(Top)) - 1
           /\ \A j \in 1 .. Top : j # Top => Pending(j)' = Pending(j)
<1>1. Top \in 1 .. Top
    BY SameTop
<1>2. ~unread'[Top] /\ yields'[Top] = yields[Top]
    BY <1>1 DEF PipelineTypes
<1>3. \A j \in 1 .. Top : j # Top => Pending(j)' = Pending(j)
    BY DEF Pending, PipelineTypes
<1>4. ASSUME NEW i \in 1 .. Top, i = Top PROVE Pending(i)' = Tail(Pending(Top)) /\ Len(Pending(i)') = Len(Pending(Top)) - 1
    <2>1. unread[i] /\ ~unread'[i] /\ yields'[i] = yields[i]
        BY <1>2, <1>4
    <2>2. Pending(i)' = Tail(Pending(i)) /\ Len(Pending(i)') = Len(Pending(i)) - 1
        BY <2>1, ReadTakesFirst
    <2> QED BY <1>4, <2>2
<1>5. Len(Pending(Top)) > 0 /\ Pending(Top)[1] = value_[Top]
    <2>1. yields[Top] \in Seq(Int) /\ value_[Top] \in Int
        BY <1>1 DEF PipelineTypes
    <2> QED BY <2>1 DEF Pending
<1> QED BY <1>3, <1>4, <1>5

\* seq() and the loops over a range have handed over all they had.
LEMMA WorkPending ==
    ASSUME PipelineTypes, Turns, NEW i \in 1 .. Top, frames[i] = "running", yields[i] = <<>>,
           NEW out \in Seq(Int), yields' = [yields EXCEPT ![i] = out], UNCHANGED <<unread, value_>>
    PROVE  Pending(i) = <<>> /\ Pending(i)' = out /\ \A j \in 1 .. Top : j # i => Pending(j)' = Pending(j)
<1>1. ~unread[i] /\ yields'[i] = out
    BY DEF Turns, PipelineTypes
<1>2. Pending(i) = <<>>
    BY <1>1, PendingType
<1>3. Pending(i)' = out
    <2>1. Pending(i)' = <<>> \o out
        BY <1>1 DEF Pending
    <2> QED BY <2>1, ConcatEmptySeq
<1> QED BY <1>2, <1>3 DEF Pending, PipelineTypes

\* Nothing is handed over while control only moves.
LEMMA MovePending ==
    ASSUME UNCHANGED <<unread, value_, yields>>, NEW i
    PROVE  Pending(i)' = Pending(i)
BY DEF Pending
-----------------------------------------------------------------------------
(* seq, take_until and add (359-371): how many values take_until() has       *)
(* drawn, how many add() has, and how many the consumer has seen.            *)
Drawn == n[1] - Len(Pending(1))
Added == Drawn - Len(Pending(2))
Seen == Added - Len(Pending(3))
AreNext ==
    /\ Len(Pending(1)) <= 1 /\ Len(Pending(2)) <= 1 /\ Len(Pending(3)) <= 1
    /\ Pending(1) # <<>> => Pending(1)[1] = Drawn
    /\ Pending(2) # <<>> => Pending(2)[1] = Added
    /\ Pending(3) # <<>> => Pending(3)[1] = Seen + Adder
    /\ 0 <= Seen /\ Drawn <= Until
HasSeen == \A j \in DOMAIN output :
    Adder <= output[j] /\ output[j] < Seen + Adder /\ (j > 1 => output[j - 1] < output[j])
TakesEnd ==
    /\ frames[1] # "done" /\ (frames[2] = "done" => Drawn = Until) /\ (frames[3] = "done" => Seen = Until)
    /\ phase = "includes" \/ (phase = "sum" /\ active # 4) => Seen < Until
    /\ phase \in {"includes", "sum"} => frames[3] # "done"
Takes == chain = Examples.includes => AreNext /\ HasSeen /\ TakesEnd

\* The three generators.
LEMMA ThreeStages ==
    ASSUME PipelineTypes, chain = Examples.includes
    PROVE  /\ Top = 3 /\ chain[1] = "seq" /\ chain[2] = "take_until" /\ chain[3] = "add"
           /\ Pending(1) \in Seq(Int) /\ Pending(2) \in Seq(Int) /\ Pending(3) \in Seq(Int)
           /\ n[1] \in Int /\ Drawn \in Int /\ Added \in Int /\ Seen \in Int /\ output \in Seq(Int)
           /\ Until \in Nat \ {0} /\ Adder \in Int
           /\ (chain' = chain => Top' = 3 /\ chain'[1] = "seq" /\ chain'[2] = "take_until" /\ chain'[3] = "add")
<1>1. Top = 3 /\ chain[1] = "seq" /\ chain[2] = "take_until" /\ chain[3] = "add"
    BY Stages DEF Top
<1>2. Pending(1) \in Seq(Int) /\ Pending(2) \in Seq(Int) /\ Pending(3) \in Seq(Int)
    BY <1>1, PendingType
<1>3. n[1] \in Int /\ output \in Seq(Int)
    BY <1>1 DEF PipelineTypes
<1>4. Until \in Nat \ {0} /\ Adder \in Int
    BY GeneratorsAssumption
<1> QED BY <1>1, <1>2, <1>3, <1>4 DEF Drawn, Added, Seen, Top

\* co_yield and resume() change nothing that counts.
LEMMA TakesStays ==
    ASSUME PipelineTypes, Takes, chain = Examples.includes,
           \A j \in 1 .. 3 : Pending(j)' = Pending(j), UNCHANGED <<chain, n, output>>
    PROVE  AreNext' /\ HasSeen' /\ Drawn' = Drawn /\ Added' = Added /\ Seen' = Seen
<1>1. Pending(1)' = Pending(1) /\ Pending(2)' = Pending(2) /\ Pending(3)' = Pending(3)
    OBVIOUS
<1>2. Drawn' = Drawn /\ Added' = Added /\ Seen' = Seen
    BY <1>1 DEF Drawn, Added, Seen
<1> QED BY <1>1, <1>2 DEF Takes, AreNext, HasSeen

\* The steps of the generators.
LEMMA TakesYield ==
    ASSUME PipelineTypes, Turns, Takes, chain = Examples.includes, NEW i \in 1 .. Top, co_yield(i)
    PROVE  Takes'
<1>1. \A j \in 1 .. 3 : Pending(j)' = Pending(j)
    BY ThreeStages, YieldKeepsPending
<1>2. UNCHANGED <<chain, n, output>> /\ phase' = phase /\ active = i /\ i \in 1 .. 3 /\ (phase = "sum" => active # 4)
    BY ThreeStages DEF co_yield, locals, consumer
<1>3. \A j \in 1 .. 3 : frames'[j] = "done" => frames[j] = "done"
    BY ThreeStages DEF co_yield, PipelineTypes
<1> QED BY <1>1, <1>2, <1>3, TakesStays DEF Takes, TakesEnd

\* A loop resumes the generator below.
LEMMA TakesDraw ==
    ASSUME PipelineTypes, Turns, Takes, chain = Examples.includes, NEW i \in 1 .. Top, Draw(i)
    PROVE  Takes'
<1>1. \A j \in 1 .. 3 : Pending(j)' = Pending(j)
    BY MovePending DEF Draw
<1>2. UNCHANGED <<chain, n, output>> /\ phase' = phase /\ active = i /\ i \in 1 .. 3
    BY ThreeStages DEF Draw, Loops, locals, consumer
<1>3. \A j \in 1 .. 3 : frames'[j] = "done" => frames[j] = "done"
    BY ThreeStages DEF Draw, Resume, PipelineTypes
<1> QED BY <1>1, <1>2, <1>3, TakesStays DEF Takes, TakesEnd

\* A generator that stops has handed over what it drew.
LEMMA TakesStop ==
    ASSUME PipelineTypes, Turns, Takes, chain = Examples.includes, NEW i \in 1 .. Top, Stops(i)
    PROVE  Takes'
<1>1. \A j \in 1 .. 3 : Pending(j)' = Pending(j)
    BY MovePending DEF Stops, Returns
<1>2. /\ UNCHANGED <<chain, n, output>> /\ phase' = phase /\ active = i /\ i \in 2 .. 3 /\ frames[i] = "running"
      /\ yields[i] = <<>> /\ active # 4
    <2>1. Top = 3
        BY ThreeStages
    <2>2. UNCHANGED <<chain, n, output>> /\ phase' = phase
        BY DEF Stops, Returns, locals, consumer
    <2>3. active = i /\ i > 1 /\ frames[i] = "running" /\ yields[i] = <<>>
        BY DEF Stops, Loops
    <2>4. i \in 2 .. 3 /\ i # 4
        BY <2>1, <2>3
    <2> QED BY <2>2, <2>3, <2>4
<1>3. \A j \in 1 .. 3 : frames'[j] = (IF j = i THEN "done" ELSE frames[j])
    BY ThreeStages DEF Stops, Returns, PipelineTypes
<1>4. AreNext' /\ HasSeen' /\ Drawn' = Drawn /\ Added' = Added /\ Seen' = Seen
    BY <1>1, <1>2, TakesStays
<1>5. i = 2 => Drawn = Until
    <2> SUFFICES ASSUME i = 2 PROVE Drawn = Until
        OBVIOUS
    <2>1. unread[1] /\ value_[1] = Until
        BY DEF Takes, TakesEnd, Stops, TakesUntil
    <2>2. Pending(1) # <<>> /\ Pending(1)[1] = Until
        <3>1. 1 \in 1 .. Top
            BY ThreeStages
        <3>2. yields[1] \in Seq(Int) /\ value_[1] \in Int
            BY <3>1 DEF PipelineTypes
        <3> QED BY <2>1, <3>2 DEF Pending
    <2> QED BY <2>2 DEF Takes, AreNext
<1>6. i = 3 => Seen = Until
    <2> SUFFICES ASSUME i = 3 PROVE Seen = Until
        OBVIOUS
    <2>1. frames[2] = "done"
        BY ThreeStages DEF Stops, TakesUntil
    <2>2. Pending(2) = <<>> /\ Pending(3) = <<>>
        <3>1. 2 \in 1 .. Top /\ 3 \in 1 .. Top
            BY ThreeStages
        <3>2. ~unread[2] /\ yields[2] = <<>> /\ ~unread[3] /\ yields[3] = <<>>
            <4>1. frames[2] = "done" /\ frames[3] = "running" /\ yields[3] = <<>>
                BY <1>2, <2>1
            <4> QED BY <3>1, <4>1 DEF Turns
        <3> QED BY <3>1, <3>2, PendingType
    <2> QED BY <2>1, <2>2, ThreeStages DEF Takes, TakesEnd, Added, Seen
<1>7. i = 3 => phase \notin {"includes", "sum"}
    <2> SUFFICES ASSUME i = 3, phase \in {"includes", "sum"} PROVE FALSE
        OBVIOUS
    <2> QED BY <1>2, <1>6, ThreeStages DEF Takes, TakesEnd
<1> QED BY <1>2, <1>3, <1>4, <1>5, <1>6, <1>7 DEF Takes, TakesEnd

\* seq counts on.
LEMMA TakesSeq ==
    ASSUME PipelineTypes, Turns, Takes, chain = Examples.includes, NEW i \in 1 .. Top, seq(i)
    PROVE  Takes'
<1>0. i = 1 /\ Top = 3 /\ 1 \in 1 .. Top /\ 2 \in 1 .. Top /\ 3 \in 1 .. Top /\ n[1] \in Int
    <2>1. Top = 3 /\ n[1] \in Int /\ chain[1] = "seq" /\ chain[2] = "take_until" /\ chain[3] = "add"
        BY ThreeStages
    <2> QED BY <2>1 DEF seq
<1>1. /\ UNCHANGED <<chain, unread, value_, output, phase, active, frames>> /\ frames[i] = "running" /\ yields[i] = <<>>
      /\ yields' = [yields EXCEPT ![i] = <<n[1]>>] /\ n'[1] = n[1] + 1 /\ <<n[1]>> \in Seq(Int)
    BY <1>0 DEF seq, consumer, PipelineTypes
<1>2. Pending(1) = <<>> /\ Pending(1)' = <<n[1]>> /\ Pending(2)' = Pending(2) /\ Pending(3)' = Pending(3)
    <2>1. Pending(i) = <<>> /\ Pending(i)' = <<n[1]>> /\ \A j \in 1 .. Top : j # i => Pending(j)' = Pending(j)
        BY <1>1, WorkPending
    <2>2. Pending(1) = <<>> /\ Pending(1)' = <<n[1]>>
        BY <1>0, <2>1
    <2> QED BY <1>0, <2>1, <2>2
<1>3. Drawn' = Drawn /\ Drawn = n[1] /\ Added' = Added /\ Seen' = Seen
    <2>1. Len(Pending(1)) = 0 /\ Len(Pending(1)') = 1 /\ Len(Pending(2)') = Len(Pending(2)) /\ Len(Pending(3)') = Len(Pending(3))
        BY <1>2
    <2>2. Drawn' = Drawn /\ Drawn = n[1]
        <3>1. n'[1] = n[1] + 1 /\ n[1] \in Int
            BY <1>0, <1>1
        <3>2. Len(Pending(1)) = 0 /\ Len(Pending(1)') = 1
            BY <2>1
        <3>3. Drawn = n[1]
            BY <3>1, <3>2 DEF Drawn
        <3>4. Drawn' = n'[1] - 1
            BY <3>2 DEF Drawn
        <3> QED BY <3>1, <3>3, <3>4
    <2>3. Added' = Added
        BY <2>1, <2>2 DEF Added
    <2>4. Seen' = Seen
        BY <2>1, <2>3 DEF Seen
    <2> QED BY <2>2, <2>3, <2>4
<1>4. AreNext'
    <2>1. Len(Pending(1)') = 1 /\ Pending(1)'[1] = n[1]
        BY <1>0, <1>2
    <2>2. AreNext
        BY DEF Takes
    <2>3. Pending(1)' # <<>> => Pending(1)'[1] = Drawn'
        BY <1>3, <2>1
    <2>4. Len(Pending(1)') <= 1 /\ Len(Pending(2)') <= 1 /\ Len(Pending(3)') <= 1
        <3>1. Len(Pending(1)') <= 1
            BY <2>1
        <3>2. Len(Pending(2)) <= 1 /\ Len(Pending(3)) <= 1
            BY <2>2 DEF AreNext
        <3>3. Pending(2)' = Pending(2) /\ Pending(3)' = Pending(3)
            BY <1>2
        <3> QED BY <3>1, <3>2, <3>3
    <2>5. /\ Pending(2)' # <<>> => Pending(2)'[1] = Added'
          /\ Pending(3)' # <<>> => Pending(3)'[1] = Seen' + Adder
          /\ 0 <= Seen' /\ Drawn' <= Until
        BY <1>2, <1>3, <2>2 DEF AreNext
    <2> QED BY <2>3, <2>4, <2>5 DEF AreNext
<1> QED BY <1>1, <1>3, <1>4 DEF Takes, TakesEnd, HasSeen

\* A generator that is left with at most one number has none once it hands it over.
LEMMA OneLeft ==
    ASSUME NEW t \in Seq(Int), Len(t) > 0, Len(t) <= 1
    PROVE  Len(t) = 1 /\ t # <<>> /\ Tail(t) = <<>>
<1>1. Len(t) = 1
    <2>1. Len(t) \in Nat
        BY LenProperties
    <2>2. \A x \in Nat : x > 0 /\ x <= 1 => x = 1
        OBVIOUS
    <2> QED BY <2>1, <2>2
<1>2. t # <<>>
    <2>1. Len(<<>>) = 0
        BY EmptySeq
    <2>2. 1 # 0
        OBVIOUS
    <2>3. CASE t = <<>>
        <3>1. Len(t) = 0
            BY <2>1, <2>3
        <3> QED BY <1>1, <2>2, <3>1
    <2> QED BY <2>3
<1>3. Tail(t) \in Seq(Int) /\ Len(Tail(t)) = 0
    <2>1. Tail(t) \in Seq(Int) /\ Len(Tail(t)) = Len(t) - 1
        BY <1>2, HeadTailProperties
    <2>2. 1 - 1 = 0
        OBVIOUS
    <2> QED BY <1>1, <2>1, <2>2
<1>4. Tail(t) = <<>>
    BY <1>3, EmptySeq
<1> QED BY <1>1, <1>2, <1>4

\* take_until and add take the next value, which is not the last.
LEMMA TakesUse ==
    ASSUME PipelineTypes, Turns, Takes, chain = Examples.includes, NEW i \in 1 .. Top, Use(i)
    PROVE  Takes'
<1>0. Top = 3 /\ i \in 1 .. Top /\ i - 1 \in 1 .. Top /\ i \in 2 .. 3 /\ value_[i - 1] \in Int
    <2>1. Top = 3 /\ i - 1 \in 1 .. Top
        BY ThreeStages, UsePending
    <2>2. i \in 2 .. 3
        BY <2>1
    <2>3. value_[i - 1] \in Int
        BY <2>1 DEF PipelineTypes
    <2> QED BY <2>1, <2>2, <2>3
<1>1. UNCHANGED <<chain, output, phase, active, frames>> /\ n'[1] = n[1]
    BY <1>0 DEF Use, consumer, PipelineTypes
<1>2. CASE i = 2
    <2>1. Does(chain[2], value_[1], n[2], weight[2]).out = <<value_[1]>>
        BY ThreeStages DEF Does, Effect
    <2>2. /\ Pending(2) = <<>> /\ Pending(2)' = <<value_[1]>> /\ Pending(3)' = Pending(3)
          /\ Len(Pending(1)) > 0 /\ Pending(1)[1] = value_[1] /\ Len(Pending(1)') = Len(Pending(1)) - 1
          /\ ~TakesUntil(2, value_[1]) /\ Pending(1)' = Tail(Pending(1))
        <3>0. Does(chain[i], value_[i - 1], n[i], weight[i]).out = <<value_[i - 1]>>
            BY <1>2, <2>1
        <3>1. /\ Pending(i) = <<>> /\ Pending(i)' = <<value_[i - 1]>>
              /\ Len(Pending(i - 1)) > 0 /\ Pending(i - 1)[1] = value_[i - 1]
              /\ Pending(i - 1)' = Tail(Pending(i - 1)) /\ Len(Pending(i - 1)') = Len(Pending(i - 1)) - 1
              /\ \A j \in 1 .. Top : j # i /\ j # i - 1 => Pending(j)' = Pending(j)
              /\ ~TakesUntil(i, value_[i - 1])
            BY <3>0, UsePending
        <3>2. i = 2 /\ i - 1 = 1
            BY <1>2
        <3> QED BY <1>0, <3>1, <3>2
    <2>3. Len(Pending(1)) = 1 /\ Pending(1)' = <<>> /\ value_[1] = Drawn /\ value_[1] # Until /\ Drawn = n[1] - 1
        <3>1. AreNext /\ Pending(1) \in Seq(Int)
            BY ThreeStages DEF Takes
        <3>2. Len(Pending(1)) = 1 /\ Pending(1) # <<>> /\ Tail(Pending(1)) = <<>>
            <4>1. Len(Pending(1)) > 0 /\ Len(Pending(1)) <= 1
                BY <2>2, <3>1 DEF AreNext
            <4> QED BY <3>1, <4>1, OneLeft
        <3>4. value_[1] = Drawn
            BY <2>2, <3>1, <3>2 DEF AreNext
        <3>5. value_[1] # Until
            BY <2>2, ThreeStages DEF TakesUntil
        <3>6. Drawn = n[1] - 1
            BY <3>2 DEF Drawn
        <3> QED BY <2>2, <3>2, <3>4, <3>5, <3>6
    <2>4. Drawn' = Drawn + 1 /\ Added' = Added /\ Seen' = Seen /\ Added = Drawn
        BY <1>1, <2>2, <2>3, ThreeStages DEF Drawn, Added, Seen
    <2>5. AreNext'
        <3>1. AreNext /\ Until \in Nat /\ Drawn \in Int
            BY ThreeStages DEF Takes
        <3>2. Len(Pending(1)') = 0 /\ Len(Pending(2)') = 1 /\ Pending(2)'[1] = Drawn /\ Drawn + 1 <= Until
            BY <2>2, <2>3, <3>1 DEF AreNext
        <3> QED BY <2>2, <2>3, <2>4, <3>1, <3>2 DEF AreNext
    <2>6. frames[2] # "done"
        BY <1>2, UsePending
    <2> QED BY <1>1, <2>4, <2>5, <2>6 DEF Takes, TakesEnd, HasSeen
<1>3. CASE i = 3
    <2>1. Does(chain[3], value_[2], n[3], weight[3]).out = <<value_[2] + Adder>>
        BY ThreeStages DEF Does, Effect
    <2>2. /\ Pending(3) = <<>> /\ Pending(3)' = <<value_[2] + Adder>> /\ Pending(1)' = Pending(1)
          /\ Len(Pending(2)) > 0 /\ Pending(2)[1] = value_[2] /\ Len(Pending(2)') = Len(Pending(2)) - 1
          /\ Pending(2)' = Tail(Pending(2))
        <3>0. Does(chain[i], value_[i - 1], n[i], weight[i]).out = <<value_[i - 1] + Adder>>
            BY <1>3, <2>1
        <3>1. /\ Pending(i) = <<>> /\ Pending(i)' = <<value_[i - 1] + Adder>>
              /\ Len(Pending(i - 1)) > 0 /\ Pending(i - 1)[1] = value_[i - 1]
              /\ Pending(i - 1)' = Tail(Pending(i - 1)) /\ Len(Pending(i - 1)') = Len(Pending(i - 1)) - 1
              /\ \A j \in 1 .. Top : j # i /\ j # i - 1 => Pending(j)' = Pending(j)
              /\ ~TakesUntil(i, value_[i - 1])
            BY <3>0, UsePending
        <3>2. i = 3 /\ i - 1 = 2
            BY <1>3
        <3> QED BY <1>0, <3>1, <3>2
    <2>3. Len(Pending(2)) = 1 /\ Pending(2)' = <<>> /\ value_[2] = Added
        <3>1. AreNext /\ Pending(2) \in Seq(Int)
            BY ThreeStages DEF Takes
        <3>2. Len(Pending(2)) = 1 /\ Pending(2) # <<>> /\ Tail(Pending(2)) = <<>>
            <4>1. Len(Pending(2)) > 0 /\ Len(Pending(2)) <= 1
                BY <2>2, <3>1 DEF AreNext
            <4> QED BY <3>1, <4>1, OneLeft
        <3>4. value_[2] = Added
            BY <2>2, <3>1, <3>2 DEF AreNext
        <3> QED BY <2>2, <3>2, <3>4
    <2>4. Drawn' = Drawn /\ Added' = Added + 1 /\ Seen' = Seen /\ Seen = Added
        <3>1. Drawn' = Drawn
            BY <1>1, <2>2, ThreeStages DEF Drawn
        <3>2. Drawn \in Int /\ Added \in Int /\ Len(<<>>) = 0
            BY ThreeStages, EmptySeq
        <3>3. Added' = Drawn' - 0 /\ Added = Drawn - 1
            BY <2>2, <2>3, <3>2 DEF Added
        <3>4. \A x \in Int : x - 0 = x /\ x = (x - 1) + 1 /\ (x + 1) - 1 = x
            OBVIOUS
        <3>5. Added' = Added + 1
            BY <3>1, <3>2, <3>3, <3>4
        <3>6. Seen = Added - 0 /\ Seen' = Added' - Len(Pending(3)')
            BY <2>2, <3>2 DEF Seen
        <3>7. Len(Pending(3)') = 1
            BY <2>2
        <3>8. Seen' = Seen
            BY <3>2, <3>4, <3>5, <3>6, <3>7
        <3> QED BY <3>1, <3>2, <3>4, <3>5, <3>6, <3>8
    <2>5. AreNext'
        <3>1. AreNext /\ Added \in Int
            BY ThreeStages DEF Takes
        <3>2. Len(Pending(2)') = 0 /\ Len(Pending(3)') = 1 /\ Pending(3)'[1] = Seen + Adder
            BY <2>2, <2>3, <2>4
        <3> QED BY <2>2, <2>3, <2>4, <3>1, <3>2 DEF AreNext
    <2> QED BY <1>1, <2>4, <2>5 DEF Takes, TakesEnd, HasSeen
<1> QED BY <1>0, <1>2, <1>3

\* Whoever reads from add() sees the next value.
LEMMA TakesRead ==
    ASSUME PipelineTypes, Turns, Takes, chain = Examples.includes, UNCHANGED <<chain, n, value_, yields>>,
           unread[Top], unread' = [unread EXCEPT ![Top] = FALSE]
    PROVE  /\ AreNext' /\ Drawn' = Drawn /\ Seen' = Seen + 1 /\ Seen' \in Int /\ Seen' <= Until
           /\ value_[3] = Seen + Adder
           /\ output' = Append(output, value_[Top]) => HasSeen'
           /\ output' = output => HasSeen'
<1>a. /\ Top = 3 /\ Seen \in Int /\ Added \in Int /\ Drawn \in Int /\ Until \in Nat \ {0} /\ Adder \in Int
      /\ output \in Seq(Int) /\ Pending(3) \in Seq(Int)
    BY ThreeStages
<1>b. /\ UNCHANGED <<chain, n, value_, yields>> /\ value_[3] \in Int
      /\ AreNext /\ HasSeen /\ chain' = chain /\ unread[Top] /\ unread' = [unread EXCEPT ![Top] = FALSE]
    <2>2. value_[3] \in Int
        BY <1>a DEF PipelineTypes
    <2> QED BY <2>2 DEF Takes
<1>1. /\ Len(Pending(3)) > 0 /\ Pending(3)[1] = value_[3]
      /\ Pending(3)' = Tail(Pending(3)) /\ Len(Pending(3)') = Len(Pending(3)) - 1
      /\ Pending(1)' = Pending(1) /\ Pending(2)' = Pending(2)
    <2>1. /\ Len(Pending(Top)) > 0 /\ Pending(Top)[1] = value_[Top]
          /\ \A i \in 1 .. Top : i = Top => Pending(i)' = Tail(Pending(Top)) /\ Len(Pending(i)') = Len(Pending(Top)) - 1
          /\ \A j \in 1 .. Top : j # Top => Pending(j)' = Pending(j)
        BY <1>b, ReadPending
    <2> QED BY <1>a, <2>1
<1>2. Len(Pending(3)) = 1 /\ Len(Pending(3)') = 0 /\ Pending(3)' = <<>> /\ value_[3] = Seen + Adder /\ Added = Seen + 1
    <2>1. Len(Pending(3)) <= 1 /\ (Pending(3) # <<>> => Pending(3)[1] = Seen + Adder)
        BY <1>b DEF AreNext
    <2>2. Len(Pending(3)) = 1
        <3>1. Len(Pending(3)) \in Nat
            BY <1>a
        <3>2. Len(Pending(3)) > 0 /\ Len(Pending(3)) <= 1
            BY <1>1, <2>1
        <3>3. \A x \in Nat : x > 0 /\ x <= 1 => x = 1
            OBVIOUS
        <3> QED BY <3>1, <3>2, <3>3
    <2>3. Pending(3)' = <<>>
        BY <1>a, <1>1, <2>2
    <2>4. Added = Seen + 1
        <3>1. Seen = Added - 1
            BY <2>2 DEF Seen
        <3> QED BY <1>a, <3>1
    <2> QED BY <1>1, <2>1, <2>2, <2>3, <2>4
<1>3. Drawn' = Drawn
    BY <1>b, <1>1 DEF Drawn
<1>4. Added' = Added
    BY <1>1, <1>3 DEF Added
<1>5. Seen' = Seen + 1
    BY <1>a, <1>2, <1>4 DEF Seen
<1>6. Added <= Drawn /\ Drawn <= Until
    <2>1. Drawn <= Until
        BY <1>b DEF AreNext
    <2>2. Pending(2) \in Seq(Int)
        BY ThreeStages
    <2> QED BY <1>a, <2>1, <2>2 DEF Added
<1>7. AreNext'
    <2>1. /\ Len(Pending(1)) <= 1 /\ Len(Pending(2)) <= 1 /\ (Pending(1) # <<>> => Pending(1)[1] = Drawn)
          /\ (Pending(2) # <<>> => Pending(2)[1] = Added) /\ 0 <= Seen
        BY <1>b DEF AreNext
    <2>2. 0 <= Seen' /\ Drawn' <= Until
        BY <1>a, <1>3, <1>5, <1>6, <2>1
    <2>3. Len(Pending(3)') <= 1 /\ ~(Pending(3)' # <<>>)
        BY <1>2
    <2>4. Len(Pending(1)') <= 1 /\ Len(Pending(2)') <= 1
        BY <1>1, <2>1
    <2>5. (Pending(1)' # <<>> => Pending(1)'[1] = Drawn') /\ (Pending(2)' # <<>> => Pending(2)'[1] = Added')
        BY <1>1, <1>3, <1>4, <2>1
    <2> QED BY <2>2, <2>3, <2>4, <2>5 DEF AreNext
<1>8. ASSUME output' = Append(output, value_[Top]) PROVE HasSeen'
    <2> SUFFICES ASSUME NEW j \in DOMAIN output'
                 PROVE  Adder <= output'[j] /\ output'[j] < Seen' + Adder /\ (j > 1 => output'[j - 1] < output'[j])
        BY DEF HasSeen
    <2>1. output' = Append(output, value_[3])
        BY <1>a, <1>8
    <2>2. /\ Len(output) \in Nat /\ j \in 1 .. Len(output) + 1 /\ DOMAIN output = 1 .. Len(output)
          /\ \A k \in 1 .. Len(output) : output'[k] = output[k] /\ output[k] \in Int
          /\ output'[Len(output) + 1] = value_[3]
        BY <1>a, <1>b, <2>1
    <2>3. \A k \in 1 .. Len(output) : Adder <= output[k] /\ output[k] < Seen + Adder /\ (k > 1 => output[k - 1] < output[k])
        BY <1>b, <2>2 DEF HasSeen
    <2>4. CASE j <= Len(output)
        <3>1. j \in 1 .. Len(output) /\ (j > 1 => j - 1 \in 1 .. Len(output))
            BY <2>2, <2>4
        <3> QED BY <1>a, <1>5, <2>2, <2>3, <3>1
    <2>5. CASE j = Len(output) + 1
        <3>1. j > 1 => j - 1 \in 1 .. Len(output)
            BY <2>2, <2>5
        <3>2. 0 <= Seen
            BY <1>b DEF AreNext
        <3>3. output'[j] = Seen + Adder
            BY <1>2, <2>2, <2>5
        <3>4. j > 1 => output'[j - 1] < Seen + Adder
            BY <2>2, <2>3, <3>1
        <3>5. Adder <= output'[j] /\ output'[j] < Seen' + Adder
            BY <1>a, <1>5, <3>2, <3>3
        <3> QED BY <3>3, <3>4, <3>5
    <2> QED BY <2>2, <2>4, <2>5
<1>9. ASSUME output' = output PROVE HasSeen'
    <2>1. \A j \in DOMAIN output : output[j] \in Int
        BY <1>a
    <2> QED BY <1>a, <1>b, <1>5, <1>9, <2>1 DEF HasSeen
<1> QED BY <1>a, <1>2, <1>3, <1>5, <1>6, <1>7, <1>8, <1>9

\* The steps of std::ranges::includes: it stops before the last value.
LEMMA TakesIncludes ==
    ASSUME PipelineTypes, Turns, Takes, chain = Examples.includes, Includes
    PROVE  Takes'
<1>0. /\ Top = 3 /\ Seen \in Int /\ Added \in Int /\ Drawn \in Int /\ Until \in Nat \ {0} /\ Adder \in Int
      /\ output \in Seq(Int) /\ Pending(3) \in Seq(Int)
    BY ThreeStages
<1>1. /\ active = 4 /\ phase = "includes" /\ UNCHANGED <<chain, n, value_, yields>> /\ Seen < Until /\ value_[3] \in Int
      /\ AreNext /\ HasSeen /\ TakesEnd /\ chain' = chain /\ frames[3] # "done"
    <2>1. active = 4 /\ phase = "includes" /\ UNCHANGED <<chain, n, value_, yields>>
        BY <1>0 DEF Includes, InConsumer, locals
    <2>2. value_[3] \in Int
        BY <1>0 DEF PipelineTypes
    <2> QED BY <2>1, <2>2 DEF Takes, TakesEnd
<1>2. \A f : frames' = [frames EXCEPT ![3] = f] => \A j \in 1 .. 3 : j # 3 => frames'[j] = frames[j]
    BY <1>0 DEF PipelineTypes
<1>3. ASSUME Resume(Top) PROVE \A j \in 1 .. 3 : frames'[j] = "done" => frames[j] = "done"
    BY <1>0, <1>3 DEF Resume, PipelineTypes
<1>4. CASE /\ ~unread[Top] /\ frames[Top] = "suspended" /\ Resume(Top) /\ UNCHANGED <<unread, phase, first2, output>>
    <2>1. \A j \in 1 .. 3 : Pending(j)' = Pending(j)
        BY <1>1, <1>4, MovePending
    <2>2. AreNext' /\ HasSeen' /\ Drawn' = Drawn /\ Seen' = Seen
        BY <1>1, <1>4, <2>1, TakesStays
    <2> QED BY <1>1, <1>3, <1>4, <2>2 DEF Takes, TakesEnd
<1>5. ASSUME unread[Top], unread' = [unread EXCEPT ![Top] = FALSE], output' = Append(output, value_[Top])
      PROVE  /\ AreNext' /\ HasSeen' /\ Drawn' = Drawn /\ Seen' = Seen + 1
             /\ Seen' \in Int /\ Seen' <= Until /\ value_[3] = Seen + Adder
    BY <1>1, <1>5, TakesRead
<1>6. CASE /\ unread[Top] /\ unread' = [unread EXCEPT ![Top] = FALSE] /\ output' = Append(output, value_[Top])
           /\ Wanted[first2] < value_[Top] /\ phase' = "sum" /\ UNCHANGED <<first2, active, frames>>
    BY <1>1, <1>5, <1>6 DEF Takes, TakesEnd
<1>7. CASE /\ unread[Top] /\ unread' = [unread EXCEPT ![Top] = FALSE] /\ output' = Append(output, value_[Top])
           /\ ~(Wanted[first2] < value_[Top])
           /\ \/ Resume(Top)
              \/ UNCHANGED <<active, frames>>
           /\ phase' \in {"includes", "sum"}
    <2>1. AreNext' /\ HasSeen' /\ Drawn' = Drawn /\ Seen' = Seen + 1 /\ value_[3] = Seen + Adder /\ Seen' \in Int
        BY <1>5, <1>7
    <2>2. first2 \in DOMAIN Wanted /\ Wanted[first2] \in Int /\ Wanted[first2] < Until + Adder - 1
        <3>1. first2 \in DOMAIN Wanted
            BY <1>1 DEF PipelineTypes
        <3> QED BY <3>1, GeneratorsAssumption
    <2>3. ~(Wanted[first2] < value_[3])
        BY <1>0, <1>7
    <2>4. Seen' < Until
        BY <1>0, <1>1, <2>1, <2>2, <2>3
    <2>5. \A j \in 1 .. 3 : frames'[j] = "done" => frames[j] = "done"
        BY <1>3, <1>7
    <2> QED BY <1>1, <2>1, <2>4, <2>5 DEF Takes, TakesEnd
<1> QED BY <1>0, <1>1, <1>4, <1>6, <1>7 DEF Includes

\* begin() of the second loop discards what includes() has left unread.
LEMMA TakesBeginAgain ==
    ASSUME PipelineTypes, Turns, Takes, chain = Examples.includes, BeginAgain
    PROVE  Takes'
<1>1. /\ phase = "sum" /\ phase' = "summing" /\ UNCHANGED <<chain, n, value_, yields, output>> /\ Resume(Top)
      /\ unread' = [unread EXCEPT ![Top] = FALSE] /\ Top = 3
    BY ThreeStages DEF BeginAgain, locals
<1>2. \A j \in 1 .. 3 : frames'[j] = "done" => frames[j] = "done"
    BY <1>1 DEF Resume, PipelineTypes
<1>3. frames[3] # "done"
    BY <1>1 DEF Takes, TakesEnd
<1>4. CASE unread[Top]
    <2>1. AreNext' /\ Drawn' = Drawn /\ HasSeen'
        BY <1>1, <1>4, TakesRead
    <2> QED BY <1>1, <1>2, <1>3, <2>1 DEF Takes, TakesEnd
<1>5. CASE ~unread[Top]
    <2>1. unread' = unread
        BY <1>1, <1>5 DEF PipelineTypes
    <2>2. \A j \in 1 .. 3 : Pending(j)' = Pending(j)
        BY <1>1, <2>1, MovePending
    <2>3. AreNext' /\ HasSeen' /\ Drawn' = Drawn /\ Seen' = Seen
        BY <1>1, <2>2, TakesStays
    <2> QED BY <1>1, <1>2, <1>3, <2>3 DEF Takes, TakesEnd
<1> QED BY <1>4, <1>5

\* The loops of the program.
LEMMA TakesIncrement ==
    ASSUME PipelineTypes, Turns, Takes, chain = Examples.includes, Increment
    PROVE  Takes'
<1>1. phase \notin {"includes", "sum"} /\ UNCHANGED <<chain, n, value_, unread, yields, phase, output>> /\ Resume(Top)
    BY DEF Increment, InLoop, locals, consumer
<1>2. \A j \in 1 .. 3 : frames'[j] = "done" => frames[j] = "done"
    BY <1>1, ThreeStages DEF Resume, PipelineTypes
<1>3. \A j \in 1 .. 3 : Pending(j)' = Pending(j)
    BY <1>1, MovePending
<1>4. AreNext' /\ HasSeen' /\ Drawn' = Drawn /\ Seen' = Seen
    BY <1>1, <1>3, TakesStays
<1> QED BY <1>1, <1>2, <1>4 DEF Takes, TakesEnd

\* The second loop prints the next value.
LEMMA TakesDereference ==
    ASSUME PipelineTypes, Turns, Takes, chain = Examples.includes, Dereference
    PROVE  Takes'
<1>1. /\ phase \notin {"includes", "sum", "write"} /\ UNCHANGED <<chain, n, value_, yields, phase, frames>>
      /\ unread[Top] /\ unread' = [unread EXCEPT ![Top] = FALSE] /\ output' = Append(output, value_[Top]) /\ Top = 3
    <2>1. phase # "write"
        <3>1. Phases
            BY DEF PipelineTypes
        <3> QED BY <3>1 DEF Phases
    <2>2. Top = 3
        BY ThreeStages
    <2> QED BY <2>1, <2>2 DEF Dereference, InLoop, locals
<1>2. AreNext' /\ Drawn' = Drawn /\ HasSeen'
    BY <1>1, TakesRead
<1>3. frames[3] # "done"
    <2>1. 3 \in 1 .. Top
        BY <1>1
    <2> QED BY <1>1, <2>1 DEF Turns
<1> QED BY <1>1, <1>2, <1>3 DEF Takes, TakesEnd

\* It ends when add() is done.
LEMMA TakesLoopEnd ==
    ASSUME PipelineTypes, Turns, Takes, chain = Examples.includes, LoopEnds
    PROVE  Takes'
<1>1. phase # "write"
    <2>1. Phases
        BY DEF PipelineTypes
    <2> QED BY <2>1 DEF Phases
<1>2. /\ phase' = "over" /\ phase \notin {"includes", "sum"}
      /\ UNCHANGED <<chain, n, value_, unread, yields, output, frames>>
    BY <1>1 DEF LoopEnds, InLoop, locals
<1>3. \A j \in 1 .. 3 : Pending(j)' = Pending(j)
    BY <1>2, MovePending
<1>4. AreNext' /\ HasSeen' /\ Drawn' = Drawn /\ Seen' = Seen
    BY <1>2, <1>3, TakesStays
<1> QED BY <1>2, <1>4 DEF Takes, TakesEnd

\* No other step is there, and no other pipeline becomes this one.
LEMMA TakesNext ==
    ASSUME PipelineTypes, Turns, Takes, GeneratorsNext
    PROVE  Takes'
<1>1. CASE chain # Examples.includes
    <2>1. chain' \in {chain, Examples.read}
        BY <1>1 DEF GeneratorsNext, generator, Consume, Printed, co_yield, seq, OverRange, Returns, Draw, Use, Stops,
                    Includes, BeginAgain, Increment, Dereference, LoopEnds, Pipeline, consumer, locals, generatorsVars
    <2>2. Examples.read # Examples.includes
        BY FiveChains
    <2> QED BY <1>1, <2>1, <2>2 DEF Takes
<1>2. CASE chain = Examples.includes
    <2>1. ASSUME NEW i \in 1 .. Top, generator(i) PROVE Takes'
        <3>1. ~OverRange(i)
            <4>1. Top = 3 /\ chain[1] = "seq" /\ chain[2] = "take_until" /\ chain[3] = "add"
                BY <1>2, ThreeStages
            <4> QED BY <4>1 DEF OverRange
        <3> QED BY <1>2, <2>1, <3>1, TakesYield, TakesSeq, TakesDraw, TakesUse, TakesStop DEF generator
    <2>2. ASSUME Printed PROVE Takes'
        <3>1. UNCHANGED generatorsVars
            BY <2>2 DEF Printed
        <3>2. \A j \in 1 .. 3 : Pending(j)' = Pending(j)
            BY <3>1, MovePending DEF generatorsVars
        <3>3. AreNext' /\ HasSeen' /\ Drawn' = Drawn /\ Seen' = Seen
            BY <1>2, <3>1, <3>2, TakesStays DEF generatorsVars
        <3> QED BY <3>1, <3>3 DEF Takes, TakesEnd, generatorsVars
    <2> QED BY <1>2, <2>1, <2>2, TakesIncludes, TakesBeginAgain, TakesIncrement, TakesDereference, TakesLoopEnd
            DEF GeneratorsNext, Consume
<1> QED BY <1>1, <1>2

\* When it begins, nothing has been drawn.
LEMMA TakesBegins == GeneratorsInit => Takes
<1> SUFFICES ASSUME GeneratorsInit, chain = Examples.includes PROVE AreNext /\ HasSeen /\ TakesEnd
    BY DEF Takes
<1>0. PipelineTypes
    BY PipelineBegins
<1>1. Top = 3 /\ DOMAIN chain = 1 .. 3 /\ Until \in Nat \ {0}
    BY <1>0, ThreeStages, Stages
<1>2. /\ frames = [j \in 1 .. 3 |-> "suspended"] /\ unread = [j \in 1 .. 3 |-> FALSE]
      /\ n = [j \in 1 .. 3 |-> 0] /\ yields = [j \in 1 .. 3 |-> <<>>] /\ output = <<>>
    BY <1>1 DEF GeneratorsInit
<1>3. \A j \in 1 .. 3 : Pending(j) = <<>>
    BY <1>0, <1>1, <1>2, PendingType
<1>4. Pending(1) = <<>> /\ Pending(2) = <<>> /\ Pending(3) = <<>>
    BY <1>3
<1>5. Drawn = 0 /\ Added = 0 /\ Seen = 0
    <2>1. Drawn = 0
        BY <1>2, <1>4 DEF Drawn
    <2>2. Added = 0
        BY <1>4, <2>1 DEF Added
    <2> QED BY <1>4, <2>1, <2>2 DEF Seen
<1>6. AreNext
    BY <1>1, <1>4, <1>5 DEF AreNext
<1> QED BY <1>1, <1>2, <1>5, <1>6 DEF HasSeen, TakesEnd
-----------------------------------------------------------------------------
(* lin_space_coroutine (139-145, 233-239, 411): what the consumer has seen,  *)
(* what is pending and what is left add up to the n points.                  *)
Point(k) == lin_value(ids[1], ids[2], k, ids[3])
InLine ==
    /\ \A k \in DOMAIN source : source[k] = (ids[3] - Len(source)) + (k - 1)
    /\ Len(Pending(1)) <= 1 /\ (Len(output) + Len(Pending(1))) + Len(source) = ids[3]
    /\ Pending(1) # <<>> => Pending(1)[1] = Point(Len(output))
    /\ \A m \in DOMAIN output : output[m] = Point(m - 1)
Lines == chain = Examples.lin_space => InLine

\* Its only generator.
LEMMA OneStage ==
    ASSUME PipelineTypes, chain = Examples.lin_space
    PROVE  /\ Top = 1 /\ chain[1] = "lin_space_coroutine" /\ 1 \in 1 .. Top
           /\ Pending(1) \in Seq(Int) /\ Len(Pending(1)) \in Nat /\ output \in Seq(Int) /\ source \in Seq(Int)
           /\ ids[1] \in Int /\ ids[2] \in Int /\ ids[3] \in Nat \ {1}
           /\ (chain' = chain => Top' = 1) /\ phase \in {"lin_space", "over"}
<1>1. Top = 1 /\ chain[1] = "lin_space_coroutine" /\ 1 \in 1 .. Top
    BY Stages DEF Top
<1>2. Pending(1) \in Seq(Int)
    BY <1>1, PendingType
<1>3. output \in Seq(Int) /\ source \in Seq(Int) /\ ids[1] \in Int /\ ids[2] \in Int /\ ids[3] \in Nat \ {1}
    BY DEF PipelineTypes
<1>4. phase \in {"lin_space", "over"}
    BY DEF PipelineTypes, Phases
<1> QED BY <1>1, <1>2, <1>3, <1>4 DEF Top

\* Nothing changes while control only moves.
LEMMA LineStays ==
    ASSUME InLine, Pending(1)' = Pending(1), UNCHANGED <<ids, source, output>>
    PROVE  InLine'
BY DEF InLine, Point

\* The steps of the generator and of the consumer.
LEMMA LineTakes ==
    ASSUME PipelineTypes, Turns, InLine, chain = Examples.lin_space, OverRange(1)
    PROVE  InLine'
<1>0. /\ Top = 1 /\ chain[1] = "lin_space_coroutine" /\ 1 \in 1 .. Top /\ output \in Seq(Int) /\ source \in Seq(Int)
      /\ ids[1] \in Int /\ ids[2] \in Int /\ ids[3] \in Nat \ {1} /\ Len(source) \in Nat
    BY OneStage
<1>1. CASE source = <<>> /\ Returns(1)
    BY <1>1, LineStays, MovePending DEF Returns, consumer
<1>2. CASE ~(source = <<>> /\ Returns(1))
    <2> DEFINE v == Head(source)
    <2>1. /\ source # <<>> /\ source' = Tail(source) /\ UNCHANGED <<ids, unread, value_, output>>
          /\ frames[1] = "running" /\ yields[1] = <<>>
          /\ yields' = [yields EXCEPT ![1] = Does(chain[1], v, n[1], weight[1]).out]
        BY <1>2 DEF OverRange, consumer
    <2>2. Does(chain[1], v, n[1], weight[1]).out = <<Point(v)>>
        <3>1. Does(chain[1], v, n[1], weight[1]) = Effect(<<Point(v)>>, n[1], weight[1])
            BY <1>0 DEF Does, Point
        <3> QED BY <3>1 DEF Effect
    <2>3. Len(source) > 0 /\ v = source[1] /\ v = ids[3] - Len(source) /\ v \in Int
        <3>1. Len(source) > 0 /\ v = source[1] /\ v \in Int /\ 1 \in DOMAIN source
            BY <1>0, <2>1
        <3> QED BY <1>0, <3>1 DEF InLine
    <2>4. Point(v) \in Int
        <3>1. \A a, b, p, x \in Int : lin_value(a, b, x, p) \in Int
            BY DEF lin_value
        <3>2. ids[1] \in Int /\ ids[2] \in Int /\ ids[3] \in Int /\ v \in Int
            BY <1>0, <2>3
        <3> QED BY <3>1, <3>2 DEF Point
    <2> HIDE DEF v
    <2>5. <<Point(v)>> \in Seq(Int)
        BY <2>4
    <2>6. Pending(1) = <<>> /\ Pending(1)' = <<Point(v)>>
        BY <1>0, <2>1, <2>2, <2>5, WorkPending
    <2>7. Len(output) = v /\ Len(output) \in Nat
        <3>1. (Len(output) + 0) + Len(source) = ids[3]
            BY <2>6 DEF InLine
        <3> QED BY <1>0, <2>3, <3>1
    <2>8. /\ Len(source') = Len(source) - 1 /\ \A k \in DOMAIN source' : k + 1 \in DOMAIN source /\ source'[k] = source[k + 1] /\ k \in Nat
        BY <1>0, <2>1
    <2>9. \A k \in DOMAIN source' : source'[k] = (ids'[3] - Len(source')) + (k - 1)
        <3> SUFFICES ASSUME NEW k \in DOMAIN source' PROVE source'[k] = (ids[3] - Len(source')) + (k - 1)
            BY <2>1
        <3>1. k + 1 \in DOMAIN source /\ source'[k] = source[k + 1] /\ k \in Nat
            BY <2>8
        <3>2. source[k + 1] = (ids[3] - Len(source)) + ((k + 1) - 1)
            BY <3>1 DEF InLine
        <3>3. \A l, p \in Nat, x \in Int : (p - l) + ((x + 1) - 1) = (p - (l - 1)) + (x - 1)
            OBVIOUS
        <3>4. Len(source) \in Nat /\ ids[3] \in Nat /\ k \in Int /\ Len(source') = Len(source) - 1
            BY <1>0, <2>8, <3>1
        <3>5. (ids[3] - Len(source)) + ((k + 1) - 1) = (ids[3] - (Len(source) - 1)) + (k - 1)
            BY <3>3, <3>4
        <3>6. source'[k] = (ids[3] - (Len(source) - 1)) + (k - 1)
            BY <3>1, <3>2, <3>5
        <3>7. Len(source') = Len(source) - 1
            BY <3>4
        <3> QED BY <3>6, <3>7
    <2>10. Len(Pending(1)') = 1 /\ Pending(1)'[1] = Point(v)
        BY <2>6
    <2>11. Len(Pending(1)') <= 1 /\ (Len(output') + Len(Pending(1)')) + Len(source') = ids'[3]
        <3>1. (Len(output) + 1) + (Len(source) - 1) = ids[3]
            BY <1>0, <2>3, <2>7
        <3>2. Len(output') = Len(output) /\ ids'[3] = ids[3] /\ Len(source') = Len(source) - 1
            BY <2>1, <2>8
        <3>3. Len(Pending(1)') = 1
            BY <2>10
        <3>4. Len(Pending(1)') <= 1
            <4>1. 1 <= 1
                OBVIOUS
            <4> QED BY <3>3, <4>1
        <3> QED BY <3>1, <3>2, <3>3, <3>4
    <2>12. Pending(1)'[1] = Point(Len(output))'
        BY <2>1, <2>7, <2>10 DEF Point
    <2>13. \A m \in DOMAIN output' : output'[m] = Point(m - 1)'
        BY <2>1 DEF InLine, Point
    <2> QED BY <2>9, <2>11, <2>12, <2>13 DEF InLine
<1> QED BY <1>1, <1>2

\* The consumer sees the next point.
LEMMA LineRead ==
    ASSUME PipelineTypes, Turns, InLine, chain = Examples.lin_space, Dereference
    PROVE  InLine'
<1>0. /\ Top = 1 /\ 1 \in 1 .. Top /\ output \in Seq(Int) /\ source \in Seq(Int) /\ ids[3] \in Nat /\ Len(Pending(1)) \in Nat
      /\ Len(output) \in Nat /\ phase # "write" /\ Pending(1) \in Seq(Int)
    BY OneStage
<1>1. /\ unread[Top] /\ unread' = [unread EXCEPT ![Top] = FALSE] /\ output' = Append(output, value_[1])
      /\ UNCHANGED <<ids, source, value_, yields>>
    BY <1>0 DEF Dereference
<1>2. Len(Pending(1)) > 0 /\ Pending(1)[1] = value_[1] /\ Len(Pending(1)') = Len(Pending(1)) - 1
    <2>1. /\ Len(Pending(Top)) > 0 /\ Pending(Top)[1] = value_[Top]
          /\ \A i \in 1 .. Top : i = Top => Len(Pending(i)') = Len(Pending(Top)) - 1
        BY <1>1, ReadPending
    <2> QED BY <1>0, <2>1
<1>3. Len(Pending(1)) = 1 /\ Len(Pending(1)') = 0 /\ value_[1] = Point(Len(output))
    <2>1. Len(Pending(1)) <= 1 /\ (Pending(1) # <<>> => Pending(1)[1] = Point(Len(output)))
        BY DEF InLine
    <2>2. \A x \in Nat : x > 0 /\ x <= 1 => x = 1 /\ x - 1 = 0
        OBVIOUS
    <2>3. Len(Pending(1)) = 1 /\ Len(Pending(1)') = 0
        BY <1>0, <1>2, <2>1, <2>2
    <2>4. Pending(1) # <<>>
        BY <2>3
    <2> QED BY <1>2, <2>1, <2>3, <2>4
<1>4. Pending(1)' = <<>>
    <2>1. \A i \in 1 .. Top : i = Top => Pending(i)' = Tail(Pending(Top))
        BY <1>1, ReadPending
    <2>2. Pending(1)' = Tail(Pending(1))
        BY <1>0, <2>1
    <2> QED BY <1>0, <1>3, <2>2
<1>5. /\ Len(output') = Len(output) + 1 /\ DOMAIN output' = 1 .. Len(output) + 1
      /\ \A m \in 1 .. Len(output) : output'[m] = output[m] /\ output'[Len(output) + 1] = value_[1]
      /\ output'[Len(output) + 1] = value_[1] /\ DOMAIN output = 1 .. Len(output)
    BY <1>0, <1>1
<1>6. \A m \in DOMAIN output' : output'[m] = Point(m - 1)'
    <2> SUFFICES ASSUME NEW m \in 1 .. Len(output) + 1 PROVE output'[m] = Point(m - 1)
        BY <1>1, <1>5 DEF Point
    <2>1. CASE m <= Len(output)
        <3>1. m \in 1 .. Len(output)
            BY <1>0, <2>1
        <3> QED BY <1>5, <3>1 DEF InLine
    <2>2. CASE m = Len(output) + 1
        <3>1. m - 1 = Len(output)
            BY <1>0, <2>2
        <3> QED BY <1>3, <1>5, <2>2, <3>1
    <2> QED BY <1>0, <2>1, <2>2
<1>7. (Len(output') + Len(Pending(1)')) + Len(source') = ids'[3]
    <2>1. (Len(output) + 1) + Len(source) = ids[3]
        BY <1>3 DEF InLine
    <2>2. Len(source) \in Nat
        BY <1>0
    <2>3. /\ Len(output') = Len(output) + 1 /\ Len(Pending(1)') = 0 /\ Len(source') = Len(source) /\ ids'[3] = ids[3]
          /\ Len(output) \in Nat
        BY <1>0, <1>1, <1>3, <1>5
    <2>4. \A a, b \in Nat : ((a + 1) + 0) + b = (a + 1) + b
        OBVIOUS
    <2> QED BY <2>1, <2>2, <2>3, <2>4
<1>8. \A k \in DOMAIN source' : source'[k] = (ids'[3] - Len(source')) + (k - 1)
    BY <1>1 DEF InLine
<1>9. Len(Pending(1)') <= 1
    BY <1>3
<1> QED BY <1>4, <1>6, <1>7, <1>8, <1>9 DEF InLine

\* Every step of that pipeline.
LEMMA LinesNext ==
    ASSUME PipelineTypes, Turns, Lines, GeneratorsNext
    PROVE  Lines'
<1>1. CASE chain # Examples.lin_space
    <2>1. chain' \in {chain, Examples.read}
        BY <1>1 DEF GeneratorsNext, generator, Consume, Printed, co_yield, seq, OverRange, Returns, Draw, Use, Stops,
                    Includes, BeginAgain, Increment, Dereference, LoopEnds, Pipeline, consumer, locals, generatorsVars
    <2>2. Examples.read # Examples.lin_space
        BY FiveChains
    <2> QED BY <1>1, <2>1, <2>2 DEF Lines
<1>2. CASE chain = Examples.lin_space
    <2>0. Top = 1 /\ InLine /\ chain[1] # "seq" /\ phase \in {"lin_space", "over"} /\ 1 \in 1 .. Top
        BY <1>2, OneStage DEF Lines
    <2>1. ASSUME NEW i \in 1 .. Top, generator(i) PROVE InLine'
        <3>1. i = 1
            BY <2>0
        <3>2. CASE co_yield(i)
            <4>1. Pending(1)' = Pending(1)
                BY <2>0, <3>2, YieldKeepsPending
            <4> QED BY <2>0, <3>2, <4>1, LineStays DEF co_yield, consumer
        <3>3. CASE OverRange(i)
            BY <1>2, <2>0, <3>1, <3>3, LineTakes
        <3> QED BY <2>0, <2>1, <3>1, <3>2, <3>3 DEF generator, seq, Draw, Use, Stops, Loops
    <2>a. ASSUME UNCHANGED <<ids, source, value_, unread, yields, output>> PROVE InLine'
        <3>1. Pending(1)' = Pending(1)
            BY <2>a, MovePending
        <3> QED BY <2>0, <2>a, <3>1, LineStays
    <2>2. ASSUME Increment PROVE InLine'
        BY <2>2, <2>a DEF Increment, consumer
    <2>3. ASSUME Dereference PROVE InLine'
        BY <1>2, <2>0, <2>3, LineRead
    <2>4. ASSUME LoopEnds PROVE InLine'
        <3>1. phase # "write"
            BY <2>0
        <3> QED BY <3>1, <2>4, <2>a DEF LoopEnds
    <2>5. ASSUME Printed PROVE InLine'
        BY <2>5, <2>a DEF Printed, generatorsVars
    <2>6. ~Includes /\ ~BeginAgain
        BY <2>0 DEF Includes, BeginAgain
    <2> QED BY <2>1, <2>2, <2>3, <2>4, <2>5, <2>6 DEF Lines, GeneratorsNext, Consume
<1> QED BY <1>1, <1>2

\* When it begins, all points are left.
LEMMA LinesBegin == GeneratorsInit => Lines
<1> SUFFICES ASSUME GeneratorsInit, chain = Examples.lin_space PROVE InLine
    BY DEF Lines
<1>0. PipelineTypes
    BY PipelineBegins
<1>1. Top = 1 /\ ids[3] \in Nat /\ 1 \in 1 .. Top /\ phase \in {"lin_space", "over"}
    BY <1>0, OneStage
<1>2. source = [k \in 1 .. ids[3] |-> k - 1]
    BY <1>1 DEF GeneratorsInit
<1>3. Len(source) = ids[3] /\ DOMAIN source = 1 .. ids[3]
    BY <1>1, <1>2
<1>4. Pending(1) = <<>> /\ output = <<>>
    <2>1. ~unread[1] /\ yields[1] = <<>>
        BY <1>1 DEF GeneratorsInit, Top
    <2> QED BY <1>0, <1>1, <2>1, PendingType DEF GeneratorsInit
<1>5. \A k \in 1 .. ids[3] : source[k] = (ids[3] - Len(source)) + (k - 1)
    BY <1>1, <1>2, <1>3
<1> QED BY <1>1, <1>3, <1>4, <1>5 DEF InLine

\* In the end the points are evenly spaced between the two ends.
LEMMA LinesEnd ==
    ASSUME PipelineTypes, Turns, Lines, chain = Examples.lin_space, phase = "over"
    PROVE  EvenlySpaced(output)
<1>0. /\ Top = 1 /\ 1 \in 1 .. Top /\ output \in Seq(Int) /\ source \in Seq(Int) /\ ids[3] \in Nat /\ ids[1] \in Int
      /\ ids[2] \in Int /\ Len(output) \in Nat
    BY OneStage
<1>1. source = <<>> /\ Pending(1) = <<>>
    <2>1. frames[1] = "done" /\ source = <<>>
        BY <1>0 DEF Turns
    <2>2. yields[1] = <<>> /\ ~unread[1]
        BY <1>0, <2>1 DEF Turns
    <2> QED BY <1>0, <2>1, <2>2, PendingType
<1>2. Len(output) = ids[3]
    BY <1>0, <1>1 DEF Lines, InLine
<1> DEFINE d == ids[2] - ids[1]
<1> DEFINE first == ids[1] * (ids[3] - 1)
<1>3. \A k \in Int : Point(k) = first + (d * k)
    BY DEF Point, lin_value
<1>4. d \in Int /\ ids[2] = ids[1] + d /\ first \in Int
    BY <1>0
<1>5. Point(0) = first
    <2>1. \A x, y \in Int : x + (y * 0) = x
        OBVIOUS
    <2>2. Point(0) = first + (d * 0)
        BY <1>3
    <2> HIDE DEF d, first
    <2> QED BY <1>4, <2>1, <2>2
<1>6. Point(ids[3] - 1) = ids[2] * (ids[3] - 1)
    <2>1. \A x, y, z \in Int : (x * z) + (y * z) = (x + y) * z
        OBVIOUS
    <2>2. ids[3] - 1 \in Int
        BY <1>0
    <2>3. Point(ids[3] - 1) = first + (d * (ids[3] - 1))
        BY <1>3, <2>2
    <2>4. Point(ids[3] - 1) = (ids[1] * (ids[3] - 1)) + (d * (ids[3] - 1))
        BY <2>3
    <2> HIDE DEF d, first
    <2>5. (ids[1] * (ids[3] - 1)) + (d * (ids[3] - 1)) = (ids[1] + d) * (ids[3] - 1)
        BY <1>0, <1>4, <2>1, <2>2
    <2> QED BY <1>4, <2>4, <2>5
<1>7. ASSUME NEW j \in 2 .. Len(output) PROVE output[j] - output[j - 1] = d
    <2>1. j \in DOMAIN output /\ j - 1 \in DOMAIN output /\ j \in Int
        BY <1>0
    <2>2. output[j] = Point(j - 1) /\ output[j - 1] = Point((j - 1) - 1)
        BY <2>1 DEF Lines, InLine
    <2>3. \A x, y, z \in Int : (x + (y * (z - 1))) - (x + (y * ((z - 1) - 1))) = y
        OBVIOUS
    <2>4. first \in Int
        BY <1>4
    <2>5. output[j] = first + (d * (j - 1)) /\ output[j - 1] = first + (d * ((j - 1) - 1))
        BY <1>3, <2>1, <2>2
    <2> HIDE DEF d, first
    <2> QED BY <1>4, <2>1, <2>3, <2>4, <2>5
<1>8. ASSUME output # <<>> PROVE output[1] = ids[1] * (ids[3] - 1) /\ output[Len(output)] = ids[2] * (ids[3] - 1)
    <2>1. 1 \in DOMAIN output /\ Len(output) \in DOMAIN output
        BY <1>0, <1>8
    <2>2. output[1] = Point(1 - 1) /\ output[Len(output)] = Point(Len(output) - 1)
        BY <2>1 DEF Lines, InLine
    <2>3. 1 - 1 = 0
        OBVIOUS
    <2> QED BY <1>2, <1>5, <1>6, <2>2, <2>3
<1> QED BY <1>2, <1>7, <1>8 DEF EvenlySpaced
-----------------------------------------------------------------------------
(* The bytes of numbers that are not negative.                               *)
Code(g) == variable_encode_num[g]

\* Small numbers are one marked byte, others a byte and the rest.
LEMMA CodeOf ==
    ASSUME NEW g \in Nat
    PROVE  /\ Code(g) \in Seq(0 .. 255)
           /\ g < 128 => Code(g) = <<g + 128>>
           /\ g >= 128 => /\ g \div 128 \in Nat /\ g \div 128 < g /\ g % 128 \in 0 .. 127
                          /\ g = (g % 128) + (128 * (g \div 128))
                          /\ Code(g) = <<g % 128>> \o Code(g \div 128)
<1>1. variable_encode_num[g] \in Seq(0 .. 255) /\ variable_encode_num[g] = Encoding(variable_encode_num, g)
    BY EncodeDef DEF ToBytes
<1>2. Quotient(g, 128) = g \div 128
    BY DEF Quotient
<1>3. g \div 128 \in Nat /\ g % 128 \in 0 .. 127 /\ g = (g % 128) + (128 * (g \div 128)) /\ (g >= 128 => g \div 128 < g)
      /\ (g < 128 <=> g \div 128 = 0) /\ g - (128 * (g \div 128)) = g % 128
    OBVIOUS
<1>4. \A x \in 0 .. 255 : Byte(x) = x
    BY DEF Byte
<1>5. Byte(g - (128 * Quotient(g, 128))) = g % 128
    BY <1>2, <1>3, <1>4
<1>6. CASE g < 128
    <2>1. Quotient(g, 128) = 0 /\ Cont(Quotient(g, 128)) = 128 /\ g % 128 = g
        BY <1>2, <1>3, <1>6 DEF Cont
    <2>2. FirstByte(g) = g + 128
        <3>1. FirstByte(g) = Byte(g + 128)
            BY <1>5, <2>1 DEF FirstByte
        <3>2. g + 128 \in 0 .. 255
            BY <1>6
        <3> QED BY <1>4, <3>1, <3>2
    <2>3. Encoding(variable_encode_num, g) = <<g + 128>> \o <<>>
        BY <2>1, <2>2 DEF Encoding
    <2>4. <<g + 128>> \o <<>> = <<g + 128>>
        <3>1. <<g + 128>> \in Seq(Int)
            OBVIOUS
        <3> QED BY <3>1, ConcatEmptySeq
    <2> QED BY <1>1, <1>6, <2>3, <2>4 DEF Code
<1>7. CASE g >= 128
    <2>1. Quotient(g, 128) # 0 /\ Cont(Quotient(g, 128)) = 0
        BY <1>2, <1>3, <1>7 DEF Cont
    <2>2. FirstByte(g) = g % 128
        <3>1. FirstByte(g) = Byte((g % 128) + 0)
            BY <1>5, <2>1 DEF FirstByte
        <3>2. (g % 128) + 0 = g % 128 /\ g % 128 \in 0 .. 255
            BY <1>3
        <3> QED BY <1>4, <3>1, <3>2
    <2>3. Encoding(variable_encode_num, g) = <<g % 128>> \o Code(g \div 128)
        BY <1>2, <2>1, <2>2 DEF Encoding, Code
    <2> QED BY <1>1, <1>3, <1>7, <2>3 DEF Code
<1> QED BY <1>6, <1>7

\* Only the last byte is marked.
OnlyLastMarked(c) == /\ Len(c) \in Nat \ {0} /\ c[Len(c)] >= 128
                     /\ \A m \in 1 .. Len(c) - 1 : c[m] < 128
\* A number has bytes, and only the last of them is marked (429-433).
LEMMA CodeMarked == \A g \in Nat : OnlyLastMarked(Code(g))
<1> DEFINE S == {k \in Nat : \A g \in 0 .. k : OnlyLastMarked(Code(g))}
<1>1. ASSUME NEW g \in 0 .. 127 PROVE OnlyLastMarked(Code(g))
    <2>0. g \in Nat /\ g < 128
        OBVIOUS
    <2>1. Code(g) = <<g + 128>>
        BY <2>0, CodeOf
    <2>2. Len(<<g + 128>>) = 1 /\ <<g + 128>>[1] = g + 128
        OBVIOUS
    <2> QED BY <2>1, <2>2 DEF OnlyLastMarked
<1>2. ASSUME NEW g \in Nat, g >= 128, OnlyLastMarked(Code(g \div 128)) PROVE OnlyLastMarked(Code(g))
    <2> DEFINE r == Code(g \div 128)
    <2>1. g \div 128 \in Nat /\ g % 128 \in 0 .. 127 /\ Code(g) = <<g % 128>> \o r
        BY <1>2, CodeOf
    <2>2. r \in Seq(0 .. 255) /\ Len(r) \in Nat \ {0} /\ r[Len(r)] >= 128 /\ \A m \in 1 .. Len(r) - 1 : r[m] < 128
        BY <1>2, <2>1, CodeOf DEF OnlyLastMarked
    <2> HIDE DEF r
    <2>3. <<g % 128>> \in Seq(0 .. 255)
        BY <2>1
    <2>4. /\ Len(Code(g)) = 1 + Len(r) /\ Code(g)[1] = g % 128
          /\ \A m \in 2 .. Len(r) + 1 : Code(g)[m] = r[m - 1]
        BY <2>1, <2>2, <2>3
    <2>5. Code(g)[Len(Code(g))] >= 128
        <3>1. Len(r) + 1 \in 2 .. Len(r) + 1 /\ (Len(r) + 1) - 1 = Len(r) /\ 1 + Len(r) = Len(r) + 1
            BY <2>2
        <3> QED BY <2>2, <2>4, <3>1
    <2>6. ASSUME NEW m \in 1 .. Len(Code(g)) - 1 PROVE Code(g)[m] < 128
        <3>1. CASE m = 1
            BY <2>1, <2>4, <3>1
        <3>2. CASE m # 1
            <4>1. m \in 2 .. Len(r) + 1 /\ m - 1 \in 1 .. Len(r) - 1
                BY <2>2, <2>4, <2>6, <3>2
            <4> QED BY <2>2, <2>4, <4>1
        <3> QED BY <3>1, <3>2
    <2> QED BY <2>2, <2>4, <2>5, <2>6 DEF OnlyLastMarked
<1>3. 0 \in S
    <2>1. \A g \in 0 .. 0 : g \in 0 .. 127
        OBVIOUS
    <2> QED BY <1>1, <2>1
<1>4. ASSUME NEW k \in S PROVE k + 1 \in S
    <2>1. k \in Nat /\ \A g \in 0 .. k : OnlyLastMarked(Code(g))
        OBVIOUS
    <2>2. ASSUME NEW g \in 0 .. k + 1 PROVE OnlyLastMarked(Code(g))
        <3>1. CASE g < 128
            BY <1>1, <2>1, <3>1
        <3>2. CASE g >= 128
            <4>1. g \in Nat /\ g \div 128 \in Nat /\ g \div 128 < g
                BY <2>1, <3>2, CodeOf
            <4>2. g \div 128 \in 0 .. k
                BY <2>1, <4>1
            <4> QED BY <1>2, <2>1, <3>2, <4>1, <4>2
        <3> QED BY <2>1, <3>1, <3>2
    <2> QED BY <2>1, <2>2
<1>5. S = Nat
    <2> HIDE DEF S
    <2>1. S \in SUBSET Nat
        BY DEF S
    <2> QED BY <1>3, <1>4, <2>1, Induct
<1>6. ASSUME NEW g \in Nat PROVE OnlyLastMarked(Code(g))
    <2>1. g \in S /\ g \in 0 .. g
        BY <1>5
    <2> QED BY <2>1
<1> QED BY <1>6
-----------------------------------------------------------------------------
(* The codec of ids (244-335, 419-447): what each generator has taken, made  *)
(* and kept, in terms of the ids.                                            *)
Id(k) == IF k = 0 THEN 0 ELSE ids[k]
Gap(k) == Id(k) - Id(k - 1)
\* What is left of s to draw, and the number of what is drawn and used.
LeftOf(r, s) == Len(r) <= Len(s) /\ \A k \in DOMAIN r : r[k] = s[(Len(s) - Len(r)) + k]
Taken == Len(ids) - Len(source)
Used == Taken - Len(Pending(1))
Gaps ==
    /\ LeftOf(source, ids)
    /\ n[1] = Id(Taken) /\ Len(Pending(1)) \in {0, 1}
    /\ Pending(1) # <<>> => 0 < Taken /\ Pending(1)[1] = Gap(Taken)
\* gap_decode adds the gaps up again.
Sums ==
    /\ n[2] = Id(Used) /\ Len(Pending(2)) \in {0, 1} /\ (Pending(2) # <<>> => Pending(2)[1] = Id(Used))
    /\ Len(output) = Used - Len(Pending(2)) /\ \A m \in DOMAIN output : output[m] = ids[m]
\* The bytes of g stand in t after the first a, up to b; t is cut into the
\* bytes of the first k gaps; one byte of each is marked.
BytesAt(t, a, b, g) == /\ a + Len(Code(g)) = b /\ b <= Len(t)
                       /\ \A m \in 1 .. Len(Code(g)) : t[a + m] = Code(g)[m]
CutsAt(t, k, cut) == /\ cut \in [0 .. k -> 0 .. Len(t)] /\ cut[0] = 0 /\ cut[k] = Len(t)
                     /\ \A j \in 1 .. k : BytesAt(t, cut[j - 1], cut[j], Gap(j))
Marked(t) == {p \in DOMAIN t : t[p] >= 128}
MarksIn(t, k) == /\ IsFiniteSet(Marked(t)) /\ Cardinality(Marked(t)) = k
                 /\ t # <<>> => t[Len(t)] >= 128
EncodedIn(t, k) == MarksIn(t, k) /\ \E cut \in [0 .. k -> 0 .. Len(t)] : CutsAt(t, k, cut)
Bytes == (file \o Pending(3)) \o Pending(2)
Written ==
    /\ output = <<>> /\ Pending(2) \in Seq(0 .. 255) /\ Pending(3) \in Seq(0 .. 255)
    /\ EncodedIn(Bytes, Used)
\* The decoders: how many bytes variable_decode() has used, and how many gaps
\* it has restored; its locals and the bytes ahead make the next one.
Read == Len(file) - Len(source)
Decoded == Read - Len(Pending(1))
Restored == ((Len(output) + Len(Pending(4))) + Len(Pending(3))) + Len(Pending(2))
Summed == Restored - Len(Pending(2))
BytesFromFile ==
    /\ LeftOf(source, file)
    /\ Len(Pending(1)) \in {0, 1} /\ (Pending(1) # <<>> => 0 < Read /\ Pending(1)[1] = file[Read])
NextGap(cut) ==
    IF Restored = Len(ids) THEN Decoded = Len(file)
    ELSE \E rest \in Nat : /\ n[2] + (weight[2] * rest) = Gap(Restored + 1)
                           /\ BytesAt(file, Decoded, cut[Restored + 1], rest)
InProgress ==
    /\ Restored <= Len(ids)
    /\ \E cut \in [0 .. Len(ids) -> 0 .. Len(file)] : CutsAt(file, Len(ids), cut) /\ NextGap(cut)
IdsBack ==
    /\ Len(Pending(2)) \in {0, 1} /\ (Pending(2) # <<>> => Pending(2)[1] = Gap(Restored))
    /\ n[3] = Id(Summed)
    /\ Len(Pending(3)) \in {0, 1} /\ (Pending(3) # <<>> => Pending(3)[1] = Id(Summed))
    /\ Len(Pending(4)) \in {0, 1} /\ (Pending(4) # <<>> => Pending(4)[1] = Id(Len(output) + 1))
    /\ \A m \in DOMAIN output : output[m] = ids[m]
Restores == MarksIn(file, Len(ids)) /\ BytesFromFile /\ InProgress /\ IdsBack
Codec ==
    /\ chain \in {Examples.decoded, Examples.write} => Gaps
    /\ chain = Examples.decoded => Sums
    /\ chain = Examples.write /\ Ascends(ids) => Written
    /\ chain = Examples.read /\ Ascends(ids) => Restores

\* A concatenation, element by element.
LEMMA Joined ==
    ASSUME NEW S, NEW t \in Seq(S), NEW c \in Seq(S)
    PROVE  /\ t \o c \in Seq(S) /\ Len(t \o c) = Len(t) + Len(c) /\ Len(t) \in Nat /\ Len(c) \in Nat
           /\ DOMAIN t = 1 .. Len(t) /\ DOMAIN (t \o c) = 1 .. Len(t) + Len(c)
           /\ \A m \in 1 .. Len(t) : (t \o c)[m] = t[m]
           /\ \A m \in 1 .. Len(c) : (t \o c)[Len(t) + m] = c[m]
<1>1. /\ t \o c \in Seq(S) /\ Len(t \o c) = Len(t) + Len(c) /\ Len(t) \in Nat /\ Len(c) \in Nat
      /\ \A m \in 1 .. Len(t) : (t \o c)[m] = t[m]
    OBVIOUS
<1>2. \A m \in 1 .. Len(c) : (t \o c)[Len(t) + m] = c[m]
    OBVIOUS
<1>3. DOMAIN t = 1 .. Len(t) /\ DOMAIN (t \o c) = 1 .. Len(t) + Len(c)
    BY <1>1
<1> QED BY <1>1, <1>2, <1>3

\* The bytes of one more number add one mark, at the end.
LEMMA MarksGrow ==
    ASSUME NEW t \in Seq(0 .. 255), NEW k \in Nat, MarksIn(t, k), NEW c \in Seq(0 .. 255), OnlyLastMarked(c)
    PROVE  MarksIn(t \o c, k + 1)
<1> DEFINE u == t \o c
           last == Len(t) + Len(c)
<1>1. /\ u \in Seq(0 .. 255) /\ Len(u) = last /\ Len(t) \in Nat /\ DOMAIN t = 1 .. Len(t) /\ DOMAIN u = 1 .. last
      /\ (\A m \in 1 .. Len(t) : u[m] = t[m]) /\ (\A m \in 1 .. Len(c) : u[Len(t) + m] = c[m])
    BY Joined
<1>2. Len(c) \in Nat \ {0} /\ c[Len(c)] >= 128 /\ \A m \in 1 .. Len(c) - 1 : c[m] < 128
    BY DEF OnlyLastMarked
<1>3. last \in Nat \ {0} /\ last > Len(t)
    BY <1>1, <1>2
<1>4. u[last] >= 128
    <2>1. Len(c) \in 1 .. Len(c)
        BY <1>2
    <2> QED BY <1>1, <1>2, <2>1
<1> HIDE DEF u
<1>5. ASSUME NEW p \in 1 .. last PROVE u[p] >= 128 <=> p \in Marked(t) \/ p = last
    <2>1. CASE p <= Len(t)
        <3>1. p \in 1 .. Len(t) /\ p # last
            BY <1>1, <1>3, <2>1
        <3> QED BY <1>1, <3>1 DEF Marked
    <2>2. CASE p > Len(t)
        <3>1. p - Len(t) \in 1 .. Len(c) /\ Len(t) + (p - Len(t)) = p
            BY <1>1, <1>2, <2>2
        <3>2. u[p] = c[p - Len(t)]
            BY <1>1, <3>1
        <3>3. p \notin Marked(t)
            BY <1>1, <2>2 DEF Marked
        <3>4. CASE p = last
            BY <1>4, <3>4
        <3>5. CASE p # last
            <4>1. p - Len(t) \in 1 .. Len(c) - 1
                BY <1>1, <1>2, <3>1, <3>5
            <4>2. c[p - Len(t)] < 128
                BY <1>2, <4>1
            <4>3. c[p - Len(t)] \in 0 .. 255
                <5>1. c \in [1 .. Len(c) -> 0 .. 255]
                    BY LenProperties
                <5> QED BY <3>1, <5>1
            <4>4. ~(u[p] >= 128)
                <5> DEFINE x == c[p - Len(t)]
                <5>1. x < 128 /\ x \in 0 .. 255 /\ u[p] = x
                    BY <3>2, <4>2, <4>3
                <5> HIDE DEF x
                <5> QED BY <5>1
            <4> QED BY <3>3, <3>5, <4>4
        <3> QED BY <3>4, <3>5
    <2> QED BY <1>1, <2>1, <2>2
<1>6. Marked(u) = Marked(t) \cup {last}
    <2>1. Marked(t) \subseteq 1 .. last
        BY <1>1, <1>3 DEF Marked
    <2>2. last \in 1 .. last
        BY <1>3
    <2> QED BY <1>1, <1>5, <2>1, <2>2 DEF Marked
<1>7. last \notin Marked(t)
    BY <1>1, <1>3 DEF Marked
<1>8. IsFiniteSet(Marked(u)) /\ Cardinality(Marked(u)) = k + 1
    <2>1. IsFiniteSet(Marked(t)) /\ Cardinality(Marked(t)) = k
        BY DEF MarksIn
    <2> QED BY <1>6, <1>7, <2>1, FS_AddElement
<1>9. u[Len(u)] >= 128
    BY <1>1, <1>4
<1> QED BY <1>8, <1>9 DEF MarksIn, u

\* They add one cut.
LEMMA CutsGrow ==
    ASSUME NEW t \in Seq(0 .. 255), NEW k \in Nat, NEW cut \in [0 .. k -> 0 .. Len(t)], CutsAt(t, k, cut),
           Gap(k + 1) \in Nat
    PROVE  \E next \in [0 .. k + 1 -> 0 .. Len(t \o Code(Gap(k + 1)))] : CutsAt(t \o Code(Gap(k + 1)), k + 1, next)
<1> DEFINE c == Code(Gap(k + 1))
           u == t \o c
           last == Len(t) + Len(c)
           next == [j \in 0 .. k + 1 |-> IF j = k + 1 THEN last ELSE cut[j]]
<1>1. c \in Seq(0 .. 255)
    BY CodeOf
<1>2. /\ u \in Seq(0 .. 255) /\ Len(u) = last /\ Len(t) \in Nat /\ Len(c) \in Nat
      /\ (\A m \in 1 .. Len(t) : u[m] = t[m]) /\ (\A m \in 1 .. Len(c) : u[Len(t) + m] = c[m])
    BY <1>1, Joined
<1>3. cut[0] = 0 /\ cut[k] = Len(t) /\ \A j \in 1 .. k : BytesAt(t, cut[j - 1], cut[j], Gap(j))
    BY DEF CutsAt
<1>4. \A j \in 0 .. k : j \in 0 .. k + 1 /\ j # k + 1
    OBVIOUS
<1> HIDE DEF c, u
<1>5. \A j \in 0 .. k : next[j] = cut[j] /\ cut[j] \in 0 .. last
    BY <1>2, <1>4
<1>6. k + 1 \in 0 .. k + 1 /\ next[k + 1] = last /\ last \in 0 .. last
    BY <1>2
<1>7. next \in [0 .. k + 1 -> 0 .. last]
    <2>1. \A j \in 0 .. k + 1 : j = k + 1 \/ j \in 0 .. k
        OBVIOUS
    <2> QED BY <1>5, <1>6, <2>1
<1>8. next[0] = 0 /\ next[k] = Len(t)
    <2>1. 0 \in 0 .. k /\ k \in 0 .. k
        OBVIOUS
    <2> QED BY <1>3, <1>5, <2>1
<1> HIDE DEF next
<1>9. ASSUME NEW j \in 1 .. k + 1 PROVE BytesAt(u, next[j - 1], next[j], Gap(j))
    <2>1. CASE j = k + 1
        <3>1. j - 1 = k
            BY <2>1
        <3>2. next[j - 1] = Len(t) /\ next[j] = last /\ Code(Gap(j)) = c
            BY <1>6, <1>8, <2>1, <3>1 DEF c
        <3> QED BY <1>2, <3>2 DEF BytesAt
    <2>2. CASE j # k + 1
        <3>1. j \in 1 .. k /\ j \in 0 .. k /\ j - 1 \in 0 .. k
            BY <2>2
        <3>2. next[j] = cut[j] /\ next[j - 1] = cut[j - 1] /\ cut[j - 1] \in Nat /\ BytesAt(t, cut[j - 1], cut[j], Gap(j))
            BY <1>3, <1>5, <3>1
        <3>3. /\ cut[j - 1] + Len(Code(Gap(j))) = cut[j] /\ cut[j] <= Len(t) /\ cut[j] \in Nat
              /\ \A m \in 1 .. Len(Code(Gap(j))) : t[cut[j - 1] + m] = Code(Gap(j))[m]
            BY <3>1, <3>2 DEF BytesAt
        <3>4. ASSUME NEW m \in 1 .. Len(Code(Gap(j))) PROVE u[cut[j - 1] + m] = Code(Gap(j))[m]
            <4> DEFINE l == Len(Code(Gap(j)))
            <4>1. l \in Int
                <5>1. CASE l \in Int
                    BY <5>1
                <5>2. CASE l \notin Int
                    BY <3>3, <5>2
                <5> QED BY <5>1, <5>2
            <4> HIDE DEF l
            <4>2. cut[j - 1] + m \in 1 .. Len(t)
                <5>1. m \in 1 .. l
                    BY DEF l
                <5>2. cut[j - 1] \in Nat /\ cut[j - 1] + l <= Len(t) /\ Len(t) \in Nat
                    BY <1>2, <3>2, <3>3 DEF l
                <5>3. \A a \in Nat, b \in Int, p \in Nat : a + b <= p => \A x \in 1 .. b : a + x \in 1 .. p
                    OBVIOUS
                <5> QED BY <4>1, <5>1, <5>2, <5>3
            <4> QED BY <1>2, <3>3, <4>2
        <3>5. cut[j] <= Len(u)
            BY <1>2, <3>3
        <3> QED BY <3>2, <3>3, <3>4, <3>5 DEF BytesAt
    <2> QED BY <2>1, <2>2
<1>10. next \in [0 .. k + 1 -> 0 .. Len(u)] /\ CutsAt(u, k + 1, next)
    BY <1>2, <1>6, <1>7, <1>8, <1>9 DEF CutsAt
<1> QED BY <1>10 DEF u, c

\* So the bytes of one more gap keep the encoding.
LEMMA EncodedGrows ==
    ASSUME NEW t \in Seq(0 .. 255), NEW k \in Nat, EncodedIn(t, k), Gap(k + 1) \in Nat
    PROVE  EncodedIn(t \o Code(Gap(k + 1)), k + 1)
<1>1. PICK cut \in [0 .. k -> 0 .. Len(t)] : CutsAt(t, k, cut)
    BY DEF EncodedIn
<1>2. \E next \in [0 .. k + 1 -> 0 .. Len(t \o Code(Gap(k + 1)))] : CutsAt(t \o Code(Gap(k + 1)), k + 1, next)
    BY <1>1, CutsGrow
<1>3. Code(Gap(k + 1)) \in Seq(0 .. 255) /\ OnlyLastMarked(Code(Gap(k + 1)))
    BY CodeOf, CodeMarked
<1>4. MarksIn(t \o Code(Gap(k + 1)), k + 1)
    BY <1>3, MarksGrow DEF EncodedIn
<1> QED BY <1>2, <1>4 DEF EncodedIn
-----------------------------------------------------------------------------
(* What a step of the codec's pipelines hands over.                          *)
CodecChains == {Examples.decoded, Examples.write, Examples.read}
Quiet == (\A j \in 1 .. Top : Pending(j)' = Pending(j)) /\ UNCHANGED <<chain, ids, source, n, weight, output, file>>
Loads ==
    LET body == Does(chain[1], Head(source), n[1], weight[1])
    IN  /\ source # <<>> /\ source' = Tail(source) /\ Pending(1) = <<>> /\ Pending(1)' = body.out
        /\ n' = [n EXCEPT ![1] = body.n] /\ \A j \in 2 .. Top : Pending(j)' = Pending(j)
        /\ UNCHANGED <<chain, ids, weight, output, file>>
Passes(k, i) ==
    LET body == Does(chain[i], Pending(k)[1], n[i], weight[i])
    IN  /\ Pending(i) = <<>> /\ Pending(i)' = body.out /\ Len(Pending(k)) > 0 /\ Pending(k)' = Tail(Pending(k))
        /\ n' = [n EXCEPT ![i] = body.n] /\ weight' = [weight EXCEPT ![i] = body.weight]
        /\ (\A j \in 1 .. Top : j # i /\ j # k => Pending(j)' = Pending(j))
        /\ UNCHANGED <<chain, ids, source, output, file>>
Delivers(k) ==
    /\ Len(Pending(k)) > 0 /\ Pending(k)' = Tail(Pending(k))
    /\ (\A j \in 1 .. Top : j # k => Pending(j)' = Pending(j)) /\ UNCHANGED <<chain, ids, source, n, weight>>
    /\ IF phase = "write" THEN file' = Append(file, Byte(Pending(k)[1])) /\ UNCHANGED output
                          ELSE output' = Append(output, Pending(k)[1]) /\ UNCHANGED file
Reopens == phase = "write" /\ frames[Top] = "done" /\ Pipeline("read", file) /\ UNCHANGED <<ids, output, file>>

\* The stages of the codec.
LEMMA CodecStages ==
    ASSUME PipelineTypes, chain \in CodecChains
    PROVE  /\ Top = Len(chain) /\ 1 \in 1 .. Top /\ Top \in 2 .. 4 /\ phase \in {"decoded", "write", "read", "over"}
           /\ (phase = "write" <=> chain = Examples.write)
           /\ \A i \in 1 .. Top : chain[i] # "seq" /\ chain[i] # "take_until" /\ chain[i] # "lin_space_coroutine"
           /\ chain # Examples.includes /\ chain # Examples.lin_space /\ ids \in Seq(Int)
<1>1. CASE chain = Examples.decoded
    BY <1>1, FiveChains, Stages DEF PipelineTypes, Phases, Top
<1>2. CASE chain = Examples.write
    BY <1>2, FiveChains, Stages DEF PipelineTypes, Phases, Top
<1>3. CASE chain = Examples.read
    <2>1. chain # Examples.includes /\ chain # Examples.lin_space /\ chain # Examples.write /\ Top = 4
        BY <1>3, FiveChains DEF Top
    <2>2. ids \in Seq(Int) /\ phase \in {"read", "over"}
        BY <1>3, <2>1 DEF PipelineTypes, Phases
    <2>3. \A i \in 1 .. Top : chain[i] # "seq" /\ chain[i] # "take_until" /\ chain[i] # "lin_space_coroutine"
        BY <1>3, <2>1, Stages
    <2> QED BY <2>1, <2>2, <2>3 DEF Top
<1> QED BY <1>1, <1>2, <1>3 DEF CodecChains

\* A generator's body takes the next value of the one below.
LEMMA UsePasses ==
    ASSUME PipelineTypes, Turns, NEW i \in 1 .. Top, Use(i), NEW k, k = i - 1
    PROVE  Passes(k, i) /\ k \in 1 .. Top
<1>1. /\ i - 1 \in 1 .. Top /\ Pending(i) = <<>>
      /\ Pending(i)' = Does(chain[i], value_[i - 1], n[i], weight[i]).out
      /\ Len(Pending(i - 1)) > 0 /\ Pending(i - 1)[1] = value_[i - 1]
      /\ Pending(i - 1)' = Tail(Pending(i - 1))
      /\ \A j \in 1 .. Top : j # i /\ j # i - 1 => Pending(j)' = Pending(j)
    BY UsePending
<1>2. /\ n' = [n EXCEPT ![i] = Does(chain[i], value_[i - 1], n[i], weight[i]).n]
      /\ weight' = [weight EXCEPT ![i] = Does(chain[i], value_[i - 1], n[i], weight[i]).weight]
      /\ UNCHANGED <<chain, ids, source, output, file>>
    BY DEF Use, consumer
<1> QED BY <1>1, <1>2 DEF Passes

\* The consumer takes the next value of the last one.
LEMMA DereferenceDelivers ==
    ASSUME PipelineTypes, Turns, Dereference, NEW k \in 1 .. Top, k = Top
    PROVE  Delivers(k)
<1>1. /\ unread[Top] /\ unread' = [unread EXCEPT ![Top] = FALSE] /\ UNCHANGED <<chain, ids, source, n, weight, value_, yields>>
      /\ IF phase = "write" THEN file' = Append(file, Byte(value_[Top])) /\ UNCHANGED output
                            ELSE output' = Append(output, value_[Top]) /\ UNCHANGED file
    BY DEF Dereference, locals
<1>2. /\ Len(Pending(Top)) > 0 /\ Pending(Top)[1] = value_[Top]
      /\ \A i \in 1 .. Top : i = Top => Pending(i)' = Tail(Pending(Top))
      /\ \A j \in 1 .. Top : j # Top => Pending(j)' = Pending(j)
    BY <1>1, ReadPending
<1>3. /\ Len(Pending(k)) > 0 /\ Pending(k)[1] = value_[Top] /\ Pending(k)' = Tail(Pending(k))
      /\ \A j \in 1 .. Top : j # k => Pending(j)' = Pending(j)
    BY <1>2
<1> QED BY <1>1, <1>3 DEF Delivers

\* The loops over a range.
LEMMA RangeLoads ==
    ASSUME PipelineTypes, Turns, chain \in CodecChains, OverRange(1)
    PROVE  Quiet \/ Loads
<1>1. CASE source = <<>> /\ Returns(1)
    <2>1. UNCHANGED <<unread, value_, yields>> /\ UNCHANGED <<chain, ids, source, n, weight, output, file>>
        BY <1>1 DEF Returns, locals, consumer
    <2>2. \A j \in 1 .. Top : Pending(j)' = Pending(j)
        BY <2>1, MovePending
    <2> QED BY <2>1, <2>2 DEF Quiet
<1>2. CASE ~(source = <<>> /\ Returns(1))
    <2> DEFINE body == Does(chain[1], Head(source), n[1], weight[1])
    <2>1. /\ source # <<>> /\ source' = Tail(source) /\ UNCHANGED <<chain, ids, unread, value_, weight, output, file>>
          /\ frames[1] = "running" /\ yields[1] = <<>> /\ yields' = [yields EXCEPT ![1] = body.out]
          /\ n' = [n EXCEPT ![1] = body.n]
        BY <1>2 DEF OverRange, consumer
    <2>2. body.out \in Seq(Int)
        <3>1. 1 \in 1 .. Top /\ chain[1] # "lin_space_coroutine"
            BY CodecStages
        <3>2. n[1] \in Int /\ weight[1] \in Nat \ {0} /\ source \in Seq(Int)
            BY <3>1 DEF PipelineTypes
        <3>3. Head(source) \in Int
            BY <2>1, <3>2
        <3> QED BY <3>1, <3>2, <3>3, DoesTypes
    <2>3. 1 \in 1 .. Top /\ Top \in Nat
        BY CodecStages
    <2> HIDE DEF body
    <2>4. Pending(1) = <<>> /\ Pending(1)' = body.out /\ \A j \in 1 .. Top : j # 1 => Pending(j)' = Pending(j)
        BY <2>1, <2>2, <2>3, WorkPending
    <2>5. \A j \in 2 .. Top : j \in 1 .. Top /\ j # 1
        OBVIOUS
    <2> QED BY <2>1, <2>4, <2>5 DEF Loads, body
<1> QED BY <1>1, <1>2

\* Every step of the codec.
LEMMA CodecSteps ==
    ASSUME PipelineTypes, Turns, chain \in CodecChains, GeneratorsNext
    PROVE  Quiet \/ Loads \/ (\E i \in 2 .. Top, k \in 1 .. Top : k = i - 1 /\ Passes(k, i))
             \/ (\E k \in 1 .. Top : k = Top /\ Delivers(k)) \/ Reopens
<1>1. ASSUME UNCHANGED <<unread, value_, yields>>, UNCHANGED <<chain, ids, source, n, weight, output, file>> PROVE Quiet
    <2>1. \A j \in 1 .. Top : Pending(j)' = Pending(j)
        BY <1>1, MovePending
    <2> QED BY <1>1, <2>1 DEF Quiet
<1>2. ASSUME NEW i \in 1 .. Top, generator(i) PROVE Quiet \/ Loads \/ (\E j \in 2 .. Top, k \in 1 .. Top : k = j - 1 /\ Passes(k, j))
    <2>1. CASE co_yield(i)
        <3>1. \A j \in 1 .. Top : Pending(j)' = Pending(j)
            BY <2>1, YieldKeepsPending
        <3>2. UNCHANGED <<chain, ids, source, n, weight, output, file>>
            BY <2>1 DEF co_yield, locals, consumer
        <3> QED BY <3>1, <3>2 DEF Quiet
    <2>2. CASE OverRange(i)
        <3>1. i = 1
            <4>1. chain \in Chains /\ DOMAIN chain = 1 .. Top
                BY FirstStage DEF PipelineTypes, Top
            <4> QED BY <2>2, <4>1, FirstStage DEF OverRange
        <3> QED BY <2>2, <3>1, RangeLoads
    <2>3. CASE Draw(i)
        BY <1>1, <2>3 DEF Draw, locals, consumer
    <2>4. CASE Use(i)
        <3> DEFINE k == i - 1
        <3>1. Passes(k, i) /\ k \in 1 .. Top
            BY <2>4, UsePasses
        <3>2. i \in 2 .. Top
            BY <3>1
        <3> QED BY <3>1, <3>2
    <2>5. CASE Stops(i)
        BY <1>1, <2>5 DEF Stops, Returns, locals, consumer
    <2>6. ~seq(i)
        BY CodecStages DEF seq
    <2> QED BY <1>2, <2>1, <2>2, <2>3, <2>4, <2>5, <2>6 DEF generator
<1>3. ASSUME Increment PROVE Quiet
    BY <1>1, <1>3 DEF Increment, locals, consumer
<1>4. ASSUME Dereference PROVE \E k \in 1 .. Top : k = Top /\ Delivers(k)
    <2>1. Top \in 1 .. Top
        BY SameTop
    <2> QED BY <1>4, <2>1, DereferenceDelivers
<1>5. ASSUME LoopEnds PROVE Quiet \/ Reopens
    <2>1. CASE phase = "write"
        BY <1>5, <2>1 DEF LoopEnds, Reopens
    <2>2. CASE phase # "write"
        BY <1>1, <1>5, <2>2 DEF LoopEnds, locals
    <2> QED BY <2>1, <2>2
<1>6. ASSUME Printed PROVE Quiet
    BY <1>1, <1>6 DEF Printed, generatorsVars
<1>7. ~Includes /\ ~BeginAgain
    BY CodecStages DEF Includes, BeginAgain
<1> QED BY <1>2, <1>3, <1>4, <1>5, <1>6, <1>7 DEF GeneratorsNext, Consume
-----------------------------------------------------------------------------
\* The next value of a range.
LEMMA LeftTail ==
    ASSUME NEW S, NEW r \in Seq(S), NEW s \in Seq(S), LeftOf(r, s), r # <<>>
    PROVE  /\ LeftOf(Tail(r), s) /\ Len(Tail(r)) = Len(r) - 1 /\ (Len(s) - Len(r)) + 1 \in 1 .. Len(s)
           /\ Head(r) = s[(Len(s) - Len(r)) + 1] /\ Tail(r) \in Seq(S) /\ Len(r) \in Nat /\ Len(s) \in Nat
<1>1. Len(r) \in Nat \ {0} /\ Len(s) \in Nat /\ Len(Tail(r)) = Len(r) - 1 /\ Tail(r) \in Seq(S) /\ Head(r) = r[1]
      /\ DOMAIN r = 1 .. Len(r)
    OBVIOUS
<1>2. \A k \in DOMAIN Tail(r) : k \in 1 .. Len(r) - 1 /\ Tail(r)[k] = r[k + 1]
    OBVIOUS
<1>3. Len(r) <= Len(s) /\ \A k \in 1 .. Len(r) : r[k] = s[(Len(s) - Len(r)) + k]
    BY <1>1 DEF LeftOf
<1>4. ASSUME NEW k \in DOMAIN Tail(r) PROVE Tail(r)[k] = s[(Len(s) - Len(Tail(r))) + k]
    <2>1. k + 1 \in 1 .. Len(r) /\ Tail(r)[k] = r[k + 1] /\ k \in Int
        BY <1>1, <1>2
    <2>2. (Len(s) - Len(r)) + (k + 1) = (Len(s) - (Len(r) - 1)) + k
        BY <1>1, <2>1
    <2> QED BY <1>1, <1>3, <2>1, <2>2
<1>5. Len(Tail(r)) <= Len(s)
    BY <1>1, <1>3
<1>6. Head(r) = s[(Len(s) - Len(r)) + 1]
    <2>1. 1 \in 1 .. Len(r)
        BY <1>1
    <2> QED BY <1>1, <1>3, <2>1
<1>7. (Len(s) - Len(r)) + 1 \in 1 .. Len(s)
    BY <1>1, <1>3
<1> QED BY <1>1, <1>4, <1>5, <1>6, <1>7 DEF LeftOf

\* The values of the pipelines that encode gaps.
LEMMA GapStages ==
    ASSUME PipelineTypes, chain \in {Examples.decoded, Examples.write}
    PROVE  /\ chain \in CodecChains /\ Top \in {2, 3} /\ chain[1] = "gap_encode"
           /\ (chain = Examples.decoded => Top = 2 /\ chain[2] = "gap_decode")
           /\ (chain = Examples.write => Top = 3 /\ chain[2] = "variable_encode" /\ chain[3] = "compress")
           /\ (chain = Examples.decoded <=> chain # Examples.write)
           /\ ids \in Seq(Int) /\ source \in Seq(Int) /\ Len(ids) \in Nat /\ Len(source) \in Nat /\ Taken \in Int
           /\ 1 \in 1 .. Top /\ 2 \in 1 .. Top /\ Pending(1) \in Seq(Int) /\ Pending(2) \in Seq(Int)
           /\ n[1] \in Int /\ n[2] \in Int /\ n \in [1 .. Top -> Int] /\ output \in Seq(Int) /\ Used \in Int
<1>1. /\ chain \in CodecChains /\ Top \in {2, 3} /\ chain[1] = "gap_encode"
      /\ (chain = Examples.decoded => Top = 2 /\ chain[2] = "gap_decode")
      /\ (chain = Examples.write => Top = 3 /\ chain[2] = "variable_encode" /\ chain[3] = "compress")
    BY FiveChains, Stages DEF Top, CodecChains
<1>2. 1 \in 1 .. Top /\ 2 \in 1 .. Top
    BY <1>1
<1>3. Pending(1) \in Seq(Int) /\ Pending(2) \in Seq(Int) /\ Len(Pending(1)) \in Nat
    BY <1>2, PendingType
<1>4. /\ ids \in Seq(Int) /\ source \in Seq(Int) /\ Len(ids) \in Nat /\ Len(source) \in Nat
      /\ n[1] \in Int /\ n[2] \in Int /\ n \in [1 .. Top -> Int] /\ output \in Seq(Int)
    <2>1. ids \in Seq(Int)
        BY <1>1, CodecStages
    <2>2. source \in Seq(Int) /\ n \in [1 .. Top -> Int] /\ output \in Seq(Int)
        BY DEF PipelineTypes
    <2> QED BY <1>2, <2>1, <2>2
<1>5. Taken \in Int /\ Used \in Int
    BY <1>3, <1>4 DEF Taken, Used
<1> QED BY <1>1, <1>2, <1>3, <1>4, <1>5

\* Steps of others change nothing here.
LEMMA GapsStay ==
    ASSUME Gaps, Pending(1)' = Pending(1), UNCHANGED <<ids, source>>, n'[1] = n[1]
    PROVE  Gaps' /\ Used' = Used
BY DEF Gaps, Taken, Used, Id, Gap

\* gap_encode takes an id (244-255).
LEMMA GapsLoad ==
    ASSUME PipelineTypes, Gaps, chain \in {Examples.decoded, Examples.write}, Loads
    PROVE  Gaps' /\ Used' = Used
<1> DEFINE v == Head(source)
<1>0. /\ ids \in Seq(Int) /\ source \in Seq(Int) /\ Len(ids) \in Nat /\ Len(source) \in Nat /\ chain[1] = "gap_encode"
      /\ n \in [1 .. Top -> Int] /\ 1 \in 1 .. Top /\ n[1] = Id(Taken) /\ LeftOf(source, ids)
    BY GapStages DEF Gaps
<1>1. /\ source # <<>> /\ source' = Tail(source) /\ Pending(1) = <<>> /\ ids' = ids
      /\ Pending(1)' = Does(chain[1], v, n[1], weight[1]).out /\ n' = [n EXCEPT ![1] = Does(chain[1], v, n[1], weight[1]).n]
    BY DEF Loads
<1>2. Does(chain[1], v, n[1], weight[1]).out = <<v - n[1]>> /\ Does(chain[1], v, n[1], weight[1]).n = v
    BY <1>0 DEF Does, Effect
<1>3. LeftOf(source', ids) /\ Len(source') = Len(source) - 1 /\ Taken + 1 \in 1 .. Len(ids) /\ v = ids[Taken + 1]
    BY <1>0, <1>1, LeftTail DEF Taken
<1>4. Taken' = Taken + 1 /\ Taken \in Nat /\ Taken + 1 > 0
    <2>1. Taken' = Len(ids) - (Len(source) - 1)
        BY <1>1, <1>3 DEF Taken
    <2>2. Taken \in Int
        BY <1>0 DEF Taken
    <2>3. Taken' = Taken + 1
        BY <1>0, <2>1 DEF Taken
    <2> QED BY <1>3, <2>2, <2>3
<1> HIDE DEF v
<1>5. Id(Taken + 1) = v /\ n[1] = Id(Taken)
    BY <1>0, <1>3, <1>4 DEF Id
<1>6. n'[1] = v /\ Pending(1)' = <<v - n[1]>>
    BY <1>0, <1>1, <1>2
<1>7. Gap(Taken + 1) = v - n[1]
    <2>1. (Taken + 1) - 1 = Taken
        BY <1>4
    <2> QED BY <1>5, <2>1 DEF Gap
<1>8. Len(Pending(1)') = 1 /\ Pending(1)'[1] = Gap(Taken + 1) /\ Pending(1)' # <<>>
    <2>1. Len(Pending(1)') = 1 /\ Pending(1)'[1] = Gap(Taken + 1)
        BY <1>6, <1>7
    <2> QED BY <2>1
<1>9. n'[1] = Id(Taken)' /\ Gap(Taken)' = Gap(Taken + 1)
    <2>1. Id(Taken)' = Id(Taken + 1)
        BY <1>1, <1>4 DEF Id
    <2>2. Gap(Taken)' = Gap(Taken + 1)
        BY <1>1, <1>4 DEF Id, Gap
    <2> QED BY <1>5, <1>6, <2>1, <2>2
<1>10. Used' = Used
    <2>1. Len(Pending(1)) = 0
        BY <1>1
    <2>2. Used = Taken - 0 /\ Used' = (Taken + 1) - 1
        BY <1>4, <1>8, <2>1 DEF Used
    <2> QED BY <1>4, <2>2
<1>11. LeftOf(source, ids)'
    BY <1>1, <1>3 DEF LeftOf
<1>12. 0 < Taken' /\ Pending(1)'[1] = Gap(Taken)' /\ Len(Pending(1)') \in {0, 1}
    BY <1>4, <1>8, <1>9
<1> QED BY <1>9, <1>10, <1>11, <1>12 DEF Gaps

\* The generator above takes the gap of the next id.
LEMMA GapsPass ==
    ASSUME PipelineTypes, Gaps, chain \in {Examples.decoded, Examples.write}, Passes(1, 2)
    PROVE  /\ Gaps' /\ Used' = Used + 1 /\ Pending(1)[1] = Gap(Used + 1) /\ Used \in Nat /\ Used + 1 \in 1 .. Len(ids)
           /\ Used + 1 = Taken
<1>0. /\ Len(ids) \in Nat /\ Len(source) \in Nat /\ Taken \in Int /\ Len(source) <= Len(ids) /\ Pending(1) \in Seq(Int)
      /\ n \in [1 .. Top -> Int] /\ 1 \in 1 .. Top /\ Len(Pending(1)) \in {0, 1}
      /\ (Pending(1) # <<>> => 0 < Taken /\ Pending(1)[1] = Gap(Taken))
    BY GapStages DEF Gaps, LeftOf
<1>1. /\ Len(Pending(1)) > 0 /\ Pending(1)' = Tail(Pending(1)) /\ UNCHANGED <<ids, source>>
      /\ n' = [n EXCEPT ![2] = Does(chain[2], Pending(1)[1], n[2], weight[2]).n]
    BY DEF Passes
<1>2. Len(Pending(1)) = 1 /\ Pending(1) # <<>> /\ Pending(1)' = <<>>
    BY <1>0, <1>1
<1>3. Taken' = Taken /\ n'[1] = n[1]
    BY <1>0, <1>1 DEF Taken
<1>4. Used = Taken - 1 /\ Used' = Taken - 0 /\ 0 < Taken /\ Pending(1)[1] = Gap(Taken) /\ Taken <= Len(ids)
    <2>1. Len(Pending(1)') = 0
        BY <1>2
    <2>2. Used = Taken - 1 /\ Used' = Taken - 0
        BY <1>2, <1>3, <2>1 DEF Used
    <2>3. Taken <= Len(ids)
        BY <1>0 DEF Taken
    <2> QED BY <1>0, <1>2, <2>2, <2>3
<1>5. Used + 1 = Taken /\ Used' = Used + 1 /\ Used \in Nat /\ Used + 1 \in 1 .. Len(ids)
    BY <1>0, <1>4
<1>6. Gaps'
    <2>1. LeftOf(source, ids)'
        BY <1>1 DEF Gaps, LeftOf
    <2>2. n'[1] = Id(Taken)'
        BY <1>1, <1>3 DEF Gaps, Id
    <2>3. Len(Pending(1)') \in {0, 1} /\ Pending(1)' = <<>>
        BY <1>2
    <2> QED BY <2>1, <2>2, <2>3 DEF Gaps
<1> QED BY <1>4, <1>5, <1>6
-----------------------------------------------------------------------------
\* gap_decode adds up what gap_encode took apart (257-266).
LEMMA SumsStay ==
    ASSUME Sums, Pending(2)' = Pending(2), n'[2] = n[2], Used' = Used, UNCHANGED <<ids, output>>
    PROVE  Sums'
BY DEF Sums, Id

\* It takes a gap.
LEMMA SumsPass ==
    ASSUME PipelineTypes, Gaps, Sums, chain = Examples.decoded, Passes(1, 2)
    PROVE  Sums'
<1> DEFINE v == Pending(1)[1]
<1>0. chain[2] = "gap_decode" /\ n \in [1 .. Top -> Int] /\ 2 \in 1 .. Top /\ output \in Seq(Int) /\ ids \in Seq(Int)
    BY GapStages
<1>1. Used' = Used + 1 /\ v = Gap(Used + 1) /\ Used \in Nat /\ Used + 1 \in 1 .. Len(ids)
    BY GapsPass
<1>2. /\ Pending(2) = <<>> /\ Pending(2)' = Does(chain[2], v, n[2], weight[2]).out
      /\ n' = [n EXCEPT ![2] = Does(chain[2], v, n[2], weight[2]).n] /\ UNCHANGED <<ids, output>>
    BY DEF Passes
<1>3. Does(chain[2], v, n[2], weight[2]).out = <<v + n[2]>> /\ Does(chain[2], v, n[2], weight[2]).n = v + n[2]
    BY <1>0 DEF Does, Effect
<1> HIDE DEF v
<1>4. n[2] = Id(Used) /\ Len(output) = Used - 0 /\ \A m \in DOMAIN output : output[m] = ids[m]
    <2>1. Len(Pending(2)) = 0
        BY <1>2
    <2> QED BY <2>1 DEF Sums
<1>5. v + n[2] = Id(Used + 1) /\ Id(Used + 1) \in Int
    <2>1. (Used + 1) - 1 = Used /\ Id(Used) \in Int
        BY <1>0, <1>1, <1>4
    <2>2. Id(Used + 1) = ids[Used + 1] /\ ids[Used + 1] \in Int
        BY <1>0, <1>1 DEF Id
    <2>3. v = Id(Used + 1) - Id(Used)
        BY <1>1, <2>1 DEF Gap
    <2> QED BY <1>4, <2>1, <2>2, <2>3
<1>6. n'[2] = Id(Used + 1) /\ Pending(2)' = <<Id(Used + 1)>>
    BY <1>0, <1>2, <1>3, <1>5
<1>7. Len(Pending(2)') = 1 /\ Pending(2)'[1] = Id(Used + 1)
    BY <1>6
<1>8. Len(output') = Used' - Len(Pending(2)')
    <2>1. Len(output') = Len(output) /\ Len(output) = Used
        <3>1. Used - 0 = Used
            BY <1>1
        <3> QED BY <1>2, <1>4, <3>1
    <2>2. Used' - Len(Pending(2)') = (Used + 1) - 1
        BY <1>1, <1>7
    <2>3. (Used + 1) - 1 = Used
        BY <1>1
    <2> QED BY <2>1, <2>2, <2>3
<1>9. Id(Used)' = Id(Used + 1)
    BY <1>1, <1>2 DEF Id
<1>10. Len(Pending(2)') \in {0, 1}
    BY <1>7
<1> QED BY <1>2, <1>4, <1>6, <1>7, <1>8, <1>9, <1>10 DEF Sums

\* The consumer sees the next id (341).
LEMMA SumsDeliver ==
    ASSUME PipelineTypes, Gaps, Sums, chain = Examples.decoded, phase # "write", Delivers(2)
    PROVE  Gaps' /\ Sums'
<1>0. /\ Pending(2) \in Seq(Int) /\ output \in Seq(Int) /\ ids \in Seq(Int) /\ Used \in Int /\ Top \in {2, 3}
      /\ Len(source) \in Nat /\ Len(Pending(2)) \in {0, 1} /\ Pending(1) \in Seq(Int)
    BY GapStages DEF Sums
<1>1. /\ Len(Pending(2)) > 0 /\ Pending(2)' = Tail(Pending(2)) /\ UNCHANGED <<ids, source, n>>
      /\ output' = Append(output, Pending(2)[1]) /\ Pending(1)' = Pending(1)
    <2>1. 1 \in 1 .. Top /\ 1 # 2
        BY <1>0
    <2> QED BY <2>1 DEF Delivers
<1>2. Gaps' /\ Used' = Used
    BY <1>1, GapsStay
<1>3. Len(Pending(2)) = 1 /\ Pending(2)' = <<>> /\ Pending(2) # <<>>
    <2>1. Pending(2) \in Seq(Int) /\ Len(Pending(2)) = 1
        BY <1>0, <1>1
    <2> QED BY <1>1, <2>1
<1>4. Len(output) = Used - 1 /\ Pending(2)[1] = Id(Used) /\ \A m \in DOMAIN output : output[m] = ids[m]
    BY <1>3 DEF Sums
<1>5. Len(output) + 1 = Used /\ Id(Used) = ids[Used] /\ Used # 0
    <2>1. Len(output) \in Nat
        BY <1>0
    <2>2. Len(output) + 1 = Used /\ Used # 0
        BY <1>0, <1>4, <2>1
    <2> QED BY <2>2 DEF Id
<1>6. /\ Len(output') = Len(output) + 1 /\ DOMAIN output' = 1 .. Len(output) + 1 /\ DOMAIN output = 1 .. Len(output)
      /\ (\A m \in 1 .. Len(output) : output'[m] = output[m]) /\ output'[Len(output) + 1] = Pending(2)[1] /\ Len(output) \in Nat
    BY <1>0, <1>1, <1>3
<1>7. ASSUME NEW m \in 1 .. Len(output) + 1 PROVE output'[m] = ids[m]
    <2>1. CASE m \in 1 .. Len(output)
        BY <1>4, <1>6, <2>1
    <2>2. CASE m = Len(output) + 1
        BY <1>4, <1>5, <1>6, <2>2
    <2> QED BY <1>6, <2>1, <2>2
<1>8. \A m \in DOMAIN output' : output'[m] = ids'[m]
    BY <1>1, <1>6, <1>7
<1>9. Len(Pending(2)') = 0 /\ Len(Pending(2)') \in {0, 1}
    BY <1>3
<1>10. Len(output') = Used' - Len(Pending(2)')
    BY <1>0, <1>2, <1>5, <1>6, <1>9
<1>11. n'[2] = Id(Used)'
    BY <1>1, <1>2 DEF Sums, Id
<1> QED BY <1>2, <1>3, <1>8, <1>9, <1>10, <1>11 DEF Sums

\* Every step of that pipeline.
LEMMA SumsNext ==
    ASSUME PipelineTypes, Turns, Gaps, Sums, chain = Examples.decoded, GeneratorsNext
    PROVE  Gaps' /\ Sums' /\ chain' = chain
<1>0. chain \in {Examples.decoded, Examples.write} /\ chain \in CodecChains /\ Top = 2 /\ phase # "write"
    <2>1. chain \in {Examples.decoded, Examples.write} /\ chain \in CodecChains
        BY DEF CodecChains
    <2> QED BY <2>1, GapStages, CodecStages
<1>1. CASE Quiet
    <2>1. Pending(1)' = Pending(1) /\ Pending(2)' = Pending(2) /\ UNCHANGED <<chain, ids, source, n, output>>
        BY <1>0, <1>1 DEF Quiet
    <2> QED BY <2>1, GapsStay, SumsStay
<1>2. CASE Loads
    <2>1. Gaps' /\ Used' = Used
        BY <1>0, <1>2, GapsLoad
    <2>2. n \in [1 .. Top -> Int] /\ n' = [n EXCEPT ![1] = Does(chain[1], Head(source), n[1], weight[1]).n]
        BY <1>0, <1>2, GapStages DEF Loads
    <2>3. n'[2] = n[2]
        BY <1>0, <2>2
    <2>4. Pending(2)' = Pending(2) /\ UNCHANGED <<chain, ids, output>>
        BY <1>0, <1>2 DEF Loads
    <2> QED BY <2>1, <2>3, <2>4, SumsStay
<1>3. CASE \E i \in 2 .. Top, k \in 1 .. Top : k = i - 1 /\ Passes(k, i)
    <2>1. Passes(1, 2)
        BY <1>0, <1>3
    <2>2. chain' = chain
        BY <2>1 DEF Passes
    <2> QED BY <1>0, <2>1, <2>2, GapsPass, SumsPass
<1>4. CASE \E k \in 1 .. Top : k = Top /\ Delivers(k)
    <2>1. Delivers(2)
        BY <1>0, <1>4
    <2>2. chain' = chain
        BY <2>1 DEF Delivers
    <2> QED BY <1>0, <2>1, <2>2, SumsDeliver
<1>5. ~Reopens
    BY <1>0 DEF Reopens
<1> QED BY <1>0, <1>1, <1>2, <1>3, <1>4, <1>5, CodecSteps

\* Values drawn from all generators, and in their promises nothing left.
LEMMA AllDrawn ==
    ASSUME PipelineTypes, Turns, chain \in CodecChains, frames[Top] = "done"
    PROVE  source = <<>> /\ \A i \in 1 .. Top : Pending(i) = <<>>
<1>1. Top \in 2 .. 4 /\ chain # Examples.includes
    BY CodecStages
<1>2. \A i \in 2 .. Top : frames[i] = "done" => frames[i - 1] = "done"
    BY <1>1 DEF Turns
<1>3. \A i \in 1 .. Top : frames[i] = "done"
    <2>1. \A i \in 2 .. Top : i - 1 \in 1 .. Top
        BY <1>1
    <2>2. frames[Top - 1] = "done"
        BY <1>1, <1>2
    <2>3. Top > 2 => frames[Top - 2] = "done"
        <3>1. Top > 2 => Top - 1 \in 2 .. Top /\ (Top - 1) - 1 = Top - 2
            BY <1>1
        <3> QED BY <1>2, <2>2, <3>1
    <2>4. Top > 3 => frames[Top - 3] = "done"
        <3>1. Top > 3 => Top > 2 /\ Top - 2 \in 2 .. Top /\ (Top - 2) - 1 = Top - 3
            BY <1>1
        <3> QED BY <1>2, <2>3, <3>1
    <2>5. \A i \in 1 .. Top : i = Top \/ i = Top - 1 \/ (Top > 2 /\ i = Top - 2) \/ (Top > 3 /\ i = Top - 3)
        BY <1>1
    <2> QED BY <2>2, <2>3, <2>4, <2>5
<1>4. source = <<>>
    <2>1. 1 \in 1 .. Top
        BY <1>1
    <2> QED BY <1>3, <2>1 DEF Turns
<1>5. \A i \in 1 .. Top : ~unread[i] /\ yields[i] = <<>>
    BY <1>3 DEF Turns
<1>6. \A i \in 1 .. Top : Pending(i) = <<>>
    BY <1>5, PendingType
<1> QED BY <1>4, <1>6

\* What agrees with the ids as far as it goes is a prefix of them.
LEMMA PrefixOf ==
    ASSUME NEW s \in Seq(Int), NEW t \in Seq(Int), Len(s) <= Len(t), \A m \in DOMAIN s : s[m] = t[m]
    PROVE  IsPrefix(s, t) /\ (Len(s) = Len(t) => s = t)
<1>1. Len(s) = Len(t) => s = t
    <2>1. \A m \in 1 .. Len(s) : s[m] = t[m]
        OBVIOUS
    <2> QED BY <2>1, SeqEqual
<1>2. s = SubSeq(t, 1, Len(s))
    <2>1. SubSeq(t, 1, Len(s)) \in Seq(Int) /\ Len(SubSeq(t, 1, Len(s))) = Len(s)
          /\ \A m \in 1 .. Len(s) : SubSeq(t, 1, Len(s))[m] = t[m]
        OBVIOUS
    <2> DEFINE u == SubSeq(t, 1, Len(s))
    <2>2. \A m \in 1 .. Len(s) : s[m] = u[m]
        BY <2>1
    <2>3. u \in Seq(Int) /\ Len(s) = Len(u)
        BY <2>1
    <2> HIDE DEF u
    <2>4. s = u
        BY <2>2, <2>3, SeqEqual
    <2> QED BY <2>4 DEF u
<1> QED BY <1>1, <1>2 DEF IsPrefix

\* At the end the ids are back.
LEMMA SumsEnd ==
    ASSUME PipelineTypes, Turns, Gaps, Sums, chain = Examples.decoded
    PROVE  IsPrefix(output, ids) /\ (phase = "over" => output = ids)
<1>0. /\ ids \in Seq(Int) /\ output \in Seq(Int) /\ Len(ids) \in Nat /\ Len(source) \in Nat /\ Pending(1) \in Seq(Int)
      /\ Pending(2) \in Seq(Int) /\ Top = 2 /\ chain \in CodecChains /\ Used \in Int
    BY GapStages
<1>1. Used <= Len(ids)
    <2>1. Len(Pending(1)) \in Nat
        BY <1>0
    <2> QED BY <1>0, <2>1 DEF Used, Taken
<1>2. Len(output) = Used - Len(Pending(2)) /\ \A m \in DOMAIN output : output[m] = ids[m]
    BY DEF Sums
<1>3. Len(output) <= Len(ids)
    <2>1. Len(Pending(2)) \in Nat
        BY <1>0
    <2> QED BY <1>0, <1>1, <1>2, <2>1
<1>4. phase = "over" => Len(output) = Len(ids)
    <2> SUFFICES ASSUME phase = "over" PROVE Len(output) = Len(ids)
        OBVIOUS
    <2>1. frames[Top] = "done"
        BY DEF Turns
    <2>2. source = <<>> /\ Pending(1) = <<>> /\ Pending(2) = <<>>
        BY <1>0, <2>1, AllDrawn
    <2>3. Len(source) = 0 /\ Len(Pending(1)) = 0 /\ Len(Pending(2)) = 0
        BY <2>2
    <2> QED BY <1>0, <1>2, <2>3 DEF Used, Taken
<1> QED BY <1>0, <1>2, <1>3, <1>4, PrefixOf
-----------------------------------------------------------------------------
\* Ids that do not decrease have gaps that are not negative.
LEMMA GapsAreNat ==
    ASSUME ids \in Seq(Int), Ascends(ids)
    PROVE  /\ Len(ids) \in Nat /\ \A k \in 1 .. Len(ids) : Gap(k) \in Nat
           /\ \A k \in 0 .. Len(ids) : Id(k) \in Int
<1>1. Len(ids) \in Nat /\ \A k \in 1 .. Len(ids) : ids[k] \in Int
    <2>1. Len(ids) \in Nat /\ ids \in [1 .. Len(ids) -> Int]
        BY LenProperties
    <2> QED BY <2>1
<1>2. \A k \in 0 .. Len(ids) : Id(k) \in Int
    BY <1>1 DEF Id
<1>3. ASSUME NEW k \in 1 .. Len(ids) PROVE Gap(k) \in Nat
    <2>1. CASE k = 1
        <3>1. ids # <<>>
            BY <1>1
        <3>2. Gap(k) = ids[1] - 0 /\ 0 <= ids[1] /\ ids[1] \in Int
            BY <1>1, <2>1, <3>1 DEF Gap, Id, Ascends
        <3> QED BY <3>2
    <2>2. CASE k # 1
        <3>1. k - 1 \in 1 .. Len(ids) - 1 /\ (k - 1) + 1 = k /\ k - 1 \in 1 .. Len(ids) /\ k # 0 /\ k - 1 # 0
            BY <1>1, <2>2
        <3>2. ids[k - 1] <= ids[k] /\ ids[k - 1] \in Int /\ ids[k] \in Int
            <4>1. ids[k - 1] <= ids[(k - 1) + 1]
                BY <3>1 DEF Ascends
            <4> QED BY <1>1, <3>1, <4>1
        <3>3. Gap(k) = ids[k] - ids[k - 1]
            BY <3>1 DEF Gap, Id
        <3> QED BY <3>2, <3>3
    <2> QED BY <2>1, <2>2
<1> QED BY <1>1, <1>2, <1>3

\* A sequence of bytes that hands its first one over to another.
LEMMA HandOver ==
    ASSUME NEW s \in Seq(0 .. 255), NEW t \in Seq(0 .. 255), Len(t) > 0
    PROVE  /\ (s \o <<t[1]>>) \o Tail(t) = s \o t /\ Append(s, t[1]) \o Tail(t) = s \o t
           /\ t[1] \in 0 .. 255 /\ <<t[1]>> \in Seq(0 .. 255) /\ Tail(t) \in Seq(0 .. 255)
<1> DEFINE B == 0 .. 255
<1>1. s \in Seq(B) /\ t \in Seq(B)
    OBVIOUS
<1> HIDE DEF B
<1>2. t[1] \in B /\ Tail(t) \in Seq(B) /\ t = <<t[1]>> \o Tail(t) /\ Append(s, t[1]) = s \o <<t[1]>>
    BY <1>1
<1>3. <<t[1]>> \in Seq(B)
    BY <1>2
<1>4. (s \o <<t[1]>>) \o Tail(t) = s \o (<<t[1]>> \o Tail(t))
    BY <1>1, <1>2, <1>3, ConcatAssociative
<1>5. (s \o <<t[1]>>) \o Tail(t) = s \o t /\ Append(s, t[1]) \o Tail(t) = s \o t
    BY <1>2, <1>4
<1> QED BY <1>2, <1>3, <1>5 DEF B

\* An encoding of ids that stay.
LEMMA EncodedStays ==
    ASSUME ids' = ids, NEW t, NEW k, EncodedIn(t, k), Bytes' = t, Used' = k
    PROVE  EncodedIn(Bytes, Used)'
<1>1. \A j : Gap(j)' = Gap(j)
    BY DEF Gap, Id
<1>2. MarksIn(Bytes, Used)'
    BY DEF EncodedIn, MarksIn, Marked
<1>3. PICK cut \in [0 .. k -> 0 .. Len(t)] : CutsAt(t, k, cut)
    BY DEF EncodedIn
<1>4. ASSUME NEW j \in 1 .. k PROVE BytesAt(Bytes', cut[j - 1], cut[j], Gap(j)')
    <2>1. BytesAt(t, cut[j - 1], cut[j], Gap(j))
        BY <1>3 DEF CutsAt
    <2> QED BY <1>1, <2>1
<1>5. CutsAt(t, k, cut)'
    <2>1. cut \in [0 .. k -> 0 .. Len(t)] /\ cut[0] = 0 /\ cut[k] = Len(t)
        BY <1>3 DEF CutsAt
    <2> QED BY <1>4, <2>1 DEF CutsAt, BytesAt, Code
<1> QED BY <1>2, <1>3, <1>5 DEF EncodedIn, CutsAt

\* Steps of others change nothing here.
LEMMA WrittenStays ==
    ASSUME Written, Pending(2)' = Pending(2), Pending(3)' = Pending(3), Used' = Used, UNCHANGED <<ids, output, file>>
    PROVE  Written'
<1>1. Bytes' = Bytes
    BY DEF Bytes
<1>2. EncodedIn(Bytes, Used)'
    BY <1>1, EncodedStays DEF Written
<1> QED BY <1>2 DEF Written

\* variable_encode adds the bytes of a gap (279-287).
LEMMA WrittenEncodes ==
    ASSUME PipelineTypes, Gaps, Written, chain = Examples.write, Ascends(ids), Passes(1, 2)
    PROVE  Written'
<1> DEFINE v == Pending(1)[1]
<1>0. chain[2] = "variable_encode" /\ Top = 3 /\ ids \in Seq(Int) /\ file \in Seq(0 .. 255) /\ Pending(3) \in Seq(0 .. 255)
    BY GapStages DEF PipelineTypes, Written
<1>1. Used' = Used + 1 /\ v = Gap(Used + 1) /\ Used \in Nat /\ Used + 1 \in 1 .. Len(ids)
    BY GapsPass
<1>2. Gap(Used + 1) \in Nat
    BY <1>0, <1>1, GapsAreNat
<1>3. /\ Pending(2) = <<>> /\ Pending(2)' = Does(chain[2], v, n[2], weight[2]).out /\ UNCHANGED <<ids, output, file>>
      /\ Pending(3)' = Pending(3)
    BY <1>0 DEF Passes
<1>4. Pending(2)' = Code(Gap(Used + 1)) /\ Code(Gap(Used + 1)) \in Seq(0 .. 255)
    <2>1. Does(chain[2], v, n[2], weight[2]).out = Code(v)
        BY <1>0 DEF Does, Effect, Code
    <2> QED BY <1>1, <1>2, <1>3, <2>1, CodeOf
<1> HIDE DEF v
<1>5. Bytes = file \o Pending(3) /\ Bytes \in Seq(0 .. 255)
    <2>1. file \o Pending(3) \in Seq(0 .. 255)
        BY <1>0
    <2>2. Bytes = (file \o Pending(3)) \o <<>>
        BY <1>3 DEF Bytes
    <2> QED BY <2>1, <2>2, ConcatEmptySeq
<1>6. Bytes' = Bytes \o Code(Gap(Used + 1))
    <2>1. Bytes' = (file' \o Pending(3)') \o Pending(2)'
        BY DEF Bytes
    <2> QED BY <1>3, <1>4, <1>5, <2>1
<1>7. EncodedIn(Bytes, Used)
    BY DEF Written
<1>8. EncodedIn(Bytes \o Code(Gap(Used + 1)), Used + 1)
    BY <1>1, <1>2, <1>5, <1>7, EncodedGrows
<1>9. EncodedIn(Bytes, Used)'
    BY <1>1, <1>3, <1>6, <1>8, EncodedStays
<1> QED BY <1>0, <1>3, <1>4, <1>9 DEF Written

\* compress hands the bytes on, and the consumer writes them (303-312, 425).
LEMMA WrittenPasses ==
    ASSUME PipelineTypes, Gaps, Written, chain = Examples.write, Passes(2, 3)
    PROVE  Gaps' /\ Written'
<1> DEFINE v == Pending(2)[1]
<1>0. /\ chain[3] = "compress" /\ Top = 3 /\ file \in Seq(0 .. 255) /\ Pending(2) \in Seq(0 .. 255)
      /\ n \in [1 .. Top -> Int]
    BY GapStages DEF PipelineTypes, Written
<1>1. /\ Pending(3) = <<>> /\ Pending(3)' = Does(chain[3], v, n[3], weight[3]).out /\ UNCHANGED <<ids, source, output, file>>
      /\ Len(Pending(2)) > 0 /\ Pending(2)' = Tail(Pending(2)) /\ Pending(1)' = Pending(1)
      /\ n' = [n EXCEPT ![3] = Does(chain[3], v, n[3], weight[3]).n]
    BY <1>0 DEF Passes
<1>2. Gaps' /\ Used' = Used
    <2>1. n'[1] = n[1]
        BY <1>0, <1>1
    <2> QED BY <1>1, <2>1, GapsStay
<1>3. Pending(3)' = <<v>>
    BY <1>0, <1>1 DEF Does, Effect
<1>4. /\ (file \o <<v>>) \o Tail(Pending(2)) = file \o Pending(2) /\ <<v>> \in Seq(0 .. 255)
      /\ Tail(Pending(2)) \in Seq(0 .. 255)
    <2> DEFINE t == Pending(2)
    <2>1. t \in Seq(0 .. 255) /\ Len(t) > 0
        BY <1>0, <1>1
    <2> HIDE DEF t
    <2>2. file \in Seq(0 .. 255)
        BY <1>0
    <2>3. (file \o <<t[1]>>) \o Tail(t) = file \o t /\ <<t[1]>> \in Seq(0 .. 255) /\ Tail(t) \in Seq(0 .. 255)
        <3>1. \A p, q \in Seq(0 .. 255) : Len(q) > 0 =>
                  /\ (p \o <<q[1]>>) \o Tail(q) = p \o q /\ Append(p, q[1]) \o Tail(q) = p \o q
                  /\ q[1] \in 0 .. 255 /\ <<q[1]>> \in Seq(0 .. 255) /\ Tail(q) \in Seq(0 .. 255)
            BY HandOver
        <3> QED BY <2>1, <2>2, <3>1, ZenonT(40)
    <2> QED BY <2>3 DEF t
<1> HIDE DEF v
<1>5. Bytes' = Bytes
    <2>1. file \o <<>> = file
        BY <1>0, ConcatEmptySeq
    <2>2. Bytes = file \o Pending(2)
        BY <1>1, <2>1 DEF Bytes
    <2>3. Bytes' = (file' \o Pending(3)') \o Pending(2)'
        BY DEF Bytes
    <2> QED BY <1>1, <1>3, <1>4, <2>2, <2>3
<1>6. EncodedIn(Bytes, Used)'
    BY <1>1, <1>2, <1>5, EncodedStays DEF Written
<1>7. output' = <<>> /\ Pending(2)' \in Seq(0 .. 255) /\ Pending(3)' \in Seq(0 .. 255)
    BY <1>1, <1>3, <1>4 DEF Written
<1> QED BY <1>2, <1>6, <1>7 DEF Written

\* The consumer writes a byte.
LEMMA WrittenDelivers ==
    ASSUME PipelineTypes, Gaps, Written, chain = Examples.write, Delivers(3)
    PROVE  Gaps' /\ Written'
<1> DEFINE v == Pending(3)[1]
<1>0. /\ Top = 3 /\ file \in Seq(0 .. 255) /\ Pending(3) \in Seq(0 .. 255) /\ Pending(2) \in Seq(0 .. 255) /\ phase = "write"
    <2>1. Top = 3 /\ chain \in CodecChains
        BY GapStages
    <2>2. phase = "write"
        BY <2>1, CodecStages
    <2> QED BY <2>1, <2>2 DEF PipelineTypes, Written
<1>1. /\ Len(Pending(3)) > 0 /\ Pending(3)' = Tail(Pending(3)) /\ UNCHANGED <<ids, source, output, n>>
      /\ Pending(1)' = Pending(1) /\ Pending(2)' = Pending(2) /\ file' = Append(file, Byte(v))
    BY <1>0 DEF Delivers
<1>2. Gaps' /\ Used' = Used
    BY <1>1, GapsStay
<1>3. /\ Append(file, v) \o Tail(Pending(3)) = file \o Pending(3) /\ v \in 0 .. 255
      /\ Tail(Pending(3)) \in Seq(0 .. 255)
    <2> DEFINE t == Pending(3)
    <2>1. t \in Seq(0 .. 255) /\ Len(t) > 0
        BY <1>0, <1>1
    <2> HIDE DEF t
    <2>2. file \in Seq(0 .. 255)
        BY <1>0
    <2>3. Append(file, t[1]) \o Tail(t) = file \o t /\ t[1] \in 0 .. 255 /\ Tail(t) \in Seq(0 .. 255)
        <3>1. \A p, q \in Seq(0 .. 255) : Len(q) > 0 =>
                  /\ (p \o <<q[1]>>) \o Tail(q) = p \o q /\ Append(p, q[1]) \o Tail(q) = p \o q
                  /\ q[1] \in 0 .. 255 /\ <<q[1]>> \in Seq(0 .. 255) /\ Tail(q) \in Seq(0 .. 255)
            BY HandOver
        <3> QED BY <2>1, <2>2, <3>1, ZenonT(40)
    <2> QED BY <2>3 DEF t
<1> HIDE DEF v
<1>4. Byte(v) = v
    <2>1. \A x \in 0 .. 255 : Byte(x) = x
        BY DEF Byte
    <2> QED BY <1>3, <2>1
<1>5. Bytes' = Bytes
    <2>1. Bytes' = (file' \o Pending(3)') \o Pending(2)'
        BY DEF Bytes
    <2> QED BY <1>1, <1>3, <1>4, <2>1 DEF Bytes
<1>6. EncodedIn(Bytes, Used)'
    BY <1>1, <1>2, <1>5, EncodedStays DEF Written
<1>7. output' = <<>> /\ Pending(2)' \in Seq(0 .. 255) /\ Pending(3)' \in Seq(0 .. 255)
    BY <1>1, <1>3 DEF Written
<1> QED BY <1>2, <1>6, <1>7 DEF Written

\* Every step of that pipeline but its end.
LEMMA WrittenNext ==
    ASSUME PipelineTypes, Turns, Gaps, Ascends(ids) => Written, chain = Examples.write, GeneratorsNext, ~Reopens
    PROVE  Gaps' /\ (Ascends(ids)' => Written') /\ chain' = chain
<1>0. chain \in {Examples.decoded, Examples.write} /\ chain \in CodecChains /\ Top = 3
    <2>1. chain \in {Examples.decoded, Examples.write} /\ chain \in CodecChains
        BY DEF CodecChains
    <2> QED BY <2>1, GapStages
<1>1. n \in [1 .. Top -> Int]
    BY <1>0, GapStages
<1>2. CASE Quiet
    <2>1. Pending(1)' = Pending(1) /\ Pending(2)' = Pending(2) /\ Pending(3)' = Pending(3)
          /\ UNCHANGED <<chain, ids, source, n, output, file>>
        BY <1>0, <1>2 DEF Quiet
    <2>2. Gaps' /\ Used' = Used
        BY <2>1, GapsStay
    <2>3. Ascends(ids)' => Ascends(ids)
        BY <2>1
    <2> QED BY <2>1, <2>2, <2>3, WrittenStays
<1>3. CASE Loads
    <2>1. Gaps' /\ Used' = Used
        BY <1>0, <1>3, GapsLoad
    <2>2. Pending(2)' = Pending(2) /\ Pending(3)' = Pending(3) /\ UNCHANGED <<chain, ids, output, file>>
        BY <1>0, <1>3 DEF Loads
    <2>3. Ascends(ids)' => Ascends(ids)
        BY <2>2
    <2> QED BY <2>1, <2>2, <2>3, WrittenStays
<1>4. CASE \E i \in 2 .. Top, k \in 1 .. Top : k = i - 1 /\ Passes(k, i)
    <2>1. Passes(1, 2) \/ Passes(2, 3)
        <3>1. PICK i \in 2 .. 3, k \in 1 .. 3 : k = i - 1 /\ Passes(k, i)
            BY <1>0, <1>4
        <3>2. (i = 2 /\ k = 1) \/ (i = 3 /\ k = 2)
            BY <3>1
        <3> QED BY <3>1, <3>2
    <2>2. CASE Passes(1, 2)
        <3>1. chain' = chain /\ ids' = ids
            BY <2>2 DEF Passes
        <3>2. Ascends(ids)' => Ascends(ids)
            BY <3>1
        <3> QED BY <1>0, <2>2, <3>1, <3>2, GapsPass, WrittenEncodes
    <2>3. CASE Passes(2, 3)
        <3>1. /\ chain' = chain /\ ids' = ids /\ source' = source /\ Pending(1)' = Pending(1)
              /\ n' = [n EXCEPT ![3] = Does(chain[3], Pending(2)[1], n[3], weight[3]).n]
            BY <1>0, <2>3 DEF Passes
        <3>2. Ascends(ids)' => Ascends(ids)
            BY <3>1
        <3>3. n'[1] = n[1]
            BY <1>0, <1>1, <3>1
        <3> QED BY <2>3, <3>1, <3>2, <3>3, GapsStay, WrittenPasses
    <2> QED BY <2>1, <2>2, <2>3
<1>5. CASE \E k \in 1 .. Top : k = Top /\ Delivers(k)
    <2>1. Delivers(3)
        BY <1>0, <1>5
    <2>2. UNCHANGED <<chain, ids, source, n>> /\ Pending(1)' = Pending(1)
        BY <1>0, <2>1 DEF Delivers
    <2>3. Ascends(ids)' => Ascends(ids)
        BY <2>2
    <2> QED BY <2>1, <2>2, <2>3, GapsStay, WrittenDelivers
<1> QED BY <1>0, <1>2, <1>3, <1>4, <1>5, CodecSteps
-----------------------------------------------------------------------------
\* The pipeline that reads the file.
LEMMA ReadStages ==
    ASSUME PipelineTypes, chain = Examples.read
    PROVE  /\ chain \in CodecChains /\ Top = 4 /\ phase \in {"read", "over"}
           /\ chain[1] = "read" /\ chain[2] = "variable_decode" /\ chain[3] = "gap_decode" /\ chain[4] = "decompress"
           /\ ids \in Seq(Int) /\ source \in Seq(Int) /\ output \in Seq(Int) /\ file \in Seq(0 .. 255)
           /\ Len(ids) \in Nat /\ Len(source) \in Nat /\ Len(output) \in Nat /\ Len(file) \in Nat
           /\ n \in [1 .. Top -> Int] /\ weight \in [1 .. Top -> Nat \ {0}]
           /\ \A i \in 1 .. 4 : Pending(i) \in Seq(Int) /\ Len(Pending(i)) \in Nat
<1>1. /\ chain \in CodecChains /\ Top = 4 /\ chain[1] = "read" /\ chain[2] = "variable_decode"
      /\ chain[3] = "gap_decode" /\ chain[4] = "decompress" /\ chain # Examples.write
    BY FiveChains, Stages DEF Top, CodecChains
<1>2. ids \in Seq(Int) /\ phase \in {"decoded", "write", "read", "over"} /\ (phase = "write" <=> chain = Examples.write)
    BY <1>1, CodecStages
<1>3. source \in Seq(Int) /\ output \in Seq(Int) /\ file \in Seq(0 .. 255) /\ n \in [1 .. Top -> Int] /\ weight \in [1 .. Top -> Nat \ {0}]
      /\ phase \in {"read", "over"}
    BY DEF PipelineTypes, Phases
<1>4. \A i \in 1 .. 4 : Pending(i) \in Seq(Int) /\ Len(Pending(i)) \in Nat
    BY <1>1, PendingType
<1>5. Len(ids) \in Nat /\ Len(source) \in Nat /\ Len(output) \in Nat /\ Len(file) \in Nat
    BY <1>2, <1>3
<1> QED BY <1>1, <1>2, <1>3, <1>4, <1>5

\* The bytes of a file that has been written encode all ids (423-447).
LEMMA WrittenInFull ==
    ASSUME PipelineTypes, Turns, Gaps, Written, chain = Examples.write, frames[Top] = "done"
    PROVE  EncodedIn(file, Len(ids)) /\ Bytes = file /\ Used = Len(ids)
<1>0. Top = 3 /\ chain \in CodecChains /\ Len(ids) \in Nat /\ file \in Seq(0 .. 255)
    BY GapStages DEF PipelineTypes
<1>1. source = <<>> /\ Pending(1) = <<>> /\ Pending(2) = <<>> /\ Pending(3) = <<>>
    BY <1>0, AllDrawn
<1>2. Used = Len(ids)
    <2>1. Len(source) = 0 /\ Len(Pending(1)) = 0
        BY <1>1
    <2> QED BY <1>0, <2>1 DEF Used, Taken
<1>3. Bytes = file
    <2>1. file \o <<>> = file
        BY <1>0, ConcatEmptySeq
    <2> QED BY <1>1, <2>1 DEF Bytes
<1> QED BY <1>2, <1>3 DEF Written

\* Reading begins with the first byte.
LEMMA ReopensRestores ==
    ASSUME PipelineTypes, Turns, Gaps, Written, chain = Examples.write, Ascends(ids), Reopens
    PROVE  Restores'
<1>0. /\ ids' = ids /\ file' = file /\ output' = <<>> /\ source' = file
      /\ n' = [i \in DOMAIN Examples.read |-> 0] /\ weight' = [i \in DOMAIN Examples.read |-> 1]
      /\ unread' = [i \in DOMAIN Examples.read |-> FALSE] /\ yields' = [i \in DOMAIN Examples.read |-> <<>>]
    BY Stages DEF Reopens, Pipeline, Written
<1>1. EncodedIn(file, Len(ids)) /\ ids \in Seq(Int) /\ file \in Seq(0 .. 255) /\ Len(ids) \in Nat /\ Len(file) \in Nat
    <2>1. EncodedIn(file, Len(ids))
        BY WrittenInFull DEF Reopens
    <2>2. ids \in Seq(Int) /\ Len(ids) \in Nat
        BY GapStages
    <2>3. file \in Seq(0 .. 255)
        BY DEF PipelineTypes
    <2> QED BY <2>1, <2>2, <2>3
<1>2. DOMAIN Examples.read = 1 .. 4
    BY Stages
<1>3. \A i \in 1 .. 4 : Pending(i)' = <<>>
    <2>1. \A i \in 1 .. 4 : unread'[i] = FALSE /\ yields'[i] = <<>>
        BY <1>0, <1>2
    <2>2. <<>> \o <<>> = <<>>
        OBVIOUS
    <2> QED BY <2>1, <2>2 DEF Pending
<1>4. Pending(1)' = <<>> /\ Pending(2)' = <<>> /\ Pending(3)' = <<>> /\ Pending(4)' = <<>>
    BY <1>3
<1>5. Len(Pending(1)') = 0 /\ Len(Pending(2)') = 0 /\ Len(Pending(3)') = 0 /\ Len(Pending(4)') = 0 /\ Len(output') = 0
    BY <1>0, <1>4
<1>6. Read' = 0 /\ Decoded' = 0 /\ Restored' = 0 /\ Summed' = 0
    <2>1. Read' = 0
        BY <1>0, <1>1 DEF Read
    <2>2. Restored' = 0
        BY <1>5 DEF Restored
    <2> QED BY <1>5, <2>1, <2>2 DEF Decoded, Summed
<1>7. n'[2] = 0 /\ n'[3] = 0 /\ weight'[2] = 1
    BY <1>0, <1>2
<1>8. PICK cut \in [0 .. Len(ids) -> 0 .. Len(file)] : CutsAt(file, Len(ids), cut)
    BY <1>1 DEF EncodedIn
<1>9. \A j : Gap(j)' = Gap(j)
    BY <1>0 DEF Gap, Id
<1>10. CutsAt(file, Len(ids), cut)'
    <2>1. cut \in [0 .. Len(ids) -> 0 .. Len(file)] /\ cut[0] = 0 /\ cut[Len(ids)] = Len(file)
          /\ \A j \in 1 .. Len(ids) : BytesAt(file, cut[j - 1], cut[j], Gap(j))
        BY <1>8 DEF CutsAt
    <2>2. \A j \in 1 .. Len(ids) : BytesAt(file, cut[j - 1], cut[j], Gap(j)')
        BY <1>9, <2>1
    <2> QED BY <1>0, <2>1, <2>2 DEF CutsAt, BytesAt, Code
<1>11. NextGap(cut)'
    <2>1. CASE Len(ids) = 0
        <3>1. Len(file) = 0
            BY <1>8, <2>1 DEF CutsAt
        <3> QED BY <1>0, <1>6, <2>1, <3>1 DEF NextGap
    <2>2. CASE Len(ids) # 0
        <3>1. 1 \in 1 .. Len(ids) /\ 1 - 1 = 0 /\ 0 + 1 = 1
            BY <1>1, <2>2
        <3>2. Gap(1) \in Nat
            BY <1>1, <3>1, GapsAreNat
        <3>3. BytesAt(file, 0, cut[1], Gap(1))
            <4>1. BytesAt(file, cut[1 - 1], cut[1], Gap(1)) /\ cut[0] = 0
                BY <1>8, <3>1 DEF CutsAt
            <4> QED BY <3>1, <4>1
        <3>4. \E rest \in Nat : /\ n'[2] + (weight'[2] * rest) = Gap(Restored + 1)'
                                /\ BytesAt(file, Decoded, cut[Restored + 1], rest)'
            <4>1. 0 + (1 * Gap(1)) = Gap(1)
                BY <3>2
            <4>2. (Restored + 1)' = 1 /\ Gap(Restored + 1)' = Gap(1)
                <5>1. (Restored + 1)' = 1
                    BY <1>6, <3>1
                <5>2. Gap(Restored + 1)' = Gap(1)'
                    BY <5>1 DEF Gap, Id
                <5> QED BY <1>9, <5>1, <5>2
            <4>3. n'[2] + (weight'[2] * Gap(1)) = Gap(Restored + 1)'
                BY <1>7, <4>1, <4>2
            <4>4. BytesAt(file', Decoded', cut[(Restored + 1)'], Gap(1))
                BY <1>0, <1>6, <3>3, <4>2
            <4> QED BY <3>2, <4>3, <4>4 DEF BytesAt, Code
        <3>5. Restored' # Len(ids')
            BY <1>0, <1>6, <2>2
        <3> QED BY <3>4, <3>5 DEF NextGap
    <2> QED BY <2>1, <2>2
<1>12. InProgress'
    <2>1. Restored' <= Len(ids')
        BY <1>0, <1>1, <1>6
    <2>2. cut \in [0 .. Len(ids') -> 0 .. Len(file')]
        BY <1>0, <1>8
    <2> QED BY <1>10, <1>11, <2>1, <2>2 DEF InProgress
<1>13. BytesFromFile'
    <2>1. LeftOf(source, file)'
        <3>1. \A k \in DOMAIN file : (Len(file) - Len(file)) + k = k
            BY <1>1
        <3> QED BY <1>0, <1>1, <3>1 DEF LeftOf
    <2>2. Len(Pending(1)') \in {0, 1} /\ Pending(1)' = <<>>
        BY <1>4, <1>5
    <2> QED BY <2>1, <2>2 DEF BytesFromFile
<1>14. IdsBack'
    <2>1. n'[3] = Id(Summed)'
        BY <1>6, <1>7 DEF Id
    <2>2. /\ Len(Pending(2)') \in {0, 1} /\ Len(Pending(3)') \in {0, 1} /\ Len(Pending(4)') \in {0, 1}
        BY <1>5
    <2>3. \A m \in DOMAIN output' : output'[m] = ids'[m]
        BY <1>0
    <2> QED BY <1>4, <2>1, <2>2, <2>3 DEF IdsBack
<1>15. MarksIn(file, Len(ids))'
    <2>1. MarksIn(file, Len(ids))
        BY <1>1 DEF EncodedIn
    <2> QED BY <1>0, <2>1 DEF MarksIn, Marked
<1> QED BY <1>12, <1>13, <1>14, <1>15 DEF Restores
\* Bytes are numbers.
LEMMA AreBytes ==
    ASSUME NEW t \in Seq(0 .. 255)
    PROVE  t \in Seq(Int) /\ \A k \in 1 .. Len(t) : t[k] \in 0 .. 255
<1>1. Len(t) \in Nat /\ t \in [1 .. Len(t) -> 0 .. 255]
    BY LenProperties
<1>2. t \in Seq(Int)
    <2>1. 0 .. 255 \subseteq Int
        OBVIOUS
    <2> QED BY <2>1, SeqMonotonic
<1> QED BY <1>1, <1>2

\* read takes a byte (347-352).
LEMMA BytesLoad ==
    ASSUME PipelineTypes, BytesFromFile, chain = Examples.read, Loads
    PROVE  BytesFromFile' /\ Decoded' = Decoded
<1> DEFINE v == Head(source)
<1>0. /\ file \in Seq(0 .. 255) /\ source \in Seq(Int) /\ Len(file) \in Nat /\ Len(source) \in Nat /\ chain[1] = "read"
      /\ LeftOf(source, file)
    BY ReadStages DEF BytesFromFile
<1>1. /\ source # <<>> /\ source' = Tail(source) /\ Pending(1) = <<>> /\ file' = file
      /\ Pending(1)' = Does(chain[1], v, n[1], weight[1]).out
    BY DEF Loads
<1>2. Does(chain[1], v, n[1], weight[1]).out = <<Byte(v)>>
    BY <1>0 DEF Does, Effect
<1>3. /\ LeftOf(source', file) /\ Len(source') = Len(source) - 1 /\ Read + 1 \in 1 .. Len(file) /\ v = file[Read + 1]
    <2>1. file \in Seq(Int)
        BY <1>0, AreBytes
    <2> QED BY <1>0, <1>1, <2>1, LeftTail DEF Read
<1>4. Byte(v) = v
    <2>1. v \in 0 .. 255
        <3>1. \A k \in 1 .. Len(file) : file[k] \in 0 .. 255
            BY <1>0, AreBytes
        <3> QED BY <1>3, <3>1
    <2>2. \A x \in 0 .. 255 : Byte(x) = x
        BY DEF Byte
    <2> QED BY <2>1, <2>2
<1> HIDE DEF v
<1>5. Read' = Read + 1 /\ Read \in Nat
    <2>1. Read' = Len(file) - (Len(source) - 1)
        BY <1>1, <1>3 DEF Read
    <2>2. Read \in Int
        BY <1>0 DEF Read
    <2>3. Read' = Read + 1
        BY <1>0, <2>1 DEF Read
    <2> QED BY <1>3, <2>2, <2>3
<1>6. Pending(1)' = <<v>>
    BY <1>1, <1>2, <1>4
<1>7. Len(Pending(1)') = 1 /\ Pending(1)'[1] = v
    BY <1>6
<1>8. Decoded' = Decoded
    <2>1. Len(Pending(1)) = 0
        BY <1>1
    <2>2. Decoded = Read - 0 /\ Decoded' = (Read + 1) - 1
        BY <1>5, <1>7, <2>1 DEF Decoded
    <2> QED BY <1>5, <2>2
<1>9. LeftOf(source, file)'
    BY <1>1, <1>3 DEF LeftOf
<1>10. 0 < Read' /\ Pending(1)'[1] = file'[Read'] /\ Len(Pending(1)') \in {0, 1}
    BY <1>1, <1>3, <1>5, <1>7
<1> QED BY <1>8, <1>9, <1>10 DEF BytesFromFile

\* variable_decode takes the next one.
LEMMA BytesPass ==
    ASSUME PipelineTypes, BytesFromFile, chain = Examples.read, Passes(1, 2)
    PROVE  /\ BytesFromFile' /\ Decoded' = Decoded + 1 /\ Pending(1)[1] = file[Decoded + 1] /\ Decoded \in Nat
           /\ Decoded + 1 \in 1 .. Len(file)
<1>0. /\ Len(file) \in Nat /\ Len(source) \in Nat /\ Read \in Int /\ Len(source) <= Len(file) /\ Pending(1) \in Seq(Int)
      /\ Len(Pending(1)) \in {0, 1} /\ (Pending(1) # <<>> => 0 < Read /\ Pending(1)[1] = file[Read])
    BY ReadStages DEF BytesFromFile, LeftOf, Read
<1>1. Len(Pending(1)) > 0 /\ Pending(1)' = Tail(Pending(1)) /\ UNCHANGED <<file, source>>
    BY DEF Passes
<1>2. Len(Pending(1)) = 1 /\ Pending(1) # <<>> /\ Pending(1)' = <<>>
    BY <1>0, <1>1
<1>3. Read' = Read /\ Len(Pending(1)') = 0 /\ Pending(1)[1] = file[Read] /\ 0 < Read
    BY <1>0, <1>1, <1>2 DEF Read
<1>4. Decoded = Read - 1 /\ Decoded' = Read - 0 /\ Read <= Len(file)
    <2>1. Read <= Len(file)
        BY <1>0 DEF Read
    <2> QED BY <1>2, <1>3, <2>1 DEF Decoded
<1>5. Decoded + 1 = Read /\ Decoded' = Decoded + 1 /\ Decoded \in Nat /\ Decoded + 1 \in 1 .. Len(file)
    BY <1>0, <1>3, <1>4
<1>6. BytesFromFile'
    <2>1. LeftOf(source, file)'
        BY <1>1 DEF BytesFromFile, LeftOf
    <2>2. Len(Pending(1)') \in {0, 1} /\ Pending(1)' = <<>>
        BY <1>2, <1>3
    <2> QED BY <2>1, <2>2 DEF BytesFromFile
<1> QED BY <1>3, <1>5, <1>6

\* The first byte of a number tells whether more of them follow.
LEMMA FirstOfBytes ==
    ASSUME NEW t \in Seq(0 .. 255), NEW a \in Nat, NEW b \in Nat, NEW g \in Nat, BytesAt(t, a, b, g)
    PROVE  /\ a + 1 <= b /\ a + 1 \in 1 .. Len(t) /\ b <= Len(t)
           /\ t[a + 1] < 128 => /\ g >= 128 /\ t[a + 1] = g % 128 /\ BytesAt(t, a + 1, b, g \div 128)
           /\ ~(t[a + 1] < 128) => g = t[a + 1] - 128 /\ b = a + 1
<1> DEFINE c == Code(g)
<1>1. a + Len(c) = b /\ b <= Len(t) /\ \A m \in 1 .. Len(c) : t[a + m] = c[m]
    BY DEF BytesAt
<1>2. Len(c) \in Nat \ {0} /\ c[Len(c)] >= 128 /\ Len(t) \in Nat
    BY CodeMarked DEF OnlyLastMarked
<1>3. 1 \in 1 .. Len(c) /\ t[a + 1] = c[1]
    BY <1>1, <1>2
<1>4. a + 1 <= b /\ a + 1 \in 1 .. Len(t)
    BY <1>1, <1>2
<1>5. CASE g < 128
    <2>1. c = <<g + 128>>
        BY <1>5, CodeOf
    <2> HIDE DEF c
    <2>2. Len(c) = 1 /\ c[1] = g + 128
        BY <2>1
    <2>3. ~(t[a + 1] < 128) /\ g = t[a + 1] - 128
        BY <1>3, <2>2
    <2> QED BY <1>1, <1>4, <2>2, <2>3
<1>6. CASE g >= 128
    <2> DEFINE q == g \div 128
               d == Code(q)
    <2>1. q \in Nat /\ g % 128 \in 0 .. 127 /\ c = <<g % 128>> \o d
        BY <1>6, CodeOf
    <2> HIDE DEF q
    <2>2. d \in Seq(0 .. 255)
        BY <2>1, CodeOf
    <2> HIDE DEF c, d
    <2>3. <<g % 128>> \in Seq(0 .. 255)
        BY <2>1
    <2>4. /\ Len(c) = 1 + Len(d) /\ c[1] = g % 128 /\ Len(d) \in Nat
          /\ \A m \in 1 .. Len(d) : c[m + 1] = d[m]
        BY <2>1, <2>2, <2>3
    <2>5. t[a + 1] < 128 /\ t[a + 1] = g % 128
        BY <1>3, <2>1, <2>4
    <2>6. (a + 1) + Len(d) = b
        BY <1>1, <2>4
    <2>7. ASSUME NEW m \in 1 .. Len(d) PROVE t[(a + 1) + m] = d[m]
        <3>1. m + 1 \in 1 .. Len(c) /\ a + (m + 1) = (a + 1) + m
            BY <2>4
        <3> QED BY <1>1, <2>4, <3>1
    <2>8. BytesAt(t, a + 1, b, q)
        BY <1>1, <2>6, <2>7 DEF BytesAt, d
    <2> QED BY <1>1, <1>4, <1>6, <2>5, <2>8 DEF q
<1> QED BY <1>5, <1>6

\* What a byte adds to the number is what the rest of it loses.
LEMMA Weighted ==
    ASSUME NEW m \in Int, NEW w \in Nat \ {0}, NEW g \in Nat
    PROVE  (m + ((g % 128) * w)) + ((w * 128) * (g \div 128)) = m + (w * g)
<1>1. g = (g % 128) + (128 * (g \div 128)) /\ g % 128 \in Int /\ g \div 128 \in Int
    OBVIOUS
<1> DEFINE r == g % 128
           q == g \div 128
<1>2. g = r + (128 * q) /\ r \in Int /\ q \in Int
    BY <1>1
<1> HIDE DEF r, q
<1>3. \A x, y, z \in Int : x * (y + (128 * z)) = (y * x) + ((x * 128) * z)
    OBVIOUS
<1>4. w * (r + (128 * q)) = (r * w) + ((w * 128) * q)
    BY <1>2, <1>3
<1>5. (r * w) \in Int /\ ((w * 128) * q) \in Int
    BY <1>2
<1>6. \A x, y, z \in Int : (x + y) + z = x + (y + z)
    OBVIOUS
<1>7. (m + (r * w)) + ((w * 128) * q) = m + (w * g)
    BY <1>2, <1>4, <1>5, <1>6
<1> QED BY <1>7 DEF r, q
-----------------------------------------------------------------------------
\* The gaps of ids that stay are the same.
LEMMA GapsOfSame ==
    ASSUME ids' = ids
    PROVE  \A j : Gap(j)' = Gap(j) /\ Id(j)' = Id(j)
BY DEF Gap, Id

\* So stay the cuts of a file that does.
LEMMA CutsStay ==
    ASSUME ids' = ids, file' = file, NEW cut, CutsAt(file, Len(ids), cut)
    PROVE  CutsAt(file, Len(ids), cut)'
<1>1. /\ cut \in [0 .. Len(ids) -> 0 .. Len(file)] /\ cut[0] = 0 /\ cut[Len(ids)] = Len(file)
      /\ \A j \in 1 .. Len(ids) : BytesAt(file, cut[j - 1], cut[j], Gap(j))
    BY DEF CutsAt
<1>2. \A j \in 1 .. Len(ids) : BytesAt(file, cut[j - 1], cut[j], Gap(j)')
    BY <1>1, GapsOfSame
<1> QED BY <1>1, <1>2 DEF CutsAt, BytesAt, Code

\* Where the next gap comes from after a step.
LEMMA NextGapIs ==
    ASSUME ids' = ids, file' = file, NEW cut, NEW j, NEW d, Restored' = j, Decoded' = d,
           j = Len(ids) => d = Len(file),
           j # Len(ids) => \E rest \in Nat : /\ n'[2] + (weight'[2] * rest) = Gap(j + 1)
                                             /\ BytesAt(file, d, cut[j + 1], rest)
    PROVE  NextGap(cut)'
<1>1. CASE j = Len(ids)
    BY <1>1 DEF NextGap
<1>2. CASE j # Len(ids)
    <2>1. PICK rest \in Nat : n'[2] + (weight'[2] * rest) = Gap(j + 1) /\ BytesAt(file, d, cut[j + 1], rest)
        BY <1>2
    <2>2. (Restored + 1)' = j + 1
        OBVIOUS
    <2>3. Gap(Restored + 1)' = Gap(j + 1)
        BY <2>2 DEF Gap, Id
    <2>4. BytesAt(file', Decoded', cut[(Restored + 1)'], rest)
        BY <2>1, <2>2
    <2>5. \E r \in Nat : n'[2] + (weight'[2] * r) = Gap(Restored + 1)' /\ BytesAt(file, Decoded, cut[Restored + 1], r)'
        BY <2>1, <2>3, <2>4 DEF BytesAt, Code
    <2>6. Restored' # Len(ids')
        BY <1>2
    <2> QED BY <2>5, <2>6 DEF NextGap
<1> QED BY <1>1, <1>2

\* Steps of others change nothing here.
LEMMA ProgressStays ==
    ASSUME InProgress, Restored' = Restored, Decoded' = Decoded, n'[2] = n[2], weight'[2] = weight[2], UNCHANGED <<ids, file>>
    PROVE  InProgress'
<1>1. PICK cut \in [0 .. Len(ids) -> 0 .. Len(file)] : CutsAt(file, Len(ids), cut) /\ NextGap(cut)
    BY DEF InProgress
<1>2. NextGap(cut)'
    <2>1. Restored = Len(ids) => Decoded = Len(file)
        BY <1>1 DEF NextGap
    <2>2. Restored # Len(ids) => \E rest \in Nat : /\ n[2] + (weight[2] * rest) = Gap(Restored + 1)
                                                   /\ BytesAt(file, Decoded, cut[Restored + 1], rest)
        BY <1>1 DEF NextGap
    <2> QED BY <2>1, <2>2, NextGapIs
<1>3. CutsAt(file, Len(ids), cut)'
    BY <1>1, CutsStay
<1>4. Restored' <= Len(ids')
    BY DEF InProgress
<1> QED BY <1>1, <1>2, <1>3, <1>4 DEF InProgress

\* Nor in the ids that are back.
LEMMA IdsBackStay ==
    ASSUME IdsBack, \A i \in 2 .. 4 : Pending(i)' = Pending(i), n'[3] = n[3], UNCHANGED <<ids, output>>
    PROVE  IdsBack' /\ Restored' = Restored
<1>1. Pending(2)' = Pending(2) /\ Pending(3)' = Pending(3) /\ Pending(4)' = Pending(4)
    OBVIOUS
<1>2. Restored' = Restored /\ Summed' = Summed
    BY <1>1 DEF Restored, Summed
<1>3. Gap(Restored)' = Gap(Restored) /\ Id(Summed)' = Id(Summed) /\ Id(Len(output) + 1)' = Id(Len(output) + 1)
    BY <1>2 DEF Gap, Id
<1> QED BY <1>1, <1>2, <1>3 DEF IdsBack

\* Nor in the marks.
LEMMA MarksStay ==
    ASSUME MarksIn(file, Len(ids)), UNCHANGED <<ids, file>>
    PROVE  MarksIn(file, Len(ids))'
BY DEF MarksIn, Marked

\* How far the decoders are.
LEMMA ReadSpots ==
    ASSUME PipelineTypes, chain = Examples.read
    PROVE  Read \in Int /\ Decoded \in Int /\ Restored \in Nat /\ Summed \in Int
<1>1. /\ Len(ids) \in Nat /\ Len(source) \in Nat /\ Len(output) \in Nat /\ Len(file) \in Nat
      /\ Len(Pending(1)) \in Nat /\ Len(Pending(2)) \in Nat /\ Len(Pending(3)) \in Nat /\ Len(Pending(4)) \in Nat
    BY ReadStages
<1> QED BY <1>1 DEF Read, Decoded, Restored, Summed

\* variable_decode works on a byte (289-301).
LEMMA DecodePass ==
    ASSUME PipelineTypes, chain = Examples.read, Ascends(ids), Restores, Passes(1, 2)
    PROVE  Restores'
<1> DEFINE v == Pending(1)[1]
           m == n[2]
           w == weight[2]
<1>0. /\ chain[2] = "variable_decode" /\ Top = 4 /\ file \in Seq(0 .. 255) /\ ids \in Seq(Int) /\ Len(ids) \in Nat
      /\ n \in [1 .. Top -> Int] /\ weight \in [1 .. Top -> Nat \ {0}] /\ Len(file) \in Nat
    BY ReadStages
<1>1. /\ BytesFromFile' /\ Decoded' = Decoded + 1 /\ v = file[Decoded + 1] /\ Decoded \in Nat
      /\ Decoded + 1 \in 1 .. Len(file)
    BY BytesPass DEF Restores
<1>2. /\ Pending(2) = <<>> /\ Pending(2)' = Does(chain[2], v, m, w).out
      /\ n' = [n EXCEPT ![2] = Does(chain[2], v, m, w).n] /\ weight' = [weight EXCEPT ![2] = Does(chain[2], v, m, w).weight]
      /\ Pending(3)' = Pending(3) /\ Pending(4)' = Pending(4) /\ UNCHANGED <<ids, output, file>>
    BY <1>0 DEF Passes
<1>3. Does(chain[2], v, m, w) = VariableDecode(v, m, w)
    BY <1>0 DEF Does
<1>4. m \in Int /\ w \in Nat \ {0}
    BY <1>0
<1>5. Restored \in Nat /\ Summed \in Int /\ Restored <= Len(ids) /\ Summed = Restored
    <2>1. Len(Pending(2)) = 0
        BY <1>2
    <2> QED BY <2>1, ReadSpots DEF Restores, InProgress, Summed
<1>6. PICK cut \in [0 .. Len(ids) -> 0 .. Len(file)] : CutsAt(file, Len(ids), cut) /\ NextGap(cut)
    BY DEF Restores, InProgress
<1>7. Restored # Len(ids)
    <2>1. Decoded # Len(file)
        BY <1>1
    <2> QED BY <1>6, <2>1 DEF NextGap
<1>8. PICK rest \in Nat : m + (w * rest) = Gap(Restored + 1) /\ BytesAt(file, Decoded, cut[Restored + 1], rest)
    <2>1. NextGap(cut)
        BY <1>6
    <2> QED BY <1>7, <2>1 DEF NextGap
<1>9. Restored + 1 \in 1 .. Len(ids) /\ cut[Restored + 1] \in Nat
    <2>1. Restored + 1 \in 1 .. Len(ids) /\ Restored + 1 \in 0 .. Len(ids)
        BY <1>0, <1>5, <1>7
    <2>2. cut[Restored + 1] \in 0 .. Len(file)
        BY <1>6, <2>1
    <2>3. cut[Restored + 1] \in Nat
        BY <2>2
    <2> QED BY <2>1, <2>3
<1> HIDE DEF v, m, w
<1>10. /\ v < 128 => v = rest % 128 /\ BytesAt(file, Decoded + 1, cut[Restored + 1], rest \div 128)
       /\ ~(v < 128) => rest = v - 128 /\ cut[Restored + 1] = Decoded + 1
    <2> DEFINE a == Decoded
               b == cut[Restored + 1]
    <2>0. a \in Nat /\ v = file[a + 1]
        BY <1>1
    <2>a. b \in Nat
        BY <1>9
    <2>b. BytesAt(file, a, b, rest) /\ rest \in Nat
        BY <1>8
    <2> HIDE DEF a, b
    <2>1. a \in Nat /\ b \in Nat /\ BytesAt(file, a, b, rest) /\ v = file[a + 1] /\ rest \in Nat
        BY <2>0, <2>a, <2>b
    <2>2. /\ v < 128 => v = rest % 128 /\ BytesAt(file, a + 1, b, rest \div 128)
          /\ ~(v < 128) => rest = v - 128 /\ b = a + 1
        BY <1>0, <2>1, FirstOfBytes
    <2> QED BY <2>2 DEF a, b
<1>11. CutsAt(file, Len(ids), cut)' /\ MarksIn(file, Len(ids))'
    BY <1>2, <1>6, CutsStay, MarksStay DEF Restores
<1>12. n'[3] = n[3]
    BY <1>0, <1>2
<1>13. CASE v < 128
    <2>1. VariableDecode(v, m, w).out = <<>> /\ VariableDecode(v, m, w).n = m + (v * w) /\ VariableDecode(v, m, w).weight = w * 128
        BY <1>13 DEF VariableDecode, Effect
    <2>2. Pending(2)' = Pending(2) /\ n'[2] = m + (v * w) /\ weight'[2] = w * 128
        BY <1>0, <1>2, <1>3, <2>1
    <2>3. IdsBack' /\ Restored' = Restored
        <3>1. \A i \in 2 .. 4 : Pending(i)' = Pending(i)
            <4>1. \A i \in 2 .. 4 : i = 2 \/ i = 3 \/ i = 4
                OBVIOUS
            <4> QED BY <1>2, <2>2, <4>1
        <3> QED BY <1>2, <1>12, <3>1, IdsBackStay DEF Restores
    <2>4. rest \div 128 \in Nat /\ n'[2] + (weight'[2] * (rest \div 128)) = Gap(Restored + 1)
        <3>1. (m + ((rest % 128) * w)) + ((w * 128) * (rest \div 128)) = m + (w * rest)
            BY <1>4, Weighted
        <3>2. rest \div 128 \in Nat
            OBVIOUS
        <3> QED BY <1>8, <1>10, <1>13, <2>2, <3>1, <3>2
    <2>5. NextGap(cut)'
        BY <1>1, <1>2, <1>7, <1>10, <1>13, <2>3, <2>4, NextGapIs
    <2>6. InProgress'
        BY <1>2, <1>5, <1>6, <1>11, <2>3, <2>5 DEF InProgress
    <2> QED BY <1>1, <1>11, <2>3, <2>6 DEF Restores
<1>14. CASE ~(v < 128)
    <2> DEFINE x == m + ((v - 128) * w)
    <2>1. VariableDecode(v, m, w).out = <<x>> /\ VariableDecode(v, m, w).n = 0 /\ VariableDecode(v, m, w).weight = 1
        BY <1>14 DEF VariableDecode, Effect
    <2>2. x = Gap(Restored + 1)
        <3>1. \A a \in Int, b \in Int : a * b = b * a
            OBVIOUS
        <3>2. (v - 128) * w = w * rest
            BY <1>4, <1>10, <1>14, <3>1
        <3> QED BY <1>8, <3>2
    <2> HIDE DEF x
    <2>3. Pending(2)' = <<x>> /\ n'[2] = 0 /\ weight'[2] = 1
        <3>1. 2 \in 1 .. Top
            BY <1>0
        <3>2. Pending(2)' = <<x>>
            BY <1>2, <1>3, <2>1
        <3>3. n' = [n EXCEPT ![2] = 0] /\ weight' = [weight EXCEPT ![2] = 1]
            BY <1>2, <1>3, <2>1
        <3> QED BY <1>0, <3>1, <3>2, <3>3
    <2>4. Len(Pending(2)') = 1 /\ Pending(2)'[1] = x /\ Len(Pending(2)) = 0
        BY <1>2, <2>3
    <2>5. Restored' = Restored + 1 /\ Summed' = Restored
        <3>1. /\ Len(output) \in Nat /\ Len(Pending(3)) \in Nat /\ Len(Pending(4)) \in Nat
            BY ReadStages
        <3>2. Restored' = ((Len(output) + Len(Pending(4))) + Len(Pending(3))) + 1
            BY <1>2, <2>4 DEF Restored
        <3>3. Restored' = Restored + 1
            BY <2>4, <3>1, <3>2 DEF Restored
        <3>4. Summed' = (Restored + 1) - 1
            BY <2>4, <3>3 DEF Summed
        <3> QED BY <1>5, <3>3, <3>4
    <2>6. IdsBack'
        <3>1. Gap(Restored)' = Gap(Restored + 1) /\ Id(Summed)' = Id(Summed) /\ Id(Len(output) + 1)' = Id(Len(output) + 1)
            BY <1>2, <1>5, <2>5 DEF Gap, Id
        <3>2. Len(Pending(2)') \in {0, 1} /\ Pending(2)'[1] = Gap(Restored)'
            BY <2>2, <2>4, <3>1
        <3> QED BY <1>2, <1>12, <3>1, <3>2 DEF Restores, IdsBack
    <2>7. NextGap(cut)'
        <3> DEFINE j == Restored + 1
        <3>0. j \in 1 .. Len(ids) /\ cut[j] = Decoded + 1 /\ j \in Nat
            BY <1>9, <1>10, <1>14
        <3>1. j = Len(ids) => Decoded + 1 = Len(file)
            BY <1>6, <3>0 DEF CutsAt
        <3>2. ASSUME j # Len(ids)
              PROVE  \E r \in Nat : n'[2] + (weight'[2] * r) = Gap(j + 1) /\ BytesAt(file, Decoded + 1, cut[j + 1], r)
            <4> HIDE DEF j
            <4>1. j + 1 \in 1 .. Len(ids) /\ (j + 1) - 1 = j
                <5>1. \A l \in Nat : \A k \in 1 .. l : k # l => k + 1 \in 1 .. l /\ (k + 1) - 1 = k
                    OBVIOUS
                <5>2. Len(ids) \in Nat /\ j \in 1 .. Len(ids)
                    BY <1>0, <3>0
                <5> QED BY <3>2, <5>1, <5>2
            <4>2. BytesAt(file, cut[(j + 1) - 1], cut[j + 1], Gap(j + 1))
                BY <1>6, <4>1 DEF CutsAt
            <4>3. Gap(j + 1) \in Nat
                BY <1>0, <4>1, GapsAreNat
            <4>4. \A y \in Nat : 0 + (1 * y) = y
                OBVIOUS
            <4> QED BY <2>3, <3>0, <4>1, <4>2, <4>3, <4>4
        <3>3. Restored' = j /\ Decoded' = Decoded + 1
            BY <1>1, <2>5
        <3> HIDE DEF j
        <3> QED BY <1>2, <3>1, <3>2, <3>3, NextGapIs
    <2>8. InProgress'
        <3>1. Restored' <= Len(ids)
            BY <1>9, <2>5
        <3> QED BY <1>2, <1>6, <1>11, <2>7, <3>1 DEF InProgress
    <2> QED BY <1>1, <1>11, <2>6, <2>8 DEF Restores
<1> QED BY <1>13, <1>14
\* Steps of others change nothing in what has been read.
LEMMA BytesStay ==
    ASSUME BytesFromFile, Pending(1)' = Pending(1), UNCHANGED <<source, file>>
    PROVE  BytesFromFile' /\ Decoded' = Decoded
BY DEF BytesFromFile, Read, Decoded, LeftOf

\* gap_decode adds a gap to the id before (257-266).
LEMMA SumPass ==
    ASSUME PipelineTypes, chain = Examples.read, Ascends(ids), Restores, Passes(2, 3)
    PROVE  Restores'
<1> DEFINE v == Pending(2)[1]
           m == n[3]
<1>0. /\ chain[3] = "gap_decode" /\ Top = 4 /\ ids \in Seq(Int) /\ Len(ids) \in Nat /\ Pending(2) \in Seq(Int)
      /\ n \in [1 .. Top -> Int] /\ weight \in [1 .. Top -> Nat \ {0}] /\ Len(output) \in Nat /\ Len(Pending(4)) \in Nat
    BY ReadStages
<1>1. /\ Pending(3) = <<>> /\ Pending(3)' = Does(chain[3], v, m, weight[3]).out /\ Len(Pending(2)) > 0
      /\ Pending(2)' = Tail(Pending(2)) /\ Pending(1)' = Pending(1) /\ Pending(4)' = Pending(4)
      /\ n' = [n EXCEPT ![3] = Does(chain[3], v, m, weight[3]).n]
      /\ weight' = [weight EXCEPT ![3] = Does(chain[3], v, m, weight[3]).weight]
      /\ UNCHANGED <<ids, source, output, file>>
    BY <1>0 DEF Passes
<1>2. Does(chain[3], v, m, weight[3]) = Effect(<<v + m>>, v + m, weight[3])
    BY <1>0 DEF Does
<1>3. Len(Pending(2)) = 1 /\ Pending(2) # <<>> /\ Pending(2)' = <<>>
    <2>1. Len(Pending(2)) \in {0, 1}
        BY DEF Restores, IdsBack
    <2>2. Pending(2) \in Seq(Int) /\ Len(Pending(2)) = 1
        BY <1>0, <1>1, <2>1
    <2> QED BY <1>1, <2>2
<1>4. v = Gap(Restored) /\ m = Id(Summed) /\ Restored <= Len(ids)
    BY <1>3 DEF Restores, IdsBack, InProgress
<1> HIDE DEF v, m
<1>5. Restored = (Len(output) + Len(Pending(4))) + 1 /\ Summed = Restored - 1 /\ Restored \in 1 .. Len(ids)
    <2>1. Len(Pending(3)) = 0
        BY <1>1
    <2>2. Restored = ((Len(output) + Len(Pending(4))) + 0) + 1 /\ Summed = Restored - 1
        BY <1>3, <2>1 DEF Restored, Summed
    <2> QED BY <1>0, <1>4, <2>2
<1>6. v + m = Id(Restored)
    <2>1. Restored \in 0 .. Len(ids) /\ Restored - 1 \in 0 .. Len(ids)
        <3>1. \A l \in Nat : \A r \in 1 .. l : r \in 0 .. l /\ r - 1 \in 0 .. l
            OBVIOUS
        <3> QED BY <1>0, <1>5, <3>1
    <2>2. Id(Restored) \in Int /\ Id(Restored - 1) \in Int
        BY <1>0, <2>1, GapsAreNat
    <2>3. v = Id(Restored) - Id(Restored - 1) /\ m = Id(Restored - 1)
        BY <1>4, <1>5 DEF Gap
    <2> QED BY <2>2, <2>3
<1>7. n' = [n EXCEPT ![3] = Id(Restored)] /\ Pending(3)' = <<Id(Restored)>> /\ weight' = [weight EXCEPT ![3] = weight[3]]
    <2>1. /\ Does(chain[3], v, m, weight[3]).out = <<v + m>> /\ Does(chain[3], v, m, weight[3]).n = v + m
          /\ Does(chain[3], v, m, weight[3]).weight = weight[3]
        BY <1>2 DEF Effect
    <2> QED BY <1>1, <1>6, <2>1
<1>8. n'[3] = Id(Restored) /\ n'[2] = n[2] /\ weight'[2] = weight[2]
    <2>1. 2 \in 1 .. Top /\ 3 \in 1 .. Top /\ 2 # 3
        BY <1>0
    <2> QED BY <1>0, <1>7, <2>1
<1>9. Len(Pending(3)') = 1 /\ Pending(3)'[1] = Id(Restored) /\ Len(Pending(2)') = 0
    BY <1>3, <1>7
<1>10. Restored' = Restored /\ Summed' = Restored
    <2>1. Restored' = ((Len(output) + Len(Pending(4))) + 1) + 0
        BY <1>1, <1>9 DEF Restored
    <2>2. Restored' = Restored
        BY <1>0, <1>5, <2>1
    <2>3. Summed' = Restored - 0
        BY <1>9, <2>2 DEF Summed
    <2> QED BY <1>5, <2>2, <2>3
<1>11. BytesFromFile' /\ Decoded' = Decoded
    BY <1>1, BytesStay DEF Restores
<1>12. InProgress'
    BY <1>1, <1>8, <1>10, <1>11, ProgressStays DEF Restores
<1>13. IdsBack'
    <2>1. Id(Summed)' = Id(Restored) /\ Id(Len(output) + 1)' = Id(Len(output) + 1)
        BY <1>1, <1>10 DEF Id
    <2>2. Len(Pending(2)') \in {0, 1} /\ Len(Pending(3)') \in {0, 1}
        BY <1>9
    <2> QED BY <1>1, <1>3, <1>8, <1>9, <2>1, <2>2 DEF Restores, IdsBack
<1>14. MarksIn(file, Len(ids))'
    BY <1>1, MarksStay DEF Restores
<1> QED BY <1>11, <1>12, <1>13, <1>14 DEF Restores

\* decompress hands the id on (314-323).
LEMMA HandPass ==
    ASSUME PipelineTypes, chain = Examples.read, Restores, Passes(3, 4)
    PROVE  Restores'
<1> DEFINE v == Pending(3)[1]
<1>0. /\ chain[4] = "decompress" /\ Top = 4 /\ Pending(3) \in Seq(Int)
      /\ n \in [1 .. Top -> Int] /\ weight \in [1 .. Top -> Nat \ {0}] /\ Len(output) \in Nat /\ Len(Pending(2)) \in Nat
    BY ReadStages
<1>1. /\ Pending(4) = <<>> /\ Pending(4)' = Does(chain[4], v, n[4], weight[4]).out /\ Len(Pending(3)) > 0
      /\ Pending(3)' = Tail(Pending(3)) /\ Pending(1)' = Pending(1) /\ Pending(2)' = Pending(2)
      /\ n' = [n EXCEPT ![4] = Does(chain[4], v, n[4], weight[4]).n]
      /\ weight' = [weight EXCEPT ![4] = Does(chain[4], v, n[4], weight[4]).weight]
      /\ UNCHANGED <<ids, source, output, file>>
    BY <1>0 DEF Passes
<1>2. Pending(4)' = <<v>>
    BY <1>0, <1>1 DEF Does, Effect
<1>3. Len(Pending(3)) = 1 /\ Pending(3) # <<>> /\ Pending(3)' = <<>>
    <2>1. Len(Pending(3)) \in {0, 1}
        BY DEF Restores, IdsBack
    <2>2. Pending(3) \in Seq(Int) /\ Len(Pending(3)) = 1
        BY <1>0, <1>1, <2>1
    <2> QED BY <1>1, <2>2
<1>4. v = Id(Summed)
    BY <1>3 DEF Restores, IdsBack
<1> HIDE DEF v
<1>5. Restored = ((Len(output) + 0) + 1) + Len(Pending(2)) /\ Summed = Restored - Len(Pending(2))
    <2>1. Len(Pending(4)) = 0
        BY <1>1
    <2> QED BY <1>3, <2>1 DEF Restored, Summed
<1>6. Summed = Len(output) + 1
    BY <1>0, <1>5
<1>7. n'[3] = n[3] /\ n'[2] = n[2] /\ weight'[2] = weight[2]
    <2>1. 2 \in 1 .. Top /\ 3 \in 1 .. Top /\ 2 # 4 /\ 3 # 4
        BY <1>0
    <2> QED BY <1>0, <1>1, <2>1
<1>8. Len(Pending(4)') = 1 /\ Pending(4)'[1] = Id(Len(output) + 1) /\ Len(Pending(3)') = 0
    BY <1>2, <1>3, <1>4, <1>6
<1>9. Restored' = Restored /\ Summed' = Summed
    <2>1. Restored' = ((Len(output) + 1) + 0) + Len(Pending(2))
        BY <1>1, <1>8 DEF Restored
    <2>2. Restored' = Restored
        BY <1>0, <1>5, <2>1
    <2> QED BY <1>1, <2>2 DEF Summed
<1>10. BytesFromFile' /\ Decoded' = Decoded
    BY <1>1, BytesStay DEF Restores
<1>11. InProgress'
    BY <1>1, <1>7, <1>9, <1>10, ProgressStays DEF Restores
<1>12. IdsBack'
    <2>1. Id(Summed)' = Id(Summed) /\ Id(Len(output) + 1)' = Id(Len(output) + 1) /\ Gap(Restored)' = Gap(Restored)
        BY <1>1, <1>9 DEF Id, Gap
    <2>2. Len(Pending(3)') \in {0, 1} /\ Len(Pending(4)') \in {0, 1}
        BY <1>8
    <2> QED BY <1>1, <1>3, <1>7, <1>8, <2>1, <2>2 DEF Restores, IdsBack
<1>13. MarksIn(file, Len(ids))'
    BY <1>1, MarksStay DEF Restores
<1> QED BY <1>10, <1>11, <1>12, <1>13 DEF Restores

\* The consumer sees the next id (444-446).
LEMMA RestoresDeliver ==
    ASSUME PipelineTypes, chain = Examples.read, Restores, Delivers(4)
    PROVE  Restores'
<1> DEFINE v == Pending(4)[1]
<1>0. /\ Top = 4 /\ Pending(4) \in Seq(Int) /\ phase # "write" /\ output \in Seq(Int)
      /\ Len(output) \in Nat /\ Len(Pending(2)) \in Nat /\ Len(Pending(3)) \in Nat
    BY ReadStages
<1>1. /\ Len(Pending(4)) > 0 /\ Pending(4)' = Tail(Pending(4)) /\ Pending(1)' = Pending(1)
      /\ Pending(2)' = Pending(2) /\ Pending(3)' = Pending(3)
      /\ output' = Append(output, v) /\ UNCHANGED <<ids, source, n, weight, file>>
    BY <1>0 DEF Delivers
<1>2. Len(Pending(4)) = 1 /\ Pending(4) # <<>> /\ Pending(4)' = <<>> /\ v \in Int
    <2>1. Len(Pending(4)) \in {0, 1}
        BY DEF Restores, IdsBack
    <2>2. Pending(4) \in Seq(Int) /\ Len(Pending(4)) = 1
        BY <1>0, <1>1, <2>1
    <2> QED BY <1>1, <2>2
<1>3. v = ids[Len(output) + 1] /\ \A m \in DOMAIN output : output[m] = ids[m]
    <2>1. v = Id(Len(output) + 1) /\ \A m \in DOMAIN output : output[m] = ids[m]
        BY <1>2 DEF Restores, IdsBack
    <2>2. Len(output) + 1 # 0
        BY <1>0
    <2> QED BY <2>1, <2>2 DEF Id
<1> HIDE DEF v
<1>4. /\ Len(output') = Len(output) + 1 /\ DOMAIN output' = 1 .. Len(output) + 1 /\ DOMAIN output = 1 .. Len(output)
      /\ (\A m \in 1 .. Len(output) : output'[m] = output[m]) /\ output'[Len(output) + 1] = v
    BY <1>0, <1>1, <1>2
<1>5. ASSUME NEW m \in 1 .. Len(output) + 1 PROVE output'[m] = ids[m]
    <2>1. CASE m \in 1 .. Len(output)
        BY <1>3, <1>4, <2>1
    <2>2. CASE m = Len(output) + 1
        BY <1>3, <1>4, <2>2
    <2> QED BY <1>0, <2>1, <2>2
<1>6. Len(Pending(4)') = 0
    BY <1>2
<1>7. Restored' = Restored /\ Summed' = Summed
    <2>1. Restored' = (((Len(output) + 1) + 0) + Len(Pending(3))) + Len(Pending(2))
        BY <1>1, <1>4, <1>6 DEF Restored
    <2>2. Restored = ((Len(output) + 1) + Len(Pending(3))) + Len(Pending(2))
        BY <1>2 DEF Restored
    <2>3. Restored' = Restored
        BY <1>0, <2>1, <2>2
    <2> QED BY <1>1, <2>3 DEF Summed
<1>8. BytesFromFile' /\ Decoded' = Decoded
    BY <1>1, BytesStay DEF Restores
<1>9. InProgress'
    BY <1>1, <1>7, <1>8, ProgressStays DEF Restores
<1>10. IdsBack'
    <2>1. Id(Summed)' = Id(Summed) /\ Gap(Restored)' = Gap(Restored)
        BY <1>1, <1>7 DEF Id, Gap
    <2>2. \A m \in DOMAIN output' : output'[m] = ids'[m]
        BY <1>1, <1>4, <1>5
    <2>3. Len(Pending(4)') \in {0, 1}
        BY <1>6
    <2> QED BY <1>1, <1>2, <2>1, <2>2, <2>3 DEF Restores, IdsBack
<1>11. MarksIn(file, Len(ids))'
    BY <1>1, MarksStay DEF Restores
<1> QED BY <1>8, <1>9, <1>10, <1>11 DEF Restores

\* read takes a byte.
LEMMA RestoresLoad ==
    ASSUME PipelineTypes, chain = Examples.read, Restores, Loads
    PROVE  Restores'
<1>0. Top = 4 /\ n \in [1 .. Top -> Int]
    BY ReadStages
<1>1. /\ (\A j \in 2 .. Top : Pending(j)' = Pending(j)) /\ UNCHANGED <<ids, weight, output, file>>
      /\ n' = [n EXCEPT ![1] = Does(chain[1], Head(source), n[1], weight[1]).n]
    BY DEF Loads
<1>2. n'[2] = n[2] /\ n'[3] = n[3]
    <2>1. 2 \in 1 .. Top /\ 3 \in 1 .. Top /\ 2 # 1 /\ 3 # 1
        BY <1>0
    <2> QED BY <1>0, <1>1, <2>1
<1>3. BytesFromFile' /\ Decoded' = Decoded
    BY BytesLoad DEF Restores
<1>4. IdsBack' /\ Restored' = Restored
    BY <1>0, <1>1, <1>2, IdsBackStay DEF Restores
<1>5. InProgress'
    BY <1>1, <1>2, <1>3, <1>4, ProgressStays DEF Restores
<1>6. MarksIn(file, Len(ids))'
    BY <1>1, MarksStay DEF Restores
<1> QED BY <1>3, <1>4, <1>5, <1>6 DEF Restores

\* Steps that hand nothing over change nothing here.
LEMMA RestoresStay ==
    ASSUME Restores, Pending(1)' = Pending(1), \A i \in 2 .. 4 : Pending(i)' = Pending(i),
           UNCHANGED <<ids, source, n, weight, output, file>>
    PROVE  Restores'
<1>1. BytesFromFile' /\ Decoded' = Decoded
    BY BytesStay DEF Restores
<1>2. IdsBack' /\ Restored' = Restored
    BY IdsBackStay DEF Restores
<1>3. InProgress'
    BY <1>1, <1>2, ProgressStays DEF Restores
<1>4. MarksIn(file, Len(ids))'
    BY MarksStay DEF Restores
<1> QED BY <1>1, <1>2, <1>3, <1>4 DEF Restores

\* Every step of that pipeline.
LEMMA RestoresNext ==
    ASSUME PipelineTypes, Turns, Ascends(ids) => Restores, chain = Examples.read, GeneratorsNext
    PROVE  (Ascends(ids)' => Restores') /\ chain' = chain
<1>0. chain \in CodecChains /\ Top = 4 /\ phase # "write" /\ ~Reopens
    BY ReadStages DEF Reopens
<1>1. CASE Quiet
    <2>1. /\ \A i \in 2 .. 4 : Pending(i)' = Pending(i)
          /\ Pending(1)' = Pending(1) /\ UNCHANGED <<chain, ids, source, n, weight, output, file>>
        <3>1. 1 \in 1 .. Top /\ \A i \in 2 .. 4 : i \in 1 .. Top
            BY <1>0
        <3> QED BY <1>1, <3>1 DEF Quiet
    <2>2. Restores => Restores'
        BY <2>1, RestoresStay
    <2>3. Ascends(ids)' => Ascends(ids)
        BY <2>1
    <2> QED BY <2>1, <2>2, <2>3
<1>2. CASE Loads
    <2>1. chain' = chain /\ ids' = ids
        BY <1>2 DEF Loads
    <2>2. Ascends(ids)' => Ascends(ids)
        BY <2>1
    <2> QED BY <1>2, <2>1, <2>2, RestoresLoad
<1>3. CASE \E i \in 2 .. Top, k \in 1 .. Top : k = i - 1 /\ Passes(k, i)
    <2>1. Passes(1, 2) \/ Passes(2, 3) \/ Passes(3, 4)
        <3>1. PICK i \in 2 .. 4, k \in 1 .. 4 : k = i - 1 /\ Passes(k, i)
            BY <1>0, <1>3
        <3>2. (i = 2 /\ k = 1) \/ (i = 3 /\ k = 2) \/ (i = 4 /\ k = 3)
            BY <3>1
        <3> QED BY <3>1, <3>2
    <2>2. chain' = chain /\ ids' = ids
        BY <2>1 DEF Passes
    <2>3. Ascends(ids)' => Ascends(ids)
        BY <2>2
    <2> QED BY <2>1, <2>2, <2>3, DecodePass, SumPass, HandPass
<1>4. CASE \E k \in 1 .. Top : k = Top /\ Delivers(k)
    <2>1. Delivers(4)
        BY <1>0, <1>4
    <2>2. chain' = chain /\ ids' = ids
        BY <2>1 DEF Delivers
    <2>3. Ascends(ids)' => Ascends(ids)
        BY <2>2
    <2> QED BY <2>1, <2>2, <2>3, RestoresDeliver
<1> QED BY <1>0, <1>1, <1>2, <1>3, <1>4, CodecSteps

\* At the end all ids are back.
LEMMA RestoresEnd ==
    ASSUME PipelineTypes, Turns, Restores, chain = Examples.read
    PROVE  IsPrefix(output, ids) /\ (phase = "over" => output = ids)
<1>0. /\ ids \in Seq(Int) /\ output \in Seq(Int) /\ Len(ids) \in Nat /\ Len(output) \in Nat /\ Top = 4 /\ chain \in CodecChains
      /\ Len(Pending(2)) \in Nat /\ Len(Pending(3)) \in Nat /\ Len(Pending(4)) \in Nat /\ Len(file) \in Nat /\ file \in Seq(0 .. 255)
    BY ReadStages
<1>1. Len(output) <= Len(ids) /\ \A m \in DOMAIN output : output[m] = ids[m]
    <2>1. Restored <= Len(ids) /\ \A m \in DOMAIN output : output[m] = ids[m]
        BY DEF Restores, InProgress, IdsBack
    <2> QED BY <1>0, <2>1 DEF Restored
<1>2. phase = "over" => Len(output) = Len(ids)
    <2> SUFFICES ASSUME phase = "over" PROVE Len(output) = Len(ids)
        OBVIOUS
    <2>1. frames[Top] = "done"
        BY DEF Turns
    <2>2. source = <<>> /\ Pending(1) = <<>> /\ Pending(2) = <<>> /\ Pending(3) = <<>> /\ Pending(4) = <<>>
        BY <1>0, <2>1, AllDrawn
    <2>3. Len(source) = 0 /\ Len(Pending(1)) = 0 /\ Len(Pending(2)) = 0 /\ Len(Pending(3)) = 0 /\ Len(Pending(4)) = 0
        BY <2>2
    <2>4. Restored = Len(output) /\ Decoded = Len(file)
        BY <1>0, <2>3 DEF Restored, Decoded, Read
    <2>5. Restored = Len(ids)
        <3> SUFFICES ASSUME Restored # Len(ids) PROVE FALSE
            OBVIOUS
        <3>1. PICK cut \in [0 .. Len(ids) -> 0 .. Len(file)] : CutsAt(file, Len(ids), cut) /\ NextGap(cut)
            BY DEF Restores, InProgress
        <3>2. PICK rest \in Nat : BytesAt(file, Len(file), cut[Restored + 1], rest)
            BY <2>4, <3>1 DEF NextGap
        <3>3. Len(file) + Len(Code(rest)) = cut[Restored + 1] /\ cut[Restored + 1] <= Len(file)
            BY <3>2 DEF BytesAt
        <3>4. Len(Code(rest)) \in Nat \ {0}
            BY CodeMarked DEF OnlyLastMarked
        <3> QED BY <1>0, <3>3, <3>4
    <2> QED BY <2>4, <2>5
<1> QED BY <1>0, <1>1, <1>2, PrefixOf
-----------------------------------------------------------------------------
\* Every step keeps what is known of the codec.
LEMMA CodecNext ==
    ASSUME PipelineTypes, Turns, Codec, GeneratorsNext
    PROVE  Codec'
<1>0. /\ Examples.decoded # Examples.write /\ Examples.decoded # Examples.read /\ Examples.write # Examples.read
    BY FiveChains
<1>1. CASE chain = Examples.decoded
    <2>1. Gaps' /\ Sums' /\ chain' = chain
        BY <1>1, SumsNext DEF Codec
    <2> QED BY <1>0, <1>1, <2>1 DEF Codec
<1>2. CASE chain = Examples.write /\ ~Reopens
    <2>1. Gaps' /\ (Ascends(ids)' => Written') /\ chain' = chain
        BY <1>2, WrittenNext DEF Codec
    <2> QED BY <1>0, <1>2, <2>1 DEF Codec
<1>3. CASE chain = Examples.write /\ Reopens
    <2>1. chain' = Examples.read /\ ids' = ids
        BY <1>3, Stages DEF Reopens, Pipeline
    <2>2. Ascends(ids)' => Ascends(ids)
        BY <2>1
    <2>3. Ascends(ids)' => Restores'
        BY <1>3, <2>2, ReopensRestores DEF Codec
    <2> QED BY <1>0, <2>1, <2>3 DEF Codec
<1>4. CASE chain = Examples.read
    <2>1. (Ascends(ids)' => Restores') /\ chain' = chain
        BY <1>4, RestoresNext DEF Codec
    <2> QED BY <1>0, <1>4, <2>1 DEF Codec
<1>5. CASE chain \notin CodecChains
    <2>1. chain \in Chains /\ Phases
        BY DEF PipelineTypes
    <2>2. phase # "write"
        BY <1>5, <2>1, FiveChains DEF Chains, CodecChains, Phases
    <2>3. chain' = chain
        BY <2>2 DEF GeneratorsNext, generator, Consume, Printed, co_yield, seq, OverRange, Returns, Draw, Use, Stops,
                    Includes, BeginAgain, Increment, Dereference, LoopEnds, consumer, locals, generatorsVars
    <2> QED BY <1>5, <2>3 DEF Codec, CodecChains
<1> QED BY <1>1, <1>2, <1>3, <1>4, <1>5 DEF CodecChains

\* Before the first id is drawn nothing has been encoded.
LEMMA CodecBegins == GeneratorsInit => Codec
<1> SUFFICES ASSUME GeneratorsInit PROVE Codec
    OBVIOUS
<1>0. PipelineTypes
    BY PipelineBegins
<1>1. /\ chain = Examples[phase] /\ phase \in {"includes", "lin_space", "decoded", "write"} /\ output = <<>> /\ file = <<>>
      /\ frames = [i \in DOMAIN chain |-> "suspended"] /\ unread = [i \in DOMAIN chain |-> FALSE]
      /\ n = [i \in DOMAIN chain |-> 0] /\ yields = [i \in DOMAIN chain |-> <<>>]
      /\ (phase # "lin_space" => source = ids)
    BY DEF GeneratorsInit
<1>2. chain # Examples.read
    <2>1. chain \in {Examples.includes, Examples.lin_space, Examples.decoded, Examples.write}
        BY <1>1, Stages
    <2> QED BY <2>1, FiveChains
<1>3. CASE chain \in {Examples.decoded, Examples.write}
    <2>1. /\ 1 \in 1 .. Top /\ 2 \in 1 .. Top /\ Top \in {2, 3} /\ ids \in Seq(Int) /\ Len(ids) \in Nat /\ (chain = Examples.write => Top = 3)
        BY <1>0, <1>3, GapStages
    <2>2. DOMAIN chain = 1 .. Top
        BY <1>3, <2>1, Stages DEF Top
    <2>3. source = ids
        <3>1. phase # "lin_space"
            BY <1>1, <1>3, Stages, FiveChains
        <3> QED BY <1>1, <3>1
    <2>4. \A i \in 1 .. Top : Pending(i) = <<>>
        BY <1>0, <1>1, <2>2, PendingType
    <2>5. Pending(1) = <<>> /\ Pending(2) = <<>> /\ (chain = Examples.write => Pending(3) = <<>>)
        BY <2>1, <2>4
    <2>6. Len(Pending(1)) = 0 /\ Len(Pending(2)) = 0 /\ Taken = 0 /\ Used = 0
        <3>1. Len(Pending(1)) = 0 /\ Len(Pending(2)) = 0 /\ Taken = 0
            BY <2>1, <2>3, <2>5 DEF Taken
        <3> QED BY <3>1 DEF Used
    <2>7. n[1] = 0 /\ n[2] = 0 /\ Id(0) = 0
        BY <1>1, <2>1, <2>2 DEF Id
    <2>8. LeftOf(source, ids)
        <3>1. \A k \in DOMAIN ids : (Len(ids) - Len(ids)) + k = k
            BY <2>1
        <3> QED BY <2>1, <2>3, <3>1 DEF LeftOf
    <2>9. Gaps
        BY <2>5, <2>6, <2>7, <2>8 DEF Gaps
    <2>10. Sums
        BY <1>1, <2>5, <2>6, <2>7 DEF Sums
    <2>11. ASSUME chain = Examples.write PROVE Written
        <3> DEFINE cut == [j \in 0 .. 0 |-> 0]
        <3>1. Bytes = <<>>
            BY <1>1, <2>5, <2>11 DEF Bytes
        <3>2. Len(<<>>) = 0 /\ 0 \in 0 .. 0
            OBVIOUS
        <3>3. cut \in [0 .. 0 -> 0 .. Len(<<>>)] /\ cut[0] = 0
            BY <3>2
        <3>4. CutsAt(<<>>, 0, cut)
            <4>1. \A j \in 1 .. 0 : FALSE
                OBVIOUS
            <4> HIDE DEF cut
            <4> QED BY <3>2, <3>3, <4>1 DEF CutsAt
        <3>5. MarksIn(<<>>, 0)
            <4>1. Marked(<<>>) = {}
                BY DEF Marked
            <4> QED BY <4>1, FS_EmptySet DEF MarksIn
        <3> HIDE DEF cut
        <3>6. EncodedIn(<<>>, 0)
            BY <3>3, <3>4, <3>5 DEF EncodedIn
        <3>7. Pending(2) \in Seq(0 .. 255) /\ Pending(3) \in Seq(0 .. 255)
            BY <2>5, <2>11, EmptySeq
        <3> QED BY <1>1, <2>6, <3>1, <3>6, <3>7 DEF Written
    <2> QED BY <1>2, <2>9, <2>10, <2>11 DEF Codec
<1> QED BY <1>2, <1>3 DEF Codec

\* Nor does anything change when no step is taken.
LEMMA CodecStays == Codec /\ UNCHANGED generatorsVars => Codec'
<1> SUFFICES ASSUME Codec, UNCHANGED generatorsVars PROVE Codec'
    OBVIOUS
<1>1. UNCHANGED <<chain, ids, source, value_, unread, n, weight, yields, output, file>>
    BY DEF generatorsVars
<1>2. \A i \in 1 .. 4 : Pending(i)' = Pending(i)
    BY <1>1, MovePending
<1>3. /\ Pending(1)' = Pending(1) /\ Pending(2)' = Pending(2) /\ Pending(3)' = Pending(3)
      /\ \A i \in 2 .. 4 : Pending(i)' = Pending(i)
    BY <1>2
<1>4. Gaps => Gaps' /\ Used' = Used
    BY <1>1, <1>3, GapsStay
<1>5. Gaps /\ Sums => Sums'
    BY <1>1, <1>3, <1>4, SumsStay
<1>6. Gaps /\ Written => Written'
    BY <1>1, <1>3, <1>4, WrittenStays
<1>7. Restores => Restores'
    BY <1>1, <1>3, RestoresStay
<1>8. Ascends(ids)' => Ascends(ids)
    BY <1>1
<1> QED BY <1>1, <1>4, <1>5, <1>6, <1>7, <1>8 DEF Codec

\* The points of lin_space stay, too.
LEMMA LinesStay == Lines /\ UNCHANGED generatorsVars => Lines'
BY DEF Lines, InLine, Point, Pending, generatorsVars
-----------------------------------------------------------------------------
(* All of it together, and what follows.                                     *)
PipelineInv == PipelineTypes /\ Turns /\ Takes /\ Lines /\ Codec

\* Every step keeps it all.
LEMMA PipelineInvKept ==
    ASSUME PipelineInv, [GeneratorsNext]_generatorsVars
    PROVE  PipelineInv'
<1>0. PipelineTypes /\ Turns /\ Takes /\ Lines /\ Codec
    BY DEF PipelineInv
<1>1. GoesOn
    <2> SUFFICES ASSUME phase = "sum" PROVE frames[Top] # "done"
        BY DEF GoesOn
    <2>1. Phases /\ chain \in Chains
        BY <1>0 DEF PipelineTypes
    <2>2. chain = Examples.includes
        BY <2>1 DEF Phases, Chains
    <2> QED BY <1>0, <2>2, ThreeStages DEF Takes, TakesEnd
<1>2. ASSUME UNCHANGED generatorsVars PROVE PipelineInv'
    <2>0. PipelineTypes /\ Turns /\ Takes
        BY <1>0
    <2>1. PipelineTypes' /\ Turns' /\ Takes'
        <3>1. PipelineTypes' /\ Turns'
            BY <1>2, <2>0 DEF generatorsVars, PipelineTypes, Turns, Top, Phases
        <3>2. Takes'
            BY <1>2, <2>0 DEF generatorsVars, Takes, AreNext, HasSeen, TakesEnd, Drawn, Added, Seen, Pending
        <3> QED BY <3>1, <3>2
    <2>2. Lines' /\ Codec'
        BY <1>0, <1>2, LinesStay, CodecStays
    <2> QED BY <2>1, <2>2 DEF PipelineInv
<1>3. ASSUME GeneratorsNext PROVE PipelineInv'
    <2>1. Takes' /\ Lines' /\ Codec'
        BY <1>0, <1>3, TakesNext, LinesNext, CodecNext
    <2>2. ASSUME NEW i \in 1 .. Top, generator(i) PROVE PipelineTypes' /\ Turns'
        BY <1>0, <2>2, YieldKeeps, SeqKeeps, RangeKeeps, DrawKeeps, UseKeeps, StopKeeps DEF generator
    <2>3. ASSUME Consume PROVE PipelineTypes' /\ Turns'
        BY <1>0, <1>1, <2>3, IncludesKeeps, BeginAgainKeeps, IncrementKeeps, DereferenceKeeps, LoopEndKeeps DEF Consume
    <2>4. CASE Printed
        BY <1>2, <2>4 DEF Printed
    <2> QED BY <1>3, <2>1, <2>2, <2>3, <2>4 DEF GeneratorsNext, PipelineInv
<1> QED BY <1>2, <1>3

\* In every state of the program.
THEOREM PipelineInvariant == GeneratorsSpec => []PipelineInv
<1>1. GeneratorsInit => PipelineInv
    BY PipelineBegins, TakesBegins, LinesBegin, CodecBegins DEF PipelineInv
<1> QED BY <1>1, PipelineInvKept, PTL DEF GeneratorsSpec

\* Generators are resumed in turn, and none after its end (61, 99).
THEOREM AlwaysInTurn == GeneratorsSpec => []ResumedInTurn
<1>1. PipelineInv => ResumedInTurn
    BY DEF PipelineInv, PipelineTypes, Turns, ResumedInTurn
<1> QED BY <1>1, PipelineInvariant, PTL

\* No value is lost between a generator and the loop over it (15, 37, 71).
THEOREM LosesNoValue == GeneratorsSpec => NoValueLost
<1> DEFINE Kept == \A i \in 1 .. Top - 1 : unread[i] /\ chain' = chain => value_'[i] = value_[i] /\ frames'[i] = frames[i]
<1>1. ASSUME PipelineInv, [GeneratorsNext]_generatorsVars PROVE [Kept]_generatorsVars
    <2>0. PipelineTypes /\ Turns /\ Top \in 1 .. 4
        BY <1>1, SameTop DEF PipelineInv
    <2> SUFFICES ASSUME GeneratorsNext, NEW i \in 1 .. Top - 1, unread[i], chain' = chain
                 PROVE  value_'[i] = value_[i] /\ frames'[i] = frames[i]
        BY <1>1
    <2>1. i \in 1 .. Top /\ i # Top /\ frames[i] # "running"
        BY <2>0 DEF Turns
    <2>2. ASSUME NEW j \in 1 .. Top, generator(j) PROVE value_'[i] = value_[i] /\ frames'[i] = frames[i]
        <3>1. CASE co_yield(j)
            BY <2>0, <2>1, <3>1 DEF co_yield, PipelineTypes
        <3>2. CASE seq(j)
            BY <3>2 DEF seq
        <3>3. ASSUME Returns(j), frames[j] = "running" PROVE value_'[i] = value_[i] /\ frames'[i] = frames[i]
            BY <2>0, <2>1, <3>3 DEF Returns, PipelineTypes
        <3>4. CASE OverRange(j)
            BY <3>3, <3>4 DEF OverRange
        <3>5. CASE Draw(j)
            <4>1. j - 1 # i
                BY <2>1, <3>5 DEF Draw
            <4> QED BY <2>0, <2>1, <3>5, <4>1 DEF Draw, Resume, PipelineTypes
        <3>6. CASE Use(j)
            BY <3>6 DEF Use
        <3>7. CASE Stops(j)
            BY <3>3, <3>7 DEF Stops, Loops
        <3> QED BY <2>2, <3>1, <3>2, <3>4, <3>5, <3>6, <3>7 DEF generator
    <2>3. ASSUME Resume(Top) \/ UNCHANGED <<active, frames>> PROVE frames'[i] = frames[i]
        BY <2>0, <2>1, <2>3 DEF Resume, PipelineTypes
    <2>4. CASE Includes
        BY <2>3, <2>4 DEF Includes
    <2>5. CASE BeginAgain
        BY <2>3, <2>5 DEF BeginAgain
    <2>6. CASE Increment
        BY <2>3, <2>6 DEF Increment
    <2>7. CASE Dereference
        BY <2>7 DEF Dereference
    <2>8. CASE LoopEnds
        <3>1. phase # "write"
            <4> SUFFICES ASSUME phase = "write" PROVE FALSE
                OBVIOUS
            <4>1. chain' = Examples.read
                BY <2>8 DEF LoopEnds, Pipeline
            <4>2. Phases /\ Examples.read # Examples.write /\ chain \in Chains
                <5>1. Phases /\ chain \in Chains
                    BY <2>0 DEF PipelineTypes
                <5> QED BY <5>1, FiveChains
            <4> QED BY <4>1, <4>2 DEF Phases, Chains
        <3> QED BY <2>8, <3>1 DEF LoopEnds
    <2>9. CASE Printed
        BY <2>9 DEF Printed, generatorsVars
    <2> QED BY <2>2, <2>4, <2>5, <2>6, <2>7, <2>8, <2>9 DEF GeneratorsNext, Consume
<1>2. NoValueLost <=> [][Kept]_generatorsVars
    BY DEF NoValueLost
<1> HIDE DEF Kept
<1> QED BY <1>1, <1>2, PipelineInvariant, PTL DEF GeneratorsSpec

\* The loops over a see each value at most once and in order, and the loop over
\* lin_space sees evenly spaced ones from start to stop (358-371, 411).
THEOREM AlwaysSeenOnce == GeneratorsSpec => []SeenOnce
<1>1. ASSUME PipelineInv, chain = Examples.includes PROVE TakenOnce(output)
    <2>1. AreNext /\ HasSeen /\ PipelineTypes
        BY <1>1 DEF PipelineInv, Takes
    <2>2. Seen \in Int /\ Drawn \in Int /\ Added \in Int /\ Until \in Nat /\ Adder \in Int
          /\ Pending(2) \in Seq(Int) /\ Pending(3) \in Seq(Int) /\ output \in Seq(Int)
        BY <1>1, <2>1, ThreeStages
    <2>3. Seen <= Until
        <3>1. Len(Pending(2)) \in Nat /\ Len(Pending(3)) \in Nat
            BY <2>2
        <3>2. Drawn <= Until /\ Added = Drawn - Len(Pending(2)) /\ Seen = Added - Len(Pending(3))
            BY <2>1 DEF AreNext, Added, Seen
        <3> QED BY <2>2, <3>1, <3>2
    <2>4. ASSUME NEW j \in DOMAIN output
          PROVE  output[j] \in Adder .. (Until + Adder) - 1 /\ (j > 1 => output[j - 1] < output[j])
        <3>1. output[j] \in Int
            BY <2>2
        <3>2. Adder <= output[j] /\ output[j] < Seen + Adder /\ (j > 1 => output[j - 1] < output[j])
            BY <2>1 DEF HasSeen
        <3> QED BY <2>2, <2>3, <3>1, <3>2
    <2>5. Until + Adder - 1 = (Until + Adder) - 1
        BY <2>2
    <2> QED BY <2>4, <2>5 DEF TakenOnce
<1>2. ASSUME PipelineInv, chain = Examples.lin_space, phase = "over" PROVE EvenlySpaced(output)
    BY <1>2, LinesEnd DEF PipelineInv
<1>3. PipelineInv => SeenOnce
    BY <1>1, <1>2 DEF SeenOnce
<1> QED BY <1>3, PipelineInvariant, PTL

\* Whatever ids are encoded, in gaps or through a file in bytes, decoding gives
\* them back one by one, and all of them at the end (244-335, 419-447).
THEOREM AlwaysRoundTrip == GeneratorsSpec => []RoundTrip
<1>0. Len(Examples.decoded) = 2 /\ Len(Examples.read) = 4 /\ Examples.decoded # Examples.read
    BY FiveChains
<1>1. ASSUME PipelineInv, chain = Examples.decoded PROVE IsPrefix(output, ids) /\ (phase = "over" => output = ids)
    BY <1>1, SumsEnd DEF PipelineInv, Codec
<1>2. ASSUME PipelineInv, chain = Examples.read, Ascends(ids)
      PROVE  /\ IsPrefix(output, ids) /\ (phase = "over" => output = ids)
             /\ Cardinality({p \in DOMAIN file : file[p] >= 128}) = Len(ids)
             /\ file # <<>> => file[Len(file)] >= 128
    <2>1. Restores /\ PipelineTypes /\ Turns
        BY <1>2 DEF PipelineInv, Codec
    <2>2. IsPrefix(output, ids) /\ (phase = "over" => output = ids)
        BY <1>2, <2>1, RestoresEnd
    <2>3. MarksIn(file, Len(ids))
        BY <2>1 DEF Restores
    <2> QED BY <2>2, <2>3 DEF MarksIn, Marked
<1>3. ASSUME PipelineInv PROVE RoundTrip
    <2>1. chain \in {Examples.decoded, Examples.read} /\ (Len(chain) = 2 \/ Ascends(ids)) =>
              IsPrefix(output, ids) /\ (phase = "over" => output = ids)
        BY <1>0, <1>1, <1>2, <1>3
    <2>2. chain = Examples.read /\ Ascends(ids) =>
              /\ Cardinality({p \in DOMAIN file : file[p] >= 128}) = Len(ids)
              /\ file # <<>> => file[Len(file)] >= 128
        BY <1>2, <1>3
    <2> QED BY <2>1, <2>2 DEF RoundTrip, OfIds
<1> QED BY <1>3, PipelineInvariant, PTL

-----------------------------------------------------------------------------
(* Resumables: which frame each of them holds, at each statement of the two  *)
(* programs, and what the frames are in.                                     *)
OwnerTypes ==
    /\ program \in {"UseCoroutines", "Await"}
    /\ statement \in 1 .. IF program = "Await" THEN 4 ELSE 30
    /\ thread \in {"unborn", "sleep", "resume", "exit", "ended"}
    /\ part \in [Owner!Coroutines -> Nat] /\ inside \in [Owner!Threads -> Owner!Coroutines \cup {"none"}]

\* The frame that a Resumable is for, and whether it has it.
For(r) ==
    CASE r = "resumable" -> IF program = "Await" THEN "eager" ELSE "coroutine"
      [] r \in {"res", "r", "[r]", "thread's"} -> "factory's"
      [] r = "coro" -> "member"
      [] r = "coro0" -> "lambda"
      [] r = "coro1" -> "temporary"
Holds(r) ==
    IF program = "Await" THEN r = "resumable" /\ statement \in 2 .. 3
    ELSE \/ r = "resumable" /\ statement \in 2 .. 29
         \/ r = "res" /\ statement = 5
         \/ r = "r" /\ statement \in 6 .. 8
         \/ r = "[r]" /\ statement = 9
         \/ r = "thread's" /\ statement >= 10 /\ thread # "ended"
         \/ r = "coro" /\ statement \in 14 .. 25
         \/ r = "coro0" /\ statement \in 17 .. 24
         \/ r = "coro1" /\ statement \in 20 .. 23
Owners == h_ = [r \in Owner!Owners |-> IF Holds(r) THEN For(r) ELSE "none"]

\* Whether a coroutine has been created, and whether its frame is still there.
Created(c) ==
    IF program = "Await" THEN c = "eager" /\ statement > 1
    ELSE \/ c = "coroutine" /\ statement > 1
         \/ c = "factory's" /\ statement > 4
         \/ c = "member" /\ statement > 13
         \/ c = "lambda" /\ statement > 16
         \/ c = "temporary" /\ statement > 19
Owned(c) == Created(c) /\
    IF program = "Await" THEN statement <= 3
    ELSE /\ c = "coroutine" => statement <= 29
         /\ c = "factory's" => thread # "ended"
         /\ c = "member" => statement <= 25
         /\ c = "lambda" => statement <= 24
         /\ c = "temporary" => statement <= 23
FrameOf(c) ==
    IF ~Created(c) THEN "none"
    ELSE IF ~Owned(c) THEN "destroyed"
    ELSE IF inside["main"] = c \/ inside["t"] = c THEN "running"
    ELSE IF part[c] = Owner!Parts(c) THEN "done" ELSE "suspended"
OwnedFrames == coroutine_frame = [c \in Owner!Coroutines |-> FrameOf(c)]

\* A thread is in the coroutine it resumed last, and each ends in time.
InCalls ==
    /\ inside["main"] # "none" => <<statement, inside["main"]>> \in
           IF program = "Await" THEN {<<2, "eager">>, <<3, "eager">>}
           ELSE {<<3, "coroutine">>, <<4, "coroutine">>, <<8, "factory's">>, <<15, "member">>, <<16, "member">>,
                 <<18, "lambda">>, <<22, "temporary">>, <<23, "temporary">>}
    /\ inside["t"] # "none" => inside["t"] = "factory's" /\ thread = "exit"
BodyParts ==
    /\ \A c \in Owner!Coroutines : part[c] <= Owner!Parts(c) /\ (~Created(c) => part[c] = 0)
    /\ \A u \in Owner!Threads : inside[u] # "none" => part[inside[u]] < Owner!Parts(inside[u])
JThread ==
    IF program = "Await" THEN thread = "unborn"
    ELSE (thread = "unborn" <=> statement <= 10) /\ (statement >= 28 => thread = "ended")
Objects == alive = {o \in {"w", "closure"} :
    program = "UseCoroutines" /\ IF o = "w" THEN statement \in 13 .. 26 ELSE statement \in 19 .. 20}
OwnerInv == OwnerTypes /\ Owners /\ OwnedFrames /\ InCalls /\ BodyParts /\ JThread /\ Objects

\* The statements of UseCoroutines(), one by one.
LEMMA UseIs ==
    LET S == Owner!Statements["UseCoroutines"]
    IN  /\ Len(S) = 29
        /\ S[1] = Owner!New("coroutine", "resumable")
        /\ S[2] = Owner!Call("resumable")
        /\ S[3] = Owner!Call("resumable")
        /\ S[4] = Owner!New("factory's", "res")
        /\ S[5] = Owner!Move("res", "r")
        /\ S[6] = Owner!Drop("res")
        /\ S[7] = Owner!Call("r")
        /\ S[8] = Owner!Move("r", "[r]")
        /\ S[9] = Owner!Move("[r]", "thread's")
        /\ S[10] = Owner!Do("start")
        /\ S[11] = Owner!Drop("[r]")
        /\ S[12] = Owner!Object("w")
        /\ S[13] = Owner!New("member", "coro")
        /\ S[14] = Owner!Call("coro")
        /\ S[15] = Owner!Call("coro")
        /\ S[16] = Owner!New("lambda", "coro0")
        /\ S[17] = Owner!Call("coro0")
        /\ S[18] = Owner!Object("closure")
        /\ S[19] = Owner!New("temporary", "coro1")
        /\ S[20] = Owner!Gone("closure")
        /\ S[21] = Owner!Call("coro1")
        /\ S[22] = Owner!Call("coro1")
        /\ S[23] = Owner!Drop("coro1")
        /\ S[24] = Owner!Drop("coro0")
        /\ S[25] = Owner!Drop("coro")
        /\ S[26] = Owner!Gone("w")
        /\ S[27] = Owner!Do("join")
        /\ S[28] = Owner!Drop("r")
        /\ S[29] = Owner!Drop("resumable")
BY DEF Owner!Statements

\* Those of Await().
LEMMA AwaitIs ==
    LET S == Owner!Statements["Await"]
    IN  /\ Len(S) = 3
        /\ S[1] = Owner!New("eager", "resumable")
        /\ S[2] = Owner!Call("resumable")
        /\ S[3] = Owner!Drop("resumable")
BY DEF Owner!Statements

\* Where a coroutine is created, and for whom.
LEMMA AtNew ==
    ASSUME OwnerTypes, Owner!Main("new")
    PROVE  \/ program = "UseCoroutines" /\ statement = 1 /\ Owner!Now.coroutine = "coroutine" /\ Owner!Now.into = "resumable"
           \/ program = "UseCoroutines" /\ statement = 4 /\ Owner!Now.coroutine = "factory's" /\ Owner!Now.into = "res"
           \/ program = "UseCoroutines" /\ statement = 13 /\ Owner!Now.coroutine = "member" /\ Owner!Now.into = "coro"
           \/ program = "UseCoroutines" /\ statement = 16 /\ Owner!Now.coroutine = "lambda" /\ Owner!Now.into = "coro0"
           \/ program = "UseCoroutines" /\ statement = 19 /\ Owner!Now.coroutine = "temporary" /\ Owner!Now.into = "coro1"
           \/ program = "Await" /\ statement = 1 /\ Owner!Now.coroutine = "eager" /\ Owner!Now.into = "resumable"
<1>1. CASE program = "UseCoroutines"
    <2>1. statement \in 1 .. 29 /\ Owner!Statements["UseCoroutines"][statement].do = "new"
        BY <1>1, UseIs DEF OwnerTypes, Owner!Main, Owner!Now
    <2> QED BY <1>1, <2>1, UseIs DEF Owner!Now, Owner!New, Owner!Move, Owner!Call, Owner!Drop, Owner!Object, Owner!Gone, Owner!Do
<1>2. CASE program = "Await"
    <2>1. statement \in 1 .. 3 /\ Owner!Statements["Await"][statement].do = "new"
        BY <1>2, AwaitIs DEF OwnerTypes, Owner!Main, Owner!Now
    <2> QED BY <1>2, <2>1, AwaitIs DEF Owner!Now, Owner!New, Owner!Call, Owner!Drop
<1> QED BY <1>1, <1>2 DEF OwnerTypes

\* Where a Resumable is moved.
LEMMA AtMove ==
    ASSUME OwnerTypes, Owner!Main("move")
    PROVE  \/ program = "UseCoroutines" /\ statement = 5 /\ Owner!Now.from = "res" /\ Owner!Now.into = "r"
           \/ program = "UseCoroutines" /\ statement = 8 /\ Owner!Now.from = "r" /\ Owner!Now.into = "[r]"
           \/ program = "UseCoroutines" /\ statement = 9 /\ Owner!Now.from = "[r]" /\ Owner!Now.into = "thread's"
<1>1. CASE program = "UseCoroutines"
    <2>1. statement \in 1 .. 29 /\ Owner!Statements["UseCoroutines"][statement].do = "move"
        BY <1>1, UseIs DEF OwnerTypes, Owner!Main, Owner!Now
    <2> QED BY <1>1, <2>1, UseIs DEF Owner!Now, Owner!New, Owner!Move, Owner!Call, Owner!Drop, Owner!Object, Owner!Gone, Owner!Do
<1>2. CASE program = "Await"
    <2>1. statement \in 1 .. 3 /\ Owner!Statements["Await"][statement].do = "move"
        BY <1>2, AwaitIs DEF OwnerTypes, Owner!Main, Owner!Now
    <2> QED BY <1>2, <2>1, AwaitIs DEF Owner!Now, Owner!New, Owner!Call, Owner!Drop
<1> QED BY <1>1, <1>2 DEF OwnerTypes

\* Where the main thread resumes.
LEMMA AtResume ==
    ASSUME OwnerTypes, Owner!Main("resume")
    PROVE  \/ program = "UseCoroutines" /\ statement = 2 /\ Owner!Now.on = "resumable"
           \/ program = "UseCoroutines" /\ statement = 3 /\ Owner!Now.on = "resumable"
           \/ program = "UseCoroutines" /\ statement = 7 /\ Owner!Now.on = "r"
           \/ program = "UseCoroutines" /\ statement = 14 /\ Owner!Now.on = "coro"
           \/ program = "UseCoroutines" /\ statement = 15 /\ Owner!Now.on = "coro"
           \/ program = "UseCoroutines" /\ statement = 17 /\ Owner!Now.on = "coro0"
           \/ program = "UseCoroutines" /\ statement = 21 /\ Owner!Now.on = "coro1"
           \/ program = "UseCoroutines" /\ statement = 22 /\ Owner!Now.on = "coro1"
           \/ program = "Await" /\ statement = 2 /\ Owner!Now.on = "resumable"
<1>1. CASE program = "UseCoroutines"
    <2>1. statement \in 1 .. 29 /\ Owner!Statements["UseCoroutines"][statement].do = "resume"
        BY <1>1, UseIs DEF OwnerTypes, Owner!Main, Owner!Now
    <2> QED BY <1>1, <2>1, UseIs DEF Owner!Now, Owner!New, Owner!Move, Owner!Call, Owner!Drop, Owner!Object, Owner!Gone, Owner!Do
<1>2. CASE program = "Await"
    <2>1. statement \in 1 .. 3 /\ Owner!Statements["Await"][statement].do = "resume"
        BY <1>2, AwaitIs DEF OwnerTypes, Owner!Main, Owner!Now
    <2> QED BY <1>2, <2>1, AwaitIs DEF Owner!Now, Owner!New, Owner!Call, Owner!Drop
<1> QED BY <1>1, <1>2 DEF OwnerTypes

\* Where a Resumable goes out of scope.
LEMMA AtDrop ==
    ASSUME OwnerTypes, Owner!Main("drop")
    PROVE  \/ program = "UseCoroutines" /\ statement = 6 /\ Owner!Now.on = "res"
           \/ program = "UseCoroutines" /\ statement = 11 /\ Owner!Now.on = "[r]"
           \/ program = "UseCoroutines" /\ statement = 23 /\ Owner!Now.on = "coro1"
           \/ program = "UseCoroutines" /\ statement = 24 /\ Owner!Now.on = "coro0"
           \/ program = "UseCoroutines" /\ statement = 25 /\ Owner!Now.on = "coro"
           \/ program = "UseCoroutines" /\ statement = 28 /\ Owner!Now.on = "r"
           \/ program = "UseCoroutines" /\ statement = 29 /\ Owner!Now.on = "resumable"
           \/ program = "Await" /\ statement = 3 /\ Owner!Now.on = "resumable"
<1>1. CASE program = "UseCoroutines"
    <2>1. statement \in 1 .. 29 /\ Owner!Statements["UseCoroutines"][statement].do = "drop"
        BY <1>1, UseIs DEF OwnerTypes, Owner!Main, Owner!Now
    <2> QED BY <1>1, <2>1, UseIs DEF Owner!Now, Owner!New, Owner!Move, Owner!Call, Owner!Drop, Owner!Object, Owner!Gone, Owner!Do
<1>2. CASE program = "Await"
    <2>1. statement \in 1 .. 3 /\ Owner!Statements["Await"][statement].do = "drop"
        BY <1>2, AwaitIs DEF OwnerTypes, Owner!Main, Owner!Now
    <2> QED BY <1>2, <2>1, AwaitIs DEF Owner!Now, Owner!New, Owner!Call, Owner!Drop
<1> QED BY <1>1, <1>2 DEF OwnerTypes

\* Where the objects that coroutines use are created.
LEMMA AtObject ==
    ASSUME OwnerTypes, Owner!Main("object")
    PROVE  \/ program = "UseCoroutines" /\ statement = 12 /\ Owner!Now.on = "w"
           \/ program = "UseCoroutines" /\ statement = 18 /\ Owner!Now.on = "closure"
<1>1. CASE program = "UseCoroutines"
    <2>1. statement \in 1 .. 29 /\ Owner!Statements["UseCoroutines"][statement].do = "object"
        BY <1>1, UseIs DEF OwnerTypes, Owner!Main, Owner!Now
    <2> QED BY <1>1, <2>1, UseIs DEF Owner!Now, Owner!New, Owner!Move, Owner!Call, Owner!Drop, Owner!Object, Owner!Gone, Owner!Do
<1>2. CASE program = "Await"
    <2>1. statement \in 1 .. 3 /\ Owner!Statements["Await"][statement].do = "object"
        BY <1>2, AwaitIs DEF OwnerTypes, Owner!Main, Owner!Now
    <2> QED BY <1>2, <2>1, AwaitIs DEF Owner!Now, Owner!New, Owner!Call, Owner!Drop
<1> QED BY <1>1, <1>2 DEF OwnerTypes

\* Where their lives end.
LEMMA AtGone ==
    ASSUME OwnerTypes, Owner!Main("gone")
    PROVE  \/ program = "UseCoroutines" /\ statement = 20 /\ Owner!Now.on = "closure"
           \/ program = "UseCoroutines" /\ statement = 26 /\ Owner!Now.on = "w"
<1>1. CASE program = "UseCoroutines"
    <2>1. statement \in 1 .. 29 /\ Owner!Statements["UseCoroutines"][statement].do = "gone"
        BY <1>1, UseIs DEF OwnerTypes, Owner!Main, Owner!Now
    <2> QED BY <1>1, <2>1, UseIs DEF Owner!Now, Owner!New, Owner!Move, Owner!Call, Owner!Drop, Owner!Object, Owner!Gone, Owner!Do
<1>2. CASE program = "Await"
    <2>1. statement \in 1 .. 3 /\ Owner!Statements["Await"][statement].do = "gone"
        BY <1>2, AwaitIs DEF OwnerTypes, Owner!Main, Owner!Now
    <2> QED BY <1>2, <2>1, AwaitIs DEF Owner!Now, Owner!New, Owner!Call, Owner!Drop
<1> QED BY <1>1, <1>2 DEF OwnerTypes

\* Where the thread starts.
LEMMA AtStart ==
    ASSUME OwnerTypes, Owner!Main("start")
    PROVE  \/ program = "UseCoroutines" /\ statement = 10
<1>1. CASE program = "UseCoroutines"
    <2>1. statement \in 1 .. 29 /\ Owner!Statements["UseCoroutines"][statement].do = "start"
        BY <1>1, UseIs DEF OwnerTypes, Owner!Main, Owner!Now
    <2> QED BY <1>1, <2>1, UseIs DEF Owner!Now, Owner!New, Owner!Move, Owner!Call, Owner!Drop, Owner!Object, Owner!Gone, Owner!Do
<1>2. CASE program = "Await"
    <2>1. statement \in 1 .. 3 /\ Owner!Statements["Await"][statement].do = "start"
        BY <1>2, AwaitIs DEF OwnerTypes, Owner!Main, Owner!Now
    <2> QED BY <1>2, <2>1, AwaitIs DEF Owner!Now, Owner!New, Owner!Call, Owner!Drop
<1> QED BY <1>1, <1>2 DEF OwnerTypes

\* Where it is joined.
LEMMA AtJoin ==
    ASSUME OwnerTypes, Owner!Main("join")
    PROVE  \/ program = "UseCoroutines" /\ statement = 27
<1>1. CASE program = "UseCoroutines"
    <2>1. statement \in 1 .. 29 /\ Owner!Statements["UseCoroutines"][statement].do = "join"
        BY <1>1, UseIs DEF OwnerTypes, Owner!Main, Owner!Now
    <2> QED BY <1>1, <2>1, UseIs DEF Owner!Now, Owner!New, Owner!Move, Owner!Call, Owner!Drop, Owner!Object, Owner!Gone, Owner!Do
<1>2. CASE program = "Await"
    <2>1. statement \in 1 .. 3 /\ Owner!Statements["Await"][statement].do = "join"
        BY <1>2, AwaitIs DEF OwnerTypes, Owner!Main, Owner!Now
    <2> QED BY <1>2, <2>1, AwaitIs DEF Owner!Now, Owner!New, Owner!Call, Owner!Drop
<1> QED BY <1>1, <1>2 DEF OwnerTypes

\* Each frame that is there has one owner.
LEMMA OneOwner ==
    ASSUME OwnerTypes, JThread
    PROVE  /\ \A r \in Owner!Owners : For(r) \in Owner!Coroutines /\ (Holds(r) => Owned(For(r)))
           /\ \A c \in Owner!Coroutines : Owned(c) => \E r \in Owner!Owners : Holds(r) /\ For(r) = c
           /\ \A r, s \in Owner!Owners : Holds(r) /\ Holds(s) /\ For(r) = For(s) => r = s
<1>1. \A r \in Owner!Owners : For(r) \in Owner!Coroutines
    BY DEF OwnerTypes, For, Owner!Owners, Owner!Coroutines
<1>2. \A r \in Owner!Owners : Holds(r) => Owned(For(r))
    BY DEF OwnerTypes, JThread, For, Holds, Owned, Created, Owner!Owners
<1>3. \A c \in Owner!Coroutines : Owned(c) => \E r \in Owner!Owners : Holds(r) /\ For(r) = c
    <2> SUFFICES ASSUME NEW c \in Owner!Coroutines, Owned(c) PROVE \E r \in Owner!Owners : Holds(r) /\ For(r) = c
        OBVIOUS
    <2>1. CASE program = "Await"
        <3>1. Holds("resumable") /\ For("resumable") = c
            BY <2>1 DEF OwnerTypes, Owned, Created, Holds, For
        <3> QED BY <3>1 DEF Owner!Owners
    <2>2. CASE program # "Await" /\ c # "factory's"
        <3> DEFINE r == CASE c = "coroutine" -> "resumable" [] c = "member" -> "coro" [] c = "lambda" -> "coro0" [] OTHER -> "coro1"
        <3>1. r \in Owner!Owners /\ Holds(r) /\ For(r) = c
            BY <2>2 DEF OwnerTypes, Owned, Created, Holds, For, Owner!Owners, Owner!Coroutines
        <3> QED BY <3>1
    <2>3. CASE program # "Await" /\ c = "factory's"
        <3> DEFINE r == IF statement = 5 THEN "res" ELSE IF statement <= 8 THEN "r" ELSE IF statement = 9 THEN "[r]" ELSE "thread's"
        <3>1. r \in Owner!Owners /\ Holds(r) /\ For(r) = c
            BY <2>3 DEF OwnerTypes, Owned, Created, Holds, For, Owner!Owners
        <3> QED BY <3>1
    <2> QED BY <2>1, <2>2, <2>3
<1>4. \A r, s \in Owner!Owners : Holds(r) /\ Holds(s) /\ For(r) = For(s) => r = s
    BY DEF OwnerTypes, For, Holds, Owner!Owners
<1> QED BY <1>1, <1>2, <1>3, <1>4

\* Owners, frames and threads are as they were.
LEMMA OwnedAsBefore ==
    ASSUME OwnerInv, UNCHANGED <<program, h_, coroutine_frame, part, inside>>,
           \A r \in Owner!Owners : Holds(r)' <=> Holds(r),
           \A c \in Owner!Coroutines : (Created(c)' <=> Created(c)) /\ (Owned(c)' <=> Owned(c))
    PROVE  Owners' /\ OwnedFrames' /\ BodyParts'
<1>1. \A r \in Owner!Owners : For(r)' = For(r)
    BY DEF For
<1>2. Owners'
    BY <1>1 DEF OwnerInv, Owners
<1>3. \A c \in Owner!Coroutines : FrameOf(c)' = FrameOf(c)
    BY DEF FrameOf
<1>4. OwnedFrames'
    BY <1>3 DEF OwnerInv, OwnedFrames
<1>5. BodyParts'
    BY DEF OwnerInv, BodyParts
<1> QED BY <1>2, <1>4, <1>5

\* Steps that concern no Resumable: an object is created.
LEMMA Constructs ==
    ASSUME OwnerInv, Owner!Construct
    PROVE  OwnerInv'
<1>1. OwnerTypes /\ Owner!Main("object")
    BY DEF OwnerInv, Owner!Construct
<1>2. OwnerTypes' /\ JThread' /\ InCalls'
    BY <1>1, AtObject DEF OwnerInv, OwnerTypes, JThread, InCalls, Owner!Construct, Owner!Main
<1>3. Objects'
    BY <1>1, AtObject DEF OwnerInv, OwnerTypes, Objects, Owner!Construct, Owner!Main
<1>4. /\ program = "UseCoroutines" /\ program' = program /\ statement \in {12, 18} /\ statement' = statement + 1
      /\ thread' = thread
    BY <1>1, AtObject DEF Owner!Construct, Owner!Main
<1>5. \A r \in Owner!Owners : Holds(r)' <=> Holds(r)
    BY <1>4 DEF Holds
<1>6. \A c \in Owner!Coroutines : (Created(c)' <=> Created(c)) /\ (Owned(c)' <=> Owned(c))
    BY <1>4 DEF Created, Owned
<1>7. Owners' /\ OwnedFrames' /\ BodyParts'
    BY <1>5, <1>6, OwnedAsBefore DEF Owner!Construct
<1> QED BY <1>2, <1>3, <1>7 DEF OwnerInv

\* An object's life ends.
LEMMA EndsLife ==
    ASSUME OwnerInv, Owner!EndOfLife
    PROVE  OwnerInv'
<1>1. OwnerTypes /\ Owner!Main("gone")
    BY DEF OwnerInv, Owner!EndOfLife
<1>2. OwnerTypes' /\ JThread' /\ InCalls'
    BY <1>1, AtGone DEF OwnerInv, OwnerTypes, JThread, InCalls, Owner!EndOfLife, Owner!Main
<1>3. Objects'
    BY <1>1, AtGone DEF OwnerInv, OwnerTypes, Objects, Owner!EndOfLife, Owner!Main
<1>4. /\ program = "UseCoroutines" /\ program' = program /\ statement \in {20, 26} /\ statement' = statement + 1
      /\ thread' = thread
    BY <1>1, AtGone DEF Owner!EndOfLife, Owner!Main
<1>5. \A r \in Owner!Owners : Holds(r)' <=> Holds(r)
    BY <1>4 DEF Holds
<1>6. \A c \in Owner!Coroutines : (Created(c)' <=> Created(c)) /\ (Owned(c)' <=> Owned(c))
    BY <1>4 DEF Created, Owned
<1>7. Owners' /\ OwnedFrames' /\ BodyParts'
    BY <1>5, <1>6, OwnedAsBefore DEF Owner!EndOfLife
<1> QED BY <1>2, <1>3, <1>7 DEF OwnerInv

\* The thread starts.
LEMMA StartsThread ==
    ASSUME OwnerInv, Owner!Start
    PROVE  OwnerInv'
<1>1. OwnerTypes /\ Owner!Main("start")
    BY DEF OwnerInv, Owner!Start
<1>2. OwnerTypes' /\ JThread' /\ InCalls'
    BY <1>1, AtStart DEF OwnerInv, OwnerTypes, JThread, InCalls, Owner!Start, Owner!Main
<1>3. Objects'
    BY <1>1, AtStart DEF OwnerInv, OwnerTypes, Objects, Owner!Start, Owner!Main
<1>4. /\ program = "UseCoroutines" /\ program' = program /\ statement = 10 /\ statement' = 11
      /\ thread = "unborn" /\ thread' = "sleep"
    BY <1>1, AtStart DEF OwnerInv, JThread, Owner!Start, Owner!Main
<1>5. \A r \in Owner!Owners : Holds(r)' <=> Holds(r)
    BY <1>4 DEF Holds
<1>6. \A c \in Owner!Coroutines : (Created(c)' <=> Created(c)) /\ (Owned(c)' <=> Owned(c))
    BY <1>4 DEF Created, Owned
<1>7. Owners' /\ OwnedFrames' /\ BodyParts'
    BY <1>5, <1>6, OwnedAsBefore DEF Owner!Start
<1> QED BY <1>2, <1>3, <1>7 DEF OwnerInv

\* It is joined.
LEMMA JoinsThread ==
    ASSUME OwnerInv, Owner!Join
    PROVE  OwnerInv'
<1>1. OwnerTypes /\ Owner!Main("join")
    BY DEF OwnerInv, Owner!Join
<1>2. OwnerTypes' /\ JThread' /\ InCalls'
    BY <1>1, AtJoin DEF OwnerInv, OwnerTypes, JThread, InCalls, Owner!Join, Owner!Main
<1>3. Objects'
    BY <1>1, AtJoin DEF OwnerInv, OwnerTypes, Objects, Owner!Join, Owner!Main
<1>4. /\ program = "UseCoroutines" /\ program' = program /\ statement = 27 /\ statement' = statement + 1
      /\ thread' = thread
    BY <1>1, AtJoin DEF Owner!Join, Owner!Main
<1>5. \A r \in Owner!Owners : Holds(r)' <=> Holds(r)
    BY <1>4 DEF Holds
<1>6. \A c \in Owner!Coroutines : (Created(c)' <=> Created(c)) /\ (Owned(c)' <=> Owned(c))
    BY <1>4 DEF Created, Owned
<1>7. Owners' /\ OwnedFrames' /\ BodyParts'
    BY <1>5, <1>6, OwnedAsBefore DEF Owner!Join
<1> QED BY <1>2, <1>3, <1>7 DEF OwnerInv


\* A coroutine is created, suspended or, if eager, under way.
LEMMA Creates ==
    ASSUME OwnerInv, Owner!Create
    PROVE  OwnerInv'
<1>1. OwnerTypes /\ Owner!Main("new") /\ UNCHANGED <<program, thread, part, alive>> /\ statement' = statement + 1
    BY DEF OwnerInv, Owner!Create, Owner!Main
<1>2. PICK c \in Owner!Coroutines, r \in Owner!Owners : c = Owner!Now.coroutine /\ r = Owner!Now.into
    <2>1. Owner!Now.coroutine \in Owner!Coroutines /\ Owner!Now.into \in Owner!Owners
        BY <1>1, AtNew DEF Owner!Coroutines, Owner!Owners
    <2> QED BY <2>1
<1>3. h_' = [h_ EXCEPT ![r] = c] /\ coroutine_frame' = [coroutine_frame EXCEPT ![c] = IF c = "eager" THEN "running" ELSE "suspended"]
      /\ inside' = (IF c = "eager" THEN [inside EXCEPT !["main"] = c] ELSE inside) /\ inside["main"] = "none"
    BY <1>2 DEF Owner!Create, Owner!Enter, Owner!Main
<1>4. For(r) = c /\ ~Created(c) /\ inside["t"] # c
    BY <1>1, <1>2, AtNew DEF OwnerInv, For, Created, InCalls, JThread, OwnerTypes, Owner!Threads, Owner!Coroutines
<1>5. \A s \in Owner!Owners : (Holds(s)' <=> Holds(s) \/ s = r) /\ For(s)' = For(s)
    <2>1. \A s \in Owner!Owners : Holds(s)' <=> Holds(s) \/ s = r
        BY <1>1, <1>2, AtNew DEF OwnerInv, JThread, Holds
    <2> QED BY <1>1, <2>1 DEF For
<1>6. \A d \in Owner!Coroutines : (Created(d)' <=> Created(d) \/ d = c)
    BY <1>1, <1>2, AtNew DEF Created
<1>7. \A d \in Owner!Coroutines : (Owned(d)' <=> Owned(d) \/ d = c)
    BY <1>1, <1>2, AtNew DEF OwnerInv, JThread, Owned, Created
<1>8. OwnerTypes' /\ JThread' /\ Objects'
    <2>1. OwnerTypes'
        BY <1>1, <1>2, <1>3, AtNew DEF OwnerInv, OwnerTypes, Owner!Threads
    <2>2. JThread' /\ Objects'
        BY <1>1, <1>2, AtNew DEF OwnerInv, JThread, Objects
    <2> QED BY <2>1, <2>2
<1>9. InCalls'
    <2>1. CASE c = "eager"
        <3>1. program = "Await" /\ statement' = 2
            BY <1>1, <1>2, <2>1, AtNew
        <3>2. inside'["main"] = "eager" /\ inside'["t"] = inside["t"]
            BY <1>1, <1>3, <2>1 DEF OwnerTypes, Owner!Threads
        <3> QED BY <1>1, <3>1, <3>2 DEF OwnerInv, InCalls
    <2>2. CASE c # "eager"
        BY <1>1, <1>3, <2>2 DEF OwnerInv, InCalls
    <2> QED BY <2>1, <2>2
<1>10. Owners'
    BY <1>2, <1>3, <1>4, <1>5 DEF OwnerInv, Owners
<1>11. part[c] = 0 /\ Owner!Parts(c) > 0
    BY <1>2, <1>4 DEF OwnerInv, BodyParts, Owner!Parts
<1>12. OwnedFrames'
    <2> DEFINE new == IF c = "eager" THEN "running" ELSE "suspended"
    <2>1. inside'["main"] = (IF c = "eager" THEN c ELSE "none") /\ inside'["t"] = inside["t"]
        BY <1>1, <1>3 DEF OwnerTypes, Owner!Threads
    <2>2. \A d \in Owner!Coroutines \ {c} : FrameOf(d)' = FrameOf(d)
        <3> SUFFICES ASSUME NEW d \in Owner!Coroutines \ {c} PROVE FrameOf(d)' = FrameOf(d)
            OBVIOUS
        <3>1. (Created(d)' <=> Created(d)) /\ (Owned(d)' <=> Owned(d)) /\ part'[d] = part[d]
            BY <1>1, <1>6, <1>7
        <3>2. d # "none"
            BY DEF Owner!Coroutines
        <3>3. (inside'["main"] = d <=> inside["main"] = d) /\ (inside'["t"] = d <=> inside["t"] = d)
            BY <1>3, <2>1, <3>2
        <3> QED BY <3>1, <3>3 DEF FrameOf
    <2>3. FrameOf(c)' = new
        <3>1. Created(c)' /\ Owned(c)' /\ part'[c] # Owner!Parts(c)
            BY <1>1, <1>2, <1>6, <1>7, <1>11
        <3>2. c # "none"
            BY <1>2 DEF Owner!Coroutines
        <3> QED BY <1>4, <2>1, <3>1, <3>2 DEF FrameOf
    <2>4. coroutine_frame' = [coroutine_frame EXCEPT ![c] = new]
        BY <1>3
    <2> HIDE DEF new
    <2> QED BY <1>2, <2>2, <2>3, <2>4 DEF OwnerInv, OwnedFrames
<1>13. BodyParts'
    BY <1>1, <1>2, <1>3, <1>6, <1>11 DEF OwnerInv, OwnerTypes, BodyParts, Owner!Parts, Owner!Threads
<1> QED BY <1>8, <1>9, <1>10, <1>12, <1>13 DEF OwnerInv

\* A Resumable is moved, and with it the frame.
LEMMA Moves ==
    ASSUME OwnerInv, Owner!MoveConstruct
    PROVE  OwnerInv'
<1> DEFINE a == Owner!Now.from
           b == Owner!Now.into
<1>1. OwnerTypes /\ Owner!Main("move") /\ UNCHANGED <<program, thread, coroutine_frame, part, inside, alive>> /\ statement' = statement + 1
    BY DEF OwnerInv, Owner!MoveConstruct, Owner!Main
<1>2. a \in Owner!Owners /\ b \in Owner!Owners /\ a # b
    BY <1>1, AtMove DEF Owner!Owners
<1>3. h_' = [h_ EXCEPT ![b] = h_[a], ![a] = "none"] /\ inside["main"] = "none"
    BY DEF Owner!MoveConstruct, Owner!Main
<1>4. For(a) = For(b) /\ Holds(a)
    BY <1>1, AtMove DEF OwnerInv, For, Holds, JThread
<1>5. \A s \in Owner!Owners : (Holds(s)' <=> (Holds(s) \/ s = b) /\ s # a) /\ For(s)' = For(s)
    <2>1. \A s \in Owner!Owners : Holds(s)' <=> (Holds(s) \/ s = b) /\ s # a
        BY <1>1, AtMove DEF OwnerInv, JThread, Holds
    <2> QED BY <1>1, <2>1 DEF For
<1>6. \A d \in Owner!Coroutines : (Created(d)' <=> Created(d)) /\ (Owned(d)' <=> Owned(d))
    BY <1>1, AtMove DEF Created, Owned
<1>7. OwnerTypes' /\ JThread' /\ InCalls'
    BY <1>1, <1>3, AtMove DEF OwnerInv, OwnerTypes, JThread, InCalls
<1>8. Objects'
    BY <1>1, AtMove DEF OwnerInv, Objects
<1> HIDE DEF a, b
<1>9. Owners'
    BY <1>2, <1>3, <1>4, <1>5 DEF OwnerInv, Owners
<1>10. OwnedFrames' /\ BodyParts'
    <2>1. \A d \in Owner!Coroutines : FrameOf(d)' = FrameOf(d)
        BY <1>1, <1>6 DEF FrameOf
    <2> QED BY <1>1, <1>6, <2>1 DEF OwnerInv, OwnedFrames, BodyParts
<1> QED BY <1>7, <1>8, <1>9, <1>10 DEF OwnerInv

\* A Resumable that is resumed has a frame that nobody is in.
LEMMA ResumesFrame ==
    ASSUME OwnerInv, NEW u \in Owner!Threads, NEW r \in Owner!Owners, Holds(r), Owner!resume(u, r),
           inside["main"] # For(r), inside["t"] # For(r)
    PROVE  /\ For(r) \in Owner!Coroutines /\ Owned(For(r)) /\ Created(For(r))
           /\ \/ UNCHANGED <<coroutine_frame, inside>>
              \/ /\ inside' = [inside EXCEPT ![u] = For(r)] /\ part[For(r)] < Owner!Parts(For(r))
                 /\ coroutine_frame' = [coroutine_frame EXCEPT ![For(r)] = "running"]
<1> DEFINE c == For(r)
<1>1. c \in Owner!Coroutines /\ Owned(c) /\ Created(c)
    BY OneOwner DEF OwnerInv, Owned
<1>2. h_[r] = c /\ c # "none"
    BY <1>1 DEF OwnerInv, Owners, Owner!Coroutines
<1>3. coroutine_frame[c] = IF part[c] = Owner!Parts(c) THEN "done" ELSE "suspended"
    BY <1>1 DEF OwnerInv, OwnedFrames, FrameOf
<1>4. part[c] \in Nat /\ Owner!Parts(c) \in Nat /\ part[c] <= Owner!Parts(c)
    BY <1>1 DEF OwnerInv, OwnerTypes, BodyParts, Owner!Parts
<1> HIDE DEF c
<1>5. CASE coroutine_frame[c] = "suspended"
    <2>1. Owner!Enter(u, c)
        BY <1>2, <1>5 DEF Owner!resume
    <2> QED BY <1>1, <1>3, <1>4, <1>5, <2>1 DEF Owner!Enter, c
<1>6. CASE coroutine_frame[c] = "done"
    <2>1. UNCHANGED <<coroutine_frame, inside>>
        BY <1>2, <1>6 DEF Owner!resume
    <2> QED BY <1>1, <2>1 DEF c
<1> QED BY <1>3, <1>5, <1>6

\* Then it runs, on the thread that has resumed it, or was done.
LEMMA ResumedOrDone ==
    ASSUME OwnerInv, NEW u \in Owner!Threads, NEW r \in Owner!Owners, Holds(r), Owner!resume(u, r),
           inside[u] = "none", inside["main"] # For(r), inside["t"] # For(r),
           program' = program, h_' = h_, part' = part,
           \A s \in Owner!Owners : Holds(s)' <=> Holds(s),
           \A c \in Owner!Coroutines : (Created(c)' <=> Created(c)) /\ (Owned(c)' <=> Owned(c))
    PROVE  /\ Owners' /\ OwnedFrames' /\ BodyParts'
           /\ For(r) \in Owner!Coroutines /\ inside' \in {inside, [inside EXCEPT ![u] = For(r)]}
<1>1. CASE coroutine_frame' = coroutine_frame /\ inside' = inside
    <2>1. Owners' /\ OwnedFrames' /\ BodyParts'
        BY <1>1, OwnedAsBefore
    <2> QED BY <1>1, <2>1, OneOwner DEF OwnerInv
<1>2. CASE ~(coroutine_frame' = coroutine_frame /\ inside' = inside)
    <2>1. PICK c \in Owner!Coroutines : c = For(r)
        BY ResumesFrame
    <2>2. /\ Owned(c) /\ Created(c) /\ inside' = [inside EXCEPT ![u] = c] /\ part[c] < Owner!Parts(c)
          /\ coroutine_frame' = [coroutine_frame EXCEPT ![c] = "running"]
        BY <1>2, <2>1, ResumesFrame
    <2>3. \A s \in Owner!Owners : For(s)' = For(s)
        BY DEF For
    <2>4. Owners'
        BY <2>3 DEF OwnerInv, Owners
    <2>5. \A d \in Owner!Coroutines : d # "none"
        BY DEF Owner!Coroutines
    <2>6. inside'[u] = c /\ \A v \in Owner!Threads \ {u} : inside'[v] = inside[v]
        BY <2>2 DEF OwnerInv, OwnerTypes
    <2>7. \A d \in Owner!Coroutines \ {c} : FrameOf(d)' = FrameOf(d)
        BY <2>5, <2>6 DEF FrameOf, Owner!Threads
    <2>8. FrameOf(c)' = "running"
        BY <2>2, <2>6 DEF FrameOf, Owner!Threads
    <2>9. OwnedFrames'
        BY <2>2, <2>7, <2>8 DEF OwnerInv, OwnedFrames
    <2>10. BodyParts'
        BY <2>2, <2>6 DEF OwnerInv, BodyParts, Owner!Parts
    <2> QED BY <2>1, <2>2, <2>4, <2>9, <2>10
<1> QED BY <1>1, <1>2

\* The main thread resumes a coroutine.
LEMMA Resumes ==
    ASSUME OwnerInv, Owner!Resume
    PROVE  OwnerInv'
<1>1. OwnerTypes /\ Owner!Main("resume") /\ UNCHANGED <<program, thread, h_, part, alive>> /\ statement' = statement + 1
    BY DEF OwnerInv, Owner!Resume, Owner!Main
<1>2. PICK r \in Owner!Owners : r = Owner!Now.on
    <2>1. Owner!Now.on \in Owner!Owners
        BY <1>1, AtResume DEF Owner!Owners
    <2> QED BY <2>1
<1>3. Owner!resume("main", r) /\ inside["main"] = "none"
    BY <1>2 DEF Owner!Resume, Owner!Main
<1>4. Holds(r) /\ inside["t"] # For(r)
    BY <1>1, <1>2, AtResume DEF OwnerInv, JThread, InCalls, Holds, For
<1>5. inside["main"] # For(r)
    BY <1>3, OneOwner DEF OwnerInv, Owner!Coroutines
<1>6. \A s \in Owner!Owners : Holds(s)' <=> Holds(s)
    BY <1>1, AtResume DEF Holds
<1>7. \A c \in Owner!Coroutines : (Created(c)' <=> Created(c)) /\ (Owned(c)' <=> Owned(c))
    BY <1>1, AtResume DEF Created, Owned
<1>8. /\ Owners' /\ OwnedFrames' /\ BodyParts'
      /\ For(r) \in Owner!Coroutines /\ inside' \in {inside, [inside EXCEPT !["main"] = For(r)]}
    <2>1. "main" \in Owner!Threads /\ program' = program /\ h_' = h_ /\ part' = part
        BY <1>1 DEF Owner!Threads
    <2> QED BY <1>3, <1>4, <1>5, <1>6, <1>7, <2>1, ResumedOrDone
<1>9. OwnerTypes'
    BY <1>1, <1>8, AtResume DEF OwnerTypes, Owner!Threads
<1>10. JThread' /\ Objects'
    BY <1>1, AtResume DEF OwnerInv, JThread, Objects
<1>11. inside'["main"] \in {"none", For(r)} /\ inside'["t"] = inside["t"]
    BY <1>1, <1>3, <1>8 DEF OwnerTypes, Owner!Threads
<1>12. InCalls'
    BY <1>1, <1>2, <1>11, AtResume DEF OwnerInv, InCalls, For
<1> QED BY <1>8, <1>9, <1>10, <1>12 DEF OwnerInv

\* The thread resumes the one that it owns.
LEMMA ResumesFromThread ==
    ASSUME OwnerInv, Owner!ResumeFromThread
    PROVE  OwnerInv'
<1>1. /\ OwnerTypes /\ UNCHANGED <<program, statement, h_, part, alive>>
      /\ thread = "resume" /\ thread' = "exit" /\ inside["t"] = "none" /\ Owner!resume("t", "thread's")
    BY DEF OwnerInv, Owner!ResumeFromThread, Owner!Thread
<1>2. program = "UseCoroutines" /\ statement > 10
    BY <1>1 DEF OwnerInv, JThread, OwnerTypes
<1>3. Holds("thread's") /\ For("thread's") = "factory's" /\ "thread's" \in Owner!Owners
    BY <1>1, <1>2 DEF Holds, For, OwnerTypes, Owner!Owners
<1>4. inside["main"] # "factory's" /\ inside["t"] # "factory's"
    BY <1>1, <1>2 DEF OwnerInv, InCalls
<1>5. \A s \in Owner!Owners : Holds(s)' <=> Holds(s)
    BY <1>1 DEF Holds
<1>6. \A c \in Owner!Coroutines : (Created(c)' <=> Created(c)) /\ (Owned(c)' <=> Owned(c))
    BY <1>1 DEF Created, Owned
<1>7. /\ Owners' /\ OwnedFrames' /\ BodyParts'
      /\ "factory's" \in Owner!Coroutines /\ inside' \in {inside, [inside EXCEPT !["t"] = "factory's"]}
    <2>1. "t" \in Owner!Threads /\ program' = program /\ h_' = h_ /\ part' = part
        BY <1>1 DEF Owner!Threads
    <2>2. inside["main"] # For("thread's") /\ inside["t"] # For("thread's")
        BY <1>3, <1>4
    <2>3. /\ Owners' /\ OwnedFrames' /\ BodyParts' /\ For("thread's") \in Owner!Coroutines
          /\ inside' \in {inside, [inside EXCEPT !["t"] = For("thread's")]}
        BY <1>1, <1>3, <1>5, <1>6, <2>1, <2>2, ResumedOrDone
    <2> QED BY <1>3, <2>3
<1>8. OwnerTypes'
    BY <1>1, <1>7 DEF OwnerTypes, Owner!Threads
<1>9. JThread' /\ Objects'
    BY <1>1, <1>2 DEF OwnerInv, JThread, Objects
<1>10. inside'["t"] \in {"none", "factory's"} /\ inside'["main"] = inside["main"]
    BY <1>1, <1>7 DEF OwnerTypes, Owner!Threads
<1>11. InCalls'
    BY <1>1, <1>10 DEF OwnerInv, InCalls
<1> QED BY <1>7, <1>8, <1>9, <1>11 DEF OwnerInv

\* Its sleep is over.
LEMMA Awakes ==
    ASSUME OwnerInv, Owner!Awake
    PROVE  OwnerInv'
<1>1. OwnerTypes /\ UNCHANGED <<program, statement, h_, coroutine_frame, part, inside, alive>> /\ thread = "sleep" /\ thread' = "resume"
    BY DEF OwnerInv, Owner!Awake, Owner!Thread
<1>2. OwnerTypes' /\ JThread' /\ InCalls' /\ Objects'
    BY <1>1 DEF OwnerInv, OwnerTypes, JThread, InCalls, Objects
<1>3. \A s \in Owner!Owners : Holds(s)' <=> Holds(s)
    BY <1>1 DEF Holds
<1>4. \A c \in Owner!Coroutines : (Created(c)' <=> Created(c)) /\ (Owned(c)' <=> Owned(c))
    BY <1>1 DEF Created, Owned
<1>5. Owners' /\ OwnedFrames' /\ BodyParts'
    BY <1>1, <1>3, <1>4, OwnedAsBefore
<1> QED BY <1>2, <1>5 DEF OwnerInv

\* ~Resumable: the frame that it has, if any, is destroyed, and nobody is in it.
LEMMA Destroys ==
    ASSUME OwnerInv, NEW r \in Owner!Owners, Owner!Destroy(r), UNCHANGED <<program, part, inside>>,
           Holds(r) => inside["main"] # For(r) /\ inside["t"] # For(r),
           \A s \in Owner!Owners : Holds(s)' <=> Holds(s) /\ s # r,
           \A c \in Owner!Coroutines :
               (Created(c)' <=> Created(c)) /\ (Owned(c)' <=> Owned(c) /\ ~(Holds(r) /\ c = For(r)))
    PROVE  Owners' /\ OwnedFrames' /\ BodyParts'
<1>1. \A s \in Owner!Owners : For(s)' = For(s)
    BY DEF For
<1>2. Owners'
    BY <1>1 DEF OwnerInv, Owners, Owner!Destroy
<1>3. BodyParts'
    BY DEF OwnerInv, BodyParts
<1>4. \A d \in Owner!Coroutines : d # "none"
    BY DEF Owner!Coroutines
<1>5. CASE ~Holds(r)
    <2>1. h_[r] = "none"
        BY <1>5 DEF OwnerInv, Owners
    <2>2. coroutine_frame' = coroutine_frame
        BY <1>4, <2>1 DEF OwnerInv, OwnedFrames, Owner!Destroy
    <2>3. \A c \in Owner!Coroutines : FrameOf(c)' = FrameOf(c)
        BY <1>5 DEF FrameOf
    <2>4. OwnedFrames'
        BY <2>2, <2>3 DEF OwnerInv, OwnedFrames
    <2> QED BY <1>2, <1>3, <2>4
<1>6. CASE Holds(r)
    <2>1. PICK c \in Owner!Coroutines : c = For(r) /\ Owned(c)
        BY <1>6, OneOwner DEF OwnerInv
    <2>2. h_[r] = c /\ Created(c)
        BY <1>6, <2>1 DEF OwnerInv, Owners, Owned
    <2>3. coroutine_frame[c] \in {"suspended", "done"}
        BY <1>6, <2>1, <2>2 DEF OwnerInv, OwnedFrames, FrameOf
    <2>4. coroutine_frame' = [coroutine_frame EXCEPT ![c] = "destroyed"]
        BY <2>2, <2>3 DEF OwnerInv, OwnedFrames, Owner!Destroy
    <2>5. \A d \in Owner!Coroutines \ {c} : FrameOf(d)' = FrameOf(d)
        BY <2>1 DEF FrameOf
    <2>6. FrameOf(c)' = "destroyed"
        BY <1>6, <2>1, <2>2 DEF FrameOf
    <2>7. OwnedFrames'
        BY <2>4, <2>5, <2>6 DEF OwnerInv, OwnedFrames
    <2> QED BY <1>2, <1>3, <2>7
<1> QED BY <1>5, <1>6

\* A Resumable of the main thread goes out of scope.
LEMMA Destructs ==
    ASSUME OwnerInv, Owner!Destruct
    PROVE  OwnerInv'
<1>1. OwnerTypes /\ Owner!Main("drop") /\ UNCHANGED <<program, thread, part, inside, alive>> /\ statement' = statement + 1
    BY DEF OwnerInv, Owner!Destruct, Owner!Main
<1>2. PICK r \in Owner!Owners : r = Owner!Now.on
    <2>1. Owner!Now.on \in Owner!Owners
        BY <1>1, AtDrop DEF Owner!Owners
    <2> QED BY <2>1
<1>3. Owner!Destroy(r) /\ inside["main"] = "none"
    BY <1>2 DEF Owner!Destruct, Owner!Main
<1>4. Holds(r) => inside["t"] # For(r)
    BY <1>1, <1>2, AtDrop DEF OwnerInv, JThread, InCalls, Holds, For
<1>5. inside["main"] # For(r)
    BY <1>3, OneOwner DEF OwnerInv, Owner!Coroutines
<1>6. \A s \in Owner!Owners : Holds(s)' <=> Holds(s) /\ s # r
    BY <1>1, <1>2, AtDrop DEF OwnerInv, JThread, Holds
<1>7. \A c \in Owner!Coroutines :
          (Created(c)' <=> Created(c)) /\ (Owned(c)' <=> Owned(c) /\ ~(Holds(r) /\ c = For(r)))
    <2>1. \A c \in Owner!Coroutines : Created(c)' <=> Created(c)
        BY <1>1, AtDrop DEF Created
    <2>2. \A c \in Owner!Coroutines : Owned(c)' <=> Owned(c) /\ ~(Holds(r) /\ c = For(r))
        BY <1>1, <1>2, AtDrop DEF Created, Owned, Holds, For, OwnerInv, JThread, Owner!Coroutines
    <2> QED BY <2>1, <2>2
<1>8. Owners' /\ OwnedFrames' /\ BodyParts'
    BY <1>1, <1>3, <1>4, <1>5, <1>6, <1>7, Destroys
<1>9. OwnerTypes'
    BY <1>1, AtDrop DEF OwnerTypes
<1>10. JThread' /\ Objects' /\ InCalls'
    BY <1>1, <1>3, AtDrop DEF OwnerInv, JThread, Objects, InCalls
<1> QED BY <1>8, <1>9, <1>10 DEF OwnerInv

\* The thread destroys what it owns.
LEMMA Exits ==
    ASSUME OwnerInv, Owner!Exit
    PROVE  OwnerInv'
<1>1. /\ OwnerTypes /\ UNCHANGED <<program, statement, part, inside, alive>>
      /\ thread = "exit" /\ thread' = "ended" /\ inside["t"] = "none" /\ Owner!Destroy("thread's")
    BY DEF OwnerInv, Owner!Exit, Owner!Thread
<1>2. program = "UseCoroutines" /\ statement > 10
    BY <1>1 DEF OwnerInv, JThread, OwnerTypes
<1>3. Holds("thread's") /\ For("thread's") = "factory's" /\ "thread's" \in Owner!Owners
    BY <1>1, <1>2 DEF Holds, For, OwnerTypes, Owner!Owners
<1>4. inside["main"] # "factory's" /\ inside["t"] # "factory's"
    BY <1>1, <1>2 DEF OwnerInv, InCalls
<1>5. \A s \in Owner!Owners : Holds(s)' <=> Holds(s) /\ s # "thread's"
    BY <1>1, <1>2 DEF Holds
<1>6. \A c \in Owner!Coroutines :
          (Created(c)' <=> Created(c)) /\ (Owned(c)' <=> Owned(c) /\ ~(Holds("thread's") /\ c = For("thread's")))
    BY <1>1, <1>2, <1>3 DEF Created, Owned
<1>7. Owners' /\ OwnedFrames' /\ BodyParts'
    BY <1>1, <1>3, <1>4, <1>5, <1>6, Destroys
<1>8. OwnerTypes' /\ JThread' /\ Objects' /\ InCalls'
    BY <1>1, <1>2 DEF OwnerInv, OwnerTypes, JThread, Objects, InCalls
<1> QED BY <1>7, <1>8 DEF OwnerInv

\* A part of a body ends, and the coroutine is suspended, at its end for good.
LEMMA RunsPart ==
    ASSUME OwnerInv, NEW u \in Owner!Threads, Owner!RunPart(u)
    PROVE  OwnerInv'
<1>1. PICK c \in Owner!Coroutines : c = inside[u]
    BY DEF OwnerInv, OwnerTypes, Owner!RunPart
<1>2. /\ inside' = [inside EXCEPT ![u] = "none"] /\ part' = [part EXCEPT ![c] = @ + 1]
      /\ coroutine_frame' = [coroutine_frame EXCEPT ![c] = IF part[c] + 1 = Owner!Parts(c) THEN "done" ELSE "suspended"]
      /\ UNCHANGED <<program, statement, thread, h_, alive>>
    BY <1>1 DEF Owner!RunPart
<1>3. OwnerTypes /\ c # "none" /\ part[c] \in Nat /\ part[c] < Owner!Parts(c) /\ Owner!Parts(c) \in Nat
    BY <1>1 DEF OwnerInv, OwnerTypes, BodyParts, Owner!Parts, Owner!Coroutines
<1>4. \A v \in Owner!Threads \ {u} : inside[v] # c
    BY <1>1, <1>3 DEF OwnerInv, InCalls, JThread, Owner!Threads
<1>5. Created(c) /\ Owned(c)
    BY <1>1, <1>3 DEF OwnerInv, InCalls, JThread, OwnerTypes, Created, Owned, Owner!Threads
<1>6. inside'[u] = "none" /\ (\A v \in Owner!Threads \ {u} : inside'[v] = inside[v]) /\ part'[c] = part[c] + 1
      /\ \A d \in Owner!Coroutines \ {c} : part'[d] = part[d]
    BY <1>2, <1>3 DEF OwnerTypes
<1>7. OwnerTypes' /\ JThread' /\ Objects'
    BY <1>2, <1>3 DEF OwnerInv, OwnerTypes, JThread, Objects
<1>8. InCalls'
    BY <1>2, <1>6 DEF OwnerInv, InCalls, Owner!Threads
<1>9. \A s \in Owner!Owners : (Holds(s)' <=> Holds(s)) /\ For(s)' = For(s)
    BY <1>2 DEF Holds, For
<1>10. Owners'
    BY <1>2, <1>9 DEF OwnerInv, Owners
<1>11. \A d \in Owner!Coroutines : (Created(d)' <=> Created(d)) /\ (Owned(d)' <=> Owned(d))
    BY <1>2 DEF Created, Owned
<1>12. BodyParts'
    BY <1>3, <1>4, <1>5, <1>6, <1>11 DEF OwnerInv, OwnerTypes, BodyParts
<1>13. OwnedFrames'
    <2>1. \A d \in Owner!Coroutines : d # "none"
        BY DEF Owner!Coroutines
    <2>2. \A d \in Owner!Coroutines \ {c} : FrameOf(d)' = FrameOf(d)
        BY <1>1, <1>6, <1>11, <2>1 DEF FrameOf, Owner!Threads
    <2>3. FrameOf(c)' = IF part[c] + 1 = Owner!Parts(c) THEN "done" ELSE "suspended"
        BY <1>3, <1>4, <1>5, <1>6, <1>11 DEF FrameOf, Owner!Threads
    <2> QED BY <1>2, <2>2, <2>3 DEF OwnerInv, OwnedFrames
<1> QED BY <1>7, <1>8, <1>10, <1>12, <1>13 DEF OwnerInv

\* At first there are no frames.
LEMMA OwnersInitially == Owner!Init => OwnerInv
<1> SUFFICES ASSUME Owner!Init PROVE OwnerInv
    OBVIOUS
<1>1. OwnerTypes /\ InCalls /\ JThread /\ Objects
    BY DEF Owner!Init, Owner!Statements, OwnerTypes, InCalls, JThread, Objects, Owner!Threads
<1>2. \A r \in Owner!Owners : ~Holds(r)
    BY DEF Owner!Init, Holds
<1>3. \A c \in Owner!Coroutines : ~Created(c)
    BY DEF Owner!Init, Created
<1>4. Owners
    BY <1>2 DEF Owner!Init, Owners
<1>5. OwnedFrames
    BY <1>3 DEF Owner!Init, OwnedFrames, FrameOf
<1>6. BodyParts
    BY DEF Owner!Init, BodyParts, Owner!Parts, Owner!Threads
<1> QED BY <1>1, <1>4, <1>5, <1>6 DEF OwnerInv

\* Every step, also those of the other examples, keeps the invariant.
LEMMA OwnerStep == OwnerInv /\ [ExamplesNext]_examplesVars => OwnerInv'
<1> SUFFICES ASSUME OwnerInv, [ExamplesNext]_examplesVars PROVE OwnerInv'
    OBVIOUS
<1>1. CASE UNCHANGED ownerVars
    BY <1>1 DEF ownerVars, OwnerInv, OwnerTypes, Owners, Holds, For, OwnedFrames, FrameOf, Created, Owned, InCalls, BodyParts, JThread, Objects
<1>2. CASE Owner!Next
    <2>1. Owner!main => OwnerInv'
        BY Creates, Moves, Resumes, Destructs, Constructs, EndsLife, StartsThread, JoinsThread, RunsPart DEF Owner!main, Owner!Threads
    <2>2. Owner!t => OwnerInv'
        BY Awakes, ResumesFromThread, Exits, RunsPart DEF Owner!t, Owner!Threads
    <2>3. Owner!Returned => UNCHANGED ownerVars
        BY DEF Owner!Returned, Owner!vars, ownerVars
    <2> QED BY <1>1, <1>2, <2>1, <2>2, <2>3 DEF Owner!Next
<1> QED BY <1>1, <1>2 DEF ExamplesNext, InTasks, InTcp, InOwner, examplesVars

\* From its creation on each frame of a coroutine has one Resumable, through moves
\* and on both threads, that destroys it once; nothing else is resumed.
THEOREM AlwaysOwnedOnce == ExamplesSpec => []OwnedOnce
<1>1. OwnerInv => Owner!OwnedOnce
    <2> SUFFICES ASSUME OwnerInv PROVE Owner!OwnedOnce
        OBVIOUS
    <2>1. \A c \in Owner!Coroutines : coroutine_frame[c] = FrameOf(c) /\ FrameOf(c) # "undefined"
        BY DEF OwnerInv, OwnedFrames, FrameOf
    <2>2. \A c \in Owner!Coroutines : (FrameOf(c) \in {"none", "destroyed"} <=> ~Owned(c))
        BY DEF FrameOf, Owned
    <2>3. \A r \in Owner!Owners, c \in Owner!Coroutines : h_[r] = c <=> Holds(r) /\ For(r) = c
        BY DEF OwnerInv, Owners, Owner!Coroutines
    <2>4. ASSUME NEW c \in Owner!Coroutines
          PROVE  LET owners == {r \in Owner!Owners : h_[r] = c}
                 IN  IF coroutine_frame[c] \in {"none", "destroyed"} THEN owners = {} ELSE \E s \in Owner!Owners : owners = {s}
        <3>1. CASE ~Owned(c)
            <4>1. {r \in Owner!Owners : h_[r] = c} = {}
                BY <2>3, <3>1, OneOwner DEF OwnerInv
            <4> QED BY <2>1, <2>2, <3>1, <4>1
        <3>2. CASE Owned(c)
            <4>1. PICK s \in Owner!Owners : Holds(s) /\ For(s) = c
                BY <3>2, OneOwner DEF OwnerInv
            <4>2. {r \in Owner!Owners : h_[r] = c} = {s}
                BY <2>3, <4>1, OneOwner DEF OwnerInv
            <4> QED BY <2>1, <2>2, <3>2, <4>2
        <3> QED BY <3>1, <3>2
    <2>5. Owner!Finished => \A c \in Owner!Coroutines : ~Owned(c)
        <3> SUFFICES ASSUME Owner!Finished PROVE \A c \in Owner!Coroutines : ~Owned(c)
            OBVIOUS
        <3>1. CASE program = "UseCoroutines"
            <4>1. statement = 30
                BY <3>1, UseIs DEF OwnerInv, OwnerTypes, Owner!Finished
            <4> QED BY <3>1, <4>1 DEF OwnerInv, JThread, Owned, Created, Owner!Coroutines
        <3>2. CASE program = "Await"
            <4>1. statement = 4
                BY <3>2, AwaitIs DEF OwnerInv, OwnerTypes, Owner!Finished
            <4> QED BY <3>2, <4>1 DEF Owned
        <3> QED BY <3>1, <3>2 DEF OwnerInv, OwnerTypes
    <2>6. Owner!Finished => \A c \in Owner!Coroutines : coroutine_frame[c] \in {"none", "destroyed"}
        BY <2>1, <2>2, <2>5
    <2>7. \A c \in Owner!Coroutines : coroutine_frame[c] # "undefined"
        BY <2>1
    <2> QED BY <2>4, <2>6, <2>7, Zenon DEF Owner!OwnedOnce
<1>2. OwnerInv => Owner!SelfIsAlive
    <2> SUFFICES ASSUME OwnerInv, NEW u \in Owner!Threads, inside[u] \notin {"none", "temporary"}, Owner!Self(inside[u]) # "none"
                 PROVE  Owner!Self(inside[u]) \in alive
        BY DEF Owner!SelfIsAlive
    <2>1. inside[u] = "member" /\ Owner!Self(inside[u]) = "w"
        BY DEF Owner!Self
    <2>2. u = "main" /\ program = "UseCoroutines" /\ statement \in {15, 16}
        BY <2>1 DEF OwnerInv, OwnerTypes, InCalls, Owner!Threads
    <2> QED BY <2>1, <2>2 DEF OwnerInv, Objects
<1>3. ExamplesInit => OwnerInv
    BY OwnersInitially DEF ExamplesInit
<1>4. OwnerInv => OwnedOnce
    BY <1>1, <1>2 DEF OwnedOnce
<1> QED BY <1>3, <1>4, OwnerStep, PTL DEF ExamplesSpec
=============================================================================
