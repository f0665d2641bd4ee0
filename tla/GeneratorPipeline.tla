------------------------- MODULE GeneratorPipeline -------------------------
(* Chapter11-Coroutines/Generator.cpp: MyGenerator, the generators made of   *)
(* generators, the codec of inverted indexes, and the loops that draw values *)
(* from them.  Resuming a generator is a nested call: the frame that resumes *)
(* waits until the one it resumed yields or is done.                         *)
EXTENDS Integers, SequencesExt, FiniteSets
CONSTANTS
    Until, Adder, Wanted,   \* the arguments of the first example, 359-362
    Ids,                    \* the sequences of ids that are encoded
    Spaces,                 \* start, stop and n of lin_space
    SeqMax                  \* bound of this model: seq() stops for good there
\* The second loop over a generator must not find it done already (368), and
\* lin_value() asserts that there are at least two points (142).
ASSUME GeneratorsAssumption ==
    /\ Until \in Nat \ {0} /\ Adder \in Int /\ SeqMax \in Nat /\ Until < SeqMax
    /\ Wanted \in Seq(Int) /\ Wanted # <<>> /\ \A k \in DOMAIN Wanted : Wanted[k] < Until + Adder - 1
    /\ Ids \subseteq Seq(Int) /\ Spaces \subseteq Int \X Int \X (Nat \ {1})
VARIABLES
    chain,      \* the generators of the current pipeline, the source first
    ids,        \* the array or vector of the codec examples, or start, stop, n
    source,     \* what the first generator has still to draw, if from a range
    active,    \* which of them runs, or Len(chain) + 1: the consumer does
    frames,      \* each coroutine's frame; "undefined" once a done one was resumed
    value_,     \* the value in its promise, and
    unread,     \* whether nobody has read it yet
    n, weight,  \* its locals (last_id, i and n are all called n)
    yields,     \* what its body has still to co_yield before it draws again
    phase,      \* the statement of the consumer
    first2,     \* the position of std::ranges::includes in Wanted
    output, file \* what the consumer has drawn, what it has written
generatorsVars == <<chain, ids, source, active, frames, value_, unread, n, weight, yields, phase, first2, output, file>>
locals == <<n, weight>>
consumer == <<phase, first2, output, file>>
Examples == [includes |-> <<"seq", "take_until", "add">>,
             lin_space |-> <<"lin_space_coroutine">>,
             decoded  |-> <<"gap_encode", "gap_decode">>,
             write    |-> <<"gap_encode", "variable_encode", "compress">>,
             read     |-> <<"read", "variable_decode", "gap_decode", "decompress">>]
Top == Len(chain)
InConsumer == active = Top + 1
\* A call of the functions allocates suspended frames with fresh locals.
Pipeline(p, input) ==
    /\ chain' = Examples[p] /\ source' = input /\ active' = Len(Examples[p]) + 1
    /\ frames' = [i \in DOMAIN Examples[p] |-> "suspended"] /\ phase' = p
    /\ value_' = [i \in DOMAIN Examples[p] |-> 0] /\ unread' = [i \in DOMAIN Examples[p] |-> FALSE]
    /\ n' = [i \in DOMAIN Examples[p] |-> 0] /\ weight' = [i \in DOMAIN Examples[p] |-> 1]
    /\ yields' = [i \in DOMAIN Examples[p] |-> <<>>]
GeneratorsInit ==
    /\ \E p \in {"includes", "lin_space", "decoded", "write"} :
          /\ phase = p /\ chain = Examples[p] /\ active = Len(Examples[p]) + 1
          /\ ids \in CASE p = "includes" -> {<<>>} [] p = "lin_space" -> Spaces [] OTHER -> Ids
          /\ source = IF p = "lin_space" THEN [k \in 1 .. ids[3] |-> k - 1] ELSE ids
    /\ frames = [i \in DOMAIN chain |-> "suspended"]
    /\ value_ = [i \in DOMAIN chain |-> 0] /\ unread = [i \in DOMAIN chain |-> FALSE]
    /\ n = [i \in DOMAIN chain |-> 0] /\ weight = [i \in DOMAIN chain |-> 1]
    /\ yields = [i \in DOMAIN chain |-> <<>>]
    /\ first2 = 1 /\ output = <<>> /\ file = <<>>
-----------------------------------------------------------------------------
\* Conversions: C++ division truncates, a byte keeps eight bits.
Quotient(a, b) == IF a >= 0 THEN a \div b ELSE -((-a) \div b)
Byte(a) == a % 256
Cont(rest) == IF rest = 0 THEN 128 ELSE 0
variable_encode_num[a \in Int] ==
    LET rest == Quotient(a, 128)
        b == Byte(Byte(a - 128 * rest) + Cont(rest))
    IN  <<b>> \o IF rest = 0 THEN <<>> ELSE variable_encode_num[rest]

\* In units of 1 / (n - 1), in which every value is a whole number.
lin_value(start, stop, index, points) == start * (points - 1) + (stop - start) * index

\* What a body does with the value v it has drawn: the values that it yields
\* and its new locals.
Effect(out, m, w) == [out |-> out, n |-> m, weight |-> w]
\* Mutant: the weight of the next number starts where this one's ended.
VariableDecodeNoReset(b, m, w) ==
    IF b < 128 THEN Effect(<<>>, m + b * w, w * 128) ELSE Effect(<<m + (b - 128) * w>>, 0, w)
VariableDecode(b, m, w) ==
    IF b < 128 THEN Effect(<<>>, m + b * w, w * 128) ELSE Effect(<<m + (b - 128) * w>>, 0, 1)
Does(stage, v, m, w) ==
    CASE stage = "add"                     -> Effect(<<v + Adder>>, m, w)
      [] stage = "gap_encode"              -> Effect(<<v - m>>, v, w)
      [] stage = "gap_decode"              -> Effect(<<v + m>>, v + m, w)
      [] stage = "variable_encode"         -> Effect(variable_encode_num[v], m, w)
      [] stage = "variable_decode"         -> VariableDecode(v, m, w)
      [] stage = "lin_space_coroutine"     -> Effect(<<lin_value(ids[1], ids[2], v, ids[3])>>, m, w)
      [] stage = "read"                    -> Effect(<<Byte(v)>>, m, w)
      [] OTHER                             -> Effect(<<v>>, m, w)
-----------------------------------------------------------------------------
Resume(i) ==
    /\ active' = i
    /\ frames' = [frames EXCEPT ![i] = IF @ \in {"done", "undefined"} THEN "undefined" ELSE "running"]

co_yield(i) ==                                          \* 35-44
    /\ active = i /\ frames[i] = "running" /\ yields[i] # <<>>
    /\ value_' = [value_ EXCEPT ![i] = Head(yields[i])] /\ unread' = [unread EXCEPT ![i] = TRUE]
    /\ yields' = [yields EXCEPT ![i] = Tail(@)]
    /\ frames' = [frames EXCEPT ![i] = "suspended"] /\ active' = i + 1
    /\ UNCHANGED <<chain, ids, source, locals, consumer>>

Returns(i) ==                                           \* 25-30
    /\ frames' = [frames EXCEPT ![i] = "done"] /\ active' = i + 1
    /\ UNCHANGED <<chain, ids, source, value_, unread, yields, locals, consumer>>

seq(i) ==                                               \* 109-115
    /\ active = i /\ frames[i] = "running" /\ chain[i] = "seq" /\ yields[i] = <<>> /\ n[i] < SeqMax
    /\ yields' = [yields EXCEPT ![i] = <<n[i]>>] /\ n' = [n EXCEPT ![i] = @ + 1]
    /\ UNCHANGED <<chain, ids, source, active, frames, value_, unread, weight, consumer>>

\* The loop over a vector, an array, a file or the indexes below n.
OverRange(i) ==                                         \* 248, 347-352, 236-239
    /\ active = i /\ frames[i] = "running" /\ chain[i] \in {"gap_encode", "read", "lin_space_coroutine"} /\ yields[i] = <<>>
    /\ \/ source = <<>> /\ Returns(i)
       \/ /\ source # <<>> /\ source' = Tail(source)
          /\ LET body == Does(chain[i], Head(source), n[i], weight[i])
             IN  yields' = [yields EXCEPT ![i] = body.out] /\ n' = [n EXCEPT ![i] = body.n]
          /\ UNCHANGED <<chain, ids, active, frames, value_, unread, weight, consumer>>

\* A loop over the generator below: begin() and ++ resume it, != asks if done.
Loops(i) == active = i /\ frames[i] = "running" /\ i > 1 /\ yields[i] = <<>>
\* Mutant: resumes it before the value it has is read.
DrawAhead(i) ==
    /\ Loops(i) /\ frames[i - 1] = "suspended" /\ Resume(i - 1)
    /\ UNCHANGED <<chain, ids, source, value_, unread, yields, locals, consumer>>
\* Mutant: the loop does not end when the generator is done.
DrawOn(i) ==
    /\ Loops(i) /\ ~unread[i - 1] /\ Resume(i - 1)
    /\ UNCHANGED <<chain, ids, source, value_, unread, yields, locals, consumer>>
Draw(i) ==                                              \* 60-64, 97-101
    /\ Loops(i) /\ ~unread[i - 1] /\ frames[i - 1] = "suspended" /\ Resume(i - 1)
    /\ UNCHANGED <<chain, ids, source, value_, unread, yields, locals, consumer>>

\* Mutant: the value itself is never compared.
TakesUntilNever(i, v) == FALSE
TakesUntil(i, v) == chain[i] = "take_until" /\ v = Until
Use(i) ==                                               \* 69-72 and the bodies
    /\ Loops(i) /\ unread[i - 1] /\ ~TakesUntil(i, value_[i - 1])
    /\ LET body == Does(chain[i], value_[i - 1], n[i], weight[i])
       IN  /\ yields' = [yields EXCEPT ![i] = body.out]
           /\ n' = [n EXCEPT ![i] = body.n] /\ weight' = [weight EXCEPT ![i] = body.weight]
    /\ unread' = [unread EXCEPT ![i - 1] = FALSE]
    /\ UNCHANGED <<chain, ids, source, active, frames, value_, consumer>>

Stops(i) ==                                             \* 77-80, 122-125
    /\ Loops(i)
    /\ frames[i - 1] = "done" \/ (unread[i - 1] /\ TakesUntil(i, value_[i - 1]))
    /\ Returns(i)
-----------------------------------------------------------------------------
\* std::ranges::includes compares and advances; when all Wanted values are
\* found it may or may not have advanced past the last one.
Includes ==                                             \* 363
    /\ InConsumer /\ phase = "includes"
    /\ \/ /\ ~unread[Top] /\ frames[Top] = "suspended" /\ first2 <= Len(Wanted)
          /\ Resume(Top) /\ UNCHANGED <<unread, phase, first2, output>>
       \/ /\ unread[Top] /\ unread' = [unread EXCEPT ![Top] = FALSE]
          /\ output' = Append(output, value_[Top])
          /\ IF Wanted[first2] < value_[Top] THEN phase' = "sum" /\ UNCHANGED <<first2, active, frames>>
             ELSE IF value_[Top] < Wanted[first2] THEN UNCHANGED <<first2, phase, active, frames>>
             ELSE /\ first2' = first2 + 1 /\ phase' = IF first2 = Len(Wanted) THEN "sum" ELSE phase
                  /\ \/ first2 = Len(Wanted) /\ Resume(Top)
                     \/ UNCHANGED <<active, frames>>
       \/ /\ frames[Top] = "done" /\ phase' = "sum" /\ UNCHANGED <<unread, first2, output, active, frames>>
    /\ UNCHANGED <<chain, ids, source, value_, yields, locals, file>>

\* The second loop over the same generator calls begin(), which resumes it.
BeginAgain ==                                           \* 368, 97-101
    /\ InConsumer /\ phase = "sum" /\ Resume(Top) /\ phase' = "summing"
    /\ unread' = [unread EXCEPT ![Top] = FALSE]   \* what includes() left is lost
    /\ UNCHANGED <<chain, ids, source, value_, yields, locals, first2, output, file>>

InLoop == phase \in {"summing", "lin_space", "decoded", "write", "read"}
\* The other loops of the program draw until the generator is done.
Increment ==                                            \* 60-64, 97-101, 368, 411, 423, 341, 444
    /\ InConsumer /\ InLoop
    /\ ~unread[Top] /\ frames[Top] = "suspended" /\ Resume(Top)
    /\ UNCHANGED <<chain, ids, source, value_, unread, yields, locals, consumer>>

Dereference ==                                          \* 69-72, 341, 370, 425, 446
    /\ InConsumer /\ InLoop /\ unread[Top]
    /\ unread' = [unread EXCEPT ![Top] = FALSE]
    /\ IF phase = "write" THEN file' = Append(file, Byte(value_[Top])) /\ UNCHANGED output
                          ELSE output' = Append(output, value_[Top]) /\ UNCHANGED file
    /\ UNCHANGED <<chain, ids, source, active, frames, value_, yields, locals, phase, first2>>

LoopEnds ==                                             \* 77-80, 442-443
    /\ InConsumer /\ InLoop /\ frames[Top] = "done"
    /\ IF phase = "write" THEN Pipeline("read", file)
       ELSE phase' = "over" /\ UNCHANGED <<chain, source, active, frames, value_, unread, yields, locals>>
    /\ UNCHANGED <<ids, first2, output, file>>

Printed == phase = "over" /\ UNCHANGED generatorsVars
generator(i) == co_yield(i) \/ seq(i) \/ OverRange(i) \/ Draw(i) \/ Use(i) \/ Stops(i)
Consume == Includes \/ BeginAgain \/ Increment \/ Dereference \/ LoopEnds
GeneratorsNext == (\E i \in 1 .. Top : generator(i)) \/ Consume \/ Printed
\* One thread, which runs on.
GeneratorsSpec == GeneratorsInit /\ [][GeneratorsNext]_generatorsVars /\ WF_generatorsVars(GeneratorsNext)
-----------------------------------------------------------------------------
\* Generators are resumed in turn.  One that is done is never resumed, which
\* would be undefined: not by a loop inside another generator and not by the
\* second loop over a (61, 99).  And co_yield goes back to whoever resumed: just
\* those above the one that runs are in the middle of a resume() (62, 38, 43).
ResumedInTurn ==
    \A i \in 1 .. Top : frames[i] # "undefined" /\ (frames[i] = "running" <=> i >= active)

\* A promise has room for one value; a generator is not resumed before the one
\* above has used it (15, 37, 71).  The consumer's second begin() is different.
NoValueLost ==
    [][\A i \in 1 .. Top - 1 : unread[i] /\ chain' = chain =>
          value_'[i] = value_[i] /\ frames'[i] = frames[i]]_generatorsVars

\* Whatever ids are encoded, decoding gives them back one by one, all of them
\* at the end: gaps alone for any ids, gaps in bytes for ids that do not
\* decrease, through a file in between (244-335, 419-447).  No length is needed:
\* 128 is added to the last byte of each number, and only there (429-433).
Ascends(s) == (s # <<>> => 0 <= s[1]) /\ \A j \in 1 .. Len(s) - 1 : s[j] <= s[j + 1]
OfIds == chain \in {Examples.decoded, Examples.read}
RoundTrip ==
    /\ OfIds /\ (Len(chain) = 2 \/ Ascends(ids)) =>
           IsPrefix(output, ids) /\ (phase = "over" => output = ids)
    /\ phase \in {"read", "over"} /\ chain = Examples.read /\ Ascends(ids) =>
           /\ Cardinality({p \in DOMAIN file : file[p] >= 128}) = Len(ids)
           /\ file # <<>> => file[Len(file)] >= 128

\* Over a, which is looped over twice, the loops see each value at most once,
\* in order, and none that take_until() should have stopped (358-371); the loop
\* over lin_space sees n values at equal distances, from start to stop itself
\* (139-145, 411).
TakenOnce(s) == \A j \in DOMAIN s :
    s[j] \in Adder .. Until + Adder - 1 /\ (j > 1 => s[j - 1] < s[j])
EvenlySpaced(s) ==
    LET start == ids[1] * (ids[3] - 1)
        stop == ids[2] * (ids[3] - 1)
    IN  /\ Len(s) = ids[3] /\ (s # <<>> => s[1] = start /\ s[Len(s)] = stop)
        /\ \A j \in 2 .. Len(s) : s[j] - s[j - 1] = ids[2] - ids[1]
SeenOnce ==
    /\ chain = Examples.includes => TakenOnce(output)
    /\ chain = Examples.lin_space /\ phase = "over" => EvenlySpaced(output)

\* The loops end, though seq() does not: the consumer resumes take_until() until
\* that is done, after which nothing resumes seq() (109-127, 358-371).
LoopsEnd == <>[](phase = "over")
=============================================================================
