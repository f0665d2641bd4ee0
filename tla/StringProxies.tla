--------------------------- MODULE StringProxies ---------------------------
(* Chapter9-Proxy/LazyAndEager.cpp 36-80: a concatenation is compared before *)
(* it is made.  Chapter7-CompileTime/ConstraintAndConcept.cpp 194-252:       *)
(* strings that carry their size and hash, compared without either's end.    *)
EXTENDS Integers, Sequences, SequencesExt
CONSTANTS Chars,         \* char values, 0 among them
          MaxLength,     \* bound: the length of a string
          SizeRange      \* bound: size_t counts modulo this
ProxyAssumption == Chars \subseteq Int /\ 0 \in Chars /\ MaxLength \in Nat /\ SizeRange \in Nat \ {0}
VARIABLES strings,       \* the operands
          compared,      \* what the comparisons have given
          pc
vars == <<strings, compared, pc>>

Init ==
    /\ strings \in BoundedSeq(Chars, MaxLength) \X BoundedSeq(Chars, MaxLength)
                   \X BoundedSeq(Chars, 2 * MaxLength)
    /\ compared = <<>> /\ pc = "compare"

\* std::equal(s.begin(), s.end(), c.begin() + from): it ends at the first
\* difference, and what it reads behind the end of c is undefined.
equal(s, c, from) ==
    LET differ == {k \in DOMAIN s : k + from <= Len(c) /\ s[k] # c[k + from]}
    IN  IF differ # {} THEN "differ" ELSE IF Len(s) + from > Len(c) THEN "undefined" ELSE "equal"

\* Mutant: the sizes are not compared.
ConcatPrefix(a, b, c) ==
    IF equal(a, c, 0) = "equal" THEN equal(b, c, Len(a)) ELSE equal(a, c, 0)
is_concat_equal(a, b, c) ==                                             \* 38-45, 57-80
    IF Len(a) + Len(b) # Len(c) THEN "differ"
    ELSE IF equal(a, c, 0) = "equal" THEN equal(b, c, Len(a)) ELSE equal(a, c, 0)

\* The hash ends at the first '\0', which the literal itself may contain.
hash_function(s) ==                                                     \* 195-203
    LET ends == {k \in DOMAIN s : s[k] = 0}
        to == IF ends = {} THEN Len(s) ELSE Min(ends) - 1
    IN  FoldLeft(LAMBDA sum, char : (sum + char) % SizeRange, 0, SubSeq(s, 1, to))
SamePrehashed(s, t) == IF Len(s) # Len(t) THEN "differ" ELSE equal(s, t, 0)    \* 208-222

Compare ==
    /\ pc = "compare" /\ pc' = "compared" /\ UNCHANGED strings
    /\ compared' = [concat |-> is_concat_equal(strings[1], strings[2], strings[3]),
                    same |-> SamePrehashed(strings[2], strings[3]),
                    hashes |-> <<hash_function(strings[2]), hash_function(strings[3])>>]
Compared == pc = "compared" /\ UNCHANGED vars
-----------------------------------------------------------------------------
\* Comparing piece by piece gives what comparing the whole would give, and
\* reads nothing that is not there; strings that are equal have equal hashes,
\* those that contain a '\0' too, as hash tables require of std::hash.
ComparedAsWhole == pc = "compared" =>
    /\ compared.concat = IF strings[1] \o strings[2] = strings[3] THEN "equal" ELSE "differ"
    /\ compared.same = IF strings[2] = strings[3] THEN "equal" ELSE "differ"
    /\ compared.same = "equal" => compared.hashes[1] = compared.hashes[2]
=============================================================================
