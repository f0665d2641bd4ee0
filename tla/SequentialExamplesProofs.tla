----------------------- MODULE SequentialExamplesProofs --------------------
(* The plain algorithms are right for every input: what each has done so far *)
(* determines what it gives in the end.                                      *)
EXTENDS SequentialExamples, FiniteSetTheorems, SequenceTheorems, WellFoundedInduction, TLAPS
-----------------------------------------------------------------------------
(* Induction, from the fact that < is well-founded on the numbers.           *)
\* Every nonempty set of numbers has a least element.
LEMMA Least ==
    ASSUME NEW T \in SUBSET Nat, T # {}
    PROVE  \E x \in T : \A y \in T : x <= y
<1> DEFINE R == {ss \in Nat \X Nat : ss[1] < ss[2]}
<1>1. IsWellFoundedOn(R, Nat)
    BY NatLessThanWellFounded DEF OpToRel
<1> HIDE DEF R
<1>2. PICK x \in T : \A y \in T : <<y, x>> \notin R
    BY <1>1, WFMin
<1>3. ASSUME NEW y \in T PROVE x <= y
    <2>1. x \in Nat /\ y \in Nat
        OBVIOUS
    <2>2. ~(y < x)
        BY <1>2, <2>1 DEF R
    <2> QED BY <2>1, <2>2
<1> QED BY <1>3

\* A set that holds 0, and with every number the next, holds all numbers.
LEMMA Induct ==
    ASSUME NEW S \in SUBSET Nat, 0 \in S, \A k \in S : k + 1 \in S
    PROVE  S = Nat
<1>1. SUFFICES ASSUME Nat \ S # {} PROVE FALSE
    OBVIOUS
<1>2. PICK x \in Nat \ S : \A y \in Nat \ S : x <= y
    BY <1>1, Least
<1>3. x - 1 \in Nat /\ x - 1 \in S
    BY <1>2
<1> QED BY <1>2, <1>3

Follows(f, base, succ) == f[0] = base /\ \A k \in Nat : f[k + 1] = succ[<<k, f[k]>>]

\* A function on the numbers is defined by its first value and a next one.
LEMMA Recursion ==
    ASSUME NEW V, NEW base \in V, NEW succ \in [Nat \X V -> V]
    PROVE  \E f \in [Nat -> V] : Follows(f, base, succ)
<1> DEFINE Upto(m, g) == g \in [Nat -> V] /\ g[0] = base /\ \A k \in 0 .. m - 1 : g[k + 1] = succ[<<k, g[k]>>]
<1> DEFINE S == {m \in Nat : \E g : Upto(m, g)}
<1>1. S = Nat
    <2>1. 0 \in S
        <3>1. Upto(0, [k \in Nat |-> base])
            OBVIOUS
        <3> HIDE DEF Upto
        <3> QED BY <3>1
    <2>2. ASSUME NEW m \in S PROVE m + 1 \in S
        <3>1. PICK g : Upto(m, g)
            OBVIOUS
        <3> DEFINE h == [g EXCEPT ![m + 1] = succ[<<m, g[m]>>]]
        <3>2. m \in Nat /\ g \in [Nat -> V] /\ succ[<<m, g[m]>>] \in V
            BY <3>1
        <3>3. h \in [Nat -> V] /\ h[m + 1] = succ[<<m, g[m]>>] /\ \A k \in 0 .. m : h[k] = g[k]
            BY <3>2
        <3> HIDE DEF h
        <3>4. Upto(m + 1, h)
            <4>1. \A k \in 0 .. m : h[k + 1] = succ[<<k, h[k]>>]
                <5> SUFFICES ASSUME NEW k \in 0 .. m PROVE h[k + 1] = succ[<<k, h[k]>>]
                    OBVIOUS
                <5>1. h[k] = g[k]
                    BY <3>3
                <5>2. CASE k = m
                    BY <3>3, <5>1, <5>2
                <5>3. CASE k < m
                    <6>1. k + 1 \in 0 .. m /\ k \in 0 .. m - 1
                        BY <3>2, <5>3
                    <6> QED BY <3>1, <3>3, <5>1, <6>1
                <5> QED BY <3>2, <5>2, <5>3
            <4> QED BY <3>1, <3>2, <3>3, <4>1
        <3> HIDE DEF Upto
        <3> QED BY <3>2, <3>4
    <2> HIDE DEF S
    <2>3. S \in SUBSET Nat
        BY DEF S
    <2> QED BY <2>1, <2>2, <2>3, Induct
<1>2. ASSUME NEW m \in Nat, NEW g, NEW h, Upto(m, g), Upto(m, h)
      PROVE  \A k \in 0 .. m : g[k] = h[k]
    <2> DEFINE T == {k \in Nat : k <= m => g[k] = h[k]}
    <2>1. 0 \in T
        BY <1>2
    <2>2. ASSUME NEW k \in T PROVE k + 1 \in T
        <3> SUFFICES ASSUME k + 1 <= m PROVE g[k + 1] = h[k + 1]
            OBVIOUS
        <3>1. k \in Nat /\ k \in 0 .. m - 1 /\ g[k] = h[k]
            OBVIOUS
        <3> QED BY <1>2, <3>1
    <2>3. T = Nat
        <3> HIDE DEF T
        <3>1. T \in SUBSET Nat
            BY DEF T
        <3> QED BY <2>1, <2>2, <3>1, Induct
    <2> QED BY <2>3
<1> DEFINE G(m) == CHOOSE g : Upto(m, g)
<1>3. \A m \in Nat : Upto(m, G(m))
    <2> TAKE m \in Nat
    <2>1. \E g : Upto(m, g)
        BY <1>1
    <2> HIDE DEF Upto
    <2> QED BY <2>1
<1> DEFINE f == [m \in Nat |-> G(m)[m]]
<1> HIDE DEF G
<1>4. f \in [Nat -> V] /\ f[0] = base
    BY <1>3
<1>5. ASSUME NEW k \in Nat PROVE f[k + 1] = succ[<<k, f[k]>>]
    <2>1. Upto(k, G(k)) /\ Upto(k + 1, G(k + 1))
        BY <1>3
    <2>2. Upto(k, G(k + 1))
        BY <2>1
    <2>3. G(k + 1)[k] = G(k)[k]
        <3> HIDE DEF Upto
        <3> QED BY <1>2, <2>1, <2>2
    <2>4. k \in 0 .. (k + 1) - 1
        OBVIOUS
    <2> QED BY <2>1, <2>3, <2>4
<1> QED BY <1>4, <1>5 DEF Follows

Unfolds(f, base, succ) == f = [k \in Nat |-> IF k = 0 THEN base ELSE succ[<<k - 1, f[k - 1]>>]]

\* So the recursive definition of a function has a solution.
LEMMA Recursive ==
    ASSUME NEW V, NEW base \in V, NEW succ \in [Nat \X V -> V]
    PROVE  \E f \in [Nat -> V] : Unfolds(f, base, succ)
<1>1. PICK f \in [Nat -> V] : Follows(f, base, succ)
    BY Recursion
<1>2. \A k \in Nat : k # 0 => k - 1 \in Nat /\ (k - 1) + 1 = k
    OBVIOUS
<1>3. ASSUME NEW k \in Nat PROVE f[k] = IF k = 0 THEN base ELSE succ[<<k - 1, f[k - 1]>>]
    BY <1>1, <1>2 DEF Follows
<1> QED BY <1>3 DEF Unfolds

\* Power is what its recursive definition says.
LEMMA PowerDef == Power[0] = 1 /\ \A k \in Nat : Power[k + 1] = 2 * Power[k] /\ Power[k] \in Nat /\ Power[k] >= 1
<1> DEFINE succ == [p \in Nat \X Nat |-> 2 * p[2]]
<1>1. succ \in [Nat \X Nat -> Nat] /\ \A k, x \in Nat : succ[<<k, x>>] = 2 * x
    OBVIOUS
<1> HIDE DEF succ
<1>2. PICK f \in [Nat -> Nat] : Unfolds(f, 1, succ)
    BY <1>1, Recursive
<1>3. f = [k \in Nat |-> IF k = 0 THEN 1 ELSE 2 * f[k - 1]]
    <2>1. \A k \in Nat : k # 0 => k - 1 \in Nat /\ f[k - 1] \in Nat
        OBVIOUS
    <2>2. \A k \in Nat : k # 0 => succ[<<k - 1, f[k - 1]>>] = 2 * f[k - 1]
        BY <1>1, <2>1
    <2> QED BY <1>2, <2>2 DEF Unfolds
<1>4. Power = [k \in Nat |-> IF k = 0 THEN 1 ELSE 2 * Power[k - 1]]
    BY <1>3 DEF Power
<1>5. Power[0] = 1 /\ \A k \in Nat : Power[k + 1] = 2 * Power[k]
    BY <1>4
<1> DEFINE T == {k \in Nat : Power[k] \in Nat /\ Power[k] >= 1}
<1>6. 0 \in T /\ \A k \in T : k + 1 \in T
    BY <1>5
<1>7. T = Nat
    <2> HIDE DEF T
    <2>1. T \in SUBSET Nat
        BY DEF T
    <2> QED BY <1>6, <2>1, Induct
<1>8. \A k \in Nat : k \in T
    BY <1>7
<1> QED BY <1>5, <1>8
-----------------------------------------------------------------------------
TypeInv ==
    /\ search \in {"linear_search", "binary_search"} /\ size \in 0 .. MaxSize
    /\ a \in [0 .. size - 1 -> Values] /\ key \in Values
    /\ search = "binary_search" => Ascending(a, size)
    /\ low \in 0 .. size /\ high \in -1 .. size - 1 /\ low <= high + 1
    /\ result \in {"none", "true", "false"}
RuledOut ==
    /\ search = "linear_search" => high = size - 1
    /\ \A j \in 0 .. size - 1 : j < low \/ high < j => a[j] # key
Answer ==
    /\ result = "true" => \E j \in 0 .. size - 1 : a[j] = key
    /\ result = "false" => low > high
IInv == TypeInv /\ RuledOut /\ Answer

\* std::midpoint of two indexes lies between them.
LEMMA Mid == ASSUME TypeInv, Looks
             PROVE  mid \in 0 .. size - 1 /\ low <= mid /\ mid <= high
  BY SearchesAssumption DEF TypeInv, Looks, mid, SearchesAssumption

\* Nothing is ruled out before the first comparison.
LEMMA InitInv == Init => IInv
  BY SearchesAssumption DEF Init, LastIndex, IInv, TypeInv, RuledOut, Answer, SearchesAssumption

\* A comparison of either search rules out only elements that are not the key.
LEMMA NextInv == IInv /\ [Next]_vars => IInv'
<1> SUFFICES ASSUME IInv, [Next]_vars PROVE IInv'
  OBVIOUS
<1> USE SearchesAssumption DEF SearchesAssumption
<1>0. TypeInv /\ RuledOut /\ Answer
  BY DEF IInv
<1>1. CASE LinearLoop
  <2>1. low \in 0 .. size - 1 /\ search = "linear_search" /\ result = "none" /\ search' = search
        /\ size' = size /\ a' = a /\ key' = key /\ high' = high /\ high = size - 1
    BY <1>0, <1>1 DEF LinearLoop, Looks, Returns, args, TypeInv, RuledOut
  <2>2. CASE a[low] = key
    BY <1>0, <1>1, <2>1, <2>2 DEF LinearLoop, Returns, IInv, TypeInv, RuledOut, Answer
  <2>3. CASE a[low] # key
    BY <1>0, <1>1, <2>1, <2>3 DEF LinearLoop, IInv, TypeInv, RuledOut, Answer
  <2> QED BY <2>2, <2>3
<1>2. CASE BinaryLoop
  <2>1. Looks /\ mid \in 0 .. size - 1 /\ low <= mid /\ mid <= high /\ search = "binary_search"
    BY <1>0, <1>2, Mid DEF BinaryLoop
  <2>2. key \in Int /\ Ascending(a, size) /\ \A j \in 0 .. size - 1 : a[j] \in Int
    BY <1>0, <2>1 DEF TypeInv
  <2>3. CASE GoRight
    <3>1. a[mid] < key /\ low' = mid + 1 /\ UNCHANGED <<args, high, result>>
      BY <2>3 DEF GoRight
    <3>2. \A j \in 0 .. size - 1 : j < low' => a[j] # key
      BY <2>1, <2>2, <3>1 DEF Ascending
    <3>3. TypeInv'
      BY <1>0, <2>1, <3>1 DEF TypeInv, args
    <3>4. RuledOut'
      BY <1>0, <2>1, <3>1, <3>2 DEF RuledOut, args
    <3>5. Answer'
      BY <2>1, <3>1 DEF Answer, Looks
    <3> QED BY <3>3, <3>4, <3>5 DEF IInv
  <2>4. CASE GoLeft
    <3>1. key < a[mid] /\ high' = mid - 1 /\ UNCHANGED <<args, low, result>>
      BY <2>4 DEF GoLeft
    <3>2. \A j \in 0 .. size - 1 : high' < j => a[j] # key
      <4>1. ASSUME NEW j \in 0 .. size - 1, high' < j PROVE a[j] # key
        <5>1. mid <= j
          BY <2>1, <3>1, <4>1
        <5> QED BY <2>1, <2>2, <3>1, <5>1 DEF Ascending
      <4> QED BY <4>1
    <3>3. TypeInv'
      BY <1>0, <2>1, <3>1 DEF TypeInv, args
    <3>4. RuledOut'
      BY <1>0, <2>1, <3>1, <3>2 DEF RuledOut, args
    <3>5. Answer'
      BY <2>1, <3>1 DEF Answer, Looks
    <3> QED BY <3>3, <3>4, <3>5 DEF IInv
  <2>5. CASE a[mid] = key /\ Returns("true")
    BY <1>0, <2>1, <2>5 DEF Returns, args, IInv, TypeInv, RuledOut, Answer
  <2> QED BY <1>2, <2>3, <2>4, <2>5 DEF BinaryLoop
<1>3. CASE NotFound
  BY <1>0, <1>3 DEF NotFound, Returns, args, IInv, TypeInv, RuledOut, Answer
<1>4. CASE UNCHANGED vars
  BY <1>0, <1>4 DEF vars, args, IInv, TypeInv, RuledOut, Answer
<1> QED BY <1>1, <1>2, <1>3, <1>4 DEF Next, Returned

\* What is left, doubled as often as it has been halved, is within the size.
Halves ==
    /\ looked \in Nat
    /\ search = "binary_search" /\ result = "none" => (high - low + 1) * Power[looked] <= size
    /\ search = "binary_search" /\ looked > 0 => Power[looked - 1] <= size

\* Half of what is left is no more than half.
LEMMA Half ==
    ASSUME NEW l \in Nat, NEW m \in Nat, NEW p \in Nat, NEW s \in Nat, 2 * m <= l, l * p <= s
    PROVE  m * (2 * p) <= s
<1>1. PICK r \in Nat : l = 2 * m + r
    <2>1. l - 2 * m \in Nat /\ l = 2 * m + (l - 2 * m)
        OBVIOUS
    <2> QED BY <2>1
<1>2. l * p = m * (2 * p) + r * p /\ r * p \in Nat /\ m * (2 * p) \in Nat
    BY <1>1
<1> QED BY <1>2

\* Each look of binary_search leaves at most half.
LEMMA HalvesInductive ==
    ASSUME IInv, Halves, [Next]_vars
    PROVE  Halves'
<1> USE SearchesAssumption DEF SearchesAssumption
<1>0. TypeInv
    BY DEF IInv
<1>1. CASE BinaryLoop
    <2>1. Looks /\ mid \in 0 .. size - 1 /\ low <= mid /\ mid <= high /\ search = "binary_search"
        BY <1>0, <1>1, Mid DEF BinaryLoop
    <2> DEFINE l == high - low + 1
               p == Power[looked]
    <2>2. /\ looked \in Nat /\ looked' = looked + 1 /\ result = "none" /\ looked' > 0 /\ looked' - 1 = looked
          /\ size \in Nat /\ size' = size /\ l \in Nat /\ l >= 1 /\ p \in Nat /\ p >= 1 /\ l * p <= size
          /\ Power[looked'] = 2 * p
        BY <1>0, <1>1, <2>1, PowerDef
        DEF Halves, BinaryLoop, Looks, TypeInv, GoRight, GoLeft, Returns, args
    <2>3. p <= size
        <3> HIDE DEF l, p
        <3>1. PICK r \in Nat : l = 1 + r
            <4>1. l - 1 \in Nat /\ l = 1 + (l - 1)
                BY <2>2
            <4> QED BY <4>1
        <3>2. l * p = p + r * p /\ r * p \in Nat
            BY <2>2, <3>1
        <3> QED BY <2>2, <3>2
    <2>4. CASE result' = "none"
        <3>1. GoRight \/ GoLeft
            BY <1>1, <2>4 DEF BinaryLoop, Returns
        <3> DEFINE m == high' - low' + 1
        <3>2. m \in Nat /\ 2 * m <= l
            <4>1. low \in Int /\ high \in Int /\ low <= high
                BY <1>0, <2>1 DEF TypeInv, Looks
            <4>2. PICK h \in Int : h = (high - low) \div 2
                BY <4>1
            <4>3. 2 * h <= high - low /\ high - low <= 2 * h + 1 /\ mid = low + h
                BY <4>1, <4>2 DEF mid
            <4>4. m = high - (low + h) \/ m = h
                BY <3>1, <4>1, <4>3 DEF GoRight, GoLeft
            <4> HIDE DEF m
            <4> QED BY <4>1, <4>3, <4>4
        <3>3. m * (2 * p) <= size
            <4> HIDE DEF l, m, p
            <4> QED BY <2>2, <3>2, Half
        <3> QED BY <2>2, <2>3, <3>3 DEF Halves
    <2>5. CASE result' # "none"
        BY <2>2, <2>3, <2>5 DEF Halves
    <2> QED BY <2>4, <2>5
<1>2. CASE LinearLoop
    BY <1>2 DEF LinearLoop, Halves, Returns, args
<1>3. CASE NotFound
    BY <1>3 DEF NotFound, Halves, Returns, args
<1>4. CASE UNCHANGED vars
    BY <1>4 DEF Halves, vars
<1> QED BY <1>1, <1>2, <1>3, <1>4 DEF Next, Returned

\* Nothing has been looked at at first.
LEMMA HalvesInitially == Init => Halves
    BY PowerDef, SearchesAssumption DEF Init, LastIndex, Halves, SearchesAssumption
-----------------------------------------------------------------------------
(* CopyAndSwap: what the local holds at each statement.                      *)
Words == {"Hello", "No"}
Parts == <<"Hello", "No">>
SwapInv ==
    /\ store \in Seq(Words) /\ given \in Seq(Words) /\ local \in Seq(Words)
    /\ \E f \in {"func", "func_throw"} :
         \/ pc = <<f, "copy">> /\ store = given
         \/ pc = <<f, "f1">> /\ store = given /\ local = given
         \/ pc = <<f, "f2">> /\ store = given /\ local = Append(given, "Hello")
         \/ pc = <<f, "swap">> /\ store = given /\ local = given \o Parts
         \/ pc = <<f, "return">> /\ store = given \o Parts
         \/ pc = <<f, "caught">> /\ store = given

\* Appending two elements is appending the pair.
LEMMA AppendBoth ==
    ASSUME NEW S, NEW s \in Seq(S), NEW x \in S, NEW y \in S
    PROVE  /\ Append(Append(s, x), y) = s \o <<x, y>>
           /\ Append(s, x) \in Seq(S) /\ s \o <<x, y>> \in Seq(S) /\ s \o <<x, y>> # s
<1> DEFINE t == Append(Append(s, x), y)
           u == s \o <<x, y>>
<1>1. <<x, y>> \in Seq(S) /\ Len(<<x, y>>) = 2 /\ Len(s) \in Nat
    OBVIOUS
<1>2. /\ u \in Seq(S) /\ Len(u) = Len(s) + 2 /\ u[Len(s) + 1] = x /\ u[Len(s) + 2] = y
      /\ \A k \in 1 .. Len(s) : u[k] = s[k]
    BY <1>1
<1>3. Append(s, x) \in Seq(S) /\ Len(Append(s, x)) = Len(s) + 1
    OBVIOUS
<1>4. /\ t \in Seq(S) /\ Len(t) = Len(s) + 2 /\ t[Len(s) + 1] = x /\ t[Len(s) + 2] = y
      /\ \A k \in 1 .. Len(s) : t[k] = s[k]
    BY <1>1, <1>3
<1> HIDE DEF t, u
<1>5. ASSUME NEW k \in 1 .. Len(s) + 2 PROVE t[k] = u[k]
    <2>1. k \in 1 .. Len(s) \/ k = Len(s) + 1 \/ k = Len(s) + 2
        BY <1>1
    <2> QED BY <1>2, <1>4, <2>1
<1>6. t = u
    BY <1>2, <1>4, <1>5
<1>7. u # s
    BY <1>1, <1>2
<1> QED BY <1>2, <1>3, <1>6, <1>7 DEF t, u

\* Whatever throws, the string is the one before or has both parts.
LEMMA SwapInductive ==
    ASSUME SwapInv, Swaps!Next
    PROVE  SwapInv'
<1>1. PICK f \in {"func", "func_throw"}, p \in {"copy", "f1", "f2", "swap", "return", "caught"} : pc = <<f, p>>
    BY DEF SwapInv
<1>2. /\ store \in Seq(Words) /\ given \in Seq(Words) /\ local \in Seq(Words)
      /\ p # "return" => store = given
      /\ p = "return" => store = given \o Parts
      /\ p = "f1" => local = given
      /\ p = "f2" => local = Append(given, "Hello")
      /\ p = "swap" => local = given \o Parts
    BY <1>1 DEF SwapInv
<1>3. /\ Append(given, "Hello") \in Seq(Words) /\ given \o Parts \in Seq(Words)
      /\ Append(Append(given, "Hello"), "No") = given \o Parts
    <2>1. "Hello" \in Words /\ "No" \in Words
        BY DEF Words
    <2> QED BY <1>2, <2>1, AppendBoth DEF Parts
<1> USE DEF SwapInv, Swaps!Go, Swaps!Functions
<1>4. CASE Swaps!Copy
    BY <1>1, <1>2, <1>4 DEF Swaps!Copy
<1>5. CASE Swaps!f1
    BY <1>1, <1>2, <1>3, <1>5 DEF Swaps!f1, Swaps!AppendTo
<1>6. CASE Swaps!f2
    BY <1>1, <1>2, <1>3, <1>6 DEF Swaps!f2, Swaps!AppendTo
<1>7. CASE Swaps!Swap
    BY <1>1, <1>2, <1>3, <1>7 DEF Swaps!Swap
<1>8. CASE Swaps!Return
    BY <1>1, <1>2, <1>3, <1>8 DEF Swaps!Return
<1>9. CASE Swaps!Throw
    BY <1>1, <1>2, <1>9 DEF Swaps!Throw
<1>10. CASE Swaps!Output
    BY <1>10 DEF Swaps!Output, Swaps!vars
<1> QED BY <1>4, <1>5, <1>6, <1>7, <1>8, <1>9, <1>10 DEF Swaps!Next

\* The string is whole wherever the function is.
LEMMA SwapWhole == ASSUME SwapInv PROVE Swaps!AllOrNothing
<1>1. PICK f \in {"func", "func_throw"}, p \in {"copy", "f1", "f2", "swap", "return", "caught"} : pc = <<f, p>>
    BY DEF SwapInv
<1>2. /\ given \in Seq(Words)
      /\ p # "return" => store = given
      /\ p = "return" => store = given \o Parts
    BY <1>1 DEF SwapInv
<1>3. given \o Parts # given
    <2>1. "Hello" \in Words /\ "No" \in Words
        BY DEF Words
    <2> QED BY <1>2, <2>1, AppendBoth DEF Parts
<1>4. pc[2] = p
    BY <1>1
<1>5. store = given \/ store = given \o Parts
    BY <1>2
<1> QED BY <1>2, <1>3, <1>4, <1>5 DEF Swaps!AllOrNothing, Parts
-----------------------------------------------------------------------------
(* PlayerSort: each sort rearranges the players.                             *)
SortInv ==
    /\ given \in [1 .. Length -> Players] /\ store \in [1 .. Length -> Players]
    /\ store \in Sorts!Rearranged(given)
    /\ pc = "print" => Sorts!InOrder

\* A rearrangement of a rearrangement is one, and has the same length.
LEMMA RearrangedTwice ==
    ASSUME Length \in Nat, NEW s \in [1 .. Length -> Players],
           NEW t \in Sorts!Rearranged(s), NEW u \in Sorts!Rearranged(t)
    PROVE  /\ t \in [1 .. Length -> Players] /\ u \in [1 .. Length -> Players]
           /\ u \in Sorts!Rearranged(s)
<1>1. Len(s) = Length
    OBVIOUS
<1>2. PICK p \in [1 .. Length -> 1 .. Length] :
        /\ \A j, k \in 1 .. Length : p[j] = p[k] => j = k
        /\ t = [k \in 1 .. Length |-> s[p[k]]]
    <2>1. \E p \in [1 .. Len(s) -> 1 .. Len(s)] :
            /\ \A j, k \in 1 .. Len(s) : p[j] = p[k] => j = k
            /\ t = [k \in 1 .. Len(s) |-> s[p[k]]]
        BY DEF Sorts!Rearranged
    <2> QED BY <1>1, <2>1
<1>3. t \in [1 .. Length -> Players] /\ Len(t) = Length
    BY <1>2
<1>4. PICK q \in [1 .. Len(t) -> 1 .. Len(t)] :
        /\ \A j, k \in 1 .. Len(t) : q[j] = q[k] => j = k
        /\ u = [k \in 1 .. Len(t) |-> t[q[k]]]
    BY DEF Sorts!Rearranged
<1>5. u \in [1 .. Length -> Players]
    BY <1>3, <1>4
<1> DEFINE r == [k \in 1 .. Length |-> p[q[k]]]
<1>6. r \in [1 .. Length -> 1 .. Length] /\ \A j, k \in 1 .. Length : r[j] = r[k] => j = k
    BY <1>2, <1>3, <1>4
<1>7. u = [k \in 1 .. Length |-> s[r[k]]]
    BY <1>2, <1>3, <1>4
<1>8. u \in Sorts!Rearranged(s)
    <2> HIDE DEF r
    <2> QED BY <1>1, <1>6, <1>7 DEF Sorts!Rearranged
<1> QED BY <1>3, <1>5, <1>8

\* The list is a rearrangement of itself.
LEMMA RearrangedSame ==
    ASSUME Length \in Nat, NEW s \in [1 .. Length -> Players]
    PROVE  s \in Sorts!Rearranged(s)
<1> DEFINE p == [k \in 1 .. Length |-> k]
<1>1. Len(s) = Length
    OBVIOUS
<1>2. p \in [1 .. Length -> 1 .. Length] /\ \A j, k \in 1 .. Length : p[j] = p[k] => j = k
    OBVIOUS
<1>3. s = [k \in 1 .. Length |-> s[p[k]]]
    OBVIOUS
<1> HIDE DEF p
<1> QED BY <1>1, <1>2, <1>3 DEF Sorts!Rearranged

\* The sorts rearrange, and the last one leaves no player before a lesser one.
LEMMA SortInductive ==
    ASSUME Sorts!PlayerAssumption, SortInv, Sorts!Sort \/ Sorts!RangesSort \/ Sorts!Printed
    PROVE  SortInv'
<1>1. Length \in Nat /\ \A p \in Players : p.level_ \in Nat /\ p.score_ \in Nat
    BY DEF Sorts!PlayerAssumption
<1>2. CASE Sorts!Sort
    <2>1. given' = given /\ store' \in Sorts!Rearranged(store) /\ pc' = "ranges::sort"
        BY <1>2 DEF Sorts!Sort
    <2> QED BY <1>1, <2>1, RearrangedTwice DEF SortInv
<1>3. CASE Sorts!RangesSort
    <2>1. /\ given' = given /\ store' \in Sorts!Rearranged(store)
          /\ \A j, k \in DOMAIN store' : j < k => ~Sorts!less(store'[k], store'[j])
        BY <1>3 DEF Sorts!RangesSort
    <2>2. store' \in [1 .. Length -> Players] /\ store' \in Sorts!Rearranged(given)
        BY <1>1, <2>1, RearrangedTwice DEF SortInv
    <2>3. Sorts!InOrder'
        <3> SUFFICES ASSUME NEW j \in 1 .. Length, NEW k \in 1 .. Length, j < k
                     PROVE  \/ store'[j].level_ < store'[k].level_
                            \/ store'[j].level_ = store'[k].level_ /\ store'[j].score_ <= store'[k].score_
            BY DEF Sorts!InOrder
        <3>1. ~Sorts!less(store'[k], store'[j])
            BY <2>1, <2>2
        <3>2. store'[j] \in Players /\ store'[k] \in Players
            BY <2>2
        <3> QED BY <1>1, <3>1, <3>2 DEF Sorts!less, Sorts!TupleLess, Sorts!Tie
    <2> QED BY <2>1, <2>2, <2>3 DEF SortInv
<1>4. CASE Sorts!Printed
    BY <1>4 DEF Sorts!Printed, Sorts!vars, SortInv, Sorts!InOrder
<1> QED BY <1>2, <1>3, <1>4
-----------------------------------------------------------------------------
(* StringProxies: comparing the pieces.                                      *)
\* std::equal that stays within the second range compares the elements.
LEMMA EqualInside ==
    ASSUME NEW S, NEW s \in Seq(S), NEW c \in Seq(S), NEW from \in Nat, Len(s) + from <= Len(c)
    PROVE  Proxies!equal(s, c, from) =
               IF \A k \in 1 .. Len(s) : s[k] = c[k + from] THEN "equal" ELSE "differ"
<1>1. Len(s) \in Nat /\ Len(c) \in Nat /\ DOMAIN s = 1 .. Len(s)
    OBVIOUS
<1> DEFINE D == {k \in DOMAIN s : k + from <= Len(c) /\ s[k] # c[k + from]}
<1>2. \A k \in 1 .. Len(s) : k + from <= Len(c)
    BY <1>1
<1>3. D = {} <=> \A k \in 1 .. Len(s) : s[k] = c[k + from]
    BY <1>1, <1>2
<1>4. ~(Len(s) + from > Len(c))
    BY <1>1
<1>5. Proxies!equal(s, c, from) =
        IF D # {} THEN "differ" ELSE IF Len(s) + from > Len(c) THEN "undefined" ELSE "equal"
    BY DEF Proxies!equal
<1> HIDE DEF D
<1> QED BY <1>3, <1>4, <1>5

\* The comparison with a concatenation is the comparison with both pieces.
LEMMA ConcatEqual ==
    ASSUME NEW S, NEW a1 \in Seq(S), NEW b1 \in Seq(S), NEW c \in Seq(S)
    PROVE  Proxies!is_concat_equal(a1, b1, c) = IF a1 \o b1 = c THEN "equal" ELSE "differ"
<1>1. Len(a1) \in Nat /\ Len(b1) \in Nat /\ Len(c) \in Nat
    OBVIOUS
<1> DEFINE t == a1 \o b1
<1>2. /\ t \in Seq(S) /\ Len(t) = Len(a1) + Len(b1)
      /\ \A k \in 1 .. Len(a1) : t[k] = a1[k]
      /\ \A k \in 1 .. Len(b1) : t[k + Len(a1)] = b1[k]
    BY <1>1
<1> HIDE DEF t
<1>3. CASE Len(a1) + Len(b1) # Len(c)
    <2>1. t # c
        BY <1>2, <1>3
    <2> QED BY <1>3, <2>1 DEF Proxies!is_concat_equal, t
<1>4. CASE Len(a1) + Len(b1) = Len(c)
    <2>1. Proxies!equal(a1, c, 0) =
            IF \A k \in 1 .. Len(a1) : a1[k] = c[k] THEN "equal" ELSE "differ"
        <3>1. Len(a1) + 0 <= Len(c)
            BY <1>1, <1>4
        <3>2. \A k \in 1 .. Len(a1) : k + 0 = k
            BY <1>1
        <3>3. Proxies!equal(a1, c, 0) =
                IF \A k \in 1 .. Len(a1) : a1[k] = c[k + 0] THEN "equal" ELSE "differ"
            BY <3>1, EqualInside
        <3> QED BY <3>2, <3>3
    <2>2. Proxies!equal(b1, c, Len(a1)) =
            IF \A k \in 1 .. Len(b1) : b1[k] = c[k + Len(a1)] THEN "equal" ELSE "differ"
        <3>1. Len(b1) + Len(a1) <= Len(c)
            BY <1>1, <1>4
        <3> QED BY <1>1, <3>1, EqualInside
    <2>3. t = c <=> /\ \A k \in 1 .. Len(a1) : a1[k] = c[k]
                    /\ \A k \in 1 .. Len(b1) : b1[k] = c[k + Len(a1)]
        <3>1. ASSUME \A k \in 1 .. Len(a1) : a1[k] = c[k],
                     \A k \in 1 .. Len(b1) : b1[k] = c[k + Len(a1)]
              PROVE  t = c
            <4>1. ASSUME NEW k \in 1 .. Len(c) PROVE t[k] = c[k]
                <5>1. CASE k <= Len(a1)
                    BY <1>1, <1>2, <3>1, <5>1
                <5>2. CASE k > Len(a1)
                    <6>1. k - Len(a1) \in 1 .. Len(b1) /\ (k - Len(a1)) + Len(a1) = k
                        BY <1>1, <1>4, <5>2
                    <6>2. /\ t[(k - Len(a1)) + Len(a1)] = b1[k - Len(a1)]
                          /\ b1[k - Len(a1)] = c[(k - Len(a1)) + Len(a1)]
                        BY <1>2, <3>1, <6>1
                    <6> QED BY <6>1, <6>2
                <5> QED BY <1>1, <5>1, <5>2
            <4> QED BY <1>2, <1>4, <4>1
        <3>2. t = c => /\ \A k \in 1 .. Len(a1) : a1[k] = c[k]
                       /\ \A k \in 1 .. Len(b1) : b1[k] = c[k + Len(a1)]
            BY <1>2
        <3> QED BY <3>1, <3>2
    <2> QED BY <1>4, <2>1, <2>2, <2>3 DEF Proxies!is_concat_equal, t
<1> QED BY <1>3, <1>4

\* The comparison of two prehashed strings is that of the strings.
LEMMA PrehashedEqual ==
    ASSUME NEW S, NEW s \in Seq(S), NEW c \in Seq(S)
    PROVE  Proxies!SamePrehashed(s, c) = IF s = c THEN "equal" ELSE "differ"
<1>1. Len(s) \in Nat /\ Len(c) \in Nat
    OBVIOUS
<1>2. CASE Len(s) # Len(c)
    BY <1>2 DEF Proxies!SamePrehashed
<1>3. CASE Len(s) = Len(c)
    <2>1. Len(s) + 0 <= Len(c) /\ \A k \in 1 .. Len(s) : k + 0 = k
        BY <1>1, <1>3
    <2>2. Proxies!equal(s, c, 0) =
            IF \A k \in 1 .. Len(s) : s[k] = c[k + 0] THEN "equal" ELSE "differ"
        BY <2>1, EqualInside
    <2>3. s = c <=> \A k \in 1 .. Len(s) : s[k] = c[k]
        BY <1>3
    <2> QED BY <1>3, <2>1, <2>2, <2>3 DEF Proxies!SamePrehashed
<1> QED BY <1>2, <1>3

ProxyInv ==
    /\ given \in Seq(Chars) \X Seq(Chars) \X Seq(Chars)
    /\ Proxies!ComparedAsWhole

\* The operands are strings.
LEMMA ProxyInitially ==
    ASSUME Proxies!ProxyAssumption, Proxies!Init
    PROVE  ProxyInv
<1>1. ASSUME NEW n \in Nat, NEW s \in Proxies!BoundedSeq(Chars, n) PROVE s \in Seq(Chars)
    <2>1. PICK m \in 0 .. n : s \in [1 .. m -> Chars]
        BY DEF Proxies!BoundedSeq, Proxies!SeqOf
    <2> QED BY <2>1
<1>2. MaxLength \in Nat /\ 2 * MaxLength \in Nat
    BY DEF Proxies!ProxyAssumption
<1>3. /\ given \in Proxies!BoundedSeq(Chars, MaxLength) \X Proxies!BoundedSeq(Chars, MaxLength)
                   \X Proxies!BoundedSeq(Chars, 2 * MaxLength)
      /\ pc # "compared"
    BY DEF Proxies!Init
<1> QED BY <1>1, <1>2, <1>3 DEF ProxyInv, Proxies!ComparedAsWhole

\* Each of the comparisons gives what the strings as wholes give.
LEMMA ProxyInductive ==
    ASSUME ProxyInv, Proxies!Compare \/ Proxies!Compared
    PROVE  ProxyInv'
<1>1. CASE Proxies!Compare
    <2>1. /\ given' = given
          /\ store' = [concat |-> Proxies!is_concat_equal(given[1], given[2], given[3]),
                       same |-> Proxies!SamePrehashed(given[2], given[3]),
                       hashes |-> <<Proxies!hash_function(given[2]), Proxies!hash_function(given[3])>>]
        BY <1>1 DEF Proxies!Compare
    <2>2. given[1] \in Seq(Chars) /\ given[2] \in Seq(Chars) /\ given[3] \in Seq(Chars)
        BY DEF ProxyInv
    <2>3. store'.concat = IF given[1] \o given[2] = given[3] THEN "equal" ELSE "differ"
        BY <2>1, <2>2, ConcatEqual
    <2>4. store'.same = IF given[2] = given[3] THEN "equal" ELSE "differ"
        BY <2>1, <2>2, PrehashedEqual
    <2>5. store'.hashes[1] = Proxies!hash_function(given[2]) /\ store'.hashes[2] = Proxies!hash_function(given[3])
        BY <2>1
    <2>6. store'.same = "equal" => store'.hashes[1] = store'.hashes[2]
        <3> SUFFICES ASSUME given[2] = given[3] PROVE store'.hashes[1] = store'.hashes[2]
            BY <2>4
        <3> QED BY <2>5
    <2> QED BY <2>1, <2>3, <2>4, <2>6 DEF ProxyInv, Proxies!ComparedAsWhole
<1>2. CASE Proxies!Compared
    BY <1>2 DEF Proxies!Compared, Proxies!vars, ProxyInv, Proxies!ComparedAsWhole
<1> QED BY <1>1, <1>2
-----------------------------------------------------------------------------
(* Factorials: multiplication modulo the range of size_t.                    *)
\* A remainder is the one number below the divisor that differs by a multiple.
LEMMA Remainder ==
    ASSUME NEW m \in Nat \ {0}, NEW x \in Nat
    PROVE  /\ x % m \in 0 .. m - 1
           /\ \E q \in Nat : x = q * m + (x % m)
           /\ \A q \in Nat, r \in 0 .. m - 1 : x = q * m + r => x % m = r
<1>1. x % m \in 0 .. m - 1 /\ x \div m \in Nat /\ x = (x \div m) * m + (x % m)
    OBVIOUS
<1>2. ASSUME NEW q \in Nat, NEW r \in 0 .. m - 1, x = q * m + r PROVE x % m = r
    <2> DEFINE p == x \div m
               d == q - p
               e == (x % m) - r
    <2>1. p \in Nat /\ d \in Int /\ e \in Int /\ e < m /\ -m < e
        BY <1>1
    <2>2. x % m = e + r /\ q = d + p
        BY <1>1, <2>1
    <2>3. (d + p) * m = d * m + p * m /\ d * m \in Int /\ p * m \in Nat
        BY <2>1
    <2>4. d * m = e
        BY <1>1, <1>2, <2>2, <2>3
    <2>5. d = 0
        <3> HIDE DEF d, e, p
        <3>1. d >= 1 => d * m >= m
            BY <2>1
        <3>2. d <= -1 => d * m <= -m
            BY <2>1
        <3> QED BY <2>1, <2>4, <3>1, <3>2
    <2>6. e = 0
        <3> HIDE DEF d, e, p
        <3> QED BY <2>4, <2>5
    <2> QED BY <1>1, <2>2, <2>6
<1> QED BY <1>1, <1>2

\* A factor may be replaced by its remainder.
LEMMA RemainderTimes ==
    ASSUME NEW m \in Nat \ {0}, NEW x \in Nat, NEW y \in Nat
    PROVE  ((x % m) * y) % m = (x * y) % m
<1> DEFINE r == x % m
           t == (r * y) % m
<1>1. r \in Nat
    BY Remainder
<1>2. PICK q \in Nat : x = q * m + r
    <2>1. \E q \in Nat : x = q * m + (x % m)
        BY Remainder
    <2> QED BY <2>1
<1> HIDE DEF r
<1>3. r * y \in Nat
    BY <1>1
<1>4. t \in 0 .. m - 1
    BY <1>3, Remainder
<1>5. PICK u \in Nat : r * y = u * m + t
    BY <1>3, Remainder
<1> HIDE DEF t
<1> DEFINE k == q * y + u
<1>6. x * y = k * m + t
    <2>1. (q * m + r) * y = (q * y) * m + r * y
        BY <1>1
    <2>2. (q * y) * m + (u * m + t) = k * m + t
        BY <1>4
    <2> QED BY <1>2, <1>5, <2>1, <2>2
<1>7. k \in Nat /\ x * y \in Nat
    OBVIOUS
<1> HIDE DEF k
<1> DEFINE p == x * y
<1>8. p = k * m + t /\ p \in Nat
    BY <1>6, <1>7
<1> HIDE DEF p
<1>9. p % m = t
    BY <1>4, <1>7, <1>8, Remainder
<1> QED BY <1>9 DEF p, t, r

\* Multiplication modulo the range is associative.
LEMMA TimesAssociative ==
    ASSUME SizeRange \in Nat \ {0}, NEW x \in Nat, NEW y \in Nat, NEW z \in Nat
    PROVE  Tails!Times(Tails!Times(x, y), z) = Tails!Times(x, Tails!Times(y, z))
<1>1. x * y \in Nat /\ y * z \in Nat /\ (y * z) % SizeRange \in Nat
    BY Remainder
<1>2. (((x * y) % SizeRange) * z) % SizeRange = ((x * y) * z) % SizeRange
    BY <1>1, RemainderTimes
<1>3. (((y * z) % SizeRange) * x) % SizeRange = ((y * z) * x) % SizeRange
    BY <1>1, RemainderTimes
<1>4. (x * y) * z = (y * z) * x
    OBVIOUS
<1>5. x * ((y * z) % SizeRange) = ((y * z) % SizeRange) * x
    BY <1>1
<1> QED BY <1>2, <1>3, <1>4, <1>5 DEF Tails!Times

\* Factorial is what its recursive definition says.
LEMMA FactorialDef ==
    ASSUME SizeRange \in Nat, SizeRange > 1
    PROVE  /\ Tails!Factorial[0] = 1
           /\ \A k \in Nat : /\ Tails!Factorial[k + 1] = Tails!Times(k + 1, Tails!Factorial[k])
                             /\ Tails!Factorial[k] \in 0 .. SizeRange - 1
<1> DEFINE Size_t == 0 .. SizeRange - 1
           succ == [p \in Nat \X Size_t |-> Tails!Times(p[1] + 1, p[2])]
<1>0. \A k \in Nat, x \in Size_t : Tails!Times(k, x) \in Size_t
    <2> SUFFICES ASSUME NEW k \in Nat, NEW x \in Size_t PROVE (k * x) % SizeRange \in Size_t
        BY DEF Tails!Times
    <2>1. k * x \in Nat /\ SizeRange \in Nat \ {0}
        OBVIOUS
    <2> QED BY <2>1, Remainder
<1>1. succ \in [Nat \X Size_t -> Size_t] /\ \A k \in Nat, x \in Size_t : succ[<<k, x>>] = Tails!Times(k + 1, x)
    <2> HIDE DEF Size_t
    <2>1. \A p \in Nat \X Size_t : Tails!Times(p[1] + 1, p[2]) \in Size_t
        BY <1>0
    <2> QED BY <2>1
<1>2. 1 \in Size_t /\ Size_t \subseteq Nat
    OBVIOUS
<1> HIDE DEF succ, Size_t
<1>3. PICK f \in [Nat -> Size_t] : Unfolds(f, 1, succ)
    BY <1>1, <1>2, Recursive
<1>4. f = [k \in Nat |-> IF k = 0 THEN 1 ELSE Tails!Times(k, f[k - 1])]
    <2>1. \A k \in Nat : k # 0 => k - 1 \in Nat /\ f[k - 1] \in Size_t /\ (k - 1) + 1 = k
        OBVIOUS
    <2>2. \A k \in Nat : k # 0 => succ[<<k - 1, f[k - 1]>>] = Tails!Times(k, f[k - 1])
        BY <1>1, <2>1
    <2> QED BY <1>3, <2>2 DEF Unfolds
<1>5. Tails!Factorial = [k \in Nat |-> IF k = 0 THEN 1 ELSE Tails!Times(k, Tails!Factorial[k - 1])]
    BY <1>4 DEF Tails!Factorial
<1>6. Tails!Factorial[0] = 1 /\ \A k \in Nat : Tails!Factorial[k + 1] = Tails!Times(k + 1, Tails!Factorial[k])
    <2>1. \A k \in Nat : k + 1 \in Nat /\ k + 1 # 0 /\ (k + 1) - 1 = k
        OBVIOUS
    <2> QED BY <1>5, <2>1
<1> DEFINE T == {k \in Nat : Tails!Factorial[k] \in Size_t}
<1>7. 0 \in T /\ \A k \in T : k + 1 \in T
    <2>1. 0 \in T
        BY <1>2, <1>6
    <2>2. ASSUME NEW k \in T PROVE k + 1 \in T
        <3>1. k + 1 \in Nat /\ Tails!Factorial[k + 1] = Tails!Times(k + 1, Tails!Factorial[k])
            BY <1>6
        <3> QED BY <1>0, <3>1
    <2> QED BY <2>1, <2>2
<1>8. T = Nat
    <2> HIDE DEF T
    <2>1. T \in SUBSET Nat
        BY DEF T
    <2> QED BY <1>7, <2>1, Induct
<1>9. \A k \in Nat : k \in T
    BY <1>8
<1> QED BY <1>6, <1>9 DEF Size_t

\* How far the calls are, and what is left to be multiplied.
TailTypes ==
    /\ given \in 0 .. MaxN /\ called \in {"factorial", "tail_call", "optimized_tail_call"}
    /\ local \in 0 .. SizeRange - 1 /\ store \in 0 .. SizeRange - 1
    /\ depth \in Seq(Nat) /\ Len(depth) <= MaxFrames
    /\ pc \in {"enter", "call", "return", "overflow"}
Nested ==
    called = "factorial" =>
        /\ given > 0 => \A k \in 1 .. Len(depth) : depth[k] = given - k + 1
        /\ given > 0 => Len(depth) < given
        /\ pc # "return" => store = 1
        /\ given > 0 /\ pc \in {"enter", "call"} => local = given - Len(depth)
        /\ given > 0 /\ pc = "return" => store = Tails!Factorial[given - Len(depth)]
        /\ given = 0 => pc # "return"
        /\ given = 0 /\ pc \in {"enter", "call"} =>
              local = IF depth = <<>> THEN 0 ELSE SizeRange - Len(depth)
Accumulated ==
    called # "factorial" =>
        /\ pc \in {"enter", "call"} => Tails!Times(store, Tails!Factorial[local]) = Tails!Factorial[given]
        /\ pc = "return" => store = Tails!Factorial[given]
        /\ pc = "call" => 0 < local
        /\ pc \in {"enter", "call"} => local <= given
        /\ called = "tail_call" /\ pc \in {"enter", "call"} => Len(depth) = given - local
        /\ called = "optimized_tail_call" => depth = <<>>
Begun == pc = "enter" => local = given /\ store = 1 /\ depth = <<>>
Overflown == pc = "overflow" => called # "optimized_tail_call" /\ given \notin 1 .. MaxFrames
TailInv == TailTypes /\ Nested /\ Accumulated /\ Begun /\ Overflown

\* A frame is pushed at the end.
LEMMA Frames ==
    ASSUME NEW s \in Seq(Nat), NEW x \in Nat
    PROVE  /\ Append(s, x) \in Seq(Nat) /\ Append(s, x) # <<>> /\ Len(Append(s, x)) = Len(s) + 1
           /\ \A k \in 1 .. Len(s) + 1 : Append(s, x)[k] = IF k = Len(s) + 1 THEN x ELSE s[k]
BY AppendProperties

\* The last frame is popped.
LEMMA Popped ==
    ASSUME NEW s \in Seq(Nat), s # <<>>
    PROVE  /\ Tails!Front(s) \in Seq(Nat) /\ Len(Tails!Front(s)) = Len(s) - 1
           /\ \A k \in 1 .. Len(s) - 1 : Tails!Front(s)[k] = s[k]
           /\ Tails!Last(s) = s[Len(s)]
<1>1. Tails!Front(s) = SubSeq(s, 1, Len(s) - 1) /\ Tails!Last(s) = s[Len(s)]
    BY DEF Tails!Front, Tails!Last
<1>2. Len(s) \in Nat /\ Len(s) >= 1 /\ Len(s) - 1 \in Int
    OBVIOUS
<1>3. \A k \in 1 .. Len(s) - 1 : s[k] \in Nat
    BY <1>2
<1>4. /\ SubSeq(s, 1, Len(s) - 1) \in Seq(Nat)
      /\ Len(SubSeq(s, 1, Len(s) - 1)) = IF 1 <= Len(s) - 1 THEN (Len(s) - 1) - 1 + 1 ELSE 0
      /\ \A k \in 1 .. (Len(s) - 1) - 1 + 1 : SubSeq(s, 1, Len(s) - 1)[k] = s[1 + k - 1]
    BY <1>2, <1>3, SubSeqProperties
<1>5. (Len(s) - 1) - 1 + 1 = Len(s) - 1 /\ \A k \in 1 .. Len(s) - 1 : 1 + k - 1 = k
    BY <1>2
<1> QED BY <1>1, <1>2, <1>4, <1>5

\* One less, but for 0.
LEMMA OneLess ==
    ASSUME SizeRange \in Nat, SizeRange > 1, NEW x \in 0 .. SizeRange - 1
    PROVE  Tails!Less1(x) = IF x = 0 THEN SizeRange - 1 ELSE x - 1
<1>1. CASE x = 0
    <2>1. SizeRange - 1 = 0 * SizeRange + (SizeRange - 1) /\ 0 \in Nat /\ SizeRange - 1 \in 0 .. SizeRange - 1
          /\ SizeRange - 1 \in Nat /\ SizeRange \in Nat \ {0} /\ x + SizeRange - 1 = SizeRange - 1
        BY <1>1
    <2>2. (SizeRange - 1) % SizeRange = SizeRange - 1
        BY <2>1
    <2> QED BY <1>1, <2>1, <2>2 DEF Tails!Less1
<1>2. CASE x # 0
    <2> DEFINE y == x + SizeRange - 1
    <2>1. y = 1 * SizeRange + (x - 1) /\ 1 \in Nat /\ x - 1 \in 0 .. SizeRange - 1
          /\ y \in Nat /\ SizeRange \in Nat \ {0}
        BY <1>2
    <2> HIDE DEF y
    <2>2. \A q \in Nat, r \in 0 .. SizeRange - 1 : y = q * SizeRange + r => y % SizeRange = r
        BY <2>1, Remainder
    <2>3. PICK q \in Nat : q = 1
        OBVIOUS
    <2>4. y = q * SizeRange + (x - 1)
        BY <2>1, <2>3
    <2>5. y % SizeRange = x - 1
        BY <2>1, <2>2, <2>4
    <2> QED BY <1>2, <2>5 DEF Tails!Less1, y
<1> QED BY <1>1, <1>2

\* The first call has done nothing.
LEMMA TailInitially ==
    ASSUME Tails!FactorialAssumption, Tails!Init
    PROVE  TailInv
<1>1. /\ SizeRange \in Nat /\ SizeRange > 2 /\ MaxN < SizeRange /\ MaxN \in Nat /\ MaxFrames \in Nat
    BY DEF Tails!FactorialAssumption
<1>2. /\ given \in 0 .. MaxN /\ local = given /\ store = 1 /\ depth = <<>> /\ pc = "enter"
      /\ called \in {"factorial", "tail_call", "optimized_tail_call"}
    BY DEF Tails!Init
<1>3. depth \in Seq(Nat) /\ Len(depth) = 0
    BY <1>2
<1>4. Tails!Times(1, Tails!Factorial[given]) = Tails!Factorial[given]
    <2> DEFINE x == Tails!Factorial[given]
    <2>1. x \in 0 .. SizeRange - 1
        BY <1>1, <1>2, FactorialDef
    <2> HIDE DEF x
    <2>2. x \in Nat /\ x = 0 * SizeRange + x /\ 0 \in Nat /\ SizeRange \in Nat \ {0} /\ 1 * x = x
        BY <1>1, <2>1
    <2>3. x % SizeRange = x
        BY <2>1, <2>2, Remainder
    <2> QED BY <2>2, <2>3 DEF Tails!Times, x
<1> QED BY <1>1, <1>2, <1>3, <1>4 DEF TailInv, TailTypes, Nested, Accumulated, Begun, Overflown

\* Products stay in the range, and 1 is neutral.
LEMMA TimesInRange ==
    ASSUME SizeRange \in Nat, SizeRange > 1
    PROVE  /\ \A x, y \in Nat : Tails!Times(x, y) \in 0 .. SizeRange - 1
           /\ \A x \in 0 .. SizeRange - 1 : Tails!Times(x, 1) = x /\ Tails!Times(1, x) = x
<1>1. ASSUME NEW x \in Nat, NEW y \in Nat PROVE Tails!Times(x, y) \in 0 .. SizeRange - 1
    <2>1. x * y \in Nat /\ SizeRange \in Nat \ {0}
        OBVIOUS
    <2> QED BY <2>1, Remainder DEF Tails!Times
<1>2. ASSUME NEW x \in 0 .. SizeRange - 1 PROVE Tails!Times(x, 1) = x /\ Tails!Times(1, x) = x
    <2>1. x % SizeRange = x /\ x * 1 = x /\ 1 * x = x
        OBVIOUS
    <2> QED BY <2>1 DEF Tails!Times
<1> QED BY <1>1, <1>2

\* A call or a return leaves as much to be multiplied as there was.
LEMMA TailInductive ==
    ASSUME Tails!FactorialAssumption, TailInv, Tails!Next
    PROVE  TailInv'
<1>0. /\ SizeRange \in Nat /\ SizeRange > 1 /\ MaxN < SizeRange /\ MaxN \in Nat
      /\ MaxFrames \in Nat /\ MaxFrames + 1 < SizeRange
    BY DEF Tails!FactorialAssumption
<1> DEFINE F == Tails!Factorial
           L == Len(depth)
<1>1. TailTypes /\ Nested /\ Accumulated /\ Begun /\ Overflown
    BY DEF TailInv
<1>2. /\ given \in Nat /\ local \in Nat /\ store \in Nat /\ depth \in Seq(Nat) /\ L \in Nat
      /\ (depth = <<>> <=> L = 0)
      /\ called = "factorial" => called # "tail_call" /\ called # "optimized_tail_call"
      /\ called \in {"factorial", "tail_call", "optimized_tail_call"}
    BY <1>0, <1>1 DEF TailTypes
<1>3. /\ F[0] = 1
      /\ \A k \in Nat : F[k + 1] = Tails!Times(k + 1, F[k]) /\ F[k] \in 0 .. SizeRange - 1 /\ F[k] \in Nat
    BY <1>0, FactorialDef
<1>4. F[1] = 1
    <2>1. 0 \in Nat /\ 0 + 1 = 1 /\ 1 \in 0 .. SizeRange - 1
        BY <1>0
    <2>2. F[0 + 1] = Tails!Times(0 + 1, F[0])
        BY <1>3, <2>1
    <2> HIDE DEF F
    <2> QED BY <1>0, <1>3, <2>1, <2>2, TimesInRange
<1> HIDE DEF F
<1>5. CASE Tails!Enter
    <2>1. /\ pc = "enter" /\ pc' = IF local = 0 /\ called # "factorial" THEN "return" ELSE "call"
          /\ UNCHANGED <<given, called, local, store, depth>>
        BY <1>5 DEF Tails!Enter
    <2>2. local = given /\ store = 1 /\ depth = <<>> /\ L = 0
        BY <1>1, <1>2, <2>1 DEF Begun
    <2>3. TailTypes' /\ Begun' /\ Overflown'
        BY <1>1, <2>1 DEF TailTypes, Begun, Overflown
    <2>4. Nested'
        BY <1>1, <1>2, <2>1, <2>2 DEF Nested
    <2>5. Accumulated'
        BY <1>1, <1>2, <1>3, <2>1, <2>2 DEF Accumulated, F
    <2> QED BY <2>3, <2>4, <2>5 DEF TailInv
<1>6. CASE Tails!Base
    <2>1. pc = "call" /\ local = 1 /\ pc' = "return" /\ UNCHANGED <<given, called, local, store, depth>>
        BY <1>6 DEF Tails!Base
    <2>2. TailTypes' /\ Begun' /\ Overflown'
        BY <1>1, <2>1 DEF TailTypes, Begun, Overflown
    <2>3. Nested'
        <3> SUFFICES ASSUME called = "factorial" PROVE Nested'
            BY <2>1 DEF Nested
        <3>1. given # 0
            BY <1>0, <1>1, <1>2, <2>1 DEF Nested, TailTypes
        <3>2. given > 0 /\ given - L = 1 /\ store = 1 /\ L < given
            BY <1>1, <1>2, <2>1, <3>1 DEF Nested
        <3>3. \A k \in 1 .. L : depth[k] = given - k + 1
            BY <1>1, <3>2 DEF Nested
        <3>4. store = F[given - L]
            BY <1>4, <3>2
        <3> QED BY <2>1, <3>1, <3>2, <3>3, <3>4 DEF Nested, F
    <2>4. Accumulated'
        <3> SUFFICES ASSUME called # "factorial" PROVE Accumulated'
            BY <2>1 DEF Accumulated
        <3>1. Tails!Times(store, F[1]) = F[given]
            BY <1>1, <2>1 DEF Accumulated, F
        <3>2. store = F[given]
            BY <1>0, <1>1, <1>4, <3>1, TimesInRange DEF TailTypes
        <3> QED BY <1>1, <2>1, <3>2 DEF Accumulated, F
    <2> QED BY <2>2, <2>3, <2>4 DEF TailInv
<1>7. CASE Tails!Inner
    <2>1. /\ pc = "call" /\ local # 1 /\ called # "factorial" /\ Tails!Push
          /\ local' = Tails!Less1(local) /\ store' = Tails!Times(store, local) /\ given' = given /\ called' = called
        BY <1>7 DEF Tails!Inner
    <2>2. local >= 2 /\ local <= given /\ local' = local - 1 /\ local' \in Nat /\ local = local' + 1
        <3>1. local > 0 /\ local <= given /\ local \in 0 .. SizeRange - 1
            BY <1>1, <1>2, <2>1 DEF Accumulated, TailTypes
        <3>2. local' = local - 1
            BY <1>0, <2>1, <3>1, OneLess
        <3> QED BY <1>2, <2>1, <3>1, <3>2
    <2>3. Tails!Times(store', F[local']) = F[given]
        <3>1. F[local] = Tails!Times(local, F[local'])
            BY <1>3, <2>2
        <3>2. Tails!Times(Tails!Times(store, local), F[local']) = Tails!Times(store, Tails!Times(local, F[local']))
            <4> DEFINE z == F[local']
            <4>1. z \in Nat /\ SizeRange \in Nat \ {0}
                BY <1>0, <1>3, <2>2
            <4> HIDE DEF z
            <4>2. Tails!Times(Tails!Times(store, local), z) = Tails!Times(store, Tails!Times(local, z))
                BY <1>2, <4>1, TimesAssociative
            <4> QED BY <4>2 DEF z
        <3>3. Tails!Times(store, F[local]) = F[given]
            BY <1>1, <2>1 DEF Accumulated, F
        <3> QED BY <2>1, <3>1, <3>2, <3>3
    <2>4. \/ called = "optimized_tail_call" /\ depth = <<>> /\ UNCHANGED <<depth, pc>>
          \/ called = "tail_call" /\ L < MaxFrames /\ L = given - local /\ depth' = Append(depth, local) /\ pc' = pc
          \/ called = "tail_call" /\ L = MaxFrames /\ L = given - local /\ pc' = "overflow" /\ depth' = depth
        BY <1>0, <1>1, <1>2, <2>1 DEF Tails!Push, Accumulated, TailTypes
    <2>10. L <= MaxFrames /\ Append(depth, local) \in Seq(Nat) /\ Len(Append(depth, local)) = L + 1
        BY <1>1, <1>2, Frames DEF TailTypes
    <2>5. /\ pc' \in {"call", "overflow"} /\ depth' \in Seq(Nat) /\ Len(depth') <= MaxFrames
          /\ (called = "tail_call" /\ pc' = "call") => Len(depth') = given - local'
          /\ called = "optimized_tail_call" => (depth' = <<>> /\ pc' = "call")
          /\ pc' = "overflow" => given > MaxFrames
        <3>1. CASE called = "optimized_tail_call"
            BY <1>0, <1>2, <2>1, <2>4, <3>1
        <3>2. CASE called = "tail_call" /\ depth' = Append(depth, local) /\ L < MaxFrames /\ L = given - local /\ pc' = pc
            BY <1>0, <1>2, <2>1, <2>2, <2>10, <3>2
        <3>3. CASE called = "tail_call" /\ depth' = depth /\ L = MaxFrames /\ L = given - local /\ pc' = "overflow"
            BY <1>0, <1>2, <2>1, <2>2, <3>3
        <3> QED BY <2>4, <3>1, <3>2, <3>3
    <2>6. store' \in 0 .. SizeRange - 1
        BY <1>0, <1>2, <2>1, TimesInRange
    <2>7. TailTypes' /\ Begun'
        BY <1>0, <1>1, <1>2, <2>1, <2>2, <2>5, <2>6 DEF TailTypes, Begun
    <2>8. Nested' /\ Overflown'
        BY <1>0, <1>2, <2>1, <2>5 DEF Nested, Overflown
    <2>9. Accumulated'
        BY <1>2, <2>1, <2>2, <2>3, <2>5 DEF Accumulated, F
    <2> QED BY <2>7, <2>8, <2>9 DEF TailInv
<1>8. CASE Tails!Recurse
    <2>1. /\ pc = "call" /\ local # 1 /\ called = "factorial" /\ Tails!Push
          /\ local' = Tails!Less1(local) /\ given' = given /\ called' = called /\ store' = store /\ store = 1
        BY <1>1, <1>8 DEF Tails!Recurse, Nested
    <2>2. local' = (IF local = 0 THEN SizeRange - 1 ELSE local - 1) /\ local' \in 0 .. SizeRange - 1
        <3>1. local \in 0 .. SizeRange - 1
            BY <1>1 DEF TailTypes
        <3> QED BY <1>0, <2>1, <3>1, OneLess
    <2>3. \/ L < MaxFrames /\ depth' = Append(depth, local) /\ pc' = pc
          \/ L = MaxFrames /\ pc' = "overflow" /\ depth' = depth
        BY <1>0, <1>1, <1>2, <2>1 DEF Tails!Push, TailTypes
    <2>9. /\ L <= MaxFrames /\ Append(depth, local) \in Seq(Nat) /\ Append(depth, local) # <<>>
          /\ Len(Append(depth, local)) = L + 1
          /\ \A k \in 1 .. L + 1 : Append(depth, local)[k] = IF k = L + 1 THEN local ELSE depth[k]
        BY <1>1, <1>2, Frames DEF TailTypes
    <2>4. /\ pc' \in {"call", "overflow"} /\ depth' \in Seq(Nat) /\ Len(depth') <= MaxFrames
          /\ pc' = "call" => /\ Len(depth') = L + 1 /\ depth' # <<>>
                             /\ \A k \in 1 .. L + 1 : depth'[k] = IF k = L + 1 THEN local ELSE depth[k]
          /\ pc' = "overflow" => (L = MaxFrames /\ depth' = depth)
        <3>1. CASE depth' = Append(depth, local) /\ L < MaxFrames /\ pc' = pc
            <4>1. pc' = "call" /\ Len(depth') = L + 1 /\ depth' \in Seq(Nat) /\ depth' # <<>> /\ L + 1 <= MaxFrames
                BY <1>0, <1>2, <2>1, <2>9, <3>1
            <4>2. \A k \in 1 .. L + 1 : depth'[k] = IF k = L + 1 THEN local ELSE depth[k]
                BY <2>9, <3>1
            <4> QED BY <4>1, <4>2
        <3>2. CASE depth' = depth /\ L = MaxFrames /\ pc' = "overflow"
            BY <1>0, <1>2, <3>2
        <3> QED BY <2>3, <3>1, <3>2
    <2>5. TailTypes' /\ Begun' /\ Accumulated'
        BY <1>0, <1>1, <2>1, <2>2, <2>4 DEF TailTypes, Begun, Accumulated
    <2>6. CASE given > 0
        <3>1. local = given - L /\ L + 1 < given
            BY <1>1, <1>2, <2>1, <2>6 DEF Nested
        <3>2. \A k \in 1 .. L : depth[k] = given - k + 1
            BY <1>1, <2>1, <2>6 DEF Nested
        <3>3. local' = given - (L + 1)
            BY <1>2, <2>2, <3>1
        <3>4. \A k \in 1 .. Len(depth') : depth'[k] = given - k + 1
            <4>1. CASE pc' = "call"
                <5>1. Len(depth') = L + 1 /\ given - (L + 1) + 1 = local
                    BY <1>2, <2>4, <3>1, <4>1
                <5>2. \A k \in 1 .. L + 1 : depth'[k] = IF k = L + 1 THEN local ELSE depth[k]
                    BY <2>4, <4>1
                <5>3. ASSUME NEW k \in 1 .. L + 1 PROVE depth'[k] = given - k + 1
                    <6>1. CASE k = L + 1
                        BY <1>2, <5>1, <5>2, <6>1
                    <6>2. CASE k # L + 1
                        <7>1. k \in 1 .. L /\ depth'[k] = depth[k]
                            BY <1>2, <5>2, <6>2
                        <7> QED BY <3>2, <7>1
                    <6> QED BY <6>1, <6>2
                <5> QED BY <5>1, <5>3
            <4>2. CASE pc' = "overflow"
                BY <2>4, <3>2, <4>2
            <4> QED BY <2>4, <4>1, <4>2
        <3>5. Len(depth') < given
            BY <1>2, <2>4, <3>1
        <3>6. Nested'
            <4>1. given' = given /\ called' = called /\ store' = 1 /\ pc' # "return"
                BY <2>1, <2>4
            <4>2. pc' \in {"enter", "call"} => local' = given - Len(depth')
                BY <1>2, <2>4, <3>3
            <4> QED BY <2>1, <2>6, <3>4, <3>5, <4>1, <4>2 DEF Nested
        <3>7. Overflown'
            BY <1>0, <1>2, <2>1, <2>4, <3>1 DEF Overflown
        <3> QED BY <2>5, <3>6, <3>7 DEF TailInv
    <2>7. CASE given = 0
        <3>1. local = IF depth = <<>> THEN 0 ELSE SizeRange - L
            BY <1>1, <2>1, <2>7 DEF Nested
        <3>2. L <= MaxFrames
            BY <1>1 DEF TailTypes
        <3>3. local' = SizeRange - (L + 1)
            BY <1>0, <1>2, <2>2, <3>1, <3>2
        <3>4. Nested'
            BY <1>2, <2>1, <2>4, <2>7, <3>3 DEF Nested
        <3>5. Overflown'
            BY <1>0, <2>1, <2>7 DEF Overflown
        <3> QED BY <2>5, <3>4, <3>5 DEF TailInv
    <2> QED BY <1>2, <2>6, <2>7
<1>9. CASE Tails!Unwind
    <2>1. /\ pc = "return" /\ depth # <<>> /\ depth' = Tails!Front(depth)
          /\ store' = IF called = "factorial" THEN Tails!Times(Tails!Last(depth), store) ELSE store
          /\ UNCHANGED <<given, called, local, pc>>
        BY <1>9 DEF Tails!Unwind
    <2>2. /\ L >= 1 /\ depth' \in Seq(Nat) /\ Len(depth') = L - 1 /\ Tails!Last(depth) = depth[L]
          /\ \A k \in 1 .. L - 1 : depth'[k] = depth[k]
        <3>1. L >= 1
            BY <1>2, <2>1
        <3>2. /\ Tails!Front(depth) \in Seq(Nat) /\ Len(Tails!Front(depth)) = L - 1
              /\ \A k \in 1 .. L - 1 : Tails!Front(depth)[k] = depth[k]
              /\ Tails!Last(depth) = depth[L]
            <4>1. 0 \in Nat /\ depth \in Seq(Nat) /\ depth # <<>>
                BY <1>2, <2>1
            <4> QED BY <4>1, Popped
        <3> QED BY <2>1, <3>1, <3>2
    <2>3. depth[L] \in Nat /\ store' \in 0 .. SizeRange - 1
        <3>1. L \in 1 .. L /\ depth[L] \in Nat
            BY <1>2, <2>2
        <3> QED BY <1>0, <1>1, <1>2, <2>1, <2>2, <3>1, TimesInRange DEF TailTypes
    <2>4. TailTypes' /\ Begun' /\ Overflown'
        BY <1>0, <1>1, <1>2, <2>1, <2>2, <2>3 DEF TailTypes, Begun, Overflown
    <2>5. Accumulated'
        BY <1>1, <1>2, <2>1 DEF Accumulated
    <2>6. Nested'
        <3> SUFFICES ASSUME called = "factorial" PROVE Nested'
            BY <2>1 DEF Nested
        <3>1. given > 0 /\ L < given /\ store = F[given - L] /\ \A k \in 1 .. L : depth[k] = given - k + 1
            BY <1>1, <1>2, <2>1 DEF Nested, F
        <3>2. store' = Tails!Times(given - L + 1, F[given - L])
            BY <1>2, <2>1, <2>2, <3>1
        <3>3. given - L \in Nat /\ given - Len(depth') = (given - L) + 1
            BY <1>2, <2>2, <3>1
        <3>4. store' = F[given - Len(depth')]
            BY <1>3, <3>2, <3>3
        <3>5. \A k \in 1 .. Len(depth') : depth'[k] = given - k + 1
            BY <1>2, <2>2, <3>1
        <3>6. Len(depth') < given
            BY <1>2, <2>2, <3>1
        <3> QED BY <1>2, <2>1, <3>1, <3>4, <3>5, <3>6 DEF Nested, F
    <2> QED BY <2>4, <2>5, <2>6 DEF TailInv
<1>10. CASE Tails!Over
    <2>1. UNCHANGED <<given, called, local, store, depth, pc>>
        BY <1>10 DEF Tails!Over, Tails!vars
    <2> QED BY <1>1, <2>1 DEF TailInv, TailTypes, Nested, Accumulated, Begun, Overflown
<1> QED BY <1>5, <1>6, <1>7, <1>8, <1>9, <1>10 DEF Tails!Next

\* Whatever was called gives the factorial, or has no room for its frames.
LEMMA TailSame == ASSUME Tails!FactorialAssumption, TailInv PROVE Tails!SameFactorial
<1>1. ASSUME Tails!Returned PROVE store = Tails!Factorial[given]
    <2>1. pc = "return" /\ Len(depth) = 0
        BY <1>1 DEF Tails!Returned
    <2>2. CASE called = "factorial"
        <3>1. given \in Nat /\ given > 0 /\ given - 0 = given
            BY <2>1, <2>2 DEF TailInv, TailTypes, Nested, Tails!FactorialAssumption
        <3> QED BY <2>1, <2>2, <3>1 DEF TailInv, Nested
    <2>3. CASE called # "factorial"
        BY <2>1, <2>3 DEF TailInv, Accumulated
    <2> QED BY <2>2, <2>3
<1> QED BY <1>1 DEF Tails!SameFactorial, TailInv, Overflown
-----------------------------------------------------------------------------
(* PartialSort: counting the lesser numbers finds the place of a number.     *)
Below(s, x) == {j \in 1 .. Size : s[j] < x}
Around(s, k) == \A j \in 1 .. Size : (j < k => s[j] <= s[k]) /\ (k < j => s[k] <= s[j])
MiddleInv ==
    /\ store \in [1 .. Size -> Nat] /\ given \in [1 .. Size -> Nat]
    /\ Middle!SortedUpTo(given, 1, Size + 1) /\ Middle!ToBag(store) = Middle!ToBag(given)
    /\ pc \in {"nth_element", "partial_sort", "print"}
    /\ pc = "partial_sort" => Middle!Parted(store, Middle!iter - 1)
    /\ pc = "print" => \A k \in Middle!iter - 1 .. Middle!iter + 1 : Around(store, k)

\* The model's operators and the library's.
LEMMA SameCardinality == \A T : Middle!Cardinality(T) = Cardinality(T)
BY DEF Middle!Cardinality, Cardinality

\* Vectors of the same numbers have the same number of lesser ones.
LEMMA SameBelow ==
    ASSUME Size \in Nat, NEW s \in [1 .. Size -> Nat], NEW t \in [1 .. Size -> Nat],
           Middle!ToBag(s) = Middle!ToBag(t), NEW x \in Nat
    PROVE  Cardinality(Below(s, x)) = Cardinality(Below(t, x))
<1> DEFINE At(u, y) == {j \in DOMAIN u : u[j] = y}
           S == {y \in Nat : Cardinality(Below(s, y)) = Cardinality(Below(t, y))}
<1>1. ASSUME NEW y PROVE Cardinality(At(s, y)) = Cardinality(At(t, y))
    <2>1. /\ Middle!ToBag(s) = [z \in Middle!Range(s) |-> Cardinality(At(s, z))]
          /\ Middle!ToBag(t) = [z \in Middle!Range(t) |-> Cardinality(At(t, z))]
        BY SameCardinality DEF Middle!ToBag
    <2>2. /\ Middle!Range(s) = {s[j] : j \in 1 .. Size}
          /\ Middle!Range(t) = {t[j] : j \in 1 .. Size}
        BY DEF Middle!Range
    <2>3. Middle!Range(s) = Middle!Range(t)
        <3> HIDE DEF At
        <3> QED BY <2>1
    <2>4. CASE y \in Middle!Range(s)
        <3> HIDE DEF At
        <3> QED BY <2>1, <2>3, <2>4
    <2>5. CASE y \notin Middle!Range(s)
        <3>1. At(s, y) = {} /\ At(t, y) = {}
            BY <2>2, <2>3, <2>5
        <3> HIDE DEF At
        <3> QED BY <3>1
    <2> QED BY <2>4, <2>5
<1>2. ASSUME NEW u \in [1 .. Size -> Nat], NEW y \in Nat
      PROVE  /\ Cardinality(Below(u, y)) \in Nat /\ Cardinality(At(u, y)) \in Nat
             /\ Cardinality(Below(u, y + 1)) = Cardinality(Below(u, y)) + Cardinality(At(u, y))
    <2>1. /\ Below(u, y) \subseteq 1 .. Size /\ At(u, y) \subseteq 1 .. Size
          /\ Below(u, y + 1) = Below(u, y) \cup At(u, y) /\ Below(u, y) \cap At(u, y) = {}
        BY DEF Below
    <2> HIDE DEF At
    <2>2. IsFiniteSet(1 .. Size)
        BY FS_Interval
    <2>3. IsFiniteSet(Below(u, y)) /\ IsFiniteSet(At(u, y))
        BY <2>1, <2>2, FS_Subset
    <2>4. Cardinality({}) = 0
        BY FS_EmptySet
    <2>5. Cardinality(Below(u, y)) \in Nat /\ Cardinality(At(u, y)) \in Nat
        BY <2>3, FS_CardinalityType
    <2>6. Cardinality(Below(u, y) \cup At(u, y))
            = Cardinality(Below(u, y)) + Cardinality(At(u, y)) - Cardinality(Below(u, y) \cap At(u, y))
        BY <2>3, FS_Union
    <2>7. Cardinality(Below(u, y) \cap At(u, y)) = 0
        BY <2>1, <2>4
    <2>8. Cardinality(Below(u, y) \cup At(u, y)) = Cardinality(Below(u, y)) + Cardinality(At(u, y))
        BY <2>5, <2>6, <2>7
    <2> QED BY <2>1, <2>5, <2>8
<1>3. 0 \in S
    <2>1. Below(s, 0) = {} /\ Below(t, 0) = {}
        BY DEF Below
    <2> QED BY <2>1
<1>4. ASSUME NEW y \in S PROVE y + 1 \in S
    <2>1. y \in Nat /\ Cardinality(Below(s, y)) = Cardinality(Below(t, y))
        OBVIOUS
    <2> HIDE DEF At
    <2>2. Cardinality(Below(s, y + 1)) = Cardinality(Below(t, y + 1))
        <3>1. /\ Cardinality(Below(s, y + 1)) = Cardinality(Below(s, y)) + Cardinality(At(s, y))
              /\ Cardinality(Below(t, y + 1)) = Cardinality(Below(t, y)) + Cardinality(At(t, y))
            BY <1>2, <2>1
        <3>2. Cardinality(At(s, y)) = Cardinality(At(t, y))
            BY <1>1
        <3> QED BY <2>1, <3>1, <3>2
    <2> QED BY <2>1, <2>2
<1>5. S = Nat
    <2> S \in SUBSET Nat
        OBVIOUS
    <2> HIDE DEF S
    <2> QED BY <1>3, <1>4, Induct
<1>6. x \in S
    BY <1>5
<1> QED BY <1>6

\* With the lesser numbers before it and the larger ones behind, a number is at
\* its place.
LEMMA NotLess ==
    ASSUME Size \in Nat, NEW s \in [1 .. Size -> Nat], NEW t \in [1 .. Size -> Nat],
           Middle!ToBag(s) = Middle!ToBag(t),
           NEW k \in 1 .. Size, Around(s, k), Around(t, k)
    PROVE  ~(s[k] < t[k])
<1> SUFFICES ASSUME s[k] < t[k] PROVE FALSE
    OBVIOUS
<1> DEFINE x == s[k] + 1
<1>1. x \in Nat /\ k \in Nat
    OBVIOUS
<1>2. 1 .. k \subseteq Below(s, x)
    BY DEF Below, Around
<1>3. Below(t, x) \subseteq 1 .. k - 1
    BY DEF Below, Around
<1>4. Below(s, x) \subseteq 1 .. Size
    BY DEF Below
<1> HIDE DEF x
<1>5. IsFiniteSet(1 .. Size) /\ IsFiniteSet(1 .. k - 1) /\ Cardinality(1 .. k - 1) = k - 1 /\ Cardinality(1 .. k) = k
    <2>1. 1 \in Int /\ k \in Int /\ k - 1 \in Int /\ Size \in Int /\ k >= 1
        BY <1>1
    <2>2. Cardinality(1 .. k - 1) = (IF 1 > k - 1 THEN 0 ELSE (k - 1) - 1 + 1) /\ IsFiniteSet(1 .. k - 1)
        BY <2>1, FS_Interval
    <2>3. Cardinality(1 .. k) = (IF 1 > k THEN 0 ELSE k - 1 + 1) /\ IsFiniteSet(1 .. Size)
        BY <2>1, FS_Interval
    <2> QED BY <2>1, <2>2, <2>3
<1>6. IsFiniteSet(Below(s, x))
    BY <1>4, <1>5, FS_Subset
<1>7. Cardinality(1 .. k) <= Cardinality(Below(s, x)) /\ Cardinality(Below(t, x)) <= Cardinality(1 .. k - 1)
    BY <1>2, <1>3, <1>5, <1>6, FS_Subset
<1>8. Cardinality(Below(s, x)) = Cardinality(Below(t, x))
    BY <1>1, SameBelow
<1>9. Cardinality(Below(s, x)) \in Nat
    BY <1>6, FS_CardinalityType
<1> QED BY <1>1, <1>5, <1>7, <1>8, <1>9

\* What partial_sort finds behind the part that it leaves is not less than that.
LEMMA NoneLess ==
    ASSUME Size \in Nat, NEW s \in [1 .. Size -> Nat], NEW t \in [1 .. Size -> Nat],
           Middle!ToBag(s) = Middle!ToBag(t), NEW m \in 1 .. Size,
           Around(t, m), \A j \in 1 .. m - 1 : s[j] = t[j], NEW k \in m .. Size
    PROVE  t[m] <= s[k]
<1> SUFFICES ASSUME s[k] < t[m] PROVE FALSE
    OBVIOUS
<1> DEFINE x == t[m]
           B == Below(t, x)
<1>1. x \in Nat /\ k \in 1 .. Size
    OBVIOUS
<1>2. k \notin B /\ B \subseteq 1 .. Size /\ Below(s, x) \subseteq 1 .. Size
    BY DEF Below, Around
<1>3. B \subseteq 1 .. m - 1
    BY DEF Below, Around
<1>4. B \cup {k} \subseteq Below(s, x)
    <2>1. ASSUME NEW j \in B PROVE j \in Below(s, x)
        BY <1>3 DEF Below
    <2>2. k \in Below(s, x)
        BY DEF Below
    <2> QED BY <2>1, <2>2
<1> HIDE DEF x
<1>5. IsFiniteSet(1 .. Size)
    BY FS_Interval
<1>6. IsFiniteSet(B) /\ IsFiniteSet(Below(s, x))
    BY <1>2, <1>5, FS_Subset
<1>7. Cardinality(B) = Cardinality(Below(s, x))
    BY <1>1, SameBelow
<1>8. B \subseteq Below(s, x) /\ k \in Below(s, x)
    BY <1>4
<1>9. B = Below(s, x)
    <2> HIDE DEF B
    <2> QED BY <1>6, <1>7, <1>8, FS_Subset
<1> QED BY <1>2, <1>8, <1>9

\* The middle of the vector.
LEMMA MiddleOf ==
    ASSUME Middle!SizeAssumption
    PROVE  /\ Size \in Nat /\ Middle!iter \in Nat /\ Middle!iter - 1 \in 1 .. Size /\ Middle!iter + 1 \in 1 .. Size
           /\ \A x \in Numbers : x \in Nat
BY DEF Middle!SizeAssumption, Middle!iter

\* Each step leaves the numbers, and puts the greater ones behind.
LEMMA MiddleInductive ==
    ASSUME Middle!SizeAssumption, MiddleInv, Middle!NthElement \/ Middle!PartialSort \/ Middle!Printed
    PROVE  MiddleInv'
<1> DEFINE m == Middle!iter - 1
<1>1. Size \in Nat /\ m \in 1 .. Size /\ m + 2 \in 1 .. Size /\ Middle!iter + 1 = m + 2 /\ \A x \in Numbers : x \in Nat
    BY MiddleOf
<1>2. ASSUME NEW s \in Middle!Vectors PROVE s \in [1 .. Size -> Nat]
    BY <1>1, <1>2 DEF Middle!Vectors
<1>3. CASE Middle!NthElement
    <2>1. /\ given' = given /\ pc' = "partial_sort" /\ store' \in Middle!Vectors
          /\ Middle!Parted(store', m) /\ Middle!ToBag(store') = Middle!ToBag(store)
        BY <1>3 DEF Middle!NthElement
    <2> QED BY <1>2, <2>1 DEF MiddleInv
<1>4. CASE Middle!PartialSort
    <2>1. /\ given' = given /\ pc = "partial_sort" /\ pc' = "print" /\ store' \in Middle!Vectors
          /\ Middle!SortedUpTo(store', m, Middle!iter + 2) /\ Middle!ToBag(store') = Middle!ToBag(store)
          /\ \A k \in 1 .. Middle!iter - 2 : store'[k] = store[k]
        BY <1>4 DEF Middle!PartialSort
    <2>2. store \in [1 .. Size -> Nat] /\ store' \in [1 .. Size -> Nat]
        BY <1>2, <2>1 DEF MiddleInv
    <2>3. Middle!iter - 2 = m - 1 /\ (Middle!iter + 2) - 1 = m + 2
        BY MiddleOf
    <2>4. Around(store, m)
        BY <2>1 DEF MiddleInv, Middle!Parted, Around
    <2> HIDE DEF m
    <2>5. \A k \in m .. Size : store[m] <= store'[k]
        BY <1>1, <2>1, <2>2, <2>3, <2>4, NoneLess
    <2>6. \A j \in m .. m + 2, k \in m .. Size : j < k => store'[j] <= store'[k]
        <3>1. \A j \in m .. (Middle!iter + 2) - 1 : \A k \in j .. Size : store'[j] <= store'[k]
            BY <2>1 DEF Middle!SortedUpTo
        <3> QED BY <1>1, <2>3, <3>1
    <2>7. ASSUME NEW k \in m .. m + 2 PROVE Around(store', k)
        <3>1. ASSUME NEW j \in 1 .. Size, j < k PROVE store'[j] <= store'[k]
            <4>1. CASE j < m
                <5>1. store'[j] = store[j] /\ store[j] <= store[m]
                    BY <1>1, <2>1, <2>3, <2>4, <4>1 DEF Around
                <5>2. store[m] <= store'[k] /\ store[j] \in Nat /\ store[m] \in Nat /\ store'[k] \in Nat
                    BY <1>1, <2>2, <2>5
                <5> QED BY <5>1, <5>2
            <4>2. CASE j >= m
                BY <1>1, <2>6, <3>1, <4>2
            <4> QED BY <1>1, <4>1, <4>2
        <3>2. ASSUME NEW j \in 1 .. Size, k < j PROVE store'[k] <= store'[j]
            BY <1>1, <2>6, <3>2
        <3> QED BY <3>1, <3>2 DEF Around
    <2>8. \A k \in Middle!iter - 1 .. Middle!iter + 1 : Around(store', k)
        BY <1>1, <2>7 DEF m
    <2> QED BY <2>1, <2>2, <2>8 DEF MiddleInv, Around
<1>5. CASE Middle!Printed
    BY <1>5 DEF Middle!Printed, Middle!vars, MiddleInv, Around
<1> QED BY <1>3, <1>4, <1>5

\* What is printed is what sorting would have put there.
LEMMA MiddlePlaced == ASSUME Middle!SizeAssumption, MiddleInv PROVE Middle!MiddleSorted
<1> SUFFICES ASSUME pc = "print", NEW k \in Middle!iter - 1 .. Middle!iter + 1 PROVE store[k] = given[k]
    BY DEF Middle!MiddleSorted, MiddleInv
<1>1. Size \in Nat /\ k \in 1 .. Size /\ store \in [1 .. Size -> Nat] /\ given \in [1 .. Size -> Nat]
    BY MiddleOf DEF MiddleInv
<1>2. Around(store, k) /\ Around(given, k)
    BY <1>1 DEF MiddleInv, Around, Middle!SortedUpTo
<1>3. ~(store[k] < given[k]) /\ ~(given[k] < store[k])
    BY <1>1, <1>2, NotLess DEF MiddleInv
<1>4. store[k] \in Nat /\ given[k] \in Nat
    BY <1>1
<1> QED BY <1>3, <1>4
-----------------------------------------------------------------------------
(* Each example runs on its own.                                             *)
\* What each example has done is known, and no search runs in the others.
ExamplesInv ==
    /\ example \in {"search", "sort", "middle", "swap", "proxies", "factorials"}
    /\ example = "search" => IInv /\ Halves
    /\ example # "search" => search = "none" /\ result = "none"
    /\ example = "sort" => SortInv
    /\ example = "middle" => MiddleInv
    /\ example = "swap" => SwapInv
    /\ example = "proxies" => ProxyInv
    /\ example = "factorials" => TailInv

\* What the constants are assumed to be.
LEMMA Assumed ==
    /\ Sorts!PlayerAssumption /\ Middle!SizeAssumption /\ Proxies!ProxyAssumption /\ Tails!FactorialAssumption
BY ExamplesAssumption DEF ExamplesAssumption

\* The vector and its sorted numbers are the same numbers.
LEMMA MiddleInitially == ASSUME Middle!SizeAssumption, Middle!Init PROVE MiddleInv
<1>1. ASSUME NEW s \in Middle!Vectors PROVE s \in [1 .. Size -> Nat]
    BY MiddleOf DEF Middle!Vectors
<1> QED BY <1>1 DEF Middle!Init, MiddleInv

\* Initially nothing has been done.
LEMMA ExamplesInitially == ExamplesInit => ExamplesInv
<1> SUFFICES ASSUME ExamplesInit PROVE ExamplesInv
    OBVIOUS
<1>1. CASE example = "search" /\ Init
    BY <1>1, InitInv, HalvesInitially DEF ExamplesInv
<1>2. CASE example = "sort" /\ Sorts!Init /\ NoSearch
    <2>1. SortInv
        <3>1. given \in [1 .. Length -> Players] /\ store = given /\ pc # "print" /\ Length \in Nat
            BY <1>2, Assumed DEF Sorts!Init, Sorts!PlayerAssumption
        <3> QED BY <3>1, RearrangedSame DEF SortInv
    <2> QED BY <1>2, <2>1 DEF ExamplesInv, NoSearch
<1>3. CASE example = "middle" /\ Middle!Init /\ NoSearch
    BY <1>3, Assumed, MiddleInitially DEF ExamplesInv, NoSearch
<1>4. CASE example = "swap" /\ Swaps!Init /\ NoSearch
    <2>1. <<>> \in Seq(Words) /\ "func" \in {"func", "func_throw"}
        OBVIOUS
    <2>2. SwapInv
        BY <1>4, <2>1 DEF Swaps!Init, SwapInv
    <2> QED BY <1>4, <2>2 DEF ExamplesInv, NoSearch
<1>5. CASE example = "proxies" /\ Proxies!Init /\ NoSearch
    BY <1>5, Assumed, ProxyInitially DEF ExamplesInv, NoSearch
<1>6. CASE example = "factorials" /\ Tails!Init /\ NoSearch
    BY <1>6, Assumed, TailInitially DEF ExamplesInv, NoSearch
<1> QED BY <1>1, <1>2, <1>3, <1>4, <1>5, <1>6 DEF ExamplesInit

\* A step is one of the example that runs.
LEMMA ExamplesInductive == ExamplesInv /\ [ExamplesNext]_<<example, vars, others>> => ExamplesInv'
<1> SUFFICES ASSUME ExamplesInv, [ExamplesNext]_<<example, vars, others>> PROVE ExamplesInv'
    OBVIOUS
<1>1. ASSUME example = "search", Next, UNCHANGED <<example, others>> PROVE ExamplesInv'
    <2>1. IInv' /\ Halves'
        BY <1>1, NextInv, HalvesInductive DEF ExamplesInv
    <2> QED BY <1>1, <2>1 DEF ExamplesInv
<1>2. ASSUME example = "sort", Sorts!Sort \/ Sorts!RangesSort \/ Sorts!Printed, UNCHANGED <<example, vars>> PROVE ExamplesInv'
    <2>1. SortInv' /\ search' = search /\ result' = result /\ example' = example
        BY <1>2, Assumed, SortInductive DEF ExamplesInv, vars
    <2> QED BY <1>2, <2>1 DEF ExamplesInv
<1>3. ASSUME example = "middle", Middle!NthElement \/ Middle!PartialSort \/ Middle!Printed, UNCHANGED <<example, vars>> PROVE ExamplesInv'
    <2>1. MiddleInv' /\ search' = search /\ result' = result /\ example' = example
        BY <1>3, Assumed, MiddleInductive DEF ExamplesInv, vars
    <2> QED BY <1>3, <2>1 DEF ExamplesInv
<1>4. ASSUME example = "swap", Swaps!Next, UNCHANGED <<example, vars>> PROVE ExamplesInv'
    <2>1. SwapInv' /\ search' = search /\ result' = result /\ example' = example
        BY <1>4, SwapInductive DEF ExamplesInv, vars
    <2> QED BY <1>4, <2>1 DEF ExamplesInv
<1>5. ASSUME example = "proxies", Proxies!Compare \/ Proxies!Compared, UNCHANGED <<example, vars>> PROVE ExamplesInv'
    <2>1. ProxyInv' /\ search' = search /\ result' = result /\ example' = example
        BY <1>5, Assumed, ProxyInductive DEF ExamplesInv, vars
    <2> QED BY <1>5, <2>1 DEF ExamplesInv
<1>6. ASSUME example = "factorials", Tails!Next, UNCHANGED <<example, vars>> PROVE ExamplesInv'
    <2>1. TailInv' /\ search' = search /\ result' = result /\ example' = example
        BY <1>6, Assumed, TailInductive DEF ExamplesInv, vars
    <2> QED BY <1>6, <2>1 DEF ExamplesInv
<1>7. ASSUME UNCHANGED <<example, vars, others>> PROVE ExamplesInv'
    <2>1. /\ search' = search /\ result' = result /\ example' = example
          /\ UNCHANGED <<store, given, pc, local, depth, called>>
        BY <1>7 DEF vars, others
    <2>2. IInv /\ Halves => IInv' /\ Halves'
        BY <1>7, NextInv, HalvesInductive
    <2>3. SortInv => SortInv'
        BY <2>1 DEF SortInv, Sorts!InOrder
    <2>4. MiddleInv => MiddleInv'
        BY <2>1 DEF MiddleInv, Around
    <2>5. SwapInv => SwapInv'
        BY <2>1 DEF SwapInv
    <2>6. ProxyInv => ProxyInv'
        BY <2>1 DEF ProxyInv, Proxies!ComparedAsWhole
    <2>7. TailInv => TailInv'
        BY <2>1 DEF TailInv, TailTypes, Nested, Accumulated, Begun, Overflown
    <2> QED BY <2>1, <2>2, <2>3, <2>4, <2>5, <2>6, <2>7 DEF ExamplesInv
<1> QED BY <1>1, <1>2, <1>3, <1>4, <1>5, <1>6, <1>7
        DEF ExamplesNext, In, InSearch, InSort, InMiddle, InSwap, InProxies, InTails, Next

\* What is known of each example, at every step of it.
THEOREM ExamplesInvariant == ExamplesSpec => []ExamplesInv
BY ExamplesInitially, ExamplesInductive, PTL DEF ExamplesSpec

\* linear_search and binary_search return true for a key that is there, and
\* false for one that is not, in any vector of any length.
THEOREM Correct == ExamplesSpec => []FoundIfThere
<1>1. IInv => FoundIfThere
    BY SearchesAssumption DEF IInv, TypeInv, RuledOut, Answer, FoundIfThere, SearchesAssumption
<1>2. ExamplesInv => FoundIfThere
    BY <1>1 DEF ExamplesInv, FoundIfThere
<1> QED BY <1>2, ExamplesInvariant, PTL

\* Neither of them reads an element that the vector does not have.
THEOREM Inside == ExamplesSpec => [](example = "search" => ReadsInside)
<1>1. IInv => ReadsInside
    <2> SUFFICES ASSUME IInv, Looks PROVE (IF search = "binary_search" THEN mid ELSE low) \in 0 .. size - 1
        BY DEF ReadsInside
    <2>1. mid \in 0 .. size - 1
        BY Mid DEF IInv
    <2>2. low \in 0 .. size - 1
        BY SearchesAssumption DEF IInv, TypeInv, Looks, SearchesAssumption
    <2> QED BY <2>1, <2>2
<1>2. ExamplesInv => (example = "search" => ReadsInside)
    BY <1>1 DEF ExamplesInv
<1> QED BY <1>2, ExamplesInvariant, PTL

\* binary_search has looked at no more than log2 of the size and one elements.
THEOREM LogarithmicallyMany == ExamplesSpec => []Logarithmic
<1>1. ExamplesInv => Logarithmic
    BY DEF ExamplesInv, Halves, Logarithmic
<1> QED BY <1>1, ExamplesInvariant, PTL

\* The list of players that Heterogenous.cpp prints has all of them, in order of
\* level and score, whatever std::sort with its broken comparator has done; and
\* nth_element and partial_sort put three numbers where sort would put them, in
\* vectors of any size.
THEOREM SortedForPrint == ExamplesSpec => []PrintedInOrder
<1>1. ExamplesInv => PrintedInOrder
    <2>1. ExamplesInv => (example = "sort" => Sorts!PrintedInOrder)
        BY DEF ExamplesInv, SortInv, Sorts!PrintedInOrder
    <2>2. ExamplesInv => (example = "middle" => Middle!MiddleSorted)
        BY Assumed, MiddlePlaced DEF ExamplesInv
    <2> QED BY <2>1, <2>2 DEF PrintedInOrder
<1> QED BY <1>1, ExamplesInvariant, PTL

\* func and func_throw change the string as a whole or leave it as it was.
THEOREM ChangedAsWhole == ExamplesSpec => []AllOrNothing
<1>1. ExamplesInv => AllOrNothing
    BY SwapWhole DEF ExamplesInv, AllOrNothing
<1> QED BY <1>1, ExamplesInvariant, PTL

\* ConcatProxy and PrehashedString compare as the strings themselves compare,
\* for strings of any length over any characters.
THEOREM ComparedAsStrings == ExamplesSpec => []ComparedAsWhole
<1>1. ExamplesInv => ComparedAsWhole
    BY DEF ExamplesInv, ProxyInv, ComparedAsWhole
<1> QED BY <1>1, ExamplesInvariant, PTL

\* factorial and factorial_tail_call, optimized or not, return the factorial of
\* any argument modulo the range of size_t, or run out of stack where it says.
THEOREM FactorialsAgree == ExamplesSpec => []SameFactorial
<1>1. ExamplesInv => SameFactorial
    BY Assumed, TailSame DEF ExamplesInv, SameFactorial
<1> QED BY <1>1, ExamplesInvariant, PTL
=============================================================================
