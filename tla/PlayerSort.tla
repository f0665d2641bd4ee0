----------------------------- MODULE PlayerSort -----------------------------
(* Chapter8-Utility/Heterogenous.cpp 360-395: a list of players is sorted    *)
(* twice, by std::sort with a comparator made of tuples and by ranges::sort  *)
(* with a projection, and then printed.                                      *)
EXTENDS Naturals, Sequences, SequencesExt, FiniteSets
CONSTANTS Players,       \* records [name_, level_, score_]
          Length         \* bound: the number of players
PlayerAssumption == Length \in Nat /\ Players \subseteq [name_ : STRING, level_ : Nat, score_ : Nat]
VARIABLES players, given, pc      \* given: the players as they were added
vars == <<players, given, pc>>

Init ==
    /\ given \in [1 .. Length -> Players] /\ players = given /\ pc = "std::sort"

\* Mutant: the projection leaves the score out.
LevelOnly(p) == <<p.level_, 0>>
Tie(p) == <<p.level_, p.score_>>                                        \* 389
TupleLess(s, t) == s[1] < t[1] \/ (s[1] = t[1] /\ s[2] < t[2])

cmp(lhs, rhs) ==                                                        \* 377-383
    LET p1 == <<lhs.level_, lhs.score_>>
        p2 == <<lhs.level_, lhs.score_>>
    IN  TupleLess(p1, p2)
less(lhs, rhs) == TupleLess(Tie(lhs), Tie(rhs))                         \* 387-390

Rearranged(s) ==
    {[k \in 1 .. Len(s) |-> s[p[k]]] : p \in {f \in [1 .. Len(s) -> 1 .. Len(s)] :
                                                 \A j, k \in 1 .. Len(s) : f[j] = f[k] => j = k}}

\* What a sort promises: a permutation in which no element that comes later is
\* less than one that comes before it.
Sort ==                                                                 \* 384
    /\ pc = "std::sort" /\ pc' = "ranges::sort"
    /\ players' \in {s \in Rearranged(players) :
                        \A j, k \in DOMAIN s : j < k => ~cmp(s[k], s[j])}
    /\ UNCHANGED given
RangesSort ==                                                           \* 387-390
    /\ pc = "ranges::sort" /\ pc' = "print"
    /\ players' \in {s \in Rearranged(players) :
                        \A j, k \in DOMAIN s : j < k => ~less(s[k], s[j])}
    /\ UNCHANGED given
Printed == pc = "print" /\ UNCHANGED vars                               \* 392-395

Next == Sort \/ RangesSort \/ Printed
Spec == Init /\ [][Next]_vars
-----------------------------------------------------------------------------
InOrder ==
    \A j, k \in 1 .. Length : j < k =>
        \/ players[j].level_ < players[k].level_
        \/ players[j].level_ = players[k].level_ /\ players[j].score_ <= players[k].score_

\* The players are printed by level and then by score, each of them once.
PrintedInOrder == pc = "print" => InOrder /\ players \in Rearranged(given)

\* "Compare level first, then score" (line 381): std::sort has put the players
\* in that order when it returns.
ComparatorOrders == pc = "ranges::sort" => InOrder
=============================================================================
