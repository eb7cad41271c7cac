------------------------------- MODULE Ordering -------------------------------
(***************************************************************************)
(* Finite sets listed in an order, which is how sorting and filtering are  *)
(* modelled: sorted(), sort_values, a list comprehension with a condition. *)
(***************************************************************************)
EXTENDS Integers, FiniteSets

\* The elements of S that come before x, in the order R, a set of pairs.
Before(x, S, R) == {y \in S : <<y, x>> \in R}

\* The elements of S from the first to the last: each in the place after those
\* before it.
InOrder(S, R) ==
    LET placed == {<<Cardinality(Before(x, S, R)) + 1, x>> : x \in S}
    IN  [k \in 1..Cardinality(S) |-> (CHOOSE p \in placed : p[1] = k)[2]]

\* Numbers from the least to the greatest.
Ascending(S) == InOrder(S, {p \in S \X S : p[1] < p[2]})

\* The records of s by their time, equal ones as they are in s: a stable sort.
ByTime(s) ==
    LET places  == DOMAIN s
        earlier == {p \in places \X places :
                       \/ s[p[1]].ts < s[p[2]].ts
                       \/ s[p[1]].ts = s[p[2]].ts /\ p[1] < p[2]}
        order   == InOrder(places, earlier)
    IN  [k \in places |-> s[order[k]]]

\* The elements of s at these positions, in the order they have in s.
Picked(s, where) == [k \in 1..Cardinality(where) |-> s[Ascending(where)[k]]]
=============================================================================
