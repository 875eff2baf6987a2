------------------------------ MODULE Selections ------------------------------
(***************************************************************************)
(* The elements of a sequence at some of its places, in their order.  A    *)
(* loop that skips elements selects those at the other places.             *)
(***************************************************************************)
EXTENDS Naturals, Sequences, FiniteSets

\* How many of the places are not after place k, and the place that comes n-th.
Rank(places, k) == Cardinality({m \in places : m <= k})
Nth(places, n) == CHOOSE k \in {m \in places : Rank(places, m) = n} : TRUE

Selected(s, places) == [n \in 1..Cardinality(places) |-> s[Nth(places, n)]]
================================================================================
