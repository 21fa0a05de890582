------------------------------- MODULE Positions -------------------------------
(***************************************************************************)
(* Lists, and sets of positions taken in their order: what loops that skip *)
(* members of a list, and sorted lists, come to.                           *)
(***************************************************************************)
EXTENDS Naturals, FiniteSets, SequencesExt

\* Lists of any values.
IsList(s) == s \in Seq(ToSet(s))

\* The k-th smallest member of a set of numbers, and all of them in their order.
Nth(S, k) == CHOOSE i \in S : Cardinality({j \in S : j < i}) = k - 1
InOrder(S) == [k \in 1..Cardinality(S) |-> Nth(S, k)]

\* What a list has at the positions of a set.
Pick(es, S) == [k \in 1..Cardinality(S) |-> es[Nth(S, k)]]
===============================================================================
