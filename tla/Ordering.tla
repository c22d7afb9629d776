------------------------------ MODULE Ordering ------------------------------
(* Sets whose elements are put in order, as a sort does. *)
EXTENDS Integers, FiniteSets

\* The elements of S, those first that come before others in a set of pairs.
InOrder(S, before) ==
    [i \in 1 .. Cardinality(S) |->
        CHOOSE x \in S : Cardinality({y \in S : <<y, x>> \in before}) = i - 1]

Ascending(S) == InOrder(S, {pair \in S \X S : pair[1] < pair[2]})

=============================================================================
