------------------------------ MODULE Positions ------------------------------
(* Lists made of some elements of another one.                                *)
EXTENDS Naturals, Sequences, FiniteSets

\* The i-th least of a finite set of numbers, and the elements of a list at the
\* positions in one, in their order.
Nth(S, i) == CHOOSE k \in S : Cardinality({j \in S : j < k}) = i - 1

Only(s, positions) == [i \in 1 .. Cardinality(positions) |-> s[Nth(positions, i)]]
=============================================================================
