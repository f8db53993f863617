----------------------------- MODULE Selections -----------------------------
(***************************************************************************)
(* What the code writes as a loop or a comprehension that keeps some of    *)
(* the members of a list: the members at a set of positions; and as a sort *)
(* by a key that tells all members apart: the set in an order, given as    *)
(* the set of the pairs of one and another that comes after it; and as a   *)
(* sum of what a function gives for the members of a set.                  *)
(***************************************************************************)
EXTENDS Naturals, Sequences, FiniteSets, Functions

\* The kth of the positions in I.
Nth(I, k) == CHOOSE i \in I : Cardinality({j \in I : j < i}) = k - 1

\* The members of s at the positions in I, in their order.
Pick(s, I) == [k \in 1 .. Cardinality(I) |-> s[Nth(I, k)]]

\* The member of S with k - 1 others before it, and all of S in that order.
Placed(S, before, k) == CHOOSE x \in S : Cardinality({y \in S : <<y, x>> \in before}) = k - 1
Sorted(S, before) == [k \in 1 .. Cardinality(S) |-> Placed(S, before, k)]

AddUp(S, value) == SumFunctionOnSet(value, S)
=============================================================================
