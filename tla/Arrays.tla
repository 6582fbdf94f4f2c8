-------------------------------- MODULE Arrays --------------------------------
(***************************************************************************)
(* What the code asks of JavaScript's arrays: filter, and the sum that a   *)
(* loop over entries adds up.  SelectSeq and FoldLeft compute the same;    *)
(* these definitions say it by ranks and cardinalities, with no recursion, *)
(* so that ArrayProofs can prove what they return.                         *)
(***************************************************************************)
EXTENDS Integers, Sequences, FiniteSets

\* The place of i among the members of a set of indices, and the member at a place.
Rank(I, i) == Cardinality({j \in I : j <= i})
Nth(I, n) == CHOOSE i \in I : Rank(I, i) = n

\* The entries of s at the indices I, in their order.
Picked(s, I) == [n \in 1..Cardinality(I) |-> s[Nth(I, n)]]

Filter(s, Test(_)) == Picked(s, {i \in DOMAIN s : Test(s[i])})

\* The sum of the natural numbers that w gives to the members of its domain.
Total(w) == Cardinality(UNION {{x} \X (1..w[x]) : x \in DOMAIN w})
===============================================================================
