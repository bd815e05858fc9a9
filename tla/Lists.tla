--------------------------------- MODULE Lists ---------------------------------
(***************************************************************************)
(* Sets in a line: what ORDER BY makes of the rows a query selects. The    *)
(* definitions use no recursion and no operator parameters, so that what   *)
(* they yield can be proved once, for every order.                         *)
(***************************************************************************)
EXTENDS Integers, FiniteSets, Sequences

\* An order on S is a set R of pairs, the earlier element first.
Ahead(S, R, x) == {y \in S : <<y, x>> \in R}

\* The elements of a finite set in an order that is total on it.
Lined(S, R) ==
  [n \in 1..Cardinality(S) |-> CHOOSE x \in S : Cardinality(Ahead(S, R, x)) = n - 1]

Increasing(S) == {p \in S \X S : p[1] < p[2]}

\* What a sequence holds at some of its indices.
Part(seq, indices) ==
  LET at == Lined(indices, Increasing(indices))
  IN  [n \in 1..Cardinality(indices) |-> seq[at[n]]]
=============================================================================
