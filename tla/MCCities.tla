------------------------------- MODULE MCCities -------------------------------
(***************************************************************************)
(* Cities for TLC: two names that normalise to one slug and one that does  *)
(* not, so that two onboardings can meet on the unique index.              *)
(***************************************************************************)
EXTENDS Cities, TLC

CONSTANTS a1, a2, b1, slugA, slugB

TwoSpellings == [n \in Names |-> IF n \in {a1, a2} THEN slugA ELSE slugB]

Interchangeable == Permutations(CityIds) \cup Permutations(Sources)
                     \cup Permutations(Requests)
=============================================================================
