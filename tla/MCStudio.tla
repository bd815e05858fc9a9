------------------------------- MODULE MCStudio -------------------------------
(***************************************************************************)
(* Studio for TLC: stories of one city.                                    *)
(***************************************************************************)
EXTENDS Studio

CONSTANTS s1, s2, c1

InThatOrder == SelectSeq(<<s1, s2>>, LAMBDA s : s \in Stories)
OneTown     == [s \in Stories |-> c1]

Interchangeable == Permutations(CarouselIds) \cup Permutations(Requests)
=============================================================================
