------------------------------ MODULE MCCarousels ------------------------------
(***************************************************************************)
(* Carousels for TLC: three stories, two of one city and one of another.   *)
(***************************************************************************)
EXTENDS Crossings

CONSTANTS s1, s2, s3, c1, c2

InThatOrder == SelectSeq(<<s1, s2, s3>>, LAMBDA s : s \in Stories)
TwoCities   == [s \in Stories |-> IF s = s3 THEN c2 ELSE c1]

Interchangeable == Permutations(CarouselIds) \cup Permutations(Requests)
=============================================================================
