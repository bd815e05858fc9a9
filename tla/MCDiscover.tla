------------------------------ MODULE MCDiscover ------------------------------
(***************************************************************************)
(* Four stories of one city and one of another. Two are equally old and    *)
(* two score the same, so that both orders need their tie-breaks. One is   *)
(* not judged yet and not local, one has not arrived yet.                  *)
(***************************************************************************)
EXTENDS Discover

CONSTANTS c1, c2

TwoTowns == <<c1, c1, c1, c1, c2>>
Dates == <<1, 2, 2, 3, 1>>
Judgement(novelty, visual) ==
  [d \in Dimensions |-> CASE d = "novelty" -> novelty
                          [] d = "visual_potential" -> visual
                          [] OTHER -> 1]
Judgings == <<Judgement(2, 1), Judgement(2, 0), Judgement(2, 1), Judgement(1, 1),
              Judgement(1, 1)>>
Rows == <<"news", "news", "unjudged", "absent", "news">>
FirstVisitOrSecond == {NoCity, c2}
=============================================================================
