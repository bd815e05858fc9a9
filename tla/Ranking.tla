-------------------------------- MODULE Ranking --------------------------------
(***************************************************************************)
(* The rank (app/services/rank.py): seven judged levels become one printed *)
(* score, and a story's score, date and id become its place in the list.   *)
(*                                                                         *)
(* Levels are worth hundredths and weights are hundredths, so a weighted   *)
(* sum is a whole number of ten-thousandths. A printed score is a whole    *)
(* number of tenths. The code adds the seven products in floating point: a *)
(* sum that lies exactly between two tenths may be printed as either, and  *)
(* Printed is the set of both.                                             *)
(***************************************************************************)
EXTENDS Integers

\* LEVEL_VALUES: very_low, low, high, very_high.
Worth == [l \in 0..3 |-> CASE l = 0 -> 0 [] l = 1 -> 33 [] l = 2 -> 67 [] l = 3 -> 100]

\* Mutant of Weight: visual_potential counts for less than a tenth of a point.
WeightFaint ==
  [emotional_salience |-> 20, audience_breadth |-> 20, impact |-> 20,
   novelty |-> 15, human_interest |-> 10, timeliness |-> 13,
   visual_potential |-> 2]

Weight ==
  [emotional_salience |-> 20, audience_breadth |-> 20, impact |-> 20,
   novelty |-> 15, human_interest |-> 10, timeliness |-> 10,
   visual_potential |-> 5]

Dimensions == DOMAIN Weight
Judgements == [Dimensions -> 0..3]

\* The weighted sum of a story rated on all seven dimensions.
Unit(levels) ==
  LET part(d) == Weight[d] * Worth[levels[d]] IN
    part("emotional_salience") + part("audience_breadth") + part("impact")
    + part("novelty") + part("human_interest") + part("timeliness")
    + part("visual_potential")

Floor == 10

\* Judged no lower on any dimension, and higher on one.
Outweighs(a, b) == a # b /\ \A d \in Dimensions : a[d] >= b[d]

\* A tenth the stretched sum may be rounded to.
Nearest(p, unit) ==
  LET off == 1000 * (p - Floor) - 9 * unit IN 2 * off <= 1000 /\ -1000 <= 2 * off

\* article_score of a rated story, in tenths.
Printed(levels) ==
  LET unit == Unit(levels)
      low == Floor + (9 * unit) \div 1000
  IN  {p \in low..(low + 1) : Nearest(p, unit)}

\* The score an unrated story is ranked by.
Unrated == Floor

-----------------------------------------------------------------------------
\* sort_key and engagement_sort_key compare two stories; the greater is first.
Newer(a, b) ==
  \/ a.published > b.published
  \/ a.published = b.published /\ a.score > b.score
  \/ a.published = b.published /\ a.score = b.score /\ a.id > b.id

Stronger(a, b) ==
  \/ a.score > b.score
  \/ a.score = b.score /\ a.published > b.published
  \/ a.score = b.score /\ a.published = b.published /\ a.id > b.id

Before(how, a, b) == IF how = "recent" THEN Newer(a, b) ELSE Stronger(a, b)

=============================================================================
