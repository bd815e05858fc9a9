---------------------------- MODULE Discover_proofs ----------------------------
(***************************************************************************)
(* The score and the two orders; the pages cut from a list; and what the   *)
(* Discover page shows of them, whatever the editor, the network and the   *)
(* list itself do in the meantime.                                         *)
(***************************************************************************)
EXTENDS Discover, Lists_proofs

(***************************************************************************)
(* The score and the orders                                                *)
(***************************************************************************)
LEMMA Worths ==
  /\ Worth[0] = 0 /\ Worth[1] = 33 /\ Worth[2] = 67 /\ Worth[3] = 100
BY DEF Worth

\* A level more is worth a third at least, and no level counts for less than nothing.
LEMMA LevelUp ==
  ASSUME NEW l \in 0..3, NEW m \in 0..3, l <= m
  PROVE  /\ Worth[l] \in 0..100 /\ Worth[m] \in 0..100
         /\ Worth[l] <= Worth[m]
         /\ l # m => Worth[m] - Worth[l] >= 33
<1>1. l = 0 \/ l = 1 \/ l = 2 \/ l = 3
  OBVIOUS
<1>2. m = 0 \/ m = 1 \/ m = 2 \/ m = 3
  OBVIOUS
<1>3. QED
  BY <1>1, <1>2, Worths

LEMMA DimensionSet ==
  Dimensions = {"emotional_salience", "audience_breadth", "impact", "novelty",
                "human_interest", "timeliness", "visual_potential"}
BY DEF Dimensions, Weight

LEMMA Weights ==
  /\ Weight["emotional_salience"] = 20 /\ Weight["audience_breadth"] = 20
  /\ Weight["impact"] = 20 /\ Weight["novelty"] = 15
  /\ Weight["human_interest"] = 10 /\ Weight["timeliness"] = 10
  /\ Weight["visual_potential"] = 5
BY DEF Weight

\* The sum, weights in place.
LEMMA UnitSum ==
  ASSUME NEW levels \in Judgements
  PROVE  Unit(levels) =
           20 * Worth[levels["emotional_salience"]]
           + 20 * Worth[levels["audience_breadth"]] + 20 * Worth[levels["impact"]]
           + 15 * Worth[levels["novelty"]] + 10 * Worth[levels["human_interest"]]
           + 10 * Worth[levels["timeliness"]] + 5 * Worth[levels["visual_potential"]]
BY Weights DEF Unit

\* The same with numbers in place.
LEMMA Weighing ==
  ASSUME NEW a \in [1..7 -> 0..100], NEW b \in [1..7 -> 0..100],
         \A i \in 1..7 : a[i] <= b[i],
         NEW k \in 1..7, b[k] - a[k] >= 33
  PROVE  (20 * b[1] + 20 * b[2] + 20 * b[3] + 15 * b[4] + 10 * b[5] + 10 * b[6] + 5 * b[7])
         - (20 * a[1] + 20 * a[2] + 20 * a[3] + 15 * a[4] + 10 * a[5] + 10 * a[6] + 5 * a[7])
         >= 165
<1> DEFINE more(i) == b[i] - a[i]
<1>1. \A i \in 1..7 : a[i] \in Int /\ b[i] \in Int
  OBVIOUS
<1>2. \A i \in 1..7 : more(i) \in Int /\ b[i] = a[i] + more(i) /\ more(i) >= 0
  BY <1>1
<1>3. more(k) >= 33
  OBVIOUS
<1> HIDE DEF more
<1>4. 20 * more(1) + 20 * more(2) + 20 * more(3) + 15 * more(4) + 10 * more(5)
      + 10 * more(6) + 5 * more(7) >= 165
  <2>1. /\ more(1) \in Int /\ more(1) >= 0 /\ more(2) \in Int /\ more(2) >= 0
        /\ more(3) \in Int /\ more(3) >= 0 /\ more(4) \in Int /\ more(4) >= 0
        /\ more(5) \in Int /\ more(5) >= 0 /\ more(6) \in Int /\ more(6) >= 0
        /\ more(7) \in Int /\ more(7) >= 0
    BY <1>2
  <2>2. k = 1 \/ k = 2 \/ k = 3 \/ k = 4 \/ k = 5 \/ k = 6 \/ k = 7
    OBVIOUS
  <2>3. \/ more(1) >= 33 \/ more(2) >= 33 \/ more(3) >= 33 \/ more(4) >= 33
        \/ more(5) >= 33 \/ more(6) >= 33 \/ more(7) >= 33
    BY <1>3, <2>2
  <2>4. QED
    BY <2>1, <2>3
<1>5. /\ a[1] \in Int /\ more(1) \in Int /\ b[1] = a[1] + more(1)
      /\ a[2] \in Int /\ more(2) \in Int /\ b[2] = a[2] + more(2)
      /\ a[3] \in Int /\ more(3) \in Int /\ b[3] = a[3] + more(3)
      /\ a[4] \in Int /\ more(4) \in Int /\ b[4] = a[4] + more(4)
      /\ a[5] \in Int /\ more(5) \in Int /\ b[5] = a[5] + more(5)
      /\ a[6] \in Int /\ more(6) \in Int /\ b[6] = a[6] + more(6)
      /\ a[7] \in Int /\ more(7) \in Int /\ b[7] = a[7] + more(7)
  BY <1>1, <1>2
<1>6. QED
  BY <1>4, <1>5

\* What outweighs another story sums up to a sixtieth of the whole more.
LEMMA UnitRises ==
  ASSUME NEW low \in Judgements, NEW high \in Judgements, Outweighs(high, low)
  PROVE  /\ Unit(low) \in Nat /\ Unit(high) \in Nat
         /\ Unit(high) - Unit(low) >= 165
<1> DEFINE name == <<"emotional_salience", "audience_breadth", "impact", "novelty",
                     "human_interest", "timeliness", "visual_potential">>
           a == [i \in 1..7 |-> Worth[low[name[i]]]]
           b == [i \in 1..7 |-> Worth[high[name[i]]]]
<1>1. low \in [Dimensions -> 0..3] /\ high \in [Dimensions -> 0..3]
  BY DEF Judgements
<1>2. \A e \in Dimensions : low[e] \in 0..3 /\ high[e] \in 0..3 /\ low[e] <= high[e]
  BY <1>1 DEF Outweighs
<1>3. \A i \in 1..7 : name[i] \in Dimensions
  BY DimensionSet
<1>4. PICK d \in Dimensions : low[d] # high[d]
  BY <1>1 DEF Outweighs
<1>5. PICK k \in 1..7 : d = name[k]
  BY DimensionSet
<1>6. \A e \in Dimensions :
        /\ Worth[low[e]] \in 0..100 /\ Worth[high[e]] \in 0..100
        /\ Worth[low[e]] <= Worth[high[e]]
        /\ low[e] # high[e] => Worth[high[e]] - Worth[low[e]] >= 33
  BY <1>2, LevelUp
<1>7. a \in [1..7 -> 0..100] /\ b \in [1..7 -> 0..100]
  BY <1>3, <1>6
<1>8. \A i \in 1..7 : a[i] <= b[i]
  BY <1>3, <1>6
<1>9. b[k] - a[k] >= 33
  BY <1>4, <1>5, <1>6
<1>10. /\ Unit(low) = 20 * a[1] + 20 * a[2] + 20 * a[3] + 15 * a[4] + 10 * a[5]
                      + 10 * a[6] + 5 * a[7]
       /\ Unit(high) = 20 * b[1] + 20 * b[2] + 20 * b[3] + 15 * b[4] + 10 * b[5]
                       + 10 * b[6] + 5 * b[7]
  BY UnitSum
<1> HIDE DEF a, b
<1>11. Unit(high) - Unit(low) >= 165
  BY <1>7, <1>8, <1>9, <1>10, Weighing
<1>12. /\ a[1] \in Nat /\ a[2] \in Nat /\ a[3] \in Nat /\ a[4] \in Nat
       /\ a[5] \in Nat /\ a[6] \in Nat /\ a[7] \in Nat
       /\ b[1] \in Nat /\ b[2] \in Nat /\ b[3] \in Nat /\ b[4] \in Nat
       /\ b[5] \in Nat /\ b[6] \in Nat /\ b[7] \in Nat
  BY <1>7
<1>13. Unit(low) \in Nat /\ Unit(high) \in Nat
  BY <1>10, <1>12
<1>14. QED
  BY <1>11, <1>13

\* Every dimension shows: a story that outweighs another has the higher printed
\* score, whichever way sums at the half are rounded (rank.py:119-137).
THEOREM OutweighingShows ==
  ASSUME NEW low \in Judgements, NEW high \in Judgements, Outweighs(high, low),
         NEW p \in Printed(low), NEW q \in Printed(high)
  PROVE  p < q
<1> DEFINE u == Unit(low)
           v == Unit(high)
<1>1. u \in Nat /\ v \in Nat /\ v - u >= 165
  BY UnitRises
<1>2. p \in Int /\ Nearest(p, u) /\ q \in Int /\ Nearest(q, v)
  BY <1>1 DEF Printed, Floor
<1> HIDE DEF u, v
<1>3. -1000 <= 2 * (1000 * (q - 10) - 9 * v) /\ 2 * (1000 * (p - 10) - 9 * u) <= 1000
  BY <1>2 DEF Nearest, Floor
<1>4. QED
  BY <1>1, <1>2, <1>3

-----------------------------------------------------------------------------
\* What the list compares.
Keys == [id : Nat, published : Nat, score : Nat]

\* The page cut is deterministic: for either sort, any two stories of different ids
\* come in one order and not in the other, and the order is transitive, so there is
\* one list to page through (rank.py:89-93, 161-186).
THEOREM OrderTotal ==
  ASSUME NEW how \in {"recent", "engagement"}
  PROVE  /\ \A a, b \in Keys :
              a.id # b.id => (Before(how, a, b) <=> ~Before(how, b, a))
         /\ \A a \in Keys : ~Before(how, a, a)
         /\ \A a, b, c \in Keys :
              Before(how, a, b) /\ Before(how, b, c) => Before(how, a, c)
<1>1. CASE how = "recent"
  BY <1>1 DEF Keys, Before, Newer
<1>2. CASE how = "engagement"
  BY <1>2 DEF Keys, Before, Stronger
<1>3. QED
  BY <1>1, <1>2

-----------------------------------------------------------------------------
(***************************************************************************)
(* The list and its pages                                                  *)
(***************************************************************************)
LEMMA UnitType ==
  ASSUME NEW levels \in Judgements
  PROVE  Unit(levels) \in Nat
<1>1. \A d \in Dimensions : Worth[levels[d]] \in Nat
  <2> SUFFICES ASSUME NEW d \in Dimensions PROVE Worth[levels[d]] \in Nat
    OBVIOUS
  <2>1. levels[d] \in 0..3
    BY DEF Judgements
  <2>2. levels[d] = 0 \/ levels[d] = 1 \/ levels[d] = 2 \/ levels[d] = 3
    BY <2>1
  <2> QED
    BY <2>2, Worths
<1>2. /\ Worth[levels["emotional_salience"]] \in Nat
      /\ Worth[levels["audience_breadth"]] \in Nat /\ Worth[levels["impact"]] \in Nat
      /\ Worth[levels["novelty"]] \in Nat /\ Worth[levels["human_interest"]] \in Nat
      /\ Worth[levels["timeliness"]] \in Nat /\ Worth[levels["visual_potential"]] \in Nat
  BY <1>1, DimensionSet
<1>. PICK a \in Nat : a = Worth[levels["emotional_salience"]]
  BY <1>2
<1>. PICK b \in Nat : b = Worth[levels["audience_breadth"]]
  BY <1>2
<1>. PICK c \in Nat : c = Worth[levels["impact"]]
  BY <1>2
<1>. PICK d \in Nat : d = Worth[levels["novelty"]]
  BY <1>2
<1>. PICK e \in Nat : e = Worth[levels["human_interest"]]
  BY <1>2
<1>. PICK f \in Nat : f = Worth[levels["timeliness"]]
  BY <1>2
<1>. PICK g \in Nat : g = Worth[levels["visual_potential"]]
  BY <1>2
<1>3. 20 * a + 20 * b + 20 * c + 15 * d + 10 * e + 10 * f + 5 * g \in Nat
  <2>1. 20 * a \in Nat /\ 20 * b \in Nat /\ 20 * c \in Nat /\ 15 * d \in Nat
        /\ 10 * e \in Nat /\ 10 * f \in Nat /\ 5 * g \in Nat
    OBVIOUS
  <2>2. \A x, y \in Nat : x + y \in Nat
    OBVIOUS
  <2>3. 20 * a + 20 * b \in Nat
    BY <2>1, <2>2
  <2>4. 20 * a + 20 * b + 20 * c \in Nat
    BY <2>1, <2>2, <2>3
  <2>5. 20 * a + 20 * b + 20 * c + 15 * d \in Nat
    BY <2>1, <2>2, <2>4
  <2>6. 20 * a + 20 * b + 20 * c + 15 * d + 10 * e \in Nat
    BY <2>1, <2>2, <2>5
  <2>7. 20 * a + 20 * b + 20 * c + 15 * d + 10 * e + 10 * f \in Nat
    BY <2>1, <2>2, <2>6
  <2>8. 20 * a + 20 * b + 20 * c + 15 * d + 10 * e + 10 * f + 5 * g \in Nat
    BY <2>1, <2>2, <2>7
  <2> QED
    BY <2>8
<1>4. Unit(levels) = 20 * a + 20 * b + 20 * c + 15 * d + 10 * e + 10 * f + 5 * g
  BY UnitSum
<1> QED
  BY <1>3, <1>4

\* Every story has a score, and none is below the floor.
LEMMA ScoreType ==
  ASSUME NEW s \in Stories
  PROVE  /\ Score[s] \in Printed(Levels[s]) /\ Score[s] \in Nat
         /\ Levels[s] \in Judgements /\ Unrated <= Score[s]
<1>1. Levels[s] \in Judgements
  BY DiscoverAssumption
<1>2. PICK u \in Nat : u = Unit(Levels[s])
  BY <1>1, UnitType
<1> DEFINE low == 10 + (9 * u) \div 1000
<1>3. /\ low \in Nat /\ low >= 10
      /\ 9 * u - 1000 * (low - 10) >= 0 /\ 9 * u - 1000 * (low - 10) < 1000
  OBVIOUS
<1>4. Printed(Levels[s]) = {p \in low..(low + 1) : Nearest(p, u)}
  BY <1>2 DEF Printed, Floor
<1> HIDE DEF low
<1>5. Nearest(low, u) \/ Nearest(low + 1, u)
  BY <1>3 DEF Nearest, Floor
<1>6. Printed(Levels[s]) # {} /\ \A p \in Printed(Levels[s]) : p \in Nat /\ p >= 10
  BY <1>3, <1>4, <1>5
<1>7. Score[s] = CHOOSE p \in Printed(Levels[s]) : TRUE
  BY DEF Score
<1> QED
  BY <1>1, <1>6, <1>7 DEF Unrated, Floor

LEMMA KeyedType ==
  ASSUME NEW s \in Stories
  PROVE  Keyed(s) \in Keys /\ Keyed(s).id = s
BY ScoreType, DiscoverAssumption DEF Keyed, Keys, Unrated, Floor

\* The list of a city is in one line, whatever the order asked for.
LEMMA OrderIsTotal ==
  ASSUME NEW c, NEW how \in Orders
  PROVE  IsFiniteSet(Listed(c)) /\ TotalOrder(Listed(c), Order(c, how))
<1>1. Listed(c) \in SUBSET Stories
  BY DEF Listed
<1>2. IsFiniteSet(Listed(c))
  BY <1>1, FS_Subset, DiscoverAssumption
<1>3. \A s \in Listed(c) : Keyed(s) \in Keys /\ Keyed(s).id = s
  BY <1>1, KeyedType
<1>4. \A s, t \in Listed(c) : <<s, t>> \in Order(c, how) <=> Before(how, Keyed(s), Keyed(t))
  BY DEF Order
<1>5. /\ \A a, b \in Keys : a.id # b.id => (Before(how, a, b) <=> ~Before(how, b, a))
      /\ \A a \in Keys : ~Before(how, a, a)
      /\ \A a, b, c1 \in Keys : Before(how, a, b) /\ Before(how, b, c1) => Before(how, a, c1)
  BY OrderTotal DEF Orders
<1>6. \A x \in Listed(c) : <<x, x>> \notin Order(c, how)
  BY <1>3, <1>4, <1>5
<1>7. \A x, y \in Listed(c) : x = y \/ <<x, y>> \in Order(c, how) \/ <<y, x>> \in Order(c, how)
  BY <1>3, <1>4, <1>5
<1>8. \A x, y, z \in Listed(c) :
        <<x, y>> \in Order(c, how) /\ <<y, z>> \in Order(c, how) => <<x, z>> \in Order(c, how)
  BY <1>3, <1>4, <1>5
<1> QED
  BY <1>2, <1>6, <1>7, <1>8 DEF TotalOrder

\* How many stories of the list come before one.
Lead(c, how, s) == Cardinality(Ahead(Listed(c), Order(c, how), s))

LEMMA LeadType ==
  ASSUME NEW c, NEW how \in Orders, NEW s \in Listed(c)
  PROVE  Lead(c, how, s) \in 0..(Cardinality(Listed(c)) - 1) /\ Cardinality(Listed(c)) \in Nat
BY OrderIsTotal, Standing DEF Lead

\* Fewer stories come before the one that comes first.
LEMMA LeadOrder ==
  ASSUME NEW c, NEW how \in Orders, NEW s \in Listed(c), NEW t \in Listed(c),
         Lead(c, how, s) < Lead(c, how, t)
  PROVE  Before(how, Keyed(s), Keyed(t))
<1>1. s = t \/ <<s, t>> \in Order(c, how) \/ <<t, s>> \in Order(c, how)
  BY OrderIsTotal DEF TotalOrder
<1>2. <<t, s>> \in Order(c, how) => Lead(c, how, t) < Lead(c, how, s)
  BY OrderIsTotal, Standing DEF Lead
<1>3. Lead(c, how, s) \in Int /\ Lead(c, how, t) \in Int
  BY LeadType
<1>4. <<s, t>> \in Order(c, how)
  BY <1>1, <1>2, <1>3
<1> QED
  BY <1>4 DEF Order

\* A page holds the stories that have as many before them as it was asked from, one
\* after the other, and leaves none out unless it is full.
LEMMA PageCut ==
  ASSUME NEW q \in Asking
  PROVE  LET list == Listed(q.city)
             page == Page(q)
             lead(s) == Lead(q.city, q.sort, s)
         IN  /\ page \in Seq(list) /\ Len(page) \in 0..PageSize
             /\ \A i \in 1..Len(page) : lead(page[i]) = q.offset + i - 1
             /\ \A s \in list : lead(s) >= q.offset =>
                  \/ \E i \in 1..Len(page) : page[i] = s
                  \/ Len(page) = PageSize /\ lead(s) >= q.offset + Len(page)
<1>. PICK o \in Nat : o = q.offset
  BY DEF Asking
<1> DEFINE S == Listed(q.city)
           R == Order(q.city, q.sort)
           L == Lined(S, R)
           all == Cardinality(S)
           last == IF o + PageSize < all THEN o + PageSize ELSE all
           page == Page(q)
           size == Len(page)
<1>1. q.sort \in Orders /\ PageSize \in Nat \ {0}
  BY DiscoverAssumption DEF Asking
<1>2. IsFiniteSet(S) /\ TotalOrder(S, R)
  BY <1>1, OrderIsTotal
<1>3. /\ all \in Nat /\ L \in [1..all -> S]
      /\ \A n \in 1..all : Cardinality(Ahead(S, R, L[n])) = n - 1
      /\ \A s \in S : \E n \in 1..all : L[n] = s
  BY <1>2, Lining
<1>4. \A s \in S : Lead(q.city, q.sort, s) = Cardinality(Ahead(S, R, s))
  BY DEF Lead
<1>5. page = SubSeq(L, o + 1, last)
  BY DEF Page, Ranked
<1> HIDE DEF S, R, L, all, page
<1>0. all \in Nat
  BY <1>3
<1>6. /\ last \in Nat /\ last <= all /\ last <= o + PageSize
      /\ last = all \/ last = o + PageSize
  BY <1>0, <1>1
<1> HIDE DEF last
<1>7. \A i \in (o + 1)..last : i \in 1..all
  BY <1>0, <1>6
<1>8. /\ page \in Seq(S)
      /\ size = IF o + 1 <= last THEN last - (o + 1) + 1 ELSE 0
      /\ \A i \in 1..(last - (o + 1) + 1) : page[i] = L[o + 1 + i - 1]
  <2>1. o + 1 \in Int /\ last \in Int
    BY <1>1, <1>6
  <2>2. \A i \in (o + 1)..last : L[i] \in S
    BY <1>3, <1>7
  <2>3. /\ SubSeq(L, o + 1, last) \in Seq(S)
        /\ Len(SubSeq(L, o + 1, last)) = IF o + 1 <= last THEN last - (o + 1) + 1 ELSE 0
        /\ \A i \in 1..(last - (o + 1) + 1) : SubSeq(L, o + 1, last)[i] = L[o + 1 + i - 1]
    <3>. PICK m \in Int, n \in Int : m = o + 1 /\ n = last
      BY <2>1
    <3>1. \A i \in m..n : L[i] \in S
      BY <2>2
    <3> QED
      BY <3>1, SubSeqProperties
  <2> QED
    BY <1>5, <2>3, Zenon
<1> HIDE DEF size
<1>9. /\ size \in Nat /\ size <= PageSize
      /\ o + size <= last \/ size = 0
      /\ o + 1 <= last => o + size = last
      /\ size > 0 => o + 1 <= last
  <2>. PICK p \in Nat : p = PageSize
    BY <1>1
  <2>1. last \in Nat /\ last <= o + p
    BY <1>6
  <2>2. CASE o + 1 <= last
    <3>1. size = last - (o + 1) + 1
      BY <1>8, <2>2
    <3> QED
      BY <2>1, <2>2, <3>1
  <2>3. CASE ~(o + 1 <= last)
    <3>1. size = 0
      BY <1>8, <2>3
    <3> QED
      BY <2>1, <2>3, <3>1
  <2> QED
    BY <2>2, <2>3
<1>10. \A i \in 1..size : /\ i \in 1..(last - (o + 1) + 1)
                          /\ o + i \in 1..all /\ o + 1 + i - 1 = o + i
  BY <1>0, <1>6, <1>9
<1>13. \A i \in 1..size : page[i] = L[o + i]
  BY <1>8, <1>10
<1>11. \A i \in 1..size : Lead(q.city, q.sort, page[i]) = o + i - 1
  BY <1>1, <1>3, <1>4, <1>8, <1>10, <1>13
<1>12. ASSUME NEW s \in S, Lead(q.city, q.sort, s) >= o
       PROVE  \/ \E i \in 1..size : page[i] = s
              \/ size = PageSize /\ Lead(q.city, q.sort, s) >= o + size
  <2>1. PICK n \in 1..all : L[n] = s
    BY <1>3
  <2>2. Lead(q.city, q.sort, s) = n - 1
    BY <1>3, <1>4, <2>1
  <2>3. n \in Nat /\ n >= o + 1
    BY <1>1, <1>3, <1>12, <2>2
  <2>4. CASE n <= last
    <3>1. PICK i \in 1..size : n = o + i
      <4>1. n - o \in 1..size
        BY <1>1, <1>6, <1>9, <2>3, <2>4
      <4>2. n = o + (n - o)
        BY <1>1, <2>3
      <4> QED
        BY <4>1, <4>2
    <3> QED
      BY <1>13, <2>1, <3>1
  <2>5. CASE n > last
    <3>1. last = o + PageSize
      BY <1>3, <1>6, <2>3, <2>5
    <3>2. size = PageSize
      BY <1>1, <1>9, <3>1
    <3> QED
      BY <1>1, <2>2, <2>3, <2>5, <3>1, <3>2
  <2> QED
    BY <1>6, <2>3, <2>4, <2>5
<1>14. size \in 0..PageSize
  BY <1>1, <1>9
<1> QED
  BY <1>8, <1>11, <1>12, <1>14 DEF S, page, size
-----------------------------------------------------------------------------
(***************************************************************************)
(* Types                                                                   *)
(***************************************************************************)
IsBag(b) == IsABag(b) /\ DOMAIN b \subseteq Renders

LEMMA RenderNames ==
  /\ At("cities") \in Renders /\ At("sources") \in Renders /\ Asking \subseteq Renders
  /\ \A stage \in {"cities", "sources", "none", "done"} :
       At(stage).at = stage /\ At(stage) \notin Asking
  /\ \A r \in Asking : r.at \in {"first", "more"}
  /\ At("none") \notin Renders /\ At("done") \notin Renders
BY DEF Renders, At, Asking

LEMMA BagUnion2 ==
  ASSUME NEW b, IsBag(b), NEW d, IsBag(d)
  PROVE  IsBag(b (+) d) /\ DOMAIN (b (+) d) = DOMAIN b \cup DOMAIN d
<1>1. b \in [DOMAIN b -> Nat \ {0}] /\ d \in [DOMAIN d -> Nat \ {0}]
  BY DEF IsBag, IsABag
<1> DEFINE sum == b (+) d
<1>2. DOMAIN sum = DOMAIN b \cup DOMAIN d
  BY DEF (+)
<1>3. \A e \in DOMAIN sum : sum[e] \in Nat \ {0}
  <2> SUFFICES ASSUME NEW e \in DOMAIN sum PROVE sum[e] \in Nat \ {0}
    OBVIOUS
  <2>1. sum[e] = (IF e \in DOMAIN b THEN b[e] ELSE 0) + (IF e \in DOMAIN d THEN d[e] ELSE 0)
    BY <1>2 DEF (+)
  <2>2. e \in DOMAIN b => b[e] \in Nat /\ b[e] > 0
    BY <1>1
  <2>3. e \in DOMAIN d => d[e] \in Nat /\ d[e] > 0
    BY <1>1
  <2>4. e \in DOMAIN b \/ e \in DOMAIN d
    BY <1>2
  <2> QED
    BY <2>1, <2>2, <2>3, <2>4
<1>4. sum = [e \in DOMAIN sum |-> sum[e]]
  BY DEF (+)
<1> HIDE DEF sum
<1>5. sum \in [DOMAIN sum -> {n \in Nat : n > 0}]
  BY <1>3, <1>4
<1> QED
  BY <1>2, <1>5 DEF IsBag, IsABag, sum

LEMMA BagLess ==
  ASSUME NEW b, IsBag(b), NEW d, IsABag(d)
  PROVE  IsBag(b (-) d) /\ DOMAIN (b (-) d) \subseteq DOMAIN b
<1> DEFINE left == [e \in DOMAIN b |-> IF e \in DOMAIN d THEN b[e] - d[e] ELSE b[e]]
           rest == [e \in {x \in DOMAIN left : left[x] > 0} |-> left[e]]
<1>1. b (-) d = rest
  BY DEF (-)
<1>2. b \in [DOMAIN b -> Nat] /\ d \in [DOMAIN d -> Nat]
  BY DEF IsBag, IsABag
<1>3. \A e \in DOMAIN left : left[e] \in Int
  BY <1>2
<1>4. \A e \in DOMAIN rest : e \in DOMAIN b /\ rest[e] \in Nat /\ rest[e] > 0
  BY <1>3
<1>5. rest = [e \in DOMAIN rest |-> rest[e]]
  OBVIOUS
<1> HIDE DEF rest
<1>6. rest \in [DOMAIN rest -> {n \in Nat : n > 0}]
  BY <1>4, <1>5
<1> QED
  BY <1>1, <1>4, <1>6 DEF IsBag, IsABag

LEMMA BagOf ==
  ASSUME NEW S \in SUBSET Renders
  PROVE  IsBag(SetToBag(S)) /\ DOMAIN SetToBag(S) = S
BY DEF SetToBag, IsBag, IsABag

LEMMA BagOfNone == IsBag(EmptyBag) /\ DOMAIN EmptyBag = {}
BY BagOf DEF EmptyBag

LEMMA BagOfMany ==
  ASSUME NEW r \in Renders, NEW n \in Nat, n > 0
  PROVE  IsBag(Copies(r, n)) /\ DOMAIN Copies(r, n) = {r}
BY DEF IsBag, IsABag, Copies

LEMMA SwapBag ==
  ASSUME NEW b, IsBag(b), NEW r \in Renders, NEW next \in SUBSET Renders
  PROVE  IsBag(Swap(b, r, next)) /\ DOMAIN Swap(b, r, next) \subseteq DOMAIN b \cup next
<1>1. IsABag(SetToBag({r})) /\ IsBag(SetToBag(next)) /\ DOMAIN SetToBag(next) = next
  BY BagOf DEF IsBag
<1>2. IsBag(b (-) SetToBag({r})) /\ DOMAIN (b (-) SetToBag({r})) \subseteq DOMAIN b
  BY <1>1, BagLess
<1>3. IsBag(b (-) SetToBag({r}) (+) SetToBag(next))
      /\ DOMAIN (b (-) SetToBag({r}) (+) SetToBag(next))
           = DOMAIN (b (-) SetToBag({r})) \cup next
  BY <1>1, <1>2, BagUnion2
<1> QED
  BY <1>2, <1>3 DEF Swap

LEMMA LeftBag ==
  ASSUME PageOK, NEW n \in Nat, NEW r, n > 1 => r \in Renders
  PROVE  /\ IsBag(Left(n, r))
         /\ DOMAIN Left(n, r) = DOMAIN stale \cup (IF UnderWay(top) THEN {top} ELSE {})
                                            \cup (IF n > 1 THEN {r} ELSE {})
<1> DEFINE screen == IF UnderWay(top) THEN SetToBag({top}) ELSE EmptyBag
           others == IF n > 1 THEN Copies(r, n - 1) ELSE EmptyBag
<1>1. IsBag(stale)
  BY DEF PageOK, IsBag
<1>2. IsBag(screen) /\ DOMAIN screen = IF UnderWay(top) THEN {top} ELSE {}
  <2>1. UnderWay(top) => top \in Renders
    BY DEF PageOK, UnderWay, At
  <2> QED
    BY <2>1, BagOf, BagOfNone
<1>3. IsBag(others) /\ DOMAIN others = IF n > 1 THEN {r} ELSE {}
  <2>1. n > 1 => n - 1 \in Nat /\ n - 1 > 0
    OBVIOUS
  <2> QED
    BY <2>1, BagOfMany, BagOfNone
<1> HIDE DEF screen, others
<1>4. IsBag(stale (+) screen) /\ DOMAIN (stale (+) screen) = DOMAIN stale \cup DOMAIN screen
  BY <1>1, <1>2, BagUnion2
<1>5. /\ IsBag(stale (+) screen (+) others)
      /\ DOMAIN (stale (+) screen (+) others) = DOMAIN (stale (+) screen) \cup DOMAIN others
  BY <1>3, <1>4, BagUnion2
<1>6. Left(n, r) = stale (+) screen (+) others
  BY DEF Left, screen, others
<1> QED
  BY <1>2, <1>3, <1>4, <1>5, <1>6

LEMMA ResumedBag ==
  ASSUME NEW b, IsBag(b), NEW stuck \in BOOLEAN
  PROVE  /\ IsBag(Resumed(b, stuck))
         /\ DOMAIN Resumed(b, stuck) \subseteq (DOMAIN b \ {At("cities")}) \cup {At("sources")}
         /\ b = EmptyBag => Resumed(b, stuck) = EmptyBag
<1> DEFINE n == HowMany(At("cities"), b)
           rest == [r \in DOMAIN b \ {At("cities")} |-> b[r]]
<1>1. Resumed(b, stuck) = IF n = 0 \/ stuck THEN rest ELSE rest (+) Copies(At("sources"), n)
  BY DEF Resumed
<1>2. n \in Nat
  BY DEF IsBag, IsABag, HowMany, BagIn, BagToSet
<1>3. IsBag(rest) /\ DOMAIN rest = DOMAIN b \ {At("cities")}
  BY DEF IsBag, IsABag
<1>4. b = EmptyBag => n = 0 /\ rest = EmptyBag
  BY BagOfNone DEF HowMany, BagIn, BagToSet, EmptyBag, SetToBag
<1> HIDE DEF n, rest
<1>5. ASSUME n # 0
      PROVE  /\ IsBag(rest (+) Copies(At("sources"), n))
             /\ DOMAIN (rest (+) Copies(At("sources"), n)) = DOMAIN rest \cup {At("sources")}
  <2>1. IsBag(Copies(At("sources"), n)) /\ DOMAIN Copies(At("sources"), n) = {At("sources")}
    <3>1. n \in Nat /\ n > 0
      BY <1>2, <1>5
    <3>2. At("sources") \in Renders
      BY RenderNames
    <3> QED
      BY <3>1, <3>2, BagOfMany
  <2> QED
    BY <1>3, <2>1, BagUnion2
<1> QED
  BY <1>1, <1>3, <1>4, <1>5

\* Whether a render waits for the city list.
LEMMA WaitingMeans ==
  ASSUME NEW b, IsBag(b), NEW t
  PROVE  LET waiting == HowMany(At("cities"), b) + (IF t = At("cities") THEN 1 ELSE 0)
         IN  /\ waiting \in Nat
             /\ waiting > 0 <=> At("cities") \in DOMAIN b \/ t = At("cities")
<1>1. At("cities") \in DOMAIN b => b[At("cities")] \in Nat /\ b[At("cities")] > 0
  BY DEF IsBag, IsABag
<1> QED
  BY <1>1 DEF HowMany, BagIn, BagToSet

\* #view without a feed, and a feed just painted.
LEMMA ClearedTypes ==
  ASSUME NEW v \in {"nocity", "unavailable", "other"}, Cleared(v), IsBag(stale'), offset' \in Nat
  PROVE  PageOK'
<1>1. /\ view' \in {"feed", "nocity", "unavailable", "other"} /\ view' # "feed"
      /\ status' \in {"none", "loading", "more", "end", "empty", "error"}
      /\ button' \in {"none", "idle", "busy"} \cup Cities
      /\ overlapped' \in BOOLEAN /\ shaken' \in BOOLEAN /\ added' \subseteq Stories
      /\ top' = At("none")
  BY DEF Cleared
<1>2. grid' \in Seq(Stories)
  BY DEF Cleared
<1> QED
  BY <1>1, <1>2 DEF PageOK, IsBag

LEMMA PaintTypes ==
  ASSUME NEW r \in {At("cities"), At("sources")}, Paint(r), IsBag(stale'), offset' \in Nat,
         cooling' \subseteq Cities
  PROVE  PageOK'
<1>1. r \in Renders /\ r # At("none")
  BY RenderNames
<1>2. button' \in {"none", "idle", "busy"} \cup Cities
  BY DEF Paint
<1>3. /\ view' = "feed" /\ status' \in {"none", "loading", "more", "end", "empty", "error"}
      /\ shaken' \in BOOLEAN /\ added' \subseteq Stories /\ top' = r
  BY DEF Paint
<1>4. grid' \in Seq(Stories)
  BY DEF Paint
<1>5. overlapped' \in BOOLEAN
  BY DEF Paint
<1>6. view' = "feed" <=> top' # At("none")
  BY <1>1, <1>3
<1>7. view' \in {"feed", "nocity", "unavailable", "other"}
      /\ top' \in Renders \cup {At("none"), At("done")}
  BY <1>1, <1>3
<1> QED
  BY <1>2, <1>3, <1>4, <1>5, <1>6, <1>7 DEF PageOK, IsBag

\* What the renders that go on once the city list is there make of the page.
LEMMA ProceedPage ==
  ASSUME PageOK, NEW n \in Nat, Proceed(n), cooling' \subseteq Cities
  PROVE  /\ PageOK'
         /\ At("cities") \notin DOMAIN stale' /\ top' # At("cities")
         /\ stale = EmptyBag /\ n = 0 => stale' = EmptyBag
         /\ offset' = IF n > 0 THEN 0 ELSE offset
         /\ \/ \E v \in {"nocity", "unavailable"} : Cleared(v)
            \/ n > 0 /\ Paint(At("sources"))
            \/ /\ n = 0 /\ UNCHANGED <<view, grid, status, button, history>>
               /\ top' = IF top = At("cities") THEN At("sources") ELSE top
<1> DEFINE handle == IF n > 0 THEN 0 ELSE held
           none == loaded' /\ cities' = {}
           stuck == none \/ selected' = NoCity
           bag == IF n > 0 THEN Left(n, At("cities")) ELSE stale
<1>1. IsBag(bag)
  BY LeftBag, RenderNames DEF PageOK, IsBag
<1>2. stuck \in BOOLEAN
  OBVIOUS
<1>3. stale' = Resumed(bag, stuck)
  BY DEF Proceed
<1>4. /\ offset' = IF n > 0 THEN 0 ELSE offset
      /\ IF stuck /\ n + Waiting > 0 THEN Cleared(IF none THEN "nocity" ELSE "unavailable")
         ELSE IF n > 0 THEN Paint(At("sources"))
         ELSE /\ top' = IF top = At("cities") THEN At("sources") ELSE top
              /\ UNCHANGED <<view, grid, status, button, history>>
  BY DEF Proceed, Rewound
<1> HIDE DEF stuck
<1>5. /\ IsBag(stale') /\ At("cities") \notin DOMAIN stale'
      /\ bag = EmptyBag => stale' = EmptyBag
  <2>1. /\ IsBag(Resumed(bag, stuck))
        /\ DOMAIN Resumed(bag, stuck) \subseteq (DOMAIN bag \ {At("cities")}) \cup {At("sources")}
        /\ bag = EmptyBag => Resumed(bag, stuck) = EmptyBag
    BY <1>1, <1>2, ResumedBag
  <2>2. At("cities") # At("sources")
    BY RenderNames
  <2> QED
    BY <1>3, <2>1, <2>2
<1>6. n = 0 => bag = stale
  OBVIOUS
<1>7. offset' \in Nat
  BY <1>4 DEF PageOK
<1>8. \/ \E v \in {"nocity", "unavailable"} : Cleared(v)
      \/ n > 0 /\ Paint(At("sources"))
      \/ /\ n = 0 /\ UNCHANGED <<view, grid, status, button, history>>
         /\ top' = IF top = At("cities") THEN At("sources") ELSE top
  BY <1>4
<1>9. CASE \E v \in {"nocity", "unavailable"} : Cleared(v)
  <2>1. top' = At("none")
    BY <1>9 DEF Cleared
  <2> QED
    BY <1>4, <1>5, <1>6, <1>7, <1>9, <2>1, ClearedTypes, RenderNames
<1>10. CASE n > 0 /\ Paint(At("sources"))
  <2>1. top' = At("sources")
    BY <1>10 DEF Paint
  <2>2. PageOK'
    BY <1>5, <1>7, <1>10, PaintTypes
  <2> QED
    BY <1>4, <1>5, <1>10, <2>1, <2>2, RenderNames
<1>11. CASE /\ n = 0 /\ UNCHANGED <<view, grid, status, button, history>>
            /\ top' = IF top = At("cities") THEN At("sources") ELSE top
  <2>1. top' # At("cities") /\ top' \in Renders \cup {At("none"), At("done")}
        /\ (top' = At("none") <=> top = At("none"))
    BY <1>11, RenderNames DEF PageOK
  <2>2. PageOK'
    BY <1>5, <1>7, <1>11, <2>1 DEF PageOK, IsBag, history
  <2> QED
    BY <1>4, <1>5, <1>6, <1>11, <2>1, <2>2
<1> QED
  BY <1>8, <1>9, <1>10, <1>11

\* What is on the screen, and what may still come to it. Without overlap nothing
\* else counts into the offset, so that a page is asked for from where the cards end;
\* and where the feed is shown either it waits for the city list or a listener will
\* draw it again when the city changes.
ScreenOK ==
  /\ view # "feed" => grid = <<>> /\ status = "none"
  /\ top \in {At("cities"), At("sources")} =>
       grid = <<>> /\ status = "loading" /\ (~overlapped => offset = 0)
  /\ view = "feed" /\ ~overlapped => stale = EmptyBag
  /\ top \in Asking => top.offset <= offset /\ (~overlapped => top.offset = offset)
  /\ hash = "discover" /\ view = "feed" /\ top # At("cities") => held + leaked > 0
  /\ hash = "discover" /\ top \in Asking => top.city = selected /\ top.sort = sort
  /\ ShownCity

LEMMA ProceedTypes ==
  ASSUME TypeOK, NEW n \in Nat, Proceed(n), cooling' \subseteq Cities
  PROVE  PageOK' /\ held' \in 0..1 /\ leaked' \in Nat /\ ~(Waiting' > 0)
<1>1. /\ PageOK' /\ At("cities") \notin DOMAIN stale' /\ top' # At("cities")
  BY ProceedPage DEF TypeOK
<1>2. Waiting \in Nat
  BY WaitingMeans DEF TypeOK, PageOK, IsBag, Waiting
<1>3. ~(Waiting' > 0)
  <2>1. IsBag(stale')
    BY <1>1 DEF PageOK, IsBag
  <2> QED
    BY <1>1, <2>1, WaitingMeans DEF Waiting
<1>4. held' \in 0..1 /\ leaked' \in Nat
  <2>. PICK k \in Nat : k = n + Waiting
    BY <1>2
  <2>. PICK handle \in 0..1 : handle = IF n > 0 THEN 0 ELSE held
    BY DEF TypeOK, CitiesOK
  <2>1. Subscribe(k, handle)
    BY DEF Proceed
  <2> QED
    BY <2>1 DEF Subscribe, TypeOK, CitiesOK
<1> QED
  BY <1>1, <1>3, <1>4

LEMMA BeginTypes ==
  ASSUME TypeOK, NEW n \in Nat, n > 0, Begin(n), cooling' \subseteq Cities
  PROVE  /\ PageOK' /\ held' \in 0..1 /\ leaked' \in Nat
         /\ listing' \in {"none", "sent", "answered"} /\ answer' \subseteq Cities
         /\ Waiting' > 0 => listing' # "none" /\ top'.at \in {"cities", "none"}
<1>1. CASE loaded'
  <2>1. Proceed(n) /\ UNCHANGED <<listing, answer>>
    BY <1>1 DEF Begin
  <2> QED
    BY <2>1, ProceedTypes DEF TypeOK, CitiesOK
<1>2. CASE ~loaded'
  <2>1. /\ stale' = Left(n, At("cities")) /\ offset' = 0 /\ Paint(At("cities"))
        /\ held' = 0 /\ leaked' = leaked /\ listing' = Shared /\ answer' = answer
    BY <1>2 DEF Begin, Rewound
  <2>2. IsBag(stale')
    BY <2>1, LeftBag, RenderNames DEF TypeOK
  <2>3. PageOK'
    BY <2>1, <2>2, PaintTypes
  <2>4. listing' \in {"sent", "answered"}
    BY <2>1 DEF Shared, TypeOK, CitiesOK
  <2>5. top'.at = "cities"
    BY <2>1, RenderNames DEF Paint
  <2> QED
    BY <2>1, <2>3, <2>4, <2>5 DEF TypeOK, CitiesOK
<1> QED
  BY <1>1, <1>2

\* What Proceed and Begin leave to show of the types.
Rest ==
  /\ row \in [Stories -> {"absent", "unjudged", "news", "junk", "old"}]
  /\ live \subseteq Cities /\ cities \subseteq Cities /\ loaded \in BOOLEAN
  /\ selected \in Cities \cup {NoCity}
  /\ hash \in {"discover", "other"} /\ sort \in Orders
  /\ cooling \subseteq Cities /\ polling \in [Cities -> Nat]
  /\ events \in 0..MaxEvents

LEMMA BegunTypes ==
  ASSUME TypeOK, NEW n \in Nat, n > 0, Begin(n), Rest'
  PROVE  TypeOK'
BY BeginTypes DEF TypeOK, CitiesOK, Rest

LEMMA EventType ==
  ASSUME TypeOK, Event
  PROVE  events' \in 0..MaxEvents
BY DiscoverAssumption DEF TypeOK, Event

\* The list of cities, and what waits for it.
LEMMA ListTypes ==
  ASSUME TypeOK, ListStep
  PROVE  TypeOK'
<1>1. CASE ServeCities
  BY <1>1 DEF ServeCities, TypeOK, CitiesOK, PageOK, pageVars, history, Waiting
<1>2. CASE CitiesLoaded
  <2>1. Woken(hash) \in Nat
    BY DEF Woken, TypeOK, CitiesOK
  <2>2. /\ Proceed(Woken(hash)) /\ cooling' = cooling
        /\ UNCHANGED <<row, live, hash, sort, cooling, polling, events>>
        /\ cities' = answer /\ loaded' = TRUE /\ listing' = "none" /\ answer' = {}
        /\ selected' = IF selected \in answer THEN selected
                       ELSE IF answer = {} THEN NoCity ELSE CHOOSE c \in answer : TRUE
    BY <1>2 DEF CitiesLoaded
  <2>3. PageOK' /\ held' \in 0..1 /\ leaked' \in Nat /\ ~(Waiting' > 0)
    BY <2>1, <2>2, ProceedTypes DEF TypeOK
  <2>4. selected' \in Cities \cup {NoCity}
    BY <2>2 DEF TypeOK, CitiesOK
  <2> QED
    BY <2>2, <2>3, <2>4 DEF TypeOK, CitiesOK
<1>3. CASE CitiesFail
  <2>1. /\ Proceed(0) /\ Event /\ listing' = "none" /\ answer' = {}
        /\ UNCHANGED <<row, live, cities, loaded, selected, hash, sort, cooling, polling>>
    BY <1>3 DEF CitiesFail
  <2>2. PageOK' /\ held' \in 0..1 /\ leaked' \in Nat /\ ~(Waiting' > 0)
    BY <2>1, ProceedTypes DEF TypeOK
  <2> QED
    BY <2>1, <2>2, EventType DEF TypeOK, CitiesOK
<1> QED
  BY <1>1, <1>2, <1>3 DEF ListStep

\* A render on the screen.
LEMMA TopTypes ==
  ASSUME TypeOK, ScreenOK, TopStep \/ LoadMore
  PROVE  TypeOK'
<1>1. \A stage \in {"first", "more"} : Asked(stage) \in Asking
  BY DEF Asked, Asking, TypeOK, CitiesOK, PageOK
<1>2. CASE SourcesLoaded
  <2>1. top = At("sources") /\ top' \in Asking /\ view = "feed"
    BY <1>1, <1>2, RenderNames DEF SourcesLoaded, TypeOK, PageOK
  <2>2. ~(Waiting > 0) /\ ~(Waiting' > 0)
    <3>1. ~(Waiting > 0)
      BY <2>1, RenderNames DEF TypeOK
    <3> QED
      BY <1>2, <2>1, <3>1, RenderNames DEF Waiting, SourcesLoaded
  <2> QED
    BY <1>2, <2>1, <2>2, RenderNames
    DEF SourcesLoaded, TypeOK, CitiesOK, PageOK, cityVars, history
<1>3. CASE PageLoaded
  <2>1. top \in Asking /\ top' = At("done")
    BY <1>3 DEF PageLoaded
  <2>2. /\ offset' = offset + Len(Page(top)) /\ grid' = grid \o Page(top)
        /\ status' \in {"more", "end", "empty"}
    BY <1>3 DEF PageLoaded, Below
  <2>3. Page(top) \in Seq(Stories) /\ Len(Page(top)) \in Nat
    <3>1. Page(top) \in Seq(Listed(top.city))
      BY <2>1, PageCut
    <3>2. Listed(top.city) \subseteq Stories
      BY DEF Listed
    <3> QED
      BY <3>1, <3>2
  <2>4. offset' \in Nat /\ grid' \in Seq(Stories)
    BY <2>2, <2>3 DEF TypeOK, PageOK
  <2>5. ~(Waiting > 0) /\ ~(Waiting' > 0)
    <3>1. ~(Waiting > 0)
      BY <2>1, RenderNames DEF TypeOK
    <3> QED
      BY <1>3, <2>1, <3>1, RenderNames DEF Waiting, PageLoaded
  <2> QED
    BY <1>3, <2>1, <2>2, <2>4, <2>5, RenderNames
    DEF PageLoaded, TypeOK, CitiesOK, PageOK, cityVars, history
<1>4. CASE PageFails
  <2>1. top \in Asking /\ top' = At("done") /\ events' \in 0..MaxEvents
    BY <1>4, EventType DEF PageFails, Refused, TypeOK
  <2>2. ~(Waiting > 0) /\ ~(Waiting' > 0)
    <3>1. ~(Waiting > 0)
      BY <2>1, RenderNames DEF TypeOK
    <3> QED
      BY <1>4, <2>1, <3>1, RenderNames DEF Waiting, PageFails
  <2> QED
    BY <1>4, <2>1, <2>2, RenderNames
    DEF PageFails, TypeOK, CitiesOK, PageOK, cityVars, history
<1>5. CASE LoadMore
  <2>1. /\ status = "more" /\ top' \in Asking /\ events' \in 0..MaxEvents
    BY <1>1, <1>5, EventType DEF LoadMore
  <2>2. view = "feed" /\ top \notin {At("cities"), At("sources"), At("none")}
    BY <2>1 DEF ScreenOK, TypeOK, PageOK
  <2>3. ~(Waiting > 0) /\ ~(Waiting' > 0)
    <3>1. top.at \notin {"cities", "none"}
      BY <2>2, RenderNames DEF TypeOK, PageOK, Renders
    <3>2. ~(Waiting > 0)
      BY <3>1 DEF TypeOK
    <3> QED
      BY <1>5, <2>1, <2>2, <3>2, RenderNames DEF Waiting, LoadMore
  <2> QED
    BY <1>5, <2>1, <2>2, <2>3, RenderNames
    DEF LoadMore, TypeOK, CitiesOK, PageOK, cityVars, history
<1> QED
  BY <1>2, <1>3, <1>4, <1>5 DEF TopStep

\* Renders left behind do not come to wait for the list again.
LEMMA StaleTypes ==
  ASSUME TypeOK, StaleStep
  PROVE  TypeOK'
<1> DEFINE moves(r, next) ==
             /\ stale' = Swap(stale, r, next)
             /\ r # At("cities")
             /\ UNCHANGED <<row, live, cityVars, hash, view, top, grid, status, button,
                            sort, cooling, polling, history>>
             /\ offset' \in Nat /\ events' \in 0..MaxEvents
<1>1. \E r \in DOMAIN stale, next \in SUBSET Asking : moves(r, next)
  <2>1. CASE StaleSourcesLoaded
    <3>1. Asked("first") \in Asking
      BY DEF Asked, Asking, TypeOK, CitiesOK, PageOK
    <3> QED
      BY <2>1, <3>1, RenderNames DEF StaleSourcesLoaded, BagIn, BagToSet, TypeOK, PageOK
  <2>2. ASSUME NEW r \in DOMAIN stale, StalePageLoaded(r) \/ StalePageFails(r) PROVE moves(r, {})
    <3>1. r \in Asking /\ r # At("cities")
      BY <2>2, RenderNames DEF StalePageLoaded, StalePageFails, Refused
    <3>2. Len(Page(r)) \in Nat
      BY <3>1, PageCut
    <3>3. offset' \in Nat /\ events' \in 0..MaxEvents
      BY <2>2, <3>2, EventType DEF StalePageLoaded, StalePageFails, Refused, TypeOK, PageOK
    <3> QED
      BY <2>2, <3>1, <3>3 DEF StalePageLoaded, StalePageFails
  <2> QED
    <3>1. {} \in SUBSET Asking
      OBVIOUS
    <3> QED
      BY <2>1, <2>2, <3>1 DEF StaleStep
<1>2. PICK r \in DOMAIN stale, next \in SUBSET Asking : moves(r, next)
  BY <1>1
<1>3. IsBag(stale)
  BY DEF TypeOK, PageOK, IsBag
<1>4. r \in Renders /\ next \in SUBSET Renders
  BY <1>3, RenderNames DEF IsBag
<1>5. IsBag(stale') /\ DOMAIN stale' \subseteq DOMAIN stale \cup next
  BY <1>2, <1>3, <1>4, SwapBag
<1>6. Waiting' > 0 => Waiting > 0
  <2>1. At("cities") \in DOMAIN stale' => At("cities") \in DOMAIN stale
    BY <1>5, RenderNames
  <2>2. Waiting > 0 <=> At("cities") \in DOMAIN stale \/ top = At("cities")
    BY <1>3, WaitingMeans DEF Waiting
  <2>3. Waiting' > 0 <=> At("cities") \in DOMAIN stale' \/ top' = At("cities")
    BY <1>5, WaitingMeans DEF Waiting
  <2> QED
    BY <1>2, <2>1, <2>2, <2>3
<1> QED
  BY <1>2, <1>5, <1>6 DEF TypeOK, CitiesOK, PageOK, IsBag, cityVars, history

\* The editor, and what happens on the server.
LEMMA EditorTypes ==
  ASSUME TypeOK, NEW c,
         \/ OpenDiscover \/ OpenOther \/ ToggleSort \/ TryAgain \/ Refresh
         \/ c \in Cities /\ (PickCity(c) \/ Refreshed(c) \/ CooledDown(c) \/ Archive(c))
  PROVE  TypeOK'
<1>. USE DEF TypeOK, CitiesOK, Rest
<1>1. CASE OpenDiscover
  BY <1>1, BegunTypes, EventType DEF OpenDiscover
<1>2. CASE OpenOther
  <2>1. /\ Cleared("other") /\ stale' = Left(0, top) /\ Event
        /\ hash' = "other" /\ UNCHANGED <<row, live, cityVars, offset, sort, cooling, polling>>
    BY <1>2 DEF OpenOther
  <2>2. IsBag(stale') /\ DOMAIN stale' = DOMAIN stale \cup (IF UnderWay(top) THEN {top} ELSE {})
    <3>1. PageOK /\ ~(0 > 1)
      OBVIOUS
    <3>2. /\ IsBag(Left(0, top))
          /\ DOMAIN Left(0, top) = DOMAIN stale \cup (IF UnderWay(top) THEN {top} ELSE {})
      BY <3>1, LeftBag
    <3> QED
      BY <2>1, <3>2
  <2>3. PageOK'
    BY <2>1, <2>2, ClearedTypes DEF PageOK
  <2>4. top' = At("none") /\ top'.at = "none"
    BY <2>1, RenderNames DEF Cleared
  <2>5. Waiting' > 0 => Waiting > 0
    <3>1. IsBag(stale)
      BY DEF PageOK, IsBag
    <3>2. Waiting > 0 <=> At("cities") \in DOMAIN stale \/ top = At("cities")
      BY <3>1, WaitingMeans DEF Waiting
    <3>3. Waiting' > 0 <=> At("cities") \in DOMAIN stale' \/ top' = At("cities")
      BY <2>2, WaitingMeans DEF Waiting
    <3> QED
      BY <2>2, <2>4, <3>2, <3>3, RenderNames
  <2> QED
    BY <2>1, <2>3, <2>4, <2>5, EventType DEF cityVars
<1>3. CASE ToggleSort
  BY <1>3, BegunTypes, EventType DEF ToggleSort
<1>4. CASE TryAgain
  <2>1. loaded' \in BOOLEAN
    BY <1>4, Zenon DEF TryAgain
  <2>2. /\ Begin(1) /\ Event
        /\ UNCHANGED <<row, live, cities, selected, hash, sort, cooling, polling>>
    BY <1>4 DEF TryAgain
  <2> QED
    BY <2>1, <2>2, BegunTypes, EventType
<1>5. CASE Refresh
  <2>1. CASE selected = NoCity
    BY <1>5, <2>1, BegunTypes, EventType DEF Refresh
  <2>2. CASE selected # NoCity
    <3>1. /\ button' = "busy" /\ events' \in 0..MaxEvents
          /\ polling' = [polling EXCEPT ![selected] = @ + 1]
          /\ UNCHANGED <<row, live, hash, sort, cityVars, view, top, stale, offset, grid,
                         status, cooling, history>>
      BY <1>5, <2>2, EventType DEF Refresh
    <3>2. polling' \in [Cities -> Nat]
      BY <2>2, <3>1
    <3> QED
      BY <3>1, <3>2 DEF PageOK, Waiting, cityVars, history
  <2> QED
    BY <2>1, <2>2
<1>6. CASE c \in Cities /\ PickCity(c)
  <2>1. CASE Woken(hash) > 0
    <3>1. Woken(hash) \in Nat
      BY DEF Woken
    <3> QED
      BY <1>6, <2>1, <3>1, BegunTypes, EventType DEF PickCity
  <2>2. CASE ~(Woken(hash) > 0)
    BY <1>6, <2>2, EventType DEF PickCity, PageOK, Waiting, pageVars, history
  <2> QED
    BY <2>1, <2>2
<1>7. CASE c \in Cities /\ Refreshed(c)
  <2>1. polling' \in [Cities -> Nat]
    BY <1>7 DEF Refreshed
  <2> QED
    BY <1>7, <2>1, BegunTypes DEF Refreshed
<1>8. CASE c \in Cities /\ CooledDown(c)
  BY <1>8 DEF CooledDown, PageOK, Waiting, cityVars, history
<1>9. CASE c \in Cities /\ Archive(c)
  <2>1. loaded' \in BOOLEAN
    BY <1>9, Zenon DEF Archive
  <2> QED
    BY <1>9, <2>1, EventType DEF Archive, PageOK, Waiting, pageVars, history
<1> QED
  BY <1>1, <1>2, <1>3, <1>4, <1>5, <1>6, <1>7, <1>8, <1>9

LEMMA ServerTypes ==
  ASSUME TypeOK, NEW s \in Stories, NEW v \in {"unjudged", "news", "junk", "old"}, Changed(s, v)
  PROVE  TypeOK'
<1>1. /\ row' \in [Stories -> {"absent", "unjudged", "news", "junk", "old"}]
      /\ shaken' \in BOOLEAN /\ added' \subseteq Stories /\ events' \in 0..MaxEvents
  BY EventType DEF Changed, Admitted, TypeOK, PageOK
<1> QED
  BY <1>1 DEF Changed, TypeOK, CitiesOK, PageOK, Waiting, cityVars, pageVars

LEMMA TypeStep ==
  TypeOK /\ ScreenOK /\ [Next]_vars => TypeOK'
<1> SUFFICES ASSUME TypeOK, ScreenOK, [Next]_vars PROVE TypeOK'
  OBVIOUS
<1>1. CASE ListStep
  BY <1>1, ListTypes
<1>2. CASE TopStep \/ LoadMore
  BY <1>2, TopTypes
<1>3. CASE StaleStep
  BY <1>3, StaleTypes
<1>4. CASE OpenDiscover \/ OpenOther \/ ToggleSort \/ TryAgain \/ Refresh
  BY <1>4, EditorTypes
<1>5. ASSUME NEW c \in Cities, PickCity(c) \/ Refreshed(c) \/ CooledDown(c) \/ Archive(c)
      PROVE  TypeOK'
  BY <1>5, EditorTypes
<1>6. ASSUME NEW s \in Stories, Arrives(s) \/ Judges(s) \/ Ages(s)
      PROVE  TypeOK'
  <2>1. \E v \in {"unjudged", "news", "junk", "old"} : Changed(s, v)
    BY <1>6 DEF Arrives, Judges, Ages
  <2> QED
    BY <2>1, ServerTypes
<1>7. CASE UNCHANGED vars
  BY <1>7 DEF vars, cityVars, pageVars, history, TypeOK, CitiesOK, PageOK, Waiting
<1> QED
  BY <1>1, <1>2, <1>3, <1>4, <1>5, <1>6, <1>7 DEF Next

-----------------------------------------------------------------------------
\* What is on the screen. A step that begins a render, or leaves the feed, leaves
\* no card and no answer behind.
Fresh ==
  /\ grid' = <<>> /\ shaken' = FALSE /\ added' = {} /\ row' = row
  /\ \/ view' # "feed" /\ top' = At("none") /\ status' = "none"
     \/ /\ view' = "feed" /\ top' \in {At("cities"), At("sources")}
        /\ status' = "loading" /\ offset' = 0
        /\ overlapped' = (stale' # EmptyBag)

\* The listener of the feed, once its render has the city list.
Listening == hash = "discover" /\ view = "feed" /\ top # At("cities") => held + leaked > 0

LEMMA ClearedFresh ==
  ASSUME NEW v, v # "feed", Cleared(v), row' = row
  PROVE  Fresh /\ Listening'
BY DEF Fresh, Cleared, Listening

LEMMA PaintFresh ==
  ASSUME NEW r \in {At("cities"), At("sources")}, Paint(r), offset' = 0, row' = row
  PROVE  Fresh
BY DEF Fresh, Paint

LEMMA ProceedListens ==
  ASSUME TypeOK, NEW n \in Nat, Proceed(n), n + Waiting > 0
  PROVE  held' + leaked' > 0
<1>0. Waiting \in Nat
  BY WaitingMeans DEF TypeOK, PageOK, IsBag, Waiting
<1>1. PICK k \in Nat : k = n + Waiting
  BY <1>0
<1>2. PICK handle \in 0..1 : handle = IF n > 0 THEN 0 ELSE held
  BY DEF TypeOK, CitiesOK
<1>3. Subscribe(k, handle) /\ k > 0
  BY <1>1, <1>2 DEF Proceed
<1> QED
  BY <1>3 DEF Subscribe, TypeOK, CitiesOK

LEMMA BeginFresh ==
  ASSUME TypeOK, NEW n \in Nat, n > 0, Begin(n), cooling' \subseteq Cities, row' = row
  PROVE  Fresh /\ Listening'
<1>1. CASE loaded'
  <2>1. Proceed(n)
    BY <1>1 DEF Begin
  <2>2. \/ \E v \in {"nocity", "unavailable"} : Cleared(v)
        \/ Paint(At("sources")) /\ offset' = 0
    BY <2>1, ProceedPage DEF TypeOK
  <2>3. held' + leaked' > 0
    <3>0. Waiting \in Nat
      BY WaitingMeans DEF TypeOK, PageOK, IsBag, Waiting
    <3>1. n + Waiting > 0
      BY <3>0
    <3> QED
      BY <2>1, <3>1, ProceedListens
  <2> QED
    BY <2>2, <2>3, ClearedFresh, PaintFresh DEF Listening
<1>2. CASE ~loaded'
  <2>1. Paint(At("cities")) /\ offset' = 0
    BY <1>2 DEF Begin, Rewound
  <2>2. top' = At("cities")
    BY <2>1 DEF Paint
  <2> QED
    BY <2>1, <2>2, PaintFresh DEF Listening
<1> QED
  BY <1>1, <1>2

\* A step that begins no render leaves the cards, and may change the city only
\* where nobody listens.
Kept ==
  /\ UNCHANGED <<row, view, grid, status, offset, history, hash, sort>>
  /\ top' = top \/ (top = At("cities") /\ top' = At("sources"))
  /\ stale = EmptyBag => stale' = EmptyBag
  /\ selected' # selected => hash # "discover" \/ held + leaked = 0

LEMMA ListScreen ==
  ASSUME TypeOK, ScreenOK, CitiesLoaded \/ CitiesFail
  PROVE  Listening' /\ (Fresh \/ Kept)
<1>1. \E n \in Nat :
        /\ Proceed(n) /\ (n > 0 => hash = "discover") /\ cooling' = cooling
        /\ UNCHANGED <<row, hash, sort>>
        /\ n = 0 /\ selected' # selected => hash # "discover" \/ held + leaked = 0
  <2>1. CASE CitiesLoaded
    <3>1. PICK n \in Nat : n = Woken(hash)
      BY DEF Woken, TypeOK, CitiesOK
    <3>2. (n > 0 => hash = "discover") /\ (n = 0 => hash # "discover" \/ held + leaked = 0)
      BY <3>1 DEF Woken, TypeOK, CitiesOK
    <3>3. Proceed(n) /\ cooling' = cooling /\ UNCHANGED <<row, hash, sort>>
      BY <2>1, <3>1 DEF CitiesLoaded
    <3> QED
      BY <3>2, <3>3
  <2>2. CASE CitiesFail
    BY <2>2 DEF CitiesFail
  <2> QED
    BY <2>1, <2>2
<1>2. PICK n \in Nat :
        /\ Proceed(n) /\ (n > 0 => hash = "discover") /\ cooling' = cooling
        /\ UNCHANGED <<row, hash, sort>>
        /\ n = 0 /\ selected' # selected => hash # "discover" \/ held + leaked = 0
  BY <1>1
<1>3. /\ stale = EmptyBag /\ n = 0 => stale' = EmptyBag
      /\ offset' = IF n > 0 THEN 0 ELSE offset
      /\ \/ \E v \in {"nocity", "unavailable"} : Cleared(v)
         \/ n > 0 /\ Paint(At("sources"))
         \/ /\ n = 0 /\ UNCHANGED <<view, grid, status, button, history>>
            /\ top' = IF top = At("cities") THEN At("sources") ELSE top
  <2>1. cooling' \subseteq Cities
    BY <1>2 DEF TypeOK
  <2> QED
    BY <1>2, <2>1, ProceedPage DEF TypeOK
<1>4. Waiting \in Nat /\ (Waiting > 0 <=> At("cities") \in DOMAIN stale \/ top = At("cities"))
  BY WaitingMeans DEF TypeOK, PageOK, IsBag, Waiting
<1>5. CASE \E v \in {"nocity", "unavailable"} : Cleared(v)
  BY <1>2, <1>5, ClearedFresh
<1>6. CASE n > 0 /\ Paint(At("sources"))
  <2>1. n + Waiting > 0
    BY <1>4, <1>6
  <2>2. held' + leaked' > 0
    BY <1>2, <2>1, ProceedListens
  <2> QED
    BY <1>2, <1>3, <1>6, <2>2, PaintFresh DEF Listening
<1>7. CASE /\ n = 0 /\ UNCHANGED <<view, grid, status, button, history>>
           /\ top' = IF top = At("cities") THEN At("sources") ELSE top
  <2>1. Kept
    BY <1>2, <1>3, <1>7 DEF Kept, history
  <2>2. CASE Waiting > 0
    <3>1. n + Waiting > 0
      BY <1>4, <1>7, <2>2
    <3> QED
      BY <1>2, <2>1, <3>1, ProceedListens DEF Listening
  <2>3. CASE ~(Waiting > 0)
    <3>1. PICK handle \in 0..1 : handle = held
      BY DEF TypeOK, CitiesOK
    <3>2. n + Waiting = 0
      BY <1>4, <1>7, <2>3
    <3>3. held' = held /\ leaked' = leaked
      BY <1>2, <1>7, <3>2 DEF Proceed, Subscribe
    <3>4. top' = top
      BY <1>4, <1>7, <2>3
    <3> QED
      BY <1>2, <1>7, <2>1, <3>3, <3>4 DEF Listening, ScreenOK
  <2> QED
    BY <2>1, <2>2, <2>3
<1> QED
  BY <1>3, <1>5, <1>6, <1>7

LEMMA FreshScreen ==
  ASSUME Fresh, Listening'
  PROVE  ScreenOK'
<1>1. \A s \in Shown' : FALSE
  BY DEF Fresh, Shown
<1>2. ShownCity'
  BY <1>1 DEF ShownCity
<1> QED
  BY <1>2, RenderNames DEF Fresh, ScreenOK, Listening

LEMMA KeptScreen ==
  ASSUME TypeOK, ScreenOK, Kept, Listening'
  PROVE  ScreenOK'
<1>1. Shown' = Shown
  BY DEF Shown, Kept
<1>2. CASE selected' = selected
  BY <1>1, <1>2, RenderNames DEF Kept, ScreenOK, ShownCity, Listening, history
<1>3. CASE selected' # selected /\ hash = "discover"
  <2>1. view # "feed" \/ top = At("cities")
    BY <1>3 DEF Kept, ScreenOK, TypeOK, CitiesOK
  <2>2. grid' = <<>> /\ top' \notin Asking
        /\ (view' = "feed" => top' \in {At("cities"), At("sources")})
    BY <2>1, RenderNames DEF Kept, ScreenOK, TypeOK, PageOK
  <2>3. \A s \in Shown' : FALSE
    BY <2>2 DEF Shown
  <2>4. ShownCity'
    BY <2>3 DEF ShownCity
  <2> QED
    BY <2>2, <2>4, RenderNames DEF Kept, ScreenOK, Listening, history
<1>4. CASE hash # "discover"
  BY <1>1, <1>4, RenderNames DEF Kept, ScreenOK, ShownCity, Listening, history
<1> QED
  BY <1>2, <1>3, <1>4

\* The steps of the page on the screen, of those left behind, and of the editor.
LEMMA TopScreen ==
  ASSUME TypeOK, ScreenOK, TopStep \/ LoadMore
  PROVE  ScreenOK'
<1>1. CASE SourcesLoaded
  <2>1. /\ top = At("sources") /\ top' = Asked("first") /\ top' \in Asking
        /\ UNCHANGED <<cityVars, hash, view, stale, offset, grid, status, sort, history>>
    BY <1>1 DEF SourcesLoaded, Asked, Asking, TypeOK, CitiesOK, PageOK
  <2>2. top'.city = selected /\ top'.sort = sort /\ top'.offset = offset
    BY <2>1 DEF Asked
  <2>3. ShownCity'
    BY <2>1 DEF ScreenOK, ShownCity, Shown, cityVars
  <2> QED
    BY <2>1, <2>2, <2>3, RenderNames DEF ScreenOK, TypeOK, PageOK, cityVars, history
<1>2. CASE PageLoaded
  <2>1. /\ top \in Asking /\ top' = At("done") /\ grid' = grid \o Page(top)
        /\ UNCHANGED <<cityVars, hash, view, stale, sort, history>>
    BY <1>2 DEF PageLoaded
  <2>2. Page(top) \in Seq(Listed(top.city)) /\ grid \in Seq(Stories)
    BY <2>1, PageCut DEF TypeOK, PageOK
  <2>3. \A i \in DOMAIN grid' : \/ grid'[i] \in Listed(top.city)
                                \/ \E j \in DOMAIN grid : grid'[i] = grid[j]
    BY <2>1, <2>2
  <2>4. ShownCity'
    <3> SUFFICES ASSUME hash' = "discover", NEW i \in DOMAIN grid'
                 PROVE  CityOf[grid'[i]] = selected'
      BY DEF ShownCity, Shown
    <3>1. top.city = selected /\ selected' = selected /\ hash = "discover"
      BY <2>1 DEF ScreenOK, cityVars
    <3>2. \A j \in DOMAIN grid : CityOf[grid[j]] = selected
      BY <3>1 DEF ScreenOK, ShownCity, Shown
    <3> QED
      BY <2>3, <3>1, <3>2 DEF Listed
  <2>5. view = "feed" /\ top # At("cities")
    BY <2>1, RenderNames DEF TypeOK, PageOK
  <2> QED
    BY <2>1, <2>4, <2>5, RenderNames DEF ScreenOK, cityVars, history
<1>3. CASE PageFails
  <2>1. /\ top \in Asking /\ top' = At("done")
        /\ UNCHANGED <<cityVars, hash, view, stale, grid, sort, history>>
    BY <1>3 DEF PageFails, Refused
  <2>2. ShownCity'
    BY <2>1 DEF ScreenOK, ShownCity, Shown, cityVars
  <2>3. view = "feed" /\ top # At("cities")
    BY <2>1, RenderNames DEF TypeOK, PageOK
  <2> QED
    BY <2>1, <2>2, <2>3, RenderNames DEF ScreenOK, cityVars, history
<1>4. CASE LoadMore
  <2>1. /\ status = "more" /\ top' = Asked("more") /\ top' \in Asking
        /\ UNCHANGED <<cityVars, hash, view, stale, offset, grid, sort, history>>
    BY <1>4 DEF LoadMore, Asked, Asking, TypeOK, CitiesOK, PageOK
  <2>2. top'.city = selected /\ top'.sort = sort /\ top'.offset = offset
    BY <2>1 DEF Asked
  <2>3. ShownCity'
    BY <2>1 DEF ScreenOK, ShownCity, Shown, cityVars
  <2>4. view = "feed" /\ top # At("cities")
    BY <2>1 DEF ScreenOK
  <2> QED
    BY <2>1, <2>2, <2>3, <2>4, RenderNames DEF ScreenOK, TypeOK, PageOK, cityVars, history
<1> QED
  BY <1>1, <1>2, <1>3, <1>4 DEF TopStep

LEMMA StaleScreen ==
  ASSUME TypeOK, ScreenOK, StaleStep
  PROVE  /\ ScreenOK'
         /\ UNCHANGED <<row, cityVars, hash, view, top, grid, status, sort, history>>
         /\ stale # EmptyBag /\ offset <= offset' /\ offset' \in Nat
<1>1. /\ UNCHANGED <<row, cityVars, hash, view, top, grid, status, sort, history>>
      /\ stale # EmptyBag /\ offset <= offset' /\ offset' \in Nat
  <2>1. CASE StaleSourcesLoaded
    <3>1. At("sources") \in DOMAIN stale
      BY <2>1 DEF StaleSourcesLoaded, BagIn, BagToSet
    <3> QED
      BY <2>1, <3>1, BagOfNone DEF StaleSourcesLoaded, TypeOK, PageOK
  <2>2. ASSUME NEW r \in DOMAIN stale, StalePageLoaded(r) \/ StalePageFails(r)
        PROVE <1>1
    <3>1. r \in Asking
      BY <2>2 DEF StalePageLoaded, StalePageFails, Refused
    <3>2. Len(Page(r)) \in Nat
      BY <3>1, PageCut
    <3> QED
      BY <2>2, <3>2, BagOfNone DEF StalePageLoaded, StalePageFails, TypeOK, PageOK
  <2> QED
    BY <2>1, <2>2 DEF StaleStep
<1>2. view = "feed" => overlapped
  BY <1>1 DEF ScreenOK
<1>3. Shown' = Shown
  BY <1>1 DEF Shown
<1>4. top \in {At("cities"), At("sources")} \cup Asking => view = "feed"
  BY RenderNames DEF TypeOK, PageOK
<1>5. top \in Asking => top.offset \in Nat /\ offset \in Nat
  BY DEF Asking, TypeOK, PageOK
<1>6. ScreenOK'
  BY <1>1, <1>2, <1>3, <1>4, <1>5 DEF ScreenOK, ShownCity, cityVars, history
<1> QED
  BY <1>1, <1>6

\* A story comes in, is judged, or ages out.
Turns(s, v) ==
  /\ Changed(s, v)
  /\ \/ row[s] = "absent" /\ v = "unjudged"
     \/ row[s] = "unjudged" /\ v \in {"news", "junk"}
     \/ v = "old"

\* What a step can be, to the screen.
LEMMA StepKinds ==
  ASSUME TypeOK, ScreenOK, [Next]_vars
  PROVE  \/ (Fresh \/ Kept) /\ Listening'
         \/ TopStep \/ LoadMore
         \/ StaleStep
         \/ \E s \in Stories, v \in {"unjudged", "news", "junk", "old"} : Turns(s, v)
<1> DEFINE quiet == UNCHANGED <<row, view, grid, status, offset, history, hash, sort, top,
                               stale, selected, held, leaked>>
<1>1. ASSUME quiet PROVE Kept /\ Listening'
  BY <1>1 DEF Kept, Listening, ScreenOK
<1>2. CASE ListStep
  <2>1. CASE ServeCities
    BY <1>1, <2>1 DEF ServeCities, pageVars, history
  <2> QED
    BY <1>2, <2>1, ListScreen DEF ListStep
<1>3. CASE OpenDiscover \/ ToggleSort \/ TryAgain
  BY <1>3, BeginFresh DEF OpenDiscover, ToggleSort, TryAgain, TypeOK
<1>4. CASE OpenOther
  BY <1>4, ClearedFresh DEF OpenOther
<1>5. CASE Refresh
  <2>1. CASE selected = NoCity
    BY <1>5, <2>1, BeginFresh DEF Refresh, TypeOK
  <2>2. CASE selected # NoCity
    BY <1>1, <1>5, <2>2 DEF Refresh, cityVars, history
  <2> QED
    BY <2>1, <2>2
<1>6. ASSUME NEW c \in Cities, PickCity(c) PROVE (Fresh \/ Kept) /\ Listening'
  <2>1. CASE Woken(hash) > 0
    <3>1. Woken(hash) \in Nat
      BY DEF Woken, TypeOK, CitiesOK
    <3> QED
      BY <1>6, <2>1, <3>1, BeginFresh DEF PickCity, TypeOK
  <2>2. CASE ~(Woken(hash) > 0)
    <3>1. UNCHANGED <<row, held, leaked, pageVars, history, hash, sort>>
      BY <1>6, <2>2 DEF PickCity
    <3>2. hash # "discover" \/ held + leaked = 0
      BY <2>2 DEF Woken, TypeOK, CitiesOK
    <3> QED
      BY <3>1, <3>2 DEF Kept, Listening, ScreenOK, pageVars, history
  <2> QED
    BY <2>1, <2>2
<1>7. ASSUME NEW c \in Cities, Refreshed(c) PROVE Fresh /\ Listening'
  BY <1>7, BeginFresh DEF Refreshed, TypeOK
<1>8. ASSUME NEW c \in Cities, CooledDown(c) \/ Archive(c) PROVE Kept /\ Listening'
  BY <1>1, <1>8 DEF CooledDown, Archive, cityVars, pageVars, history
<1>9. ASSUME NEW s \in Stories, Arrives(s) \/ Judges(s) \/ Ages(s)
      PROVE  \E v \in {"unjudged", "news", "junk", "old"} : Turns(s, v)
  BY <1>9 DEF Arrives, Judges, Ages, Turns
<1>10. CASE UNCHANGED vars
  BY <1>1, <1>10 DEF vars, cityVars, pageVars, history
<1> QED
  BY <1>2, <1>3, <1>4, <1>5, <1>6, <1>7, <1>8, <1>9, <1>10 DEF Next

LEMMA ScreenStep ==
  TypeOK /\ ScreenOK /\ [Next]_vars => ScreenOK'
<1> SUFFICES ASSUME TypeOK, ScreenOK, [Next]_vars PROVE ScreenOK'
  OBVIOUS
<1>1. ASSUME NEW s, NEW v, Turns(s, v) PROVE ScreenOK'
  BY <1>1 DEF Turns, Changed, cityVars, pageVars, ScreenOK, ShownCity, Shown
<1> QED
  BY <1>1, StepKinds, FreshScreen, KeptScreen, TopScreen, StaleScreen

LEMMA ScreenInit ==
  Init => TypeOK /\ ScreenOK
<1> SUFFICES ASSUME Init PROVE TypeOK /\ ScreenOK
  OBVIOUS
<1>1. top = At("cities") /\ stale = EmptyBag /\ grid = <<>> /\ view = "feed"
  BY DEF Init
<1>2. IsBag(stale) /\ DOMAIN stale = {}
  BY <1>1, BagOfNone
<1>3. PageOK
  <2>1. overlapped \in BOOLEAN /\ shaken \in BOOLEAN
    BY Zenon DEF Init
  <2>2. grid \in Seq(Stories)
    BY <1>1
  <2>3. top # At("none") /\ top \in Renders
    BY <1>1, RenderNames
  <2> QED
    BY <1>1, <1>2, <2>1, <2>2, <2>3 DEF Init, PageOK, IsBag
<1>4. top.at = "cities"
  BY <1>1, RenderNames
<1>5. TypeOK
  <2>1. loaded \in BOOLEAN
    BY Zenon DEF Init
  <2>2. /\ live \subseteq Cities /\ selected \in Cities \cup {NoCity}
        /\ row \in [Stories -> {"absent", "unjudged", "news", "junk", "old"}]
        /\ 0 \in 0..MaxEvents
    BY DiscoverAssumption DEF Init
  <2> QED
    BY <1>3, <1>4, <2>1, <2>2 DEF Init, TypeOK, CitiesOK, Orders
<1>6. ShownCity
  BY <1>1 DEF ShownCity, Shown
<1> QED
  BY <1>1, <1>5, <1>6, RenderNames DEF Init, ScreenOK

LEMMA ScreenAlways ==
  Spec => [](TypeOK /\ ScreenOK)
<1>1. TypeOK /\ ScreenOK /\ [Next]_vars => (TypeOK /\ ScreenOK)'
  BY TypeStep, ScreenStep
<1> QED
  BY <1>1, ScreenInit, PTL DEF Spec

\* Every variable keeps its type; a render that waits for the city list waits for a
\* request that is under way, and none on the screen has overtaken one that waits
\* (city.js:64, feed.js:859).
THEOREM DiscoverTypes == Spec => []TypeOK
BY ScreenAlways, PTL

\* Every card on the Discover page is of the city the picker shows, however the
\* selection changed while pages were on their way (feed.js:767, 871-877).
THEOREM ShownCityHolds == Spec => []ShownCity
<1>1. ScreenOK => ShownCity
  BY DEF ScreenOK
<1> QED
  BY <1>1, ScreenAlways, PTL

-----------------------------------------------------------------------------
\* The cards are the head of the list. What the invariant says of them where the
\* feed of the picked city is all that has been counted into the offset, and no
\* story left the list or fell in it ...
Calm == hash = "discover" /\ view = "feed" /\ ~overlapped /\ ~shaken

\* ... and where none entered it or rose.
Still == hash = "discover" /\ view = "feed" /\ added = {}

Sooner(s, t) == Before(sort, Keyed(s), Keyed(t))
Behind(s) == Lead(selected, sort, s)

\* How far down the list the cards reach: the next page starts there.
Mark == IF top \in Asking THEN top.offset ELSE offset

ListOK ==
  /\ Calm =>
       /\ Shown \subseteq Listed(selected)
       /\ \A s \in Listed(selected) \ (Shown \cup added) :
            Behind(s) >= Mark /\ \A g \in Shown : Sooner(g, s)
       /\ status \in {"end", "empty"} => Listed(selected) \subseteq Shown \cup added
       /\ \A k \in DOMAIN grid : grid[k] \notin added \cup Above(k) =>
            \A i \in 1..(k - 1) : Sooner(grid[i], grid[k])
  /\ Still =>
       /\ \A g \in Shown \cap Listed(selected) : Behind(g) < Mark
       /\ \A k \in DOMAIN grid : \A i \in 1..(k - 1) :
            grid[i] \in Listed(selected) /\ grid[k] \in Listed(selected)
              => Sooner(grid[i], grid[k])

\* With the same rows the list is the same, whoever asks.
LEMMA SameRows ==
  ASSUME row' = row
  PROVE  /\ Listed(selected)' = Listed(selected')
         /\ \A s : Keyed(s)' = Keyed(s)
         /\ \A s : Behind(s)' = Lead(selected', sort', s)
         /\ \A s, t : Sooner(s, t)' = Before(sort', Keyed(s), Keyed(t))
BY DEF Listed, Admitted, Keyed, Behind, Lead, Order, Sooner

\* An empty screen.
LEMMA BlankList ==
  ASSUME row' = row, grid' = <<>>, status' \notin {"end", "empty"},
         sort' \in Orders, Calm' => Mark' = 0
  PROVE  ListOK'
<1>1. Shown' = {} /\ DOMAIN grid' = {}
  BY DEF Shown
<1>2. \A s \in Listed(selected') : Lead(selected', sort', s) >= 0
  BY LeadType
<1>3. \A s \in Listed(selected)' : Behind(s)' >= 0
  BY <1>2, SameRows
<1> QED
  BY <1>1, <1>3 DEF ListOK

\* The cards and the list stay.
LEMMA FrameList ==
  ASSUME ListOK, sort \in Orders, UNCHANGED <<row, selected, sort, hash, view, grid, history>>,
         status' = status \/ status' \notin {"end", "empty"},
         Mark \in Nat, Mark' \in Nat, Mark <= Mark', Calm => Mark' = Mark
  PROVE  ListOK'
<1>1. /\ Listed(selected)' = Listed(selected) /\ \A s : Behind(s)' = Behind(s)
      /\ \A s, t : Sooner(s, t)' = Sooner(s, t)
  BY SameRows DEF Behind, Sooner
<1>2. Shown' = Shown /\ \A k : Above(k)' = Above(k)
  BY DEF Shown, Above
<1>3. (Calm' <=> Calm) /\ (Still' <=> Still)
  BY DEF Calm, Still, history
<1>4. ASSUME NEW s \in Listed(selected), Behind(s) < Mark PROVE Behind(s) < Mark'
  <2>1. Behind(s) \in Int
    BY LeadType DEF Behind
  <2> QED
    BY <1>4, <2>1
<1> QED
  BY <1>1, <1>2, <1>3, <1>4 DEF ListOK, history

\* The next page.
LEMMA PageList ==
  ASSUME TypeOK, ScreenOK, ListOK, PageLoaded
  PROVE  ListOK'
<1> DEFINE page == Page(top)
           size == Len(page)
           old == Len(grid)
           list == Listed(selected)
<1>1. /\ top \in Asking /\ top' = At("done") /\ offset' = offset + size
      /\ grid' = grid \o page /\ status' = Below(top.at, size)
      /\ UNCHANGED <<row, selected, sort, hash, view, history>>
  BY DEF PageLoaded, cityVars
<1> SUFFICES ASSUME hash = "discover" PROVE ListOK'
  BY <1>1 DEF ListOK, Calm, Still
<1>2. top.city = selected /\ top.sort = sort /\ sort \in Orders
  BY <1>1 DEF ScreenOK, TypeOK
<1>3. PICK o \in Nat : o = top.offset
  BY <1>1 DEF Asking
<1>4. Mark = o /\ o <= offset /\ (Calm => o = offset) /\ Mark' = offset + size
      /\ offset \in Nat
  BY <1>1, <1>3, RenderNames DEF Mark, ScreenOK, Calm, TypeOK, PageOK
<1>5. /\ page \in Seq(list) /\ size \in 0..PageSize
      /\ \A i \in 1..size : Behind(page[i]) = o + i - 1
      /\ \A s \in list : Behind(s) >= o =>
           (\E i \in 1..size : page[i] = s) \/ (size = PageSize /\ Behind(s) >= o + size)
  <2>1. /\ page \in Seq(Listed(top.city)) /\ size \in 0..PageSize
        /\ \A i \in 1..size : Lead(top.city, top.sort, page[i]) = top.offset + i - 1
        /\ \A s \in Listed(top.city) : Lead(top.city, top.sort, s) >= top.offset =>
             \/ \E i \in 1..size : page[i] = s
             \/ size = PageSize /\ Lead(top.city, top.sort, s) >= top.offset + size
    BY <1>1, PageCut
  <2> QED
    BY <1>2, <1>3, <2>1 DEF Behind
<1>6. PageSize \in Nat \ {0} /\ grid \in Seq(Stories) /\ list \subseteq Stories
  BY DiscoverAssumption DEF TypeOK, PageOK, Listed
<1>7. /\ list' = list /\ \A s : Behind(s)' = Behind(s)
      /\ \A s, t : Sooner(s, t)' = Sooner(s, t)
  BY <1>1, SameRows DEF Behind, Sooner
<1>8. ASSUME NEW s \in list, NEW t \in list, Behind(s) < Behind(t) PROVE Sooner(s, t)
  BY <1>2, <1>8, LeadOrder DEF Behind, Sooner
<1>9. \A s \in list : Behind(s) \in Int
  BY <1>2, LeadType DEF Behind
<1>10. Calm => /\ Shown \subseteq list
               /\ \A s \in list \ (Shown \cup added) :
                    Behind(s) >= o /\ \A g \in Shown : Sooner(g, s)
               /\ \A k \in DOMAIN grid : grid[k] \notin added \cup Above(k) =>
                    \A i \in 1..(k - 1) : Sooner(grid[i], grid[k])
  BY <1>4 DEF ListOK
<1>11. Still => /\ \A g \in Shown \cap list : Behind(g) < o
                /\ \A k \in DOMAIN grid : \A i \in 1..(k - 1) :
                     grid[i] \in list /\ grid[k] \in list => Sooner(grid[i], grid[k])
  BY <1>4 DEF ListOK
<1> HIDE DEF page, list
<1>12. /\ old \in Nat /\ DOMAIN grid = 1..old /\ DOMAIN page = 1..size
       /\ DOMAIN grid' = 1..(old + size)
       /\ \A k \in 1..old : grid'[k] = grid[k]
       /\ \A k \in 1..size : grid'[old + k] = page[k] /\ page[k] \in list
  BY <1>1, <1>5, <1>6
<1>13. \A k \in 1..(old + size) :
         k \in 1..old \/ \E j \in 1..size : k = old + j
  <2> SUFFICES ASSUME NEW k \in 1..(old + size), ~(k \in 1..old)
               PROVE  \E j \in 1..size : k = old + j
    OBVIOUS
  <2>1. k - old \in 1..size /\ k = old + (k - old)
    BY <1>5, <1>12
  <2> QED
    BY <2>1
<1>14. Shown' = Shown \cup {page[j] : j \in 1..size}
  <2>1. \A k \in 1..old : k \in 1..(old + size)
    BY <1>5, <1>12
  <2>2. \A j \in 1..size : old + j \in 1..(old + size)
    BY <1>5, <1>12
  <2>3. Shown' = {grid'[k] : k \in 1..(old + size)} /\ Shown = {grid[k] : k \in 1..old}
    BY <1>12 DEF Shown
  <2> HIDE DEF size, old
  <2>4. \A k \in 1..(old + size) :
          grid'[k] \in Shown \/ grid'[k] \in {page[j] : j \in 1..size}
    <3> SUFFICES ASSUME NEW k \in 1..(old + size)
                 PROVE  grid'[k] \in Shown \/ grid'[k] \in {page[j] : j \in 1..size}
      OBVIOUS
    <3>1. k \in 1..old \/ \E j \in 1..size : k = old + j
      BY <1>13
    <3> QED
      BY <1>12, <2>3, <3>1
  <2>5. Shown \subseteq Shown' /\ {page[j] : j \in 1..size} \subseteq Shown'
    BY <1>12, <2>1, <2>2, <2>3
  <2> QED
    BY <2>3, <2>4, <2>5
<1> HIDE DEF size, old
<1>15. (Calm' <=> Calm) /\ (Still' <=> Still) /\ added' = added
  BY <1>1 DEF Calm, Still, history
<1>16. \A i \in 1..size, j \in 1..size : i < j => Sooner(page[i], page[j])
  <2> SUFFICES ASSUME NEW i \in 1..size, NEW j \in 1..size, i < j
               PROVE  Sooner(page[i], page[j])
    OBVIOUS
  <2>1. Behind(page[i]) = o + i - 1 /\ Behind(page[j]) = o + j - 1
    BY <1>5
  <2> QED
    BY <1>8, <1>12, <2>1
<1>17. ASSUME Calm
       PROVE  /\ Shown' \subseteq list
              /\ \A s \in list \ (Shown' \cup added) :
                   Behind(s) >= Mark' /\ \A g \in Shown' : Sooner(g, s)
              /\ status' \in {"end", "empty"} => list \subseteq Shown' \cup added
              /\ \A k \in DOMAIN grid' : grid'[k] \notin added \cup Above(k)' =>
                   \A i \in 1..(k - 1) : Sooner(grid'[i], grid'[k])
  <2>1. Shown' \subseteq list
    BY <1>10, <1>12, <1>14, <1>17
  <2>2. ASSUME NEW s \in list \ (Shown' \cup added)
        PROVE  size = PageSize /\ Behind(s) >= Mark' /\ \A g \in Shown' : Sooner(g, s)
    <3>1. Behind(s) >= o /\ \A g \in Shown : Sooner(g, s)
      BY <1>10, <1>14, <1>17
    <3>2. size = PageSize /\ Behind(s) >= o + size
      BY <1>5, <1>14, <3>1
    <3>3. \A j \in 1..size : Sooner(page[j], s)
      <4> SUFFICES ASSUME NEW j \in 1..size PROVE Sooner(page[j], s)
        OBVIOUS
      <4>1. Behind(page[j]) = o + j - 1
        BY <1>5
      <4>2. Behind(page[j]) < Behind(s)
        BY <1>5, <1>9, <3>2, <4>1
      <4> QED
        BY <1>8, <1>12, <4>2
    <3> QED
      BY <1>4, <1>14, <1>17, <3>1, <3>2, <3>3
  <2>3. status' \in {"end", "empty"} => list \subseteq Shown' \cup added
    <3>1. status' \in {"end", "empty"} => size # PageSize
      BY <1>1, <1>6 DEF Below
    <3> QED
      BY <2>2, <3>1
  <2>4. ASSUME NEW k \in DOMAIN grid', grid'[k] \notin added \cup Above(k)',
               NEW i \in 1..(k - 1)
        PROVE  Sooner(grid'[i], grid'[k])
    <3>1. CASE k \in 1..old
      <4>1. i \in 1..old /\ \A j \in 1..(k - 1) : j \in 1..old
        BY <1>12, <3>1
      <4>2. Above(k)' = Above(k)
        BY <1>12, <4>1 DEF Above
      <4> QED
        BY <1>10, <1>12, <1>15, <1>17, <2>4, <3>1, <4>1, <4>2
    <3>2. CASE ~(k \in 1..old)
      <4>1. PICK j \in 1..size : k = old + j
        BY <1>12, <1>13, <3>2
      <4>2. grid'[k] = page[j] /\ page[j] \in list
        BY <1>12, <4>1
      <4>3. CASE i \in 1..old
        <5>1. \A n \in 1..old : n \in 1..(k - 1) /\ grid'[n] = grid[n]
          BY <1>12, <4>1
        <5>2. Shown \subseteq Above(k)'
          BY <1>12, <5>1 DEF Shown, Above
        <5>3. page[j] \in list \ (Shown \cup added)
          BY <2>4, <4>2, <5>2
        <5>4. grid'[i] = grid[i] /\ grid[i] \in Shown
          BY <1>12, <4>3 DEF Shown
        <5> QED
          BY <1>10, <1>17, <4>2, <5>3, <5>4
      <4>4. CASE ~(i \in 1..old)
        <5>1. i \in 1..(old + size)
          BY <1>5, <1>12, <4>1
        <5>2. PICK n \in 1..size : i = old + n
          BY <1>13, <4>4, <5>1
        <5>3. n < j /\ grid'[i] = page[n]
          BY <1>5, <1>12, <4>1, <5>2
        <5> QED
          BY <1>16, <4>2, <5>3
      <4> QED
        BY <4>3, <4>4
    <3> QED
      BY <3>1, <3>2
  <2> QED
    BY <2>1, <2>2, <2>3, <2>4
<1>18. ASSUME Still
       PROVE  /\ \A g \in Shown' \cap list : Behind(g) < Mark'
              /\ \A k \in DOMAIN grid' : \A i \in 1..(k - 1) :
                   grid'[i] \in list /\ grid'[k] \in list => Sooner(grid'[i], grid'[k])
  <2>1. \A g \in Shown \cap list : Behind(g) < o
    BY <1>11, <1>18
  <2>2. ASSUME NEW g \in Shown' \cap list PROVE Behind(g) < Mark'
    <3>1. CASE g \in Shown
      BY <1>4, <1>5, <1>9, <2>1, <3>1
    <3>2. CASE g \notin Shown
      <4>1. PICK j \in 1..size : g = page[j]
        BY <1>14, <3>2
      <4> QED
        BY <1>4, <1>5, <4>1
    <3> QED
      BY <3>1, <3>2
  <2>3. ASSUME NEW k \in DOMAIN grid', NEW i \in 1..(k - 1),
               grid'[i] \in list, grid'[k] \in list
        PROVE  Sooner(grid'[i], grid'[k])
    <3>1. CASE k \in 1..old
      <4>1. i \in 1..old
        BY <1>12, <3>1
      <4> QED
        BY <1>11, <1>12, <1>18, <2>3, <3>1, <4>1
    <3>2. CASE ~(k \in 1..old)
      <4>1. PICK j \in 1..size : k = old + j
        BY <1>12, <1>13, <3>2
      <4>2. grid'[k] = page[j] /\ Behind(page[j]) = o + j - 1
        BY <1>5, <1>12, <4>1
      <4>3. CASE i \in 1..old
        <5>1. grid'[i] \in Shown \cap list
          BY <1>12, <2>3, <4>3 DEF Shown
        <5>2. Behind(grid'[i]) < o /\ Behind(grid'[i]) \in Int
          BY <1>9, <2>1, <5>1
        <5>3. Behind(grid'[i]) < Behind(grid'[k])
          BY <4>2, <5>2
        <5> QED
          BY <1>8, <2>3, <5>3
      <4>4. CASE ~(i \in 1..old)
        <5>1. i \in 1..(old + size)
          BY <1>5, <1>12, <4>1
        <5>2. PICK n \in 1..size : i = old + n
          BY <1>13, <4>4, <5>1
        <5>3. n < j /\ grid'[i] = page[n]
          BY <1>5, <1>12, <4>1, <5>2
        <5> QED
          BY <1>16, <4>2, <5>3
      <4> QED
        BY <4>3, <4>4
    <3> QED
      BY <3>1, <3>2
  <2> QED
    BY <2>2, <2>3
<1>19. (list = Listed(selected)) /\ (list' = Listed(selected)')
  BY DEF list
<1> QED
  BY <1>7, <1>15, <1>17, <1>18, <1>19 DEF ListOK

\* Every other step of the page.
LEMMA KeptList ==
  ASSUME TypeOK, TypeOK', ScreenOK, ScreenOK', ListOK, Kept
  PROVE  ListOK'
<1>1. CASE selected' = selected
  <2>1. Mark' = Mark /\ Mark \in Nat
    BY RenderNames DEF Mark, Kept, TypeOK, PageOK, Asking
  <2>2. UNCHANGED <<row, selected, sort, hash, view, grid, history>> /\ status' = status
    BY <1>1 DEF Kept
  <2> QED
    BY <2>1, <2>2, FrameList DEF TypeOK
<1>2. CASE selected' # selected /\ hash = "discover" /\ view = "feed"
  <2>1. top = At("cities") /\ grid = <<>> /\ status = "loading"
    BY <1>2 DEF Kept, ScreenOK, TypeOK, CitiesOK
  <2>2. top' \in {At("cities"), At("sources")} /\ top' \notin Asking
    BY <2>1, RenderNames DEF Kept
  <2>3. Calm' => Mark' = 0
    BY <2>2 DEF Mark, Calm, ScreenOK
  <2> QED
    BY <2>1, <2>3, BlankList DEF Kept, TypeOK
<1>3. CASE hash # "discover" \/ view # "feed"
  BY <1>3 DEF Kept, ListOK, Calm, Still
<1> QED
  BY <1>1, <1>2, <1>3

LEMMA FreshList ==
  ASSUME TypeOK', Fresh
  PROVE  ListOK'
<1>1. Calm' => Mark' = 0
  BY RenderNames DEF Fresh, Calm, Mark
<1> QED
  BY <1>1, BlankList DEF Fresh, TypeOK

LEMMA TopList ==
  ASSUME TypeOK, ScreenOK, ListOK, TopStep \/ LoadMore
  PROVE  ListOK'
<1>1. CASE PageLoaded
  BY <1>1, PageList
<1>2. CASE SourcesLoaded \/ PageFails \/ LoadMore
  <2>1. /\ UNCHANGED <<row, selected, sort, hash, view, grid, history, offset>>
        /\ status' = status \/ status' \notin {"end", "empty"}
        /\ \/ top' \in Asking /\ top'.offset = offset
           \/ top' = At("done")
    BY <1>2 DEF SourcesLoaded, PageFails, LoadMore, Asked, Asking, cityVars,
                TypeOK, CitiesOK, PageOK
  <2>2. Mark' = offset /\ offset \in Nat
    BY <2>1, RenderNames DEF Mark, TypeOK, PageOK
  <2>3. Mark \in Nat /\ Mark <= offset /\ (Calm => Mark = offset)
    BY DEF Mark, Calm, ScreenOK, TypeOK, PageOK, Asking
  <2> QED
    BY <2>1, <2>2, <2>3, FrameList DEF TypeOK
<1> QED
  BY <1>1, <1>2 DEF TopStep

LEMMA StaleList ==
  ASSUME TypeOK, ScreenOK, ListOK, StaleStep
  PROVE  ListOK'
<1>1. /\ UNCHANGED <<row, cityVars, hash, view, top, grid, status, sort, history>>
      /\ stale # EmptyBag /\ offset <= offset' /\ offset' \in Nat
  BY StaleScreen
<1>2. Mark \in Nat /\ Mark' \in Nat /\ Mark <= Mark'
  BY <1>1 DEF Mark, TypeOK, PageOK, Asking
<1>3. ~Calm
  BY <1>1 DEF Calm, ScreenOK
<1> QED
  BY <1>1, <1>2, <1>3, FrameList DEF cityVars, TypeOK

-----------------------------------------------------------------------------
\* What happens on the server.

\* More come before an element of a set that grows.
LEMMA AheadGrows ==
  ASSUME NEW S, NEW T, IsFiniteSet(T), S \subseteq T, NEW R, NEW Q, NEW x,
         \A y \in S : <<y, x>> \in R => <<y, x>> \in Q
  PROVE  /\ Cardinality(Ahead(S, R, x)) <= Cardinality(Ahead(T, Q, x))
         /\ Cardinality(Ahead(S, R, x)) \in Nat /\ Cardinality(Ahead(T, Q, x)) \in Nat
<1> DEFINE A == Ahead(S, R, x)
           B == Ahead(T, Q, x)
<1>1. A \subseteq B /\ B \subseteq T
  BY DEF Ahead
<1> HIDE DEF A, B
<1>2. IsFiniteSet(B)
  BY <1>1, FS_Subset
<1>3. IsFiniteSet(A) /\ Cardinality(A) <= Cardinality(B)
  BY <1>1, <1>2, FS_Subset
<1>4. Cardinality(A) \in Nat /\ Cardinality(B) \in Nat
  BY <1>2, <1>3, FS_CardinalityType
<1> QED
  BY <1>3, <1>4 DEF A, B

\* A story whose score rises stays before those it was before.
LEMMA KeyRises ==
  ASSUME NEW a \in Keys, NEW b \in Keys, NEW t \in Keys, NEW how,
         a.id = b.id, a.published = b.published, a.score <= b.score, Before(how, a, t)
  PROVE  Before(how, b, t)
BY DEF Keys, Before, Newer, Stronger

\* The list of the picked city as a story turns: it stays, gains the story, or
\* loses it.
LEMMA ListTurns ==
  ASSUME TypeOK, NEW s \in Stories, NEW v, Turns(s, v), view = "feed"
  PROVE  /\ \A t \in Listed(selected) \cup Listed(selected)' :
              /\ Keyed(t) \in Keys /\ Keyed(t)' \in Keys
              /\ Keyed(t)'.id = Keyed(t).id /\ Keyed(t)'.published = Keyed(t).published
              /\ t # s => Keyed(t)' = Keyed(t)
         /\ \/ /\ Listed(selected)' = Listed(selected) /\ UNCHANGED <<shaken, added>>
               /\ \A t \in Listed(selected) : Keyed(t)' = Keyed(t)
            \/ /\ Listed(selected)' = Listed(selected) \cup {s}
               /\ shaken' = shaken /\ added' = added \cup {s}
               /\ s \in Listed(selected) => Keyed(s).score <= Keyed(s)'.score
            \/ /\ Listed(selected)' = Listed(selected) \ {s}
               /\ shaken' = TRUE /\ added' = added
<1>1. /\ row' = [row EXCEPT ![s] = v] /\ selected' = selected
      /\ IF CityOf[s] = selected
         THEN /\ shaken' = (shaken \/ (Admitted(s) /\ ~Admitted(s)'))
              /\ added' = IF Admitted(s)' THEN added \cup {s} ELSE added
         ELSE UNCHANGED <<shaken, added>>
  BY DEF Turns, Changed, cityVars
<1>2. row'[s] = v /\ \A t \in Stories : t # s => row'[t] = row[t]
  BY <1>1 DEF TypeOK
<1>3. \A t \in Stories : t # s => (Admitted(t)' <=> Admitted(t)) /\ Keyed(t)' = Keyed(t)
  BY <1>2 DEF Admitted, Keyed
<1>4. \A t \in Stories :
        /\ Score[t] \in Nat /\ Unrated <= Score[t] /\ Unrated \in Nat
        /\ Published[t] \in Nat /\ t \in Nat
  BY ScoreType, DiscoverAssumption DEF Unrated, Floor
<1>5. \A t \in Stories : /\ Keyed(t) \in Keys /\ Keyed(t)' \in Keys
                         /\ Keyed(t)'.id = Keyed(t).id
                         /\ Keyed(t)'.published = Keyed(t).published
  BY <1>4 DEF Keyed, Keys
<1>6. Listed(selected) \subseteq Stories /\ Listed(selected)' \subseteq Stories
  BY DEF Listed
<1>7. \A t \in Stories : /\ t \in Listed(selected) <=> CityOf[t] = selected /\ Admitted(t)
                         /\ t \in Listed(selected)' <=> CityOf[t] = selected /\ Admitted(t)'
  BY <1>1 DEF Listed
<1>8. CASE CityOf[s] # selected
  <2>1. Listed(selected)' = Listed(selected) /\ s \notin Listed(selected)
    BY <1>3, <1>6, <1>7, <1>8
  <2> QED
    BY <1>1, <1>3, <1>5, <1>6, <1>8, <2>1
<1>9. CASE CityOf[s] = selected /\ Admitted(s)'
  <2>1. Listed(selected)' = Listed(selected) \cup {s}
    BY <1>3, <1>6, <1>7, <1>9
  <2>2. shaken' = shaken /\ added' = added \cup {s}
    BY <1>1, <1>9 DEF TypeOK, PageOK
  <2>3. Admitted(s) => row[s] = "unjudged" /\ row'[s] = "news"
    BY <1>2, <1>9 DEF Turns, Admitted
  <2>4. Admitted(s) => Keyed(s).score <= Keyed(s)'.score
    BY <1>4, <2>3 DEF Keyed
  <2> QED
    BY <1>3, <1>5, <1>6, <1>7, <2>1, <2>2, <2>4
<1>10. CASE CityOf[s] = selected /\ ~Admitted(s)' /\ Admitted(s)
  <2>1. Listed(selected)' = Listed(selected) \ {s}
    BY <1>3, <1>6, <1>7, <1>10
  <2>2. shaken' = TRUE /\ added' = added
    BY <1>1, <1>10 DEF TypeOK, PageOK
  <2> QED
    BY <1>3, <1>5, <1>6, <2>1, <2>2
<1>11. CASE CityOf[s] = selected /\ ~Admitted(s)' /\ ~Admitted(s)
  <2>1. Listed(selected)' = Listed(selected) /\ s \notin Listed(selected)
    BY <1>3, <1>6, <1>7, <1>11
  <2>2. shaken' = shaken /\ added' = added
    BY <1>1, <1>11 DEF TypeOK, PageOK
  <2> QED
    BY <1>3, <1>5, <1>6, <2>1, <2>2
<1> QED
  BY <1>8, <1>9, <1>10, <1>11

LEMMA TurnsList ==
  ASSUME TypeOK, ListOK, NEW s \in Stories, NEW v, Turns(s, v)
  PROVE  ListOK'
<1> DEFINE list == Listed(selected)
           order == Order(selected, sort)
<1>1. UNCHANGED <<hash, view, selected, sort, top, offset, grid, status, overlapped>>
  BY DEF Turns, Changed, cityVars, pageVars
<1> SUFFICES ASSUME view = "feed" PROVE ListOK'
  BY <1>1 DEF ListOK, Calm, Still
<1>2. /\ Mark' = Mark /\ Shown' = Shown /\ \A k : Above(k)' = Above(k)
      /\ Mark \in Nat
  BY <1>1 DEF Mark, Shown, Above, TypeOK, PageOK, Asking
<1>3. /\ Calm' <=> hash = "discover" /\ ~overlapped /\ ~shaken'
      /\ Calm <=> hash = "discover" /\ ~overlapped /\ ~shaken
      /\ Still' <=> hash = "discover" /\ added' = {}
      /\ Still <=> hash = "discover" /\ added = {}
  BY <1>1 DEF Calm, Still
<1>4. \A t \in list \cup list' :
        /\ Keyed(t) \in Keys /\ Keyed(t)' \in Keys
        /\ Keyed(t)'.id = Keyed(t).id /\ Keyed(t)'.published = Keyed(t).published
        /\ t # s => Keyed(t)' = Keyed(t)
  BY ListTurns
<1>5. /\ \A x, y \in list : <<x, y>> \in order <=> Sooner(x, y)
      /\ \A x, y \in list' : <<x, y>> \in order' <=> Sooner(x, y)'
  BY DEF Order, Sooner
<1>6. /\ \A x, y : Sooner(x, y) = Before(sort, Keyed(x), Keyed(y))
      /\ \A x, y : Sooner(x, y)' = Before(sort, Keyed(x)', Keyed(y)')
  BY <1>1 DEF Sooner
<1>7. /\ \A t : Behind(t) = Cardinality(Ahead(list, order, t))
      /\ \A t : Behind(t)' = Cardinality(Ahead(list', order', t))
  BY DEF Behind, Lead
<1>8. IsFiniteSet(list) /\ IsFiniteSet(list')
  <2>1. list \subseteq Stories /\ list' \subseteq Stories
    BY DEF Listed
  <2> QED
    BY <2>1, FS_Subset, DiscoverAssumption
<1>9. Calm => /\ Shown \subseteq list
              /\ \A t \in list \ (Shown \cup added) :
                   Behind(t) >= Mark /\ \A g \in Shown : Sooner(g, t)
              /\ status \in {"end", "empty"} => list \subseteq Shown \cup added
              /\ \A k \in DOMAIN grid : grid[k] \notin added \cup Above(k) =>
                   \A i \in 1..(k - 1) : Sooner(grid[i], grid[k])
  BY DEF ListOK
<1>10. Still => /\ \A g \in Shown \cap list : Behind(g) < Mark
                /\ \A k \in DOMAIN grid : \A i \in 1..(k - 1) :
                     grid[i] \in list /\ grid[k] \in list => Sooner(grid[i], grid[k])
  BY DEF ListOK
<1>11. \A k \in DOMAIN grid : \A i \in 1..(k - 1) : grid[i] \in Shown /\ grid[k] \in Shown
  <2>1. grid \in Seq(Stories)
    BY DEF TypeOK, PageOK
  <2>2. \A k \in DOMAIN grid : \A i \in 1..(k - 1) : i \in DOMAIN grid
    BY <2>1
  <2> QED
    BY <2>2 DEF Shown
<1>12. SUFFICES
         /\ Calm' => /\ Shown \subseteq list'
                     /\ \A t \in list' \ (Shown \cup added') :
                          Behind(t)' >= Mark /\ \A g \in Shown : Sooner(g, t)'
                     /\ status \in {"end", "empty"} => list' \subseteq Shown \cup added'
                     /\ \A k \in DOMAIN grid : grid[k] \notin added' \cup Above(k) =>
                          \A i \in 1..(k - 1) : Sooner(grid[i], grid[k])'
         /\ Still' => /\ \A g \in Shown \cap list' : Behind(g)' < Mark
                      /\ \A k \in DOMAIN grid : \A i \in 1..(k - 1) :
                           grid[i] \in list' /\ grid[k] \in list' => Sooner(grid[i], grid[k])'
  BY <1>1, <1>2 DEF ListOK
<1> HIDE DEF list, order
<1>13. CASE /\ list' = list /\ UNCHANGED <<shaken, added>>
            /\ \A t \in list : Keyed(t)' = Keyed(t)
  <2>1. \A x, y \in list : Sooner(x, y)' <=> Sooner(x, y)
    BY <1>6, <1>13
  <2>2. \A t \in list : Behind(t)' = Behind(t)
    <3> SUFFICES ASSUME NEW t \in list PROVE Behind(t)' = Behind(t)
      OBVIOUS
    <3>1. Ahead(list', order', t) = Ahead(list, order, t)
      BY <1>5, <1>13, <2>1 DEF Ahead
    <3> QED
      BY <1>7, <3>1
  <2>3. (Calm' <=> Calm) /\ (Still' <=> Still)
    BY <1>3, <1>13
  <2>4. ASSUME Calm, NEW k \in DOMAIN grid, NEW i \in 1..(k - 1)
        PROVE  Sooner(grid[i], grid[k])' <=> Sooner(grid[i], grid[k])
    BY <1>1, <1>9, <1>11, <2>1, <2>4
  <2>5. ASSUME Calm, NEW t \in list' \ (Shown \cup added')
        PROVE  Behind(t)' >= Mark /\ \A g \in Shown : Sooner(g, t)'
    <3>1. t \in list \ (Shown \cup added) /\ Behind(t)' = Behind(t)
      BY <1>13, <2>2, <2>5
    <3> QED
      BY <1>9, <2>1, <2>5, <3>1
  <2>6. ASSUME Still, NEW g \in Shown \cap list' PROVE Behind(g)' < Mark
    <3>1. g \in Shown \cap list /\ Behind(g)' = Behind(g)
      BY <1>13, <2>2, <2>6
    <3> QED
      BY <1>10, <2>6, <3>1
  <2>7. ASSUME Still, NEW k \in DOMAIN grid, NEW i \in 1..(k - 1),
               grid[i] \in list', grid[k] \in list'
        PROVE  Sooner(grid[i], grid[k])'
    BY <1>1, <1>10, <1>13, <2>1, <2>7
  <2> QED
    BY <1>9, <1>13, <2>3, <2>4, <2>5, <2>6, <2>7
<1>14. CASE /\ list' = list \cup {s} /\ shaken' = shaken /\ added' = added \cup {s}
            /\ s \in list => Keyed(s).score <= Keyed(s)'.score
  <2>1. ASSUME NEW x \in list, NEW t \in list, t # s, Sooner(x, t) PROVE Sooner(x, t)'
    <3>1. Keyed(t)' = Keyed(t)
      BY <1>4, <2>1
    <3>2. CASE x = s
      BY <1>4, <1>6, <1>14, <2>1, <3>1, <3>2, KeyRises
    <3>3. CASE x # s
      BY <1>4, <1>6, <2>1, <3>1, <3>3
    <3> QED
      BY <3>2, <3>3
  <2>2. ASSUME NEW t \in list, t # s
        PROVE  Behind(t) <= Behind(t)' /\ Behind(t) \in Nat /\ Behind(t)' \in Nat
    <3>1. \A y \in list : <<y, t>> \in order => <<y, t>> \in order'
      BY <1>5, <1>14, <2>1, <2>2
    <3>2. list \subseteq list'
      BY <1>14
    <3> QED
      BY <1>7, <1>8, <3>1, <3>2, AheadGrows
  <2>3. ~Still'
    BY <1>3, <1>14
  <2> SUFFICES ASSUME Calm'
      PROVE /\ Shown \subseteq list'
            /\ \A t \in list' \ (Shown \cup added') :
                 Behind(t)' >= Mark /\ \A g \in Shown : Sooner(g, t)'
            /\ status \in {"end", "empty"} => list' \subseteq Shown \cup added'
            /\ \A k \in DOMAIN grid : grid[k] \notin added' \cup Above(k) =>
                 \A i \in 1..(k - 1) : Sooner(grid[i], grid[k])'
    BY <2>3
  <2>4. Calm
    BY <1>3, <1>14
  <2>5. Shown \subseteq list /\ list \subseteq list' /\ added \subseteq added'
    BY <1>9, <1>14, <2>4
  <2>6. ASSUME NEW t \in list' \ (Shown \cup added')
        PROVE  Behind(t)' >= Mark /\ \A g \in Shown : Sooner(g, t)'
    <3>1. t \in list \ (Shown \cup added) /\ t # s
      BY <1>14, <2>6
    <3>2. Behind(t) >= Mark /\ \A g \in Shown : Sooner(g, t)
      BY <1>9, <2>4, <3>1
    <3>3. Behind(t)' >= Mark
      BY <1>2, <2>2, <3>1, <3>2
    <3> QED
      BY <2>1, <2>5, <3>1, <3>2, <3>3
  <2>7. ASSUME NEW k \in DOMAIN grid, grid[k] \notin added' \cup Above(k), NEW i \in 1..(k - 1)
        PROVE  Sooner(grid[i], grid[k])'
    <3>1. grid[k] \notin added \cup Above(k) /\ grid[k] # s
      BY <1>14, <2>7
    <3>2. Sooner(grid[i], grid[k])
      BY <1>9, <2>4, <2>7, <3>1
    <3> QED
      BY <1>1, <1>11, <2>1, <2>5, <2>7, <3>1, <3>2
  <2>8. status \in {"end", "empty"} => list' \subseteq Shown \cup added'
    BY <1>9, <1>14, <2>4
  <2> QED
    BY <2>5, <2>6, <2>7, <2>8
<1>15. CASE list' = list \ {s} /\ shaken' = TRUE /\ added' = added
  <2>1. \A x, t \in list' : Sooner(x, t)' <=> Sooner(x, t)
    BY <1>4, <1>6, <1>15
  <2>2. ASSUME NEW t \in list'
        PROVE  Behind(t)' <= Behind(t) /\ Behind(t) \in Nat /\ Behind(t)' \in Nat
    <3>1. \A y \in list' : <<y, t>> \in order' => <<y, t>> \in order
      BY <1>5, <1>15, <2>1, <2>2
    <3>2. list' \subseteq list
      BY <1>15
    <3> QED
      BY <1>7, <1>8, <3>1, <3>2, AheadGrows
  <2>3. ~Calm'
    BY <1>3, <1>15
  <2> SUFFICES ASSUME Still'
      PROVE /\ \A g \in Shown \cap list' : Behind(g)' < Mark
            /\ \A k \in DOMAIN grid : \A i \in 1..(k - 1) :
                 grid[i] \in list' /\ grid[k] \in list' => Sooner(grid[i], grid[k])'
    BY <2>3
  <2>4. Still
    BY <1>3, <1>15
  <2>5. ASSUME NEW g \in Shown \cap list' PROVE Behind(g)' < Mark
    <3>1. g \in Shown \cap list
      BY <1>15, <2>5
    <3>2. Behind(g) < Mark
      BY <1>10, <2>4, <3>1
    <3> QED
      BY <1>2, <2>2, <2>5, <3>2
  <2>6. ASSUME NEW k \in DOMAIN grid, NEW i \in 1..(k - 1),
               grid[i] \in list', grid[k] \in list'
        PROVE  Sooner(grid[i], grid[k])'
    <3>1. Sooner(grid[i], grid[k])
      BY <1>10, <1>15, <2>4, <2>6
    <3> QED
      BY <1>1, <2>1, <2>6, <3>1
  <2> QED
    BY <2>5, <2>6
<1>16. /\ list = Listed(selected) /\ list' = Listed(selected)'
  BY DEF list
<1> QED
  BY <1>13, <1>14, <1>15, <1>16, ListTurns

-----------------------------------------------------------------------------
\* The inductive invariant: what the screen shows, and what of the list it shows.
FeedOK == TypeOK /\ ScreenOK /\ ListOK

LEMMA FeedInit ==
  Init => FeedOK
<1> SUFFICES ASSUME Init PROVE FeedOK
  OBVIOUS
<1>1. TypeOK /\ ScreenOK
  BY ScreenInit
<1>2. top = At("cities") /\ grid = <<>> /\ status = "loading" /\ offset = 0 /\ sort \in Orders
  BY <1>1 DEF Init, TypeOK
<1>3. Mark = 0 /\ Shown = {} /\ DOMAIN grid = {}
  BY <1>2, RenderNames DEF Mark, Shown
<1>4. \A s \in Listed(selected) : Behind(s) >= 0
  BY <1>2, LeadType DEF Behind
<1>5. ListOK
  BY <1>2, <1>3, <1>4 DEF ListOK
<1> QED
  BY <1>1, <1>5 DEF FeedOK

LEMMA FeedStep ==
  FeedOK /\ [Next]_vars => FeedOK'
<1> SUFFICES ASSUME TypeOK, ScreenOK, ListOK, [Next]_vars PROVE FeedOK'
  BY DEF FeedOK
<1>1. TypeOK' /\ ScreenOK'
  BY TypeStep, ScreenStep
<1>2. CASE Fresh
  BY <1>1, <1>2, FreshList DEF FeedOK
<1>3. CASE Kept
  BY <1>1, <1>3, KeptList DEF FeedOK
<1>4. CASE TopStep \/ LoadMore
  BY <1>1, <1>4, TopList DEF FeedOK
<1>5. CASE StaleStep
  BY <1>1, <1>5, StaleList DEF FeedOK
<1>6. ASSUME NEW s \in Stories, NEW v, Turns(s, v) PROVE FeedOK'
  BY <1>1, <1>6, TurnsList DEF FeedOK
<1> QED
  BY <1>2, <1>3, <1>4, <1>5, <1>6, StepKinds

LEMMA FeedAlways ==
  Spec => []FeedOK
BY FeedInit, FeedStep, PTL DEF Spec

\* A card on the page is on a feed.
LEMMA CardsInFeed ==
  ASSUME FeedOK, grid # <<>> \/ status \in {"end", "empty"}
  PROVE  view = "feed"
BY DEF FeedOK, ScreenOK

\* The cards are the head of the list in the order the toggle shows: no story of the
\* city that was there all along is missing above the last card, and with nothing new
\* no story is shown twice (feed.js:838-844, rank.py:174-186).
THEOREM NoGapHolds == Spec => []NoGap
<1>1. ASSUME FeedOK PROVE NoGap
  <2> SUFFICES ASSUME hash = "discover", ~overlapped, ~shaken, grid # <<>>
               PROVE  /\ \A s \in Listed(selected) \ (Shown \cup added) :
                           Before(sort, Keyed(grid[Len(grid)]), Keyed(s))
                      /\ added = {} =>
                           \A i, k \in DOMAIN grid : i # k => grid[i] # grid[k]
    BY DEF NoGap
  <2>1. Calm /\ (added = {} => Still)
    BY <1>1, CardsInFeed DEF Calm, Still
  <2>2. grid \in Seq(Stories) /\ sort \in Orders /\ ListOK
    BY <1>1 DEF FeedOK, TypeOK, PageOK
  <2>3. Len(grid) \in DOMAIN grid
    BY <2>2
  <2>4. \A s \in Listed(selected) \ (Shown \cup added) :
          Before(sort, Keyed(grid[Len(grid)]), Keyed(s))
    BY <2>1, <2>2, <2>3 DEF ListOK, Shown, Sooner
  <2>5. ASSUME added = {}, NEW k \in DOMAIN grid, NEW i \in 1..(k - 1)
        PROVE  grid[i] # grid[k]
    <3>1. i \in DOMAIN grid
      BY <2>2
    <3>2. grid[i] \in Listed(selected) /\ grid[k] \in Listed(selected)
      BY <2>1, <2>2, <3>1 DEF ListOK, Shown
    <3>3. Before(sort, Keyed(grid[i]), Keyed(grid[k]))
      BY <2>1, <2>2, <2>5, <3>2 DEF ListOK, Sooner
    <3>4. Keyed(grid[k]) \in Keys
      BY <2>2, KeyedType
    <3>5. ~Before(sort, Keyed(grid[k]), Keyed(grid[k]))
      BY <2>2, <3>4, OrderTotal DEF Orders
    <3> QED
      BY <3>3, <3>5
  <2>6. ASSUME added = {}, NEW i \in DOMAIN grid, NEW k \in DOMAIN grid, i # k
        PROVE  grid[i] # grid[k]
    <3>1. i \in 1..(k - 1) \/ k \in 1..(i - 1)
      BY <2>2, <2>6
    <3> QED
      BY <2>5, <2>6, <3>1
  <2> QED
    BY <2>4, <2>6
<1> QED
  BY <1>1, FeedAlways, PTL

\* When the page offers no more, or says there is nothing, every story that was in the
\* list all along is on it (feed.js:847-849).
THEOREM EndMeansEndHolds == Spec => []EndMeansEnd
<1>1. ASSUME FeedOK PROVE EndMeansEnd
  BY <1>1, CardsInFeed DEF FeedOK, ListOK, EndMeansEnd, Calm
<1> QED
  BY <1>1, FeedAlways, PTL

\* Sorted by engagement no judged story stands below one it outweighs, however little
\* the difference and whatever their dates (rank.py:119-137, 174-186).
THEOREM StrongFirstHolds == Spec => []StrongFirst
<1>1. ASSUME FeedOK PROVE StrongFirst
  <2> SUFFICES ASSUME hash = "discover", sort = "engagement",
                      added = {} \/ ~(overlapped \/ shaken),
                      NEW k \in DOMAIN grid, NEW i \in 1..(k - 1),
                      grid[k] \notin added \cup Above(k),
                      row[grid[i]] = "news", row[grid[k]] = "news",
                      Outweighs(Levels[grid[k]], Levels[grid[i]])
               PROVE  FALSE
    BY DEF StrongFirst
  <2>1. grid \in Seq(Stories) /\ grid # <<>> /\ ListOK /\ ShownCity
    BY <1>1 DEF FeedOK, ScreenOK, TypeOK, PageOK
  <2>2. i \in DOMAIN grid
    BY <2>1
  <2> DEFINE low == grid[i]
             high == grid[k]
  <2>3. low \in Stories /\ high \in Stories
    BY <2>1, <2>2
  <2>4. low \in Listed(selected) /\ high \in Listed(selected)
    BY <2>1, <2>2, <2>3 DEF ShownCity, Shown, Listed, Admitted
  <2>5. Calm \/ Still
    BY <1>1, <2>1, CardsInFeed DEF Calm, Still
  <2>6. Sooner(low, high)
    BY <2>1, <2>4, <2>5 DEF ListOK
  <2>7. Keyed(low).score = Score[low] /\ Keyed(high).score = Score[high]
    BY DEF Keyed
  <2>8. /\ Score[low] \in Printed(Levels[low]) /\ Score[low] \in Nat
        /\ Levels[low] \in Judgements
    BY <2>3, ScoreType
  <2>9. /\ Score[high] \in Printed(Levels[high]) /\ Score[high] \in Nat
        /\ Levels[high] \in Judgements
    BY <2>3, ScoreType
  <2>10. Score[low] < Score[high]
    BY <2>8, <2>9, OutweighingShows
  <2>11. Score[low] >= Score[high]
    BY <2>6, <2>7, <2>8, <2>9 DEF Sooner, Before, Stronger
  <2> QED
    BY <2>8, <2>9, <2>10, <2>11
<1> QED
  BY <1>1, FeedAlways, PTL
=============================================================================
