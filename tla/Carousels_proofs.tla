--------------------------- MODULE Carousels_proofs ---------------------------
(***************************************************************************)
(* What the carousel service keeps. First decks: what lining up a set of   *)
(* rows and inserting, moving and removing slides yield. Then the tables,  *)
(* one step of a handler at a time, whatever the requests in flight; last  *)
(* what saves that nothing crosses keep of a deck.                         *)
(***************************************************************************)
EXTENDS Crossings, Lists_proofs

\* The rows of several batches come one after the other, none of them lost sight of.
LEMMA LinedPlaces ==
  ASSUME NEW batches \in Seq(Batch)
  PROVE  LET S == Places(batches) IN
         /\ IsFiniteSet(S) /\ TotalOrder(S, Precedence(S)) /\ Cardinality(S) \in Nat
         /\ Lined(S, Precedence(S)) \in [1..Cardinality(S) -> S]
<1> DEFINE S == Places(batches)
           parts == [i \in DOMAIN batches |-> {i} \X DOMAIN batches[i].deck]
           R == Precedence(S)
<1>1. \A i \in DOMAIN batches : /\ i \in Nat
                                /\ batches[i].deck \in Seq(Slides)
                                /\ DOMAIN batches[i].deck \in SUBSET Nat
                                /\ IsFiniteSet(DOMAIN batches[i].deck)
  <2>1. \A i \in DOMAIN batches : batches[i] \in Batch /\ i \in Nat
    OBVIOUS
  <2>2. \A i \in DOMAIN batches : batches[i].deck \in Seq(Slides)
    BY <2>1 DEF Batch
  <2>3. QED
    BY <2>1, <2>2, Indices
<1>2. IsFiniteSet(S)
  <2> DEFINE all == {parts[i] : i \in DOMAIN batches}
  <2>1. S = UNION all
    BY DEF Places
  <2>2. \A i \in DOMAIN batches : IsFiniteSet(parts[i])
    <3> SUFFICES ASSUME NEW i \in DOMAIN batches
                 PROVE  IsFiniteSet({i} \X DOMAIN batches[i].deck)
      OBVIOUS
    <3>1. IsFiniteSet({i})
      BY FS_Singleton
    <3>2. QED
      BY <1>1, <3>1, FS_Product
  <2>3. parts \in Surjection(DOMAIN batches, all)
    BY DEF Surjection
  <2>4. IsFiniteSet(DOMAIN batches)
    BY Indices
  <2>5. \A T \in all : IsFiniteSet(T)
    BY <2>2
  <2> HIDE DEF all, parts, S
  <2>6. IsFiniteSet(all)
    BY <2>3, <2>4, FS_Surjection
  <2>7. QED
    BY <2>1, <2>5, <2>6, FS_UNION
<1>3. S \in SUBSET (Nat \X Nat)
  BY <1>1 DEF Places
<1>4. TotalOrder(S, R)
  <2>1. \A x \in S : x[1] \in Nat /\ x[2] \in Nat /\ x = <<x[1], x[2]>>
    BY <1>3
  <2> DEFINE before(x, y) == x[2] < y[2] \/ (x[2] = y[2] /\ x[1] < y[1])
  <2> HIDE DEF S
  <2>2. \A x, y \in S : <<x, y>> \in R <=> before(x, y)
    BY DEF Precedence
  <2> HIDE DEF R
  <2>3. \A x \in S : ~before(x, x)
    BY <2>1
  <2>4. \A x, y \in S : x = y \/ before(x, y) \/ before(y, x)
    BY <2>1
  <2>5. \A x, y, z \in S : before(x, y) /\ before(y, z) => before(x, z)
    BY <2>1
  <2>6. QED
    BY <2>2, <2>3, <2>4, <2>5 DEF TotalOrder
<1> HIDE DEF S
<1>5. Cardinality(S) \in Nat /\ Lined(S, R) \in [1..Cardinality(S) -> S]
  BY <1>2, <1>4, Lining
<1>6. QED
  BY <1>2, <1>4, <1>5 DEF S

-----------------------------------------------------------------------------
\* A deck with no stories but those of S.
Holds(deck, S) ==
  deck \in Seq(Slides) /\ \A i \in DOMAIN deck : deck[i] \in Stories => deck[i] \in S

LEMMA HeldStories ==
  ASSUME NEW deck, NEW S, Holds(deck, S)
  PROVE  StoriesIn(deck) \subseteq S
BY DEF Holds, StoriesIn, ToSet

\* What several saves left of each other is of them.
LEMMA MergedHolds ==
  ASSUME NEW batches \in Seq(Batch), NEW S,
         \A i \in DOMAIN batches : Holds(batches[i].deck, S)
  PROVE  Holds(Merged(batches), S)
<1> DEFINE P == Places(batches)
           place == Lined(P, Precedence(P))
<1>1. Cardinality(P) \in Nat /\ place \in [1..Cardinality(P) -> P]
  BY LinedPlaces
<1>2. \A x \in P : x[1] \in DOMAIN batches /\ x[2] \in DOMAIN batches[x[1]].deck
  BY DEF Places
<1>3. Merged(batches) =
        [n \in 1..Cardinality(P) |-> batches[place[n][1]].deck[place[n][2]]]
  BY DEF Merged
<1> HIDE DEF P, place
<1>4. \A n \in 1..Cardinality(P) :
        /\ batches[place[n][1]].deck[place[n][2]] \in Slides
        /\ batches[place[n][1]].deck[place[n][2]] \in Stories =>
             batches[place[n][1]].deck[place[n][2]] \in S
  <2> SUFFICES ASSUME NEW n \in 1..Cardinality(P)
               PROVE  LET slide == batches[place[n][1]].deck[place[n][2]] IN
                      slide \in Slides /\ (slide \in Stories => slide \in S)
    OBVIOUS
  <2>1. place[n] \in P
    BY <1>1
  <2>2. /\ place[n][1] \in DOMAIN batches
        /\ place[n][2] \in DOMAIN batches[place[n][1]].deck
    BY <1>2, <2>1
  <2>3. Holds(batches[place[n][1]].deck, S)
    BY <2>2
  <2>4. QED
    BY <2>2, <2>3 DEF Holds
<1>5. PICK deck : deck = Merged(batches)
  OBVIOUS
<1>6. /\ DOMAIN deck = 1..Cardinality(P)
      /\ \A n \in 1..Cardinality(P) : deck[n] = batches[place[n][1]].deck[place[n][2]]
      /\ deck = [n \in 1..Cardinality(P) |-> deck[n]]
  BY <1>3, <1>5
<1>7. deck \in [1..Cardinality(P) -> Slides]
  BY <1>4, <1>6
<1>8. deck \in Seq(Slides)
  BY <1>1, <1>7, SeqDef
<1>9. \A i \in DOMAIN deck : deck[i] \in Stories => deck[i] \in S
  BY <1>4, <1>6, Zenon
<1>10. QED
  BY <1>5, <1>8, <1>9, Zenon DEF Holds

\* Cutting, joining and moving slides brings no story into a deck.
LEMMA JoinedHolds ==
  ASSUME NEW S, NEW a, NEW b, Holds(a, S), Holds(b, S)
  PROVE  Holds(a \o b, S)
<1>1. a \in Seq(Slides) /\ b \in Seq(Slides)
  BY DEF Holds
<1>2. \A i \in DOMAIN (a \o b) :
        \/ i \in DOMAIN a /\ (a \o b)[i] = a[i]
        \/ i - Len(a) \in DOMAIN b /\ (a \o b)[i] = b[i - Len(a)]
  BY <1>1
<1>3. a \o b \in Seq(Slides)
  BY <1>1
<1>4. QED
  BY <1>2, <1>3 DEF Holds

LEMMA CutHolds ==
  ASSUME NEW S, NEW a, Holds(a, S), NEW m \in Nat \ {0}, NEW n \in 0..Len(a)
  PROVE  Holds(SubSeq(a, m, n), S)
<1>1. a \in Seq(Slides)
  BY DEF Holds
<1>2. \A i \in DOMAIN SubSeq(a, m, n) :
        i + m - 1 \in DOMAIN a /\ SubSeq(a, m, n)[i] = a[i + m - 1]
  BY <1>1
<1>3. SubSeq(a, m, n) \in Seq(Slides)
  BY <1>1
<1>4. QED
  BY <1>2, <1>3 DEF Holds

LEMMA OneHolds ==
  ASSUME NEW S, NEW slide \in Slides, slide \in Stories => slide \in S
  PROVE  Holds(<<slide>>, S) /\ Holds(<<>>, S)
BY DEF Holds

LEMMA RemovedHolds ==
  ASSUME NEW S, NEW a, Holds(a, S), NEW i \in DOMAIN a
  PROVE  Holds(RemoveAt(a, i), S) /\ Len(RemoveAt(a, i)) = Len(a) - 1
<1>1. a \in Seq(Slides) /\ i \in 1..Len(a)
  BY DEF Holds
<1>2. Holds(SubSeq(a, 1, i - 1), S) /\ Holds(SubSeq(a, i + 1, Len(a)), S)
  BY <1>1, CutHolds
<1>3. Len(SubSeq(a, 1, i - 1)) = i - 1 /\ Len(SubSeq(a, i + 1, Len(a))) = Len(a) - i
  BY <1>1
<1>4. /\ SubSeq(a, 1, i - 1) \in Seq(Slides)
      /\ SubSeq(a, i + 1, Len(a)) \in Seq(Slides)
  BY <1>1
<1>5. Len(RemoveAt(a, i)) = Len(SubSeq(a, 1, i - 1)) + Len(SubSeq(a, i + 1, Len(a)))
  BY <1>4 DEF RemoveAt
<1>6. Holds(RemoveAt(a, i), S)
  BY <1>2, JoinedHolds DEF RemoveAt
<1>7. QED
  BY <1>1, <1>3, <1>5, <1>6

LEMMA MovedHolds ==
  ASSUME NEW S, NEW a, Holds(a, S), NEW i \in DOMAIN a, NEW j \in DOMAIN a
  PROVE  Holds(Moved(a, i, j), S)
<1> DEFINE b == RemoveAt(a, i)
<1>1. a \in Seq(Slides) /\ j \in 1..Len(a)
  BY DEF Holds
<1>2. Holds(b, S) /\ Len(b) = Len(a) - 1
  BY RemovedHolds
<1>3. Holds(<<a[i]>>, S)
  BY OneHolds DEF Holds
<1> HIDE DEF b
<1>4. Holds(SubSeq(b, 1, j - 1), S)
  BY <1>1, <1>2, CutHolds
<1>5. Holds(SubSeq(b, j, Len(b)), S)
  BY <1>1, <1>2, CutHolds
<1>6. Holds(SubSeq(b, 1, j - 1) \o <<a[i]>>, S)
  BY <1>3, <1>4, JoinedHolds
<1>7. Holds(SubSeq(b, 1, j - 1) \o <<a[i]>> \o SubSeq(b, j, Len(b)), S)
  BY <1>5, <1>6, JoinedHolds
<1>8. QED
  BY <1>7 DEF Moved, InsertAt, b

LEMMA AppendedHolds ==
  ASSUME NEW S, NEW a, Holds(a, S)
  PROVE  Holds(Append(a, Blank), S)
<1>1. a \in Seq(Slides) /\ Blank \in Slides /\ Blank \notin Stories
  BY CarouselsAssumption DEF Holds, Slides
<1>2. Append(a, Blank) = a \o <<Blank>>
  BY <1>1
<1>3. QED
  BY <1>1, <1>2, OneHolds, JoinedHolds

\* The stories of a request make slides of those stories.
LEMMA InOrderHolds ==
  ASSUME NEW stories
  PROVE  Holds(InOrder(stories), stories)
<1> DEFINE I == {i \in DOMAIN Ranked : Ranked[i] \in stories}
<1>1. Ranked \in Seq(Stories) /\ Stories \subseteq Slides /\ I \in SUBSET (DOMAIN Ranked)
  BY CarouselsAssumption DEF Slides
<1>2. /\ Part(Ranked, I) \in Seq(Stories)
      /\ \A n \in DOMAIN Part(Ranked, I) : \E i \in I : Part(Ranked, I)[n] = Ranked[i]
  <2> HIDE DEF I
  <2>1. QED
    BY <1>1, PartOf
<1>3. \A n \in DOMAIN Part(Ranked, I) : Part(Ranked, I)[n] \in stories
  BY <1>2
<1>4. Part(Ranked, I) \in Seq(Slides)
  BY <1>1, <1>2
<1>5. QED
  BY <1>3, <1>4 DEF Holds, InOrder

LEMMA BuiltHolds ==
  ASSUME NEW stories
  PROVE  Holds(Built(stories), stories) /\ Built(stories) # <<>>
<1>1. Intro \in Slides /\ Cta \in Slides /\ Intro \notin Stories /\ Cta \notin Stories
  BY CarouselsAssumption DEF Slides
<1>2. Holds(<<Intro>>, stories) /\ Holds(<<Cta>>, stories) /\ Holds(InOrder(stories), stories)
  BY <1>1, OneHolds, InOrderHolds
<1>3. Holds(<<Intro>> \o InOrder(stories), stories)
  BY <1>2, JoinedHolds
<1>4. Holds(<<Intro>> \o InOrder(stories) \o <<Cta>>, stories)
  BY <1>2, <1>3, JoinedHolds
<1>5. Len(<<Intro>> \o InOrder(stories) \o <<Cta>>) > 0
  <2>1. <<Intro>> \o InOrder(stories) \in Seq(Slides) /\ <<Cta>> \in Seq(Slides)
    BY <1>2, <1>3 DEF Holds
  <2>2. QED
    BY <2>1
<1>6. QED
  BY <1>4, <1>5 DEF Built

LEMMA InsertedHolds ==
  ASSUME NEW S, NEW deck, Holds(deck, S), NEW stories
  PROVE  Holds(Inserted(deck, stories), S \cup stories)
<1> DEFINE I == {i \in 1..Len(deck) : deck[i] = Cta}
           closing == IF I # {} THEN Min(I) ELSE 0
           at == IF closing = 0 THEN Len(deck) + 1 ELSE closing
           U == S \cup stories
<1>1. deck \in Seq(Slides) /\ Holds(deck, U)
  BY DEF Holds
<1>2. closing \in 0..Len(deck)
  <2>1. I \in SUBSET (DOMAIN deck)
    BY <1>1
  <2>2. I # {} => Min(I) \in I
    BY <1>1, <2>1, First DEF Min
  <2>3. QED
    BY <1>1, <2>2
<1>3. at \in 1..(Len(deck) + 1)
  BY <1>1, <1>2
<1>4. Inserted(deck, stories) =
        SubSeq(deck, 1, at - 1) \o InOrder(stories) \o SubSeq(deck, at, Len(deck))
  BY DEF Inserted, SelectInSeq
<1> HIDE DEF at, closing
<1>5. Holds(SubSeq(deck, 1, at - 1), U) /\ Holds(SubSeq(deck, at, Len(deck)), U)
  BY <1>1, <1>3, CutHolds
<1>6. Holds(InOrder(stories), U)
  BY InOrderHolds DEF Holds
<1>7. Holds(SubSeq(deck, 1, at - 1) \o InOrder(stories), U)
  BY <1>5, <1>6, JoinedHolds
<1>8. QED
  BY <1>4, <1>5, <1>7, JoinedHolds

-----------------------------------------------------------------------------
\* The evidence: the stories recorded as picked into a carousel.
Into(k) == {p.story : p \in {q \in picks : q.carousel = k}}

\* An id the table has handed out, for a carousel that may be deleted by now.
Born(k) == k \in CarouselIds /\ city[k] # None

\* What an add will record with the deck it writes.
Promised(r) ==
  IF request[r].op = "add" /\ request[r].stage = "ready" THEN request[r].stories ELSE {}

\* A request names a carousel that was made, and the deck it has, to write or as its
\* answer, has no stories but those picked into that.
RequestOK(r) ==
  /\ request[r].stage # "idle" => request[r].number \in Numbers
  /\ request[r].carousel # None => Born(request[r].carousel)
  /\ request[r].op \in {"add", "save", "open", "delete", "zip"} => request[r].carousel # None
  /\ request[r].stage \in {"committed", "done"} => request[r].carousel # None
  /\ request[r].op = "create" /\ request[r].stage = "sent" => request[r].deck = <<>>
  /\ request[r].stage # "failed" /\ request[r].carousel \in exists =>
       Holds(request[r].deck, Into(request[r].carousel) \cup Promised(r))

\* Nor has a deck that is stored.
RowsOK ==
  \A k \in exists :
    /\ Born(k)
    /\ \A i \in DOMAIN rows[k] : Holds(rows[k][i].deck, Into(k))

ServiceInv == TypeOK /\ RowsOK /\ \A r \in Requests : RequestOK(r)

\* A step makes no id unborn, brings no carousel back, and takes no pick from one
\* that stays.
KeptOn ==
  \A k \in CarouselIds : city[k] # None =>
    /\ city'[k] # None
    /\ k \in exists' => k \in exists /\ Into(k) \subseteq Into(k)'

LEMMA HoldsMore ==
  ASSUME NEW deck, NEW S, NEW U, S \subseteq U, Holds(deck, S)
  PROVE  Holds(deck, U)
BY DEF Holds

\* Requests that a step does not touch are as good after it.
LEMMA OthersOK ==
  ASSUME ServiceInv, KeptOn, exists' \subseteq CarouselIds,
         NEW q \in Requests, request'[q] = request[q]
  PROVE  RequestOK(q)'
<1> DEFINE k == request[q].carousel
           S == Into(k) \cup Promised(q)
           U == Into(k)' \cup Promised(q)
<1>1. RequestOK(q) /\ request[q] \in Request
  BY DEF ServiceInv, TypeOK
<1>2. k # None => k \in CarouselIds /\ city[k] # None
  BY <1>1 DEF RequestOK, Born
<1>3. k # None => Born(k)'
  BY <1>2 DEF KeptOn, Born
<1>4. Promised(q)' = Promised(q)
  BY DEF Promised
<1>5. ASSUME request[q].stage # "failed", k \in exists' PROVE Holds(request[q].deck, U)
  <2>1. k # None
    BY <1>5, CarouselsAssumption
  <2>2. k \in exists /\ S \subseteq U
    BY <1>2, <1>5, <2>1 DEF KeptOn
  <2>3. Holds(request[q].deck, S)
    BY <1>1, <1>5, <2>2 DEF RequestOK
  <2> HIDE DEF S, U
  <2>4. QED
    BY <2>2, <2>3, HoldsMore
<1>6. QED
  BY <1>1, <1>3, <1>4, <1>5 DEF RequestOK

\* Steps that change one request and no table.
LEMMA TablesAlone ==
  ASSUME ServiceInv, NEW r \in Requests, UNCHANGED <<exists, city, rows, stamp, picks>>,
         sent' \in 0..MaxRequests, NEW new \in Request,
         request' = [request EXCEPT ![r] = new], RequestOK(r)'
  PROVE  ServiceInv' /\ KeptOn
<1>1. KeptOn
  BY DEF KeptOn, Into
<1>2. TypeOK'
  BY DEF ServiceInv, TypeOK
<1>3. RowsOK'
  BY DEF ServiceInv, RowsOK, Born, Into
<1>4. ASSUME NEW q \in Requests, q # r PROVE RequestOK(q)'
  <2>1. request'[q] = request[q] /\ exists' \subseteq CarouselIds
    BY <1>4 DEF ServiceInv, TypeOK
  <2>2. QED
    BY <1>1, <2>1, OthersOK
<1>5. QED
  BY <1>1, <1>2, <1>3, <1>4 DEF ServiceInv

\* Sending a deck to a carousel that was made, with no stories but its own.
LEMMA SendOK ==
  ASSUME ServiceInv, NEW r \in Requests,
         NEW op \in {"create", "add", "save", "open", "delete", "zip"},
         NEW k \in CarouselIds \cup {None}, NEW stories \in SUBSET Stories,
         NEW deck \in Seq(Slides), Send(r, op, k, stories, deck),
         k # None => Born(k), op # "create" => k # None, op = "create" => deck = <<>>,
         k \in exists => Holds(deck, Into(k))
  PROVE  ServiceInv' /\ KeptOn
<1> DEFINE new == [Idle EXCEPT !.op = op, !.stage = "sent", !.carousel = k,
                               !.stories = stories, !.deck = deck, !.number = sent + 1]
<1>1. request' = [request EXCEPT ![r] = new]
  BY DEF Send
<1>2. sent \in 0..MaxRequests /\ request \in [Requests -> Request] /\ MaxRequests \in Nat
  BY CarouselsAssumption DEF ServiceInv, TypeOK
<1>3. sent + 1 \in Numbers /\ sent' \in 0..MaxRequests
  BY <1>2 DEF Send, Numbers
<1>4. /\ new.op = op /\ new.stage = "sent" /\ new.carousel = k
      /\ new.deck = deck /\ new.number = sent + 1
  BY DEF Idle
<1>5. UNCHANGED <<exists, city, rows, stamp, picks>>
  BY DEF Send
<1>6. new \in Request
  <2>1. Idle \in Request
    BY <1>2 DEF Idle, Request, Stamp, Unstamped
  <2>2. sent + 1 \in 0..MaxRequests
    BY <1>2, <1>3 DEF Numbers
  <2>3. QED
    BY <2>1, <2>2 DEF Request
<1> HIDE DEF new
<1>7. request'[r] = new
  BY <1>1, <1>2
<1>8. RequestOK(r)'
  <2>1. Promised(r)' = {}
    BY <1>4, <1>7 DEF Promised
  <2>2. (k # None => Born(k)') /\ (k \in exists' => Holds(deck, Into(k)'))
    BY <1>5 DEF Born, Into
  <2>3. QED
    BY <1>3, <1>4, <1>7, <2>1, <2>2 DEF RequestOK
<1>9. QED
  BY <1>1, <1>3, <1>5, <1>6, <1>8, TablesAlone

\* The deck that is stored, in type and in what it holds.
LEMMA StoredHolds ==
  ASSUME ServiceInv, NEW k \in CarouselIds
  PROVE  Holds(Deck(k), Stories) /\ (k \in exists => Holds(Deck(k), Into(k)))
<1>1. rows[k] \in Seq(Batch)
  BY DEF ServiceInv, TypeOK
<1>2. \A i \in DOMAIN rows[k] : Holds(rows[k][i].deck, Stories)
  <2>1. \A i \in DOMAIN rows[k] : rows[k][i] \in Batch
    BY <1>1
  <2>2. QED
    BY <2>1 DEF Batch, Holds
<1>3. k \in exists => \A i \in DOMAIN rows[k] : Holds(rows[k][i].deck, Into(k))
  BY DEF ServiceInv, RowsOK
<1>4. Holds(Merged(rows[k]), Stories)
  BY <1>1, <1>2, MergedHolds
<1>5. k \in exists => Holds(Merged(rows[k]), Into(k))
  BY <1>1, <1>3, MergedHolds
<1>6. QED
  BY <1>4, <1>5 DEF Deck

\* Facts about the request a handler works on.
LEMMA TheRequest ==
  ASSUME ServiceInv, NEW r \in Requests
  PROVE  /\ request \in [Requests -> Request] /\ request[r] \in Request
         /\ RequestOK(r) /\ sent \in 0..MaxRequests /\ exists \subseteq CarouselIds
BY DEF ServiceInv, TypeOK

\* A request that is refused or lost.
LEMMA FailedOK ==
  ASSUME ServiceInv, NEW r \in Requests, UNCHANGED <<exists, city, rows, stamp, picks, sent>>,
         Step(r, "failed"), request[r].stage # "idle"
  PROVE  ServiceInv' /\ KeptOn
<1> DEFINE new == [request[r] EXCEPT !.stage = "failed"]
<1>1. /\ request \in [Requests -> Request] /\ request[r] \in Request
      /\ RequestOK(r) /\ sent \in 0..MaxRequests
  BY TheRequest
<1>2. request' = [request EXCEPT ![r] = new]
  BY DEF Step
<1>3. new \in Request
  BY <1>1 DEF Request
<1>4. /\ new.stage = "failed" /\ new.op = request[r].op
      /\ new.carousel = request[r].carousel /\ new.number = request[r].number
  BY <1>1 DEF Request
<1> HIDE DEF new
<1>5. request'[r] = new
  BY <1>1, <1>2
<1>6. RequestOK(r)'
  BY <1>1, <1>4, <1>5 DEF RequestOK, Born
<1>7. QED
  BY <1>1, <1>2, <1>3, <1>6, TablesAlone

\* The request is answered, and its place is free.
LEMMA ReceivedOK ==
  ASSUME ServiceInv, NEW r \in Requests, Receive(r)
  PROVE  ServiceInv' /\ KeptOn
<1>1. /\ request \in [Requests -> Request]
      /\ sent \in 0..MaxRequests /\ exists \subseteq CarouselIds
  BY TheRequest
<1>2. request' = [request EXCEPT ![r] = Idle]
  BY DEF Receive
<1>3. Idle \in Request
  BY <1>1, CarouselsAssumption DEF Idle, Request, Stamp, Unstamped
<1>4. UNCHANGED <<exists, city, rows, stamp, picks, sent>>
  BY DEF Receive
<1>5. request'[r] = Idle
  BY <1>1, <1>2
<1>6. None \notin exists'
  BY <1>1, <1>4, CarouselsAssumption
<1>7. RequestOK(r)'
  BY <1>5, <1>6 DEF RequestOK, Idle
<1>8. QED
  BY <1>1, <1>2, <1>3, <1>4, <1>7, TablesAlone

LEMMA GetOK ==
  ASSUME ServiceInv, NEW r \in Requests, Get(r)
  PROVE  ServiceInv' /\ KeptOn
<1>. PICK k : k = request[r].carousel
  OBVIOUS
<1> DEFINE numbers == {b.number : b \in ToSet(rows[k])}
           stage == IF request[r].op = "add" THEN "loaded" ELSE "ready"
           new == [request[r] EXCEPT !.stage = stage, !.loaded = numbers, !.held = stamp[k]]
<1>1. /\ request \in [Requests -> Request] /\ request[r] \in Request
      /\ RequestOK(r) /\ sent \in 0..MaxRequests /\ exists \subseteq CarouselIds
  BY TheRequest
<1>2. UNCHANGED <<exists, city, rows, stamp, picks, sent>>
  BY DEF Get
<1>5. request[r].stage = "sent"
  BY DEF Get
<1>0. CASE k \notin exists
  <2>1. Step(r, "failed")
    BY <1>0 DEF Get
  <2>2. QED
    BY <1>2, <1>5, <2>1, FailedOK
<1>13. ASSUME k \in exists PROVE ServiceInv' /\ KeptOn
  <2>1. numbers \in SUBSET Numbers
    <3>1. rows[k] \in Seq(Batch)
      BY <1>1, <1>13 DEF ServiceInv, TypeOK
    <3>2. ToSet(rows[k]) \subseteq Batch
      BY <3>1 DEF ToSet
    <3>3. QED
      BY <3>2 DEF Batch
  <2>2. stamp[k] \in Stamp
    BY <1>1, <1>13 DEF ServiceInv, TypeOK
  <2>3. request' = [request EXCEPT ![r] = new]
    BY <1>13 DEF Get
  <2> HIDE DEF numbers
  <2>4. new \in Request
    BY <1>1, <2>1, <2>2 DEF Request
  <2>5. /\ new.stage = stage /\ new.op = request[r].op /\ new.deck = request[r].deck
        /\ new.carousel = request[r].carousel /\ new.number = request[r].number
    BY <1>1 DEF Request
  <2> HIDE DEF new
  <2>6. request'[r] = new
    BY <1>1, <2>3
  <2>7. Promised(r) = {} /\ Promised(r)' = {}
    BY <1>5, <2>5, <2>6 DEF Promised
  <2>8. (k # None => Born(k)') /\ Into(k)' = Into(k)
    <3>1. k # None => Born(k)'
      BY <1>1, <1>2 DEF RequestOK, Born
    <3>2. Into(k)' = Into(k)
      BY <1>2 DEF Into
    <3>3. QED
      BY <3>1, <3>2
  <2>9. Holds(request[r].deck, Into(k))
    BY <1>1, <1>5, <1>13, <2>7 DEF RequestOK
  <2>10. stage \notin {"idle", "committed", "done"}
    OBVIOUS
  <2> HIDE DEF stage
  <2>11. RequestOK(r)'
    BY <1>1, <1>2, <1>5, <2>5, <2>6, <2>7, <2>8, <2>9, <2>10 DEF RequestOK
  <2>12. QED
    BY <1>1, <1>2, <2>3, <2>4, <2>11, TablesAlone
<1>14. QED
  BY <1>0, <1>13

LEMMA ComposeOK ==
  ASSUME ServiceInv, NEW r \in Requests, Compose(r)
  PROVE  ServiceInv' /\ KeptOn
<1>. PICK k : k = request[r].carousel
  OBVIOUS
<1> DEFINE fresh == Fresh(request[r].stories, Deck(k))
           deck == Inserted(Deck(k), fresh)
           new == [request[r] EXCEPT !.stage = "ready", !.stories = fresh, !.deck = deck]
<1>1. /\ request \in [Requests -> Request] /\ request[r] \in Request
      /\ RequestOK(r) /\ sent \in 0..MaxRequests /\ exists \subseteq CarouselIds
  BY TheRequest
<1>2. UNCHANGED <<exists, city, rows, stamp, picks, sent>>
  BY DEF Compose
<1>3. request[r].op = "add" /\ request[r].stage = "loaded"
  BY DEF Compose, At
<1>4. CASE Step(r, "failed")
  BY <1>2, <1>3, <1>4, FailedOK
<1>5. CASE request' = [request EXCEPT ![r].stage = "ready", ![r].stories = fresh, ![r].deck = deck]
  <2>1. k \in CarouselIds /\ city[k] # None /\ k # None
    BY <1>1, <1>3 DEF RequestOK, Born
  <2>2. fresh \in SUBSET Stories
    BY <1>1 DEF Fresh, Request
  <2>3. Holds(Deck(k), Stories) /\ (k \in exists => Holds(Deck(k), Into(k)))
    BY <2>1, StoredHolds
  <2> HIDE DEF fresh
  <2>4. Holds(deck, Stories \cup fresh) /\ (k \in exists => Holds(deck, Into(k) \cup fresh))
    BY <2>3, InsertedHolds
  <2>5. deck \in Seq(Slides)
    BY <2>4 DEF Holds
  <2>6. request' = [request EXCEPT ![r] = new]
    BY <1>1, <1>5
  <2> HIDE DEF deck
  <2>7. new \in Request
    BY <1>1, <2>2, <2>5 DEF Request
  <2>8. /\ new.stage = "ready" /\ new.op = request[r].op /\ new.deck = deck
        /\ new.carousel = request[r].carousel /\ new.number = request[r].number
        /\ new.stories = fresh
    BY <1>1 DEF Request
  <2> HIDE DEF new
  <2>9. request'[r] = new
    BY <1>1, <2>6
  <2>10. Promised(r)' = fresh
    BY <1>3, <2>8, <2>9 DEF Promised
  <2>11. RequestOK(r)'
    <3>1. Born(k)' /\ request[r].number \in Numbers
      BY <1>1, <1>2, <1>3, <2>1 DEF Born, RequestOK
    <3>2. Into(k)' = Into(k)
      BY <1>2 DEF Into
    <3>3. QED
      BY <1>2, <2>1, <2>4, <2>8, <2>9, <2>10, <3>1, <3>2 DEF RequestOK
  <2>12. QED
    BY <1>1, <1>2, <2>6, <2>7, <2>11, TablesAlone
<1>6. QED
  BY <1>4, <1>5 DEF Compose

LEMMA RespondOK ==
  ASSUME ServiceInv, NEW r \in Requests, Respond(r)
  PROVE  ServiceInv' /\ KeptOn
<1>. PICK k : k = request[r].carousel
  OBVIOUS
<1> DEFINE new == [request[r] EXCEPT !.stage = "done", !.deck = Deck(k)]
<1>1. /\ request \in [Requests -> Request] /\ request[r] \in Request
      /\ RequestOK(r) /\ sent \in 0..MaxRequests /\ exists \subseteq CarouselIds
  BY TheRequest
<1>2. UNCHANGED <<exists, city, rows, stamp, picks, sent>>
  BY DEF Respond
<1>3. \/ request[r].stage = "committed"
      \/ request[r].op = "open" /\ request[r].stage = "sent"
  BY DEF Respond, At
<1>4. CASE Step(r, "failed")
  BY <1>2, <1>3, <1>4, FailedOK
<1>5. CASE k \in exists /\ request' = [request EXCEPT ![r].stage = "done", ![r].deck = Deck(k)]
  <2>1. k \in CarouselIds /\ k # None /\ Born(k)
    BY <1>1, <1>5, CarouselsAssumption DEF RequestOK
  <2>2. Holds(Deck(k), Into(k))
    BY <1>5, <2>1, StoredHolds
  <2>3. Deck(k) \in Seq(Slides)
    BY <2>2 DEF Holds
  <2>4. request' = [request EXCEPT ![r] = new]
    BY <1>1, <1>5
  <2>5. new \in Request
    BY <1>1, <2>3 DEF Request
  <2>6. /\ new.stage = "done" /\ new.op = request[r].op /\ new.deck = Deck(k)
        /\ new.carousel = request[r].carousel /\ new.number = request[r].number
    BY <1>1 DEF Request
  <2> HIDE DEF new
  <2>7. request'[r] = new
    BY <1>1, <2>4
  <2>8. RequestOK(r)'
    <3>1. Born(k)' /\ request[r].number \in Numbers
      BY <1>1, <1>2, <1>3, <2>1 DEF Born, RequestOK
    <3>2. Into(k)' = Into(k)
      BY <1>2 DEF Into
    <3>3. Holds(Deck(k), Into(k) \cup Promised(r)')
      BY <2>2, HoldsMore
    <3>4. QED
      BY <1>2, <2>1, <2>6, <2>7, <3>1, <3>2, <3>3 DEF RequestOK
  <2>9. QED
    BY <1>1, <1>2, <2>4, <2>5, <2>8, TablesAlone
<1>6. QED
  BY <1>4, <1>5 DEF Respond

\* Steps that commit: it is enough to look at the tables and at the request.
LEMMA Committed ==
  ASSUME ServiceInv, NEW r \in Requests, UNCHANGED sent, NEW new \in Request,
         request' = [request EXCEPT ![r] = new],
         exists' \subseteq CarouselIds,
         city' \in [CarouselIds -> Cities \cup {None}],
         rows' \in [CarouselIds -> Seq(Batch)],
         stamp' \in [CarouselIds -> Stamp],
         picks' \subseteq Pick,
         RowsOK', KeptOn, RequestOK(r)'
  PROVE  ServiceInv'
<1>1. TypeOK'
  BY DEF ServiceInv, TypeOK
<1>2. ASSUME NEW q \in Requests, q # r PROVE RequestOK(q)'
  <2>1. request'[q] = request[q]
    BY <1>2 DEF ServiceInv, TypeOK
  <2>2. QED
    BY <2>1, OthersOK
<1>3. QED
  BY <1>1, <1>2 DEF ServiceInv

\* What is recorded was picked.
LEMMA RecordedInto ==
  ASSUME NEW r, NEW k, NEW stories, picks' = picks \cup Recorded(r, k, stories)
  PROVE  (\A c : Into(c) \subseteq Into(c)') /\ stories \subseteq Into(k)'
<1>1. \A c : Into(c) \subseteq Into(c)'
  BY DEF Into
<1>2. ASSUME NEW s \in stories PROVE s \in Into(k)'
  <2>1. [story |-> s, carousel |-> k, number |-> request[r].number] \in picks'
    BY DEF Recorded
  <2>2. \A p \in picks' : p.carousel = k => p.story \in Into(k)'
    BY DEF Into
  <2>3. /\ [story |-> s, carousel |-> k, number |-> request[r].number].carousel = k
        /\ [story |-> s, carousel |-> k, number |-> request[r].number].story = s
    OBVIOUS
  <2>4. QED
    BY <2>1, <2>2, <2>3
<1>3. QED
  BY <1>1, <1>2

LEMMA CreateOK ==
  ASSUME ServiceInv, NEW r \in Requests, NEW k \in CarouselIds, CommitCreate(r, k)
  PROVE  ServiceInv' /\ KeptOn
<1>. PICK stories : stories = request[r].stories
  OBVIOUS
<1> DEFINE new == [request[r] EXCEPT !.stage = "committed", !.carousel = k]
           deck == Built(stories)
           batch == [number |-> request[r].number, deck |-> deck]
<1>1. /\ request \in [Requests -> Request] /\ request[r] \in Request
      /\ RequestOK(r) /\ sent \in 0..MaxRequests /\ exists \subseteq CarouselIds
  BY TheRequest
<1>2. /\ request[r].op = "create" /\ request[r].stage = "sent" /\ city[k] = None
      /\ stories \in SUBSET Stories /\ request[r].number \in Numbers
      /\ exists' = exists \cup {k} /\ UNCHANGED sent
      /\ request' = [request EXCEPT ![r] = new]
  BY <1>1 DEF CommitCreate, At, Request, RequestOK
<1>3. PICK s \in stories : city' = [city EXCEPT ![k] = CityOf[s]]
  BY DEF CommitCreate
<1>4. CityOf[s] \in Cities /\ CityOf[s] # None
  BY <1>2, CarouselsAssumption
<1>5. Holds(deck, stories) /\ deck # <<>>
  BY BuiltHolds
<1>6. deck \in Seq(Slides)
  BY <1>5 DEF Holds
<1>7. rows' = [rows EXCEPT ![k] = <<batch>>]
  BY DEF CommitCreate
<1>8. picks' = picks \cup Recorded(r, k, stories)
  BY DEF CommitCreate
<1> HIDE DEF deck
<1>9. batch \in Batch /\ batch.deck = deck
  BY <1>2, <1>5, <1>6 DEF Batch
<1> HIDE DEF batch
<1>10. /\ new \in Request /\ new.stage = "committed" /\ new.carousel = k
       /\ new.number = request[r].number /\ new.deck = request[r].deck
  BY <1>1 DEF Request
<1> HIDE DEF new
<1>11. request'[r] = new
  BY <1>1, <1>2
<1>12. city' \in [CarouselIds -> Cities \cup {None}] /\ city'[k] # None
       /\ \A c \in CarouselIds \ {k} : city'[c] = city[c]
  BY <1>3, <1>4 DEF ServiceInv, TypeOK
<1>13. /\ rows' \in [CarouselIds -> Seq(Batch)] /\ rows'[k] = <<batch>>
       /\ \A c \in CarouselIds \ {k} : rows'[c] = rows[c]
  BY <1>7, <1>9 DEF ServiceInv, TypeOK
<1>14. stamp' \in [CarouselIds -> Stamp]
  <2>1. stamp \in [CarouselIds -> Stamp] /\ stamp[k] \in Stamp
    BY DEF ServiceInv, TypeOK
  <2>2. [stamp[k] EXCEPT !.edited = TRUE] \in Stamp
    BY <2>1 DEF Stamp
  <2>3. stamp' = [stamp EXCEPT ![k] = [stamp[k] EXCEPT !.edited = TRUE]]
    BY DEF CommitCreate
  <2>4. QED
    BY <2>1, <2>2, <2>3
<1>15. picks' \subseteq Pick
  BY <1>2, <1>8 DEF ServiceInv, TypeOK, Recorded, Pick
<1>16. \A c \in CarouselIds : Into(c) \subseteq Into(c)'
  BY <1>8, RecordedInto
<1>17. stories \subseteq Into(k)'
  BY <1>8, RecordedInto
<1>18. KeptOn
  BY <1>2, <1>12, <1>16 DEF KeptOn
<1>19. RowsOK'
  <2> SUFFICES ASSUME NEW c \in exists'
               PROVE  /\ Born(c)'
                      /\ \A i \in DOMAIN rows'[c] : Holds(rows'[c][i].deck, Into(c)')
    BY DEF RowsOK
  <2>1. CASE c = k
    <3>1. Holds(deck, Into(k)')
      BY <1>5, <1>17, HoldsMore
    <3>2. QED
      BY <1>9, <1>12, <1>13, <2>1, <3>1 DEF Born
  <2>2. CASE c # k
    <3>1. c \in exists /\ c \in CarouselIds /\ Born(c)
      BY <1>1, <1>2, <2>2 DEF ServiceInv, RowsOK
    <3>2. \A i \in DOMAIN rows[c] : Holds(rows[c][i].deck, Into(c)')
      <4>1. Into(c) \subseteq Into(c)'
        BY <1>16, <3>1
      <4>2. QED
        BY <3>1, <4>1, HoldsMore DEF ServiceInv, RowsOK
    <3>3. QED
      BY <1>12, <1>13, <2>2, <3>1, <3>2 DEF Born
  <2>3. QED
    BY <2>1, <2>2
<1>20. RequestOK(r)'
  <2>1. Holds(request[r].deck, Into(k)' \cup Promised(r)')
    <3>1. request[r].deck = <<>>
      BY <1>1, <1>2 DEF RequestOK
    <3>2. QED
      BY <3>1 DEF Holds
  <2>2. QED
    BY <1>2, <1>10, <1>11, <1>12, <2>1, CarouselsAssumption DEF RequestOK, Born
<1>21. QED
  BY <1>1, <1>2, <1>10, <1>12, <1>13, <1>14, <1>15, <1>18, <1>19, <1>20, Committed

\* A commit writes the column its session changed, whatever it holds of the other.
LEMMA FlushedEdit ==
  ASSUME NEW row \in Stamp, NEW copy \in Stamp, NEW edit,
         edit = Flushed(row, [copy EXCEPT !.edited = TRUE], {"edited"})
  PROVE  edit.edited = TRUE /\ edit.downloaded = row.downloaded /\ edit.downloaded \in BOOLEAN
BY DEF Flushed, Stamp

LEMMA FlushedFile ==
  ASSUME NEW row \in Stamp, NEW copy \in Stamp, NEW file,
         file = Flushed(row, [copy EXCEPT !.downloaded = TRUE], {"downloaded"})
  PROVE  file.downloaded = TRUE /\ file.edited = row.edited /\ file.edited \in BOOLEAN
BY DEF Flushed, Stamp

\* A deck that is saved: what the session did not load stays beside it.
LEMMA SavedRows ==
  ASSUME ServiceInv, NEW r \in Requests, NEW k \in CarouselIds, SaveDeck(r, k),
         request[r].number \in Numbers, Holds(request[r].deck, Into(k)'), k \in exists,
         Into(k) \subseteq Into(k)'
  PROVE  /\ rows' \in [CarouselIds -> Seq(Batch)]
         /\ stamp' \in [CarouselIds -> Stamp]
         /\ \A c \in CarouselIds \ {k} : rows'[c] = rows[c]
         /\ \A i \in DOMAIN rows'[k] : Holds(rows'[k][i].deck, Into(k)')
<1> DEFINE I == {i \in DOMAIN rows[k] : rows[k][i].number \notin request[r].loaded}
           batch == [number |-> request[r].number, deck |-> request[r].deck]
           new == IF request[r].deck = <<>> THEN <<>> ELSE <<batch>>
           left == Part(rows[k], I)
<1>1. rows \in [CarouselIds -> Seq(Batch)] /\ rows[k] \in Seq(Batch)
      /\ stamp \in [CarouselIds -> Stamp] /\ stamp[k] \in Stamp
  BY DEF ServiceInv, TypeOK
<1>2. \A i \in DOMAIN rows[k] : Holds(rows[k][i].deck, Into(k)')
  <2>1. \A i \in DOMAIN rows[k] : Holds(rows[k][i].deck, Into(k))
    BY DEF ServiceInv, RowsOK
  <2>2. QED
    BY <2>1, HoldsMore
<1>3. I \in SUBSET (DOMAIN rows[k])
  OBVIOUS
<1> HIDE DEF I
<1>4. /\ left \in Seq(Batch)
      /\ \A n \in DOMAIN left : \E i \in I : left[n] = rows[k][i]
  BY <1>1, <1>3, PartOf
<1>5. \A n \in DOMAIN left : Holds(left[n].deck, Into(k)')
  BY <1>2, <1>3, <1>4
<1>6. request[r].deck # <<>> => batch \in Batch
  <2>1. request[r].deck \in Seq(Slides)
    BY DEF Holds
  <2>2. QED
    BY <2>1 DEF Batch
<1>7. batch.deck = request[r].deck
  OBVIOUS
<1> HIDE DEF batch
<1>8. new \in Seq(Batch) /\ \A n \in DOMAIN new : Holds(new[n].deck, Into(k)')
  BY <1>6, <1>7
<1>9. rows' = [rows EXCEPT ![k] = left \o new]
  BY DEF SaveDeck, Replaced, I, batch
<1> HIDE DEF left, new
<1>10. left \o new \in Seq(Batch)
       /\ \A n \in DOMAIN (left \o new) :
            \/ n \in DOMAIN left /\ (left \o new)[n] = left[n]
            \/ n - Len(left) \in DOMAIN new /\ (left \o new)[n] = new[n - Len(left)]
  BY <1>4, <1>8
<1>11. \A n \in DOMAIN (left \o new) : Holds((left \o new)[n].deck, Into(k)')
  BY <1>5, <1>8, <1>10
<1>12. PICK edit : edit = Flushed(stamp[k], [request[r].held EXCEPT !.edited = TRUE], {"edited"})
  OBVIOUS
<1>13. stamp' \in [CarouselIds -> Stamp]
  <2>1. request[r].held \in Stamp
    BY TheRequest DEF Request
  <2>2. edit.edited \in BOOLEAN /\ edit.downloaded \in BOOLEAN
    BY <1>1, <1>12, <2>1, FlushedEdit
  <2>3. [edited |-> edit.edited, downloaded |-> edit.downloaded, stale |-> edit.downloaded]
          \in Stamp
    BY <2>2 DEF Stamp
  <2>4. stamp' = [stamp EXCEPT ![k] = [edited |-> edit.edited, downloaded |-> edit.downloaded,
                                      stale |-> edit.downloaded]]
    BY <1>12 DEF SaveDeck
  <2>5. QED
    BY <1>1, <2>3, <2>4
<1>14. /\ rows' \in [CarouselIds -> Seq(Batch)] /\ rows'[k] = left \o new
       /\ \A c \in CarouselIds \ {k} : rows'[c] = rows[c]
  BY <1>1, <1>9, <1>10
<1>15. QED
  BY <1>11, <1>13, <1>14

\* A step of a request on a carousel that was made, to a stage that promises nothing.
LEMMA StageOK ==
  ASSUME ServiceInv, NEW r \in Requests, NEW stage \in {"committed", "done"},
         request' = [request EXCEPT ![r].stage = stage],
         KeptOn, NEW k, k = request[r].carousel, k # None, request[r].number \in Numbers,
         k \in exists' => Holds(request[r].deck, Into(k)')
  PROVE  /\ [request[r] EXCEPT !.stage = stage] \in Request
         /\ request' = [request EXCEPT ![r] = [request[r] EXCEPT !.stage = stage]]
         /\ RequestOK(r)'
<1> DEFINE new == [request[r] EXCEPT !.stage = stage]
<1>1. request \in [Requests -> Request] /\ request[r] \in Request /\ RequestOK(r)
  BY TheRequest
<1>2. request' = [request EXCEPT ![r] = new]
  OBVIOUS
<1>3. /\ new \in Request /\ new.stage = stage /\ new.op = request[r].op
      /\ new.carousel = k /\ new.number = request[r].number /\ new.deck = request[r].deck
  BY <1>1 DEF Request
<1> HIDE DEF new
<1>4. request'[r] = new
  BY <1>1, <1>2
<1>5. Promised(r)' = {}
  BY <1>3, <1>4 DEF Promised
<1>6. Born(k)'
  BY <1>1 DEF RequestOK, KeptOn, Born
<1>7. RequestOK(r)'
  BY <1>3, <1>4, <1>5, <1>6 DEF RequestOK
<1>8. QED
  BY <1>2, <1>3, <1>7 DEF new

LEMMA WrittenOK ==
  ASSUME ServiceInv, NEW r \in Requests, CommitAdd(r) \/ CommitSave(r)
  PROVE  ServiceInv' /\ KeptOn
<1>. PICK k : k = request[r].carousel
  OBVIOUS
<1>. PICK stage \in {"committed", "done"} : request' = [request EXCEPT ![r].stage = stage]
  BY DEF CommitAdd, CommitSave, Step
<1>1. /\ request \in [Requests -> Request] /\ request[r] \in Request
      /\ RequestOK(r) /\ exists \subseteq CarouselIds
  BY TheRequest
<1>2. /\ k \in exists /\ k \in CarouselIds /\ SaveDeck(r, k) /\ UNCHANGED <<exists, city, sent>>
      /\ request[r].stage = "ready" /\ k # None
  BY <1>1, CarouselsAssumption DEF CommitAdd, CommitSave, At
<1>3. /\ request[r].number \in Numbers
      /\ Holds(request[r].deck, Into(k) \cup Promised(r))
  BY <1>1, <1>2 DEF RequestOK
<1>4. /\ picks' \subseteq Pick
      /\ \A c : Into(c) \subseteq Into(c)'
      /\ Into(k) \cup Promised(r) \subseteq Into(k)'
  <2>1. CASE CommitAdd(r)
    <3> DEFINE stories == request[r].stories
    <3>1. picks' = picks \cup Recorded(r, k, stories) /\ Promised(r) = stories
          /\ stories \subseteq Stories
      BY <1>1, <2>1 DEF CommitAdd, Promised, At, Request
    <3>2. picks' \subseteq Pick
      BY <1>2, <1>3, <3>1 DEF ServiceInv, TypeOK, Recorded, Pick
    <3>. PICK named : named = stories
      OBVIOUS
    <3>3. (\A c : Into(c) \subseteq Into(c)') /\ named \subseteq Into(k)'
      BY <3>1, RecordedInto
    <3>4. QED
      BY <3>1, <3>2, <3>3
  <2>2. CASE CommitSave(r)
    <3>1. Promised(r) = {} /\ picks' = picks
      BY <2>2 DEF CommitSave, Promised, At
    <3>2. \A c : Into(c)' = Into(c)
      BY <3>1 DEF Into
    <3>3. picks' \subseteq Pick
      BY <3>1 DEF ServiceInv, TypeOK
    <3>4. QED
      BY <3>1, <3>2, <3>3
  <2>3. QED
    BY <2>1, <2>2
<1>5. Holds(request[r].deck, Into(k)')
  BY <1>3, <1>4, HoldsMore
<1>6. /\ rows' \in [CarouselIds -> Seq(Batch)] /\ stamp' \in [CarouselIds -> Stamp]
      /\ \A c \in CarouselIds \ {k} : rows'[c] = rows[c]
      /\ \A i \in DOMAIN rows'[k] : Holds(rows'[k][i].deck, Into(k)')
  BY <1>2, <1>3, <1>4, <1>5, SavedRows
<1>7. KeptOn
  BY <1>2, <1>4 DEF KeptOn
<1>8. RowsOK'
  <2> SUFFICES ASSUME NEW c \in exists'
               PROVE  /\ Born(c)'
                      /\ \A i \in DOMAIN rows'[c] : Holds(rows'[c][i].deck, Into(c)')
    BY DEF RowsOK
  <2>1. c \in exists /\ c \in CarouselIds /\ Born(c)'
    BY <1>1, <1>2 DEF ServiceInv, RowsOK, Born
  <2>2. c # k => \A i \in DOMAIN rows[c] : Holds(rows[c][i].deck, Into(c)')
    <3>1. \A i \in DOMAIN rows[c] : Holds(rows[c][i].deck, Into(c))
      BY <2>1 DEF ServiceInv, RowsOK
    <3>2. QED
      BY <1>4, <3>1, HoldsMore
  <2>3. QED
    BY <1>6, <2>1, <2>2
<1>9. /\ [request[r] EXCEPT !.stage = stage] \in Request
      /\ request' = [request EXCEPT ![r] = [request[r] EXCEPT !.stage = stage]]
      /\ RequestOK(r)'
  BY <1>2, <1>3, <1>5, <1>7, StageOK
<1>10. exists' \subseteq CarouselIds /\ city' \in [CarouselIds -> Cities \cup {None}]
  BY <1>2 DEF ServiceInv, TypeOK
<1>11. QED
  BY <1>2, <1>4, <1>6, <1>7, <1>8, <1>9, <1>10, Committed

LEMMA ZipOK ==
  ASSUME ServiceInv, NEW r \in Requests, CommitZip(r)
  PROVE  ServiceInv' /\ KeptOn
<1>. PICK k : k = request[r].carousel
  OBVIOUS
<1>1. /\ request \in [Requests -> Request] /\ request[r] \in Request
      /\ RequestOK(r) /\ exists \subseteq CarouselIds
  BY TheRequest
<1>2. /\ k \in exists /\ k \in CarouselIds /\ UNCHANGED <<exists, city, rows, picks, sent>>
      /\ request[r].op = "zip" /\ request[r].stage = "ready" /\ k # None
      /\ request' = [request EXCEPT ![r].stage = "done"]
  BY <1>1, CarouselsAssumption DEF CommitZip, At, Step
<1>3. \A c : Into(c)' = Into(c)
  BY <1>2 DEF Into
<1>4. request[r].number \in Numbers /\ Holds(request[r].deck, Into(k)')
  <2>1. Promised(r) = {}
    BY <1>2 DEF Promised
  <2>2. QED
    BY <1>1, <1>2, <1>3, <2>1 DEF RequestOK
<1>5. KeptOn
  BY <1>2, <1>3 DEF KeptOn
<1>6. RowsOK'
  BY <1>2, <1>3 DEF ServiceInv, RowsOK, Born
<1>7. /\ [request[r] EXCEPT !.stage = "done"] \in Request
      /\ request' = [request EXCEPT ![r] = [request[r] EXCEPT !.stage = "done"]]
      /\ RequestOK(r)'
  BY <1>2, <1>4, <1>5, StageOK
<1>8. stamp' \in [CarouselIds -> Stamp]
  <2>1. stamp \in [CarouselIds -> Stamp] /\ stamp[k] \in Stamp
    BY <1>2 DEF ServiceInv, TypeOK
  <2>2. request[r].held \in Stamp
    BY <1>1 DEF Request
  <2>3. PICK file : file = Flushed(stamp[k], [request[r].held EXCEPT !.downloaded = TRUE],
                                   {"downloaded"})
    OBVIOUS
  <2>4. file.edited \in BOOLEAN /\ file.downloaded \in BOOLEAN
    BY <2>1, <2>2, <2>3, FlushedFile
  <2>5. [edited |-> file.edited, downloaded |-> file.downloaded, stale |-> FALSE] \in Stamp
    BY <2>4 DEF Stamp
  <2>6. stamp' = [stamp EXCEPT ![k] =
                   [edited |-> file.edited, downloaded |-> file.downloaded, stale |-> FALSE]]
    BY <2>3 DEF CommitZip
  <2>7. QED
    BY <2>1, <2>5, <2>6
<1>9. /\ exists' \subseteq CarouselIds /\ city' \in [CarouselIds -> Cities \cup {None}]
      /\ rows' \in [CarouselIds -> Seq(Batch)] /\ picks' \subseteq Pick
  BY <1>2 DEF ServiceInv, TypeOK
<1>10. QED
  BY <1>2, <1>5, <1>6, <1>7, <1>8, <1>9, Committed

LEMMA DeleteOK ==
  ASSUME ServiceInv, NEW r \in Requests, CommitDelete(r)
  PROVE  ServiceInv' /\ KeptOn
<1>. PICK k : k = request[r].carousel
  OBVIOUS
<1>1. /\ request \in [Requests -> Request] /\ request[r] \in Request
      /\ RequestOK(r) /\ exists \subseteq CarouselIds
  BY TheRequest
<1>2. /\ exists' = exists \ {k} /\ rows' = [rows EXCEPT ![k] = <<>>]
      /\ stamp' = [stamp EXCEPT ![k] = Unstamped] /\ picks' = Orphaned(k)
      /\ UNCHANGED <<city, sent>>
      /\ request[r].op = "delete" /\ request[r].stage = "ready"
      /\ request' = [request EXCEPT ![r].stage = "done"]
  BY DEF CommitDelete, At, Step
<1>3. k # None /\ k \in CarouselIds /\ request[r].number \in Numbers
  BY <1>1, <1>2 DEF RequestOK, Born
<1>4. picks' \subseteq Pick /\ \A c \in CarouselIds \ {k} : Into(c) \subseteq Into(c)'
  <2>1. \A p \in picks :
          /\ p \in Pick
          /\ p.carousel # k => p \in picks'
          /\ [p EXCEPT !.carousel = None] \in Pick
    <3>1. picks \subseteq Pick
      BY DEF ServiceInv, TypeOK
    <3>2. \A p \in picks : [p EXCEPT !.carousel = None] \in Pick
      BY <3>1 DEF Pick
    <3>3. QED
      BY <1>2, <3>1, <3>2 DEF Orphaned
  <2>2. picks' \subseteq Pick
    BY <1>2, <2>1 DEF Orphaned
  <2>3. ASSUME NEW c \in CarouselIds \ {k} PROVE Into(c) \subseteq Into(c)'
    BY <2>1 DEF Into
  <2>4. QED
    BY <2>2, <2>3
<1>5. KeptOn
  BY <1>2, <1>4 DEF KeptOn
<1>6. RowsOK'
  <2> SUFFICES ASSUME NEW c \in exists'
               PROVE  /\ Born(c)'
                      /\ \A i \in DOMAIN rows'[c] : Holds(rows'[c][i].deck, Into(c)')
    BY DEF RowsOK
  <2>1. c \in exists /\ c \in CarouselIds \ {k} /\ Born(c)'
    BY <1>1, <1>2 DEF ServiceInv, RowsOK, Born
  <2>2. rows'[c] = rows[c]
    BY <1>2, <2>1 DEF ServiceInv, TypeOK
  <2>3. \A i \in DOMAIN rows[c] : Holds(rows[c][i].deck, Into(c))
    BY <2>1 DEF ServiceInv, RowsOK
  <2>4. \A i \in DOMAIN rows[c] : Holds(rows[c][i].deck, Into(c)')
    BY <1>4, <2>1, <2>3, HoldsMore
  <2>5. QED
    BY <2>1, <2>2, <2>4
<1>7. /\ [request[r] EXCEPT !.stage = "done"] \in Request
      /\ request' = [request EXCEPT ![r] = [request[r] EXCEPT !.stage = "done"]]
      /\ RequestOK(r)'
  BY <1>2, <1>3, <1>5, StageOK
<1>8. /\ rows' \in [CarouselIds -> Seq(Batch)] /\ stamp' \in [CarouselIds -> Stamp]
      /\ exists' \subseteq CarouselIds /\ city' \in [CarouselIds -> Cities \cup {None}]
  <2>1. Unstamped \in Stamp
    BY DEF Unstamped, Stamp
  <2>2. /\ stamp \in [CarouselIds -> Stamp] /\ rows \in [CarouselIds -> Seq(Batch)]
        /\ city \in [CarouselIds -> Cities \cup {None}]
    BY DEF ServiceInv, TypeOK
  <2>3. rows' \in [CarouselIds -> Seq(Batch)]
    <3>1. <<>> \in Seq(Batch)
      OBVIOUS
    <3>. PICK none \in Seq(Batch) : none = <<>>
      BY <3>1
    <3>2. rows' = [rows EXCEPT ![k] = none]
      BY <1>2
    <3>3. QED
      BY <2>2, <3>2
  <2>4. stamp' \in [CarouselIds -> Stamp]
    BY <1>2, <2>1, <2>2
  <2>5. QED
    BY <1>1, <1>2, <2>2, <2>3, <2>4
<1>9. QED
  BY <1>2, <1>4, <1>5, <1>6, <1>7, <1>8, Committed

\* Whatever handlers do, decks hold stories that were picked into them.
LEMMA HandleOK ==
  ASSUME ServiceInv, NEW r \in Requests, Handle(r) \/ Fail(r) \/ Receive(r)
  PROVE  ServiceInv' /\ KeptOn
<1>1. CASE Get(r)
  BY <1>1, GetOK
<1>2. CASE Compose(r)
  BY <1>2, ComposeOK
<1>3. CASE Refuse(r) \/ Fail(r)
  <2>1. /\ UNCHANGED <<exists, city, rows, stamp, picks, sent>>
        /\ Step(r, "failed") /\ request[r].stage # "idle"
    BY <1>3 DEF Refuse, Fail, At
  <2>2. QED
    BY <2>1, FailedOK
<1>4. CASE \E k \in CarouselIds : CommitCreate(r, k)
  BY <1>4, CreateOK
<1>5. CASE CommitAdd(r) \/ CommitSave(r)
  BY <1>5, WrittenOK
<1>6. CASE CommitZip(r)
  BY <1>6, ZipOK
<1>7. CASE CommitDelete(r)
  BY <1>7, DeleteOK
<1>8. CASE Respond(r)
  BY <1>8, RespondOK
<1>9. CASE Receive(r)
  BY <1>9, ReceivedOK
<1>10. QED
  BY <1>1, <1>2, <1>3, <1>4, <1>5, <1>6, <1>7, <1>8, <1>9 DEF Handle

\* The tables before the first request.
LEMMA InitOK == Init => ServiceInv
<1> SUFFICES ASSUME Init PROVE ServiceInv
  OBVIOUS
<1>1. Idle \in Request /\ Unstamped \in Stamp /\ 0 \in 0..MaxRequests
  BY CarouselsAssumption DEF Idle, Request, Unstamped, Stamp
<1>2. TypeOK
  BY <1>1 DEF Init, TypeOK
<1>3. RowsOK
  BY DEF Init, RowsOK
<1>4. ASSUME NEW r \in Requests PROVE RequestOK(r)
  BY DEF Init, RequestOK, Idle
<1>5. QED
  BY <1>2, <1>3, <1>4 DEF ServiceInv

-----------------------------------------------------------------------------
\* One edit brings no story into a deck.
LEMMA EditsHold ==
  ASSUME NEW S, NEW deck, Holds(deck, S), NEW d \in Edits(deck)
  PROVE  Holds(d, S)
<1>1. CASE \E i \in DOMAIN deck : d = RemoveAt(deck, i)
  BY <1>1, RemovedHolds
<1>2. CASE d = Append(deck, Blank)
  BY <1>2, AppendedHolds
<1>3. CASE \E i, j \in DOMAIN deck : d = Moved(deck, i, j)
  BY <1>3, MovedHolds
<1>4. QED
  BY <1>1, <1>2, <1>3 DEF Edits

LEMMA AskOK ==
  ASSUME ServiceInv, NEW r \in Requests, Ask(r)
  PROVE  ServiceInv' /\ KeptOn
<1>1. /\ <<>> \in Seq(Slides) /\ {} \in SUBSET Stories
      /\ \A k \in CarouselIds : Holds(<<>>, Into(k))
  BY DEF Holds
<1>2. \A k \in exists : k \in CarouselIds /\ k # None /\ Born(k)
  BY CarouselsAssumption DEF ServiceInv, TypeOK, RowsOK
<1>3. \A S \in Selections : S \in SUBSET Stories
  BY DEF Selections
<1>4. CASE \E S \in Selections : Send(r, "create", None, S, <<>>)
  <2>1. None \notin exists
    BY <1>2
  <2>2. QED
    BY <1>1, <1>3, <1>4, <2>1, SendOK
<1>5. CASE \E k \in exists : \E S \in Selections : Send(r, "add", k, S, <<>>)
  BY <1>1, <1>2, <1>3, <1>5, SendOK
<1>6. ASSUME NEW k \in exists, NEW d \in Edits(Deck(k)), Send(r, "save", k, {}, d)
      PROVE  ServiceInv' /\ KeptOn
  <2>1. Holds(Deck(k), Into(k))
    BY <1>2, StoredHolds
  <2>2. Holds(d, Into(k))
    BY <2>1, EditsHold
  <2>3. d \in Seq(Slides)
    BY <2>2 DEF Holds
  <2>4. QED
    BY <1>1, <1>2, <1>6, <2>2, <2>3, SendOK
<1>7. CASE \E k \in exists, op \in {"open", "delete", "zip"} : Send(r, op, k, {}, <<>>)
  BY <1>1, <1>2, <1>7, SendOK
<1>8. QED
  BY <1>4, <1>5, <1>6, <1>7 DEF Ask

LEMMA EvidenceInService == ServiceInv => EvidenceComplete
<1> SUFFICES ASSUME ServiceInv, NEW k \in exists, NEW s \in StoriesIn(Deck(k))
             PROVE  \E p \in picks : p.story = s /\ p.carousel = k
  BY DEF EvidenceComplete
<1>1. k \in CarouselIds
  BY DEF ServiceInv, TypeOK
<1>2. Holds(Deck(k), Into(k))
  BY <1>1, StoredHolds
<1>3. s \in Into(k)
  BY <1>2, HeldStories
<1>4. QED
  BY <1>3 DEF Into

\* Any number of requests, each editing the deck it last saw stored, overlapping in
\* any order and lost at any point, put no story into a deck that was not picked into
\* it (carousel.py:148-222).
THEOREM ServiceEvidence == Spec => []EvidenceComplete
<1>1. ServiceInv /\ [Next]_vars => ServiceInv'
  <2> SUFFICES ASSUME ServiceInv, [Next]_vars PROVE ServiceInv'
    OBVIOUS
  <2>1. CASE UNCHANGED vars
    BY <2>1 DEF vars, ServiceInv, TypeOK, RowsOK, RequestOK, Born, Into, Promised
  <2>2. ASSUME NEW r \in Requests, Ask(r) PROVE ServiceInv'
    BY <2>2, AskOK
  <2>3. ASSUME NEW r \in Requests, Handle(r) \/ Fail(r) \/ Receive(r) PROVE ServiceInv'
    BY <2>3, HandleOK
  <2>4. QED
    BY <2>1, <2>2, <2>3 DEF Next
<1>2. QED
  BY <1>1, InitOK, EvidenceInService, PTL DEF Spec

-----------------------------------------------------------------------------
(***************************************************************************)
(* Requests that do not overlap. First again decks: what is stored is read *)
(* back as it was sent, and building, editing and adding repeat no story   *)
(* and keep within the cap. Then the steps of the one request there is.    *)
(***************************************************************************)
\* What one save stored is read back as it was sent.
LEMMA MergedOne ==
  ASSUME NEW batch \in Batch
  PROVE  Merged(<<batch>>) = batch.deck /\ <<batch>> \in Seq(Batch)
<1>. PICK batches : batches = <<batch>>
  OBVIOUS
<1>. PICK deck : deck = batch.deck
  OBVIOUS
<1> DEFINE P == Places(batches)
           L == Lined(P, Precedence(P))
<1>1. /\ batches \in Seq(Batch) /\ DOMAIN batches = {1} /\ batches[1] = batch
      /\ deck \in Seq(Slides) /\ DOMAIN deck = 1..Len(deck) /\ Len(deck) \in Nat
  BY DEF Batch
<1>2. P = {1} \X (1..Len(deck))
  BY <1>1 DEF Places
<1>3. IsFiniteSet(P) /\ TotalOrder(P, Precedence(P)) /\ Cardinality(P) \in Nat
  BY <1>1, LinedPlaces
<1>4. /\ L \in [1..Cardinality(P) -> P]
      /\ \A n \in 1..Cardinality(P) : Cardinality(Ahead(P, Precedence(P), L[n])) = n - 1
  BY <1>3, Lining
<1>5. \A m \in 1..Len(deck) : /\ Ahead(P, Precedence(P), <<1, m>>) = {1} \X (1..(m - 1))
                              /\ <<1, m>> \in P
  BY <1>1, <1>2 DEF Ahead, Precedence
<1>6. \A m \in Nat : IsFiniteSet({1} \X (1..m)) /\ Cardinality({1} \X (1..m)) = m
  <2> SUFFICES ASSUME NEW m \in Nat
               PROVE  IsFiniteSet({1} \X (1..m)) /\ Cardinality({1} \X (1..m)) = m
    OBVIOUS
  <2>1. IsFiniteSet(1..m) /\ Cardinality(1..m) = m
    BY FS_Interval
  <2>2. IsFiniteSet({1}) /\ Cardinality({1}) = 1
    BY FS_Singleton
  <2>. PICK ms : ms = 1..m
    OBVIOUS
  <2>3. IsFiniteSet({1} \X ms) /\ Cardinality({1} \X ms) = Cardinality({1}) * Cardinality(ms)
    BY <2>1, <2>2, FS_Product
  <2>4. QED
    BY <2>1, <2>2, <2>3
<1>7. Cardinality(P) = Len(deck)
  BY <1>1, <1>2, <1>6
<1> HIDE DEF L
<1>8. \A n \in 1..Len(deck) : L[n] = <<1, n>>
  <2> SUFFICES ASSUME NEW n \in 1..Len(deck) PROVE L[n] = <<1, n>>
    OBVIOUS
  <2>1. L[n] \in P /\ Cardinality(Ahead(P, Precedence(P), L[n])) = n - 1
    BY <1>4, <1>7
  <2>2. PICK m \in 1..Len(deck) : L[n] = <<1, m>>
    BY <1>2, <2>1
  <2>3. Ahead(P, Precedence(P), L[n]) = {1} \X (1..(m - 1)) /\ m - 1 \in Nat
    BY <1>1, <1>5, <2>2
  <2>4. m - 1 = n - 1
    BY <1>6, <2>1, <2>3
  <2>5. QED
    BY <1>1, <2>2, <2>4
<1>9. Merged(batches) = [n \in 1..Cardinality(P) |-> batches[L[n][1]].deck[L[n][2]]]
  BY DEF Merged, L
<1>10. Merged(batches) = [n \in 1..Len(deck) |-> deck[n]]
  <2>1. \A n \in 1..Len(deck) : batches[L[n][1]].deck[L[n][2]] = deck[n]
    BY <1>1, <1>8
  <2>2. Merged(batches) = [n \in 1..Len(deck) |-> batches[L[n][1]].deck[L[n][2]]]
    BY <1>7, <1>9
  <2>3. QED
    BY <2>1, <2>2
<1>11. Merged(batches) = deck
  BY <1>1, <1>10
<1>12. QED
  BY <1>1, <1>11

LEMMA MergedNone == Merged(<<>>) = <<>>
<1>. PICK none : none = <<>>
  OBVIOUS
<1>1. none \in Seq(Batch) /\ DOMAIN none = {}
  OBVIOUS
<1>2. Places(none) = {}
  BY <1>1 DEF Places
<1>3. Cardinality(Places(none)) = 0
  BY <1>2, FS_EmptySet
<1>4. Merged(none) \in Seq(Slides) /\ DOMAIN Merged(none) = 1..0
  <2>1. DOMAIN Merged(none) = 1..0
    BY <1>3 DEF Merged
  <2>2. \A i \in DOMAIN none : Holds(none[i].deck, {})
    BY <1>1
  <2>3. Holds(Merged(none), {})
    BY <1>1, <2>2, MergedHolds
  <2>4. QED
    BY <2>1, <2>3 DEF Holds
<1>5. QED
  BY <1>4

\* No slide but those written by hand is in a deck twice, and it is no longer than the
\* brackets and the cap allow.
Once(deck) == \A i, j \in DOMAIN deck : deck[i] = deck[j] /\ deck[i] # Blank => i = j

Neat(deck) == deck \in Seq(Slides) /\ Len(deck) <= MaxSlides /\ Once(deck)

LEMMA EmptyNeat == Neat(<<>>)
BY CarouselsAssumption DEF Neat, Once, MaxSlides

\* A deck that takes its slides from another, each from a place of its own.
LEMMA DrawnOnce ==
  ASSUME NEW a, Once(a), NEW d, NEW f \in [DOMAIN d -> DOMAIN a],
         \A m, n \in DOMAIN d : f[m] = f[n] => m = n,
         \A n \in DOMAIN d : d[n] = a[f[n]]
  PROVE  Once(d)
BY DEF Once

LEMMA RemovedSlides ==
  ASSUME NEW a \in Seq(Slides), NEW i \in DOMAIN a
  PROVE  /\ RemoveAt(a, i) \in Seq(Slides) /\ Len(RemoveAt(a, i)) = Len(a) - 1
         /\ \A n \in 1..(Len(a) - 1) : RemoveAt(a, i)[n] = IF n < i THEN a[n] ELSE a[n + 1]
<1>1. i \in 1..Len(a) /\ Len(a) \in Nat
  OBVIOUS
<1>2. PICK front : front = SubSeq(a, 1, i - 1)
  OBVIOUS
<1>3. PICK back : back = SubSeq(a, i + 1, Len(a))
  OBVIOUS
<1>4. /\ front \in Seq(Slides) /\ Len(front) = i - 1
      /\ \A n \in 1..(i - 1) : front[n] = a[n]
  BY <1>1, <1>2
<1>5. /\ back \in Seq(Slides) /\ Len(back) = Len(a) - i
      /\ \A n \in 1..(Len(a) - i) : back[n] = a[n + i]
  BY <1>1, <1>3
<1>6. PICK d : d = front \o back
  OBVIOUS
<1>7. RemoveAt(a, i) = d
  BY <1>2, <1>3, <1>6 DEF RemoveAt
<1>8. /\ d \in Seq(Slides) /\ Len(d) = Len(front) + Len(back)
      /\ \A n \in 1..(Len(front) + Len(back)) :
           d[n] = IF n <= Len(front) THEN front[n] ELSE back[n - Len(front)]
  BY <1>4, <1>5, <1>6, ConcatProperties
<1>9. Len(d) = Len(a) - 1
  BY <1>1, <1>4, <1>5, <1>8
<1>10. \A n \in 1..(Len(a) - 1) : d[n] = IF n < i THEN a[n] ELSE a[n + 1]
  <2> SUFFICES ASSUME NEW n \in 1..(Len(a) - 1)
               PROVE  d[n] = IF n < i THEN a[n] ELSE a[n + 1]
    OBVIOUS
  <2>1. n \in 1..(Len(front) + Len(back))
    BY <1>1, <1>4, <1>5
  <2>2. CASE n < i
    BY <1>1, <1>4, <1>8, <2>1, <2>2
  <2>3. CASE ~(n < i)
    <3>1. n - (i - 1) \in 1..(Len(a) - i) /\ n - (i - 1) + i = n + 1
      BY <1>1, <2>3
    <3>2. d[n] = back[n - (i - 1)]
      BY <1>1, <1>4, <1>8, <2>1, <2>3
    <3>3. back[n - (i - 1)] = a[n - (i - 1) + i]
      BY <1>5, <3>1
    <3>4. QED
      BY <2>3, <3>1, <3>2, <3>3
  <2>4. QED
    BY <2>2, <2>3
<1>11. QED
  BY <1>7, <1>8, <1>9, <1>10

LEMMA InsertedSlide ==
  ASSUME NEW b \in Seq(Slides), NEW j \in 1..(Len(b) + 1), NEW x \in Slides
  PROVE  /\ InsertAt(b, j, x) \in Seq(Slides) /\ Len(InsertAt(b, j, x)) = Len(b) + 1
         /\ \A n \in 1..(j - 1) : InsertAt(b, j, x)[n] = b[n]
         /\ InsertAt(b, j, x)[j] = x
         /\ \A n \in (j + 1)..(Len(b) + 1) : InsertAt(b, j, x)[n] = b[n - 1]
<1>1. Len(b) \in Nat
  OBVIOUS
<1>2. PICK front : front = SubSeq(b, 1, j - 1)
  OBVIOUS
<1>3. PICK back : back = SubSeq(b, j, Len(b))
  OBVIOUS
<1>4. /\ front \in Seq(Slides) /\ Len(front) = j - 1
      /\ \A n \in 1..(j - 1) : front[n] = b[n]
  BY <1>1, <1>2
<1>5. /\ back \in Seq(Slides) /\ Len(back) = Len(b) - j + 1
      /\ \A n \in 1..(Len(b) - j + 1) : back[n] = b[n + j - 1]
  BY <1>1, <1>3
<1>6. PICK fx : fx = front \o <<x>>
  OBVIOUS
<1>7. /\ fx \in Seq(Slides) /\ Len(fx) = j
      /\ \A n \in 1..(j - 1) : fx[n] = b[n]
      /\ fx[j] = x
  <2>1. PICK one : one = <<x>>
    OBVIOUS
  <2>2. one \in Seq(Slides) /\ Len(one) = 1 /\ one[1] = x
    BY <2>1
  <2>3. /\ fx \in Seq(Slides) /\ Len(fx) = Len(front) + Len(one)
        /\ \A n \in 1..(Len(front) + Len(one)) :
             fx[n] = IF n <= Len(front) THEN front[n] ELSE one[n - Len(front)]
    BY <1>4, <1>6, <2>1, <2>2, ConcatProperties
  <2>4. Len(front) = j - 1 /\ Len(front) + Len(one) = j /\ j \in Nat \ {0}
    BY <1>1, <1>4, <2>2
  <2>5. \A n \in 1..(j - 1) : n \in 1..(Len(front) + Len(one)) /\ n <= Len(front)
    BY <2>4
  <2>6. j \in 1..(Len(front) + Len(one)) /\ ~(j <= Len(front)) /\ j - Len(front) = 1
    BY <2>4
  <2>7. fx[j] = x
    BY <2>2, <2>3, <2>6
  <2>8. \A n \in 1..(j - 1) : fx[n] = front[n]
    BY <2>3, <2>5
  <2>9. \A n \in 1..(j - 1) : fx[n] = b[n]
    BY <1>4, <2>8, Zenon
  <2>10. Len(fx) = j
    BY <2>3, <2>4
  <2>11. QED
    BY <2>3, <2>7, <2>9, <2>10, Zenon
<1>8. PICK d : d = fx \o back
  OBVIOUS
<1>9. InsertAt(b, j, x) = d
  BY <1>2, <1>3, <1>6, <1>8 DEF InsertAt
<1>10. /\ d \in Seq(Slides) /\ Len(d) = Len(fx) + Len(back)
       /\ \A n \in 1..(Len(fx) + Len(back)) :
            d[n] = IF n <= Len(fx) THEN fx[n] ELSE back[n - Len(fx)]
  BY <1>5, <1>7, <1>8, ConcatProperties
<1>11. Len(d) = Len(b) + 1
  BY <1>1, <1>5, <1>7, <1>10
<1>12. (\A n \in 1..(j - 1) : d[n] = b[n]) /\ d[j] = x
  <2>1. \A n \in 1..j : n \in 1..(Len(fx) + Len(back)) /\ n <= Len(fx)
    BY <1>1, <1>5, <1>7
  <2>2. \A n \in 1..j : d[n] = fx[n]
    BY <1>10, <2>1
  <2>3. QED
    BY <1>1, <1>7, <2>2
<1>13. \A n \in (j + 1)..(Len(b) + 1) : d[n] = b[n - 1]
  <2> SUFFICES ASSUME NEW n \in (j + 1)..(Len(b) + 1) PROVE d[n] = b[n - 1]
    OBVIOUS
  <2>1. n \in 1..(Len(fx) + Len(back)) /\ ~(n <= Len(fx))
    BY <1>1, <1>5, <1>7
  <2>2. d[n] = back[n - j]
    BY <1>7, <1>10, <2>1
  <2>3. n - j \in 1..(Len(b) - j + 1) /\ n - j + j - 1 = n - 1
    BY <1>1
  <2>4. QED
    BY <1>5, <2>2, <2>3
<1>14. QED
  BY <1>9, <1>10, <1>11, <1>12, <1>13

\* One edit leaves it so, if the deck does not get too long.
LEMMA EditsNeat ==
  ASSUME NEW a, Neat(a), NEW d \in Edits(a), Len(d) <= MaxSlides
  PROVE  Neat(d)
<1>1. a \in Seq(Slides) /\ Once(a) /\ Len(a) \in Nat /\ DOMAIN a = 1..Len(a)
  BY DEF Neat
<1>2. ASSUME NEW i \in DOMAIN a, d = RemoveAt(a, i) PROVE Neat(d)
  <2>1. /\ d \in Seq(Slides) /\ Len(d) = Len(a) - 1
        /\ \A n \in 1..(Len(a) - 1) : d[n] = IF n < i THEN a[n] ELSE a[n + 1]
    <3>. PICK e : e = RemoveAt(a, i)
      OBVIOUS
    <3>1. /\ e \in Seq(Slides) /\ Len(e) = Len(a) - 1
          /\ \A n \in 1..(Len(a) - 1) : e[n] = IF n < i THEN a[n] ELSE a[n + 1]
      BY <1>1, RemovedSlides, Zenon
    <3>2. QED
      BY <1>2, <3>1
  <2> DEFINE f == [n \in DOMAIN d |-> IF n < i THEN n ELSE n + 1]
  <2>2. DOMAIN d = 1..(Len(a) - 1)
    BY <2>1
  <2>3. /\ f \in [DOMAIN d -> DOMAIN a]
        /\ \A m, n \in DOMAIN d : f[m] = f[n] => m = n
        /\ \A n \in DOMAIN d : d[n] = a[f[n]]
    BY <1>1, <2>1, <2>2
  <2> HIDE DEF f
  <2>4. Once(d)
    BY <1>1, <2>3, DrawnOnce
  <2>5. QED
    BY <2>1, <2>4 DEF Neat
<1>3. ASSUME d = Append(a, Blank) PROVE Neat(d)
  <2>1. Blank \in Slides
    BY DEF Slides
  <2>2. /\ d \in Seq(Slides) /\ DOMAIN d = 1..(Len(a) + 1)
        /\ \A n \in 1..Len(a) : d[n] = a[n]
        /\ d[Len(a) + 1] = Blank
    BY <1>1, <1>3, <2>1
  <2>3. Once(d)
    BY <1>1, <2>2 DEF Once
  <2>4. QED
    BY <2>2, <2>3 DEF Neat
<1>4. ASSUME NEW i \in DOMAIN a, NEW j \in DOMAIN a, d = Moved(a, i, j) PROVE Neat(d)
  <2>. PICK b : b = RemoveAt(a, i)
    OBVIOUS
  <2>1. /\ b \in Seq(Slides) /\ Len(b) = Len(a) - 1
        /\ \A n \in 1..(Len(a) - 1) : b[n] = IF n < i THEN a[n] ELSE a[n + 1]
    BY <1>1, RemovedSlides
  <2>2. j \in 1..(Len(b) + 1) /\ a[i] \in Slides
    BY <1>1, <2>1
  <2>3. d = InsertAt(b, j, a[i])
    BY <1>4 DEF Moved
  <2>4. /\ d \in Seq(Slides) /\ Len(d) = Len(b) + 1
        /\ \A n \in 1..(j - 1) : d[n] = b[n]
        /\ d[j] = a[i]
        /\ \A n \in (j + 1)..(Len(b) + 1) : d[n] = b[n - 1]
    BY <2>1, <2>2, <2>3, InsertedSlide
  <2>5. Len(b) + 1 = Len(a) /\ DOMAIN d = 1..Len(a)
    BY <1>1, <2>1, <2>4
  <2> DEFINE g(n) == IF n < i THEN n ELSE n + 1
             f == [n \in DOMAIN d |-> IF n < j THEN g(n) ELSE IF n = j THEN i ELSE g(n - 1)]
  <2>6. f \in [DOMAIN d -> DOMAIN a]
    BY <1>1, <2>5
  <2>7. \A m, n \in DOMAIN d : f[m] = f[n] => m = n
    BY <1>1, <2>5
  <2>8. \A n \in DOMAIN d : d[n] = a[f[n]]
    <3> SUFFICES ASSUME NEW n \in DOMAIN d PROVE d[n] = a[f[n]]
      OBVIOUS
    <3>1. CASE n < j
      <4>1. n \in 1..(Len(a) - 1) /\ n \in 1..(j - 1)
        BY <1>1, <2>5, <3>1
      <4>2. QED
        BY <2>1, <2>4, <3>1, <4>1
    <3>2. CASE n = j
      BY <1>1, <2>4, <3>2
    <3>3. CASE n > j
      <4>1. n - 1 \in 1..(Len(a) - 1) /\ n \in (j + 1)..(Len(b) + 1)
        BY <1>1, <2>5, <3>3
      <4>2. d[n] = b[n - 1] /\ b[n - 1] = a[g(n - 1)]
        BY <1>1, <2>1, <2>4, <4>1
      <4>3. QED
        BY <1>1, <2>5, <3>3, <4>2
    <3>4. QED
      BY <1>1, <2>5, <3>1, <3>2, <3>3
  <2> HIDE DEF f
  <2>9. Once(d)
    BY <1>1, <2>6, <2>7, <2>8, DrawnOnce
  <2>10. QED
    BY <2>4, <2>9 DEF Neat
<1>5. QED
  BY <1>2, <1>3, <1>4 DEF Edits

\* A request's stories in order are as many as they are, each once.
LEMMA InOrderOnce ==
  ASSUME NEW stories \in SUBSET Stories
  PROVE  /\ InOrder(stories) \in Seq(Stories)
         /\ IsFiniteSet(stories) /\ Cardinality(stories) \in Nat
         /\ Len(InOrder(stories)) = Cardinality(stories)
         /\ \A n \in DOMAIN InOrder(stories) : InOrder(stories)[n] \in stories
         /\ \A m, n \in DOMAIN InOrder(stories) : InOrder(stories)[m] = InOrder(stories)[n] => m = n
<1> DEFINE I == {i \in DOMAIN Ranked : Ranked[i] \in stories}
           f == [i \in I |-> Ranked[i]]
<1>1. /\ Ranked \in Seq(Stories) /\ \A s \in Stories : \E i \in DOMAIN Ranked : Ranked[i] = s
      /\ \A i, j \in DOMAIN Ranked : Ranked[i] = Ranked[j] => i = j
  BY CarouselsAssumption DEF ToSet
<1>2. I \in SUBSET (DOMAIN Ranked)
  OBVIOUS
<1>3. InOrder(stories) = Part(Ranked, I)
  BY DEF InOrder
<1>4. f \in Injection(I, stories) /\ f \in Surjection(I, stories)
  BY <1>1 DEF Injection, IsInjective, Surjection
<1>5. \A i \in I : Ranked[i] \in stories
  OBVIOUS
<1>6. \A i, j \in I : Ranked[i] = Ranked[j] => i = j
  BY <1>1
<1> HIDE DEF I, f
<1>7. IsFiniteSet(I)
  BY <1>1, <1>2, Indices
<1>8. IsFiniteSet(stories) /\ Cardinality(stories) = Cardinality(I)
  BY <1>4, <1>7, FS_Surjection
<1>9. Cardinality(stories) \in Nat
  BY <1>8, FS_CardinalityType
<1>10. /\ Part(Ranked, I) \in Seq(Stories) /\ Len(Part(Ranked, I)) = Cardinality(I)
       /\ \A n \in DOMAIN Part(Ranked, I) : \E i \in I : Part(Ranked, I)[n] = Ranked[i]
  BY <1>1, <1>2, PartOf
<1>11. \A m, n \in DOMAIN Part(Ranked, I) : Part(Ranked, I)[m] = Part(Ranked, I)[n] => m = n
  BY <1>1, <1>2, <1>6, PartOnce
<1>12. \A n \in DOMAIN Part(Ranked, I) : Part(Ranked, I)[n] \in stories
  BY <1>5, <1>10
<1>13. QED
  BY <1>3, <1>8, <1>9, <1>10, <1>11, <1>12

\* A deck joined of two with no slide in common but those written by hand.
LEMMA JoinedOnce ==
  ASSUME NEW a \in Seq(Slides), NEW b \in Seq(Slides), Once(a), Once(b),
         \A i \in DOMAIN a, j \in DOMAIN b : a[i] = b[j] => a[i] = Blank
  PROVE  /\ a \o b \in Seq(Slides) /\ Len(a \o b) = Len(a) + Len(b) /\ Once(a \o b)
         /\ \A n \in DOMAIN (a \o b) :
              \/ n \in DOMAIN a /\ (a \o b)[n] = a[n]
              \/ n - Len(a) \in DOMAIN b /\ (a \o b)[n] = b[n - Len(a)]
<1>1. PICK d : d = a \o b
  OBVIOUS
<1>2. /\ Len(a) \in Nat /\ DOMAIN a = 1..Len(a) /\ Len(b) \in Nat /\ DOMAIN b = 1..Len(b)
      /\ d \in Seq(Slides) /\ Len(d) = Len(a) + Len(b)
      /\ \A n \in 1..(Len(a) + Len(b)) : d[n] = IF n <= Len(a) THEN a[n] ELSE b[n - Len(a)]
  BY <1>1, ConcatProperties
<1>3. DOMAIN d = 1..(Len(a) + Len(b))
  BY <1>2
<1>4. \A n \in DOMAIN d : \/ n \in DOMAIN a /\ d[n] = a[n]
                          \/ n - Len(a) \in DOMAIN b /\ d[n] = b[n - Len(a)]
  <2> SUFFICES ASSUME NEW n \in DOMAIN d
               PROVE  \/ n \in DOMAIN a /\ d[n] = a[n]
                      \/ n - Len(a) \in DOMAIN b /\ d[n] = b[n - Len(a)]
    OBVIOUS
  <2>1. n \in DOMAIN a \/ (n - Len(a) \in DOMAIN b /\ ~(n <= Len(a)))
    BY <1>2, <1>3
  <2>2. n \in DOMAIN a => n <= Len(a)
    BY <1>2
  <2>3. QED
    BY <1>2, <1>3, <2>1, <2>2
<1>5. Once(d)
  <2> SUFFICES ASSUME NEW i \in DOMAIN d, NEW j \in DOMAIN d, d[i] = d[j], d[i] # Blank
               PROVE  i = j
    BY DEF Once
  <2>1. CASE i \in DOMAIN a /\ d[i] = a[i] /\ j \in DOMAIN a /\ d[j] = a[j]
    BY <2>1 DEF Once
  <2>2. CASE /\ i - Len(a) \in DOMAIN b /\ d[i] = b[i - Len(a)]
             /\ j - Len(a) \in DOMAIN b /\ d[j] = b[j - Len(a)]
    <3>1. i - Len(a) = j - Len(a)
      BY <2>2 DEF Once
    <3>2. QED
      BY <1>2, <1>3, <3>1
  <2>3. QED
    BY <1>4, <2>1, <2>2
<1>6. QED
  BY <1>1, <1>2, <1>4, <1>5

\* The brackets aside, a deck is no longer than the number of its story slides.
LEMMA Bracketed ==
  ASSUME NEW deck \in Seq(Slides), Once(deck)
  PROVE  LET stories == {i \in DOMAIN deck : IsStory(deck[i])} IN
         Cardinality(stories) \in Nat /\ Len(deck) <= Cardinality(stories) + 2
<1> DEFINE P == {i \in DOMAIN deck : IsStory(deck[i])}
           Q == DOMAIN deck \ P
           f == [i \in Q |-> deck[i]]
<1>1. DOMAIN deck = 1..Len(deck) /\ Len(deck) \in Nat
  OBVIOUS
<1>2. \A i \in Q : deck[i] \in {Intro, Cta} /\ deck[i] # Blank
  BY CarouselsAssumption DEF IsStory, Slides
<1>3. f \in Injection(Q, {Intro, Cta})
  BY <1>2 DEF Injection, IsInjective, Once
<1>4. DOMAIN deck = P \cup Q /\ P \cap Q = {} /\ P \in SUBSET DOMAIN deck
  OBVIOUS
<1> HIDE DEF P, Q, f
<1>5. IsFiniteSet({Intro, Cta}) /\ Cardinality({Intro, Cta}) = 2
  <2>1. IsFiniteSet({Intro}) /\ Cardinality({Intro}) = 1
    BY FS_Singleton
  <2>2. Cta \notin {Intro} /\ {Intro, Cta} = {Intro} \cup {Cta}
    BY CarouselsAssumption
  <2>3. PICK one : one = {Intro}
    OBVIOUS
  <2>4. IsFiniteSet(one) /\ Cardinality(one) = 1 /\ Cta \notin one
    BY <2>1, <2>2, <2>3
  <2>5. IsFiniteSet(one \cup {Cta}) /\ Cardinality(one \cup {Cta}) = 1 + 1
    BY <2>4, FS_AddElement
  <2>6. {Intro, Cta} = one \cup {Cta}
    BY <2>2, <2>3, Zenon
  <2>7. 1 + 1 = 2
    OBVIOUS
  <2>8. QED
    BY <2>5, <2>6, <2>7, Zenon
<1>6. IsFiniteSet(Q) /\ Cardinality(Q) <= 2
  BY <1>3, <1>5, FS_Injection
<1>7. IsFiniteSet(P) /\ Cardinality(P) \in Nat
  BY <1>4, Indices
<1>8. Cardinality(DOMAIN deck) = Cardinality(P) + Cardinality(Q) - Cardinality(P \cap Q)
  BY <1>4, <1>6, <1>7, FS_Union
<1>9. Cardinality(P \cap Q) = 0 /\ Cardinality(Q) \in Nat
  BY <1>4, <1>6, FS_EmptySet, FS_CardinalityType
<1>10. Cardinality(DOMAIN deck) = Len(deck)
  BY <1>1, FS_Interval
<1>11. QED
  BY <1>1, <1>6, <1>7, <1>8, <1>9, <1>10 DEF P

\* Where an insertion cuts the deck.
LEMMA InsertedShape ==
  ASSUME NEW deck \in Seq(Slides), NEW stories
  PROVE  \E at \in 1..(Len(deck) + 1) :
           Inserted(deck, stories) =
             SubSeq(deck, 1, at - 1) \o InOrder(stories) \o SubSeq(deck, at, Len(deck))
<1> DEFINE I == {i \in 1..Len(deck) : deck[i] = Cta}
           closing == IF I # {} THEN Min(I) ELSE 0
           at == IF closing = 0 THEN Len(deck) + 1 ELSE closing
<1>1. closing \in 0..Len(deck)
  <2>1. I \in SUBSET (DOMAIN deck)
    OBVIOUS
  <2>2. I # {} => Min(I) \in I
    BY <2>1, First DEF Min
  <2>3. QED
    BY <2>2
<1>2. at \in 1..(Len(deck) + 1)
  BY <1>1
<1>3. QED
  BY <1>2 DEF Inserted, SelectInSeq

\* The two sides of a cut.
LEMMA CutOnce ==
  ASSUME NEW deck \in Seq(Slides), Once(deck), NEW at \in 1..(Len(deck) + 1)
  PROVE  \E front, back \in Seq(Slides) :
           /\ front = SubSeq(deck, 1, at - 1) /\ back = SubSeq(deck, at, Len(deck))
           /\ Len(front) + Len(back) = Len(deck)
           /\ Once(front) /\ Once(back)
           /\ \A i \in DOMAIN front, j \in DOMAIN back : front[i] = back[j] => front[i] = Blank
           /\ \A i \in DOMAIN front : \E n \in DOMAIN deck : front[i] = deck[n]
           /\ \A j \in DOMAIN back : \E n \in DOMAIN deck : back[j] = deck[n]
<1>1. Len(deck) \in Nat /\ DOMAIN deck = 1..Len(deck)
  OBVIOUS
<1>2. PICK a : a = SubSeq(deck, 1, at - 1)
  OBVIOUS
<1>3. PICK c : c = SubSeq(deck, at, Len(deck))
  OBVIOUS
<1>4. /\ a \in Seq(Slides) /\ Len(a) = at - 1 /\ DOMAIN a = 1..(at - 1)
      /\ \A n \in 1..(at - 1) : a[n] = deck[n]
  BY <1>1, <1>2
<1>5. /\ c \in Seq(Slides) /\ Len(c) = Len(deck) - at + 1 /\ DOMAIN c = 1..(Len(deck) - at + 1)
      /\ \A n \in 1..(Len(deck) - at + 1) : c[n] = deck[n + at - 1]
  BY <1>1, <1>3
<1>6. Once(a)
  BY <1>1, <1>4 DEF Once
<1>7. \A j \in DOMAIN c : j + at - 1 \in DOMAIN deck /\ j \in Int /\ c[j] = deck[j + at - 1]
  <2> SUFFICES ASSUME NEW j \in DOMAIN c
               PROVE  j + at - 1 \in DOMAIN deck /\ j \in Int /\ c[j] = deck[j + at - 1]
    OBVIOUS
  <2>1. j \in 1..(Len(deck) - at + 1)
    BY <1>5
  <2>2. j + at - 1 \in 1..Len(deck)
    BY <1>1, <2>1
  <2>3. QED
    BY <1>1, <1>5, <2>1, <2>2
<1>8. Once(c)
  <2> SUFFICES ASSUME NEW i \in DOMAIN c, NEW j \in DOMAIN c, c[i] = c[j], c[i] # Blank
               PROVE  i = j
    BY DEF Once
  <2>1. i + at - 1 = j + at - 1
    BY <1>7 DEF Once
  <2>2. QED
    BY <1>1, <1>7, <2>1
<1>9. \A i \in DOMAIN a, j \in DOMAIN c : a[i] = c[j] => a[i] = Blank
  <2> SUFFICES ASSUME NEW i \in DOMAIN a, NEW j \in DOMAIN c, a[i] = c[j], a[i] # Blank
               PROVE  FALSE
    OBVIOUS
  <2>1. i \in DOMAIN deck /\ a[i] = deck[i] /\ i < j + at - 1
    BY <1>1, <1>4, <1>5
  <2>2. i = j + at - 1
    BY <1>7, <2>1 DEF Once
  <2>3. QED
    BY <1>1, <1>7, <2>1, <2>2
<1>10. \A i \in DOMAIN a : \E n \in DOMAIN deck : a[i] = deck[n]
  BY <1>1, <1>4
<1>11. \A j \in DOMAIN c : \E n \in DOMAIN deck : c[j] = deck[n]
  BY <1>7
<1>12. Len(a) + Len(c) = Len(deck)
  BY <1>1, <1>4, <1>5
<1>13. a \in Seq(Slides) /\ c \in Seq(Slides)
  BY <1>4, <1>5
<1>14. QED
  BY <1>2, <1>3, <1>6, <1>8, <1>9, <1>10, <1>11, <1>12, <1>13, Zenon

\* Adding stories that are not in the deck, when they fit.
LEMMA InsertedNeat ==
  ASSUME NEW deck, Neat(deck), NEW stories \in SUBSET Stories,
         stories \cap StoriesIn(deck) = {}, Fits(deck, stories)
  PROVE  Neat(Inserted(deck, stories))
<1>1. deck \in Seq(Slides) /\ Once(deck) /\ Len(deck) \in Nat
  BY DEF Neat
<1>2. PICK at \in 1..(Len(deck) + 1) :
        Inserted(deck, stories) =
          SubSeq(deck, 1, at - 1) \o InOrder(stories) \o SubSeq(deck, at, Len(deck))
  BY <1>1, InsertedShape
<1>3. PICK a, c \in Seq(Slides) :
        /\ a = SubSeq(deck, 1, at - 1) /\ c = SubSeq(deck, at, Len(deck))
        /\ Len(a) + Len(c) = Len(deck)
        /\ Once(a) /\ Once(c)
        /\ \A i \in DOMAIN a, j \in DOMAIN c : a[i] = c[j] => a[i] = Blank
        /\ \A i \in DOMAIN a : \E n \in DOMAIN deck : a[i] = deck[n]
        /\ \A j \in DOMAIN c : \E n \in DOMAIN deck : c[j] = deck[n]
  BY <1>1, CutOnce
<1>4. Inserted(deck, stories) = a \o InOrder(stories) \o c
  BY <1>2, <1>3, Zenon
<1>5. PICK b : b = InOrder(stories)
  OBVIOUS
<1>6. /\ Len(a) + Len(c) = Len(deck) /\ Len(a) \in Nat /\ Len(c) \in Nat
      /\ Once(a) /\ Once(c)
      /\ \A i \in DOMAIN a, j \in DOMAIN c : a[i] = c[j] => a[i] = Blank
      /\ \A i \in DOMAIN a : \E n \in DOMAIN deck : a[i] = deck[n]
      /\ \A j \in DOMAIN c : \E n \in DOMAIN deck : c[j] = deck[n]
  <2>1. Len(a) \in Nat /\ Len(c) \in Nat
    OBVIOUS
  <2>2. QED
    BY <1>3, <2>1, Zenon
<1>7. /\ b \in Seq(Stories) /\ Cardinality(stories) \in Nat /\ Len(b) = Cardinality(stories)
      /\ \A n \in DOMAIN b : b[n] \in stories
      /\ \A m, n \in DOMAIN b : b[m] = b[n] => m = n
  BY <1>5, InOrderOnce
<1>8. b \in Seq(Slides) /\ Once(b)
  BY <1>7 DEF Once, Slides
<1>9. \A n \in DOMAIN deck : deck[n] \notin stories
  BY DEF StoriesIn, ToSet
<1>10. /\ \A i \in DOMAIN a, j \in DOMAIN b : a[i] # b[j]
       /\ \A i \in DOMAIN b, j \in DOMAIN c : b[i] # c[j]
  BY <1>6, <1>7, <1>9
<1>11. PICK ab : ab = a \o b
  OBVIOUS
<1>12. /\ ab \in Seq(Slides) /\ Len(ab) = Len(a) + Len(b) /\ Once(ab)
       /\ \A n \in DOMAIN ab : \/ n \in DOMAIN a /\ ab[n] = a[n]
                               \/ n - Len(a) \in DOMAIN b /\ ab[n] = b[n - Len(a)]
  <2>1. \A i \in DOMAIN a, j \in DOMAIN b : a[i] = b[j] => a[i] = Blank
    BY <1>10, Zenon
  <2>2. a \in Seq(Slides)
    OBVIOUS
  <2>3. QED
    BY <1>6, <1>8, <1>11, <2>1, <2>2, JoinedOnce, ZenonT(40)
<1>13. \A i \in DOMAIN ab, j \in DOMAIN c : ab[i] = c[j] => ab[i] = Blank
  <2> SUFFICES ASSUME NEW i \in DOMAIN ab, NEW j \in DOMAIN c, ab[i] = c[j]
               PROVE  ab[i] = Blank
    OBVIOUS
  <2>1. CASE i \in DOMAIN a /\ ab[i] = a[i]
    BY <1>6, <2>1, Zenon
  <2>2. CASE i - Len(a) \in DOMAIN b /\ ab[i] = b[i - Len(a)]
    BY <1>10, <2>2, Zenon
  <2>3. QED
    BY <1>12, <2>1, <2>2, Zenon
<1>14. /\ ab \o c \in Seq(Slides) /\ Len(ab \o c) = Len(ab) + Len(c) /\ Once(ab \o c)
  BY <1>6, <1>12, <1>13, JoinedOnce, ZenonT(40)
<1>15. Inserted(deck, stories) = ab \o c
  BY <1>4, <1>5, <1>11, Zenon
<1>16. Len(ab \o c) <= MaxSlides
  <2>0. PICK n : n = Cardinality({i \in DOMAIN deck : IsStory(deck[i])})
    OBVIOUS
  <2>1. n \in Nat /\ Len(deck) <= n + 2
    BY <1>1, <2>0, Bracketed
  <2>2. n + Cardinality(stories) <= MaxStories /\ MaxStories \in Nat
    BY <2>0, CarouselsAssumption DEF Fits
  <2>3. PICK whole : whole = ab \o c
    OBVIOUS
  <2>4. Len(whole) = Len(deck) + Cardinality(stories)
    <3>1. Len(whole) = Len(ab) + Len(c)
      BY <1>14, <2>3, Zenon
    <3>2. Len(ab) = Len(a) + Len(b) /\ Len(b) = Cardinality(stories)
      BY <1>7, <1>12, Zenon
    <3>3. Cardinality(stories) \in Nat /\ Len(a) + Len(c) = Len(deck) /\ Len(a) \in Nat /\ Len(c) \in Nat
      BY <1>6, <1>7, Zenon
    <3>4. \A p, q, u \in Nat : (q + u) + p = (q + p) + u
      OBVIOUS
    <3>5. (Len(a) + Cardinality(stories)) + Len(c) = (Len(a) + Len(c)) + Cardinality(stories)
      BY <3>3, <3>4, Zenon
    <3>6. QED
      BY <3>1, <3>2, <3>3, <3>5, Zenon
  <2>5. QED
    BY <1>1, <1>7, <2>1, <2>2, <2>3, <2>4 DEF MaxSlides
<1>17. QED
  BY <1>14, <1>15, <1>16 DEF Neat

LEMMA BuiltNeat ==
  ASSUME NEW stories \in SUBSET Stories, Cardinality(stories) <= MaxStories
  PROVE  Neat(Built(stories))
<1>1. PICK b : b = InOrder(stories)
  OBVIOUS
<1>2. /\ b \in Seq(Stories) /\ Cardinality(stories) \in Nat /\ Len(b) = Cardinality(stories)
      /\ \A m, n \in DOMAIN b : b[m] = b[n] => m = n
  BY <1>1, InOrderOnce
<1>3. /\ b \in Seq(Slides) /\ Once(b) /\ \A n \in DOMAIN b : b[n] \in Stories
  BY <1>2 DEF Once, Slides
<1>4. PICK opening : opening = <<Intro>>
  OBVIOUS
<1>5. PICK closing : closing = <<Cta>>
  OBVIOUS
<1>6. /\ opening \in Seq(Slides) /\ Len(opening) = 1 /\ DOMAIN opening = {1}
      /\ opening[1] = Intro /\ Once(opening)
  BY <1>4 DEF Once, Slides
<1>7. /\ closing \in Seq(Slides) /\ Len(closing) = 1 /\ DOMAIN closing = {1}
      /\ closing[1] = Cta /\ Once(closing)
  BY <1>5 DEF Once, Slides
<1>8. Intro # Cta /\ \A s \in Stories : s # Intro /\ s # Cta
  BY CarouselsAssumption
<1>9. PICK ib : ib = opening \o b
  OBVIOUS
<1>10. /\ ib \in Seq(Slides) /\ Len(ib) = 1 + Len(b) /\ Once(ib)
       /\ \A n \in DOMAIN ib : ib[n] = Intro \/ ib[n] \in Stories
  <2>1. \A i \in DOMAIN opening, j \in DOMAIN b : opening[i] = b[j] => opening[i] = Blank
    BY <1>3, <1>6, <1>8
  <2>2. /\ ib \in Seq(Slides) /\ Len(ib) = Len(opening) + Len(b) /\ Once(ib)
        /\ \A n \in DOMAIN ib : \/ n \in DOMAIN opening /\ ib[n] = opening[n]
                                \/ n - Len(opening) \in DOMAIN b /\ ib[n] = b[n - Len(opening)]
    BY <1>3, <1>6, <1>9, <2>1, JoinedOnce, ZenonT(40)
  <2>3. QED
    BY <1>3, <1>6, <2>2
<1>11. PICK ibc : ibc = ib \o closing
  OBVIOUS
<1>12. ibc \in Seq(Slides) /\ Len(ibc) = Len(ib) + 1 /\ Once(ibc)
  <2>1. \A i \in DOMAIN ib, j \in DOMAIN closing : ib[i] = closing[j] => ib[i] = Blank
    BY <1>7, <1>8, <1>10
  <2>2. /\ ibc \in Seq(Slides) /\ Len(ibc) = Len(ib) + Len(closing) /\ Once(ibc)
    BY <1>7, <1>10, <1>11, <2>1, JoinedOnce, ZenonT(40)
  <2>3. QED
    BY <1>7, <2>2
<1>13. Built(stories) = ibc
  BY <1>1, <1>4, <1>5, <1>9, <1>11 DEF Built
<1>14. Len(ibc) <= MaxSlides
  BY <1>2, <1>10, <1>12, CarouselsAssumption DEF MaxSlides
<1>15. QED
  BY <1>12, <1>13, <1>14 DEF Neat

-----------------------------------------------------------------------------
\* Saves that cross. What a request that was not crossed has loaded is all there is,
\* and what is sent to a deck that is not tangled fits it.
CrossOK(r) ==
  LET q == request[r] IN
  /\ q.op = "create" /\ q.stage = "sent" =>
       q.stories \subseteq Stories /\ Cardinality(q.stories) <= MaxStories
  /\ q.op = "save" /\ q.stage \in {"sent", "ready"} /\ q.carousel \notin tangled => Neat(q.deck)
  /\ q.op = "add" /\ q.stage = "ready" /\ q.carousel \notin tangled => Neat(q.deck)
  /\ Holding(r) /\ r \notin crossed =>
       \A b \in ToSet(rows[q.carousel]) : b.number \in q.loaded

\* A deck that is not tangled is of one save, and fits.
OneBatch(k) == Len(rows[k]) <= 1 /\ \A i \in DOMAIN rows[k] : Neat(rows[k][i].deck)

CrossInv ==
  /\ ServiceInv
  /\ \A k \in CarouselIds \ tangled : OneBatch(k)
  /\ \A r \in Requests : CrossOK(r)

\* Rows of one batch, or of none.
LEMMA RowsAre ==
  ASSUME CrossInv, NEW k \in CarouselIds \ tangled
  PROVE  \/ rows[k] = <<>>
         \/ \E b \in Batch : rows[k] = <<b>> /\ Neat(b.deck)
<1>1. PICK batches : batches = rows[k]
  OBVIOUS
<1>2. /\ batches \in Seq(Batch) /\ Len(batches) <= 1
      /\ \A i \in DOMAIN batches : Neat(batches[i].deck)
  BY <1>1 DEF CrossInv, ServiceInv, TypeOK, OneBatch
<1>3. Len(batches) \in Nat /\ DOMAIN batches = 1..Len(batches)
  BY <1>2
<1>4. CASE Len(batches) = 0
  BY <1>1, <1>2, <1>4
<1>5. CASE Len(batches) = 1
  <2>1. 1 \in DOMAIN batches
    BY <1>3, <1>5
  <2>2. batches[1] \in Batch /\ Neat(batches[1].deck)
    BY <1>2, <2>1
  <2>3. PICK b \in Batch : b = batches[1]
    BY <2>2
  <2>4. batches = <<b>>
    BY <1>2, <1>5, <2>3
  <2>5. QED
    BY <1>1, <2>2, <2>3, <2>4
<1>6. Len(batches) = 0 \/ Len(batches) = 1
  BY <1>2, <1>3
<1>7. QED
  BY <1>4, <1>5, <1>6

LEMMA NeatDeck ==
  ASSUME CrossInv, NEW k \in CarouselIds \ tangled
  PROVE  Neat(Deck(k))
<1>1. CASE rows[k] = <<>>
  BY <1>1, MergedNone, EmptyNeat DEF Deck
<1>2. ASSUME NEW b \in Batch, rows[k] = <<b>>, Neat(b.deck) PROVE Neat(Deck(k))
  <2>1. Deck(k) = b.deck
    BY <1>2, MergedOne DEF Deck
  <2>2. QED
    BY <1>2, <2>1
<1>3. QED
  BY <1>1, <1>2, RowsAre

\* Who is not crossed after a step was not before, and saw no save in it; a deck
\* that is not tangled after it was not before.
LEMMA History ==
  ASSUME Track
  PROVE  /\ tangled \subseteq tangled'
         /\ \A p \in Requests : Holding(p)' /\ p \notin crossed' => p \notin crossed /\ ~Crosses(p)
BY DEF Track

\* A request that a step does not touch loses no ground, unless its rows change.
LEMMA OthersUncrossed ==
  ASSUME CrossInv, Track, NEW p \in Requests, request'[p] = request[p],
         Holding(p) /\ p \notin crossed' =>
           rows'[request[p].carousel] \in {rows[request[p].carousel], <<>>}
  PROVE  CrossOK(p)'
<1>1. CrossOK(p)
  BY DEF CrossInv
<1>2. Holding(p)' <=> Holding(p)
  BY DEF Holding
<1>3. ToSet(<<>>) = {}
  BY DEF ToSet
<1>4. Holding(p)' /\ p \notin crossed' =>
        \A b \in ToSet(rows'[request[p].carousel]) : b.number \in request[p].loaded
  BY <1>1, <1>2, <1>3, History DEF CrossOK
<1>5. QED
  BY <1>1, <1>4, History DEF CrossOK

\* A step of one request that leaves every deck as it is.
LEMMA DecksKept ==
  ASSUME CrossInv, ServiceInv', Track, NEW r \in Requests,
         \A p \in Requests \ {r} : request'[p] = request[p], rows' = rows, CrossOK(r)'
  PROVE  CrossInv'
<1>1. \A p \in Requests \ {r} : CrossOK(p)'
  BY OthersUncrossed
<1>2. \A k \in CarouselIds \ tangled' : OneBatch(k)'
  BY History DEF CrossInv, OneBatch
<1>3. QED
  BY <1>1, <1>2 DEF CrossInv

\* Nothing is owed to a request that has ended, or has not begun.
LEMMA Ended ==
  ASSUME NEW r, request[r].stage \in {"idle", "failed", "committed", "done"}
  PROVE  CrossOK(r)
BY DEF CrossOK, Holding

LEMMA AskCross ==
  ASSUME CrossInv, Track, NEW r \in Requests, Ask(r)
  PROVE  CrossInv'
<1>1. ServiceInv' /\ request \in [Requests -> Request] /\ exists \subseteq CarouselIds
  <2>1. ServiceInv
    BY DEF CrossInv
  <2>2. QED
    BY <2>1, AskOK, TheRequest
<1>2. ASSUME NEW op, NEW k, NEW stories, NEW deck, Send(r, op, k, stories, deck),
             op = "create" => stories \subseteq Stories /\ Cardinality(stories) <= MaxStories,
             op = "save" /\ k \notin tangled => Neat(deck)
      PROVE  CrossInv'
  <2>1. PICK new : new = [Idle EXCEPT !.op = op, !.stage = "sent", !.carousel = k,
                                      !.stories = stories, !.deck = deck, !.number = sent + 1]
    OBVIOUS
  <2>2. /\ new.op = op /\ new.stage = "sent" /\ new.stories = stories /\ new.deck = deck
        /\ new.carousel = k
    BY <2>1 DEF Idle
  <2>3. request' = [request EXCEPT ![r] = new] /\ rows' = rows
    BY <1>2, <2>1 DEF Send
  <2>4. request'[r] = new /\ \A p \in Requests \ {r} : request'[p] = request[p]
    BY <1>1, <2>3
  <2>5. CrossOK(r)'
    BY <1>2, <2>2, <2>4, History DEF CrossOK, Holding
  <2>6. QED
    BY <1>1, <2>3, <2>4, <2>5, DecksKept
<1>3. CASE \E S \in Selections : Send(r, "create", None, S, <<>>)
  BY <1>2, <1>3 DEF Selections
<1>4. CASE \E k \in exists, S \in Selections : Send(r, "add", k, S, <<>>)
  BY <1>2, <1>4
<1>5. ASSUME NEW k \in exists, NEW d \in Edits(Deck(k)), Len(d) <= MaxSlides,
             Send(r, "save", k, {}, d)
      PROVE  CrossInv'
  <2>1. k \notin tangled => Neat(Deck(k))
    BY <1>1, NeatDeck
  <2>2. k \notin tangled => Neat(d)
    BY <1>5, <2>1, EditsNeat
  <2>3. QED
    BY <1>2, <1>5, <2>2
<1>6. CASE \E k \in exists, op \in {"open", "delete", "zip"} : Send(r, op, k, {}, <<>>)
  BY <1>2, <1>6
<1>7. QED
  BY <1>3, <1>4, <1>5, <1>6 DEF Ask

LEMMA GetCross ==
  ASSUME CrossInv, ServiceInv', Track, NEW r \in Requests, Get(r)
  PROVE  CrossInv'
<1>1. PICK q : q = request[r]
  OBVIOUS
<1>2. /\ request \in [Requests -> Request] /\ q \in Request /\ CrossOK(r)
  BY <1>1 DEF CrossInv, ServiceInv, TypeOK
<1>3. /\ rows' = rows /\ q.stage = "sent" /\ q.op \in Loading
      /\ \A p \in Requests \ {r} : request'[p] = request[p]
  BY <1>1, <1>2 DEF Get, Step
<1>4. CASE q.carousel \notin exists
  <2>1. request'[r].stage = "failed"
    BY <1>1, <1>2, <1>4 DEF Get, Step, Request
  <2>2. QED
    BY <1>3, <2>1, Ended, DecksKept DEF CrossOK, Holding
<1>5. CASE q.carousel \in exists
  <2>0. PICK numbers : numbers = {b.number : b \in ToSet(rows[q.carousel])}
    OBVIOUS
  <2>1. /\ request'[r].op = q.op /\ request'[r].carousel = q.carousel
        /\ request'[r].deck = q.deck /\ request'[r].loaded = numbers
        /\ request'[r].stage = IF q.op = "add" THEN "loaded" ELSE "ready"
    <3>1. request' = [request EXCEPT
            ![r].stage = IF q.op = "add" THEN "loaded" ELSE "ready",
            ![r].loaded = numbers, ![r].held = stamp[q.carousel]]
      BY <1>1, <1>5, <2>0 DEF Get
    <3>2. QED
      BY <1>1, <1>2, <3>1 DEF Request
  <2>2. q.op = "save" /\ q.carousel \notin tangled => Neat(q.deck)
    BY <1>1, <1>2, <1>3 DEF CrossOK
  <2>3. CrossOK(r)'
    BY <1>3, <2>0, <2>1, <2>2, History DEF CrossOK, Loading
  <2>4. QED
    BY <1>3, <2>3, DecksKept
<1>6. QED
  BY <1>4, <1>5

LEMMA ComposeCross ==
  ASSUME CrossInv, ServiceInv', Track, NEW r \in Requests, Compose(r)
  PROVE  CrossInv'
<1>1. PICK q : q = request[r]
  OBVIOUS
<1>2. PICK k : k = q.carousel
  OBVIOUS
<1>3. PICK deck : deck = Deck(k)
  OBVIOUS
<1>4. PICK fresh : fresh = Fresh(q.stories, deck)
  OBVIOUS
<1>5. /\ request \in [Requests -> Request] /\ q \in Request /\ CrossOK(r) /\ RequestOK(r)
      /\ k \in CarouselIds \cup {None}
  BY <1>1, <1>2 DEF CrossInv, ServiceInv, TypeOK, Request
<1>6. rows' = rows /\ q.op = "add" /\ q.stage = "loaded"
  BY <1>1 DEF Compose, At
<1>7. /\ k \in CarouselIds
      /\ r \notin crossed => \A b \in ToSet(rows[k]) : b.number \in q.loaded
  BY <1>1, <1>2, <1>5, <1>6 DEF CrossOK, RequestOK, Holding
<1>8. CASE ~Fits(deck, fresh)
  <2>1. request' = [request EXCEPT ![r].stage = "failed"]
    BY <1>1, <1>2, <1>3, <1>4, <1>8, Zenon DEF Compose, Step
  <2>2. request'[r].stage = "failed" /\ \A p \in Requests \ {r} : request'[p] = request[p]
    BY <1>1, <1>5, <2>1 DEF Request
  <2>3. QED
    BY <1>6, <2>2, Ended, DecksKept DEF CrossOK, Holding
<1>9. CASE Fits(deck, fresh)
  <2>1. PICK new : new = Inserted(deck, fresh)
    OBVIOUS
  <2>2. request' = [request EXCEPT ![r].stage = "ready", ![r].stories = fresh, ![r].deck = new]
    BY <1>1, <1>2, <1>3, <1>4, <1>9, <2>1 DEF Compose
  <2>3. /\ request'[r].op = "add" /\ request'[r].stage = "ready"
        /\ request'[r].carousel = k /\ request'[r].deck = new /\ request'[r].loaded = q.loaded
        /\ \A p \in Requests \ {r} : request'[p] = request[p]
    BY <1>1, <1>2, <1>5, <1>6, <2>2 DEF Request
  <2>4. ASSUME k \notin tangled PROVE Neat(new)
    <3>1. Neat(deck)
      BY <1>3, <1>7, <2>4, NeatDeck
    <3>2. fresh \in SUBSET Stories /\ fresh \cap StoriesIn(deck) = {}
      BY <1>4, <1>5 DEF Fresh, Request
    <3>3. QED
      BY <1>9, <2>1, <3>1, <3>2, InsertedNeat
  <2>5. CrossOK(r)'
    BY <1>6, <1>7, <2>3, <2>4, History DEF CrossOK
  <2>6. QED
    BY <1>6, <2>3, <2>5, DecksKept
<1>10. QED
  BY <1>8, <1>9

\* A save that was not crossed leaves the deck it sent, and nothing else.
LEMMA UncrossedSave ==
  ASSUME CrossInv, NEW r \in Requests \ crossed, CommitAdd(r) \/ CommitSave(r),
         NEW k, k = request[r].carousel
  PROVE  /\ Leaves(r)
         /\ Len(rows'[k]) <= 1 /\ \A i \in DOMAIN rows'[k] : rows'[k][i].deck = request[r].deck
<1>1. PICK q : q = request[r]
  OBVIOUS
<1>2. /\ rows \in [CarouselIds -> Seq(Batch)] /\ request \in [Requests -> Request]
      /\ q \in Request /\ exists \subseteq CarouselIds /\ CrossOK(r) /\ RequestOK(r)
  BY <1>1 DEF CrossInv, ServiceInv, TypeOK
<1>3. /\ k \in CarouselIds /\ SaveDeck(r, k) /\ k = q.carousel
      /\ q.op \in {"add", "save"} /\ q.stage = "ready"
  BY <1>1, <1>2 DEF CommitAdd, CommitSave, At
<1>4. \A b \in ToSet(rows[k]) : b.number \in q.loaded
  BY <1>1, <1>3, <1>2 DEF CrossOK, Holding
<1>5. Part(rows[k], {i \in DOMAIN rows[k] : rows[k][i].number \notin q.loaded}) = <<>>
  <2>1. {i \in DOMAIN rows[k] : rows[k][i].number \notin q.loaded} = {}
    BY <1>4 DEF ToSet
  <2>2. PICK I : I = {i \in DOMAIN rows[k] : rows[k][i].number \notin q.loaded}
    OBVIOUS
  <2>3. Part(rows[k], I) \in Seq(Batch) /\ Len(Part(rows[k], I)) = Cardinality(I)
    BY <1>2, <1>3, <2>2, PartOf
  <2>4. Cardinality(I) = 0
    BY <2>1, <2>2, FS_EmptySet
  <2>5. PICK part : part = Part(rows[k], I)
    OBVIOUS
  <2>6. part = <<>>
    BY <2>3, <2>4, <2>5
  <2>7. QED
    BY <2>2, <2>5, <2>6, Zenon
<1>6. PICK batch : batch = [number |-> q.number, deck |-> q.deck]
  OBVIOUS
<1>7. PICK new : new = IF q.deck = <<>> THEN <<>> ELSE <<batch>>
  OBVIOUS
<1>8. Replaced(r, k) = new
  <2>1. Replaced(r, k) = <<>> \o new
    BY <1>1, <1>5, <1>6, <1>7, Zenon DEF Replaced
  <2>2. <<batch>> \in Seq({batch}) /\ <<>> \in Seq({batch})
    OBVIOUS
  <2>3. <<>> \o new = new
    BY <1>7, <2>2, ConcatEmptySeq, Zenon
  <2>4. QED
    BY <2>1, <2>3, Zenon
<1>9. rows' = [rows EXCEPT ![k] = new]
  BY <1>3, <1>8, Zenon DEF SaveDeck
<1>10. batch.deck = q.deck
  BY <1>6
<1>11. q.deck # <<>> => batch \in Batch
  <2>1. q.number \in Numbers
    BY <1>1, <1>2, <1>3 DEF RequestOK
  <2>2. q.deck \in Seq(Slides)
    BY <1>2 DEF Request
  <2>3. QED
    BY <1>6, <2>1, <2>2 DEF Batch
<1>12. Merged(new) = q.deck
  BY <1>7, <1>10, <1>11, MergedOne, MergedNone
<1>13. Len(new) <= 1 /\ \A i \in DOMAIN new : new[i].deck = q.deck
  BY <1>7, <1>10
<1>14. rows'[k] = new
  BY <1>2, <1>3, <1>9
<1>15. QED
  BY <1>1, <1>3, <1>12, <1>13, <1>14 DEF Leaves

LEMMA SaveCross ==
  ASSUME CrossInv, ServiceInv', Track, NEW r \in Requests, CommitAdd(r) \/ CommitSave(r)
  PROVE  CrossInv'
<1>1. PICK q : q = request[r]
  OBVIOUS
<1>2. PICK k : k = q.carousel
  OBVIOUS
<1>3. /\ rows \in [CarouselIds -> Seq(Batch)] /\ request \in [Requests -> Request]
      /\ q \in Request /\ exists \subseteq CarouselIds /\ CrossOK(r)
  BY <1>1 DEF CrossInv, ServiceInv, TypeOK
<1>4. /\ k \in CarouselIds /\ SaveDeck(r, k) /\ q.op \in {"add", "save"} /\ q.stage = "ready"
  BY <1>1, <1>2, <1>3 DEF CommitAdd, CommitSave, At
<1>5. \A c \in CarouselIds \ {k} : rows'[c] = rows[c]
  BY <1>3, <1>4 DEF SaveDeck
<1>6. /\ request'[r].stage \in {"committed", "done"}
      /\ \A p \in Requests \ {r} : request'[p] = request[p]
  BY <1>1, <1>3 DEF CommitAdd, CommitSave, Step, Request
<1>7. Saves(r)
  BY <1>1, <1>4, <1>6 DEF Saves, Holding
<1>8. ASSUME NEW p \in Requests \ {r} PROVE CrossOK(p)'
  <2>1. request[p] \in Request /\ RequestOK(p)
    BY <1>3 DEF CrossInv, ServiceInv
  <2>2. ASSUME Holding(p), p \notin crossed'
        PROVE  rows'[request[p].carousel] = rows[request[p].carousel]
    <3>1. Holding(p)'
      BY <1>6, <2>2 DEF Holding
    <3>2. ~Crosses(p)
      BY <2>2, <3>1, History
    <3>3. request[p].carousel # k
      BY <1>1, <1>2, <1>7, <3>2 DEF Crosses
    <3>4. request[p].carousel \in CarouselIds
      BY <2>1, <2>2 DEF RequestOK, Holding, Request
    <3>5. QED
      BY <1>5, <3>3, <3>4
  <2>3. QED
    BY <1>6, <2>2, OthersUncrossed
<1>9. CrossOK(r)'
  BY <1>6 DEF CrossOK, Holding
<1>10. ASSUME NEW c \in CarouselIds \ tangled' PROVE OneBatch(c)'
  <2>1. c \notin tangled
    BY <1>10, History
  <2>2. CASE c # k
    BY <1>5, <2>1, <2>2 DEF CrossInv, OneBatch
  <2>3. CASE c = k
    <3>1. r \notin crossed
      BY <1>1, <1>2, <1>7, <1>10, <2>3 DEF Track
    <3>2. Neat(q.deck)
      BY <1>1, <1>2, <1>3, <1>4, <2>1, <2>3 DEF CrossOK
    <3>3. /\ Len(rows'[k]) <= 1
          /\ \A i \in DOMAIN rows'[k] : rows'[k][i].deck = q.deck
      BY <1>1, <1>2, <3>1, UncrossedSave
    <3>4. QED
      BY <2>3, <3>2, <3>3 DEF OneBatch
  <2>4. QED
    BY <2>2, <2>3
<1>11. QED
  BY <1>8, <1>9, <1>10 DEF CrossInv

\* No request holds the rows of a carousel that is not yet made.
LEMMA CreateCross ==
  ASSUME CrossInv, ServiceInv', Track, NEW r \in Requests, NEW k \in CarouselIds,
         CommitCreate(r, k)
  PROVE  CrossInv'
<1>1. PICK deck : deck = Built(request[r].stories)
  OBVIOUS
<1>2. /\ rows \in [CarouselIds -> Seq(Batch)] /\ request \in [Requests -> Request]
      /\ request[r] \in Request
  BY DEF CrossInv, ServiceInv, TypeOK
<1>3. Neat(deck)
  <2>1. CrossOK(r) /\ request[r].op = "create" /\ request[r].stage = "sent"
    BY <1>2 DEF CrossInv, CommitCreate, At
  <2>2. request[r].stories \in SUBSET Stories /\ Cardinality(request[r].stories) <= MaxStories
    BY <2>1 DEF CrossOK
  <2>3. QED
    BY <1>1, <2>2, BuiltNeat
<1>4. PICK new : new = <<[number |-> request[r].number, deck |-> deck]>>
  OBVIOUS
<1>5. Len(new) <= 1 /\ \A i \in DOMAIN new : new[i].deck = deck
  BY <1>4
<1>6. rows' = [rows EXCEPT ![k] = new] /\ city[k] = None
  BY <1>1, <1>4 DEF CommitCreate
<1>7. \A c \in CarouselIds \ {k} : rows'[c] = rows[c]
  BY <1>2, <1>6
<1>8. rows'[k] = new
  BY <1>2, <1>6
<1>9. /\ request'[r].stage = "committed"
      /\ \A p \in Requests \ {r} : request'[p] = request[p]
  BY <1>2 DEF CommitCreate, Request
<1>10. ASSUME NEW c \in CarouselIds \ tangled' PROVE OneBatch(c)'
  <2>1. CASE c = k
    <3>1. Len(rows'[c]) <= 1 /\ \A i \in DOMAIN rows'[c] : Neat(rows'[c][i].deck)
      BY <1>3, <1>5, <1>8, <2>1, Zenon
    <3>2. QED
      BY <3>1 DEF OneBatch
  <2>2. CASE c # k
    BY <1>7, <1>10, <2>2, History DEF CrossInv, OneBatch
  <2>3. QED
    BY <2>1, <2>2
<1>11. ASSUME NEW p \in Requests \ {r} PROVE CrossOK(p)'
  <2>1. request[p] \in Request /\ RequestOK(p)
    BY <1>2 DEF CrossInv, ServiceInv
  <2>2. Holding(p) => /\ request[p].carousel \in CarouselIds
                      /\ city[request[p].carousel] # None
    BY <2>1 DEF RequestOK, Born, Holding, Request
  <2>3. Holding(p) => rows'[request[p].carousel] = rows[request[p].carousel]
    BY <1>6, <1>7, <2>2
  <2>4. QED
    BY <1>9, <2>3, OthersUncrossed
<1>12. CrossOK(r)'
  BY <1>9 DEF CrossOK, Holding
<1>13. QED
  BY <1>10, <1>11, <1>12 DEF CrossInv

LEMMA DeleteCross ==
  ASSUME CrossInv, ServiceInv', Track, NEW r \in Requests, CommitDelete(r)
  PROVE  CrossInv'
<1>1. PICK k : k = request[r].carousel
  OBVIOUS
<1>2. /\ rows \in [CarouselIds -> Seq(Batch)] /\ request \in [Requests -> Request]
      /\ request[r] \in Request
  BY DEF CrossInv, ServiceInv, TypeOK
<1>3. PICK none : none = <<>>
  OBVIOUS
<1>4. Len(none) <= 1 /\ DOMAIN none = {}
  BY <1>3
<1>5. rows' = [rows EXCEPT ![k] = none]
  BY <1>1, <1>3 DEF CommitDelete
<1>6. \A c \in CarouselIds : rows'[c] \in {rows[c], none}
  BY <1>2, <1>5
<1>7. \A c \in CarouselIds \ tangled' : OneBatch(c)'
  BY <1>4, <1>6, History DEF CrossInv, OneBatch
<1>8. /\ request'[r].stage = "done"
      /\ \A p \in Requests \ {r} : request'[p] = request[p]
  BY <1>2 DEF CommitDelete, Step, Request
<1>9. ASSUME NEW p \in Requests \ {r} PROVE CrossOK(p)'
  <2>1. request[p] \in Request /\ RequestOK(p)
    BY <1>2 DEF CrossInv, ServiceInv
  <2>2. Holding(p) => request[p].carousel \in CarouselIds
    BY <2>1 DEF RequestOK, Holding, Request
  <2>3. QED
    BY <1>3, <1>6, <1>8, <2>2, OthersUncrossed
<1>10. CrossOK(r)'
  BY <1>8 DEF CrossOK, Holding
<1>11. QED
  BY <1>7, <1>9, <1>10 DEF CrossInv

LEMMA HandleCross ==
  ASSUME CrossInv, Track, NEW r \in Requests, Handle(r) \/ Fail(r) \/ Receive(r)
  PROVE  CrossInv'
<1>1. ServiceInv' /\ request \in [Requests -> Request] /\ request[r] \in Request
  <2>1. ServiceInv
    BY DEF CrossInv
  <2>2. QED
    BY <2>1, HandleOK, TheRequest
<1>2. CASE Get(r)
  BY <1>1, <1>2, GetCross
<1>3. CASE Compose(r)
  BY <1>1, <1>3, ComposeCross
<1>4. CASE \E k \in CarouselIds : CommitCreate(r, k)
  BY <1>1, <1>4, CreateCross
<1>5. CASE CommitAdd(r) \/ CommitSave(r)
  BY <1>1, <1>5, SaveCross
<1>6. CASE CommitDelete(r)
  BY <1>1, <1>6, DeleteCross
<1>7. CASE Refuse(r) \/ CommitZip(r) \/ Respond(r) \/ Fail(r) \/ Receive(r)
  <2>1. rows' = rows
    BY <1>7 DEF Refuse, CommitZip, Respond, Fail, Receive
  <2>2. /\ request'[r].stage \in {"idle", "failed", "done"}
        /\ \A p \in Requests \ {r} : request'[p] = request[p]
    BY <1>1, <1>7 DEF Refuse, CommitZip, Respond, Fail, Receive, Step, Idle, Request
  <2>3. CrossOK(r)'
    BY <2>2 DEF CrossOK, Holding
  <2>4. QED
    BY <1>1, <2>1, <2>2, <2>3, DecksKept
<1>8. QED
  BY <1>2, <1>3, <1>4, <1>5, <1>6, <1>7 DEF Handle

LEMMA CrossStart == CrossInit => CrossInv
<1> SUFFICES ASSUME CrossInit PROVE CrossInv
  OBVIOUS
<1>1. \A k \in CarouselIds : rows[k] = <<>>
  BY DEF CrossInit, Init
<1>2. \A k \in CarouselIds : OneBatch(k)
  BY <1>1 DEF OneBatch
<1>3. \A r \in Requests : CrossOK(r)
  BY DEF CrossInit, Init, Idle, CrossOK, Holding
<1>4. QED
  BY <1>2, <1>3, InitOK DEF CrossInit, CrossInv

LEMMA CrossStep == CrossInv /\ [CrossNext]_crossVars => CrossInv'
<1> SUFFICES ASSUME CrossInv, [CrossNext]_crossVars PROVE CrossInv'
  OBVIOUS
<1>1. CASE UNCHANGED crossVars
  BY <1>1 DEF crossVars, vars, CrossInv, OneBatch, CrossOK, Holding,
              ServiceInv, TypeOK, RowsOK, RequestOK, Born, Into, Promised
<1>2. ASSUME NEW r \in Requests, Track, Ask(r) PROVE CrossInv'
  BY <1>2, AskCross
<1>3. ASSUME NEW r \in Requests, Track, Handle(r) \/ Fail(r) \/ Receive(r) PROVE CrossInv'
  BY <1>3, HandleCross
<1>4. QED
  BY <1>1, <1>2, <1>3 DEF CrossNext, Next

\* However many requests overlap, whatever they add, edit, delete and lose: only a save
\* that another one crossed can spoil a deck. Every other deck stays within its brackets
\* and the cap on stories: what the cap is counted on is the deck that is stored, and
\* not what another save has made of it since (carousel.py:181-184).
THEOREM UncrossedFitsHolds == CrossSpec => []UncrossedFits
<1>1. CrossInv => UncrossedFits
  BY NeatDeck DEF UncrossedFits, Fitting, Neat
<1>2. QED
  BY <1>1, CrossStart, CrossStep, PTL DEF CrossSpec

\* Nor does any other deck hold a story twice (carousel.py:173-180).
THEOREM UncrossedOnceHolds == CrossSpec => []UncrossedOnce
<1>1. CrossInv => UncrossedOnce
  <2> SUFFICES ASSUME CrossInv, NEW k \in CarouselIds \ tangled, NEW i \in DOMAIN Deck(k),
                      NEW j \in DOMAIN Deck(k), Deck(k)[i] = Deck(k)[j], Deck(k)[i] \in Stories
               PROVE  i = j
    BY DEF UncrossedOnce, EachOnce
  <2>1. Once(Deck(k))
    BY NeatDeck DEF Neat
  <2>2. QED
    BY <2>1, CarouselsAssumption DEF Once
<1>2. QED
  BY <1>1, CrossStart, CrossStep, PTL DEF CrossSpec

\* And a save that no other crossed leaves in the table the deck it sent, slide by slide
\* in its order, whatever was there: its session loaded every row before it deleted them
\* (carousel.py:148-170).
THEOREM SaveRepairsHolds == CrossSpec => SaveRepairs
<1>1. CrossInv /\ [CrossNext]_crossVars =>
        [\A r \in Requests \ crossed : CommitAdd(r) \/ CommitSave(r) => Leaves(r)]_crossVars
  BY UncrossedSave
<1>2. QED
  BY <1>1, CrossStart, CrossStep, PTL DEF CrossSpec, SaveRepairs
=============================================================================
