------------------------------- MODULE Carousels -------------------------------
(***************************************************************************)
(* The carousel service (app/services/carousel.py and the carousel         *)
(* endpoints): building a deck from picked stories, adding stories to it,  *)
(* the autosave, opening, deleting and downloading it, and the selections  *)
(* that record every pick.                                                 *)
(*                                                                         *)
(* A request is sent, is worked on by a handler with a database session of *)
(* its own, and is answered. Replacing a deck deletes the slide rows the   *)
(* session had loaded, by their ids, and inserts the new ones: the rows of *)
(* a save that committed in between are neither. The rows one save         *)
(* inserted therefore appear and disappear together, as a batch.           *)
(*                                                                         *)
(* A slide's text is left out: an edit is what changes the list of slides. *)
(***************************************************************************)
EXTENDS Lists, SequencesExt

CONSTANTS
  CarouselIds,  \* the ids the carousels table can hand out
  Stories,      \* the articles an editor can pick
  Ranked,       \* Stories in engagement order, strongest first
  Cities,
  CityOf,       \* CityOf[s]: the city of the story's source
  Intro, Cta,   \* the bracket slides
  Blank,        \* a slide written by hand: laid out as a story, with no article
  None,         \* no carousel, no city
  Requests,     \* requests in flight at once
  MaxStories,   \* carousel_max_stories
  MaxRequests   \* bound: requests ever sent

Slides    == {Intro, Cta, Blank} \cup Stories
MaxSlides == MaxStories + 2
Numbers   == 1..MaxRequests

ASSUME CarouselsAssumption ==
  /\ MaxStories \in Nat \ {0} /\ MaxRequests \in Nat
  /\ Ranked \in Seq(Stories) /\ ToSet(Ranked) = Stories
  /\ \A i, j \in DOMAIN Ranked : Ranked[i] = Ranked[j] => i = j
  /\ CityOf \in [Stories -> Cities]
  /\ None \notin CarouselIds \cup Cities
  /\ {Intro, Cta, Blank} \cap Stories = {}
  /\ Intro # Cta /\ Blank \notin {Intro, Cta}

VARIABLES
  exists,    \* the carousels that have a row
  city,      \* city[k]: the carousel's city_id; None before the row is made
  rows,      \* rows[k]: its slide rows, one batch per save, oldest first
  stamp,     \* stamp[k]: its timestamps, and which of the two is the later
  picks,     \* the selections table
  request,   \* request[r]
  sent       \* how many requests were ever sent

vars == <<exists, city, rows, stamp, picks, request, sent>>

\* A deck of no slides has no rows, and so no batch.
Batch == [number : Numbers, deck : Seq(Slides) \ {<<>>}]

\* Stale: last_edited_at is after last_downloaded_at.
Stamp == [edited : BOOLEAN, downloaded : BOOLEAN, stale : BOOLEAN]

\* A pick, and the deck it went into; the number tells apart picks of one
\* story by different requests.
Pick == [story : Stories, carousel : CarouselIds \cup {None}, number : Numbers]

\* A request: the stories it names, the deck it writes or is answered with, and
\* what its session loaded: the batches it would delete, and the timestamps as
\* they were.
Request ==
  [op : {"none", "create", "add", "save", "open", "delete", "zip"},
   stage : {"idle", "sent", "loaded", "ready", "committed", "done", "failed"},
   carousel : CarouselIds \cup {None}, stories : SUBSET Stories,
   deck : Seq(Slides), loaded : SUBSET Numbers, held : Stamp, number : 0..MaxRequests]

Unstamped == [edited |-> FALSE, downloaded |-> FALSE, stale |-> FALSE]
Idle      == [op |-> "none", stage |-> "idle", carousel |-> None, stories |-> {},
              deck |-> <<>>, loaded |-> {}, held |-> Unstamped, number |-> 0]

TypeOK ==
  /\ exists \subseteq CarouselIds
  /\ city \in [CarouselIds -> Cities \cup {None}]
  /\ rows \in [CarouselIds -> Seq(Batch)]
  /\ stamp \in [CarouselIds -> Stamp]
  /\ picks \subseteq Pick
  /\ request \in [Requests -> Request]
  /\ sent \in 0..MaxRequests

Init ==
  /\ exists = {}
  /\ city = [k \in CarouselIds |-> None]
  /\ rows = [k \in CarouselIds |-> <<>>]
  /\ stamp = [k \in CarouselIds |-> Unstamped]
  /\ picks = {}
  /\ request = [r \in Requests |-> Idle]
  /\ sent = 0

------------------------------------------------------------------------------
\* Decks.

\* The slides of several batches by position, as load_deck selects them; rows
\* with equal positions come in the order they were inserted.
Places(batches) == UNION {{i} \X DOMAIN batches[i].deck : i \in DOMAIN batches}

Precedence(places) ==
  {p \in places \X places :
     p[1][2] < p[2][2] \/ (p[1][2] = p[2][2] /\ p[1][1] < p[2][1])}

Merged(batches) ==
  LET places == Places(batches)
      place  == Lined(places, Precedence(places))
  IN [n \in 1..Cardinality(places) |-> batches[place[n][1]].deck[place[n][2]]]

Deck(k) == Merged(rows[k])

IsStory(slide) == slide \in Stories \cup {Blank}
StoriesIn(deck) == ToSet(deck) \cap Stories
InOrder(stories) == Part(Ranked, {i \in DOMAIN Ranked : Ranked[i] \in stories})

Built(stories) == <<Intro>> \o InOrder(stories) \o <<Cta>>

\* New slides go in front of the CTA, or at the end of a deck without one.
Inserted(deck, stories) ==
  LET closing == SelectInSeq(deck, LAMBDA slide : slide = Cta)
      at      == IF closing = 0 THEN Len(deck) + 1 ELSE closing
  IN SubSeq(deck, 1, at - 1) \o InOrder(stories) \o SubSeq(deck, at, Len(deck))

\* Mutant of Fresh: stories that are in the deck already are inserted again.
FreshAll(stories, deck) == stories

Fresh(stories, deck) == stories \ StoriesIn(deck)

\* The cap counts the slides laid out as stories, those written by hand too.
Fits(deck, stories) ==
  Cardinality({i \in DOMAIN deck : IsStory(deck[i])}) + Cardinality(stories) <= MaxStories

------------------------------------------------------------------------------
\* Requests.

At(r, op, stage) == request[r].op = op /\ request[r].stage = stage
Step(r, stage)   == request' = [request EXCEPT ![r].stage = stage]

Send(r, op, k, stories, deck) ==
  /\ request[r].stage = "idle"
  /\ sent < MaxRequests
  /\ sent' = sent + 1
  /\ request' = [request EXCEPT ![r] =
       [Idle EXCEPT !.op = op, !.stage = "sent", !.carousel = k,
                    !.stories = stories, !.deck = deck, !.number = sent + 1]]
  /\ UNCHANGED <<exists, city, rows, stamp, picks>>

\* _get: the carousel and its slide rows. The autosave's deck came with the
\* request; what is left for an add is to read the deck it inserts into.
Loading == {"add", "save", "delete", "zip"}

Get(r) ==
  LET k == request[r].carousel IN
  /\ request[r].stage = "sent" /\ request[r].op \in Loading
  /\ IF k \in exists
     THEN request' = [request EXCEPT
            ![r].stage = IF request[r].op = "add" THEN "loaded" ELSE "ready",
            ![r].loaded = {b.number : b \in ToSet(rows[k])},
            ![r].held = stamp[k]]
     ELSE Step(r, "failed")
  /\ UNCHANGED <<exists, city, rows, stamp, picks, sent>>

\* add_stories reads the deck a second time, drops the stories already in it
\* and refuses what would not fit.
Compose(r) ==
  LET k     == request[r].carousel
      deck  == Deck(k)
      fresh == Fresh(request[r].stories, deck)
  IN
  /\ At(r, "add", "loaded")
  /\ IF Fits(deck, fresh)
     THEN request' = [request EXCEPT ![r].stage = "ready", ![r].stories = fresh,
                                     ![r].deck = Inserted(deck, fresh)]
     ELSE Step(r, "failed")
  /\ UNCHANGED <<exists, city, rows, stamp, picks, sent>>

\* Refused: stories of several cities make no carousel, and a commit fails when
\* the row it updates is gone.
OneCityIn(stories) == Cardinality({CityOf[s] : s \in stories}) = 1

Refuse(r) ==
  /\ \/ At(r, "create", "sent") /\ ~OneCityIn(request[r].stories)
     \/ /\ request[r].stage = "ready" /\ request[r].op # "delete"
        /\ request[r].carousel \notin exists
  /\ Step(r, "failed")
  /\ UNCHANGED <<exists, city, rows, stamp, picks, sent>>

\* Mutant of Replaced: slides taken off the relationship stay in the table, as
\* they do without its delete-orphan.
ReplacedNothing(r, k) ==
  rows[k] \o IF request[r].deck = <<>> THEN <<>>
             ELSE <<[number |-> request[r].number, deck |-> request[r].deck]>>

\* Mutant of Replaced: only the rows of the latest save are deleted.
ReplacedLatest(r, k) ==
  Part(rows[k], {i \in DOMAIN rows[k] :
                   rows[k][i].number \notin request[r].loaded \/ i < Len(rows[k])})
    \o IF request[r].deck = <<>> THEN <<>>
       ELSE <<[number |-> request[r].number, deck |-> request[r].deck]>>

\* save_deck: the loaded rows go, the new ones come.
Replaced(r, k) ==
  Part(rows[k], {i \in DOMAIN rows[k] : rows[k][i].number \notin request[r].loaded})
    \o IF request[r].deck = <<>> THEN <<>>
       ELSE <<[number |-> request[r].number, deck |-> request[r].deck]>>

\* Mutant of Flushed: the session writes back every timestamp it holds.
FlushedWhole(row, copy, changed) == [edited |-> copy.edited, downloaded |-> copy.downloaded]

\* The timestamps a commit leaves. The session's copy of the row may be old: the
\* columns it changed are written, of the others what is stored stands.
Flushed(row, copy, changed) ==
  [column \in {"edited", "downloaded"} |->
     IF column \in changed THEN copy[column] ELSE row[column]]

\* save_deck stamps the edit, which is then the later of the two.
SaveDeck(r, k) ==
  LET new == Flushed(stamp[k], [request[r].held EXCEPT !.edited = TRUE], {"edited"}) IN
  /\ rows' = [rows EXCEPT ![k] = Replaced(r, k)]
  /\ stamp' = [stamp EXCEPT ![k] = [edited |-> new.edited, downloaded |-> new.downloaded,
                                    stale |-> new.downloaded]]

\* _record: one selection for each story the request put in the deck.
Recorded(r, k, stories) ==
  {[story |-> s, carousel |-> k, number |-> request[r].number] : s \in stories}

\* create_carousel: one transaction.
CommitCreate(r, k) ==
  LET stories == request[r].stories IN
  /\ At(r, "create", "sent")
  /\ OneCityIn(stories) /\ city[k] = None
  /\ \E s \in stories : city' = [city EXCEPT ![k] = CityOf[s]]
  /\ exists' = exists \cup {k}
  /\ rows' = [rows EXCEPT ![k] = <<[number |-> request[r].number,
                                    deck |-> Built(stories)]>>]
  /\ stamp' = [stamp EXCEPT ![k].edited = TRUE]
  /\ picks' = picks \cup Recorded(r, k, stories)
  /\ request' = [request EXCEPT ![r].stage = "committed", ![r].carousel = k]
  /\ UNCHANGED sent

CommitAdd(r) ==
  LET k == request[r].carousel IN
  /\ At(r, "add", "ready") /\ k \in exists
  /\ SaveDeck(r, k)
  /\ picks' = picks \cup Recorded(r, k, request[r].stories)
  /\ Step(r, "committed")
  /\ UNCHANGED <<exists, city, sent>>

CommitSave(r) ==
  LET k == request[r].carousel IN
  /\ At(r, "save", "ready") /\ k \in exists
  /\ SaveDeck(r, k)
  /\ Step(r, "done")
  /\ UNCHANGED <<exists, city, picks, sent>>

\* The archive was built before the carousel was read: only the stamp is left.
CommitZip(r) ==
  LET k   == request[r].carousel
      new == Flushed(stamp[k], [request[r].held EXCEPT !.downloaded = TRUE], {"downloaded"})
  IN
  /\ At(r, "zip", "ready") /\ k \in exists
  /\ stamp' = [stamp EXCEPT ![k] = [edited |-> new.edited, downloaded |-> new.downloaded,
                                    stale |-> FALSE]]
  /\ Step(r, "done")
  /\ UNCHANGED <<exists, city, rows, picks, sent>>

\* Mutant of Orphaned: the selections' foreign key cascades.
OrphanedToo(k) == {p \in picks : p.carousel # k}

\* The foreign keys finish it: slides cascade, selections are kept with no
\* carousel. Deleting a row that is gone already deletes nothing.
Orphaned(k) == {IF p.carousel = k THEN [p EXCEPT !.carousel = None] ELSE p : p \in picks}

CommitDelete(r) ==
  LET k == request[r].carousel IN
  /\ At(r, "delete", "ready")
  /\ exists' = exists \ {k}
  /\ rows' = [rows EXCEPT ![k] = <<>>]
  /\ stamp' = [stamp EXCEPT ![k] = Unstamped]
  /\ picks' = Orphaned(k)
  /\ Step(r, "done")
  /\ UNCHANGED <<city, sent>>

\* _response: the stored deck, read after the commit, or when it is opened.
Respond(r) ==
  LET k == request[r].carousel IN
  /\ request[r].stage = "committed" \/ At(r, "open", "sent")
  /\ IF k \in exists
     THEN request' = [request EXCEPT ![r].stage = "done", ![r].deck = Deck(k)]
     ELSE Step(r, "failed")
  /\ UNCHANGED <<exists, city, rows, stamp, picks, sent>>

\* The request, the handler or the answer is lost: what was committed stays.
Fail(r) ==
  /\ request[r].stage \notin {"idle", "failed"}
  /\ Step(r, "failed")
  /\ UNCHANGED <<exists, city, rows, stamp, picks, sent>>

Receive(r) ==
  /\ request[r].stage \in {"done", "failed"}
  /\ request' = [request EXCEPT ![r] = Idle]
  /\ UNCHANGED <<exists, city, rows, stamp, picks, sent>>

Handle(r) ==
  \/ Get(r) \/ Compose(r) \/ Refuse(r)
  \/ \E k \in CarouselIds : CommitCreate(r, k)
  \/ CommitAdd(r) \/ CommitSave(r) \/ CommitZip(r) \/ CommitDelete(r)
  \/ Respond(r)

------------------------------------------------------------------------------
\* What the browser asks for: any selection, and the deck after one edit on the
\* canvas, which holds no more than MaxSlides slides. Rewriting a text leaves the
\* list as it is.

\* Bound: the ids there still are.
Unborn == {k \in CarouselIds : city[k] = None}

Selections == {S \in SUBSET Stories : S # {} /\ Cardinality(S) <= MaxStories}

Moved(deck, i, j) == InsertAt(RemoveAt(deck, i), j, deck[i])

Edits(deck) ==
  {RemoveAt(deck, i) : i \in DOMAIN deck}
    \cup {Append(deck, Blank)}
    \cup {Moved(deck, i, j) : i \in DOMAIN deck, j \in DOMAIN deck}

Ask(r) ==
  \/ Unborn # {} /\ \E S \in Selections : Send(r, "create", None, S, <<>>)
  \/ \E k \in exists :
       \/ \E S \in Selections : Send(r, "add", k, S, <<>>)
       \/ \E d \in Edits(Deck(k)) : Len(d) <= MaxSlides /\ Send(r, "save", k, {}, d)
       \/ \E op \in {"open", "delete", "zip"} : Send(r, op, k, {}, <<>>)

Next ==
  \E r \in Requests : Ask(r) \/ Handle(r) \/ Fail(r) \/ Receive(r)

Spec == Init /\ [][Next]_vars

------------------------------------------------------------------------------
\* Properties.

\* What the zip endpoint can take: a deck within its brackets and the cap on
\* stories.
Fitting(k) == Len(Deck(k)) <= MaxSlides

\* No story has two slides in the deck.
EachOnce(k) ==
  LET deck == Deck(k) IN
  \A i, j \in DOMAIN deck : deck[i] = deck[j] /\ deck[i] \in Stories => i = j

\* An add commits only stories the deck does not hold: "A double click, or a
\* picker that missed one, must not duplicate a slide"
\* (tests/test_carousel_api.py:420-421).
AddsMissingOnly ==
  [][\A r \in Requests :
       CommitAdd(r) => request[r].stories \cap StoriesIn(Deck(request[r].carousel)) = {}]_vars

\* Every story in a deck was recorded as picked into it, the evidence the
\* engagement score is measured against: no autosave, in whatever order it
\* meets an add or a delete, puts in a story that was not.
EvidenceComplete ==
  \A k \in exists : \A s \in StoriesIn(Deck(k)) :
    \E p \in picks : p.story = s /\ p.carousel = k

\* A carousel belongs to one city: all its stories are of its own.
OneCity == \A k \in exists : \A s \in StoriesIn(Deck(k)) : CityOf[s] = city[k]

\* Tidying the Gallery never shrinks the evidence: a pick stays for good, with
\* its carousel for as long as that exists.
PicksSurvive ==
  [][\A p \in picks :
       /\ \E q \in picks' : q.story = p.story /\ q.number = p.number
       /\ p.carousel \in exists' => p \in picks']_vars

\* A carousel that was downloaded stays downloaded until it is deleted: an add or
\* an autosave that read its row as a draft, while the archive was still being
\* built, does not write that back over the stamp.
StaysDownloaded ==
  [][\A k \in exists \cap exists' :
       stamp[k].downloaded => stamp'[k].downloaded]_vars

\* Saving replaces the deck wholesale: once a save is committed the stored deck
\* is the one it sent, and no slide of another save is left in it.
Leaves(r) == Merged(rows'[request[r].carousel]) = request[r].deck

LastWriteWins ==
  [][\A r \in Requests : CommitAdd(r) \/ CommitSave(r) => Leaves(r)]_vars

\* A deck nobody has touched since it was built carries no edit stamp.
UntouchedUnstamped ==
  [][\A k \in exists' \ exists : ~stamp'[k].edited]_vars

=============================================================================
