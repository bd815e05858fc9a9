------------------------------- MODULE Discover -------------------------------
(***************************************************************************)
(* The Discover page (app/static/js/feed.js) with the city store it scopes *)
(* itself by (city.js) and the story list it pages through                 *)
(* (app/api/v1/endpoints/stories.py), ordered as in Ranking.               *)
(*                                                                         *)
(* renderFeed is asynchronous and nothing cancels it: a render that the    *)
(* editor has left behind keeps asking and counting into the offset all    *)
(* renders share. Steps are the tasks of the browser's event loop: what a  *)
(* promise resolves runs before the next task, so a render that need not   *)
(* wait for the city list has subscribed and asked for the sources within  *)
(* the step that began it.                                                 *)
(***************************************************************************)
EXTENDS Ranking, Lists, Bags

CONSTANTS
  Stories,     \* article ids, numbers
  Cities,
  NoCity,      \* null
  CityOf,      \* the city of a story's source
  Published,   \* coalesce(published_at, fetched_at)
  Start,       \* row at first
  Remembered,  \* selections localStorage may hold
  Levels,      \* what the classifier judges of a story
  Locals,      \* stories derive_is_local admits before they are judged
  PageSize,
  MaxEvents    \* bound: what the editor does, stories arriving, judged or ageing
               \* out, cities archived, and calls that fail

Orders == {"recent", "engagement"}

ASSUME DiscoverAssumption ==
  /\ Stories \subseteq Nat /\ IsFiniteSet(Stories)
  /\ NoCity \notin Cities /\ IsFiniteSet(Cities)
  /\ CityOf \in [Stories -> Cities] /\ Locals \subseteq Stories
  /\ Published \in [Stories -> Nat] /\ Levels \in [Stories -> Judgements]
  /\ Start \in [Stories -> {"absent", "unjudged", "news", "junk", "old"}]
  /\ Remembered \subseteq Cities \cup {NoCity}
  /\ PageSize \in Nat \ {0}
  /\ MaxEvents \in Nat

VARIABLES
  row,       \* row[s]: what the database holds of a story
  live,      \* cities not archived
  cities, loaded, selected,  \* city.js
  listing,   \* its shared GET /cities: "none", "sent" or "answered"
  answer,    \* the cities it answered with
  held,      \* listeners unsubscribeCity removes: 0 or 1
  leaked,    \* feed listeners no handle is left of
  hash,      \* the route
  view,      \* what is in #view
  top,       \* the render whose nodes those are: what it waits for
  stale,     \* the bag of renders under way that have left the screen
  offset, sort,     \* state.offset, state.sort
  grid, status,     \* the cards of top, in order, and the line below them
  button,    \* the refresh button: "idle", "busy", or the city it cools down for
  cooling,   \* refreshCooldownUntil, the cities in it
  polling,   \* polling[c]: POST /cities/c/refresh under way
  overlapped,  \* history: top began while others were under way
  shaken,      \* history: a story left the list, or fell in it, since top began
  added,       \* history: stories that entered the list, or rose, since then
  events

cityVars == <<cities, loaded, selected, listing, answer, held, leaked>>
pageVars == <<view, top, stale, offset, grid, status, button>>
history == <<overlapped, shaken, added>>
vars == <<row, live, cityVars, hash, pageVars, sort, cooling,
          polling, history, events>>

\* A render waits for the city list, for the sources, or for a page it has asked
\* for; "done" is one that waits for the editor, "none" is no render.
At(stage) == [at |-> stage, city |-> NoCity, sort |-> "recent", offset |-> 0]
Asking ==
  [at : {"first", "more"}, city : Cities \cup {NoCity}, sort : Orders, offset : Nat]
Renders == {At("cities"), At("sources")} \cup Asking
UnderWay(r) == r.at \notin {"none", "done"}

Copies(r, n) == [x \in {r} |-> n]
HowMany(r, bag) == IF BagIn(r, bag) THEN bag[r] ELSE 0

\* The renders that wait for the city list.
Waiting == HowMany(At("cities"), stale) + (IF top = At("cities") THEN 1 ELSE 0)

CitiesOK ==
  /\ live \subseteq Cities /\ cities \subseteq Cities /\ loaded \in BOOLEAN
  /\ selected \in Cities \cup {NoCity}
  /\ listing \in {"none", "sent", "answered"} /\ answer \subseteq Cities
  /\ held \in 0..1 /\ leaked \in Nat

PageOK ==
  /\ view \in {"feed", "nocity", "unavailable", "other"}
  /\ top \in Renders \cup {At("none"), At("done")}
  /\ view = "feed" <=> top # At("none")
  /\ IsABag(stale) /\ DOMAIN stale \subseteq Renders
  /\ offset \in Nat /\ grid \in Seq(Stories)
  /\ status \in {"none", "loading", "more", "end", "empty", "error"}
  /\ button \in {"none", "idle", "busy"} \cup Cities
  /\ overlapped \in BOOLEAN /\ shaken \in BOOLEAN /\ added \subseteq Stories

\* Types, and this: a render that waits for the city list waits for a request
\* that is under way (city.js:64), and no render on the screen has overtaken one
\* that waits (feed.js:859).
TypeOK ==
  /\ Waiting > 0 => listing # "none" /\ top.at \in {"cities", "none"}
  /\ row \in [Stories -> {"absent", "unjudged", "news", "junk", "old"}]
  /\ CitiesOK /\ PageOK
  /\ hash \in {"discover", "other"} /\ sort \in Orders
  /\ cooling \subseteq Cities /\ polling \in [Cities -> Nat]
  /\ events \in 0..MaxEvents

-----------------------------------------------------------------------------
\* What /stories lists.

\* _hidden: judged not to be news of the city, or not judged and not local.
Admitted(s) == row[s] = "news" \/ (row[s] = "unjudged" /\ s \in Locals)

\* The score, in tenths, of a story once it is judged: the same for equal levels,
\* also where the sum could be rounded either way.
Score == [s \in Stories |-> CHOOSE p \in Printed(Levels[s]) : TRUE]

Keyed(s) ==
  [id |-> s, published |-> Published[s],
   score |-> IF row[s] = "news" THEN Score[s] ELSE Unrated]

Listed(c) == {s \in Stories : CityOf[s] = c /\ Admitted(s)}

\* list_stories: the admitted stories of the city in the order asked for ...
Order(c, how) ==
  {p \in Listed(c) \X Listed(c) : Before(how, Keyed(p[1]), Keyed(p[2]))}
Ranked(c, how) == Lined(Listed(c), Order(c, how))

\* ... from the offset, at most a page.
Page(q) ==
  LET all  == Cardinality(Listed(q.city))
      last == q.offset + PageSize
  IN  SubSeq(Ranked(q.city, q.sort), q.offset + 1, IF last < all THEN last ELSE all)

-----------------------------------------------------------------------------
\* Mutant of Woken: the listener redraws the feed where it is not shown.
WokenElsewhere(route) == IF route = "discover" THEN 0 ELSE leaked + held

\* announce() runs the listeners; the feed's re-render only on its own route.
Woken(route) == IF route = "discover" THEN leaked + held ELSE 0

\* Subscriptions of k renders, one after the other: the handle of each but the
\* last is overwritten.
Subscribe(k, handle) ==
  IF k = 0 THEN held' = handle /\ UNCHANGED leaked
           ELSE held' = 1 /\ leaked' = leaked + handle + k - 1

\* #view without a feed; a render under way goes on.
Cleared(v) ==
  /\ view' = v /\ top' = At("none") /\ grid' = <<>> /\ status' = "none"
  /\ button' = "none"
  /\ overlapped' = FALSE /\ shaken' = FALSE /\ added' = {}

\* The renders left behind when n begin: the one on the screen, and of the n all
\* but the last.
Left(n, r) ==
  stale (+) (IF UnderWay(top) THEN SetToBag({top}) ELSE EmptyBag)
        (+) (IF n > 1 THEN Copies(r, n - 1) ELSE EmptyBag)

\* Of a bag, with those that wait for the city list gone or sent on.
Resumed(bag, stuck) ==
  LET n == HowMany(At("cities"), bag)
      rest == [r \in DOMAIN bag \ {At("cities")} |-> bag[r]]
  IN  IF n = 0 \/ stuck THEN rest ELSE rest (+) Copies(At("sources"), n)

\* Mutant of Rewound: state.offset outlives the render.
RewoundNever == offset

\* state.offset as a render begins.
Rewound == 0

\* Mutant of Shared: a load that finds the list stale asks for nothing.
SharedOnly == listing

\* One GET /cities however many callers.
Shared == IF listing = "none" THEN "sent" ELSE listing

\* The part of renderFeed before its first await: what it puts on the screen.
Paint(r) ==
  /\ view' = "feed" /\ top' = r /\ grid' = <<>> /\ status' = "loading"
  /\ button' = IF selected' \in cooling' THEN selected' ELSE "idle"
  /\ overlapped' = (stale' # EmptyBag)
  /\ shaken' = FALSE /\ added' = {}

\* The part after city.load(), of n renders just begun and of those that waited:
\* they subscribe, and show that there is no city, or no list of them, or ask
\* for the sources.
Proceed(n) ==
  LET handle == IF n > 0 THEN 0 ELSE held
      none == loaded' /\ cities' = {}
      stuck == none \/ selected' = NoCity
  IN
  /\ Subscribe(n + Waiting, handle)
  /\ stale' = Resumed(IF n > 0 THEN Left(n, At("cities")) ELSE stale, stuck)
  /\ offset' = IF n > 0 THEN Rewound ELSE offset
  /\ IF stuck /\ n + Waiting > 0 THEN Cleared(IF none THEN "nocity" ELSE "unavailable")
     ELSE IF n > 0 THEN Paint(At("sources"))
     ELSE /\ top' = IF top = At("cities") THEN At("sources") ELSE top
          /\ UNCHANGED <<view, grid, status, button, history>>

\* renderFeed, n times in one task.
Begin(n) ==
  IF loaded'
  THEN Proceed(n) /\ UNCHANGED <<listing, answer>>
  ELSE /\ stale' = Left(n, At("cities"))
       /\ offset' = Rewound
       /\ Paint(At("cities"))
       /\ held' = 0 /\ UNCHANGED leaked
       /\ listing' = Shared /\ UNCHANGED answer

Event == events < MaxEvents /\ events' = events + 1

\* The page is loaded logged in, on Discover: the picker and the feed share one
\* request for the list.
Init ==
  /\ row = Start
  /\ live \in SUBSET Cities /\ selected \in Remembered
  /\ cities = {} /\ loaded = FALSE /\ listing = "sent" /\ answer = {}
  /\ held = 0 /\ leaked = 0
  /\ hash = "discover" /\ view = "feed" /\ top = At("cities") /\ stale = EmptyBag
  /\ offset = 0 /\ sort = "recent" /\ grid = <<>> /\ status = "loading"
  /\ button = "idle" /\ cooling = {} /\ polling = [c \in Cities |-> 0]
  /\ overlapped = FALSE /\ shaken = FALSE /\ added = {}
  /\ events = 0

-----------------------------------------------------------------------------
\* The city list.

\* The server reads the cities that are not archived.
ServeCities ==
  /\ listing = "sent"
  /\ listing' = "answered" /\ answer' = live
  /\ UNCHANGED <<row, live, cities, loaded, selected, held, leaked, hash,
                 pageVars, sort, cooling, polling, history, events>>

\* load() takes the answer: a selection that is gone falls back to the first
\* city, the listeners run, and then the renders that were waiting go on.
CitiesLoaded ==
  /\ listing = "answered"
  /\ cities' = answer /\ loaded' = TRUE /\ listing' = "none" /\ answer' = {}
  /\ selected' = IF selected \in answer THEN selected
                 ELSE IF answer = {} THEN NoCity
                 ELSE CHOOSE c \in answer : TRUE
  /\ UNCHANGED <<row, live, hash, sort, cooling, polling, events>>
  /\ Proceed(Woken(hash))

\* Mutant of CitiesFail: renderFeed does not catch the error, and ends there.
CitiesFailUncaught ==
  /\ listing # "none"
  /\ Event
  /\ listing' = "none" /\ answer' = {}
  /\ stale' = Resumed(stale, TRUE)
  /\ top' = IF top = At("cities") THEN At("done") ELSE top
  /\ UNCHANGED <<row, live, cities, loaded, selected, held, leaked, hash, view,
                 offset, grid, status, button, sort, cooling, polling, history>>

\* The request fails: a selection that was remembered serves all the same.
CitiesFail ==
  /\ listing # "none"
  /\ Event
  /\ listing' = "none" /\ answer' = {}
  /\ UNCHANGED <<row, live, cities, loaded, selected, hash, sort, cooling, polling>>
  /\ Proceed(0)

-----------------------------------------------------------------------------
\* A render.

Asked(stage) == [at |-> stage, city |-> selected, sort |-> sort, offset |-> offset]

\* One of the renders left behind goes on, or ends.
Swap(bag, r, next) == bag (-) SetToBag({r}) (+) SetToBag(next)

\* loadSources ends, one way or the other; the first page is asked for, of the
\* city selected by now.
SourcesLoaded ==
  /\ top = At("sources")
  /\ top' = Asked("first")
  /\ UNCHANGED <<row, live, cityVars, hash, view, stale, offset, grid, status,
                 button, sort, cooling, polling, history, events>>

StaleSourcesLoaded ==
  /\ BagIn(At("sources"), stale)
  /\ stale' = Swap(stale, At("sources"), {Asked("first")})
  /\ UNCHANGED <<row, live, cityVars, hash, view, top, offset, grid, status,
                 button, sort, cooling, polling, history, events>>

\* Mutant of Below: one story too many is asked of a full page.
BelowStrict(stage, n) ==
  IF stage = "first" /\ n = 0 THEN "empty" ELSE IF n > PageSize THEN "more" ELSE "end"

\* No total in the answer: a page that is not full is the last.
Below(stage, n) ==
  IF stage = "first" /\ n = 0 THEN "empty" ELSE IF n = PageSize THEN "more" ELSE "end"

PageLoaded ==
  /\ top \in Asking /\ top.city # NoCity
  /\ \E stories \in {Page(top)} :
     /\ offset' = offset + Len(stories)
     /\ grid' = grid \o stories
     /\ status' = Below(top.at, Len(stories))
  /\ top' = At("done")
  /\ UNCHANGED <<row, live, cityVars, hash, view, stale, button, sort, cooling,
                 polling, history, events>>

\* A render left behind fills a grid nobody sees, and counts all the same.
StalePageLoaded(r) ==
  /\ r \in Asking /\ r.city # NoCity
  /\ offset' = offset + Len(Page(r))
  /\ stale' = Swap(stale, r, {})
  /\ UNCHANGED <<row, live, cityVars, hash, view, top, grid, status, button, sort,
                 cooling, polling, history, events>>

\* The call fails; a city_id that is no number is always refused.
Refused(r) ==
  /\ r \in Asking
  /\ IF r.city = NoCity THEN UNCHANGED events ELSE Event

PageFails ==
  /\ Refused(top)
  /\ status' = "error" /\ top' = At("done")
  /\ UNCHANGED <<row, live, cityVars, hash, view, stale, offset, grid, button,
                 sort, cooling, polling, history>>

StalePageFails(r) ==
  /\ Refused(r)
  /\ stale' = Swap(stale, r, {})
  /\ UNCHANGED <<row, live, cityVars, hash, view, top, offset, grid, status,
                 button, sort, cooling, polling, history>>

-----------------------------------------------------------------------------
\* What the editor does.

\* A tab is clicked: Discover, also when it is the active one.
OpenDiscover ==
  /\ Event
  /\ hash' = "discover"
  /\ UNCHANGED <<cities, loaded, selected, cooling>>
  /\ Begin(1)
  /\ UNCHANGED <<row, live, sort, polling>>

OpenOther ==
  /\ hash = "discover"
  /\ Event
  /\ hash' = "other"
  /\ Cleared("other") /\ stale' = Left(0, top)
  /\ UNCHANGED <<row, live, cityVars, offset, sort, cooling, polling>>

\* A city is picked from the menu.
PickCity(c) ==
  /\ c \in cities \ {selected}
  /\ Event
  /\ selected' = c
  /\ UNCHANGED <<cities, loaded, cooling>>
  /\ IF Woken(hash) > 0
     THEN Begin(Woken(hash))
     ELSE UNCHANGED <<listing, answer, held, leaked, pageVars, history>>
  /\ UNCHANGED <<row, live, hash, sort, polling>>

ToggleSort ==
  /\ view = "feed"
  /\ Event
  /\ sort' \in Orders \ {sort}
  /\ UNCHANGED <<cities, loaded, selected, cooling>>
  /\ Begin(1)
  /\ UNCHANGED <<row, live, hash, polling>>

LoadMore ==
  /\ status = "more"
  /\ Event
  /\ status' = "loading" /\ top' = Asked("more")
  /\ UNCHANGED <<row, live, cityVars, hash, view, stale, offset, grid, button,
                 sort, cooling, polling, history>>

TryAgain ==
  /\ view = "unavailable"
  /\ Event
  /\ loaded' = FALSE
  /\ UNCHANGED <<cities, selected, cooling>>
  /\ Begin(1)
  /\ UNCHANGED <<row, live, hash, sort, polling>>

\* The refresh button; without a city it only draws the feed again.
Refresh ==
  /\ button = "idle"
  /\ Event
  /\ IF selected = NoCity
     THEN /\ UNCHANGED <<cities, loaded, selected, cooling, polling>>
          /\ Begin(1)
     ELSE /\ polling' = [polling EXCEPT ![selected] = @ + 1]
          /\ button' = "busy"
          /\ UNCHANGED <<cityVars, view, top, stale, offset, grid, status,
                         cooling, history>>
  /\ UNCHANGED <<row, live, hash, sort>>

\* Mutant of Refreshed: the cooldown starts, and the feed is not drawn again.
RefreshedQuietly(c) ==
  /\ polling[c] > 0
  /\ polling' = [polling EXCEPT ![c] = @ - 1]
  /\ cooling' = cooling \cup {c}
  /\ UNCHANGED <<row, live, cityVars, hash, pageVars, sort, history, events>>

\* The answer, good or bad, starts the cooldown and draws the feed again,
\* wherever the editor is by then.
Refreshed(c) ==
  /\ polling[c] > 0
  /\ polling' = [polling EXCEPT ![c] = @ - 1]
  /\ cooling' = cooling \cup {c}
  /\ UNCHANGED <<cities, loaded, selected>>
  /\ Begin(1)
  /\ UNCHANGED <<row, live, hash, sort, events>>

CooledDown(c) ==
  /\ c \in cooling
  /\ cooling' = cooling \ {c}
  /\ button' = IF button = c THEN "idle" ELSE button
  /\ UNCHANGED <<row, live, cityVars, hash, view, top, stale, offset, grid, status,
                 sort, polling, history, events>>

-----------------------------------------------------------------------------
\* What happens on the server meanwhile.

Changed(s, v) ==
  /\ Event
  /\ row' = [row EXCEPT ![s] = v]
  /\ UNCHANGED <<live, cityVars, hash, pageVars, sort, cooling,
                 polling, overlapped>>
  /\ IF view = "feed" /\ CityOf[s] = selected
     THEN /\ shaken' = (shaken \/ (Admitted(s) /\ ~Admitted(s)'))
          /\ added' = IF Admitted(s)' THEN added \cup {s} ELSE added
     ELSE UNCHANGED <<shaken, added>>

\* Ingest stores a story; the classifier judges one; the window leaves one behind.
Arrives(s) == row[s] = "absent" /\ Changed(s, "unjudged")
Judges(s) == row[s] = "unjudged" /\ \E v \in {"news", "junk"} : Changed(s, v)
Ages(s) ==
  /\ row[s] \in {"unjudged", "news", "junk"}
  /\ \A t \in Stories :
       row[t] \in {"unjudged", "news", "junk"} => Published[s] <= Published[t]
  /\ Changed(s, "old")

\* The Cities page archives a city and invalidates the list.
Archive(c) ==
  /\ hash = "other" /\ c \in live
  /\ Event
  /\ live' = live \ {c} /\ loaded' = FALSE
  /\ UNCHANGED <<row, cities, selected, listing, answer, held, leaked, hash,
                 pageVars, sort, cooling, polling, history>>

-----------------------------------------------------------------------------
TopStep == SourcesLoaded \/ PageLoaded \/ PageFails
StaleStep ==
  \/ StaleSourcesLoaded
  \/ \E r \in DOMAIN stale : StalePageLoaded(r) \/ StalePageFails(r)
ListStep == ServeCities \/ CitiesLoaded \/ CitiesFail

Next ==
  \/ ListStep \/ TopStep \/ StaleStep
  \/ OpenDiscover \/ OpenOther \/ ToggleSort \/ LoadMore \/ TryAgain \/ Refresh
  \/ \E c \in Cities : PickCity(c) \/ Refreshed(c) \/ CooledDown(c) \/ Archive(c)
  \/ \E s \in Stories : Arrives(s) \/ Judges(s) \/ Ages(s)

Spec == Init /\ [][Next]_vars

\* The server answers, the page takes the answer, and time passes. The editor, the
\* publishers and the network's failures owe nothing.
FairSpec ==
  /\ Spec
  /\ WF_vars(ListStep)
  /\ WF_vars(TopStep) /\ WF_vars(StaleStep)
  /\ \A c \in Cities : WF_vars(Refreshed(c)) /\ WF_vars(CooledDown(c))

-----------------------------------------------------------------------------
Shown == {grid[i] : i \in DOMAIN grid}
Above(k) == {grid[i] : i \in 1..(k - 1)}

\* Every card on the Discover page is of the city the picker shows, however the
\* selection changed (picked, or archived under the editor) while pages were on
\* their way (feed.js:767, 871-877).
ShownCity == hash = "discover" => \A s \in Shown : CityOf[s] = selected

\* The cards are the head of the list in the order the toggle shows: no story of
\* the city that was there all along is missing above the last card, and with
\* nothing new no story is shown twice (feed.js:838-844, rank.py:174-186). Two
\* things excuse a page: other renders counting into the same offset, and a story
\* that left the list or fell in it.
NoGap ==
  hash = "discover" /\ ~overlapped /\ ~shaken /\ grid # <<>> =>
    /\ \A s \in Listed(selected) \ (Shown \cup added) :
         Before(sort, Keyed(grid[Len(grid)]), Keyed(s))
    /\ added = {} => \A i, k \in DOMAIN grid : i # k => grid[i] # grid[k]

\* Sorted by engagement no judged story stands below one it outweighs, however little
\* the difference and whatever their dates: every dimension shows in the score and
\* survives its rounding (rank.py:119-137, 174-186). A story that rose since is
\* excused, and one that is already on the page above. With more ahead of it than
\* there was, a page may reach back to what the excuses of NoGap left out.
StrongFirst ==
  hash = "discover" /\ sort = "engagement" /\ (added = {} \/ ~(overlapped \/ shaken)) =>
    \A k \in DOMAIN grid : \A i \in 1..(k - 1) :
      LET high == grid[k]
          low  == grid[i]
      IN  high \notin added \cup Above(k) /\ row[low] = "news" /\ row[high] = "news"
            => ~Outweighs(Levels[high], Levels[low])

\* When the page offers no more, or says there is nothing, every story that was in
\* the list all along is on it (feed.js:847-849).
EndMeansEnd ==
  hash = "discover" /\ ~overlapped /\ ~shaken /\ status \in {"end", "empty"} =>
    Listed(selected) \subseteq Shown \cup added

\* "Loading..." never stays: not when the city list or a page fails, not when the
\* render that showed it is overtaken (feed.js:835-865, 897).
Settles == (status = "loading") ~> (status # "loading")

\* The refresh button comes back, whatever the answer and wherever the editor went
\* in the meantime (feed.js:420-439).
ButtonReturns == (button # "idle") ~> (button = "idle" \/ view # "feed")

-----------------------------------------------------------------------------
\* Claims of the source the code does not keep.

\* No listener is left behind by a city switch (feed.js:867-870). A render begun
\* while another waits overwrites its handle, and from then on each switch redraws
\* the feed once more than the one before.
NoLeak == leaked = 0

\* The feed is never painted over another view (feed.js:872-874): the listener
\* looks at the route, the answer to a refresh and a render left behind do not.
OtherViewStays == hash = "other" => view = "other"

\* A total order "makes the page cut deterministic" (rank.py:95-97): not for two
\* renders that share the offset. NoGap without its first excuse.
NoGapOverlapped ==
  hash = "discover" /\ ~shaken /\ added = {} /\ grid # <<>> =>
    \A s \in Listed(selected) \ Shown : Before(sort, Keyed(grid[Len(grid)]), Keyed(s))

\* A list by score "reads" by score (rank.py:174-181): not when stories that are
\* judged between two pages push those shown already down into the second.
StrongFirstGrown ==
  hash = "discover" /\ sort = "engagement" =>
    \A i, k \in DOMAIN grid :
      i < k /\ grid[k] \notin added /\ row[grid[i]] = "news" /\ row[grid[k]] = "news"
      => ~Outweighs(Levels[grid[k]], Levels[grid[i]])

\* A click cannot send more requests for a city before the first has finished, or
\* within its cooldown (feed.js:63-67): a feed drawn again has a new button.
CooldownHolds ==
  [][\A c \in Cities :
       polling'[c] > polling[c] => c \notin cooling /\ polling[c] = 0]_vars

\* After a city is archived the next load brings the new list (city.js:110-111):
\* one under way then answers with the old list and counts as loaded.
ListFresh == loaded => cities \subseteq live
=============================================================================
