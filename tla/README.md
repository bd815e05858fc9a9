# Feedcast in TLA+

Feedcast polls city newspapers' feeds, has a language model judge each story,
and lets one editor turn picked stories into an image carousel. It is one
FastAPI process on Postgres with two background loops, and a browser client of
plain JavaScript. This directory holds TLA+ modules of the parts where order,
overlap and failure decide what happens, configurations that check them with
TLC, and proofs checked with TLAPS. Source paths below are relative to `src/`.

## 1. Inventory

| Component | State it keeps | Operations | Module |
| --- | --- | --- | --- |
| Background tick and forced refresh, `app/services/scheduler.py` | `_refreshing`; targets, attempts and `seen_ids` of a run | `run_tick`, `refresh_city`, `scheduler_loop` | `Scheduler` |
| Ingest, `app/services/ingest.py` | `articles`; the bookkeeping columns of `sources` | `parse_and_persist`, `record_fetch_failure` | `Scheduler` |
| Source administration, `app/services/sources.py` | `sources` | update, archive, check | `Scheduler`, `Cities` |
| City administration, `app/services/cities.py` | `cities`, `sources` | onboard, add a feed, archive, unarchive | `Cities` |
| Classifier, `app/services/classify.py`, `app/services/llm.py` | the rating columns and `category_attempts` of `articles`; `llm_calls` | load, call with retries, persist | `Classifier`, `Rating` |
| Carousel service, `app/services/carousel.py`, `app/api/v1/endpoints/carousels.py` | `carousels`, `carousel_slides`, `selections` | build, add, autosave, open, delete, zip | `Carousels`, `Crossings` |
| Canvas, `app/static/js/slides.js`, `studio.js`, and its callers in `gallery.js`, `feed.js` | deck, carousel id, save timer, `savedAt`, sessionStorage | edits, autosave, load, clear, reload | `Studio` |
| Feed page, `feed.js`, `city.js`, `main.js`, `selection.js` | page offset, grid, sort, refresh cooldowns; the city list and selection; the tray | paging, switching city, sorting, refresh, listing cities | `Discover`; what the tray sends, `Studio` |
| Session, `app/api/v1/endpoints/auth.py`, `app/api/deps.py`, `api.js`, `main.js`, `login.js` | two cookies; per tab the gate, the login form and one shared refresh | login, me, refresh, logout, calls and their retry | `Session` |
| Ranking and story list, `app/services/rank.py`, `app/api/v1/endpoints/stories.py` | none | score, sort keys, cutting a page | `Ranking`, `Lists`, `Discover` |
| Network fetch, `app/core/net.py` | none | redirects, caps, timeouts | outcomes only |
| Configuration, schemas, migrations, drawing | none of interest | | not modelled |

How they meet:

* The tick and any number of refreshes run load, fetch, persist over the same
  rows, in one event loop, with a database session each; every `await` lets
  another of them run. Admin requests write the same `sources` rows.
* Ingest fills `articles`; the classifier loads unrated ones, oldest first, and
  writes them in another session minutes later; the feed reads what is there.
* The canvas holds one deck. Every edit restarts a one-second timer; when it
  fires the whole deck is PUT. Builds, adds and opens answer with a deck that
  replaces the one on the screen.
* Every call of the browser carries the access cookie of the moment it is sent.
  Those refused wait for one refresh and are sent again; tabs share the cookies.
* Database sessions run at READ COMMITTED with `expire_on_commit=False`, and the ORM
  writes only the columns whose value differs from what that session loaded. No
  table has a version column. Most of what is hard here follows from that.

What is hard, and what makes each component correct:

* **Scheduler.** Overlap of tick and refresh on one source; a failed commit in
  the middle of a run that shares `seen_ids`; crashes between commits. Correct
  if a 304 never hides an entry with no row, an
  admin's edit outlives a commit that overlaps it, one refresh per city with its
  guard always released, attempts spaced by interval, floor and backoff, and
  every due source polled.
* **Cities.** Overlapping onboardings on one slug, a failure between the flush
  and the commit, an edit racing an archive. Correct if slugs are unique, no
  city is bare, the cap holds, and a retired feed comes back only by an
  unarchive.
* **Classifier.** Partial and hallucinated answers, retries, a pass lost between
  the call and the write. Correct if a pass is a pass of the abstract rating
  table, every billed call has its row, the bill is bounded and the backlog
  drains.
* **Carousels and Studio.** Overlapping requests on one deck, answers that
  arrive after the screen moved on, lost answers, reloads. Correct if a deck
  holds only stories recorded as picked into it, picks and download stamps are
  never lost, a deck outgrows the zip or doubles a story only where saves cross,
  "Saved" means saved, and edits reach the server.
* **Feed page.** Renders that overlap and share one offset, a city switched or
  archived while its pages are on their way, a list that changes between two pages,
  a city list that fails. Correct if every card is of the city shown, pages are
  contiguous, the end is the end, no loading note stays and the refresh button comes
  back.
* **Ranking.** Rounding and ties. Correct if every judged dimension shows in the
  score and each sort is one total order.
* **Session.** Calls refused together, a refresh under way meeting reloads, logouts
  and other tabs, answers that come after the login is shown. Correct if a good
  session is never lost to refused calls, every call ends, a form being filled in is
  left alone, and a deleted editor is cut off.

`PROJECT.json` lists the hazards one by one, each at its line.

## 2. Modules

### Scheduler (`MCScheduler`, proofs in `Scheduler_proofs`)

| Module | Code |
| --- | --- |
| `source`, `since` | a `sources` row; `last_fetched_at` as time elapsed since it |
| `article` | `articles`: which source a story was stored under |
| `refreshing` | `_refreshing` |
| `pc`, `city`, `attempt`, `seen`, `work`, `held` | the locals of a run: targets and attempts, `seen_ids`, the source of this iteration and its row as the session loaded it |
| `feed` | what each origin serves (the environment) |
| `TickLoad`, `RefreshStart`, `RefreshLoad` | `run_tick`, `refresh_city`, up to the fetches |
| `FetchStart`, `FetchFailed`, `FetchAnswered` | `fetch_one` under the semaphore |
| `PersistGet`, `PersistCommit`, `PersistRollback`, `RecoverCommit` | one iteration of `persist_attempts` |
| `JobEnd`, `JobAbort`, `Crash` | return, an error outside the `try`, process stop |
| `UpdateSource`, `ArchiveSource`, `CheckStart`, `CheckDone` | the admin routes |

`Flush` is the ORM's UPDATE of changed columns. ETag and Last-Modified are one
validator compared like a date: an origin answers 304 to a validator at least as
new as what it serves. Time is relative and saturates at `MaxAge`. Left out:
`last_success_at`, `last_error_at`, the returned summaries, redirects, and the
normalisation of an entry, which is the article key it yields.

### Cities (`MCCities`, proofs in `Cities_proofs`)

A request reads the rows it decides on (`Begin...`) and later commits
(`Commit...`), writing what differs from its read; onboarding also flushes in
between (`FlushCreate`), where it meets the unique index on the slug. `Fail` ends
any request before its commit. `update_city` writes only name and state, which
nothing here depends on, and is left out.

### Classifier and Rating (`MCClassifier`, proofs in `Classifier_proofs`)

`Rating` is the promise: a pass counts one attempt against each open article it
sent and gives some of them the judgement of their own headline. `Classifier` has
the pass as it runs: `Load`, `CallFails` or `CallAnswers`, `CommitCalls` (the
`finally`), `Persist`, with `PassFails` and `Stop` anywhere. All the rating
columns are written by one UPDATE and so are one value: the headline judged.
Left out: the prompt, token and latency columns, the provider SDK's own retries.

### Carousels and Crossings (`MCCarousels`, proofs in `Carousels_proofs`)

A request goes from sent to loaded, ready, committed and answered. `rows[k]` is
the slide rows of a carousel as batches, one per save: `save_deck` deletes the
batches its session loaded and inserts its own, and rows of equal position keep
their insertion order when read (`Merged`). Stamps are reduced to set or not and which is
later; a session keeps the copy of them it loaded (`held`), and its commit writes the
ones it changed (`Flushed`). Left out: slide text, unknown story ids (they come back in
`missing_ids` and change nothing), refusals that leave no trace, and the deadlock error
Postgres may raise for a delete against a save, which `Fail` covers.

`Crossings` follows the service with two history variables. A save or an add is
`crossed` when another one of its carousel commits between its load and its commit, and
a carousel is `tangled` once a crossed one was committed to it. Overlapping requests do
break decks here; what can be said is that nothing else does, and what mends them.

### Studio (`MCStudio`, EXTENDS Carousels; proofs in `Studio_proofs`)

One tab against that service: `open`, `canvas`, `timer`, `saved` are the store of
`slides.js`, `dialog` a pending delete confirmation, `awaited` the requests whose
caller survived the last reload. `told`, `edited`, `rendered` and `shipped` record
history for the properties. `Add`, `MoveOrRewrite`, `ConfirmDelete` are the edits;
`Save`, `AskServer`, `AskZip` send; `Load`, `AckSave`, `AckDelete`, `Ignore` take
the answers; `Reload` restores the deck from sessionStorage without its timer.
The server's steps are those of `Carousels` (`Serve`), so a property of the
service is checked here against the clients it really has.

### Lists (proofs in `Lists_proofs`)

What `ORDER BY` makes of the rows a query selects: `Lined(S, R)` numbers the elements
of `S` by how many come before them in the order `R`, and `Part(seq, I)` is what `seq`
holds at `I`. The community modules sort by recursion over data, of which nothing
could be proved; these two serve the decks of `Carousels` and the pages of `Discover`.

### Discover and Ranking (`MCDiscover`, proofs in `Discover_proofs`)

`Ranking` holds the pure part: `Printed` is the set of tenths a weighted sum may be
printed as (both neighbours when it lies halfway, since the code adds floats), `Newer`
and `Stronger` are the two sort keys. `Discover` pages through the list they order,
`Lined(Listed(city), Order(sort))`.

| Module | Code |
| --- | --- |
| `row` | an `articles` row as `/stories` sees it: absent, unjudged, news, junk, past the window |
| `live`, `listing`, `answer` | the `cities` table; the shared `GET /cities` of `city.js` and its answer |
| `cities`, `loaded`, `selected` | the city store |
| `held`, `leaked` | the city listener `unsubscribeCity` removes, and those no handle is left of |
| `hash`, `view` | the route and what is in `#view` |
| `top`, `stale` | the render on the screen and the bag of those left behind, each at the `await` it stands at with the page it asked for |
| `offset`, `sort`, `grid`, `status` | `state.offset`, `state.sort`, the cards, the line below them |
| `button`, `cooling`, `polling` | the refresh button, `refreshCooldownUntil`, `POST /cities/{id}/refresh` |
| `ServeCities`, `CitiesLoaded`, `CitiesFail` | `city.load` and what the renders that waited for it do next |
| `SourcesLoaded`, `PageLoaded`, `PageFails` and the `Stale...` ones | `renderFeed` after each `await`, on the screen or left behind |
| `OpenDiscover`, `PickCity`, `ToggleSort`, `LoadMore`, `TryAgain`, `Refresh`, ... | what the editor clicks |
| `Arrives`, `Judges`, `Ages`, `Archive` | ingest, the classifier, the window and the Cities page |

A step is a task of the browser's event loop: what a resolved promise runs comes
before the next task. `overlapped`, `shaken` and `added` are history: what excuses
the page on the screen. Left out: the category and source filters, which narrow the
list and begin a render as the sort does; the tray and the selection (`Studio` sends
what they send, but a ninth story refused, `feed.js:805`, writes its note over whatever
the status line shows, which no property here sees); which city of an answer comes
first (`CHOOSE`); the breakdown
`score_contributions` prints beside the score.

### Session (`MCSession`, proofs in `Session_proofs`)

| Module | Code |
| --- | --- |
| `jar` | the browser's two cookies, each the time its token expires |
| `user` | the row of the one `User`; `DeleteUser` is the kill switch |
| `authed`, `mounted` | `authed`, `pickerMounted` of `main.js` |
| `form` | the login form: blank as drawn, or being filled in |
| `refreshing`, `call` | the promise of `api.js`, and each call of `apiFetch` |
| `entry` | `/auth/me`, `/auth/login` or `/auth/logout` under way in a tab |
| `ServeCall`, `ServeRefresh`, `ServeEntry` | `current_user` and the auth routes |
| `Send`, `AnswerCall`, `Join`, `GiveUp`, `Refreshed`, `NotRefreshed` | `apiFetch`, `refreshSession` |
| `EntryAnswered`, `Restart`, `Reload` | `onLoggedIn`, `showLogin`, the logout click, a page load |

A request is sent, served and answered in steps of their own, and `Lose...` may take
it before or after it was served. The cookies of an answer reach the browser when
the page takes it, or with a reload that comes in between (`Landed`). The unit of time
is the lifetime of an access token; `Prompt` lets no tick fall within a refresh and
the retries it releases, which take seconds of fifteen minutes. Without it a retry
may find the pair just bought expired, which is no fault of the code. `lapsed` is
history: whether the session was over since the page loaded. Left out: hash routes
and the one to return to, the password check (a login succeeds or not) and the
claims of a token.

## 3. Runs

Every property of a passing run comes with a mutant in `PROJECT.json`: a plausible
bug in one mapped definition, under which TLC finds that property violated.

| Run | What it asks |
| --- | --- |
| `scheduler_overlap` | Tick and refresh on two rolling feeds that share a story, with a crash: `NoSilentGap`. |
| `scheduler_guard` | Two refreshes and a tick on one source with an edit, a database error and a crash: `TypeOK`, `RefreshExclusive`, `EditsSurvive`, `GuardReleased`, `ListedIsStored`. |
| `scheduler_solo` | The tick over real time with failures, floors and backoff: `SpacingRespected`, `HistoryConsistent`, `DueIsPolled`. |
| `cities_admin` | Two overlapping requests, every operation: `SlugsUnique`, `NoBareCity`, `RevivedByUnarchive`, `TypeOK`. |
| `classifier_table` | Every outcome of a call, a fault or a stop: `TableSpec` (refinement of `Rating`), `Accounted`, `BillBounded`, `TypeOK`; `Drained`: no article starves behind refused ones. |
| `carousels_crossings` | Two requests at once, any of them lost, in sequences long enough to mend what two left: a deck outgrows the zip or holds a story twice only once a crossed save was committed to it (`UncrossedFits`, `UncrossedOnce`), and a save nothing crossed leaves exactly what it sent, over any mixture (`SaveRepairs`). |
| `studio_canvas` | Two carousels, overlapping, lost and late answers, reloads: `EvidenceComplete`, `PicksSurvive`, `StaysDownloaded`, `SavedHonest`, `StudioTypeOK`. |
| `studio_autosave` | `Autosaved`: the server ends with the deck on the screen. |
| `session_tabs` | Two calls at once over a short access cookie, a lost request, a reload, the kill switch: `KeptWhileLive`, `TypingKept`, `CallsEnd`, `CutOff`, `TypeOK`. |
| `discover_feed` | Every overlap of renders, city switches, refreshes and failed calls over a list that changes: `ShownCity`, `NoGap`, `EndMeansEnd`, `Settles`, `ButtonReturns`, `TypeOK`; by engagement no judged story stands below one it outweighs, unless it rose since or the page shows it again: `StrongFirst`. |
| `scheduler_v_poison`, `session_v_login` | One claim of the source each, which TLC refutes: see below. |

### Bounds

* `scheduler_overlap`: two sources, two feed versions, three stories. Sharing a
  story needs two sources, a stale validator two versions; every pair of overlapping
  runs is a tick and a refresh or, by the guard, refreshes of different cities.
  The clock stands still, so every source is always due: the property does not
  depend on due-ness.
* `scheduler_guard`: one source and one version, because two requests, an edit, a
  fault and a crash already meet in every order; the theorems cover any number.
* `scheduler_solo`: a source waits for its interval, 2, for the backoff up to the
  ceiling, 3, or for a max-age of 4, which the ceiling must not shorten; after `MaxAge` 4
  every source is due, so the clock may stop there; a max-age of 10 exceeds
  `ColumnMax` 9 and breaks its commit every time. Failures stop counting at 1,
  where the ceiling already clamps. No admin acts here and no refresh: with them
  `SpacingRespected` has no meaning and `HistoryConsistent` fails (below).
  `SpacingRespected` spells out what an origin is owed (`WaitedEnough`) and does not
  use the formula of `EffectiveInterval`, so that an error in that is an error here.
* `cities_admin`: cap 1 with two feeds and two cities; two spellings of one name and
  a third name. Requests of three editors at once add no new pair of reads.
* `classifier_table`: three articles in batches of two, so one always waits; two
  attempts of two calls; a window of one hour that articles leave; one fault or stop.
  The articles arrive in a fixed order (`Before`), as they are interchangeable and
  liveness rules out a symmetry.
* `carousels_crossings`: four requests, of which two overlap: a build, two that cross, and
  one that meets the mixture. Decks differ enough with one story, by their order and
  their blank slides. The cap on what is added (`Fits`) needs a second story to refuse:
  TLC agrees on three stories of two cities with `MaxRequests = 3`, and the theorems
  cover any number of all of them.
* `studio_canvas`: two carousels, one story per deck, three requests, one edit: a
  deck and its carousel part with one of each. `studio_autosave` has two edits and
  five requests, and one request at a time. `Spare` keeps a request for each edit to
  come, so the bound never is why a deck stays unsaved.
* `session_tabs`: one tab with two calls, so that one can join a refresh and the other
  come too late for it; the access token lives one tick, the refresh token two, the
  clock three, so both expire and a pair bought in time outlives the first. A second
  tab adds rotations of the shared cookies: the theorem covers any number, and TLC
  agrees on `Tabs = {t1, t2}`, `Calls = {v1, v3}`, `MaxTime = 2`, `MaxFaults = 0`.
* `discover_feed`: five stories, four of them of one city, so that a page of two is
  full, followed by one that is full or not; one not there yet, one not judged; equal
  dates and equal scores, so that both tie-breaks are needed; two cities, and a first
  visit or a remembered one. `MaxEvents` 3 counts the editor's clicks, changes of the
  list and failed calls together: two leave one render behind another, the third
  changes what they page through. The steps of renders are not counted.
* Symmetry (`Interchangeable`) is used in runs without liveness only, over ids the
  modules never order. Deadlock checking is off where the bounds on requests or
  articles let a run end.

### Fairness

* `Scheduler`: weak fairness of each job's own steps, of the loop's wake-up and of
  time: the event loop runs what is ready, fetches have timeouts
  (`app/core/net.py:87`), the loop sleeps and wakes (`scheduler_loop`). Publishers,
  admins, database errors and crashes are not fair.
* `Classifier`: weak fairness of the pass: the loop sleeps and wakes, and each call
  returns or raises. Time is not fair: the backlog drains before the window rolls or
  the article has left it.
* `Studio`: weak fairness of the timer, of the server on what reached it and of the
  page taking an answer. The editor owes nothing.
* `Discover`: weak fairness of the city list, of the render on the screen, of those
  left behind and of refreshes and cooldowns: the server answers, the page takes the
  answer, time passes. The editor, the publishers and the network's failures owe
  nothing.
* `Session`: weak fairness of each call, of the refresh and of the entry of each tab:
  the server answers and the page takes the answer. The editor, the clock, the
  network's failures and the kill switch owe nothing.

### Claims the code does not keep

Two have a run and a finding, quoted in `PROJECT.json`:

* `scheduler_v_poison`, `NoSilentGap`: a row's absence is what makes a story eligible
  (`app/db/models/article.py:20`). A failed commit leaves its stories in the `seen_ids`
  of the tick; the next source that carries one skips it and stores its validator.
* `session_v_login`, `LoginOnlyWhenOver`: a 401 is refreshed and retried
  (`app/static/js/api.js:33`). Not for paths under `/auth/`, as `api.js:66` says, and
  `/auth/me` is what a page asks first.

The others are stated in their modules as the source promises them. Naming one in a copy
of the configuration, with the constants shown, gives TLC's counterexample.

| Property | Claim | What the code does | Configuration |
| --- | --- | --- | --- |
| `ArchivedMidTickSkipped` | `app/services/scheduler.py:168` | an archived row is found all the same | `Scheduler_v_poison`, `MaxAges = {0}`, `MaxEdits = 1` |
| `NoSilentGap`, moved feed | `app/services/scheduler.py:276` | a source moved to another url sends it the validator of the old one (`sources.py:46`) | the same, `Urls = {u1, u2, u3}`, `UrlsOf <- MovedUrl`, `Entries <- OwnEntries` |
| `LastWriterWins` | `app/services/scheduler.py:281` | two flushes of changed columns leave a mixture | `Scheduler_overlap`, `Sources = {s1}`, `MaxVersion = 1`, `MaxFailures = 1`, `Outcomes = {"error", "body"}` |
| `HistoryConsistent`, manual check | `app/services/sources.py:63` | a check that passes leaves the streak alone | those, `Requests = {}`, `MaxEdits = 2` |
| `CapHeld` | `app/api/v1/endpoints/sources.py:20` | unarchiving revives feeds that were replaced | `Cities_admin`, `Requests = {r1}`, `Names = {a1, a2}`, `Sources = {s1, s2, s3}`, `Cap = 2` |
| `CapHeld`, overlapping adds | `app/services/cities.py:148` | each counts the feeds of its own session | those, `Requests = {r1, r2}`, `Operations = {"add", "update"}` |
| `CascadeComplete` | `app/services/cities.py:106` | a feed may be added to an archived city | those of `CapHeld` |
| `CascadeComplete`, overlapping cascades | `app/services/cities.py:114` | an archive that read the feeds as archived stamps the city only, after an unarchive revived them | `Cities_admin`, `Operations = {"archive", "unarchive"}` |
| `RolledIsSkipped` | `app/services/classify.py:92` | an article out of the window is found all the same | `Classifier_table` |
| `LastWriteWins` | `app/services/carousel.py:149` | of two saves that cross, the slides of both stay | `Carousels_crossings` |
| `AddsMissingOnly` | `tests/test_carousel_api.py:420` | both requests of a double click find the story missing | `Carousels_crossings`, `Stories = {s1, s2}`, `MaxRequests = 3` |
| `OneCity` | `app/db/models/carousel.py:25` | adding stories compares no city | `Carousels_crossings`, `Requests = {r1}`, `Stories = {s1, s2, s3}`, `Cities = {c1, c2}`, `MaxRequests = 3` |
| `UntouchedUnstamped` | `app/db/models/carousel.py:44` | a build stamps the edit | `Carousels_crossings` |
| `AddKeepsEdits` | `app/static/js/slides.js:161` | `load` drops edits not saved yet and their timer | `Studio_canvas`, `CarouselIds = {k1}`, `MaxStories = 2`, `MaxRequests = 4`, `Asks = {"create", "add"}`, `Lossy = FALSE`, `Reloads = FALSE` |
| `DeletesWhatItNamed` | `app/static/js/studio.js:352` | an answer replaces the deck under the index the dialog kept | those |
| `DeckDropped` | `app/static/js/gallery.js:261` | `clear` returns early on an emptied deck | those, `Requests = {r1}`, `MaxStories = 1`, `MaxEdits = 3`, `MaxRequests = 6`, `Asks = {"create", "delete"}` |
| `StaleNoteTrue` | `app/static/js/gallery.js:75` | an edit that is in the zip may be saved after it | those of `AddKeepsEdits`, `Asks = {"create", "zip"}` |
| `Autosaved`, two saves under way | `app/static/js/slides.js:93` | the server may handle the later one first | `Studio_autosave`, `Requests = {r1, r2}` |
| `LogoutSticks` | `app/api/v1/endpoints/auth.py:92` | a refresh answered later sets the cookies again | `Session_v_login`, `Tabs = {t1, t2}`, `Calls = {v1, v3}` |
| `NoLeak` | `app/static/js/feed.js:863` | two renders that wait for the list both subscribe, with one handle | `Discover_feed`, `SPECIFICATION Spec` |
| `OtherViewStays` | `app/static/js/feed.js:872` | a late answer draws the feed over another view | as `NoLeak` |
| `NoGapOverlapped` | `app/services/rank.py:95` | renders that overlap share one offset (`feed.js:844`) | as `NoLeak`, `MaxEvents = 4` |
| `ListFresh` | `app/static/js/city.js:110` | a load under way answers with the old list and counts | as `NoLeak` |
| `CooldownHolds` | `app/static/js/feed.js:63` | a button drawn again is idle; the server's guard answers its click | as `NoLeak` |
| `StrongFirstGrown` | `app/services/rank.py:174` | stories that rise between two pages push those shown into the second | as `NoLeak`, one city, `Locals = {}`, `MaxEvents = 4`, four stories: a low and a high one judged, and two that are judged higher still |

## 4. Proofs

TLAPS checks these for every value of the constants, under the ASSUMEs of the
modules (`NamesAssumption`, `BoundsAssumption`, `FeedsAssumption`, ...), which TLC
evaluates in every run.

* `TypeCorrect`: `Spec => []TypeOK`. `TypeOK` is inductive because `PhasesOK`, part
  of it, ties the program counter to the row held.
* `RefreshExclusiveHolds`: inductive with `TypeOK`; one step per action, those that
  do not touch `refreshing`, `pc` and `city` together.
* `EditsSurviveHolds`: an action property. What is needed of the state is that
  `Recorded` never changes an admin's column, so `Flush` leaves it alone.
* `NoSilentGapHolds`: under the hypotheses that no commit fails (no database error, no
  max-age past the column) and that each source has one url. The strengthening says
  what an attempt in flight already guarantees: a validator on a row, or carried by
  an attempt of a run, is covered by stored articles together with the `seen` of its
  run, and everything in `seen` is stored. `scheduler_v_poison` shows the first
  hypothesis is needed.
* `Refinement`: `Spec => Table!Spec` for the classifier. The invariant says that a
  batch holds distinct open articles and that what is assigned is an article of the
  batch judged by its own headline; `Persist` then is a `Pass`, everything else
  stutters.
* `AccountedHolds`: as long as nothing gave out, billed calls are the ledger and what
  the pass has flushed.
* `TypeCorrect` and `BillBoundedHolds` of `Classifier`. The bill is bounded by counting:
  `Spent` is the set of pairs of an article and one of the attempts it has spent, and
  each write adds a pair that was not in it, because a batch is never empty and holds
  open articles only. What is billed is then at most `MaxCalls` for each element of
  `Spent`, for each pass lost, and for the pass under way; `PhaseOK` says that a pass
  has flushed one call less than the attempt it is at.
* `SlugsUniqueHolds`, `NoBareCityHolds` and `RevivedByUnarchiveHolds` of `Cities`, from
  one invariant, `RequestsOK`: from its flush on an onboarding has an id and a slug
  that no city and no other onboarding has, and at least one feed to commit; and the
  feeds a request has read are still of the city it read them for.
* `TypeCorrect` of `Session`: the one conjunct that is not a type is `mounted[t] <= 1`,
  the picker of a page is mounted once.
* `KeptWhileLiveHolds`: for any number of tabs and any lifetimes. `StampsOK` says that
  an answered refresh was served at this very tick (by `Prompt`) and that a page still
  asking `/auth/me` shows no view; `LiveOK` that, while a page's session has not lapsed
  and nothing was lost on the network, its refresh is not refused and its retries carry
  a good token (`RetriesGood`). `GiveUp` and `NotRefreshed`, the only steps that take a
  tab from a view to the login, are then disabled.
* `ServiceEvidence` and `EvidenceCompleteHolds`. The evidence is kept by an agreement
  between client and service, so the invariant has two halves. `ServiceInv`: every
  batch of rows, and the deck of every request on a carousel that exists, holds only
  stories picked into that carousel, or, for an add about to commit, those it will
  record with its deck; and an id, once handed out, names no other carousel
  (`KeptOn`). `CanvasOK`: the deck on the screen belongs to the carousel it would be
  saved to. `MergedHolds` carries this through what overlapping saves leave of each
  other, `InsertedHolds`, `MovedHolds` and `RemovedHolds` through the edits.
  `ServiceEvidence` is the service alone; `EvidenceCompleteHolds` shows that the tab
  `Studio` describes sends it nothing else.
* `TypeCorrect`, `SavedHonestHolds`, `PicksSurviveHolds`, `StaysDownloadedHolds` of
  `Studio`: from the same invariant; the last two look at the handlers only, which
  alone write the tables (`ServiceSteps`). A save may hold a row loaded as a draft and
  commit after a download: it writes the one stamp it changed, the edit's.
* `UncrossedFitsHolds`, `UncrossedOnceHolds`, `SaveRepairsHolds`, for any number of
  overlapping requests, carousels, stories and slides. `CrossInv` adds two parts to
  `ServiceInv`. `OneBatch`: the rows of a carousel that is not tangled are one batch, of a
  deck that fits and holds no story twice. `CrossOK`: the deck an add or a save of such a
  carousel is about to write fits and holds no story twice; and, tangled or not, an
  add or a save that nothing crossed has loaded every row there is, so that its commit
  replaces them all. `SaveRepairs` then needs only that a lone batch is
  read back as it was written (`MergedOne`), and holds on tangled decks too.
* `HistoryConsistentHolds` and `TickHistory`: a row is written whole by the one session
  that holds it, so streak and error move together. Each hypothesis keeps out something
  that breaks them: two sessions on one row mix their columns (`RowsApart`, as with
  `LastWriterWins`), a check by hand writes the error only (`NoChecks`), and with
  `MaxFailures = 0` no streak could be counted. `TickHistory` drops `RowsApart`: without
  refreshes the tick is the only session.
* `SpacingRespectedHolds`: the clock of a row restarts only when an attempt is
  recorded, and the tick loads only sources that are due; the invariant carries
  due-ness from the load to the write, and `IntervalCovers` shows that the effective
  interval is no shorter than the interval, the max-age, and the doubled base or the
  ceiling. Refreshes do not wait and an edit changes what is
  to be waited for, so both are excluded (`NoRefreshes`, `IntervalsStay`).
* `Lists_proofs`: for a finite set and a strict order total on it, `Lined` is a bijection
  that keeps the order, and `Part` a subsequence. `Discover` and `Carousels` rest on these.
* `OutweighingShows` and `OrderTotal`: one level more adds at least the
  smallest weight times the smallest step of `Worth`, which after stretching is more
  than the tenth rounding can take away; and the sort keys end in the id, so each is a
  strict total order on stories, as `Lined` asks.
* `DiscoverTypes` and `ShownCityHolds`, from `TypeOK` and `ScreenOK`: a feed on the screen
  waits for the city list or has a listener that draws it again; what the render on
  the screen asks for is of the city and sort picked; and without overlap nothing else
  counts into its offset.
* `NoGapHolds`, `EndMeansEndHolds`, `StrongFirstHolds`: `ListOK` adds that every story in
  the list that is not shown has at least `Mark` stories ahead of it, where `Mark` is
  the offset the next page starts from. A page cut there (`PageCut`) is then the next
  stretch of the list; what enters the list or rises in it only adds to what is ahead
  of the others (`AheadGrows`), and what leaves it counts as `shaken`. An earlier form of
  `StrongFirst` was not inductive, and the counterexample TLC found with four
  stories of one city showed that it was false: it is now `StrongFirstGrown`.
* `TypingKeptHolds`: `FormOK` says that the form is there only where the login is shown,
  and that a page not yet told whether it is logged in has no call under way. A late
  refusal or a failed refresh then finds the login already shown, and draws nothing.

Every safety property of a passing run is stated by one of these theorems. Only
model-checked is liveness (`GuardReleased`, `DueIsPolled`, `ListedIsStored`, `Drained`,
`Autosaved`, `Settles`, `ButtonReturns`, `CallsEnd`, `CutOff`): it rests on fairness, hence
on `ENABLED`, and on induction over data, which are beyond the prover's backends.

## 5. Plan

Order of work; the first eight are done.

1. `Scheduler` with its proofs: the behaviour the whole product rests on.
2. `Cities`: the administration that decides what is polled, with its proofs.
3. `Classifier` against the abstract `Rating`, with the refinement proved.
4. `Carousels`: the service the canvas writes through.
5. `Studio`, composing the canvas with `Carousels`.
6. `Session`: the shared refresh of refused calls under the gate, with its proofs.
7. `Discover`: offsets and answers across switches of city; the shared city list.
8. `Ranking`: scores and sort keys, with its proofs.
9. Redirects and caps of `fetch_url_async`; row locks of overlapping inserts.

Not modelled, because nothing in them is ordered, shared or retried: configuration and
vocabularies, schemas, migrations, the drawing of slides to PNG, the admin pages
(`cities.js`, `sources.js`, which send the requests `Cities` and `Scheduler` serve).

Theorems to come: how far a deck can outgrow the zip when saves cross, and
`KeptWhileLive` without `Prompt` for refreshes shorter than a token's life.
