------------------------------ MODULE Scheduler ------------------------------
(***************************************************************************)
(* The polling half of Feedcast: the background tick and the per-city      *)
(* forced refreshes, both running load -> fetch -> persist over the same   *)
(* source rows and the same article table                                  *)
(* (app/services/scheduler.py, app/services/ingest.py,                     *)
(* app/services/sources.py).                                               *)
(*                                                                         *)
(* Every await of the code is a point where another job may run, so a job  *)
(* is a sequence of actions: load the targets, start and finish each fetch,*)
(* read a source row into the session, commit (or roll back) that source.  *)
(* Postgres commits one source atomically; the ORM writes only the columns *)
(* whose value differs from the row the session loaded (Flush).            *)
(*                                                                         *)
(* Time is relative: since[s] is how long ago source s was last fetched    *)
(* and attempt[j][s].age how long ago the attempt was stamped. Both stop   *)
(* growing at MaxAge, beyond every interval, so a source that was never    *)
(* fetched is one fetched MaxAge ago: due either way.                      *)
(*                                                                         *)
(* etag and last_modified are one validator, the number of the feed        *)
(* version it was sent with, compared as a date: an origin may answer 304  *)
(* to any validator at least as new as what it serves. 0 is "no validator".*)
(***************************************************************************)
EXTENDS Integers, FiniteSets

CONSTANTS
  Sources,      \* the source ids
  CityOf,       \* the city each source belongs to; it never changes
  Urls,         \* feed urls
  UrlsOf,       \* the urls an admin gives each source, the first one included
  Intervals,    \* the poll intervals an admin gives each source
  Stories,      \* article keys
  Entries,      \* Entries[u][v]: what version v of the feed at u lists
  MaxVersion,   \* bound: versions a feed goes through
  MaxAges,      \* what cache-control may parse to; 0 is "absent"
  ColumnMax,    \* the largest max-age the Integer column takes
  Outcomes,     \* what a fetch may come back with ("bare": no validator)
  None,         \* no source, no city
  Tick,         \* the background job
  Requests,     \* refresh requests that can be in flight at once
  MaxFetches,   \* scheduler_max_concurrent_fetches
  MaxBackoff,   \* scheduler_max_backoff_seconds
  MaxExponent,  \* _MAX_BACKOFF_EXPONENT
  MaxFailures,  \* bound: consecutive_failures stops counting here
  MaxAge,       \* bound: elapsed time stops growing here
  FetchTime,    \* bound: the longest a stamped attempt stays unrecorded
  MaxFaults,    \* bound: database errors
  MaxCrashes,   \* bound: process crashes and restarts
  MaxEdits      \* bound: admin edits, archivings and checks

Jobs     == {Tick} \cup Requests
Cities   == {CityOf[s] : s \in Sources}
Versions == 1..MaxVersion

ErrorKinds == {"none", "fetch", "parse", "persist"}

Row == [url : Urls, interval : Nat, enabled : BOOLEAN, archived : BOOLEAN,
        tag : 0..MaxVersion, maxAge : Nat, failures : 0..MaxFailures,
        error : ErrorKinds]

Attempt == [st : {"none", "target", "open", "error", "junk", "same", "body"},
            url : Urls, tag : 0..MaxVersion, ver : Versions,
            maxAge : Nat, age : 0..MaxAge]

ASSUME NamesAssumption == Tick \notin Requests /\ None \notin Sources \cup Cities

ASSUME BoundsAssumption ==
  /\ MaxVersion \in Nat \ {0} /\ MaxBackoff \in Int /\ MaxExponent \in Nat
  /\ ColumnMax \in Nat /\ MaxFailures \in Nat /\ MaxAge \in Nat /\ FetchTime \in Nat
  /\ MaxFaults \in Nat /\ MaxCrashes \in Nat /\ MaxEdits \in Nat

ASSUME FeedsAssumption ==
  /\ Urls # {}
  /\ \A s \in Sources :
        /\ UrlsOf[s] \subseteq Urls /\ UrlsOf[s] # {}
        /\ Intervals[s] \subseteq Nat /\ Intervals[s] # {}
  /\ \A u \in Urls, v \in Versions : Entries[u][v] \subseteq Stories
  /\ MaxAges \subseteq Nat /\ 0 \in MaxAges

ASSUME OutcomesAssumption == Outcomes \subseteq {"error", "junk", "same", "body", "bare"}

VARIABLES
  feed,        \* feed[u]: the version the origin at u serves
  source,      \* source[s]: the sources row, but for last_fetched_at
  since,       \* since[s]: time since last_fetched_at
  article,     \* article[x]: the source_id x was stored under, or None
  refreshing,  \* _refreshing
  pc,          \* where each job is
  city,        \* the city each request refreshes
  attempt,     \* the targets of a job and what became of their fetches
  seen,        \* seen_ids of the job's persist_attempts
  work,        \* the source whose row the job's session holds
  held,        \* that row as the session loaded it
  probe,       \* last_error as a running check_source loaded it, or "idle"
  faults, crashes, edits

jobVars    == <<pc, city, attempt, seen, work, held>>
budgetVars == <<faults, crashes, edits>>
vars == <<feed, source, since, article, refreshing, jobVars, probe, budgetVars>>

TablesOK ==
  /\ feed \in [Urls -> Versions]
  /\ source \in [Sources -> Row]
  /\ since \in [Sources -> 0..MaxAge]
  /\ article \in [Stories -> Sources \cup {None}]
  /\ probe \in [Sources -> ErrorKinds \cup {"idle"}]
  /\ faults \in 0..MaxFaults /\ crashes \in 0..MaxCrashes /\ edits \in 0..MaxEdits

JobsOK ==
  /\ refreshing \subseteq Cities
  /\ pc \in [Jobs -> {"idle", "load", "work", "commit", "recover"}]
  /\ city \in [Requests -> Cities \cup {None}]
  /\ attempt \in [Jobs -> [Sources -> Attempt]]
  /\ seen \in [Jobs -> SUBSET Stories]
  /\ work \in [Jobs -> Sources \cup {None}]
  /\ held \in [Jobs -> Row]

PhasesOK ==
  /\ \A j \in Jobs : pc[j] \in {"commit", "recover"} <=> work[j] # None
  /\ \A r \in Requests : pc[r] = "idle" <=> city[r] = None

TypeOK == TablesOK /\ JobsOK /\ PhasesOK

-----------------------------------------------------------------------------
(***************************************************************************)
(* Due-ness and the row updates                                            *)
(***************************************************************************)
Larger(a, b)  == IF a >= b THEN a ELSE b
Smaller(a, b) == IF a <= b THEN a ELSE b

\* Mutant of EffectiveInterval: the backoff ceiling clamps the base as well.
IntervalAllClamped(row) ==
  LET base == Larger(row.interval, row.maxAge)
  IN  IF row.failures = 0
      THEN base
      ELSE Smaller(base * 2^Smaller(row.failures, MaxExponent), MaxBackoff)

\* effective_interval_seconds: the backoff ceiling clamps the backoff only.
EffectiveInterval(row) ==
  LET base == Larger(row.interval, row.maxAge)
      exponent == Smaller(row.failures, MaxExponent)
  IN  IF row.failures = 0
      THEN base
      ELSE Larger(base, Smaller(base * 2^exponent, MaxBackoff))

IsDue(s)  == since[s] >= EffectiveInterval(source[s])
IsLive(s) == source[s].enabled /\ ~source[s].archived

\* Mutant of Flush: the whole loaded row is written back.
FlushWholeRow(current, loaded, new) == new

\* What an ORM flush writes: the columns whose value is not the loaded one.
Flush(current, loaded, new) ==
  [c \in DOMAIN current |->
     IF new[c] # loaded[c] THEN new[c] ELSE current[c]]

RecordFailure(row, kind) ==
  [row EXCEPT !.error = kind, !.failures = Smaller(@ + 1, MaxFailures)]

\* Mutant of RecordSuccess: the failure streak is not reset.
RecordSuccessKeepingStreak(row, tag, maxAge) ==
  [row EXCEPT !.tag = IF tag # 0 THEN tag ELSE @,
              !.maxAge = maxAge, !.error = "none"]

RecordSuccess(row, tag, maxAge) ==
  [row EXCEPT !.tag = IF tag # 0 THEN tag ELSE @,
              !.maxAge = maxAge, !.failures = 0, !.error = "none"]

NoAttempt == [st |-> "none", url |-> CHOOSE u \in Urls : TRUE, tag |-> 0,
              ver |-> 1, maxAge |-> 0, age |-> 0]
NoRow == [url |-> CHOOSE u \in Urls : TRUE, interval |-> 0, enabled |-> FALSE,
          archived |-> FALSE, tag |-> 0, maxAge |-> 0, failures |-> 0,
          error |-> "none"]

\* A source as it is created, never fetched.
NewRow(s) ==
  [url |-> CHOOSE u \in UrlsOf[s] : TRUE,
   interval |-> CHOOSE i \in Intervals[s] : TRUE,
   enabled |-> TRUE, archived |-> FALSE, tag |-> 0, maxAge |-> 0,
   failures |-> 0, error |-> "none"]

\* FetchTarget: the url and the conditional headers, copied at load time.
Target(s) == [NoAttempt EXCEPT !.st = "target", !.url = source[s].url,
                               !.tag = source[s].tag]
Targets(live) == [s \in Sources |-> IF s \in live THEN Target(s) ELSE NoAttempt]

Unresolved == {"target", "open"}
Gathered(j) == \A s \in Sources : attempt[j][s].st \notin Unresolved
Done(j)     == \A s \in Sources : attempt[j][s].st = "none"

\* parse_and_persist's skip: a story some source of this tick already marked.
Fresh(j, a) ==
  IF a.st = "body" THEN Entries[a.url][a.ver] \ seen[j] ELSE {}
-----------------------------------------------------------------------------
(***************************************************************************)
(* Actions                                                                 *)
(***************************************************************************)
Init ==
  /\ feed = [u \in Urls |-> 1]
  /\ source = [s \in Sources |-> NewRow(s)]
  /\ since = [s \in Sources |-> MaxAge]
  /\ article = [x \in Stories |-> None]
  /\ refreshing = {}
  /\ pc = [j \in Jobs |-> "idle"]
  /\ city = [r \in Requests |-> None]
  /\ attempt = [j \in Jobs |-> Targets({})]
  /\ seen = [j \in Jobs |-> {}]
  /\ work = [j \in Jobs |-> None]
  /\ held = [j \in Jobs |-> NoRow]
  /\ probe = [s \in Sources |-> "idle"]
  /\ faults = 0 /\ crashes = 0 /\ edits = 0

\* The publisher: a feed lists something else.
Publish(u) ==
  /\ feed[u] < MaxVersion
  /\ feed' = [feed EXCEPT ![u] = @ + 1]
  /\ UNCHANGED <<source, since, article, refreshing, jobVars, probe, budgetVars>>

\* One unit of time. The fetch timeouts keep a stamped attempt from waiting
\* longer than FetchTime for its commit.
Older(age) == Smaller(age + 1, MaxAge)
Stamped(a) == a.st \notin {"none", "target"}
Advance ==
  /\ \A j \in Jobs, s \in Sources :
        Stamped(attempt[j][s]) => attempt[j][s].age < FetchTime
  /\ since' = [s \in Sources |-> Older(since[s])]
  /\ attempt' = [j \in Jobs |-> [s \in Sources |->
        IF Stamped(attempt[j][s])
        THEN [attempt[j][s] EXCEPT !.age = Older(@)]
        ELSE attempt[j][s]]]
  /\ since' # since \/ attempt' # attempt
  /\ UNCHANGED <<feed, source, article, refreshing, pc, city, seen, work, held,
                 probe, budgetVars>>

\* scheduler_loop wakes and run_tick loads what is due; with nothing due the
\* tick returns and the loop sleeps again.
TickLoad ==
  LET due == {s \in Sources : IsLive(s) /\ IsDue(s)} IN
  /\ pc[Tick] = "idle"
  /\ due # {}
  /\ attempt' = [attempt EXCEPT ![Tick] = Targets(due)]
  /\ pc' = [pc EXCEPT ![Tick] = "work"]
  /\ UNCHANGED <<feed, source, since, article, refreshing, city, seen, work,
                 held, probe, budgetVars>>

\* The guard of refresh_city, and a mutant: set but not consulted.
UnguardedAdmits(c) == TRUE
Admits(c) == c \notin refreshing

\* refresh_city up to its first await: the guard and the add.
RefreshStart(r, c) ==
  /\ pc[r] = "idle"
  /\ Admits(c)
  /\ refreshing' = refreshing \cup {c}
  /\ city' = [city EXCEPT ![r] = c]
  /\ pc' = [pc EXCEPT ![r] = "load"]
  /\ UNCHANGED <<feed, source, since, article, attempt, seen, work, held, probe,
                 budgetVars>>

\* load_city_targets: every live source of the city, due or not. A city with
\* none leaves nothing to gather, and the job goes straight to JobEnd.
RefreshLoad(r) ==
  LET live == {s \in Sources : CityOf[s] = city[r] /\ IsLive(s)} IN
  /\ pc[r] = "load"
  /\ attempt' = [attempt EXCEPT ![r] = Targets(live)]
  /\ pc' = [pc EXCEPT ![r] = "work"]
  /\ UNCHANGED <<feed, source, since, article, refreshing, city, seen, work,
                 held, probe, budgetVars>>

\* fetch_one: past the semaphore, stamped, the request sent.
FetchStart(j, s) ==
  /\ pc[j] = "work"
  /\ attempt[j][s].st = "target"
  /\ Cardinality({t \in Sources : attempt[j][t].st = "open"}) < MaxFetches
  /\ attempt' = [attempt EXCEPT ![j][s].st = "open"]
  /\ UNCHANGED <<feed, source, since, article, refreshing, pc, city, seen, work,
                 held, probe, budgetVars>>

\* The origin at the target's url answers an open request with an error, or a
\* body that is not a feed ...
FetchFailed(j, s) ==
  /\ attempt[j][s].st = "open"
  /\ \E st \in Outcomes \cap {"error", "junk"} :
        attempt' = [attempt EXCEPT ![j][s].st = st]
  /\ UNCHANGED <<feed, source, since, article, refreshing, pc, city, seen, work,
                 held, probe, budgetVars>>

\* ... or with 304 if the validator covers what it serves, or that version, with
\* or without a validator and a max-age of its own.
FetchAnswered(j, s) ==
  LET a == attempt[j][s]
      current == feed[a.url]
      kinds == {"body"} \cup IF a.tag >= current THEN {"same"} ELSE {}
      tags == {current} \cup IF "bare" \in Outcomes THEN {0} ELSE {}
  IN
  /\ a.st = "open"
  /\ \E st \in Outcomes \cap kinds, tag \in tags, m \in MaxAges :
        attempt' = [attempt EXCEPT ![j][s] =
          [st |-> st, url |-> a.url, tag |-> tag, ver |-> current,
           maxAge |-> m, age |-> a.age]]
  /\ UNCHANGED <<feed, source, since, article, refreshing, pc, city, seen, work,
                 held, probe, budgetVars>>

\* persist_attempts, one iteration: db.get. Rows are never deleted, so the row
\* is always there, whatever happened to it since the load.
PersistGet(j, s) ==
  /\ pc[j] = "work"
  /\ Gathered(j)
  /\ attempt[j][s].st # "none"
  /\ pc' = [pc EXCEPT ![j] = "commit"]
  /\ work' = [work EXCEPT ![j] = s]
  /\ held' = [held EXCEPT ![j] = source[s]]
  /\ UNCHANGED <<feed, source, since, article, refreshing, city, attempt, seen,
                 probe, budgetVars>>

\* The row an attempt makes of the one the session holds.
Recorded(row, a) ==
  CASE a.st = "error" -> RecordFailure(row, "fetch")
    [] a.st = "junk"  -> RecordFailure(row, "parse")
    [] OTHER          -> RecordSuccess(row, a.tag, a.maxAge)

\* last_fetched_at is stamped on every attempt; mutant: on successes only.
StampSuccess(s, a) ==
  IF a.st = "error" THEN since ELSE [since EXCEPT ![s] = a.age]
Stamp(s, a) == [since EXCEPT ![s] = a.age]

\* What every committed attempt does: the changed columns, last_fetched_at (a
\* fresh timestamp, hence always written), and on to the next attempt.
WriteRow(j, s, new) ==
  /\ source' = [source EXCEPT ![s] = Flush(@, held[j], new)]
  /\ since' = Stamp(s, attempt[j][s])
  /\ attempt' = [attempt EXCEPT ![j][s] = NoAttempt]
  /\ pc' = [pc EXCEPT ![j] = "work"]
  /\ work' = [work EXCEPT ![j] = None]
  /\ held' = [held EXCEPT ![j] = NoRow]

\* Mutant of Insert: a conflict drops the whole batch.
InsertAllOrNothing(s, fresh) ==
  [x \in Stories |->
     IF x \in fresh /\ \A y \in fresh : article[y] = None THEN s ELSE article[x]]

\* INSERT ... ON CONFLICT DO NOTHING.
Insert(s, fresh) ==
  [x \in Stories |->
     IF x \in fresh /\ article[x] = None THEN s ELSE article[x]]

Overflows(a) == a.st \in {"same", "body"} /\ a.maxAge > ColumnMax

\* ... the attempt recorded and its articles inserted ON CONFLICT DO NOTHING,
\* in one commit.
PersistCommit(j) ==
  LET s == work[j]
      a == attempt[j][s]
      fresh == Fresh(j, a)
  IN
  /\ pc[j] = "commit"
  /\ ~Overflows(a)
  /\ WriteRow(j, s, Recorded(held[j], a))
  /\ article' = Insert(s, fresh)
  /\ seen' = [seen EXCEPT ![j] = @ \cup fresh]
  /\ UNCHANGED <<feed, refreshing, city, probe, budgetVars>>

\* The row after a rollback, populate_existing; mutant: it is not there.
RereadMissing(s) == None
Reread(s) == source[s]

\* ... or an exception: the rollback undoes the row and the articles but not
\* seen_ids, and the row is read again. A database error may also come before
\* the entries were marked.
PersistRollback(j) ==
  LET s == work[j]
      a == attempt[j][s]
  IN
  /\ pc[j] = "commit"
  /\ \/ /\ Overflows(a)
        /\ faults' = faults
        /\ seen' = [seen EXCEPT ![j] = @ \cup Fresh(j, a)]
     \/ /\ faults < MaxFaults
        /\ faults' = faults + 1
        /\ seen' \in {seen, [seen EXCEPT ![j] = @ \cup Fresh(j, a)]}
  /\ pc' = [pc EXCEPT ![j] = "recover"]
  /\ held' = [held EXCEPT ![j] = Reread(s)]
  /\ UNCHANGED <<feed, source, since, article, refreshing, city, attempt, work,
                 probe, crashes, edits>>

\* "persist failed" recorded on the row that was read again.
RecoverCommit(j) ==
  /\ pc[j] = "recover"
  /\ WriteRow(j, work[j], RecordFailure(held[j], "persist"))
  /\ UNCHANGED <<feed, article, refreshing, city, seen, probe, budgetVars>>

\* seen_ids is made anew by each persist_attempts; mutant: it outlives it.
SeenKept(j) == seen
SeenDropped(j) == [seen EXCEPT ![j] = {}]

\* The finally of refresh_city; mutant: only a normal return releases.
ReleasedOnReturn(j) ==
  IF pc[j] = "work" /\ Done(j) THEN refreshing \ {city[j]} ELSE refreshing
Released(j) == refreshing \ {city[j]}

\* A job is over: the session is gone, and a refresh's finally has run.
Leave(j) ==
  /\ pc' = [pc EXCEPT ![j] = "idle"]
  /\ attempt' = [attempt EXCEPT ![j] = Targets({})]
  /\ seen' = SeenDropped(j)
  /\ work' = [work EXCEPT ![j] = None]
  /\ held' = [held EXCEPT ![j] = NoRow]
  /\ IF j = Tick
     THEN UNCHANGED <<refreshing, city>>
     ELSE /\ refreshing' = Released(j)
          /\ city' = [city EXCEPT ![j] = None]

JobEnd(j) ==
  /\ pc[j] = "work"
  /\ Done(j)
  /\ Leave(j)
  /\ UNCHANGED <<feed, source, since, article, probe, budgetVars>>

\* A database error outside the try of persist_attempts (in a load, a get or
\* the recovery) propagates and ends the job.
JobAbort(j) ==
  /\ \/ pc[j] \in {"load", "recover"}
     \/ pc[j] = "work" /\ Gathered(j) /\ ~Done(j)
  /\ faults < MaxFaults
  /\ faults' = faults + 1
  /\ Leave(j)
  /\ UNCHANGED <<feed, source, since, article, probe, crashes, edits>>

\* The process dies, or shuts down and cancels its tasks; it starts again with
\* what was committed.
Crash ==
  /\ crashes < MaxCrashes
  /\ crashes' = crashes + 1
  /\ refreshing' = {}
  /\ pc' = [j \in Jobs |-> "idle"]
  /\ city' = [r \in Requests |-> None]
  /\ attempt' = [j \in Jobs |-> Targets({})]
  /\ seen' = [j \in Jobs |-> {}]
  /\ work' = [j \in Jobs |-> None]
  /\ held' = [j \in Jobs |-> NoRow]
  /\ probe' = [s \in Sources |-> "idle"]
  /\ UNCHANGED <<feed, source, since, article, faults, edits>>

-----------------------------------------------------------------------------
(***************************************************************************)
(* The admin endpoints that write the same rows                            *)
(***************************************************************************)
Edit == edits < MaxEdits /\ edits' = edits + 1

\* PATCH /sources/{id}: the fields given, and only those.
UpdateSource(s) ==
  /\ Edit
  /\ \E url \in UrlsOf[s], interval \in Intervals[s], enabled \in BOOLEAN :
        source' = [source EXCEPT ![s].url = url, ![s].interval = interval,
                                 ![s].enabled = enabled]
  /\ UNCHANGED <<feed, since, article, refreshing, jobVars, probe, faults, crashes>>

ArchiveSource(s) ==
  /\ Edit
  /\ source' = [source EXCEPT ![s].archived = TRUE]
  /\ UNCHANGED <<feed, since, article, refreshing, jobVars, probe, faults, crashes>>

\* POST /sources/{id}/check reads the row, fetches without validators, and
\* writes last_error only where it differs from what it read.
CheckStart(s) ==
  /\ Edit
  /\ probe[s] = "idle"
  /\ probe' = [probe EXCEPT ![s] = source[s].error]
  /\ UNCHANGED <<feed, source, since, article, refreshing, jobVars, faults, crashes>>

CheckDone(s) ==
  /\ probe[s] # "idle"
  /\ \E error \in {"none", "fetch", "parse"} :
        source' = [source EXCEPT ![s].error =
                     IF error # probe[s] THEN error ELSE @]
  /\ probe' = [probe EXCEPT ![s] = "idle"]
  /\ UNCHANGED <<feed, since, article, refreshing, jobVars, budgetVars>>

-----------------------------------------------------------------------------
JobStep(j) ==
  \/ \E s \in Sources :
        \/ FetchStart(j, s) \/ FetchFailed(j, s) \/ FetchAnswered(j, s)
        \/ PersistGet(j, s)
  \/ PersistCommit(j) \/ PersistRollback(j) \/ RecoverCommit(j) \/ JobEnd(j)

Next ==
  \/ \E u \in Urls : Publish(u)
  \/ Advance
  \/ TickLoad
  \/ \E r \in Requests, c \in Cities : RefreshStart(r, c)
  \/ \E r \in Requests : RefreshLoad(r)
  \/ \E j \in Jobs : JobStep(j) \/ JobAbort(j)
  \/ Crash
  \/ \E s \in Sources :
        UpdateSource(s) \/ ArchiveSource(s) \/ CheckStart(s) \/ CheckDone(s)

Spec == Init /\ [][Next]_vars

\* The event loop runs every ready task, the loop wakes after each sleep, and
\* time passes. Publishers, admins, database errors and crashes owe nothing.
Fairness ==
  /\ WF_vars(Advance) /\ WF_vars(TickLoad)
  /\ \A r \in Requests : WF_vars(RefreshLoad(r))
  /\ \A j \in Jobs : WF_vars(JobStep(j))

FairSpec == Spec /\ Fairness

-----------------------------------------------------------------------------
(***************************************************************************)
(* Properties                                                              *)
(***************************************************************************)
Running(r) == pc[r] # "idle"
Stored == {x \in Stories : article[x] # None}

\* _refreshing holds exactly the cities with a refresh in flight, one refresh
\* each, on every path out of refresh_city (scheduler.py:238-241, 284-316).
RefreshExclusive ==
  /\ refreshing = {city[r] : r \in {q \in Requests : Running(q)}}
  /\ \A q, r \in Requests :
        Running(q) /\ Running(r) /\ city[q] = city[r] => q = r

\* If the origin would answer a source's next conditional GET with 304, every
\* entry it lists is in the article table: a 304 is a truthful "nothing new"
\* (scheduler.py:277-278), and no story is skipped for ever while its row is
\* absent (article.py:18-22).
NoSilentGap ==
  \A s \in Sources :
    LET u == source[s].url IN
    source[s].tag >= feed[u] => Entries[u][feed[u]] \subseteq Stored

\* The failure streak and the error shown beside it tell the same story: there
\* is a streak exactly when there is an error (ingest.py:226-248).
HistoryConsistent ==
  \A s \in Sources : source[s].failures > 0 <=> source[s].error # "none"

\* A committed attempt leaves every bookkeeping column as its own session had
\* it: "Row writes are last-writer-wins on bookkeeping columns"
\* (scheduler.py:281-283).
LastWriterWins ==
  [][\A j \in Jobs : PersistCommit(j) =>
       LET s == work[j] IN
       \A c \in {"tag", "maxAge", "failures", "error"} :
         source'[s][c] = Recorded(held[j], attempt[j][s])[c]]_vars

\* What an origin is owed between two polls: the configured interval, which a
\* "source deliberately configured to poll weekly" keeps while it fails, its own
\* max-age, and while it fails the doubled base or the ceiling
\* (scheduler.py:57-64).
WaitedEnough(row, waited) ==
  /\ waited >= row.interval
  /\ waited >= row.maxAge
  /\ row.failures > 0 =>
       \/ waited >= MaxBackoff
       \/ waited >= Larger(row.interval, row.maxAge)
                      * 2^Smaller(row.failures, MaxExponent)

\* Without refreshes, two attempts a tick records for a source are as far apart
\* as the first of them left the source to wait, whatever fails in between
\* (scheduler.py:56-82, and ingest.py:226-248 stamping last_fetched_at).
SpacingRespected ==
  [][\A s \in Sources :
       (PersistCommit(Tick) \/ RecoverCommit(Tick)) /\ work[Tick] = s =>
         \/ since[s] = MaxAge
         \/ WaitedEnough(source[s], since[s] - attempt[Tick][s].age)]_vars

\* No attempt undoes an admin's edit made while its session held the row: it
\* writes back the columns it changed, not the row it loaded.
EditsSurvive ==
  [][\A j \in Jobs : PersistCommit(j) \/ RecoverCommit(j) =>
       \A c \in {"url", "interval", "enabled", "archived"} :
         source'[work[j]][c] = source[work[j]][c]]_vars

\* A comment in persist_attempts says a source archived mid-tick is skipped
\* (scheduler.py:168): no session holds an archived row to write.
ArchivedMidTickSkipped ==
  \A j \in Jobs : pc[j] = "commit" => ~held[j].archived

\* A due source that stays live is polled, and the attempt recorded, however
\* the other sources of its ticks fail (scheduler.py:156-160, 319-322).
DueIsPolled ==
  \A s \in Sources : (IsLive(s) /\ IsDue(s)) ~> ~(IsLive(s) /\ IsDue(s))

\* A city's refresh guard is always released (scheduler.py:316).
GuardReleased == \A c \in Cities : c \in refreshing ~> c \notin refreshing

\* What a feed settles on listing ends up in the article table.
ListedIsStored ==
  \A s \in Sources, x \in Stories :
    LET u == source[s].url IN
    IsLive(s) /\ feed[u] = MaxVersion /\ x \in Entries[u][MaxVersion]
      ~> article[x] # None \/ ~IsLive(s)
=============================================================================
