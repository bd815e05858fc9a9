-------------------------------- MODULE Cities --------------------------------
(***************************************************************************)
(* City and source administration (app/services/cities.py,                 *)
(* app/services/sources.py and their endpoints): onboarding a city with its*)
(* feeds in one transaction, the cap on live feeds, and the archive and    *)
(* unarchive cascades.                                                     *)
(*                                                                         *)
(* Each request has its own database session: it reads the rows it decides *)
(* on, and later commits. Between the two other requests commit. A commit  *)
(* writes the columns whose value differs from the one the session read: an*)
(* archive stamp is a new timestamp, hence always written; clearing one is *)
(* written only where the session read a stamp.                            *)
(***************************************************************************)
EXTENDS Integers, FiniteSets

CONSTANTS
  CityIds,     \* the cities that can come to exist
  Sources,     \* the sources that can come to exist
  Names,       \* what an editor types as a city's name
  SlugOf,      \* normalize_slug: names that are the same city share a slug
  None,        \* no city, no source, no slug
  Requests,    \* requests in flight at once
  Operations,  \* the operations editors use
  Cap          \* max_sources_per_city

Slugs == {SlugOf[n] : n \in Names}

\* A source row: whether it is polled, and whether it carries an archive stamp.
Source == [enabled : BOOLEAN, archived : BOOLEAN]

\* A request between its read and its commit: the rows as its session read
\* them, and what it is about to write.
Request == [op : {"idle", "create", "add", "archive", "unarchive", "update", "retire"},
            city : CityIds \cup {None}, slug : Slugs \cup {None},
            target : Sources \cup {None}, enabled : BOOLEAN,
            count : 0..Cap, cityStamped : BOOLEAN,
            owned : SUBSET Sources, rows : [Sources -> Source]]

ASSUME CitiesAssumption ==
  /\ Cap \in Nat \ {0} /\ IsFiniteSet(Sources)
  /\ None \notin CityIds \cup Sources \cup Slugs
  /\ Operations \subseteq {"add", "archive", "unarchive", "update", "retire"}

VARIABLES
  slug,     \* slug[c]: the city's slug, None while the row does not exist
  stamped,  \* stamped[c]: the city's archived_at is set
  owner,    \* owner[s]: the source's city_id, None while it does not exist
  source,   \* source[s]: the source row
  request   \* request[r]

vars == <<slug, stamped, owner, source, request>>

Blank == [enabled |-> TRUE, archived |-> FALSE]
Idle  == [op |-> "idle", city |-> None, slug |-> None, target |-> None,
          enabled |-> TRUE, count |-> 0, cityStamped |-> FALSE, owned |-> {},
          rows |-> [s \in Sources |-> Blank]]

TypeOK ==
  /\ slug \in [CityIds -> Slugs \cup {None}]
  /\ stamped \in [CityIds -> BOOLEAN]
  /\ owner \in [Sources -> CityIds \cup {None}]
  /\ source \in [Sources -> Source]
  /\ request \in [Requests -> Request]

Init ==
  /\ slug = [c \in CityIds |-> None]
  /\ stamped = [c \in CityIds |-> FALSE]
  /\ owner = [s \in Sources |-> None]
  /\ source = [s \in Sources |-> Blank]
  /\ request = [r \in Requests |-> Idle]

Exists(c)  == slug[c] # None
Unused     == {s \in Sources : owner[s] = None}
Of(c)      == {s \in Sources : owner[s] = c}
Live(s)    == owner[s] # None /\ ~source[s].archived
LiveOf(c)  == {s \in Of(c) : Live(s)}
Busy(r)    == request[r].op # "idle"

\* The request's commit is over, or failed: its session is gone.
Finish(r) == request' = [request EXCEPT ![r] = Idle]

-----------------------------------------------------------------------------
(***************************************************************************)
(* Onboarding                                                              *)
(***************************************************************************)
\* Mutant of Fits: only the schema's own, wider limit is checked.
FitsSchema(count) == count <= Cap + 1
Fits(count) == count <= Cap

\* create_city up to the flush: too many feeds or a known slug is refused
\* with nothing written, so only an accepted request leaves a trace.
BeginCreate(r, name, count) ==
  /\ ~Busy(r)
  /\ Fits(count)
  /\ \A c \in CityIds : slug[c] # SlugOf[name]
  /\ request' = [request EXCEPT ![r] =
       [Idle EXCEPT !.op = "create", !.slug = SlugOf[name], !.count = count]]
  /\ UNCHANGED <<slug, stamped, owner, source>>

\* Mutant of Reserved: the flush is a commit.
ReservedByCommit(c, new) == [slug EXCEPT ![c] = new]

\* The flush gives the city its id; no other session sees the row.
Reserved(c, new) == slug

\* Mutant of SlugFree: nothing but the earlier look is asked.
SlugUnasked(r) == TRUE

\* The unique index: a slug another session inserted, committed or not, keeps
\* the insert from succeeding (it waits for an uncommitted one).
SlugFree(r) ==
  /\ \A c \in CityIds : slug[c] # request[r].slug
  /\ \A q \in Requests \ {r} :
       request[q].op = "create" /\ request[q].city # None
         => request[q].slug # request[r].slug

FlushCreate(r, c) ==
  /\ request[r].op = "create" /\ request[r].city = None
  /\ SlugFree(r)
  /\ ~Exists(c) /\ \A q \in Requests : request[q].city # c
  /\ slug' = Reserved(c, request[r].slug)
  /\ request' = [request EXCEPT ![r].city = c]
  /\ UNCHANGED <<stamped, owner, source>>

\* The city and every one of its sources, in one commit.
CommitCreate(r) ==
  LET c == request[r].city IN
  /\ request[r].op = "create" /\ c # None
  /\ \E new \in SUBSET Unused :
       /\ Cardinality(new) = request[r].count
       /\ owner' = [s \in Sources |-> IF s \in new THEN c ELSE owner[s]]
  /\ slug' = [slug EXCEPT ![c] = request[r].slug]
  /\ Finish(r)
  /\ UNCHANGED <<stamped, source>>

-----------------------------------------------------------------------------
(***************************************************************************)
(* Operations on a city that exists                                        *)
(***************************************************************************)
\* get_city: the city and its sources are read into the session.
Loaded(op, c) ==
  [Idle EXCEPT !.op = op, !.city = c, !.cityStamped = stamped[c],
               !.owned = Of(c), !.rows = source]

HasRoom(c) == Cardinality(LiveOf(c)) < Cap

\* add_source: the count is of the rows this session read.
BeginAdd(r, c) ==
  /\ "add" \in Operations
  /\ ~Busy(r) /\ Exists(c)
  /\ HasRoom(c)
  /\ request' = [request EXCEPT ![r] = Loaded("add", c)]
  /\ UNCHANGED <<slug, stamped, owner, source>>

CommitAdd(r) ==
  /\ request[r].op = "add"
  /\ \E s \in Unused : owner' = [owner EXCEPT ![s] = request[r].city]
  /\ Finish(r)
  /\ UNCHANGED <<slug, stamped, source>>

BeginCascade(r, c, op) ==
  /\ op \in Operations \cap {"archive", "unarchive"}
  /\ ~Busy(r) /\ Exists(c)
  /\ request' = [request EXCEPT ![r] = Loaded(op, c)]
  /\ UNCHANGED <<slug, stamped, owner, source>>

\* The sources of the city whose stamp the cascade changes, among those its
\* session read.
Cascade(r, stamp) ==
  {s \in request[r].owned : request[r].rows[s].archived # stamp}

\* archive_city stamps the city anew, and its sources that had no stamp.
CommitArchive(r) ==
  /\ request[r].op = "archive"
  /\ stamped' = [stamped EXCEPT ![request[r].city] = TRUE]
  /\ source' = [s \in Sources |->
       IF s \in Cascade(r, TRUE) THEN [source[s] EXCEPT !.archived = TRUE]
                                 ELSE source[s]]
  /\ Finish(r)
  /\ UNCHANGED <<slug, owner>>

\* unarchive_city clears every stamp its session read.
CommitUnarchive(r) ==
  /\ request[r].op = "unarchive"
  /\ stamped' = [stamped EXCEPT ![request[r].city] =
                   IF request[r].cityStamped THEN FALSE ELSE @]
  /\ source' = [s \in Sources |->
       IF s \in Cascade(r, FALSE) THEN [source[s] EXCEPT !.archived = FALSE]
                                  ELSE source[s]]
  /\ Finish(r)
  /\ UNCHANGED <<slug, owner>>

-----------------------------------------------------------------------------
(***************************************************************************)
(* Operations on one source                                                *)
(***************************************************************************)
BeginSource(r, s, op, enabled) ==
  /\ op \in Operations \cap {"update", "retire"}
  /\ ~Busy(r) /\ owner[s] # None
  /\ request' = [request EXCEPT ![r] =
       [Idle EXCEPT !.op = op, !.target = s, !.enabled = enabled,
                    !.rows = source]]
  /\ UNCHANGED <<slug, stamped, owner, source>>

\* Mutant of Patched: the whole row the session read is written back.
PatchedWhole(r, s) ==
  [request[r].rows[s] EXCEPT !.enabled = request[r].enabled]

\* PATCH writes the fields given, where they differ from what was read.
Patched(r, s) ==
  [source[s] EXCEPT !.enabled =
     IF request[r].enabled # request[r].rows[s].enabled
     THEN request[r].enabled ELSE @]

CommitUpdate(r) ==
  LET s == request[r].target IN
  /\ request[r].op = "update"
  /\ source' = [source EXCEPT ![s] = Patched(r, s)]
  /\ Finish(r)
  /\ UNCHANGED <<slug, stamped, owner>>

\* archive_source stamps anew.
CommitRetire(r) ==
  /\ request[r].op = "retire"
  /\ source' = [source EXCEPT ![request[r].target].archived = TRUE]
  /\ Finish(r)
  /\ UNCHANGED <<slug, stamped, owner>>

\* A request that dies before its commit: a database error, a lost client, a
\* duplicate slug met by the flush. Its transaction is rolled back.
Fail(r) ==
  /\ Busy(r)
  /\ Finish(r)
  /\ UNCHANGED <<slug, stamped, owner, source>>

-----------------------------------------------------------------------------
Begin(r) ==
  \/ \E name \in Names, count \in 1..(Cap + 1) : BeginCreate(r, name, count)
  \/ \E c \in CityIds : BeginAdd(r, c)
  \/ \E c \in CityIds, op \in {"archive", "unarchive"} : BeginCascade(r, c, op)
  \/ \E s \in Sources, op \in {"update", "retire"}, enabled \in BOOLEAN :
       BeginSource(r, s, op, enabled)

Next ==
  \E r \in Requests :
    \/ Begin(r)
    \/ \E c \in CityIds : FlushCreate(r, c)
    \/ CommitCreate(r) \/ CommitAdd(r)
    \/ CommitArchive(r) \/ CommitUnarchive(r)
    \/ CommitUpdate(r) \/ CommitRetire(r)
    \/ Fail(r)

Spec == Init /\ [][Next]_vars

-----------------------------------------------------------------------------
(***************************************************************************)
(* Properties                                                              *)
(***************************************************************************)
\* Two cities never share a slug, whoever onboards them and however the
\* requests overlap: articles resolve to a city by it (cities.py:28-31).
SlugsUnique ==
  \A c, d \in CityIds : c # d /\ Exists(c) => slug[c] # slug[d]

\* A city is never seen without feeds: it is created with all of them or not
\* at all (cities.py:70-92).
NoBareCity == \A c \in CityIds : Exists(c) => Of(c) # {}

\* A city holds at most Cap live feeds ("so that the per-city cap cannot be
\* bypassed", endpoints/sources.py:20-23).
CapHeld == \A c \in CityIds : Cardinality(LiveOf(c)) <= Cap

\* An archived city has no feed left to poll: "leaving them active would keep
\* polling every feed for a city nobody can select" (cities.py:106-110).
CascadeComplete == \A c \in CityIds : stamped[c] => LiveOf(c) = {}

\* A retired feed comes back only by an unarchive of its own city that had
\* read it as retired: no edit and no other city's request revives it
\* (cities.py:121-141, sources.py:43-58).
RevivedByUnarchive ==
  [][\A s \in Sources :
       source[s].archived /\ ~source'[s].archived =>
         \E r \in Requests :
           CommitUnarchive(r) /\ owner[s] = request[r].city]_vars
=============================================================================
