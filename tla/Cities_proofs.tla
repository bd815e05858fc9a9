----------------------------- MODULE Cities_proofs -----------------------------
(***************************************************************************)
(* What administration keeps for any number of cities, feeds and requests. *)
(* The strengthening is RequestsOK: what a request under way has read or   *)
(* reserved is still so when it commits.                                   *)
(***************************************************************************)
EXTENDS Cities, FiniteSetTheorems, TLAPS

\* A city being onboarded has a number of feeds, and from the flush on an id and a
\* slug no city has.
CreatingOK(r) ==
  request[r].op = "create" =>
    /\ request[r].slug \in Slugs /\ request[r].count >= 1
    /\ request[r].city # None =>
         /\ ~Exists(request[r].city)
         /\ \A c \in CityIds : slug[c] # request[r].slug

\* Nobody else has reserved either.
ReservedApart ==
  \A r, q \in Requests :
    /\ r # q
    /\ request[r].op = "create" /\ request[r].city # None
    /\ request[q].op = "create" /\ request[q].city # None
    => request[r].city # request[q].city /\ request[r].slug # request[q].slug

\* A request on a city or a source that exists: it has read feeds of that city, and
\* a city and a feed, once there, stay.
ServingOK(r) ==
  /\ request[r].op \in {"add", "archive", "unarchive"} =>
       /\ request[r].city \in CityIds /\ Exists(request[r].city)
       /\ \A s \in request[r].owned : owner[s] = request[r].city
  /\ request[r].op \in {"update", "retire"} => request[r].target \in Sources

\* What requests under way rely on.
RequestsOK ==
  /\ \A r \in Requests : CreatingOK(r) /\ ServingOK(r)
  /\ ReservedApart

IInv == TypeOK /\ RequestsOK /\ SlugsUnique /\ NoBareCity

-----------------------------------------------------------------------------
LEMMA IdleRequest == Idle \in Request /\ Idle.op = "idle"
BY CitiesAssumption DEF Idle, Request, Blank, Source

LEMMA InitIInv == Init => IInv
<1> SUFFICES ASSUME Init PROVE IInv
  OBVIOUS
<1>1. TypeOK
  BY IdleRequest DEF Init, TypeOK, Blank, Source
<1>2. RequestsOK
  BY IdleRequest DEF Init, RequestsOK, CreatingOK, ServingOK, ReservedApart
<1>3. SlugsUnique /\ NoBareCity
  BY DEF Init, SlugsUnique, NoBareCity, Exists
<1>4. QED
  BY <1>1, <1>2, <1>3 DEF IInv

\* A request that ends leaves the others as they are, and has nothing to keep.
LEMMA Finished ==
  ASSUME TypeOK, NEW r \in Requests, Finish(r)
  PROVE  /\ request' \in [Requests -> Request]
         /\ request'[r].op = "idle"
         /\ \A q \in Requests \ {r} : request'[q] = request[q]
BY IdleRequest DEF TypeOK, Finish

\* Nothing but a new city or a new feed, and nothing reserved elsewhere taken: the
\* other requests keep what they have.
LEMMA OthersKeep ==
  ASSUME IInv, NEW r \in Requests,
         \A q \in Requests \ {r} : request'[q] = request[q],
         slug' = slug, \A s \in Sources : owner[s] # None => owner'[s] = owner[s]
  PROVE  \A q \in Requests \ {r} : CreatingOK(q)' /\ ServingOK(q)'
<1> TAKE q \in Requests \ {r}
<1>1. request'[q] = request[q] /\ CreatingOK(q) /\ ServingOK(q)
  BY DEF IInv, RequestsOK
<1>2. CreatingOK(q)'
  BY <1>1 DEF CreatingOK, Exists
<1>3. request[q] \in Request
  BY DEF IInv, TypeOK
<1>4. request[q].owned \subseteq Sources
  BY <1>3 DEF Request
<1>5. ServingOK(q)'
  BY <1>1, <1>4, CitiesAssumption DEF ServingOK, Exists
<1>6. QED
  BY <1>2, <1>5

\* A request of an existing city or feed begins.
LEMMA Begins ==
  ASSUME IInv, NEW r \in Requests, NEW req \in Request,
         request' = [request EXCEPT ![r] = req],
         req.op = "create" => req.slug \in Slugs /\ req.count >= 1 /\ req.city = None,
         req.op \in {"add", "archive", "unarchive"} =>
           /\ req.city \in CityIds /\ Exists(req.city)
           /\ \A s \in req.owned : owner[s] = req.city,
         req.op \in {"update", "retire"} => req.target \in Sources,
         UNCHANGED <<slug, stamped, owner, source>>
  PROVE  IInv'
<1>1. request'[r] = req /\ \A q \in Requests \ {r} : request'[q] = request[q]
  BY DEF IInv, TypeOK
<1>2. TypeOK'
  BY DEF IInv, TypeOK
<1>3. \A q \in Requests \ {r} : CreatingOK(q)' /\ ServingOK(q)'
  BY <1>1, OthersKeep
<1>4. CreatingOK(r)' /\ ServingOK(r)'
  BY <1>1 DEF CreatingOK, ServingOK, Exists
<1>5. ReservedApart'
  BY <1>1 DEF IInv, RequestsOK, ReservedApart
<1>6. SlugsUnique' /\ NoBareCity'
  BY DEF IInv, SlugsUnique, NoBareCity, Exists, Of
<1>7. QED
  BY <1>2, <1>3, <1>4, <1>5, <1>6 DEF IInv, RequestsOK

\* A request ends that touched no slug and moved no feed from its city.
LEMMA Ends ==
  ASSUME IInv, NEW r \in Requests, Finish(r), slug' = slug,
         stamped' \in [CityIds -> BOOLEAN], source' \in [Sources -> Source],
         owner' \in [Sources -> CityIds \cup {None}],
         \A s \in Sources : owner[s] # None => owner'[s] = owner[s]
  PROVE  IInv'
<1>1. /\ request' \in [Requests -> Request] /\ request'[r].op = "idle"
      /\ \A q \in Requests \ {r} : request'[q] = request[q]
  BY Finished DEF IInv
<1>2. TypeOK'
  BY <1>1 DEF IInv, TypeOK
<1>3. \A q \in Requests \ {r} : CreatingOK(q)' /\ ServingOK(q)'
  BY <1>1, OthersKeep
<1>4. CreatingOK(r)' /\ ServingOK(r)'
  BY <1>1 DEF CreatingOK, ServingOK
<1>5. ReservedApart'
  BY <1>1 DEF IInv, RequestsOK, ReservedApart
<1>6. SlugsUnique'
  BY DEF IInv, SlugsUnique, Exists
<1>7. NoBareCity'
  <2> SUFFICES ASSUME NEW c \in CityIds, Exists(c)' PROVE Of(c)' # {}
    BY DEF NoBareCity
  <2>1. PICK s \in Sources : owner[s] = c
    BY DEF IInv, NoBareCity, Exists, Of
  <2>2. owner'[s] = c
    BY <2>1, CitiesAssumption
  <2>3. QED
    BY <2>2 DEF Of
<1>8. QED
  BY <1>2, <1>3, <1>4, <1>5, <1>6, <1>7 DEF IInv, RequestsOK

-----------------------------------------------------------------------------
LEMMA CreateBegins ==
  ASSUME IInv, NEW r \in Requests, NEW name \in Names, NEW count \in 1..(Cap + 1),
         BeginCreate(r, name, count)
  PROVE  IInv'
<1> DEFINE req == [Idle EXCEPT !.op = "create", !.slug = SlugOf[name], !.count = count]
<1>1. count \in 1..Cap
  BY CitiesAssumption DEF BeginCreate, Fits
<1>2. SlugOf[name] \in Slugs /\ count \in 0..Cap
  BY <1>1, CitiesAssumption DEF Slugs
<1>3. /\ req \in Request /\ req.op = "create" /\ req.slug \in Slugs
      /\ req.count >= 1 /\ req.city = None
  <2>1. req \in Request
    BY <1>2, IdleRequest DEF Request
  <2>2. req.op = "create" /\ req.slug = SlugOf[name] /\ req.count = count /\ req.city = None
    BY DEF Idle
  <2>3. QED
    BY <1>1, <1>2, <2>1, <2>2
<1>4. request' = [request EXCEPT ![r] = req] /\ UNCHANGED <<slug, stamped, owner, source>>
  BY DEF BeginCreate
<1> HIDE DEF req
<1>5. QED
  BY <1>3, <1>4, Begins

LEMMA LoadedType ==
  ASSUME TypeOK, NEW c \in CityIds, NEW op \in {"add", "archive", "unarchive"}
  PROVE  /\ Loaded(op, c) \in Request /\ Loaded(op, c).op = op
         /\ Loaded(op, c).city = c /\ Loaded(op, c).owned = Of(c)
<1>1. Of(c) \in SUBSET Sources /\ stamped[c] \in BOOLEAN /\ source \in [Sources -> Source]
  BY DEF TypeOK, Of
<1>2. Loaded(op, c) \in Request
  BY <1>1, IdleRequest DEF Loaded, Request
<1>3. Loaded(op, c).op = op /\ Loaded(op, c).city = c /\ Loaded(op, c).owned = Of(c)
  BY DEF Loaded, Idle
<1>4. QED
  BY <1>2, <1>3

LEMMA CityBegins ==
  ASSUME IInv, NEW r \in Requests, NEW c \in CityIds,
         NEW op \in {"add", "archive", "unarchive"}, Exists(c),
         request' = [request EXCEPT ![r] = Loaded(op, c)],
         UNCHANGED <<slug, stamped, owner, source>>
  PROVE  IInv'
<1> DEFINE req == Loaded(op, c)
<1>1. /\ req \in Request /\ req.op = op /\ req.city = c
      /\ \A s \in req.owned : owner[s] = req.city
  BY LoadedType DEF IInv, Of
<1>2. request' = [request EXCEPT ![r] = req]
  OBVIOUS
<1> HIDE DEF req
<1>3. QED
  BY <1>1, <1>2, Begins

LEMMA SourceBegins ==
  ASSUME IInv, NEW r \in Requests, NEW s \in Sources, NEW op \in {"update", "retire"},
         NEW enabled \in BOOLEAN, BeginSource(r, s, op, enabled)
  PROVE  IInv'
<1> DEFINE req == [Idle EXCEPT !.op = op, !.target = s, !.enabled = enabled, !.rows = source]
<1>1. req \in Request /\ req.op = op /\ req.target = s
  <2>1. source \in [Sources -> Source]
    BY DEF IInv, TypeOK
  <2>2. req \in Request
    BY <2>1, IdleRequest DEF Request
  <2>3. req.op = op /\ req.target = s
    BY DEF Idle
  <2>4. QED
    BY <2>2, <2>3
<1>2. request' = [request EXCEPT ![r] = req] /\ UNCHANGED <<slug, stamped, owner, source>>
  BY DEF BeginSource
<1> HIDE DEF req
<1>3. QED
  BY <1>1, <1>2, Begins

\* The flush reserves an id and a slug: the unique index lets no two requests do so.
LEMMA CreateFlushes ==
  ASSUME IInv, NEW r \in Requests, NEW c \in CityIds, FlushCreate(r, c)
  PROVE  IInv'
<1>1. /\ request[r].op = "create" /\ request[r].city = None /\ SlugFree(r) /\ ~Exists(c)
      /\ \A q \in Requests : request[q].city # c
      /\ UNCHANGED <<slug, stamped, owner, source>>
  BY DEF FlushCreate, Reserved
<1>2. request[r] \in Request /\ request' = [request EXCEPT ![r].city = c]
  BY DEF IInv, TypeOK, FlushCreate
<1>3. /\ request'[r] = [request[r] EXCEPT !.city = c]
      /\ \A q \in Requests \ {r} : request'[q] = request[q]
  BY <1>2 DEF IInv, TypeOK
<1>4. /\ request'[r] \in Request /\ request'[r].op = "create" /\ request'[r].city = c
      /\ request'[r].slug = request[r].slug /\ request'[r].count = request[r].count
  BY <1>1, <1>2, <1>3 DEF Request
<1>5. TypeOK'
  BY <1>1, <1>2, <1>3, <1>4 DEF IInv, TypeOK
<1>6. \A q \in Requests \ {r} : CreatingOK(q)' /\ ServingOK(q)'
  BY <1>1, <1>3, OthersKeep
<1>7. CreatingOK(r)' /\ ServingOK(r)'
  BY <1>1, <1>4 DEF IInv, RequestsOK, CreatingOK, ServingOK, Exists, SlugFree
<1>8. ReservedApart'
  <2>1. \A q \in Requests \ {r} : request[q].op = "create" /\ request[q].city # None =>
          request[q].city # c /\ request[q].slug # request[r].slug
    BY <1>1 DEF SlugFree
  <2>2. \A p, q \in Requests \ {r} :
          /\ p # q
          /\ request[p].op = "create" /\ request[p].city # None
          /\ request[q].op = "create" /\ request[q].city # None
          => request[p].city # request[q].city /\ request[p].slug # request[q].slug
    BY DEF IInv, RequestsOK, ReservedApart
  <2> SUFFICES ASSUME NEW p \in Requests, NEW q \in Requests, p # q,
                      request'[p].op = "create", request'[p].city # None,
                      request'[q].op = "create", request'[q].city # None
               PROVE  /\ request'[p].city # request'[q].city
                      /\ request'[p].slug # request'[q].slug
    BY DEF ReservedApart
  <2>3. CASE p = r
    BY <1>3, <1>4, <2>1, <2>3
  <2>4. CASE q = r
    BY <1>3, <1>4, <2>1, <2>4
  <2>5. CASE p # r /\ q # r
    BY <1>3, <2>2, <2>5
  <2>6. QED
    BY <2>3, <2>4, <2>5
<1>9. SlugsUnique' /\ NoBareCity'
  BY <1>1 DEF IInv, SlugsUnique, NoBareCity, Exists, Of
<1>10. QED
  BY <1>5, <1>6, <1>7, <1>8, <1>9 DEF IInv, RequestsOK

\* The city appears with its slug and its feeds.
LEMMA CreateCommits ==
  ASSUME IInv, NEW r \in Requests, CommitCreate(r)
  PROVE  IInv'
<1> DEFINE c == request[r].city
<1>1. request[r].op = "create" /\ c # None /\ Finish(r) /\ UNCHANGED <<stamped, source>>
  BY DEF CommitCreate
<1>2. request[r] \in Request
  BY DEF IInv, TypeOK
<1>3. c \in CityIds /\ request[r].slug \in Slugs /\ request[r].count >= 1
  BY <1>1, <1>2 DEF Request, IInv, RequestsOK, CreatingOK
<1>4. ~Exists(c) /\ \A d \in CityIds : slug[d] # request[r].slug
  BY <1>1 DEF IInv, RequestsOK, CreatingOK
<1>5. slug' = [slug EXCEPT ![c] = request[r].slug]
  BY DEF CommitCreate
<1>6. PICK new \in SUBSET Unused :
        /\ Cardinality(new) = request[r].count
        /\ owner' = [s \in Sources |-> IF s \in new THEN c ELSE owner[s]]
  BY DEF CommitCreate
<1>7. new # {}
  BY <1>3, <1>6, FS_EmptySet
<1>8. /\ request' \in [Requests -> Request] /\ request'[r].op = "idle"
      /\ \A q \in Requests \ {r} : request'[q] = request[q]
  BY <1>1, Finished DEF IInv
<1> HIDE DEF c
<1>9. /\ slug'[c] = request[r].slug /\ slug'[c] # None
      /\ \A d \in CityIds \ {c} : slug'[d] = slug[d]
  BY <1>3, <1>5, CitiesAssumption DEF IInv, TypeOK
<1>10. \A s \in Sources : owner[s] # None => owner'[s] = owner[s]
  BY <1>6 DEF Unused
<1>11. TypeOK'
  BY <1>1, <1>3, <1>5, <1>6, <1>8 DEF IInv, TypeOK
<1>12. \A q \in Requests \ {r} : CreatingOK(q)'
  <2> SUFFICES ASSUME NEW q \in Requests \ {r}, request[q].op = "create"
               PROVE  CreatingOK(q)'
    BY <1>8 DEF CreatingOK
  <2>1. CreatingOK(q) /\ request'[q] = request[q]
    BY <1>8 DEF IInv, RequestsOK
  <2>2. CASE request[q].city = None
    BY <2>1, <2>2 DEF CreatingOK
  <2>3. CASE request[q].city # None
    <3>1. request[q].city # c /\ request[q].slug # request[r].slug
      BY <1>1, <2>3 DEF IInv, RequestsOK, ReservedApart, c
    <3>2. request[q].city \in CityIds
      BY <2>3 DEF IInv, TypeOK, Request
    <3>3. QED
      BY <1>9, <2>1, <3>1, <3>2 DEF CreatingOK, Exists
  <2>4. QED
    BY <2>2, <2>3
<1>13. \A q \in Requests \ {r} : ServingOK(q)'
  <2> TAKE q \in Requests \ {r}
  <2>1. ServingOK(q) /\ request'[q] = request[q] /\ request[q] \in Request
    BY <1>8 DEF IInv, TypeOK, RequestsOK
  <2>2. request[q].owned \subseteq Sources
    BY <2>1 DEF Request
  <2>3. \A d \in CityIds : Exists(d) => Exists(d)'
    BY <1>9 DEF Exists
  <2>4. QED
    BY <1>10, <2>1, <2>2, <2>3, CitiesAssumption DEF ServingOK
<1>14. CreatingOK(r)' /\ ServingOK(r)'
  BY <1>8 DEF CreatingOK, ServingOK
<1>15. ReservedApart'
  BY <1>8 DEF IInv, RequestsOK, ReservedApart
<1>16. SlugsUnique'
  BY <1>3, <1>4, <1>9 DEF IInv, SlugsUnique, Exists
<1>17. NoBareCity'
  <2> SUFFICES ASSUME NEW d \in CityIds, Exists(d)' PROVE Of(d)' # {}
    BY DEF NoBareCity
  <2>1. CASE d = c
    <3>1. PICK s \in new : s \in Sources
      BY <1>7 DEF Unused
    <3>2. QED
      BY <1>6, <2>1, <3>1 DEF Of
  <2>2. CASE d # c
    <3>1. PICK s \in Sources : owner[s] = d
      BY <1>9, <2>2 DEF IInv, NoBareCity, Exists, Of
    <3>2. QED
      BY <1>10, <3>1, CitiesAssumption DEF Of
  <2>3. QED
    BY <2>1, <2>2
<1>18. QED
  BY <1>11, <1>12, <1>13, <1>14, <1>15, <1>16, <1>17 DEF IInv, RequestsOK

LEMMA AddCommits == ASSUME IInv, NEW r \in Requests, CommitAdd(r) PROVE IInv'
<1>1. PICK s \in Unused : owner' = [owner EXCEPT ![s] = request[r].city]
  BY DEF CommitAdd
<1>2. request[r].city \in CityIds \cup {None}
  BY DEF IInv, TypeOK, Request
<1>3. \A t \in Sources : owner[t] # None => owner'[t] = owner[t]
  BY <1>1 DEF Unused, IInv, TypeOK
<1>4. owner' \in [Sources -> CityIds \cup {None}]
  BY <1>1, <1>2 DEF Unused, IInv, TypeOK
<1>5. QED
  BY <1>3, <1>4, Ends DEF CommitAdd, IInv, TypeOK

LEMMA CascadeCommits ==
  ASSUME IInv, NEW r \in Requests, CommitArchive(r) \/ CommitUnarchive(r)
  PROVE  IInv'
<1>1. stamped' \in [CityIds -> BOOLEAN]
  BY DEF IInv, TypeOK, CommitArchive, CommitUnarchive, RequestsOK, ServingOK
<1>2. source' \in [Sources -> Source]
  <2>1. \A s \in Sources, b \in BOOLEAN :
          source[s] \in Source /\ [source[s] EXCEPT !.archived = b] \in Source
    BY DEF IInv, TypeOK, Source
  <2>2. CASE CommitArchive(r)
    BY <2>1, <2>2 DEF CommitArchive
  <2>3. CASE CommitUnarchive(r)
    BY <2>1, <2>3 DEF CommitUnarchive
  <2>4. QED
    BY <2>2, <2>3
<1>3. Finish(r) /\ slug' = slug /\ owner' = owner
  BY DEF CommitArchive, CommitUnarchive
<1>4. QED
  BY <1>1, <1>2, <1>3, Ends DEF IInv, TypeOK

LEMMA SourceCommits ==
  ASSUME IInv, NEW r \in Requests, CommitUpdate(r) \/ CommitRetire(r)
  PROVE  IInv'
<1>1. request[r].target \in Sources /\ request[r] \in Request
  BY DEF IInv, TypeOK, RequestsOK, ServingOK, CommitUpdate, CommitRetire
<1>2. Patched(r, request[r].target) \in Source
  <2>1. source[request[r].target] \in Source /\ request[r].enabled \in BOOLEAN
    BY <1>1 DEF IInv, TypeOK, Request
  <2>2. source[request[r].target].enabled \in BOOLEAN
    BY <2>1 DEF Source
  <2>3. \A b \in BOOLEAN : [source[request[r].target] EXCEPT !.enabled = b] \in Source
    BY <2>1 DEF Source
  <2>4. QED
    BY <2>1, <2>2, <2>3 DEF Patched
<1>3. source' \in [Sources -> Source]
  <2>1. CASE CommitUpdate(r)
    BY <1>2, <2>1 DEF IInv, TypeOK, CommitUpdate
  <2>2. CASE CommitRetire(r)
    <3>1. source[request[r].target] \in Source
      BY <1>1 DEF IInv, TypeOK
    <3>2. [source[request[r].target] EXCEPT !.archived = TRUE] \in Source
      BY <3>1 DEF Source
    <3>3. QED
      BY <2>2, <3>2 DEF IInv, TypeOK, CommitRetire
  <2>3. QED
    BY <2>1, <2>2
<1>4. Finish(r) /\ UNCHANGED <<slug, stamped, owner>>
  BY DEF CommitUpdate, CommitRetire
<1>5. QED
  BY <1>3, <1>4, Ends DEF IInv, TypeOK

LEMMA NextIInv == IInv /\ [Next]_vars => IInv'
<1> SUFFICES ASSUME IInv, [Next]_vars PROVE IInv'
  OBVIOUS
<1>1. CASE UNCHANGED vars
  BY <1>1 DEF IInv, TypeOK, RequestsOK, CreatingOK, ServingOK, ReservedApart,
     SlugsUnique, NoBareCity, Exists, Of, vars
<1>2. CASE Next
  <2> PICK r \in Requests :
        \/ Begin(r)
        \/ \E c \in CityIds : FlushCreate(r, c)
        \/ CommitCreate(r) \/ CommitAdd(r)
        \/ CommitArchive(r) \/ CommitUnarchive(r)
        \/ CommitUpdate(r) \/ CommitRetire(r)
        \/ Fail(r)
    BY <1>2 DEF Next
  <2>1. CASE \E name \in Names, count \in 1..(Cap + 1) : BeginCreate(r, name, count)
    BY <2>1, CreateBegins
  <2>2. CASE \E c \in CityIds : BeginAdd(r, c)
    BY <2>2, CityBegins DEF BeginAdd
  <2>3. CASE \E c \in CityIds, op \in {"archive", "unarchive"} : BeginCascade(r, c, op)
    BY <2>3, CityBegins DEF BeginCascade
  <2>4. CASE \E s \in Sources, op \in {"update", "retire"}, enabled \in BOOLEAN :
               BeginSource(r, s, op, enabled)
    BY <2>4, SourceBegins
  <2>5. CASE \E c \in CityIds : FlushCreate(r, c)
    BY <2>5, CreateFlushes
  <2>6. CASE CommitCreate(r)
    BY <2>6, CreateCommits
  <2>7. CASE CommitAdd(r)
    BY <2>7, AddCommits
  <2>8. CASE CommitArchive(r) \/ CommitUnarchive(r)
    BY <2>8, CascadeCommits
  <2>9. CASE CommitUpdate(r) \/ CommitRetire(r)
    BY <2>9, SourceCommits
  <2>10. CASE Fail(r)
    BY <2>10, Ends DEF Fail, IInv, TypeOK
  <2>11. QED
    BY <2>1, <2>2, <2>3, <2>4, <2>5, <2>6, <2>7, <2>8, <2>9, <2>10 DEF Begin
<1>3. QED
  BY <1>1, <1>2

LEMMA Invariant == Spec => []IInv
BY InitIInv, NextIInv, PTL DEF Spec

-----------------------------------------------------------------------------
\* Types of the tables and of every request under way (cities.py, sources.py).
THEOREM TypeCorrect == Spec => []TypeOK
<1>1. IInv => TypeOK
  BY DEF IInv
<1>2. QED
  BY <1>1, Invariant, PTL

\* However many onboardings overlap, no two cities share a slug (cities.py:70-92).
THEOREM SlugsUniqueHolds == Spec => []SlugsUnique
<1>1. IInv => SlugsUnique
  BY DEF IInv
<1>2. QED
  BY <1>1, Invariant, PTL

\* However many overlap and wherever they fail, no city is without feeds
\* (cities.py:86-92).
THEOREM NoBareCityHolds == Spec => []NoBareCity
<1>1. IInv => NoBareCity
  BY DEF IInv
<1>2. QED
  BY <1>1, Invariant, PTL

\* Whatever overlaps, only an unarchive of its own city revives a retired feed
\* (cities.py:121-141, sources.py:43-58).
THEOREM RevivedByUnarchiveHolds == Spec => RevivedByUnarchive
<1> DEFINE Revives ==
      \A s \in Sources : source[s].archived /\ ~source'[s].archived =>
        \E r \in Requests : CommitUnarchive(r) /\ owner[s] = request[r].city
<1>1. IInv /\ [Next]_vars => [Revives]_vars
  <2> SUFFICES ASSUME IInv, Next, NEW s \in Sources,
                      source[s].archived, ~source'[s].archived
               PROVE  \E r \in Requests :
                        CommitUnarchive(r) /\ owner[s] = request[r].city
    OBVIOUS
  <2>1. source[s] \in Source /\ source \in [Sources -> Source]
    BY DEF IInv, TypeOK
  <2>2. source' # source
    OBVIOUS
  <2>3. PICK r \in Requests :
          \/ CommitArchive(r) \/ CommitUnarchive(r)
          \/ CommitUpdate(r) \/ CommitRetire(r)
    BY <2>2 DEF Next, Begin, BeginCreate, BeginAdd, BeginCascade, BeginSource,
       FlushCreate, CommitCreate, CommitAdd, Fail
  <2>4. ServingOK(r)
    BY DEF IInv, RequestsOK
  <2>5. ~CommitArchive(r)
    BY <2>1 DEF CommitArchive, Source
  <2>6. ~CommitUpdate(r)
    <3> SUFFICES ASSUME CommitUpdate(r) PROVE FALSE
      OBVIOUS
    <3>1. request[r].target \in Sources
      BY <2>4 DEF CommitUpdate, ServingOK
    <3>2. Patched(r, request[r].target).archived = source[request[r].target].archived
      BY <2>1, <3>1 DEF Patched, Source
    <3>3. QED
      BY <2>1, <3>1, <3>2 DEF CommitUpdate
  <2>7. ~CommitRetire(r)
    <3> SUFFICES ASSUME CommitRetire(r) PROVE FALSE
      OBVIOUS
    <3>1. request[r].target \in Sources
      BY <2>4 DEF CommitRetire, ServingOK
    <3>2. QED
      BY <2>1, <3>1 DEF CommitRetire, Source
  <2>8. CommitUnarchive(r) /\ s \in request[r].owned
    BY <2>3, <2>5, <2>6, <2>7 DEF CommitUnarchive, Cascade
  <2>9. QED
    BY <2>4, <2>8 DEF CommitUnarchive, ServingOK
<1>2. QED
  BY <1>1, Invariant, PTL DEF Spec, RevivedByUnarchive
=============================================================================
