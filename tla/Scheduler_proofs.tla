-------------------------- MODULE Scheduler_proofs --------------------------
(***************************************************************************)
(* Theorems about Scheduler, for every value of its constants.             *)
(***************************************************************************)
EXTENDS Scheduler, TLAPS

\* A flush of three rows is a row.
LEMMA FlushRow ==
  ASSUME NEW current \in Row, NEW loaded \in Row, NEW new \in Row
  PROVE  Flush(current, loaded, new) \in Row
<1> DEFINE F == Flush(current, loaded, new)
<1>1. DOMAIN current = {"url", "interval", "enabled", "archived", "tag",
                        "maxAge", "failures", "error"}
  BY DEF Row
<1>2. F = [url |-> F.url, interval |-> F.interval, enabled |-> F.enabled,
           archived |-> F.archived, tag |-> F.tag, maxAge |-> F.maxAge,
           failures |-> F.failures, error |-> F.error]
  BY <1>1 DEF Flush
<1>3. /\ F.url \in Urls /\ F.interval \in Nat
      /\ F.enabled \in BOOLEAN /\ F.archived \in BOOLEAN
      /\ F.tag \in 0..MaxVersion /\ F.maxAge \in Nat
      /\ F.failures \in 0..MaxFailures /\ F.error \in ErrorKinds
  BY <1>1 DEF Flush, Row
<1> QED
  BY <1>2, <1>3 DEF Row

\* The placeholders of a job without targets are well-formed.
LEMMA BlankRecords == NoAttempt \in Attempt /\ NoRow \in Row
<1>1. (CHOOSE u \in Urls : TRUE) \in Urls
  BY FeedsAssumption
<1> QED
  BY <1>1, BoundsAssumption
     DEF NoAttempt, NoRow, Attempt, Row, ErrorKinds, Versions

\* Writing one column keeps a row a row.
LEMMA RowUpdates ==
  ASSUME NEW row \in Row
  PROVE
    /\ \A v \in Urls : [row EXCEPT !.url = v] \in Row
    /\ \A v \in Nat : [row EXCEPT !.interval = v] \in Row
    /\ \A v \in BOOLEAN : [row EXCEPT !.enabled = v] \in Row
    /\ \A v \in BOOLEAN : [row EXCEPT !.archived = v] \in Row
    /\ \A v \in 0..MaxVersion : [row EXCEPT !.tag = v] \in Row
    /\ \A v \in Nat : [row EXCEPT !.maxAge = v] \in Row
    /\ \A v \in 0..MaxFailures : [row EXCEPT !.failures = v] \in Row
    /\ \A v \in ErrorKinds : [row EXCEPT !.error = v] \in Row
<1>1. ASSUME NEW v \in Urls PROVE [row EXCEPT !.url = v] \in Row
  BY DEF Row
<1>2. ASSUME NEW v \in Nat PROVE [row EXCEPT !.interval = v] \in Row
  BY DEF Row
<1>3. ASSUME NEW v \in BOOLEAN PROVE [row EXCEPT !.enabled = v] \in Row
  BY DEF Row
<1>4. ASSUME NEW v \in BOOLEAN PROVE [row EXCEPT !.archived = v] \in Row
  BY DEF Row
<1>5. ASSUME NEW v \in 0..MaxVersion PROVE [row EXCEPT !.tag = v] \in Row
  BY DEF Row
<1>6. ASSUME NEW v \in Nat PROVE [row EXCEPT !.maxAge = v] \in Row
  BY DEF Row
<1>7. ASSUME NEW v \in 0..MaxFailures PROVE [row EXCEPT !.failures = v] \in Row
  BY DEF Row
<1>8. ASSUME NEW v \in ErrorKinds PROVE [row EXCEPT !.error = v] \in Row
  BY DEF Row
<1> QED
  BY <1>1, <1>2, <1>3, <1>4, <1>5, <1>6, <1>7, <1>8

\* Changing the stage or the age of an attempt keeps it an attempt.
LEMMA AttemptUpdates ==
  ASSUME NEW a \in Attempt
  PROVE
    /\ \A v \in {"none", "target", "open", "error", "junk", "same", "body"} :
          [a EXCEPT !.st = v] \in Attempt
    /\ \A v \in 0..MaxAge : [a EXCEPT !.age = v] \in Attempt
<1>1. ASSUME NEW v \in {"none", "target", "open", "error", "junk", "same", "body"}
      PROVE  [a EXCEPT !.st = v] \in Attempt
  BY DEF Attempt
<1>2. ASSUME NEW v \in 0..MaxAge PROVE [a EXCEPT !.age = v] \in Attempt
  BY DEF Attempt
<1> QED
  BY <1>1, <1>2

\* record_fetch_failure and _record_fetch_success make rows of rows ...
LEMMA FailureRow ==
  ASSUME NEW row \in Row, NEW kind \in ErrorKinds
  PROVE  RecordFailure(row, kind) \in Row
<1> DEFINE n == Smaller(row.failures + 1, MaxFailures)
           row1 == [row EXCEPT !.error = kind]
<1>1. n \in 0..MaxFailures
  BY BoundsAssumption DEF Row, Smaller
<1>2. row1 \in Row
  BY RowUpdates
<1>3. [row1 EXCEPT !.failures = n] \in Row
  <2> HIDE DEF n, row1
  <2> QED
    BY <1>1, <1>2, RowUpdates
<1>4. RecordFailure(row, kind) = [row1 EXCEPT !.failures = n]
  BY DEF RecordFailure, Row
<1> QED
  BY <1>3, <1>4

\* ... with any validator and any max-age an attempt may carry ...
LEMMA SuccessRow ==
  ASSUME NEW row \in Row, NEW tag \in 0..MaxVersion, NEW maxAge \in Nat
  PROVE  RecordSuccess(row, tag, maxAge) \in Row
<1> DEFINE t == IF tag # 0 THEN tag ELSE row.tag
           row1 == [row EXCEPT !.tag = t]
           row2 == [row1 EXCEPT !.maxAge = maxAge]
           row3 == [row2 EXCEPT !.failures = 0]
<1>1. t \in 0..MaxVersion
  BY DEF Row
<1>2. row1 \in Row
  BY <1>1, RowUpdates
<1>3. row2 \in Row
  <2> HIDE DEF row1
  <2> QED
    BY <1>2, RowUpdates
<1>4. row3 \in Row
  <2> HIDE DEF row2
  <2>1. 0 \in 0..MaxFailures
    BY BoundsAssumption
  <2> QED
    BY <1>3, <2>1, RowUpdates
<1>5. [row3 EXCEPT !.error = "none"] \in Row
  <2> HIDE DEF row3
  <2> QED
    BY <1>4, RowUpdates DEF ErrorKinds
<1> QED
  BY <1>5 DEF RecordSuccess

\* ... and so does whichever of them an attempt calls for.
LEMMA RecordedRow ==
  ASSUME NEW row \in Row, NEW a \in Attempt
  PROVE  Recorded(row, a) \in Row
<1>1. RecordFailure(row, "fetch") \in Row /\ RecordFailure(row, "parse") \in Row
  BY FailureRow DEF ErrorKinds
<1>2. RecordSuccess(row, a.tag, a.maxAge) \in Row
  <2>1. a.tag \in 0..MaxVersion /\ a.maxAge \in Nat
    BY DEF Attempt
  <2> QED
    BY <2>1, SuccessRow
<1> QED
  BY <1>1, <1>2 DEF Recorded

\* A source is created well-formed.
LEMMA NewRowTyped ==
  ASSUME NEW s \in Sources
  PROVE  NewRow(s) \in Row
<1>1. (CHOOSE u \in UrlsOf[s] : TRUE) \in Urls
  BY FeedsAssumption
<1>2. (CHOOSE i \in Intervals[s] : TRUE) \in Nat
  BY FeedsAssumption
<1> QED
  BY <1>1, <1>2, BoundsAssumption DEF NewRow, Row, ErrorKinds

\* What a load hands to the fetches is well-formed, with targets ...
LEMMA TargetsTyped ==
  ASSUME TablesOK, NEW live
  PROVE  Targets(live) \in [Sources -> Attempt]
<1>1. ASSUME NEW s \in Sources PROVE Target(s) \in Attempt
  BY BlankRecords DEF Target, TablesOK, Attempt, Row
<1> QED
  BY <1>1, BlankRecords DEF Targets

\* ... or without.
LEMMA NoTargetsTyped == Targets({}) \in [Sources -> Attempt]
  BY BlankRecords DEF Targets

\* parse_and_persist inserts stories.
LEMMA FreshStories ==
  ASSUME JobsOK, NEW j \in Jobs, NEW a \in Attempt
  PROVE  Fresh(j, a) \subseteq Stories
  BY FeedsAssumption DEF Fresh, Attempt

\* The variables a committed attempt touches.
LEMMA WriteRowTyped ==
  ASSUME TablesOK, JobsOK, NEW j \in Jobs, NEW s \in Sources, NEW new \in Row,
         WriteRow(j, s, new)
  PROVE  /\ source' \in [Sources -> Row]
         /\ since' \in [Sources -> 0..MaxAge]
         /\ attempt' \in [Jobs -> [Sources -> Attempt]]
         /\ held' \in [Jobs -> Row]
<1>1. Flush(source[s], held[j], new) \in Row
  BY FlushRow DEF TablesOK, JobsOK
<1>2. attempt[j][s].age \in 0..MaxAge
  BY DEF JobsOK, Attempt
<1> QED
  BY <1>1, <1>2, BlankRecords DEF WriteRow, Stamp, TablesOK, JobsOK

\* ... and those the end of a job touches.
LEMMA LeaveTyped ==
  ASSUME JobsOK, PhasesOK, NEW j \in Jobs, Leave(j)
  PROVE  JobsOK' /\ PhasesOK'
<1>1. pc' = [pc EXCEPT ![j] = "idle"] /\ work' = [work EXCEPT ![j] = None]
  BY DEF Leave
<1>2. /\ refreshing' \subseteq Cities
      /\ city' \in [Requests -> Cities \cup {None}]
      /\ \A r \in Requests : city'[r] = IF r = j THEN None ELSE city[r]
  <2>1. CASE j = Tick
    BY <2>1, NamesAssumption DEF Leave, JobsOK
  <2>2. CASE j # Tick
    BY <2>2 DEF Leave, Released, JobsOK
  <2> QED
    BY <2>1, <2>2
<1>3. attempt' \in [Jobs -> [Sources -> Attempt]]
  BY NoTargetsTyped DEF Leave, JobsOK
<1>4. seen' \in [Jobs -> SUBSET Stories]
  BY DEF Leave, SeenDropped, JobsOK
<1>5. held' \in [Jobs -> Row]
  BY BlankRecords DEF Leave, JobsOK
<1>6. JobsOK'
  BY <1>1, <1>2, <1>3, <1>4, <1>5 DEF JobsOK
<1>7. PhasesOK'
  BY <1>1, <1>2 DEF PhasesOK, JobsOK, Jobs
<1> QED
  BY <1>6, <1>7

\* The database, the origins and the budgets keep their types.
LEMMA TablesStep ==
  ASSUME TypeOK, [Next]_vars
  PROVE  TablesOK'
<1> USE DEF TypeOK
<1>1. ASSUME NEW u \in Urls, Publish(u) PROVE TablesOK'
  BY <1>1, BoundsAssumption DEF Publish, TablesOK, Versions, budgetVars
<1>2. CASE Advance
  <2>1. \A n \in 0..MaxAge : Older(n) \in 0..MaxAge
    BY BoundsAssumption DEF Older, Smaller
  <2>2. since' \in [Sources -> 0..MaxAge]
    BY <1>2, <2>1 DEF Advance, TablesOK
  <2> QED
    BY <1>2, <2>2 DEF Advance, TablesOK, budgetVars
<1>3. CASE TickLoad
  BY <1>3 DEF TickLoad, TablesOK, budgetVars, jobVars
<1>4. ASSUME NEW r \in Requests, NEW c \in Cities, RefreshStart(r, c)
      PROVE  TablesOK'
  BY <1>4 DEF RefreshStart, TablesOK, budgetVars, jobVars
<1>5. ASSUME NEW r \in Requests, RefreshLoad(r) PROVE TablesOK'
  BY <1>5 DEF RefreshLoad, TablesOK, budgetVars, jobVars
<1>6. ASSUME NEW j \in Jobs, NEW s \in Sources, FetchStart(j, s)
      PROVE  TablesOK'
  BY <1>6 DEF FetchStart, TablesOK, budgetVars, jobVars
<1>7. ASSUME NEW j \in Jobs, NEW s \in Sources, FetchFailed(j, s)
      PROVE  TablesOK'
  BY <1>7 DEF FetchFailed, TablesOK, budgetVars, jobVars
<1>8. ASSUME NEW j \in Jobs, NEW s \in Sources, FetchAnswered(j, s)
      PROVE  TablesOK'
  BY <1>8 DEF FetchAnswered, TablesOK, budgetVars, jobVars
<1>9. ASSUME NEW j \in Jobs, NEW s \in Sources, PersistGet(j, s)
      PROVE  TablesOK'
  BY <1>9 DEF PersistGet, TablesOK, budgetVars, jobVars
<1>10. ASSUME NEW j \in Jobs, PersistCommit(j) PROVE TablesOK'
  <2>1. work[j] \in Sources
    BY <1>10 DEF PersistCommit, JobsOK, PhasesOK
  <2>2. WriteRow(j, work[j], Recorded(held[j], attempt[j][work[j]]))
    BY <1>10 DEF PersistCommit
  <2>3. Recorded(held[j], attempt[j][work[j]]) \in Row
    BY <2>1, RecordedRow DEF JobsOK
  <2>4. source' \in [Sources -> Row] /\ since' \in [Sources -> 0..MaxAge]
    BY <2>1, <2>2, <2>3, WriteRowTyped
  <2>5. article' \in [Stories -> Sources \cup {None}]
    BY <1>10, <2>1 DEF PersistCommit, Insert, TablesOK
  <2> QED
    BY <1>10, <2>4, <2>5 DEF PersistCommit, TablesOK, budgetVars
<1>11. ASSUME NEW j \in Jobs, PersistRollback(j) PROVE TablesOK'
  <2>1. faults' \in 0..MaxFaults
    <3>1. faults' = faults \/ (faults < MaxFaults /\ faults' = faults + 1)
      BY <1>11 DEF PersistRollback
    <3> QED
      BY <3>1, BoundsAssumption DEF TablesOK
  <2> QED
    BY <1>11, <2>1 DEF PersistRollback, TablesOK
<1>12. ASSUME NEW j \in Jobs, RecoverCommit(j) PROVE TablesOK'
  <2>1. work[j] \in Sources
    BY <1>12 DEF RecoverCommit, JobsOK, PhasesOK
  <2>2. WriteRow(j, work[j], RecordFailure(held[j], "persist"))
    BY <1>12 DEF RecoverCommit
  <2>3. RecordFailure(held[j], "persist") \in Row
    BY FailureRow DEF ErrorKinds, JobsOK
  <2>4. source' \in [Sources -> Row] /\ since' \in [Sources -> 0..MaxAge]
    BY <2>1, <2>2, <2>3, WriteRowTyped
  <2> QED
    BY <1>12, <2>4 DEF RecoverCommit, TablesOK, budgetVars
<1>13. ASSUME NEW j \in Jobs, JobEnd(j) PROVE TablesOK'
  BY <1>13 DEF JobEnd, TablesOK, budgetVars, jobVars
<1>14. ASSUME NEW j \in Jobs, JobAbort(j) PROVE TablesOK'
  BY <1>14, BoundsAssumption DEF JobAbort, TablesOK
<1>15. CASE Crash
  BY <1>15, BoundsAssumption DEF Crash, TablesOK
<1>16. ASSUME NEW s \in Sources, UpdateSource(s) PROVE TablesOK'
  <2>1. PICK url \in Urls, interval \in Nat, enabled \in BOOLEAN :
          source' = [source EXCEPT ![s].url = url, ![s].interval = interval,
                                   ![s].enabled = enabled]
    BY <1>16, FeedsAssumption DEF UpdateSource
  <2> DEFINE row1 == [source[s] EXCEPT !.url = url]
             row2 == [row1 EXCEPT !.interval = interval]
  <2>2. row1 \in Row
    BY RowUpdates DEF TablesOK
  <2>3. row2 \in Row
    <3> HIDE DEF row1
    <3> QED
      BY <2>2, RowUpdates
  <2>4. [row2 EXCEPT !.enabled = enabled] \in Row
    <3> HIDE DEF row2
    <3> QED
      BY <2>3, RowUpdates
  <2>5. source' = [source EXCEPT ![s] = [row2 EXCEPT !.enabled = enabled]]
    BY <2>1 DEF TablesOK
  <2>6. source' \in [Sources -> Row]
    BY <2>4, <2>5 DEF TablesOK
  <2>7. edits' \in 0..MaxEdits
    BY <1>16, BoundsAssumption DEF UpdateSource, Edit, TablesOK
  <2> QED
    BY <1>16, <2>6, <2>7 DEF UpdateSource, TablesOK
<1>17. ASSUME NEW s \in Sources, ArchiveSource(s) PROVE TablesOK'
  <2>1. [source[s] EXCEPT !.archived = TRUE] \in Row
    BY RowUpdates DEF TablesOK
  <2>2. edits' \in 0..MaxEdits
    BY <1>17, BoundsAssumption DEF ArchiveSource, Edit, TablesOK
  <2> QED
    BY <1>17, <2>1, <2>2 DEF ArchiveSource, TablesOK
<1>18. ASSUME NEW s \in Sources, CheckStart(s) PROVE TablesOK'
  <2>1. source[s].error \in ErrorKinds
    BY DEF TablesOK, Row
  <2>2. edits' \in 0..MaxEdits
    BY <1>18, BoundsAssumption DEF CheckStart, Edit, TablesOK
  <2> QED
    BY <1>18, <2>1, <2>2 DEF CheckStart, TablesOK
<1>19. ASSUME NEW s \in Sources, CheckDone(s) PROVE TablesOK'
  <2>1. PICK e \in ErrorKinds : source' = [source EXCEPT ![s].error = e]
    <3>1. PICK e \in {"none", "fetch", "parse"} :
            source' = [source EXCEPT ![s].error = IF e # probe[s] THEN e ELSE @]
      BY <1>19 DEF CheckDone
    <3>2. source[s].error \in ErrorKinds
      BY DEF TablesOK, Row
    <3> QED
      BY <3>1, <3>2 DEF ErrorKinds
  <2>2. [source[s] EXCEPT !.error = e] \in Row
    BY RowUpdates DEF TablesOK
  <2> QED
    BY <1>19, <2>1, <2>2 DEF CheckDone, TablesOK, budgetVars
<1>20. CASE UNCHANGED vars
  BY <1>20 DEF vars, budgetVars, TablesOK
<1> QED
  BY <1>1, <1>2, <1>3, <1>4, <1>5, <1>6, <1>7, <1>8, <1>9, <1>10,
     <1>11, <1>12, <1>13, <1>14, <1>15, <1>16, <1>17, <1>18, <1>19, <1>20 DEF Next, JobStep

\* The jobs' variables keep their types.
LEMMA JobsStep ==
  ASSUME TypeOK, [Next]_vars
  PROVE  JobsOK'
<1> USE DEF TypeOK
<1>1. ASSUME NEW u \in Urls, Publish(u) PROVE JobsOK'
  BY <1>1 DEF Publish, JobsOK, jobVars
<1>2. CASE Advance
  <2>1. \A n \in 0..MaxAge : Older(n) \in 0..MaxAge
    BY BoundsAssumption DEF Older, Smaller
  <2>2. \A a \in Attempt : [a EXCEPT !.age = Older(a.age)] \in Attempt
    <3>1. \A a \in Attempt : a.age \in 0..MaxAge
      BY DEF Attempt
    <3> QED
      BY <2>1, <3>1, AttemptUpdates
  <2>3. attempt' \in [Jobs -> [Sources -> Attempt]]
    BY <1>2, <2>2 DEF Advance, JobsOK
  <2> QED
    BY <1>2, <2>3 DEF Advance, JobsOK
<1>3. CASE TickLoad
  <2>1. Tick \in Jobs
    BY DEF Jobs
  <2> QED
    BY <1>3, <2>1, TargetsTyped DEF TickLoad, JobsOK
<1>4. ASSUME NEW r \in Requests, NEW c \in Cities, RefreshStart(r, c)
      PROVE  JobsOK'
  <2>1. r \in Jobs
    BY DEF Jobs
  <2> QED
    BY <1>4, <2>1 DEF RefreshStart, JobsOK
<1>5. ASSUME NEW r \in Requests, RefreshLoad(r) PROVE JobsOK'
  <2>1. r \in Jobs
    BY DEF Jobs
  <2> QED
    BY <1>5, <2>1, TargetsTyped DEF RefreshLoad, JobsOK
<1>6. ASSUME NEW j \in Jobs, NEW s \in Sources, FetchStart(j, s)
      PROVE  JobsOK'
  <2>1. [attempt[j][s] EXCEPT !.st = "open"] \in Attempt
    <3>1. attempt[j][s] \in Attempt
      BY DEF JobsOK
    <3> QED
      BY <3>1, AttemptUpdates
  <2> QED
    BY <1>6, <2>1 DEF FetchStart, JobsOK
<1>7. ASSUME NEW j \in Jobs, NEW s \in Sources, FetchFailed(j, s)
      PROVE  JobsOK'
  <2>1. PICK st \in {"error", "junk"} :
          attempt' = [attempt EXCEPT ![j][s].st = st]
    BY <1>7 DEF FetchFailed
  <2>2. [attempt[j][s] EXCEPT !.st = st] \in Attempt
    <3>1. attempt[j][s] \in Attempt
      BY DEF JobsOK
    <3> QED
      BY <3>1, AttemptUpdates
  <2> QED
    BY <1>7, <2>1, <2>2 DEF FetchFailed, JobsOK
<1>8. ASSUME NEW j \in Jobs, NEW s \in Sources, FetchAnswered(j, s)
      PROVE  JobsOK'
  <2> DEFINE a == attempt[j][s]
             b(st, tag, m) ==
               [st |-> st, url |-> a.url, tag |-> tag, ver |-> feed[a.url],
                maxAge |-> m, age |-> a.age]
  <2>1. PICK st \in {"same", "body"}, tag \in {feed[a.url], 0}, m \in MaxAges :
          attempt' = [attempt EXCEPT ![j][s] = b(st, tag, m)]
    BY <1>8 DEF FetchAnswered
  <2>2. a \in Attempt
    BY DEF JobsOK
  <2>3. feed[a.url] \in Versions /\ tag \in 0..MaxVersion /\ m \in Nat
    BY <2>2, BoundsAssumption, FeedsAssumption DEF TablesOK, Attempt, Versions
  <2>4. b(st, tag, m) \in Attempt
    BY <2>2, <2>3 DEF Attempt
  <2> QED
    BY <1>8, <2>1, <2>4 DEF FetchAnswered, JobsOK
<1>9. ASSUME NEW j \in Jobs, NEW s \in Sources, PersistGet(j, s)
      PROVE  JobsOK'
  BY <1>9 DEF PersistGet, JobsOK, TablesOK
<1>10. ASSUME NEW j \in Jobs, PersistCommit(j) PROVE JobsOK'
  <2>1. work[j] \in Sources
    BY <1>10 DEF PersistCommit, JobsOK, PhasesOK
  <2>2. WriteRow(j, work[j], Recorded(held[j], attempt[j][work[j]]))
    BY <1>10 DEF PersistCommit
  <2>3. Recorded(held[j], attempt[j][work[j]]) \in Row
    BY <2>1, RecordedRow DEF JobsOK
  <2>4. /\ attempt' \in [Jobs -> [Sources -> Attempt]]
        /\ held' \in [Jobs -> Row]
    BY <2>1, <2>2, <2>3, WriteRowTyped
  <2>5. Fresh(j, attempt[j][work[j]]) \subseteq Stories
    BY <2>1, FreshStories DEF JobsOK
  <2>6. seen' \in [Jobs -> SUBSET Stories]
    BY <1>10, <2>5 DEF PersistCommit, JobsOK
  <2> QED
    BY <1>10, <2>2, <2>4, <2>6 DEF PersistCommit, WriteRow, JobsOK
<1>11. ASSUME NEW j \in Jobs, PersistRollback(j) PROVE JobsOK'
  <2>1. work[j] \in Sources
    BY <1>11 DEF PersistRollback, JobsOK, PhasesOK
  <2>2. Fresh(j, attempt[j][work[j]]) \subseteq Stories
    BY <2>1, FreshStories DEF JobsOK
  <2>3. seen' \in [Jobs -> SUBSET Stories]
    BY <1>11, <2>2 DEF PersistRollback, JobsOK
  <2> QED
    BY <1>11, <2>1, <2>3 DEF PersistRollback, Reread, JobsOK, TablesOK
<1>12. ASSUME NEW j \in Jobs, RecoverCommit(j) PROVE JobsOK'
  <2>1. work[j] \in Sources
    BY <1>12 DEF RecoverCommit, JobsOK, PhasesOK
  <2>2. WriteRow(j, work[j], RecordFailure(held[j], "persist"))
    BY <1>12 DEF RecoverCommit
  <2>3. RecordFailure(held[j], "persist") \in Row
    BY FailureRow DEF ErrorKinds, JobsOK
  <2>4. /\ attempt' \in [Jobs -> [Sources -> Attempt]]
        /\ held' \in [Jobs -> Row]
    BY <2>1, <2>2, <2>3, WriteRowTyped
  <2> QED
    BY <1>12, <2>2, <2>4 DEF RecoverCommit, WriteRow, JobsOK
<1>13. ASSUME NEW j \in Jobs, JobEnd(j) PROVE JobsOK'
  BY <1>13, LeaveTyped DEF JobEnd
<1>14. ASSUME NEW j \in Jobs, JobAbort(j) PROVE JobsOK'
  BY <1>14, LeaveTyped DEF JobAbort
<1>15. CASE Crash
  BY <1>15, NoTargetsTyped, BlankRecords DEF Crash, JobsOK
<1>16. ASSUME NEW s \in Sources, UpdateSource(s) PROVE JobsOK'
  BY <1>16 DEF UpdateSource, JobsOK, jobVars
<1>17. ASSUME NEW s \in Sources, ArchiveSource(s) PROVE JobsOK'
  BY <1>17 DEF ArchiveSource, JobsOK, jobVars
<1>18. ASSUME NEW s \in Sources, CheckStart(s) PROVE JobsOK'
  BY <1>18 DEF CheckStart, JobsOK, jobVars
<1>19. ASSUME NEW s \in Sources, CheckDone(s) PROVE JobsOK'
  BY <1>19 DEF CheckDone, JobsOK, jobVars
<1>20. CASE UNCHANGED vars
  BY <1>20 DEF vars, jobVars, JobsOK
<1> QED
  BY <1>1, <1>2, <1>3, <1>4, <1>5, <1>6, <1>7, <1>8, <1>9, <1>10,
     <1>11, <1>12, <1>13, <1>14, <1>15, <1>16, <1>17, <1>18, <1>19, <1>20 DEF Next, JobStep

\* A job holds a row exactly while it persists one, a request a city while it runs.
LEMMA PhasesStep ==
  ASSUME TypeOK, [Next]_vars
  PROVE  PhasesOK'
<1> USE DEF TypeOK
<1>1. ASSUME NEW u \in Urls, Publish(u) PROVE PhasesOK'
  BY <1>1 DEF Publish, PhasesOK, jobVars
<1>2. CASE Advance
  BY <1>2 DEF Advance, PhasesOK, jobVars
<1>3. CASE TickLoad
  BY <1>3, NamesAssumption DEF TickLoad, PhasesOK, JobsOK, Jobs
<1>4. ASSUME NEW r \in Requests, NEW c \in Cities, RefreshStart(r, c)
      PROVE  PhasesOK'
  BY <1>4, NamesAssumption DEF RefreshStart, PhasesOK, JobsOK, Jobs
<1>5. ASSUME NEW r \in Requests, RefreshLoad(r) PROVE PhasesOK'
  BY <1>5 DEF RefreshLoad, PhasesOK, JobsOK, Jobs
<1>6. ASSUME NEW j \in Jobs, NEW s \in Sources, FetchStart(j, s)
      PROVE  PhasesOK'
  BY <1>6 DEF FetchStart, PhasesOK, jobVars
<1>7. ASSUME NEW j \in Jobs, NEW s \in Sources, FetchFailed(j, s)
      PROVE  PhasesOK'
  BY <1>7 DEF FetchFailed, PhasesOK, jobVars
<1>8. ASSUME NEW j \in Jobs, NEW s \in Sources, FetchAnswered(j, s)
      PROVE  PhasesOK'
  BY <1>8 DEF FetchAnswered, PhasesOK, jobVars
<1>9. ASSUME NEW j \in Jobs, NEW s \in Sources, PersistGet(j, s)
      PROVE  PhasesOK'
  BY <1>9, NamesAssumption DEF PersistGet, PhasesOK, JobsOK, Jobs
<1>10. ASSUME NEW j \in Jobs, PersistCommit(j) PROVE PhasesOK'
  BY <1>10 DEF PersistCommit, WriteRow, PhasesOK, JobsOK, Jobs
<1>11. ASSUME NEW j \in Jobs, PersistRollback(j) PROVE PhasesOK'
  BY <1>11 DEF PersistRollback, PhasesOK, JobsOK, Jobs
<1>12. ASSUME NEW j \in Jobs, RecoverCommit(j) PROVE PhasesOK'
  BY <1>12 DEF RecoverCommit, WriteRow, PhasesOK, JobsOK, Jobs
<1>13. ASSUME NEW j \in Jobs, JobEnd(j) PROVE PhasesOK'
  BY <1>13, LeaveTyped DEF JobEnd
<1>14. ASSUME NEW j \in Jobs, JobAbort(j) PROVE PhasesOK'
  BY <1>14, LeaveTyped DEF JobAbort
<1>15. CASE Crash
  BY <1>15 DEF Crash, PhasesOK, Jobs
<1>16. ASSUME NEW s \in Sources, UpdateSource(s) PROVE PhasesOK'
  BY <1>16 DEF UpdateSource, PhasesOK, jobVars
<1>17. ASSUME NEW s \in Sources, ArchiveSource(s) PROVE PhasesOK'
  BY <1>17 DEF ArchiveSource, PhasesOK, jobVars
<1>18. ASSUME NEW s \in Sources, CheckStart(s) PROVE PhasesOK'
  BY <1>18 DEF CheckStart, PhasesOK, jobVars
<1>19. ASSUME NEW s \in Sources, CheckDone(s) PROVE PhasesOK'
  BY <1>19 DEF CheckDone, PhasesOK, jobVars
<1>20. CASE UNCHANGED vars
  BY <1>20 DEF vars, jobVars, PhasesOK
<1> QED
  BY <1>1, <1>2, <1>3, <1>4, <1>5, <1>6, <1>7, <1>8, <1>9, <1>10,
     <1>11, <1>12, <1>13, <1>14, <1>15, <1>16, <1>17, <1>18, <1>19, <1>20 DEF Next, JobStep

-----------------------------------------------------------------------------
\* Every step of every job, admin and origin keeps every variable in its type:
\* in particular a session holds a whole row through flush, rollback and crash.
THEOREM TypeCorrect == Spec => []TypeOK
<1>1. Init => TypeOK
  <2> SUFFICES ASSUME Init PROVE TypeOK
    OBVIOUS
  <2>1. TablesOK
    BY NewRowTyped, BoundsAssumption DEF Init, TablesOK, Versions
  <2>2. JobsOK
    BY NoTargetsTyped, BlankRecords DEF Init, JobsOK
  <2>3. PhasesOK
    BY DEF Init, PhasesOK, Jobs
  <2> QED
    BY <2>1, <2>2, <2>3 DEF TypeOK
<1>2. TypeOK /\ [Next]_vars => TypeOK'
  BY TablesStep, JobsStep, PhasesStep DEF TypeOK
<1> QED
  BY <1>1, <1>2, PTL DEF Spec

-----------------------------------------------------------------------------
\* A step that starts and ends no refresh leaves the guard as it was.
LEMMA GuardUntouched ==
  ASSUME RefreshExclusive, refreshing' = refreshing, city' = city,
         \A r \in Requests : pc'[r] = "idle" <=> pc[r] = "idle"
  PROVE  RefreshExclusive'
  BY DEF RefreshExclusive, Running

\* A step that takes one job from a busy phase to a busy phase, likewise.
LEMMA GuardBusy ==
  ASSUME JobsOK, RefreshExclusive, refreshing' = refreshing, city' = city,
         NEW j \in Jobs, pc[j] # "idle",
         NEW phase \in {"load", "work", "commit", "recover"},
         pc' = [pc EXCEPT ![j] = phase]
  PROVE  RefreshExclusive'
<1>1. \A r \in Requests : pc'[r] = "idle" <=> pc[r] = "idle"
  BY DEF JobsOK, Jobs
<1> QED
  BY <1>1, GuardUntouched

\* The end of a refresh gives back its own city and no other's.
LEMMA GuardLeave ==
  ASSUME JobsOK, RefreshExclusive, NEW j \in Jobs, pc[j] # "idle", Leave(j)
  PROVE  RefreshExclusive'
<1>1. pc' = [pc EXCEPT ![j] = "idle"]
  BY DEF Leave
<1>2. CASE j = Tick
  <2>1. \A r \in Requests : pc'[r] = "idle" <=> pc[r] = "idle"
    BY <1>1, <1>2, NamesAssumption DEF JobsOK, Jobs
  <2> QED
    BY <1>2, <2>1, GuardUntouched DEF Leave
<1>3. CASE j # Tick
  <2>1. refreshing' = refreshing \ {city[j]} /\ j \in Requests
    BY <1>3 DEF Leave, Released, Jobs
  <2>2. \A r \in Requests : city'[r] = IF r = j THEN None ELSE city[r]
    BY <1>3 DEF Leave, JobsOK
  <2>3. \A r \in Requests : Running(r)' <=> Running(r) /\ r # j
    BY <1>1 DEF Running, JobsOK, Jobs
  <2>4. Running(j)
    BY DEF Running
  <2> QED
    BY <2>1, <2>2, <2>3, <2>4 DEF RefreshExclusive
<1> QED
  BY <1>2, <1>3

\* _refreshing is exactly the set of cities being refreshed, one refresh each,
\* for any number of requests, cities, errors and crashes.
THEOREM RefreshExclusiveHolds == Spec => []RefreshExclusive
<1>1. Init => RefreshExclusive
  BY DEF Init, RefreshExclusive, Running, Jobs
<1>2. ASSUME TypeOK, RefreshExclusive, [Next]_vars PROVE RefreshExclusive'
  <2>0. JobsOK /\ PhasesOK
    BY <1>2 DEF TypeOK
  <2>1. ASSUME NEW u \in Urls, Publish(u) PROVE RefreshExclusive'
    BY <1>2, <2>1, GuardUntouched DEF Publish, jobVars
  <2>2. CASE Advance
    BY <1>2, <2>2, GuardUntouched DEF Advance
  <2>3. CASE TickLoad
    <3>1. \A r \in Requests : pc'[r] = pc[r]
      BY <2>0, <2>3, NamesAssumption DEF TickLoad, JobsOK, Jobs
    <3> QED
      BY <1>2, <2>3, <3>1, GuardUntouched DEF TickLoad
  <2>4. ASSUME NEW r \in Requests, NEW c \in Cities, RefreshStart(r, c)
        PROVE  RefreshExclusive'
    <3>1. \A q \in Requests : Running(q)' <=> Running(q) \/ q = r
      BY <2>0, <2>4 DEF RefreshStart, Running, JobsOK, Jobs
    <3>2. \A q \in Requests : city'[q] = IF q = r THEN c ELSE city[q]
      BY <2>0, <2>4 DEF RefreshStart, JobsOK
    <3>3. c \notin refreshing /\ refreshing' = refreshing \cup {c} /\ ~Running(r)
      BY <2>4 DEF RefreshStart, Admits, Running
    <3> QED
      BY <1>2, <3>1, <3>2, <3>3 DEF RefreshExclusive
  <2>5. ASSUME NEW r \in Requests, RefreshLoad(r) PROVE RefreshExclusive'
    BY <1>2, <2>0, <2>5, GuardBusy DEF RefreshLoad, Jobs
  <2>6. ASSUME NEW j \in Jobs, NEW s \in Sources, FetchStart(j, s)
        PROVE  RefreshExclusive'
    BY <1>2, <2>6, GuardUntouched DEF FetchStart
  <2>7. ASSUME NEW j \in Jobs, NEW s \in Sources, FetchFailed(j, s)
        PROVE  RefreshExclusive'
    BY <1>2, <2>7, GuardUntouched DEF FetchFailed
  <2>8. ASSUME NEW j \in Jobs, NEW s \in Sources, FetchAnswered(j, s)
        PROVE  RefreshExclusive'
    BY <1>2, <2>8, GuardUntouched DEF FetchAnswered
  <2>9. ASSUME NEW j \in Jobs, NEW s \in Sources, PersistGet(j, s)
        PROVE  RefreshExclusive'
    BY <1>2, <2>0, <2>9, GuardBusy DEF PersistGet
  <2>10. ASSUME NEW j \in Jobs, PersistCommit(j) PROVE RefreshExclusive'
    BY <1>2, <2>0, <2>10, GuardBusy DEF PersistCommit, WriteRow
  <2>11. ASSUME NEW j \in Jobs, PersistRollback(j) PROVE RefreshExclusive'
    BY <1>2, <2>0, <2>11, GuardBusy DEF PersistRollback
  <2>12. ASSUME NEW j \in Jobs, RecoverCommit(j) PROVE RefreshExclusive'
    BY <1>2, <2>0, <2>12, GuardBusy DEF RecoverCommit, WriteRow
  <2>13. ASSUME NEW j \in Jobs, JobEnd(j) PROVE RefreshExclusive'
    BY <1>2, <2>0, <2>13, GuardLeave DEF JobEnd
  <2>14. ASSUME NEW j \in Jobs, JobAbort(j) PROVE RefreshExclusive'
    BY <1>2, <2>0, <2>14, GuardLeave DEF JobAbort
  <2>15. CASE Crash
    BY <2>15 DEF Crash, RefreshExclusive, Running, Jobs
  <2>16. ASSUME NEW s \in Sources, UpdateSource(s) PROVE RefreshExclusive'
    BY <1>2, <2>16, GuardUntouched DEF UpdateSource, jobVars
  <2>17. ASSUME NEW s \in Sources, ArchiveSource(s) PROVE RefreshExclusive'
    BY <1>2, <2>17, GuardUntouched DEF ArchiveSource, jobVars
  <2>18. ASSUME NEW s \in Sources, CheckStart(s) PROVE RefreshExclusive'
    BY <1>2, <2>18, GuardUntouched DEF CheckStart, jobVars
  <2>19. ASSUME NEW s \in Sources, CheckDone(s) PROVE RefreshExclusive'
    BY <1>2, <2>19, GuardUntouched DEF CheckDone, jobVars
  <2>20. CASE UNCHANGED vars
    BY <1>2, <2>20, GuardUntouched DEF vars, jobVars
  <2> QED
    BY <1>2, <2>1, <2>2, <2>3, <2>4, <2>5, <2>6, <2>7, <2>8, <2>9, <2>10, <2>11,
       <2>12, <2>13, <2>14, <2>15, <2>16, <2>17, <2>18, <2>19, <2>20
       DEF Next, JobStep
<1> QED
  BY <1>1, <1>2, TypeCorrect, PTL DEF Spec

-----------------------------------------------------------------------------
\* The four columns an admin owns are not touched by a recorded attempt ...
LEMMA RecordedKeepsAdminColumns ==
  ASSUME NEW row \in Row, NEW a, NEW kind,
         NEW new \in {Recorded(row, a), RecordFailure(row, kind)},
         NEW c \in {"url", "interval", "enabled", "archived"}
  PROVE  new[c] = row[c]
  BY DEF Recorded, RecordFailure, RecordSuccess, Row

\* ... so a flush leaves in them what the table holds at the commit.
LEMMA FlushKeepsAdminColumns ==
  ASSUME TablesOK, JobsOK, NEW j \in Jobs, NEW s \in Sources, NEW new,
         WriteRow(j, s, new),
         NEW c \in {"url", "interval", "enabled", "archived"},
         new[c] = held[j][c]
  PROVE  source'[s][c] = source[s][c]
<1>1. c \in DOMAIN source[s]
  BY DEF TablesOK, Row
<1> QED
  BY <1>1 DEF WriteRow, Flush, TablesOK

\* No attempt, of any job and in any interleaving, takes back an admin's edit.
THEOREM EditsSurviveHolds == Spec => EditsSurvive
<1>1. ASSUME TypeOK, NEW j \in Jobs, PersistCommit(j) \/ RecoverCommit(j),
             NEW c \in {"url", "interval", "enabled", "archived"}
      PROVE  source'[work[j]][c] = source[work[j]][c]
  <2> DEFINE s == work[j]
  <2>1. s \in Sources
    BY <1>1 DEF TypeOK, JobsOK, PhasesOK, PersistCommit, RecoverCommit
  <2>2. held[j] \in Row
    BY <1>1 DEF TypeOK, JobsOK
  <2>3. CASE PersistCommit(j)
    BY <1>1, <2>1, <2>2, <2>3, RecordedKeepsAdminColumns,
       FlushKeepsAdminColumns DEF TypeOK, PersistCommit
  <2>4. CASE RecoverCommit(j)
    BY <1>1, <2>1, <2>2, <2>4, RecordedKeepsAdminColumns,
       FlushKeepsAdminColumns DEF TypeOK, RecoverCommit
  <2> QED
    BY <1>1, <2>3, <2>4
<1>2. TypeOK /\ [Next]_vars =>
        [\A j \in Jobs : PersistCommit(j) \/ RecoverCommit(j) =>
           \A c \in {"url", "interval", "enabled", "archived"} :
             source'[work[j]][c] = source[work[j]][c]]_vars
  BY <1>1
<1> QED
  BY <1>2, TypeCorrect, PTL DEF Spec, EditsSurvive

-----------------------------------------------------------------------------
(***************************************************************************)
(* Why a 304 is a truthful "nothing new", for every number of sources,     *)
(* requests and stories: as long as no commit of an attempt fails and no   *)
(* source is moved to another url, a validator never gets ahead of the     *)
(* article table. Both hypotheses are needed: the run scheduler_v_poison   *)
(* breaks the invariant without the first, and an edited url inherits the  *)
(* validator of the feed it replaces (sources.py:46).                      *)
(***************************************************************************)
NoFailedCommits == MaxFaults = 0 /\ \A m \in MaxAges : m <= ColumnMax
UrlsNeverChange == \A s \in Sources : \A u, w \in UrlsOf[s] : u = w

\* A validator the origin at u did hand out, for a version that is stored.
Covered(u, tag) == tag <= feed[u] /\ (tag # 0 => Entries[u][tag] \subseteq Stored)

RowCovered(s) ==
  source[s].url \in UrlsOf[s] /\ Covered(source[s].url, source[s].tag)

\* What a fetch brought back is covered once its entries are in.
AttemptCovered(j, s) ==
  LET a == attempt[j][s] IN
  /\ a.maxAge \in MaxAges
  /\ a.st # "none" => a.url = source[s].url
  /\ a.st = "body" => a.tag \in {0, a.ver} /\ a.ver <= feed[a.url]
  /\ a.st \notin {"none", "body"} => Covered(a.url, a.tag)

\* The row a session is about to write, and why it writes it.
HeldCovered(j) ==
  pc[j] = "commit" =>
    /\ held[j].url = source[work[j]].url
    /\ Covered(held[j].url, held[j].tag)
    /\ attempt[j][work[j]].st \in {"error", "junk", "same", "body"}

GapInv ==
  /\ \A s \in Sources : RowCovered(s)
  /\ \A j \in Jobs, s \in Sources : AttemptCovered(j, s)
  /\ \A j \in Jobs : HeldCovered(j)
  /\ \A j \in Jobs : seen[j] \subseteq Stored /\ pc[j] # "recover"

-----------------------------------------------------------------------------
\* Origins move forward and articles are never taken out.
Forward ==
  /\ \A u \in Urls : feed[u] <= feed'[u]
  /\ Stored \subseteq Stored'

\* What an attempt keeps from one state to the next, its age aside.
SameAttempt(j, s) ==
  /\ attempt'[j][s].st = attempt[j][s].st
  /\ attempt'[j][s].url = attempt[j][s].url
  /\ attempt'[j][s].tag = attempt[j][s].tag
  /\ attempt'[j][s].ver = attempt[j][s].ver
  /\ attempt'[j][s].maxAge = attempt[j][s].maxAge

\* A step that does not write the url or the validator of a row keeps it
\* covered, ...
LEMMA RowFrame ==
  ASSUME TypeOK, TypeOK', Forward, NEW s \in Sources, RowCovered(s),
         source'[s].url = source[s].url, source'[s].tag = source[s].tag
  PROVE  RowCovered(s)'
<1>1. source[s].url \in Urls /\ source[s].tag \in 0..MaxVersion
  BY DEF TypeOK, TablesOK, Row
<1>2. /\ feed[source[s].url] \in Int /\ feed'[source[s].url] \in Int
      /\ source[s].tag \in Int
  BY <1>1, BoundsAssumption DEF TypeOK, TablesOK, Versions
<1> QED
  BY <1>1, <1>2 DEF RowCovered, Covered, Forward

\* ... an attempt it leaves alone stays covered, ...
LEMMA AttemptFrame ==
  ASSUME TypeOK, TypeOK', Forward, NEW j \in Jobs, NEW s \in Sources,
         AttemptCovered(j, s), source'[s].url = source[s].url,
         SameAttempt(j, s)
  PROVE  AttemptCovered(j, s)'
<1> DEFINE a == attempt[j][s]
<1>1. a.url \in Urls /\ a.tag \in 0..MaxVersion /\ a.ver \in Versions
  BY DEF TypeOK, JobsOK, Attempt
<1>2. /\ feed[a.url] \in Int /\ feed'[a.url] \in Int
      /\ a.tag \in Int /\ a.ver \in Int
  BY <1>1, BoundsAssumption DEF TypeOK, TablesOK, Versions
<1>3. feed[a.url] <= feed'[a.url] /\ Stored \subseteq Stored'
  BY <1>1 DEF Forward
<1> QED
  BY <1>1, <1>2, <1>3 DEF AttemptCovered, SameAttempt, Covered

\* ... and so does a row a session keeps holding.
LEMMA HeldFrame ==
  ASSUME TypeOK, TypeOK', Forward, NEW j \in Jobs, HeldCovered(j),
         \A s \in Sources : source'[s].url = source[s].url,
         pc'[j] = "commit" =>
           /\ pc[j] = "commit" /\ work'[j] = work[j] /\ held'[j] = held[j]
           /\ attempt'[j][work[j]].st = attempt[j][work[j]].st
  PROVE  HeldCovered(j)'
<1> SUFFICES ASSUME pc'[j] = "commit" PROVE HeldCovered(j)'
  BY DEF HeldCovered
<1>1. work[j] \in Sources
  BY DEF TypeOK, JobsOK, PhasesOK
<1>2. held[j].url \in Urls /\ held[j].tag \in 0..MaxVersion
  BY DEF TypeOK, JobsOK, Row
<1>3. /\ feed[held[j].url] \in Int /\ feed'[held[j].url] \in Int
      /\ held[j].tag \in Int
  BY <1>2, BoundsAssumption DEF TypeOK, TablesOK, Versions
<1> QED
  BY <1>1, <1>2, <1>3 DEF HeldCovered, Covered, Forward

\* The steps that bring no answer and take no row: all but a fetch's answer, a
\* get and a commit.
LEMMA GapFrame ==
  ASSUME TypeOK, TypeOK', GapInv, Forward,
         \A s \in Sources : /\ source'[s].url = source[s].url
                            /\ source'[s].tag = source[s].tag,
         \A j \in Jobs, s \in Sources : SameAttempt(j, s) \/ AttemptCovered(j, s)',
         \A j \in Jobs : seen'[j] \subseteq seen[j] /\ pc'[j] # "recover",
         \A j \in Jobs : pc'[j] = "commit" =>
           /\ pc[j] = "commit" /\ work'[j] = work[j] /\ held'[j] = held[j]
           /\ attempt'[j][work[j]].st = attempt[j][work[j]].st
  PROVE  GapInv'
<1>1. ASSUME NEW s \in Sources PROVE RowCovered(s)'
  BY RowFrame DEF GapInv
<1>2. ASSUME NEW j \in Jobs, NEW s \in Sources PROVE AttemptCovered(j, s)'
  BY AttemptFrame DEF GapInv
<1>3. ASSUME NEW j \in Jobs PROVE HeldCovered(j)'
  BY HeldFrame DEF GapInv
<1>4. \A j \in Jobs : seen'[j] \subseteq Stored' /\ pc'[j] # "recover"
  BY DEF GapInv, Forward
<1> QED
  BY <1>1, <1>2, <1>3, <1>4 DEF GapInv

\* What a load hands to the fetches, and what the end of a job leaves, is covered.
LEMMA TargetsCovered ==
  ASSUME TypeOK, \A s \in Sources : RowCovered(s),
         feed' = feed, article' = article, source' = source,
         NEW j \in Jobs, NEW live, attempt'[j] = Targets(live), NEW s \in Sources
  PROVE  AttemptCovered(j, s)'
<1> DEFINE a == Targets(live)[s]
<1>1. /\ a.maxAge \in MaxAges /\ a.st \in {"none", "target"}
      /\ a.st # "none" => a.url = source[s].url /\ a.tag = source[s].tag
  BY FeedsAssumption DEF Targets, Target, NoAttempt
<1>2. Covered(source[s].url, source[s].tag)
  BY DEF RowCovered
<1>3. attempt'[j][s] = a
  OBVIOUS
<1> QED
  BY <1>1, <1>2, <1>3 DEF AttemptCovered, Covered, Stored

-----------------------------------------------------------------------------
\* Stored is a set of stories that a commit adds its fresh ones to.
LEMMA InsertStores ==
  ASSUME TypeOK, NEW s \in Sources, NEW fresh \in SUBSET Stories,
         article' = Insert(s, fresh)
  PROVE  Stored' = Stored \cup fresh
<1>1. s # None
  BY NamesAssumption
<1> QED
  BY <1>1 DEF Insert, Stored, TypeOK, TablesOK

-----------------------------------------------------------------------------
\* A committed attempt leaves the row it writes covered, and stores what the
\* validator stands for.
LEMMA CommitCovers ==
  ASSUME TypeOK, TypeOK', GapInv, NEW j \in Jobs, PersistCommit(j),
         NEW s \in Sources, s = work[j]
  PROVE  /\ Forward
         /\ RowCovered(s)'
         /\ seen'[j] \subseteq Stored'
         /\ source'[s].url = source[s].url
<1> DEFINE a == attempt[j][s]
           fresh == Fresh(j, a)
           new == Recorded(held[j], a)
<1>1. s \in Sources /\ a \in Attempt /\ held[j] \in Row
  BY DEF TypeOK, JobsOK, PhasesOK, PersistCommit
<1>2. fresh \in SUBSET Stories
  BY <1>1, FreshStories DEF TypeOK
<1>3. Stored' = Stored \cup fresh
  BY <1>1, <1>2, InsertStores DEF PersistCommit
<1>4. Forward
  <2>1. feed' = feed /\ \A u \in Urls : feed[u] \in Int
    BY BoundsAssumption DEF PersistCommit, TypeOK, TablesOK, Versions
  <2> QED
    BY <1>3, <2>1 DEF Forward
<1>5. seen' = [seen EXCEPT ![j] = @ \cup fresh] /\ seen[j] \subseteq Stored
  BY DEF PersistCommit, GapInv
<1>6. seen'[j] \subseteq Stored'
  BY <1>3, <1>5 DEF TypeOK, JobsOK
<1>7. /\ held[j].url = source[s].url
      /\ Covered(held[j].url, held[j].tag)
      /\ a.st \in {"error", "junk", "same", "body"}
      /\ AttemptCovered(j, s)
  BY <1>1 DEF GapInv, HeldCovered, PersistCommit
<1>8. new.tag <= feed[source[s].url]
        /\ (new.tag # 0 => Entries[source[s].url][new.tag] \subseteq Stored')
  <2>1. /\ held[j].tag <= feed[source[s].url]
        /\ held[j].tag # 0
             => Entries[source[s].url][held[j].tag] \subseteq Stored'
    BY <1>3, <1>7 DEF Covered
  <2>2. CASE a.st \in {"error", "junk"}
    <3>1. new.tag = held[j].tag
      BY <1>1, <2>2 DEF Recorded, RecordFailure, Row
    <3> QED
      BY <2>1, <3>1
  <2>3. CASE a.st \in {"same", "body"}
    <3>1. new.tag = IF a.tag # 0 THEN a.tag ELSE held[j].tag
      BY <1>1, <2>3 DEF Recorded, RecordSuccess, Row
    <3>2. CASE a.tag = 0
      BY <2>1, <3>1, <3>2
    <3>3. CASE a.tag # 0 /\ a.st = "same"
      BY <1>3, <1>7, <3>1, <3>3 DEF AttemptCovered, Covered
    <3>4. CASE a.tag # 0 /\ a.st = "body"
      <4>1. a.tag = a.ver /\ a.ver <= feed[a.url] /\ a.url = source[s].url
        BY <1>7, <3>4 DEF AttemptCovered
      <4>2. Entries[a.url][a.ver] \subseteq Stored'
        BY <1>3, <1>5, <3>4 DEF Fresh
      <4> QED
        BY <3>1, <3>4, <4>1, <4>2
    <3> QED
      BY <2>3, <3>2, <3>3, <3>4
  <2> QED
    BY <1>7, <2>2, <2>3
<1>9. source'[s] = Flush(source[s], held[j], new)
  BY <1>1 DEF PersistCommit, WriteRow, TypeOK, TablesOK
<1>10. /\ source'[s].tag \in {new.tag, source[s].tag}
       /\ source'[s].url = source[s].url
  <2>1. new.url = held[j].url
    BY <1>1, RecordedKeepsAdminColumns
  <2>2. source[s] \in Row
    BY <1>1 DEF TypeOK, TablesOK
  <2> HIDE DEF new
  <2> QED
    BY <1>9, <2>1, <2>2 DEF Flush, Row
<1>11. RowCovered(s)
  BY <1>1 DEF GapInv
<1>12. RowCovered(s)'
  <2>1. feed' = feed
    BY DEF PersistCommit
  <2> HIDE DEF new
  <2> QED
    BY <1>3, <1>8, <1>10, <1>11, <2>1 DEF RowCovered, Covered
<1> QED
  BY <1>1, <1>4, <1>6, <1>10, <1>12

\* A 304 is an answer to a validator that is already covered, and a body's
\* validator is the version it lists.
LEMMA AnswerCovered ==
  ASSUME TypeOK, GapInv, NEW j \in Jobs, NEW s \in Sources, FetchAnswered(j, s)
  PROVE  AttemptCovered(j, s)'
<1> DEFINE a == attempt[j][s]
<1>1. a.url \in Urls /\ a.url = source[s].url /\ Covered(a.url, a.tag)
  <2>1. a \in Attempt
    BY DEF TypeOK, JobsOK
  <2>2. a.st = "open" /\ AttemptCovered(j, s)
    BY DEF GapInv, FetchAnswered
  <2> QED
    BY <2>1, <2>2 DEF AttemptCovered, Attempt
<1>2. feed[a.url] \in Versions /\ a.tag \in 0..MaxVersion
  BY <1>1 DEF TypeOK, TablesOK, JobsOK, Attempt
<1>3. feed[a.url] \in Int /\ feed[a.url] # 0 /\ a.tag \in Int
  BY <1>2, BoundsAssumption DEF Versions
<1>4. PICK st \in {"same", "body"}, tag \in {feed[a.url], 0}, m \in MaxAges :
        /\ attempt'[j][s] = [st |-> st, url |-> a.url, tag |-> tag,
                             ver |-> feed[a.url], maxAge |-> m, age |-> a.age]
        /\ st = "same" => a.tag >= feed[a.url]
  BY DEF FetchAnswered, TypeOK, JobsOK
<1>5. st = "same" => a.tag = feed[a.url]
  BY <1>1, <1>3, <1>4 DEF Covered
<1>6. UNCHANGED <<feed, source, article>>
  BY DEF FetchAnswered
<1>7. st = "same" => Covered(a.url, feed[a.url])
  BY <1>1, <1>5
<1>8. 0 <= feed[a.url]
  BY <1>2, BoundsAssumption DEF Versions
<1> QED
  BY <1>1, <1>3, <1>4, <1>6, <1>7, <1>8 DEF AttemptCovered, Covered, Stored

\* A job between its second read of a row and the commit works on a source
\* whose fetch is over.
LEMMA CommitResolved ==
  ASSUME TypeOK, GapInv, NEW j \in Jobs, pc[j] = "commit"
  PROVE  attempt[j][work[j]].st # "open" /\ work[j] \in Sources
<1>1. HeldCovered(j)
  BY DEF GapInv
<1>2. attempt[j][work[j]].st \in {"error", "junk", "same", "body"}
  BY <1>1 DEF HeldCovered
<1>3. work[j] \in Sources
  BY DEF TypeOK, JobsOK, PhasesOK
<1> QED
  BY <1>2, <1>3

\* The strengthened invariant survives every step.
LEMMA GapStep ==
  ASSUME NoFailedCommits, UrlsNeverChange, TypeOK, TypeOK', GapInv, [Next]_vars
  PROVE  GapInv'
<1>0. /\ \A s \in Sources : RowCovered(s)
      /\ \A j \in Jobs, s \in Sources : AttemptCovered(j, s)
      /\ \A j \in Jobs : seen[j] \subseteq Stored /\ pc[j] # "recover"
      /\ feed' = feed /\ article' = article => Forward
  <2>1. \A u \in Urls : feed[u] \in Int
    BY BoundsAssumption DEF TypeOK, TablesOK, Versions
  <2> QED
    BY <2>1 DEF GapInv, Forward, Stored
<1>1. ASSUME NEW u \in Urls, Publish(u) PROVE GapInv'
  <2>1. Forward
    <3>1. \A w \in Urls : feed[w] \in Int
      BY BoundsAssumption DEF TypeOK, TablesOK, Versions
    <3> QED
      BY <1>1, <3>1 DEF Publish, Forward, Stored, TypeOK, TablesOK
  <2> QED
    BY <1>0, <1>1, <2>1, GapFrame DEF Publish, jobVars, SameAttempt
<1>2. CASE Advance
  <2>1. \A j \in Jobs, s \in Sources : SameAttempt(j, s)
    BY <1>2 DEF Advance, SameAttempt, TypeOK, JobsOK, Attempt
  <2>2. \A j \in Jobs : pc[j] = "commit" => attempt'[j][work[j]].st = attempt[j][work[j]].st
    BY <2>1 DEF SameAttempt, TypeOK, JobsOK, PhasesOK
  <2> QED
    BY <1>0, <1>2, <2>1, <2>2, GapFrame DEF Advance
<1>3. CASE TickLoad
  <2>1. \A s \in Sources : AttemptCovered(Tick, s)'
    BY <1>0, <1>3, TargetsCovered DEF TickLoad, TypeOK, JobsOK, Jobs
  <2>2. \A j \in Jobs \ {Tick} : attempt'[j] = attempt[j]
    BY <1>3 DEF TickLoad, TypeOK, JobsOK
  <2>3. \A j \in Jobs, s \in Sources : SameAttempt(j, s) \/ AttemptCovered(j, s)'
    BY <2>1, <2>2 DEF SameAttempt
  <2>4. pc' = [pc EXCEPT ![Tick] = "work"]
    BY <1>3 DEF TickLoad
  <2>5. \A j \in Jobs : pc'[j] # "recover" /\ (pc'[j] = "commit" => j # Tick /\ pc[j] = "commit")
    BY <1>0, <2>4 DEF TypeOK, JobsOK
  <2> QED
    BY <1>0, <1>3, <2>2, <2>3, <2>5, GapFrame DEF TickLoad
<1>4. ASSUME NEW r \in Requests, NEW c \in Cities, RefreshStart(r, c) PROVE GapInv'
  <2>1. \A j \in Jobs : pc'[j] # "recover" /\ (pc'[j] = "commit" => pc[j] = "commit")
    BY <1>0, <1>4 DEF RefreshStart, TypeOK, JobsOK
  <2> QED
    BY <1>0, <1>4, <2>1, GapFrame DEF RefreshStart, SameAttempt
<1>5. ASSUME NEW r \in Requests, RefreshLoad(r) PROVE GapInv'
  <2>0. r \in Jobs
    BY DEF Jobs
  <2>1. \A s \in Sources : AttemptCovered(r, s)'
    BY <1>0, <1>5, <2>0, TargetsCovered DEF RefreshLoad, TypeOK, JobsOK
  <2>2. \A j \in Jobs \ {r} : attempt'[j] = attempt[j]
    BY <1>5 DEF RefreshLoad, TypeOK, JobsOK
  <2>3. \A j \in Jobs, s \in Sources : SameAttempt(j, s) \/ AttemptCovered(j, s)'
    BY <2>1, <2>2 DEF SameAttempt
  <2>4. pc' = [pc EXCEPT ![r] = "work"]
    BY <1>5 DEF RefreshLoad
  <2>5. \A j \in Jobs : pc'[j] # "recover" /\ (pc'[j] = "commit" => j # r /\ pc[j] = "commit")
    BY <1>0, <2>4 DEF TypeOK, JobsOK
  <2> QED
    BY <1>0, <1>5, <2>2, <2>3, <2>5, GapFrame DEF RefreshLoad
<1>6. ASSUME NEW j \in Jobs, NEW s \in Sources, FetchStart(j, s) PROVE GapInv'
  <2>1. \A i \in Jobs, t \in Sources :
          IF i = j /\ t = s THEN attempt'[i][t] = [attempt[i][t] EXCEPT !.st = "open"]
                            ELSE attempt'[i][t] = attempt[i][t]
    BY <1>6 DEF FetchStart, TypeOK, JobsOK
  <2>2. attempt'[j][s] = [attempt[j][s] EXCEPT !.st = "open"]
    BY <2>1
  <2>3. /\ attempt[j][s] \in Attempt /\ attempt[j][s].st = "target"
        /\ AttemptCovered(j, s)
    BY <1>0, <1>6 DEF FetchStart, TypeOK, JobsOK
  <2>4. AttemptCovered(j, s)'
    BY <1>6, <2>2, <2>3 DEF FetchStart, AttemptCovered, Covered, Attempt, Stored
  <2>5. \A i \in Jobs, t \in Sources : SameAttempt(i, t) \/ AttemptCovered(i, t)'
    BY <2>1, <2>4 DEF SameAttempt
  <2>6. \A i \in Jobs : pc[i] = "commit" => attempt'[i][work[i]] = attempt[i][work[i]]
    BY <1>6, <2>1 DEF FetchStart, TypeOK, JobsOK, PhasesOK
  <2> QED
    BY <1>0, <1>6, <2>5, <2>6, GapFrame DEF FetchStart
<1>7. ASSUME NEW j \in Jobs, NEW s \in Sources, FetchFailed(j, s) PROVE GapInv'
  <2>1. PICK st \in {"error", "junk"} : attempt' = [attempt EXCEPT ![j][s].st = st]
    BY <1>7 DEF FetchFailed
  <2>2. \A i \in Jobs, t \in Sources :
          IF i = j /\ t = s THEN attempt'[i][t] = [attempt[i][t] EXCEPT !.st = st]
                            ELSE attempt'[i][t] = attempt[i][t]
    BY <2>1 DEF TypeOK, JobsOK
  <2>3. attempt'[j][s] = [attempt[j][s] EXCEPT !.st = st]
    BY <2>2
  <2>4. /\ attempt[j][s] \in Attempt /\ attempt[j][s].st = "open"
        /\ AttemptCovered(j, s)
    BY <1>0, <1>7 DEF FetchFailed, TypeOK, JobsOK
  <2>5. AttemptCovered(j, s)'
    BY <1>7, <2>3, <2>4 DEF FetchFailed, AttemptCovered, Covered, Attempt, Stored
  <2>6. \A i \in Jobs, t \in Sources : SameAttempt(i, t) \/ AttemptCovered(i, t)'
    BY <2>2, <2>5 DEF SameAttempt
  <2>7. \A i \in Jobs : pc[i] = "commit" => attempt'[i][work[i]].st = attempt[i][work[i]].st
    <3> SUFFICES ASSUME NEW i \in Jobs, pc[i] = "commit"
                 PROVE  attempt'[i][work[i]].st = attempt[i][work[i]].st
      OBVIOUS
    <3>1. attempt[i][work[i]].st # "open" /\ work[i] \in Sources
      BY CommitResolved
    <3>2. ~(i = j /\ work[i] = s)
      BY <2>4, <3>1
    <3> QED
      BY <2>2, <3>1, <3>2
  <2> QED
    BY <1>0, <1>7, <2>6, <2>7, GapFrame DEF FetchFailed
<1>8. ASSUME NEW j \in Jobs, NEW s \in Sources, FetchAnswered(j, s) PROVE GapInv'
  <2>1. PICK new : attempt' = [attempt EXCEPT ![j] = [attempt[j] EXCEPT ![s] = new]]
    BY <1>8 DEF FetchAnswered
  <2>2. \A i \in Jobs, t \in Sources : (i = j /\ t = s) \/ attempt'[i][t] = attempt[i][t]
    BY <2>1 DEF TypeOK, JobsOK
  <2>3. AttemptCovered(j, s)'
    BY <1>8, AnswerCovered
  <2>4. \A i \in Jobs, t \in Sources : SameAttempt(i, t) \/ AttemptCovered(i, t)'
    BY <2>2, <2>3 DEF SameAttempt
  <2>5. \A i \in Jobs : pc[i] = "commit" => attempt'[i][work[i]].st = attempt[i][work[i]].st
    <3> SUFFICES ASSUME NEW i \in Jobs, pc[i] = "commit"
                 PROVE  attempt'[i][work[i]].st = attempt[i][work[i]].st
      OBVIOUS
    <3>1. attempt[i][work[i]].st # "open" /\ work[i] \in Sources
      BY CommitResolved
    <3>2. ~(i = j /\ work[i] = s)
      BY <1>8, <3>1 DEF FetchAnswered
    <3> QED
      BY <2>2, <3>1, <3>2
  <2> QED
    BY <1>0, <1>8, <2>4, <2>5, GapFrame DEF FetchAnswered
<1>9. ASSUME NEW j \in Jobs, NEW s \in Sources, PersistGet(j, s) PROVE GapInv'
  <2>1. /\ feed' = feed /\ article' = article /\ source' = source
        /\ attempt' = attempt /\ seen' = seen
    BY <1>9 DEF PersistGet
  <2>2. \A t \in Sources : RowCovered(t)'
    BY <1>0, <2>1 DEF RowCovered, Covered, Stored
  <2>3. \A i \in Jobs, t \in Sources : AttemptCovered(i, t)'
    BY <1>0, <2>1 DEF AttemptCovered, Covered, Stored
  <2>4. \A i \in Jobs \ {j} :
          pc'[i] = pc[i] /\ work'[i] = work[i] /\ held'[i] = held[i]
    BY <1>9 DEF PersistGet, TypeOK, JobsOK
  <2>5. pc'[j] = "commit" /\ work'[j] = s /\ held'[j] = source[s]
    BY <1>9 DEF PersistGet, TypeOK, JobsOK
  <2>6. HeldCovered(j)'
    <3>1. attempt[j][s].st \in {"error", "junk", "same", "body"}
      BY <1>9 DEF PersistGet, Gathered, Unresolved, TypeOK, JobsOK, Attempt
    <3> QED
      BY <1>0, <2>1, <2>5, <3>1 DEF HeldCovered, RowCovered, Covered, Stored
  <2>7. \A i \in Jobs : HeldCovered(i)'
    <3>1. ASSUME NEW i \in Jobs \ {j} PROVE HeldCovered(i)'
      BY <2>1, <2>4 DEF HeldCovered, Covered, Stored, GapInv
    <3> QED
      BY <2>6, <3>1
  <2>8. \A i \in Jobs : seen'[i] \subseteq Stored' /\ pc'[i] # "recover"
    BY <1>0, <2>1, <2>4, <2>5 DEF Stored
  <2> QED
    BY <2>2, <2>3, <2>7, <2>8 DEF GapInv
<1>10. ASSUME NEW j \in Jobs, PersistCommit(j) PROVE GapInv'
  <2>1. PICK s \in Sources : s = work[j]
    BY <1>10 DEF PersistCommit, TypeOK, JobsOK, PhasesOK
  <2>2. /\ Forward /\ RowCovered(s)' /\ seen'[j] \subseteq Stored'
        /\ source'[s].url = source[s].url
    BY <1>10, <2>1, CommitCovers
  <2>3. \A t \in Sources \ {s} : source'[t] = source[t]
    BY <1>10, <2>1 DEF PersistCommit, WriteRow, TypeOK, TablesOK
  <2>4. \A t \in Sources : source'[t].url = source[t].url
    BY <2>2, <2>3
  <2>5. \A t \in Sources : RowCovered(t)'
    BY <1>0, <2>2, <2>3, RowFrame
  <2>6. /\ attempt'[j][s] = NoAttempt
        /\ \A i \in Jobs, t \in Sources :
             (i = j /\ t = s) \/ attempt'[i][t] = attempt[i][t]
    BY <1>10, <2>1 DEF PersistCommit, WriteRow, TypeOK, JobsOK
  <2>7. AttemptCovered(j, s)'
    BY <2>6, FeedsAssumption DEF AttemptCovered, NoAttempt
  <2>8. \A i \in Jobs, t \in Sources : AttemptCovered(i, t)'
    <3>1. ASSUME NEW i \in Jobs, NEW t \in Sources, ~(i = j /\ t = s)
          PROVE  AttemptCovered(i, t)'
      <4>1. SameAttempt(i, t)
        BY <2>6, <3>1 DEF SameAttempt
      <4> QED
        BY <1>0, <2>2, <2>4, <4>1, AttemptFrame
    <3> QED
      BY <2>7, <3>1
  <2>9. /\ pc'[j] = "work"
        /\ \A i \in Jobs \ {j} :
             pc'[i] = pc[i] /\ work'[i] = work[i] /\ held'[i] = held[i]
    BY <1>10 DEF PersistCommit, WriteRow, TypeOK, JobsOK
  <2>10. \A i \in Jobs : HeldCovered(i)'
    <3>1. HeldCovered(j)'
      BY <2>9 DEF HeldCovered
    <3>2. ASSUME NEW i \in Jobs \ {j} PROVE HeldCovered(i)'
      <4>1. pc[i] = "commit" => attempt'[i][work[i]].st = attempt[i][work[i]].st
        BY <2>6 DEF TypeOK, JobsOK, PhasesOK
      <4> QED
        BY <2>2, <2>4, <2>9, <4>1, HeldFrame DEF GapInv
    <3> QED
      BY <3>1, <3>2
  <2>11. \A i \in Jobs \ {j} : seen'[i] = seen[i]
    BY <1>10 DEF PersistCommit, TypeOK, JobsOK
  <2>12. \A i \in Jobs : seen'[i] \subseteq Stored' /\ pc'[i] # "recover"
    BY <1>0, <2>2, <2>9, <2>11 DEF Forward
  <2> QED
    BY <2>5, <2>8, <2>10, <2>12 DEF GapInv
<1>11. ASSUME NEW j \in Jobs, PersistRollback(j) PROVE FALSE
  <2>1. work[j] \in Sources
    BY <1>11 DEF PersistRollback, TypeOK, JobsOK, PhasesOK
  <2>2. attempt[j][work[j]].maxAge \in MaxAges
    BY <1>0, <2>1 DEF AttemptCovered
  <2>3. attempt[j][work[j]].maxAge <= ColumnMax
    BY <2>2 DEF NoFailedCommits
  <2>4. Overflows(attempt[j][work[j]]) \/ faults < 0
    BY <1>11 DEF PersistRollback, NoFailedCommits
  <2>5. faults = 0
    BY DEF TypeOK, TablesOK, NoFailedCommits
  <2>6. attempt[j][work[j]].maxAge > ColumnMax
    BY <2>4, <2>5 DEF Overflows
  <2>7. attempt[j][work[j]].maxAge \in Nat
    BY <2>1 DEF TypeOK, JobsOK, Attempt
  <2>8. ColumnMax \in Nat
    BY BoundsAssumption
  <2> QED
    BY <2>3, <2>6, <2>7, <2>8
<1>12. ASSUME NEW j \in Jobs, RecoverCommit(j) PROVE FALSE
  BY <1>0, <1>12 DEF RecoverCommit
<1>13. ASSUME NEW j \in Jobs, Leave(j), UNCHANGED <<feed, source, article>>
       PROVE  GapInv'
  <2>1. \A s \in Sources : AttemptCovered(j, s)'
    BY <1>0, <1>13, TargetsCovered DEF Leave, TypeOK, JobsOK
  <2>2. \A i \in Jobs \ {j} :
          /\ attempt'[i] = attempt[i] /\ seen'[i] = seen[i] /\ pc'[i] = pc[i]
          /\ work'[i] = work[i] /\ held'[i] = held[i]
    BY <1>13 DEF Leave, SeenDropped, TypeOK, JobsOK
  <2>3. pc'[j] = "idle" /\ seen'[j] = {}
    BY <1>13 DEF Leave, SeenDropped, TypeOK, JobsOK
  <2>4. \A i \in Jobs, s \in Sources : SameAttempt(i, s) \/ AttemptCovered(i, s)'
    BY <2>1, <2>2 DEF SameAttempt
  <2>5. \A i \in Jobs : seen'[i] \subseteq seen[i] /\ pc'[i] # "recover"
    BY <1>0, <2>2, <2>3
  <2>6. \A i \in Jobs : pc'[i] = "commit" => i # j
    BY <2>3
  <2> QED
    BY <1>0, <1>13, <2>2, <2>4, <2>5, <2>6, GapFrame
<1>14. ASSUME NEW j \in Jobs, JobEnd(j) \/ JobAbort(j) PROVE GapInv'
  BY <1>13, <1>14 DEF JobEnd, JobAbort
<1>15. CASE Crash
  <2>1. \A j \in Jobs, s \in Sources : AttemptCovered(j, s)'
    BY <1>0, <1>15, TargetsCovered DEF Crash
  <2> QED
    BY <1>0, <1>15, <2>1, GapFrame DEF Crash
<1>16. ASSUME NEW s \in Sources, UpdateSource(s) PROVE GapInv'
  <2>1. PICK url \in UrlsOf[s], interval \in Intervals[s], enabled \in BOOLEAN :
          source' = [source EXCEPT ![s].url = url, ![s].interval = interval,
                                   ![s].enabled = enabled]
    BY <1>16 DEF UpdateSource
  <2>2. url = source[s].url
    BY <1>0 DEF UrlsNeverChange, RowCovered
  <2>3. \A t \in Sources : /\ source'[t].url = source[t].url
                           /\ source'[t].tag = source[t].tag
    BY <2>1, <2>2 DEF TypeOK, TablesOK, Row
  <2> QED
    BY <1>0, <1>16, <2>3, GapFrame DEF UpdateSource, jobVars, SameAttempt
<1>17. ASSUME NEW s \in Sources, ArchiveSource(s) PROVE GapInv'
  <2>1. \A t \in Sources : /\ source'[t].url = source[t].url
                           /\ source'[t].tag = source[t].tag
    BY <1>17 DEF ArchiveSource, TypeOK, TablesOK, Row
  <2> QED
    BY <1>0, <1>17, <2>1, GapFrame DEF ArchiveSource, jobVars, SameAttempt
<1>18. ASSUME NEW s \in Sources, CheckStart(s) PROVE GapInv'
  BY <1>0, <1>18, GapFrame DEF CheckStart, jobVars, SameAttempt
<1>19. ASSUME NEW s \in Sources, CheckDone(s) PROVE GapInv'
  <2>1. \A t \in Sources : /\ source'[t].url = source[t].url
                           /\ source'[t].tag = source[t].tag
    BY <1>19 DEF CheckDone, TypeOK, TablesOK, Row
  <2> QED
    BY <1>0, <1>19, <2>1, GapFrame DEF CheckDone, jobVars, SameAttempt
<1>20. CASE UNCHANGED vars
  BY <1>0, <1>20, GapFrame DEF vars, jobVars, SameAttempt
<1> QED
  BY <1>1, <1>2, <1>3, <1>4, <1>5, <1>6, <1>7, <1>8, <1>9, <1>10, <1>11, <1>12,
     <1>14, <1>15, <1>16, <1>17, <1>18, <1>19, <1>20 DEF Next, JobStep

-----------------------------------------------------------------------------
\* A 304 never hides an entry that is not in the article table, whatever the
\* number of sources, stories and overlapping refreshes, and however admins
\* pause, archive and check the sources meanwhile.
THEOREM NoSilentGapHolds ==
  ASSUME NoFailedCommits, UrlsNeverChange
  PROVE  Spec => []NoSilentGap
<1>1. Init => GapInv
  <2> SUFFICES ASSUME Init PROVE GapInv
    OBVIOUS
  <2>1. \A s \in Sources : RowCovered(s)
    BY FeedsAssumption DEF Init, NewRow, RowCovered, Covered
  <2>2. \A j \in Jobs, s \in Sources : AttemptCovered(j, s)
    BY FeedsAssumption DEF Init, Targets, NoAttempt, AttemptCovered
  <2> QED
    BY <2>1, <2>2 DEF Init, GapInv, HeldCovered
<1>2. TypeOK /\ TypeOK' /\ GapInv /\ [Next]_vars => GapInv'
  BY GapStep
<1>3. TypeOK /\ GapInv => NoSilentGap
  <2> SUFFICES ASSUME TypeOK, GapInv, NEW s \in Sources,
                      source[s].tag >= feed[source[s].url]
               PROVE  Entries[source[s].url][feed[source[s].url]] \subseteq Stored
    BY DEF NoSilentGap
  <2>1. source[s].url \in Urls /\ source[s].tag \in 0..MaxVersion
    BY DEF TypeOK, TablesOK, Row
  <2>2. feed[source[s].url] \in Versions
    BY <2>1 DEF TypeOK, TablesOK
  <2>3. source[s].tag = feed[source[s].url] /\ source[s].tag # 0
    BY <2>1, <2>2, BoundsAssumption DEF GapInv, RowCovered, Covered, Versions
  <2> QED
    BY <2>3 DEF GapInv, RowCovered, Covered
<1> QED
  BY <1>1, <1>2, <1>3, TypeCorrect, PTL DEF Spec
-----------------------------------------------------------------------------
(***************************************************************************)
(* The bookkeeping of one session at a time. Two sessions that hold one    *)
(* row mix their columns, a manual check writes one column of two, a       *)
(* refresh does not wait, and an edit changes what is to be waited for:    *)
(* what the theorems below exclude is what breaks them.                    *)
(***************************************************************************)
\* No two sessions hold the same row.
RowsApart == \A j, k \in Jobs : work[j] = work[k] /\ work[j] # None => j = k

NoChecks == [][\A s \in Sources : ~CheckStart(s)]_vars
NoRefreshes == [][\A r \in Requests, c \in Cities : ~RefreshStart(r, c)]_vars
IntervalsStay == [][\A s \in Sources : source'[s].interval = source[s].interval]_vars

OneStory(row) == row.failures > 0 <=> row.error # "none"

\* A session writes the history of the row as it is stored.
HistoryInv ==
  /\ \A s \in Sources : OneStory(source[s]) /\ probe[s] = "idle"
  /\ \A j \in Jobs : work[j] # None =>
       /\ held[j].failures = source[work[j]].failures
       /\ held[j].error = source[work[j]].error

\* A flush writes every column the session changed.
LEMMA FlushHistory ==
  ASSUME NEW current \in Row, NEW loaded \in Row, NEW new \in Row,
         loaded.failures = current.failures, loaded.error = current.error
  PROVE  /\ Flush(current, loaded, new).failures = new.failures
         /\ Flush(current, loaded, new).error = new.error
BY DEF Flush, Row

\* What an attempt makes of a history is one again.
LEMMA RecordedHistory ==
  ASSUME MaxFailures > 0, NEW row \in Row, NEW a \in Attempt
  PROVE  OneStory(Recorded(row, a)) /\ OneStory(RecordFailure(row, "persist"))
<1>1. \A kind \in {"fetch", "parse", "persist"} : OneStory(RecordFailure(row, kind))
  <2>1. row.failures \in 0..MaxFailures /\ MaxFailures \in Nat
    BY BoundsAssumption DEF Row
  <2>2. Smaller(row.failures + 1, MaxFailures) > 0
    BY <2>1 DEF Smaller
  <2>3. \A kind : /\ RecordFailure(row, kind).error = kind
                  /\ RecordFailure(row, kind).failures = Smaller(row.failures + 1, MaxFailures)
    BY DEF RecordFailure, Row
  <2> QED
    BY <2>2, <2>3 DEF OneStory
<1>2. OneStory(RecordSuccess(row, a.tag, a.maxAge))
  BY DEF OneStory, RecordSuccess, Row
<1> QED
  BY <1>1, <1>2 DEF Recorded

\* Steps that write no history and load no row.
LEMMA HistoryFrame ==
  ASSUME TypeOK, HistoryInv, probe' = probe \/ probe' = [s \in Sources |-> "idle"],
         \A s \in Sources : /\ source'[s].failures = source[s].failures
                            /\ source'[s].error = source[s].error,
         \A j \in Jobs : work'[j] # None => work'[j] = work[j] /\ held'[j] = held[j]
  PROVE  HistoryInv'
<1>1. \A j \in Jobs : work[j] \in Sources \cup {None}
  BY DEF TypeOK, JobsOK
<1> QED
  BY <1>1 DEF HistoryInv, OneStory

\* A commit on the row its session holds, and no other does.
LEMMA HistoryWritten ==
  ASSUME TypeOK, HistoryInv, RowsApart, NEW j \in Jobs, work[j] # None, probe' = probe,
         NEW new \in Row, OneStory(new), WriteRow(j, work[j], new)
  PROVE  HistoryInv'
<1>. PICK s \in Sources : s = work[j]
  BY DEF TypeOK, JobsOK
<1>1. source[s] \in Row /\ held[j] \in Row
  BY DEF TypeOK, TablesOK, JobsOK
<1>. PICK row : row = Flush(source[s], held[j], new)
  OBVIOUS
<1>2. row.failures = new.failures /\ row.error = new.error
  BY <1>1, FlushHistory DEF HistoryInv
<1>3. source' = [source EXCEPT ![s] = row] /\ work' = [work EXCEPT ![j] = None]
      /\ held' = [held EXCEPT ![j] = NoRow]
  BY DEF WriteRow
<1>4. \A t \in Sources : OneStory(source'[t]) /\ probe'[t] = "idle"
  BY <1>2, <1>3 DEF HistoryInv, OneStory, TypeOK, TablesOK
<1>5. ASSUME NEW k \in Jobs, work'[k] # None
      PROVE  /\ held'[k].failures = source'[work'[k]].failures
             /\ held'[k].error = source'[work'[k]].error
  <2>1. k # j /\ work'[k] = work[k] /\ held'[k] = held[k]
    BY <1>3, <1>5 DEF TypeOK, JobsOK
  <2>2. work[k] # s /\ work[k] \in Sources
    BY <1>5, <2>1 DEF RowsApart, TypeOK, JobsOK
  <2>3. source'[work[k]] = source[work[k]]
    BY <1>3, <2>2 DEF TypeOK, TablesOK
  <2> QED
    BY <1>5, <2>1, <2>3 DEF HistoryInv
<1> QED
  BY <1>4, <1>5 DEF HistoryInv

LEMMA HistoryStep ==
  ASSUME MaxFailures > 0, TypeOK, HistoryInv, RowsApart, [Next]_vars,
         [\A s \in Sources : ~CheckStart(s)]_vars
  PROVE  HistoryInv'
<1>0. /\ \A j \in Jobs : work[j] \in Sources \cup {None} /\ held[j] \in Row
      /\ \A j \in Jobs : pc[j] \in {"commit", "recover"} <=> work[j] # None
      /\ source \in [Sources -> Row]
      /\ \A j \in Jobs, s \in Sources : attempt[j][s] \in Attempt
  BY DEF TypeOK, TablesOK, JobsOK, PhasesOK
<1>1. CASE \/ \E u \in Urls : Publish(u)
           \/ Advance \/ TickLoad
           \/ \E r \in Requests, c \in Cities : RefreshStart(r, c)
           \/ \E r \in Requests : RefreshLoad(r)
           \/ \E j \in Jobs, s \in Sources :
                FetchStart(j, s) \/ FetchFailed(j, s) \/ FetchAnswered(j, s)
  <2>1. UNCHANGED <<source, probe, work, held>>
    BY <1>1 DEF Publish, Advance, TickLoad, RefreshStart, RefreshLoad, FetchStart,
                FetchFailed, FetchAnswered, jobVars
  <2> QED
    BY <2>1, HistoryFrame
<1>2. ASSUME NEW j \in Jobs, NEW s \in Sources, PersistGet(j, s) PROVE HistoryInv'
  <2>1. /\ work' = [work EXCEPT ![j] = s] /\ held' = [held EXCEPT ![j] = source[s]]
        /\ source' = source /\ probe' = probe
    BY <1>2 DEF PersistGet
  <2>2. ASSUME NEW k \in Jobs, work'[k] # None
        PROVE  /\ held'[k].failures = source'[work'[k]].failures
               /\ held'[k].error = source'[work'[k]].error
    <3>1. CASE k = j
      BY <2>1, <3>1 DEF TypeOK, JobsOK
    <3>2. CASE k # j
      BY <2>1, <2>2, <3>2 DEF HistoryInv, TypeOK, JobsOK
    <3> QED
      BY <3>1, <3>2
  <2> QED
    BY <2>1, <2>2 DEF HistoryInv
<1>3. ASSUME NEW j \in Jobs, PersistCommit(j) PROVE HistoryInv'
  <2>. PICK new : new = Recorded(held[j], attempt[j][work[j]])
    OBVIOUS
  <2>1. work[j] # None /\ WriteRow(j, work[j], new) /\ probe' = probe
    BY <1>0, <1>3 DEF PersistCommit
  <2>2. held[j] \in Row /\ attempt[j][work[j]] \in Attempt
    BY <1>0, <2>1
  <2>3. new \in Row /\ OneStory(new)
    BY <2>2, RecordedRow, RecordedHistory
  <2> QED
    BY <2>1, <2>3, HistoryWritten
<1>4. ASSUME NEW j \in Jobs, RecoverCommit(j) PROVE HistoryInv'
  <2>. PICK new : new = RecordFailure(held[j], "persist")
    OBVIOUS
  <2>1. work[j] # None /\ WriteRow(j, work[j], new) /\ probe' = probe
    BY <1>0, <1>4 DEF RecoverCommit
  <2>2. new \in Row /\ OneStory(new)
    BY <1>0, BlankRecords, FailureRow, RecordedHistory DEF ErrorKinds
  <2> QED
    BY <2>1, <2>2, HistoryWritten
<1>5. ASSUME NEW j \in Jobs, PersistRollback(j) PROVE HistoryInv'
  <2>1. /\ held' = [held EXCEPT ![j] = source[work[j]]]
        /\ UNCHANGED <<source, probe, work>>
    BY <1>5 DEF PersistRollback, Reread
  <2>2. ASSUME NEW k \in Jobs, work[k] # None
        PROVE  /\ held'[k].failures = source[work[k]].failures
               /\ held'[k].error = source[work[k]].error
    BY <2>1, <2>2 DEF HistoryInv, TypeOK, JobsOK
  <2> QED
    BY <2>1, <2>2 DEF HistoryInv
<1>6. CASE Crash \/ \E j \in Jobs : JobEnd(j) \/ JobAbort(j)
  <2>1. /\ source' = source /\ (probe' = probe \/ probe' = [s \in Sources |-> "idle"])
        /\ \A j \in Jobs : work'[j] # None => work'[j] = work[j] /\ held'[j] = held[j]
    BY <1>6 DEF Crash, JobEnd, JobAbort, Leave, TypeOK, JobsOK
  <2> QED
    BY <2>1, HistoryFrame
<1>7. CASE \E s \in Sources : UpdateSource(s) \/ ArchiveSource(s)
  <2>1. UNCHANGED <<probe, work, held>>
    BY <1>7 DEF UpdateSource, ArchiveSource, jobVars
  <2>2. ASSUME NEW s \in Sources, UpdateSource(s), NEW t \in Sources
        PROVE  source'[t].failures = source[t].failures /\ source'[t].error = source[t].error
    <3>1. PICK url, interval, enabled :
            source' = [source EXCEPT ![s].url = url, ![s].interval = interval,
                                     ![s].enabled = enabled]
      BY <2>2 DEF UpdateSource
    <3>2. source[t] \in Row
      BY <1>0
    <3> QED
      BY <1>0, <3>1, <3>2 DEF Row
  <2>3. ASSUME NEW s \in Sources, ArchiveSource(s), NEW t \in Sources
        PROVE  source'[t].failures = source[t].failures /\ source'[t].error = source[t].error
    BY <1>0, <2>3 DEF ArchiveSource, Row
  <2> QED
    BY <1>7, <2>1, <2>2, <2>3, HistoryFrame
<1>8. CASE \E s \in Sources : CheckStart(s)
  <2>1. UNCHANGED vars
    BY <1>8
  <2> QED
    BY <2>1, HistoryFrame DEF vars, jobVars
<1>9. CASE \E s \in Sources : CheckDone(s)
  BY <1>9 DEF CheckDone, HistoryInv
<1>10. CASE UNCHANGED vars
  BY <1>10, HistoryFrame DEF vars, jobVars
<1> QED
  BY <1>1, <1>2, <1>3, <1>4, <1>5, <1>6, <1>7, <1>8, <1>9, <1>10 DEF Next, JobStep

\* As long as no two sessions hold one row and nobody checks a source by hand, the
\* failure streak and the error of every source tell the same story, through failing
\* feeds, database errors, crashes and admins' edits (ingest.py:226-248).
THEOREM HistoryConsistentHolds ==
  ASSUME MaxFailures > 0
  PROVE  Spec /\ []RowsApart /\ NoChecks => []HistoryConsistent
<1>1. Init => HistoryInv
  BY DEF Init, HistoryInv, OneStory, NewRow
<1>2. TypeOK /\ HistoryInv /\ RowsApart /\ [Next]_vars /\ [\A s \in Sources : ~CheckStart(s)]_vars
        => HistoryInv'
  BY HistoryStep
<1>3. HistoryInv => HistoryConsistent
  BY DEF HistoryInv, HistoryConsistent, OneStory
<1> QED
  BY <1>1, <1>2, <1>3, TypeCorrect, PTL DEF Spec, NoChecks

\* The tick alone holds one row at a time: without refreshes there is nothing to mix.
THEOREM TickHistory ==
  ASSUME MaxFailures > 0, Requests = {}
  PROVE  Spec /\ NoChecks => []HistoryConsistent
<1>1. RowsApart
  BY DEF RowsApart, Jobs
<1> QED
  BY <1>1, HistoryConsistentHolds, PTL

-----------------------------------------------------------------------------
\* A source the tick is at was due when it was loaded, and has been waited for since.
WaitedOut(s) ==
  attempt[Tick][s].st # "none" =>
    \/ since[s] = MaxAge
    \/ since[s] - attempt[Tick][s].age >= EffectiveInterval(source[s])

SpacingInv ==
  /\ \A s \in Sources : WaitedOut(s)
  /\ work[Tick] # None => attempt[Tick][work[Tick]].st # "none"
  /\ \A r \in Requests : pc[r] = "idle" /\ \A s \in Sources : attempt[r][s].st = "none"

\* What a source is to be waited for is a number.
LEMMA IntervalNumber ==
  ASSUME NEW row \in Row
  PROVE  EffectiveInterval(row) \in Int
<1>1. row.interval \in Nat /\ row.maxAge \in Nat /\ row.failures \in Nat
  BY BoundsAssumption DEF Row
<1>2. Larger(row.interval, row.maxAge) \in Nat /\ Smaller(row.failures, MaxExponent) \in Nat
  BY <1>1, BoundsAssumption DEF Larger, Smaller
<1>3. \A base, exponent \in Nat : base * 2^exponent \in Int
  OBVIOUS
<1>4. \A x, y \in Int : Larger(x, y) \in Int /\ Smaller(x, y) \in Int
  BY DEF Larger, Smaller
<1>. PICK base \in Nat : base = Larger(row.interval, row.maxAge)
  BY <1>2
<1>. PICK exponent \in Nat : exponent = Smaller(row.failures, MaxExponent)
  BY <1>2
<1>5. EffectiveInterval(row) = IF row.failures = 0 THEN base
                               ELSE Larger(base, Smaller(base * 2^exponent, MaxBackoff))
  BY DEF EffectiveInterval
<1>6. Smaller(base * 2^exponent, MaxBackoff) \in Int
  BY <1>3, <1>4, BoundsAssumption
<1>7. Larger(base, Smaller(base * 2^exponent, MaxBackoff)) \in Int
  BY <1>4, <1>6
<1> QED
  BY <1>5, <1>7

\* It is not changed by what is written in the other columns.
LEMMA SameInterval ==
  ASSUME NEW row, NEW new, new.interval = row.interval, new.maxAge = row.maxAge,
         new.failures = row.failures
  PROVE  EffectiveInterval(new) = EffectiveInterval(row)
<1> DEFINE interval(i, m, f) ==
             LET base == Larger(i, m) IN
             IF f = 0 THEN base
             ELSE Larger(base, Smaller(base * 2^Smaller(f, MaxExponent), MaxBackoff))
<1>1. EffectiveInterval(new) = interval(new.interval, new.maxAge, new.failures)
  BY DEF EffectiveInterval
<1>2. EffectiveInterval(row) = interval(row.interval, row.maxAge, row.failures)
  BY DEF EffectiveInterval
<1> HIDE DEF interval
<1> QED
  BY <1>1, <1>2

LEMMA AdvanceSpacing ==
  ASSUME TypeOK, SpacingInv, Advance
  PROVE  SpacingInv'
<1>1. Tick \in Jobs /\ \A r \in Requests : r \in Jobs
  BY DEF Jobs
<1>2. /\ since' = [s \in Sources |-> Older(since[s])]
      /\ \A j \in Jobs, s \in Sources :
           attempt'[j][s] = IF Stamped(attempt[j][s])
                            THEN [attempt[j][s] EXCEPT !.age = Older(@)]
                            ELSE attempt[j][s]
      /\ UNCHANGED <<source, work, pc>>
  BY DEF Advance
<1>3. ASSUME NEW j \in Jobs, NEW s \in Sources
      PROVE  /\ attempt'[j][s].st = attempt[j][s].st
             /\ attempt'[j][s].age \in {attempt[j][s].age, Older(attempt[j][s].age)}
             /\ attempt[j][s].age \in 0..MaxAge
  <2>. PICK a : a = attempt[j][s]
    OBVIOUS
  <2>1. a \in Attempt
    BY DEF TypeOK, JobsOK
  <2>2. attempt'[j][s] = [a EXCEPT !.age = Older(@)] \/ attempt'[j][s] = a
    BY <1>2
  <2> QED
    BY <2>1, <2>2 DEF Attempt
<1>4. ASSUME NEW s \in Sources PROVE WaitedOut(s)'
  <2>. PICK interval : interval = EffectiveInterval(source[s])
    OBVIOUS
  <2>. PICK age : age = attempt[Tick][s].age
    OBVIOUS
  <2>1. interval \in Int /\ since[s] \in 0..MaxAge /\ age \in 0..MaxAge /\ MaxAge \in Nat
    BY <1>1, <1>3, IntervalNumber, BoundsAssumption DEF TypeOK, TablesOK
  <2>2. since'[s] = Older(since[s]) /\ attempt'[Tick][s].age \in {age, Older(age)}
    BY <1>1, <1>2, <1>3
  <2>3. attempt[Tick][s].st # "none" => since[s] = MaxAge \/ since[s] - age >= interval
    BY DEF SpacingInv, WaitedOut
  <2>4. attempt'[Tick][s].st # "none" =>
          since'[s] = MaxAge \/ since'[s] - attempt'[Tick][s].age >= interval
    BY <1>1, <1>3, <2>1, <2>2, <2>3 DEF Older, Smaller
  <2> QED
    BY <1>2, <2>4 DEF WaitedOut
<1>5. work[Tick] # None => attempt'[Tick][work[Tick]].st # "none"
  BY <1>1, <1>3 DEF SpacingInv, TypeOK, JobsOK
<1> QED
  BY <1>1, <1>2, <1>3, <1>4, <1>5 DEF SpacingInv

LEMMA TickLoadSpacing ==
  ASSUME TypeOK, SpacingInv, TickLoad
  PROVE  SpacingInv'
<1> DEFINE due == {s \in Sources : IsLive(s) /\ IsDue(s)}
<1>1. Tick \in Jobs /\ \A r \in Requests : r \in Jobs \ {Tick}
  BY NamesAssumption DEF Jobs
<1>2. /\ attempt' = [attempt EXCEPT ![Tick] = Targets(due)]
      /\ pc' = [pc EXCEPT ![Tick] = "work"]
      /\ pc[Tick] = "idle" /\ UNCHANGED <<source, since, work>>
  BY DEF TickLoad
<1>3. work[Tick] = None
  BY <1>1, <1>2 DEF TypeOK, PhasesOK
<1>4. /\ attempt'[Tick] = Targets(due)
      /\ \A r \in Requests : attempt'[r] = attempt[r] /\ pc'[r] = pc[r]
  BY <1>1, <1>2 DEF TypeOK, JobsOK
<1>5. ASSUME NEW s \in Sources PROVE WaitedOut(s)'
  <2>1. Targets(due)[s].st # "none" => s \in due
    BY DEF Targets, NoAttempt
  <2>2. Targets(due)[s].age = 0
    BY DEF Targets, Target, NoAttempt
  <2>3. s \in due => since[s] >= EffectiveInterval(source[s]) /\ since[s] - 0 = since[s]
    BY DEF IsDue, TypeOK, TablesOK
  <2> HIDE DEF due
  <2> QED
    BY <1>2, <1>4, <2>1, <2>2, <2>3 DEF WaitedOut
<1> HIDE DEF due
<1> QED
  BY <1>2, <1>3, <1>4, <1>5 DEF SpacingInv

\* A commit takes its source out of the tick, whose others are as they were.
LEMMA WrittenSpacing ==
  ASSUME TypeOK, SpacingInv, NEW s \in Sources, NEW new, WriteRow(Tick, s, new)
  PROVE  SpacingInv'
<1>. PICK row : row = Flush(source[s], held[Tick], new)
  OBVIOUS
<1>. PICK age : age = attempt[Tick][s].age
  OBVIOUS
<1>1. /\ source' = [source EXCEPT ![s] = row]
      /\ since' = [since EXCEPT ![s] = age]
      /\ attempt' = [attempt EXCEPT ![Tick][s] = NoAttempt]
      /\ pc' = [pc EXCEPT ![Tick] = "work"] /\ work' = [work EXCEPT ![Tick] = None]
  BY DEF WriteRow, Stamp
<1>2. Tick \in Jobs /\ \A r \in Requests : r \in Jobs /\ r # Tick
  BY NamesAssumption DEF Jobs
<1>3. \A r \in Requests : pc'[r] = "idle" /\ \A t \in Sources : attempt'[r][t].st = "none"
  BY <1>1, <1>2 DEF SpacingInv, TypeOK, JobsOK
<1>4. work'[Tick] = None
  BY <1>1, <1>2 DEF TypeOK, JobsOK
<1>5. attempt'[Tick][s].st = "none"
  BY <1>1, <1>2 DEF NoAttempt, TypeOK, JobsOK
<1>6. \A t \in Sources \ {s} : /\ attempt'[Tick][t] = attempt[Tick][t]
                              /\ source'[t] = source[t] /\ since'[t] = since[t]
  BY <1>1, <1>2 DEF TypeOK, TablesOK, JobsOK
<1>7. \A t \in Sources : WaitedOut(t)'
  BY <1>5, <1>6 DEF SpacingInv, WaitedOut
<1> QED
  BY <1>3, <1>4, <1>7 DEF SpacingInv

LEMMA SpacingStep ==
  ASSUME TypeOK, SpacingInv, [Next]_vars,
         [\A r \in Requests, c \in Cities : ~RefreshStart(r, c)]_vars,
         [\A s \in Sources : source'[s].interval = source[s].interval]_vars
  PROVE  SpacingInv'
<1>0. /\ Tick \in Jobs /\ \A j \in Jobs : j = Tick \/ j \in Requests
      /\ \A r \in Requests : r \in Jobs /\ pc[r] = "idle" /\ work[r] = None
      /\ \A r \in Requests, s \in Sources : attempt[r][s].st = "none"
      /\ work[Tick] \in Sources \cup {None}
  <2>1. Tick \in Jobs /\ \A j \in Jobs : j = Tick \/ j \in Requests
    BY DEF Jobs
  <2>2. \A r \in Requests : r \in Jobs /\ pc[r] = "idle"
    BY DEF Jobs, SpacingInv
  <2>3. \A r \in Requests : work[r] = None
    BY <2>2 DEF TypeOK, PhasesOK
  <2> QED
    BY <2>1, <2>2, <2>3 DEF SpacingInv, TypeOK, JobsOK
<1>. \A s \in Sources : source'[s].interval = source[s].interval
  BY DEF vars
<1>1. CASE UNCHANGED <<source, since, attempt, work, pc>>
  BY <1>1 DEF SpacingInv, WaitedOut
<1>2. CASE Advance
  BY <1>2, AdvanceSpacing
<1>3. CASE TickLoad
  BY <1>3, TickLoadSpacing
<1>4. ASSUME NEW r \in Requests, NEW c \in Cities, RefreshStart(r, c) PROVE SpacingInv'
  <2>1. UNCHANGED vars
    BY <1>4
  <2> QED
    BY <1>1, <2>1 DEF vars, jobVars
<1>5. ASSUME NEW r \in Requests, RefreshLoad(r) PROVE SpacingInv'
  BY <1>0, <1>5 DEF RefreshLoad
<1>6. ASSUME NEW j \in Jobs, NEW s \in Sources,
             FetchStart(j, s) \/ FetchFailed(j, s) \/ FetchAnswered(j, s)
      PROVE  SpacingInv'
  <2>0. PICK a : a = attempt[j][s]
    OBVIOUS
  <2>1. a \in Attempt /\ a.st # "none" /\ j = Tick
    BY <1>0, <1>6, <2>0 DEF FetchStart, FetchFailed, FetchAnswered, TypeOK, JobsOK
  <2>2. /\ UNCHANGED <<source, since, work, pc>>
        /\ \E new : /\ attempt' = [attempt EXCEPT ![j][s] = new]
                   /\ new.age = a.age /\ new.st # "none"
    <3>. DEFINE In(st) == [a EXCEPT !.st = st]
    <3>1. \A st : In(st).age = a.age /\ In(st).st = st
      BY <2>1 DEF Attempt
    <3>2. \A st : attempt' = [attempt EXCEPT ![j][s].st = st]
                 => attempt' = [attempt EXCEPT ![j][s] = In(st)]
      BY <2>0
    <3> HIDE DEF In
    <3>3. CASE FetchStart(j, s)
      <4>1. UNCHANGED <<source, since, work, pc>>
            /\ attempt' = [attempt EXCEPT ![j][s] = In("open")]
        BY <3>2, <3>3 DEF FetchStart
      <4>2. In("open").age = a.age /\ In("open").st # "none"
        BY <3>1
      <4> QED
        BY <4>1, <4>2
    <3>4. CASE FetchFailed(j, s)
      <4>1. UNCHANGED <<source, since, work, pc>>
        BY <3>4 DEF FetchFailed
      <4>2. PICK st \in {"error", "junk"} : attempt' = [attempt EXCEPT ![j][s] = In(st)]
        BY <3>2, <3>4 DEF FetchFailed
      <4> QED
        BY <3>1, <4>1, <4>2
    <3>5. CASE FetchAnswered(j, s)
      <4>1. UNCHANGED <<source, since, work, pc>>
        BY <3>5 DEF FetchAnswered
      <4>. DEFINE current == feed[attempt[j][s].url]
                  answer(st, tag, m) == [st |-> st, url |-> attempt[j][s].url, tag |-> tag,
                                         ver |-> current, maxAge |-> m,
                                         age |-> attempt[j][s].age]
                  kinds == {"body"} \cup IF attempt[j][s].tag >= current THEN {"same"} ELSE {}
                  tags == {current} \cup IF "bare" \in Outcomes THEN {0} ELSE {}
      <4>2. PICK st \in Outcomes \cap kinds, tag \in tags, m \in MaxAges :
              attempt' = [attempt EXCEPT ![j][s] = answer(st, tag, m)]
        BY <3>5 DEF FetchAnswered
      <4>3. answer(st, tag, m).age = a.age /\ answer(st, tag, m).st # "none"
        BY <2>0, <4>2
      <4> QED
        BY <4>1, <4>2, <4>3
    <3> QED
      BY <1>6, <3>3, <3>4, <3>5
  <2>3. PICK new : attempt' = [attempt EXCEPT ![j][s] = new] /\ new.age = a.age /\ new.st # "none"
    BY <2>2
  <2>4. /\ attempt'[Tick][s] = new
        /\ \A t \in Sources \ {s} : attempt'[Tick][t] = attempt[Tick][t]
        /\ \A r \in Requests : attempt'[r] = attempt[r]
    BY <1>0, <2>1, <2>3, NamesAssumption DEF TypeOK, JobsOK
  <2>5. ASSUME NEW t \in Sources PROVE WaitedOut(t)'
    <3>1. CASE t = s
      BY <2>0, <2>1, <2>2, <2>3, <2>4, <3>1 DEF SpacingInv, WaitedOut
    <3>2. CASE t # s
      BY <2>2, <2>4, <3>2 DEF SpacingInv, WaitedOut
    <3> QED
      BY <3>1, <3>2
  <2>6. work'[Tick] # None => attempt'[Tick][work'[Tick]].st # "none"
    BY <1>0, <2>2, <2>3, <2>4 DEF SpacingInv
  <2>7. \A r \in Requests : pc'[r] = "idle" /\ \A t \in Sources : attempt'[r][t].st = "none"
    BY <1>0, <2>2, <2>4
  <2> QED
    BY <2>5, <2>6, <2>7 DEF SpacingInv
<1>7. ASSUME NEW j \in Jobs, NEW s \in Sources, PersistGet(j, s) PROVE SpacingInv'
  <2>1. j = Tick /\ attempt[j][s].st # "none"
    BY <1>0, <1>7 DEF PersistGet
  <2>2. /\ work' = [work EXCEPT ![Tick] = s] /\ pc' = [pc EXCEPT ![Tick] = "commit"]
        /\ UNCHANGED <<source, since, attempt>>
    BY <1>7, <2>1 DEF PersistGet
  <2>3. work'[Tick] = s /\ \A r \in Requests : pc'[r] = pc[r]
    BY <1>0, <2>2, NamesAssumption DEF TypeOK, JobsOK
  <2>4. \A t \in Sources : WaitedOut(t)'
    BY <2>2 DEF SpacingInv, WaitedOut
  <2>5. \A r \in Requests : pc'[r] = "idle" /\ \A t \in Sources : attempt'[r][t].st = "none"
    BY <2>2, <2>3 DEF SpacingInv
  <2>6. attempt'[Tick][work'[Tick]].st # "none"
    BY <2>1, <2>2, <2>3
  <2> QED
    BY <2>4, <2>5, <2>6 DEF SpacingInv
<1>8. ASSUME NEW j \in Jobs, PersistCommit(j) \/ RecoverCommit(j) PROVE SpacingInv'
  <2>1. j = Tick /\ work[Tick] \in Sources
    BY <1>0, <1>8 DEF PersistCommit, RecoverCommit, TypeOK, PhasesOK
  <2>2. \E new : WriteRow(Tick, work[Tick], new)
    BY <1>8, <2>1 DEF PersistCommit, RecoverCommit
  <2> QED
    BY <2>1, <2>2, WrittenSpacing
<1>9. ASSUME NEW j \in Jobs, PersistRollback(j) PROVE SpacingInv'
  <2>1. UNCHANGED <<source, since, attempt, work>> /\ pc' = [pc EXCEPT ![j] = "recover"]
        /\ pc[j] = "commit"
    BY <1>9 DEF PersistRollback
  <2>2. \A r \in Requests : pc'[r] = pc[r]
    BY <1>0, <2>1 DEF TypeOK, JobsOK
  <2> QED
    BY <2>1, <2>2 DEF SpacingInv, WaitedOut
<1>10. CASE Crash \/ \E j \in Jobs : JobEnd(j) \/ JobAbort(j)
  <2>1. ASSUME NEW j \in Jobs, JobEnd(j) \/ JobAbort(j)
        PROVE  /\ j = Tick /\ UNCHANGED <<source, since>>
               /\ attempt' = [attempt EXCEPT ![j] = Targets({})]
               /\ work' = [work EXCEPT ![j] = None] /\ pc' = [pc EXCEPT ![j] = "idle"]
    BY <1>0, <2>1 DEF JobEnd, JobAbort, Leave
  <2>2. \A s \in Sources : Targets({})[s].st = "none"
    BY DEF Targets, NoAttempt
  <2>3. /\ \A s \in Sources : attempt'[Tick][s].st = "none"
        /\ work'[Tick] = None
        /\ \A r \in Requests : pc'[r] = "idle" /\ \A s \in Sources : attempt'[r][s].st = "none"
    <3>1. CASE Crash
      BY <1>0, <2>2, <3>1 DEF Crash
    <3>2. CASE \E j \in Jobs : JobEnd(j) \/ JobAbort(j)
      <4>1. /\ attempt' = [attempt EXCEPT ![Tick] = Targets({})]
            /\ work' = [work EXCEPT ![Tick] = None] /\ pc' = [pc EXCEPT ![Tick] = "idle"]
        BY <2>1, <3>2
      <4> QED
        BY <1>0, <2>2, <4>1, NamesAssumption DEF TypeOK, JobsOK
    <3> QED
      BY <1>10, <3>1, <3>2
  <2> QED
    BY <2>3 DEF SpacingInv, WaitedOut
<1>11. CASE \E s \in Sources : UpdateSource(s) \/ ArchiveSource(s) \/ CheckDone(s)
  <2>1. UNCHANGED <<since, attempt, work, pc>>
    BY <1>11 DEF UpdateSource, ArchiveSource, CheckDone, jobVars
  <2>2. ASSUME NEW s \in Sources
        PROVE  source'[s].maxAge = source[s].maxAge /\ source'[s].failures = source[s].failures
    <3>1. source \in [Sources -> Row]
      BY DEF TypeOK, TablesOK
    <3>2. ASSUME NEW t \in Sources, UpdateSource(t)
          PROVE  source'[s].maxAge = source[s].maxAge /\ source'[s].failures = source[s].failures
      <4>1. PICK url, interval, enabled :
              source' = [source EXCEPT ![t].url = url, ![t].interval = interval,
                                       ![t].enabled = enabled]
        BY <3>2 DEF UpdateSource
      <4>2. source[s] \in Row
        BY <3>1
      <4> QED
        BY <3>1, <4>1, <4>2 DEF Row
    <3>3. ASSUME NEW t \in Sources, ArchiveSource(t)
          PROVE  source'[s].maxAge = source[s].maxAge /\ source'[s].failures = source[s].failures
      BY <3>1, <3>3 DEF ArchiveSource, Row
    <3>4. ASSUME NEW t \in Sources, CheckDone(t)
          PROVE  source'[s].maxAge = source[s].maxAge /\ source'[s].failures = source[s].failures
      BY <3>1, <3>4 DEF CheckDone, Row
    <3> QED
      BY <1>11, <3>2, <3>3, <3>4
  <2>3. \A s \in Sources : EffectiveInterval(source'[s]) = EffectiveInterval(source[s])
    BY <1>0, <2>2, SameInterval
  <2> QED
    BY <2>1, <2>3 DEF SpacingInv, WaitedOut
<1>12. CASE (\E u \in Urls : Publish(u)) \/ \E s \in Sources : CheckStart(s)
  BY <1>1, <1>12 DEF Publish, CheckStart, jobVars
<1>13. CASE UNCHANGED vars
  BY <1>1, <1>13 DEF vars, jobVars
<1> QED
  BY <1>2, <1>3, <1>4, <1>5, <1>6, <1>7, <1>8, <1>9, <1>10, <1>11, <1>12, <1>13
     DEF Next, JobStep

\* effective_interval_seconds owes an origin no less than each of its terms: the
\* ceiling shortens the backoff and neither the interval nor the max-age
\* (scheduler.py:61-63).
LEMMA IntervalCovers ==
  ASSUME NEW row \in Row, NEW waited \in Int, waited >= EffectiveInterval(row)
  PROVE  WaitedEnough(row, waited)
<1>1. row.interval \in Nat /\ row.maxAge \in Nat /\ row.failures \in Nat
  BY BoundsAssumption DEF Row
<1> PICK base \in Nat : base = Larger(row.interval, row.maxAge)
  BY <1>1 DEF Larger
<1>2. base >= row.interval /\ base >= row.maxAge
  BY <1>1 DEF Larger
<1> PICK exponent \in Nat : exponent = Smaller(row.failures, MaxExponent)
  BY <1>1, BoundsAssumption DEF Smaller
<1> PICK backoff \in Int : backoff = base * 2^exponent
  OBVIOUS
<1>3. EffectiveInterval(row) = IF row.failures = 0 THEN base
                               ELSE Larger(base, Smaller(backoff, MaxBackoff))
  BY DEF EffectiveInterval
<1>4. waited >= base
  BY <1>3, BoundsAssumption DEF Larger, Smaller
<1>5. row.failures > 0 => waited >= MaxBackoff \/ waited >= backoff
  BY <1>1, <1>3, BoundsAssumption DEF Larger, Smaller
<1> QED
  BY <1>1, <1>2, <1>4, <1>5 DEF WaitedEnough

\* Without refreshes and interval edits, the tick waits the interval, the origin's
\* max-age and the backoff out between two attempts it records for a source, through
\* failing feeds, database errors, crashes, checks and the other edits
\* (scheduler.py:56-82, ingest.py:226-248).
THEOREM SpacingRespectedHolds ==
  Spec /\ NoRefreshes /\ IntervalsStay => SpacingRespected
<1>1. Init => SpacingInv
  BY DEF Init, SpacingInv, WaitedOut, Targets, NoAttempt, Jobs
<1>2. TypeOK /\ SpacingInv /\ [Next]_vars
        /\ [\A r \in Requests, c \in Cities : ~RefreshStart(r, c)]_vars
        /\ [\A s \in Sources : source'[s].interval = source[s].interval]_vars
        => SpacingInv'
  BY SpacingStep
<1>3. TypeOK /\ SpacingInv =>
        [\A s \in Sources :
           (PersistCommit(Tick) \/ RecoverCommit(Tick)) /\ work[Tick] = s =>
             \/ since[s] = MaxAge
             \/ WaitedEnough(source[s], since[s] - attempt[Tick][s].age)]_vars
  <2> SUFFICES ASSUME TypeOK, SpacingInv, NEW s \in Sources, work[Tick] = s,
                      since[s] # MaxAge
               PROVE  WaitedEnough(source[s], since[s] - attempt[Tick][s].age)
    OBVIOUS
  <2>1. work[Tick] # None
    BY NamesAssumption
  <2>2. since[s] - attempt[Tick][s].age >= EffectiveInterval(source[s])
    BY <2>1 DEF SpacingInv, WaitedOut
  <2>3. source[s] \in Row /\ since[s] - attempt[Tick][s].age \in Int
    BY BoundsAssumption DEF TypeOK, TablesOK, JobsOK, Jobs, Attempt
  <2> QED
    BY <2>2, <2>3, IntervalCovers
<1> QED
  BY <1>1, <1>2, <1>3, TypeCorrect, PTL DEF Spec, NoRefreshes, IntervalsStay, SpacingRespected
=============================================================================
