------------------------------ MODULE Classifier ------------------------------
(***************************************************************************)
(* The classifier loop (app/services/classify.py) and the model call it    *)
(* makes (app/services/llm.py): load the oldest unrated articles of the    *)
(* window, send them as one prompt with retries, record what was billed,   *)
(* then write the judgements and count the attempt.                        *)
(*                                                                         *)
(* The three database sessions of a pass and every model call are separate *)
(* steps; articles arrive and age in between, a database error may end the *)
(* pass, and the process may stop. All the columns the classifier writes on*)
(* an article are written by one UPDATE, so they are one value, rating[x]: *)
(* the headline the model was judging when it produced them.               *)
(***************************************************************************)
EXTENDS Integers, FiniteSets

CONSTANTS
  Articles,     \* article ids
  Unrated,      \* emotional_salience IS NULL
  Nothing,      \* what an index that addresses no headline was judged by
  BatchSize,    \* classify_batch_size
  MaxAttempts,  \* classify_max_attempts
  MaxCalls,     \* llm_max_attempts
  Window,       \* story_window_hours
  Before,       \* bound: <<x, y>> if y does not arrive before x has
  MaxFaults     \* bound: database errors and process stops

ASSUME ClassifierAssumption ==
  /\ Unrated \notin Articles /\ Nothing \notin Articles /\ Unrated # Nothing
  /\ IsFiniteSet(Articles)
  /\ BatchSize \in Nat \ {0} /\ MaxAttempts \in Nat \ {0} /\ MaxCalls \in Nat \ {0}
  /\ Window \in Nat /\ MaxFaults \in Nat /\ Before \subseteq Articles \X Articles

VARIABLES
  age,       \* age[x]: time since fetched_at, -1 while x has no row
  rating,    \* rating[x]
  attempts,  \* attempts[x]: category_attempts
  ledger,    \* rows of llm_calls committed
  pc,        \* where the pass is
  batch,     \* the articles of the pass, by index
  try,       \* the attempt _complete is at
  pending,   \* llm_calls rows flushed by this pass, not committed
  assigned,  \* what the model placed: a rating for each article of the batch
  billed,    \* calls the provider has answered or failed, and billed
  faults, crashes

passVars == <<pc, batch, try, pending, assigned>>
vars == <<age, rating, attempts, ledger, passVars, billed, faults, crashes>>

Size  == Cardinality(DOMAIN batch)
Sent  == {batch[i] : i \in DOMAIN batch}
NoBatch == [i \in {} |-> Unrated]
NoneAssigned == [x \in Articles |-> Unrated]

TypeOK ==
  /\ age \in [Articles -> -1..(Window + 1)]
  /\ rating \in [Articles -> Articles \cup {Unrated, Nothing}]
  /\ attempts \in [Articles -> 0..MaxAttempts]
  /\ pc \in {"idle", "call", "answered", "persist"}
  /\ \E n \in 0..BatchSize : batch \in [0..(n - 1) -> Articles]
  /\ try \in 1..MaxCalls /\ pending \in 0..MaxCalls
  /\ assigned \in [Articles -> Articles \cup {Unrated, Nothing}]
  /\ ledger \in Nat /\ billed \in Nat
  /\ faults \in 0..MaxFaults /\ crashes \in 0..MaxFaults

Init ==
  /\ age = [x \in Articles |-> -1]
  /\ rating = [x \in Articles |-> Unrated]
  /\ attempts = [x \in Articles |-> 0]
  /\ ledger = 0 /\ billed = 0
  /\ pc = "idle" /\ batch = NoBatch /\ try = 1 /\ pending = 0
  /\ assigned = NoneAssigned
  /\ faults = 0 /\ crashes = 0

-----------------------------------------------------------------------------
\* Ingest stores an article.
Arrive(x) ==
  /\ age[x] = -1
  /\ \A y \in Articles : <<y, x>> \in Before => age[y] # -1
  /\ age' = [age EXCEPT ![x] = 0]
  /\ UNCHANGED <<rating, attempts, ledger, passVars, billed, faults, crashes>>

\* An hour passes.
Advance ==
  /\ age' = [x \in Articles |->
       IF age[x] \in 0..Window THEN age[x] + 1 ELSE age[x]]
  /\ age' # age
  /\ UNCHANGED <<rating, attempts, ledger, passVars, billed, faults, crashes>>

\* Mutant of InBudget: the attempts are not looked at.
InBudgetAlways(x) == TRUE
InBudget(x) == attempts[x] < MaxAttempts

\* Mutant of Unjudged: rated articles are loaded as well.
UnjudgedOrNot(x) == TRUE
Unjudged(x) == rating[x] = Unrated

Eligible ==
  {x \in Articles : Unjudged(x) /\ InBudget(x) /\ age[x] \in 0..Window}

\* Oldest first, and no older one left out.
Oldest(q) ==
  /\ \A i, k \in DOMAIN q : i < k => q[i] # q[k] /\ age[q[i]] >= age[q[k]]
  /\ \A x \in Eligible \ {q[i] : i \in DOMAIN q}, i \in DOMAIN q :
        age[q[i]] >= age[x]

\* load_unclassified, and the first call goes out; an empty batch ends the pass.
Load ==
  LET n == IF Cardinality(Eligible) < BatchSize THEN Cardinality(Eligible)
                                                 ELSE BatchSize
  IN
  /\ pc = "idle" /\ n > 0
  /\ \E q \in [0..(n - 1) -> Eligible] : Oldest(q) /\ batch' = q
  /\ pc' = "call" /\ try' = 1
  /\ UNCHANGED <<age, rating, attempts, ledger, pending, assigned, billed,
                 faults, crashes>>

\* A call raises, or answers with something that does not validate. It is
\* logged and retried, up to MaxCalls; then ClassificationError: nothing is
\* assigned.
CallFails ==
  /\ pc = "call"
  /\ billed' = billed + 1 /\ pending' = pending + 1
  /\ IF try < MaxCalls
     THEN try' = try + 1 /\ pc' = pc
     ELSE try' = try /\ pc' = "answered"
  /\ UNCHANGED <<age, rating, attempts, ledger, batch, assigned, faults, crashes>>

\* Mutant of Addressed: no lower bound.
AddressedAbove(indices) == {i \in indices : i < Size}

\* classify_titles drops the indices that address no headline sent.
Addressed(indices) == {i \in indices : 0 <= i /\ i < Size}

\* The article an index picks out of article_ids: -1 is the last of the list.
At(i) == batch[IF i < 0 THEN i + Size ELSE i]

\* The model answers for some of the headlines it was sent, and maybe for an
\* index it was not; the judgements for index i are of headline i.
CallAnswers ==
  /\ pc = "call"
  /\ \E indices \in SUBSET (-1..Size) :
       assigned' = [x \in Articles |->
         IF \E i \in Addressed(indices) : At(i) = x /\ i \notin DOMAIN batch
         THEN Nothing
         ELSE IF \E i \in Addressed(indices) : At(i) = x THEN x ELSE Unrated]
  /\ billed' = billed + 1 /\ pending' = pending + 1
  /\ pc' = "answered"
  /\ UNCHANGED <<age, rating, attempts, ledger, batch, try, faults, crashes>>

\* Mutant of Kept: the rows are committed only when the call answered.
KeptOnAnswer == IF assigned = NoneAssigned THEN 0 ELSE pending

\* The finally of run_classify_pass: the rows are committed either way.
Kept == pending

CommitCalls ==
  /\ pc = "answered"
  /\ ledger' = ledger + Kept /\ pending' = 0
  /\ pc' = "persist"
  /\ UNCHANGED <<age, rating, attempts, batch, try, assigned, billed, faults,
                 crashes>>

EndPass ==
  /\ pc' = "idle" /\ batch' = NoBatch /\ try' = 1 /\ pending' = 0
  /\ assigned' = NoneAssigned

\* Mutant of Counted: only what came back counts as an attempt.
CountedPlaced == {x \in Sent : assigned[x] # Unrated}

\* persist_categories counts the attempt against every article of the batch.
Counted == Sent

Persist ==
  /\ pc = "persist"
  /\ attempts' = [x \in Articles |->
       IF x \in Counted THEN attempts[x] + 1 ELSE attempts[x]]
  /\ rating' = [x \in Articles |->
       IF x \in Sent /\ assigned[x] # Unrated THEN assigned[x] ELSE rating[x]]
  /\ EndPass
  /\ UNCHANGED <<age, ledger, billed, faults, crashes>>

\* Mutant of PassFails: the error escapes the loop, which ends.
PassFailsFatal ==
  /\ pc # "idle"
  /\ faults + crashes < MaxFaults
  /\ faults' = faults + 1
  /\ pc' = "ended" /\ batch' = NoBatch /\ try' = 1 /\ pending' = 0
  /\ assigned' = NoneAssigned
  /\ UNCHANGED <<age, rating, attempts, ledger, billed, crashes>>

\* A database error in any session of the pass: the loop logs it and sleeps.
\* What that session had flushed is gone.
PassFails ==
  /\ pc # "idle"
  /\ faults + crashes < MaxFaults
  /\ faults' = faults + 1
  /\ EndPass
  /\ UNCHANGED <<age, rating, attempts, ledger, billed, crashes>>

\* The process stops. A shutdown cancels the pass and its finally still commits
\* what was logged; a kill does not. A call in flight is billed all the same.
Stop ==
  /\ faults + crashes < MaxFaults
  /\ crashes' = crashes + 1
  /\ billed' \in (IF pc = "call" THEN {billed, billed + 1} ELSE {billed})
  /\ ledger' \in {ledger, ledger + pending}
  /\ EndPass
  /\ UNCHANGED <<age, rating, attempts, faults>>

-----------------------------------------------------------------------------
PassStep == Load \/ CallFails \/ CallAnswers \/ CommitCalls \/ Persist

Next ==
  \/ \E x \in Articles : Arrive(x)
  \/ Advance \/ PassStep \/ PassFails \/ Stop

Spec == Init /\ [][Next]_vars

\* The loop starts a pass after each sleep and every call ends, one way or the
\* other. Nothing makes an hour pass: the backlog must drain within the window.
FairSpec == Spec /\ WF_vars(PassStep)

-----------------------------------------------------------------------------
\* Every pass is a pass of the abstract table: counted once against everything
\* it sent, rating only articles still open, each by its own headline
\* (classify.py:82-109, llm.py:422-424).
Table == INSTANCE Rating WITH
  Articles <- Articles, MaxAttempts <- MaxAttempts, Unrated <- Unrated,
  rating <- rating, attempts <- attempts
TableSpec == Table!Spec

\* Usage accounting: every call the provider billed has its llm_calls row,
\* failed ones above all, unless the database or the process gave out
\* (classify.py:130-135).
Accounted == faults = 0 /\ crashes = 0 => billed = ledger + pending

\* An article that keeps being refused costs a bounded number of calls: passes
\* lost to errors and crashes aside, MaxAttempts passes of MaxCalls calls
\* (config.py:69-71).
BillBounded ==
  billed <= MaxCalls * (Cardinality(Articles) * MaxAttempts + faults + crashes)

\* The backlog drains: an article in the window is rated or has spent its
\* attempts, whatever the model refuses and however many arrive after it
\* (classify.py:42-45, 87-89).
Drained ==
  \A x \in Articles :
    x \in Eligible ~> rating[x] # Unrated \/ attempts[x] = MaxAttempts
                        \/ age[x] > Window

\* A comment in persist_categories lists an article whose window rolled
\* mid-pass among those skipped (classify.py:93).
RolledIsSkipped ==
  [][\A x \in Articles :
       age[x] > Window => attempts'[x] = attempts[x]]_vars
=============================================================================
