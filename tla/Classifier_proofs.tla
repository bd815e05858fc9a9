--------------------------- MODULE Classifier_proofs ---------------------------
(***************************************************************************)
(* The classifier implements the abstract rating table, and accounts for   *)
(* every call, for any number of articles, batch size, retry budget, fault *)
(* and crash.                                                              *)
(***************************************************************************)
EXTENDS Classifier, FiniteSetTheorems, TLAPS

\* The batch is a list of articles still open, and what is assigned is their
\* own judgement: true from the load to the write, whatever happens between,
\* because only this loop rates and counts.
BatchOpen ==
  /\ \E n \in Nat : batch \in [0..(n - 1) -> Articles]
  /\ \A x \in Sent : rating[x] = Unrated /\ attempts[x] < MaxAttempts
  /\ \A x \in Articles : assigned[x] = Unrated \/ (assigned[x] = x /\ x \in Sent)

CountersOK ==
  /\ billed \in Nat /\ ledger \in Nat /\ pending \in Nat
  /\ faults \in Nat /\ crashes \in Nat

TableOK ==
  /\ rating \in [Articles -> Articles \cup {Unrated}]
  /\ attempts \in [Articles -> 0..MaxAttempts]

\* What bounds the indices: a list of n headlines has the indices 0..n-1.
LEMMA SizeOfBatch ==
  ASSUME NEW n \in Nat, batch \in [0..(n - 1) -> Articles]
  PROVE  Size = n
<1>1. DOMAIN batch = 0..(n - 1)
  OBVIOUS
<1>2. Cardinality(0..(n - 1)) = IF 0 > n - 1 THEN 0 ELSE (n - 1) - 0 + 1
  BY FS_Interval
<1> QED
  BY <1>1, <1>2 DEF Size

\* The end of a pass leaves nothing in flight.
LEMMA EndPassOpen ==
  ASSUME EndPass
  PROVE  BatchOpen'
<1>1. batch' = NoBatch /\ assigned' = NoneAssigned
  BY DEF EndPass
<1>2. NoBatch \in [0..(0 - 1) -> Articles]
  BY DEF NoBatch
<1>3. DOMAIN batch' = {}
  BY <1>1 DEF NoBatch
<1> QED
  BY <1>1, <1>2, <1>3 DEF BatchOpen, Sent, NoneAssigned

\* A judgement reaches only the article whose headline it is of.
LEMMA AnswerOpen ==
  ASSUME BatchOpen, CallAnswers
  PROVE  BatchOpen'
<1>1. PICK n \in Nat : batch \in [0..(n - 1) -> Articles]
  BY DEF BatchOpen
<1>2. PICK indices \in SUBSET (-1..Size) :
        assigned' = [x \in Articles |->
          IF \E i \in Addressed(indices) : At(i) = x /\ i \notin DOMAIN batch
          THEN Nothing
          ELSE IF \E i \in Addressed(indices) : At(i) = x THEN x ELSE Unrated]
  BY DEF CallAnswers
<1>3. \A i \in Addressed(indices) : i \in DOMAIN batch /\ At(i) = batch[i]
  BY <1>1, SizeOfBatch DEF Addressed, At
<1>4. \A x \in Articles :
        assigned'[x] = Unrated \/ (assigned'[x] = x /\ x \in Sent)
  BY <1>2, <1>3 DEF Sent
<1> QED
  BY <1>4 DEF BatchOpen, CallAnswers, Sent

\* A load takes articles that are open.
LEMMA LoadOpen ==
  ASSUME TableOK, BatchOpen, pc = "idle" => assigned = NoneAssigned, Load
  PROVE  BatchOpen'
<1> DEFINE n == IF Cardinality(Eligible) < BatchSize THEN Cardinality(Eligible)
                                                     ELSE BatchSize
<1>1. PICK q \in [0..(n - 1) -> Eligible] : batch' = q
  BY DEF Load
<1>2. n \in Nat
  <2>1. IsFiniteSet(Eligible)
    BY ClassifierAssumption, FS_Subset DEF Eligible
  <2>2. Cardinality(Eligible) \in Nat
    BY <2>1, FS_CardinalityType
  <2> QED
    BY <2>2, ClassifierAssumption
<1>3. q \in [0..(n - 1) -> Articles]
  BY <1>1 DEF Eligible
<1>4. \A x \in Sent' : x \in Eligible
  BY <1>1 DEF Sent
<1>5. UNCHANGED <<rating, attempts, assigned>> /\ assigned = NoneAssigned
  BY DEF Load
<1> QED
  <2> HIDE DEF n
  <2> QED
    BY <1>1, <1>2, <1>3, <1>4, <1>5
       DEF BatchOpen, Eligible, Unjudged, InBudget, NoneAssigned

-----------------------------------------------------------------------------
\* Between passes nothing is assigned; outside a call no row waits for a commit.
Quiet ==
  /\ pc = "idle" => assigned = NoneAssigned
  /\ pc \in {"idle", "persist"} => pending = 0

ClassifierInv == TableOK /\ CountersOK /\ BatchOpen /\ Quiet

\* Every step keeps the invariant.
LEMMA ClassifierStep ==
  ASSUME ClassifierInv, [Next]_vars
  PROVE  ClassifierInv'
<1> USE DEF ClassifierInv
<1>1. ASSUME NEW x \in Articles, Arrive(x) PROVE ClassifierInv'
  BY <1>1 DEF Arrive, passVars, TableOK, CountersOK, BatchOpen, Sent, Quiet
<1>2. CASE Advance
  BY <1>2 DEF Advance, passVars, TableOK, CountersOK, BatchOpen, Sent, Quiet
<1>3. CASE Load
  <2>1. BatchOpen'
    BY <1>3, LoadOpen DEF Quiet
  <2> QED
    BY <1>3, <2>1 DEF Load, TableOK, CountersOK, Quiet
<1>4. CASE CallFails
  <2>1. pc' \in {"call", "answered"}
    BY <1>4 DEF CallFails
  <2> QED
    BY <1>4, <2>1 DEF CallFails, TableOK, CountersOK, BatchOpen, Sent, Quiet
<1>5. CASE CallAnswers
  <2>1. BatchOpen'
    BY <1>5, AnswerOpen
  <2> QED
    BY <1>5, <2>1 DEF CallAnswers, TableOK, CountersOK, Quiet
<1>6. CASE CommitCalls
  BY <1>6 DEF CommitCalls, Kept, TableOK, CountersOK, BatchOpen, Sent, Quiet
<1>7. CASE Persist
  <2>1. BatchOpen' /\ Quiet'
    BY <1>7, EndPassOpen DEF Persist, EndPass, Quiet
  <2>2. attempts' \in [Articles -> 0..MaxAttempts]
    BY <1>7, ClassifierAssumption DEF Persist, Counted, TableOK, BatchOpen
  <2>3. rating' \in [Articles -> Articles \cup {Unrated}]
    BY <1>7 DEF Persist, TableOK, BatchOpen
  <2> QED
    BY <1>7, <2>1, <2>2, <2>3 DEF Persist, EndPass, TableOK, CountersOK
<1>8. CASE PassFails
  <2>1. BatchOpen' /\ Quiet'
    BY <1>8, EndPassOpen DEF PassFails, EndPass, Quiet
  <2> QED
    BY <1>8, <2>1 DEF PassFails, EndPass, TableOK, CountersOK
<1>9. CASE Stop
  <2>1. BatchOpen' /\ Quiet'
    BY <1>9, EndPassOpen DEF Stop, EndPass, Quiet
  <2> QED
    BY <1>9, <2>1 DEF Stop, EndPass, TableOK, CountersOK
<1>10. CASE UNCHANGED vars
  BY <1>10 DEF vars, passVars, TableOK, CountersOK, BatchOpen, Sent, Quiet
<1> QED
  BY <1>1, <1>2, <1>3, <1>4, <1>5, <1>6, <1>7, <1>8, <1>9, <1>10
     DEF Next, PassStep

\* ... and holds from the start.
LEMMA ClassifierInvariant == Spec => []ClassifierInv
<1>1. Init => ClassifierInv
  <2> SUFFICES ASSUME Init PROVE ClassifierInv
    OBVIOUS
  <2>1. BatchOpen
    <3>1. NoBatch \in [0..(0 - 1) -> Articles]
      BY DEF NoBatch
    <3> QED
      BY <3>1 DEF Init, BatchOpen, Sent, NoBatch, NoneAssigned
  <2> QED
    BY <2>1, ClassifierAssumption
       DEF Init, ClassifierInv, TableOK, CountersOK, Quiet
<1>2. ClassifierInv /\ [Next]_vars => ClassifierInv'
  BY ClassifierStep
<1> QED
  BY <1>1, <1>2, PTL DEF Spec

-----------------------------------------------------------------------------
\* The classifier implements the abstract table: a write is one abstract pass
\* over exactly the articles sent, everything else leaves the table alone.
THEOREM Refinement == Spec => TableSpec
<1>1. Init => Table!Init
  BY DEF Init, Table!Init
<1>2. ClassifierInv /\ [Next]_vars => [Table!Next]_(Table!vars)
  <2> SUFFICES ASSUME ClassifierInv, [Next]_vars
               PROVE  Table!Next \/ UNCHANGED <<rating, attempts>>
    BY DEF Table!vars
  <2>1. CASE Persist
    <3> DEFINE placed == {x \in Articles : assigned[x] # Unrated}
    <3>1. Sent \in SUBSET Table!Open /\ placed \in SUBSET Sent
      BY DEF ClassifierInv, BatchOpen, Sent, Table!Open
    <3>2. attempts' = [x \in Articles |->
            IF x \in Sent THEN attempts[x] + 1 ELSE attempts[x]]
      BY <2>1 DEF Persist, Counted
    <3>3. rating' = [x \in Articles |-> IF x \in placed THEN x ELSE rating[x]]
      BY <2>1, <3>1 DEF Persist, ClassifierInv, BatchOpen
    <3> QED
      BY <3>1, <3>2, <3>3 DEF Table!Next, Table!Pass
  <2>2. CASE ~Persist
    BY <2>2 DEF Next, PassStep, Arrive, Advance, Load, CallFails, CallAnswers,
                CommitCalls, PassFails, Stop, vars
  <2> QED
    BY <2>1, <2>2
<1> QED
  BY <1>1, <1>2, ClassifierInvariant, PTL DEF Spec, TableSpec, Table!Spec

\* Every billed call has its row, however the call and the pass end, as long as
\* neither the database nor the process gives out.
THEOREM AccountedHolds == Spec => []Accounted
<1>1. Init => Accounted
  BY DEF Init, Accounted
<1>2. ClassifierInv /\ Accounted /\ [Next]_vars => Accounted'
  <2> SUFFICES ASSUME ClassifierInv, Accounted, [Next]_vars PROVE Accounted'
    OBVIOUS
  <2>1. CountersOK
    BY DEF ClassifierInv
  <2>2. ASSUME NEW x \in Articles, Arrive(x) PROVE Accounted'
    BY <2>2 DEF Arrive, passVars, Accounted
  <2>3. CASE Advance
    BY <2>3 DEF Advance, passVars, Accounted
  <2>4. CASE Load
    BY <2>4 DEF Load, Accounted
  <2>5. CASE CallFails
    BY <2>1, <2>5 DEF CallFails, Accounted, CountersOK
  <2>6. CASE CallAnswers
    BY <2>1, <2>6 DEF CallAnswers, Accounted, CountersOK
  <2>7. CASE CommitCalls
    BY <2>1, <2>7 DEF CommitCalls, Kept, Accounted, CountersOK
  <2>8. CASE PassFails
    BY <2>1, <2>8 DEF PassFails, Accounted, CountersOK
  <2>9. CASE Stop
    BY <2>1, <2>9 DEF Stop, Accounted, CountersOK
  <2>10. CASE UNCHANGED vars
    BY <2>10 DEF vars, passVars, Accounted
  <2>11. CASE Persist
    BY <2>11 DEF Persist, EndPass, Accounted, ClassifierInv, Quiet
  <2> QED
    BY <2>2, <2>3, <2>4, <2>5, <2>6, <2>7, <2>8, <2>9, <2>10, <2>11
       DEF Next, PassStep
<1> QED
  BY <1>1, <1>2, ClassifierInvariant, PTL DEF Spec
-----------------------------------------------------------------------------
\* How far the rows flushed by the pass and its attempts have got, and how many
\* articles it may hold.
PhaseOK ==
  /\ pc = "call" => pending = try - 1
  /\ pc # "idle" => DOMAIN batch # {}

LEMMA LoadSize ==
  ASSUME Load
  PROVE  /\ \E n \in 0..BatchSize : batch' \in [0..(n - 1) -> Articles]
         /\ DOMAIN batch' # {}
<1> DEFINE n == IF Cardinality(Eligible) < BatchSize THEN Cardinality(Eligible)
                                                     ELSE BatchSize
<1>1. IsFiniteSet(Eligible)
  BY ClassifierAssumption, FS_Subset DEF Eligible
<1>2. Cardinality(Eligible) \in Nat
  BY <1>1, FS_CardinalityType
<1>3. n \in 1..BatchSize
  BY <1>2, ClassifierAssumption DEF Load
<1>4. batch' \in [0..(n - 1) -> Eligible]
  BY DEF Load
<1> HIDE DEF n
<1>5. batch' \in [0..(n - 1) -> Articles]
  BY <1>4 DEF Eligible
<1>6. DOMAIN batch' = 0..(n - 1)
  BY <1>5
<1>7. 0 \in 0..(n - 1) /\ n \in 0..BatchSize
  BY <1>3, ClassifierAssumption
<1>8. DOMAIN batch' # {}
  BY <1>6, <1>7
<1>9. \E k \in 0..BatchSize : batch' \in [0..(k - 1) -> Articles]
  BY <1>5, <1>7
<1> QED
  BY <1>8, <1>9

\* The end of a pass is well typed.
LEMMA EndPassType ==
  ASSUME EndPass
  PROVE  /\ \E n \in 0..BatchSize : batch' \in [0..(n - 1) -> Articles]
         /\ pc' = "idle" /\ try' \in 1..MaxCalls /\ pending' \in 0..MaxCalls
         /\ assigned' \in [Articles -> Articles \cup {Unrated, Nothing}]
         /\ PhaseOK'
<1>1. NoBatch \in [0..(0 - 1) -> Articles] /\ 0 \in 0..BatchSize
  BY ClassifierAssumption DEF NoBatch
<1> QED
  BY <1>1, ClassifierAssumption DEF EndPass, NoneAssigned, PhaseOK

LEMMA TypeStep ==
  ASSUME ClassifierInv, TypeOK, PhaseOK, [Next]_vars
  PROVE  TypeOK' /\ PhaseOK'
<1>1. ASSUME NEW x \in Articles, Arrive(x) PROVE TypeOK' /\ PhaseOK'
  <2>1. age' \in [Articles -> -1..(Window + 1)]
    BY <1>1, ClassifierAssumption DEF Arrive, TypeOK
  <2> QED
    BY <1>1, <2>1 DEF Arrive, passVars, TypeOK, PhaseOK
<1>2. CASE Advance
  <2>1. age' \in [Articles -> -1..(Window + 1)]
    BY <1>2, ClassifierAssumption DEF Advance, TypeOK
  <2> QED
    BY <1>2, <2>1 DEF Advance, passVars, TypeOK, PhaseOK
<1>3. CASE Load
  <2>1. pending = 0
    BY <1>3 DEF Load, ClassifierInv, Quiet
  <2>2. /\ \E k \in 0..BatchSize : batch' \in [0..(k - 1) -> Articles]
        /\ DOMAIN batch' # {}
    BY <1>3, LoadSize
  <2>3. try' = 1 /\ pc' = "call" /\ pending' = pending /\ 1 \in 1..MaxCalls
    BY <1>3, ClassifierAssumption DEF Load
  <2>4. PhaseOK'
    BY <2>1, <2>2, <2>3 DEF PhaseOK
  <2> QED
    BY <1>3, <2>2, <2>3, <2>4 DEF Load, TypeOK
<1>4. CASE CallFails
  <2>1. pending = try - 1 /\ try \in 1..MaxCalls /\ MaxCalls \in Nat
    BY <1>4, ClassifierAssumption DEF CallFails, TypeOK, PhaseOK
  <2>2. /\ try' \in 1..MaxCalls /\ pending' \in 0..MaxCalls /\ billed' \in Nat
        /\ pc' \in {"call", "answered"} /\ (pc' = "call" => pending' = try' - 1)
    BY <1>4, <2>1 DEF CallFails, TypeOK
  <2> QED
    BY <1>4, <2>2 DEF CallFails, TypeOK, PhaseOK
<1>5. CASE CallAnswers
  <2>1. pending = try - 1 /\ try \in 1..MaxCalls /\ MaxCalls \in Nat
    BY <1>5, ClassifierAssumption DEF CallAnswers, TypeOK, PhaseOK
  <2>2. pending' \in 0..MaxCalls /\ billed' \in Nat
    BY <1>5, <2>1 DEF CallAnswers, TypeOK
  <2>3. assigned' \in [Articles -> Articles \cup {Unrated, Nothing}]
    BY <1>5 DEF CallAnswers
  <2> QED
    BY <1>5, <2>2, <2>3 DEF CallAnswers, TypeOK, PhaseOK
<1>6. CASE CommitCalls
  <2>1. ledger' \in Nat /\ pending' \in 0..MaxCalls
    BY <1>6, ClassifierAssumption DEF CommitCalls, Kept, TypeOK
  <2> QED
    BY <1>6, <2>1 DEF CommitCalls, TypeOK, PhaseOK
<1>7. CASE Persist
  <2>1. TableOK'
    BY <1>7, ClassifierStep DEF ClassifierInv
  <2> QED
    BY <1>7, <2>1, EndPassType DEF Persist, TableOK, TypeOK
<1>8. CASE PassFails
  <2>1. faults' \in 0..MaxFaults
    BY <1>8, ClassifierAssumption DEF PassFails, TypeOK
  <2> QED
    BY <1>8, <2>1, EndPassType DEF PassFails, TypeOK
<1>9. CASE Stop
  <2>1. crashes' \in 0..MaxFaults
    BY <1>9, ClassifierAssumption DEF Stop, TypeOK
  <2>2. billed' \in Nat /\ ledger' \in Nat
    BY <1>9, ClassifierAssumption DEF Stop, TypeOK
  <2> QED
    BY <1>9, <2>1, <2>2, EndPassType DEF Stop, TypeOK
<1>10. CASE UNCHANGED vars
  BY <1>10 DEF vars, passVars, TypeOK, PhaseOK
<1> QED
  BY <1>1, <1>2, <1>3, <1>4, <1>5, <1>6, <1>7, <1>8, <1>9, <1>10
     DEF Next, PassStep

LEMMA TypeInvariant == Spec => [](TypeOK /\ PhaseOK)
<1>1. Init => TypeOK /\ PhaseOK
  <2> SUFFICES ASSUME Init PROVE TypeOK /\ PhaseOK
    OBVIOUS
  <2>1. NoBatch \in [0..(0 - 1) -> Articles] /\ 0 \in 0..BatchSize
    BY ClassifierAssumption DEF NoBatch
  <2> QED
    BY <2>1, ClassifierAssumption DEF Init, TypeOK, PhaseOK, NoneAssigned
<1>2. ClassifierInv /\ TypeOK /\ PhaseOK /\ [Next]_vars => (TypeOK /\ PhaseOK)'
  BY TypeStep
<1> QED
  BY <1>1, <1>2, ClassifierInvariant, PTL DEF Spec

\* A batch never outgrows the limit, attempts never the budget, and no rating but
\* of a headline (classify.py:58-109).
THEOREM TypeCorrect == Spec => []TypeOK
BY TypeInvariant, PTL

-----------------------------------------------------------------------------
\* The attempts spent so far, each as a pair, so that they can be counted.
Spent == {p \in Articles \X (1..MaxAttempts) : p[2] <= attempts[p[1]]}

\* What the pass under way may have cost.
Running == IF pc = "idle" THEN 0 ELSE IF pc = "call" THEN try - 1 ELSE MaxCalls

\* Each pass that was over before cost MaxCalls at most, and spent an attempt or
\* was lost to a fault or a stop.
BillOK ==
  billed <= MaxCalls * (Cardinality(Spent) + faults + crashes) + Running

LEMMA SpentFinite ==
  /\ IsFiniteSet(Spent) /\ Cardinality(Spent) \in Nat
  /\ Cardinality(Spent) <= Cardinality(Articles) * MaxAttempts
  /\ \A p \in Articles \X (1..MaxAttempts) :
       p \notin Spent => Cardinality(Spent) + 1 <= Cardinality(Articles) * MaxAttempts
<1> DEFINE all == Articles \X (1..MaxAttempts)
<1>1. IsFiniteSet(1..MaxAttempts) /\ Cardinality(1..MaxAttempts) = MaxAttempts
  BY ClassifierAssumption, FS_Interval
<1>2. IsFiniteSet(all) /\ Cardinality(all) = Cardinality(Articles) * MaxAttempts
  BY <1>1, ClassifierAssumption, FS_Product
<1>3. Spent \in SUBSET all
  BY DEF Spent
<1> HIDE DEF all
<1>4. IsFiniteSet(Spent) /\ Cardinality(Spent) <= Cardinality(all)
  BY <1>2, <1>3, FS_Subset
<1>5. \A p \in all : p \notin Spent => Cardinality(Spent) + 1 <= Cardinality(all)
  <2> SUFFICES ASSUME NEW p \in all, p \notin Spent
               PROVE  Cardinality(Spent) + 1 <= Cardinality(all)
    OBVIOUS
  <2>1. Cardinality(Spent \cup {p}) = Cardinality(Spent) + 1
    BY <1>4, FS_AddElement
  <2>2. Spent \cup {p} \in SUBSET all
    BY <1>3
  <2> QED
    BY <1>2, <2>1, <2>2, FS_Subset
<1> QED
  BY <1>2, <1>4, <1>5, FS_CardinalityType DEF all

\* A pass under way has an article that has an attempt left.
LEMMA RoomLeft ==
  ASSUME ClassifierInv, PhaseOK, pc # "idle"
  PROVE  \E x \in Sent : /\ x \in Articles /\ attempts[x] + 1 \in 1..MaxAttempts
                         /\ <<x, attempts[x] + 1>> \notin Spent
<1>1. PICK i \in DOMAIN batch : TRUE
  BY DEF PhaseOK
<1>2. batch[i] \in Sent /\ batch[i] \in Articles
  BY DEF Sent, ClassifierInv, BatchOpen
<1>3. attempts[batch[i]] \in 0..MaxAttempts /\ attempts[batch[i]] < MaxAttempts
  BY <1>2 DEF ClassifierInv, BatchOpen, TableOK
<1>4. attempts[batch[i]] + 1 \in 1..MaxAttempts
  BY <1>3, ClassifierAssumption
<1>5. <<batch[i], attempts[batch[i]] + 1>> \notin Spent
  BY <1>3 DEF Spent
<1> QED
  BY <1>2, <1>4, <1>5

\* A write spends one attempt more.
LEMMA PersistSpends ==
  ASSUME ClassifierInv, PhaseOK, Persist
  PROVE  Cardinality(Spent') \in Nat /\ Cardinality(Spent') >= Cardinality(Spent) + 1
<1>1. PICK x \in Sent : /\ x \in Articles /\ attempts[x] + 1 \in 1..MaxAttempts
                        /\ <<x, attempts[x] + 1>> \notin Spent
  BY RoomLeft DEF Persist
<1>2. attempts' = [y \in Articles |-> IF y \in Sent THEN attempts[y] + 1 ELSE attempts[y]]
  BY DEF Persist, Counted
<1>3. \A y \in Articles : attempts[y] \in Nat
  BY ClassifierAssumption DEF ClassifierInv, TableOK
<1>4. Spent \cup {<<x, attempts[x] + 1>>} \in SUBSET Spent'
  BY <1>1, <1>2, <1>3 DEF Spent
<1>5. IsFiniteSet(Spent) /\ Cardinality(Spent) \in Nat
  BY SpentFinite
<1>6. Cardinality(Spent \cup {<<x, attempts[x] + 1>>}) = Cardinality(Spent) + 1
  BY <1>1, <1>5, FS_AddElement
<1>7. IsFiniteSet(Spent') /\ Cardinality(Spent') \in Nat
  <2> DEFINE all == Articles \X (1..MaxAttempts)
  <2>1. IsFiniteSet(all)
    <3>1. IsFiniteSet(1..MaxAttempts)
      BY ClassifierAssumption, FS_Interval
    <3> QED
      BY <3>1, ClassifierAssumption, FS_Product
  <2>2. Spent' \in SUBSET all
    BY DEF Spent
  <2> QED
    BY <2>1, <2>2, FS_Subset, FS_CardinalityType
<1> QED
  BY <1>4, <1>6, <1>7, FS_Subset

\* What one more unit costs.
LEMMA OneMore ==
  ASSUME NEW k \in Nat, NEW m \in Nat, NEW n \in Nat, m + 1 <= n
  PROVE  k * m \in Nat /\ k * n \in Nat /\ k * m + k <= k * n
<1>1. k * (m + 1) = k * m + k
  BY SMT
<1>2. PICK d \in Nat : n = m + 1 + d
  <2>1. n - (m + 1) \in Nat /\ n = m + 1 + (n - (m + 1))
    OBVIOUS
  <2> QED
    BY <2>1
<1>3. k * n = k * (m + 1) + k * d /\ k * d \in Nat /\ k * m \in Nat
  BY <1>2, SMT
<1> QED
  BY <1>1, <1>3

LEMMA BillStep ==
  ASSUME ClassifierInv, TypeOK, PhaseOK, BillOK, [Next]_vars
  PROVE  BillOK'
<1> DEFINE passes == Cardinality(Spent) + faults + crashes
<1>1. /\ Cardinality(Spent) \in Nat /\ faults \in Nat /\ crashes \in Nat
      /\ MaxCalls \in Nat \ {0} /\ billed \in Nat /\ try \in 1..MaxCalls
  BY SpentFinite, ClassifierAssumption DEF TypeOK
<1>2. billed <= MaxCalls * passes + Running
  BY DEF BillOK
<1>3. passes \in Nat
  BY <1>1
<1>4. MaxCalls * passes \in Nat
  BY <1>1, <1>3
<1>5. Running \in 0..MaxCalls
  BY <1>1 DEF Running
<1>6. ASSUME UNCHANGED <<attempts, faults, crashes>>,
             billed' <= MaxCalls * passes + Running'
      PROVE  BillOK'
  <2>1. Spent' = Spent
    BY <1>6 DEF Spent
  <2> QED
    BY <1>6, <2>1 DEF BillOK
<1>7. ASSUME NEW n \in Nat, n = Cardinality(Spent') + faults' + crashes',
             n >= passes + 1, Running' = 0, billed' <= MaxCalls * passes + MaxCalls
      PROVE  BillOK'
  <2>1. MaxCalls * passes + MaxCalls <= MaxCalls * n /\ MaxCalls * n \in Nat
    <3> HIDE DEF passes
    <3> QED
      BY <1>1, <1>3, <1>7, OneMore
  <2>2. billed' <= MaxCalls * n
    <3>1. billed' \in Nat
      BY TypeStep DEF TypeOK
    <3> HIDE DEF passes
    <3> QED
      BY <1>1, <1>4, <1>7, <2>1, <3>1
  <2> QED
    BY <1>7, <2>1, <2>2 DEF BillOK
<1> HIDE DEF passes
<1>8. ASSUME NEW x \in Articles, Arrive(x) PROVE BillOK'
  BY <1>2, <1>6, <1>8 DEF Arrive, passVars, Running
<1>9. CASE Advance
  BY <1>2, <1>6, <1>9 DEF Advance, passVars, Running
<1>10. CASE Load
  BY <1>2, <1>6, <1>10 DEF Load, Running
<1>11. CASE CallFails
  <2>1. billed' = billed + 1 /\ Running = try - 1 /\ Running' = try
    BY <1>1, <1>11 DEF CallFails, Running
  <2> QED
    BY <1>1, <1>2, <1>4, <1>6, <1>11, <2>1 DEF CallFails
<1>12. CASE CallAnswers
  <2>1. billed' = billed + 1 /\ Running = try - 1 /\ Running' = MaxCalls
    BY <1>12 DEF CallAnswers, Running
  <2> QED
    BY <1>1, <1>2, <1>4, <1>6, <1>12, <2>1 DEF CallAnswers
<1>13. CASE CommitCalls
  BY <1>2, <1>6, <1>13 DEF CommitCalls, Running
<1>14. CASE Persist
  <2>1. Cardinality(Spent') \in Nat /\ Cardinality(Spent') >= Cardinality(Spent) + 1
    BY <1>14, PersistSpends
  <2>2. /\ faults' = faults /\ crashes' = crashes /\ billed' = billed
        /\ Running' = 0
    BY <1>14 DEF Persist, EndPass, Running
  <2>3. billed' <= MaxCalls * passes + MaxCalls
    BY <1>1, <1>2, <1>4, <1>5, <2>2
  <2> QED
    BY <1>1, <1>7, <2>1, <2>2, <2>3 DEF passes
<1>15. CASE PassFails
  <2>1. /\ Spent' = Spent /\ faults' = faults + 1 /\ crashes' = crashes
        /\ billed' = billed /\ Running' = 0
    BY <1>15 DEF PassFails, EndPass, Running, Spent
  <2>2. billed' <= MaxCalls * passes + MaxCalls
    BY <1>1, <1>2, <1>4, <1>5, <2>1
  <2> QED
    BY <1>1, <1>7, <2>1, <2>2 DEF passes
<1>16. CASE Stop
  <2>1. /\ Spent' = Spent /\ faults' = faults /\ crashes' = crashes + 1
        /\ Running' = 0
    BY <1>16 DEF Stop, EndPass, Running, Spent
  <2>2. billed' <= MaxCalls * passes + MaxCalls
    <3>1. CASE pc = "call"
      <4>1. billed' <= billed + 1 /\ Running = try - 1
        BY <1>1, <1>16, <3>1 DEF Stop, Running
      <4>2. billed' \in Nat
        BY TypeStep DEF TypeOK
      <4> QED
        BY <1>1, <1>2, <1>4, <4>1, <4>2
    <3>2. CASE pc # "call"
      <4>1. billed' = billed
        BY <1>16, <3>2 DEF Stop
      <4> QED
        BY <1>1, <1>2, <1>4, <1>5, <4>1
    <3> QED
      BY <3>1, <3>2
  <2> QED
    BY <1>1, <1>7, <2>1, <2>2 DEF passes
<1>17. CASE UNCHANGED vars
  BY <1>2, <1>6, <1>17 DEF vars, passVars, Running
<1> QED
  BY <1>8, <1>9, <1>10, <1>11, <1>12, <1>13, <1>14, <1>15, <1>16, <1>17
     DEF Next, PassStep

\* However often the model refuses an article, what is paid for the table is bounded
\* by its attempts: MaxCalls for each attempt of each article, and MaxCalls for each
\* pass lost to an error or a stop (classify.py:87-95, config.py:69-71).
THEOREM BillBoundedHolds == Spec => []BillBounded
<1>1. Init => BillOK
  <2> SUFFICES ASSUME Init PROVE BillOK
    OBVIOUS
  <2>1. Cardinality(Spent) \in Nat /\ MaxCalls \in Nat
    BY SpentFinite, ClassifierAssumption
  <2>2. MaxCalls * (Cardinality(Spent) + 0 + 0) \in Nat
    BY <2>1
  <2> QED
    BY <2>2 DEF Init, BillOK, Running
<1>2. ClassifierInv /\ TypeOK /\ PhaseOK /\ BillOK /\ [Next]_vars => BillOK'
  BY BillStep
<1>3. ClassifierInv /\ TypeOK /\ PhaseOK /\ BillOK => BillBounded
  <2> SUFFICES ASSUME ClassifierInv, TypeOK, PhaseOK, BillOK PROVE BillBounded
    OBVIOUS
  <2> DEFINE spent == Cardinality(Spent) + faults + crashes
             all == Cardinality(Articles) * MaxAttempts + faults + crashes
  <2>1. /\ Cardinality(Spent) \in Nat /\ faults \in Nat /\ crashes \in Nat
        /\ MaxCalls \in Nat \ {0} /\ billed \in Nat /\ try \in 1..MaxCalls
        /\ Cardinality(Articles) * MaxAttempts \in Nat
    BY SpentFinite, ClassifierAssumption, FS_CardinalityType DEF TypeOK
  <2>2. spent \in Nat /\ all \in Nat
    BY <2>1
  <2>3. billed <= MaxCalls * spent + Running
    BY DEF BillOK
  <2>4. CASE pc = "idle"
    <3>1. spent <= all /\ Running = 0
      BY <2>1, <2>4, SpentFinite DEF Running
    <3>2. MaxCalls * spent \in Nat /\ MaxCalls * spent <= MaxCalls * all
      <4> HIDE DEF spent, all
      <4>1. CASE spent = all
        BY <2>1, <2>2, <4>1
      <4>2. CASE spent # all
        <5>1. spent + 1 <= all
          BY <2>2, <3>1, <4>2
        <5> QED
          BY <2>1, <2>2, <5>1, OneMore
      <4> QED
        BY <4>1, <4>2
    <3>3. MaxCalls * all \in Nat
      BY <2>1, <2>2
    <3>4. billed <= MaxCalls * all
      <4> HIDE DEF spent, all
      <4> QED
        BY <2>1, <2>3, <3>1, <3>2, <3>3
    <3> QED
      BY <3>4 DEF BillBounded
  <2>5. CASE pc # "idle"
    <3>1. Cardinality(Spent) + 1 <= Cardinality(Articles) * MaxAttempts
      BY <2>5, RoomLeft, SpentFinite
    <3>2. spent + 1 <= all
      BY <2>1, <3>1
    <3>3. MaxCalls * spent + MaxCalls <= MaxCalls * all /\ MaxCalls * spent \in Nat
          /\ MaxCalls * all \in Nat
      <4> HIDE DEF spent, all
      <4> QED
        BY <2>1, <2>2, <3>2, OneMore
    <3>4. Running \in 0..MaxCalls
      BY <2>1 DEF Running
    <3>5. billed <= MaxCalls * all
      <4> HIDE DEF spent, all
      <4> QED
        BY <2>1, <2>3, <3>3, <3>4
    <3> QED
      BY <3>5 DEF BillBounded
  <2> QED
    BY <2>4, <2>5
<1> QED
  BY <1>1, <1>2, <1>3, ClassifierInvariant, TypeInvariant, PTL DEF Spec
=============================================================================
