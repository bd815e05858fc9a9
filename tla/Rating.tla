-------------------------------- MODULE Rating --------------------------------
(***************************************************************************)
(* What the classifier promises of the article table, with its sessions,   *)
(* model calls, retries and crashes left out: a pass counts one attempt    *)
(* against each article it sent, gives some of them the judgement the model*)
(* made of their own headline, and never touches an article that is already*)
(* rated or whose attempts are spent.                                      *)
(***************************************************************************)
EXTENDS Integers

CONSTANTS Articles, MaxAttempts, Unrated

VARIABLES
  rating,   \* rating[x]: the headline x was judged by, or Unrated
  attempts  \* attempts[x]: category_attempts

vars == <<rating, attempts>>

Open == {x \in Articles : rating[x] = Unrated /\ attempts[x] < MaxAttempts}

Init ==
  /\ rating = [x \in Articles |-> Unrated]
  /\ attempts = [x \in Articles |-> 0]

Pass(sent, placed) ==
  /\ attempts' = [x \in Articles |->
       IF x \in sent THEN attempts[x] + 1 ELSE attempts[x]]
  /\ rating' = [x \in Articles |-> IF x \in placed THEN x ELSE rating[x]]

Next == \E sent \in SUBSET Open : \E placed \in SUBSET sent : Pass(sent, placed)

Spec == Init /\ [][Next]_vars
=============================================================================
