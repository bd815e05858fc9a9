----------------------------- MODULE MCScheduler -----------------------------
(***************************************************************************)
(* Two sources, s1 and s2, polling u1 and u2 (u3 is a url an admin may move*)
(* s1 to), for TLC. The feeds roll: a new version drops what the old one   *)
(* listed, and in "shared" the two mastheads carry the same story.         *)
(***************************************************************************)
EXTENDS Scheduler

CONSTANTS s1, s2, u1, u2, u3, x1, x2, x3, c1, r1, r2

OneCity == [s \in Sources |-> c1]

OwnUrl   == [s \in Sources |-> IF s = s1 THEN {u1} ELSE {u2}]
MovedUrl == [s \in Sources |-> IF s = s1 THEN {u1, u3} ELSE {u2}]

\* Always due: with MaxAge = 0 the clock stands still.
IntervalZero  == [s \in Sources |-> {0}]
IntervalTwo   == [s \in Sources |-> {2}]

\* u1 and u2 both list x1 at first; u1 goes on to x2, u2 keeps x1.
SharedEntries ==
  [u \in Urls |-> [v \in Versions |->
     CASE u = u1 -> IF v = 1 THEN {x1} ELSE {x1, x2}
       [] u = u2 -> IF v = 1 THEN {x1} ELSE {x2}
       [] OTHER  -> {x3}]]

\* Every feed its own stories, one per version.
OwnEntries ==
  [u \in Urls |-> [v \in Versions |->
     CASE u = u1 -> IF v = 1 THEN {x1} ELSE {x2}
       [] OTHER  -> {x3}]]
=============================================================================
