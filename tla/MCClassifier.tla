----------------------------- MODULE MCClassifier -----------------------------
(***************************************************************************)
(* Classifier for TLC: three articles and batches of two, so that one is   *)
(* always left for a later pass. Articles are interchangeable, and fairness*)
(* rules out a SYMMETRY: they arrive in a fixed order instead.             *)
(***************************************************************************)
EXTENDS Classifier

CONSTANTS x1, x2, x3

InOrder == {<<x1, x2>>, <<x2, x3>>}
=============================================================================
