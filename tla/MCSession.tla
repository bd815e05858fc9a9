------------------------------ MODULE MCSession ------------------------------
(***************************************************************************)
(* Session for TLC: a tab that makes two calls at once, and maybe another  *)
(* that makes a third.                                                     *)
(***************************************************************************)
EXTENDS Session

CONSTANTS t1, t2, v1, v2, v3

Owner == [c \in Calls |-> IF c = v3 THEN t2 ELSE t1]
=============================================================================
