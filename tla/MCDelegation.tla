---------------------------- MODULE MCDelegation ----------------------------
(* Small instance of Delegation: the window holds two rounds, and the third  *)
(* model call of an investigation may come after more than that.             *)
EXTENDS Delegation

MCRounds == [dashboard |-> 2, investigation |-> 3]
=============================================================================
