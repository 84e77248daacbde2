---------------------------- MODULE MCTaskBroker -----------------------------
(* Instances of TaskBroker for TLC: a runner and a launcher, two requests   *)
(* competing for the offers.                                                *)
EXTENDS TaskBroker, TLC

Symmetric == Permutations(Requests)
=============================================================================
