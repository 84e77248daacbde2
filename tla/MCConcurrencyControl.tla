------------------------ MODULE MCConcurrencyControl ------------------------
(* Instances of ConcurrencyControl for TLC: two limited queues, more calls  *)
(* than slots, and two calls per execution id (a resume asked for twice).   *)
EXTENDS ConcurrencyControl, TLC

Symmetric == Permutations(Calls) \cup Permutations(Executions)

\* The configured default, -1: no limit.
Unlimited == -1
=============================================================================
