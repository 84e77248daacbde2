---------------------------- MODULE MCRegularMode ----------------------------
(* Instances of RegularMode for TLC.  One slot, so that a second execution  *)
(* is throttled; enough calls to resume one execution twice.                *)
EXTENDS RegularMode, TLC

Webhooks == [e \in Executions |-> "webhook"]
SymmetricCalls == Permutations(Calls)
SymmetricExecutions == Permutations(Calls) \cup Permutations(Executions)

\* One stop request at a time, and one call that an error has ended or is ending, beside
\* one other call.
Erred == {c \in Calls : run[c].pc \in {"threw", "failed", "erring"}}
OneStopOneError ==
    /\ Cardinality({e \in Executions : stops[e] # "none"}) <= 1
    /\ Erred # {} => Cardinality(Erred) = 1 /\ \E c \in Calls : run[c] = IdleCall

\* The configured default, -1: no limit.
Unlimited == -1
=============================================================================
