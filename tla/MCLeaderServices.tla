-------------------------- MODULE MCLeaderServices ---------------------------
(* Instances of LeaderServices for TLC.  The executions, the workflows and  *)
(* the cycles of queue recovery share nothing but the role of the main: the *)
(* initial states have executions; or a workflow that users and errors of   *)
(* its trigger deal with; or all the workflows active, for what a removal or*)
(* an activation that ends halfway does to the others.  The cycles run, and *)
(* the main steps down a second time, beside executions only. The main that *)
(* starts with all workflows active is the leader, and at most two commands *)
(* are on their way at once.                                                *)
EXTENDS LeaderServices

NoExecutions == \A e \in Executions : row[e] = "ended"
TheOne == CHOOSE w \in Workflows : TRUE
AllActive == role = "leader" /\ dbActive = Workflows /\ commands = MaxCommands

MCInit == /\ Init
          /\ \/ dbActive = {} /\ commands = MaxCommands
             \/ NoExecutions /\ (AllActive \/ dbActive \subseteq {TheOne})
MCNext == /\ Next
          /\ NoExecutions => recovery'.runs = recovery.runs
          /\ \A t \in tasks' : t.op = "activate" => t.w = TheOne
          /\ changes' > 1 => ~NoExecutions
          /\ Len(channel') <= 2
MCSpec == MCInit /\ [][MCNext]_vars /\ Fairness
=============================================================================
