--------------------------- MODULE LeaderServices ----------------------------
(***************************************************************************)
(* What one main process of a multi-main setup runs while it is the        *)
(* leader: the tracking of waiting executions (WaitTracker), the triggers  *)
(* and pollers of the active workflows (ActiveWorkflowManager), pruning    *)
(* (ExecutionsPruningService) and queue recovery (ScalingService).  The    *)
(* role changes as in Leadership; the handlers of "leader-stepdown" and    *)
(* "leader-takeover" start what they start without awaiting it.            *)
(*                                                                         *)
(* The other mains, users and workers are the environment: they publish    *)
(* commands, resume executions and end them.                               *)
(***************************************************************************)
EXTENDS Naturals, Sequences, FiniteSets

CONSTANTS
    Executions, Workflows,
    MaxChanges,  \* bound on the steps down
    MaxCommands, \* bound on what users do, and on the errors of running triggers
    MaxWaits,    \* bound on the times executions go to waiting
    None

ASSUME LeaderServicesAssumption ==
    /\ MaxChanges \in Nat /\ MaxCommands \in Nat /\ MaxWaits \in Nat
    /\ None \notin Workflows

VARIABLES
    role, attempt, \* attempt: tryBecomeLeader is under way
    \* WaitTracker
    row,           \* [Executions -> status in the database]
    entry,         \* [Executions -> Entry], waitingExecutions
    tracking,      \* the interval of mainTimer runs
    found,         \* results of getWaitingExecutions not yet handled
    resuming,      \* executions in startExecution, before the claim
    \* ActiveWorkflowManager
    dbActive,      \* workflows with an active version
    active,        \* workflows with an entry in activeWorkflows: triggers, pollers
    loop,          \* addActiveWorkflows
    queued,        \* workflows with a retry timer (queuedActivations)
    refused,       \* workflows not retried, after an error of authorization
    channel,       \* commands on their way to the leader
    tasks,         \* commands being handled, deactivations being written
    removing,      \* what removeAllTriggerAndPollerBasedWorkflows has left, by step down
    \* timers of the other services
    softDeletion,  \* number of soft deletion intervals that run
    recovery,      \* [latest, others, runs]: timers and runs of queue recovery
    \* bounds, history
    changes, commands, waits,
    late,          \* a result was on its way when the main stepped down
    raced,         \* workflows with an operation that overlapped another one
    failed         \* workflows with an operation that threw, since the last step down

tracker == <<row, entry, tracking, found, resuming, waits, late>>
manager == <<dbActive, active, loop, queued, refused, channel, tasks, removing, commands,
             raced, failed>>
timers == <<softDeletion, recovery>>
vars == <<role, attempt, changes, tracker, manager, timers>>
-----------------------------------------------------------------------------
Entry == {"none", "armed", "cleared"} \* "cleared": there, but its timer was cleared
Idle == [on |-> FALSE, left |-> {}, now |-> None, may |-> FALSE]
Command == [op : {"add", "remove"}, w : Workflows]
Task == [op : {"add", "remove", "close", "activate", "write"}, w : Workflows,
         step : {"asked", "adds", "passes", "closing", "written"}]

TypeOK ==
    /\ role \in {"leader", "follower"} /\ attempt \in BOOLEAN
    /\ row \in [Executions -> {"running", "waiting", "ended"}]
    /\ entry \in [Executions -> Entry]
    /\ tracking \in BOOLEAN /\ late \in BOOLEAN
    /\ found \subseteq SUBSET Executions /\ resuming \subseteq Executions
    /\ dbActive \subseteq Workflows /\ active \subseteq Workflows
    /\ loop \in [on : BOOLEAN, left : SUBSET Workflows, now : Workflows \cup {None},
                 may : BOOLEAN]
    /\ queued \cup refused \subseteq Workflows
    /\ removing \in [1..MaxChanges -> SUBSET Workflows]
    /\ channel \in Seq(Command) /\ tasks \subseteq Task
    /\ softDeletion \in Nat
    /\ recovery \in [latest : BOOLEAN, others : Nat, runs : Nat]
    /\ changes \in 0..MaxChanges /\ commands \in 0..MaxCommands /\ waits \in 0..MaxWaits
    /\ raced \cup failed \subseteq Workflows

(* Some operation on w is on its way or under way: the activation on       *)
(* takeover, a removal on step down, a command or one of the tasks S.      *)
BeingRemoved(w) == \E k \in 1..MaxChanges : w \in removing[k]
BusyWith(S, w) == \/ w \in loop.left \/ BeingRemoved(w)
                  \/ \E t \in S : t.w = w
                  \/ \E i \in DOMAIN channel : channel[i].w = w
Busy(w) == BusyWith(tasks, w)
BusyOnes == {w \in Workflows : Busy(w)}

(* addActiveWorkflows returns at once when it is under way, and reads the  *)
(* active workflows otherwise.                                             *)
addActiveWorkflows == loop' = IF loop.on THEN loop ELSE [Idle EXCEPT !.on = TRUE, !.left = dbActive]

(* The timer that is made is the one the context names.                    *)
Scheduled(r) == [latest |-> TRUE, others |-> IF r.latest THEN r.others + 1 ELSE r.others,
                 runs |-> r.runs]

(* The query is asked, and reads what waits: its result comes later.       *)
getWaitingExecutions == found' = found \cup {{e \in Executions : row[e] = "waiting"}}

(* init of the services, as leader or as follower: only the activation is  *)
(* started by either, for a follower adds the webhooks.                    *)
Init ==
    /\ role \in {"leader", "follower"} /\ attempt = FALSE
    /\ row \in [Executions -> {"running", "waiting", "ended"}]
    /\ entry = [e \in Executions |-> "none"]
    /\ tracking = (role = "leader")
    /\ found = IF tracking THEN {{e \in Executions : row[e] = "waiting"}} ELSE {}
    /\ resuming = {}
    /\ dbActive \in SUBSET Workflows /\ active = {}
    /\ loop = [Idle EXCEPT !.on = TRUE, !.left = dbActive]
    /\ queued = {} /\ refused = {} /\ channel = <<>> /\ tasks = {}
    /\ removing = [k \in 1..MaxChanges |-> {}]
    /\ softDeletion = IF role = "leader" THEN 1 ELSE 0
    /\ recovery = [latest |-> role = "leader", others |-> 0, runs |-> 0]
    /\ changes = 0 /\ commands \in {0, MaxCommands} /\ waits = 0
    /\ late = FALSE /\ raced = {} /\ failed = {}
-----------------------------------------------------------------------------
(* The role *)

(* Mutant: the timers of the executions go on. *)
StoppedPolling == tracking' = FALSE /\ UNCHANGED entry

(* Mutant: another name for an entry without a timer. *)
StoppedTrackingSpelling ==
    /\ tracking' = FALSE
    /\ entry' = [e \in Executions |-> IF entry[e] = "armed" THEN "stopped" ELSE entry[e]]

(* stopTracking *)
StoppedTracking ==
    /\ tracking' = FALSE
    /\ entry' = [e \in Executions |-> IF entry[e] = "armed" THEN "cleared" ELSE entry[e]]

(* Mutant: the triggers are left alone. *)
RemovesNothing == UNCHANGED removing

(* removeAllTriggerAndPollerBasedWorkflows takes the ids that are active.  *)
RemovesAll == removing' = [removing EXCEPT ![changes + 1] = active]

(* checkLeader finds another leader, or the key vacant.  stopPruning does  *)
(* nothing, for isEnabled asks for the role and the role has changed.      *)
StepDown(vacant) ==
    /\ changes < MaxChanges /\ ~attempt
    /\ role = "leader" \/ vacant
    /\ role' = "follower" /\ attempt' = vacant /\ changes' = changes + 1
    /\ StoppedTracking
    /\ late' = (found # {})
    /\ RemovesAll
    /\ raced' = BusyOnes /\ failed' = {}
    /\ recovery' = [recovery EXCEPT !.latest = FALSE]
    /\ UNCHANGED <<row, found, resuming, waits, dbActive, active, loop, queued, refused, channel,
                   tasks, commands, softDeletion>>

TakeOver ==
    /\ attempt
    /\ attempt' = FALSE /\ role' = "leader"
    /\ tracking' = TRUE /\ getWaitingExecutions
    /\ addActiveWorkflows
    /\ softDeletion' = softDeletion + 1
    /\ recovery' = Scheduled(recovery)
    /\ raced' = raced \cup (IF loop.on THEN Workflows ELSE BusyOnes)
    /\ UNCHANGED <<changes, row, entry, resuming, waits, late, dbActive, active, queued, refused,
                   channel, tasks, removing, commands, failed>>

AttemptFails ==
    /\ attempt /\ attempt' = FALSE
    /\ UNCHANGED <<role, changes, tracker, manager, timers>>
-----------------------------------------------------------------------------
(* WaitTracker *)

(* Mutant: the interval is not set. *)
PollNever == FALSE /\ UNCHANGED vars

Poll ==
    /\ tracking /\ getWaitingExecutions
    /\ UNCHANGED <<role, attempt, changes, row, entry, tracking, resuming, waits, late,
                   manager, timers>>

(* A timer for each execution that has no entry.                           *)
SetTimers == \E S \in found :
    /\ found' = found \ {S}
    /\ entry' = [e \in Executions |-> IF e \in S /\ entry[e] = "none" THEN "armed" ELSE entry[e]]
    /\ UNCHANGED <<role, attempt, changes, row, tracking, resuming, waits, late, manager, timers>>

(* startExecution deletes the entry first,                                 *)
startExecution(e) ==
    /\ entry[e] = "armed"
    /\ entry' = [entry EXCEPT ![e] = "none"]
    /\ resuming' = resuming \cup {e}
    /\ UNCHANGED <<role, attempt, changes, row, tracking, found, waits, late, manager, timers>>

(* reads the execution, and is refused by run unless it still waits.       *)
RunResumed(e) ==
    /\ e \in resuming /\ resuming' = resuming \ {e}
    /\ row' = IF row[e] = "waiting" THEN [row EXCEPT ![e] = "running"] ELSE row
    /\ UNCHANGED <<role, attempt, changes, entry, tracking, found, waits, late, manager, timers>>

(* A user stops a waiting execution on this main.                          *)
stopExecution(e) ==
    /\ row[e] = "waiting"
    /\ row' = [row EXCEPT ![e] = "ended"]
    /\ entry' = [entry EXCEPT ![e] = "none"]
    /\ UNCHANGED <<role, attempt, changes, tracking, found, resuming, waits, late, manager, timers>>

(* Elsewhere: the execution goes on, waits again, ends, or is resumed.     *)
RowChanges(e) ==
    /\ \/ /\ row[e] = "running" /\ waits < MaxWaits /\ waits' = waits + 1
          /\ row' = [row EXCEPT ![e] = "waiting"]
       \/ /\ row[e] = "running" /\ UNCHANGED waits
          /\ row' = [row EXCEPT ![e] = "ended"]
       \/ /\ row[e] = "waiting" /\ UNCHANGED waits
          /\ row' = [row EXCEPT ![e] = "running"]
    /\ UNCHANGED <<role, attempt, changes, entry, tracking, found, resuming, late, manager, timers>>

Tracker == Poll \/ SetTimers \/ \E e \in Executions :
               startExecution(e) \/ RunResumed(e) \/ stopExecution(e) \/ RowChanges(e)
-----------------------------------------------------------------------------
(* ActiveWorkflowManager *)

(* One workflow after the other (activationBatchSize): activateWorkflow    *)
(* reads it, and add asks for the role before it awaits anything.          *)
activateWorkflow(w) ==
    /\ loop.on /\ loop.now = None /\ w \in loop.left
    /\ loop' = IF w \in dbActive
               THEN [loop EXCEPT !.now = w, !.may = (role = "leader")]
               ELSE [loop EXCEPT !.left = @ \ {w}]
    /\ UNCHANGED <<role, attempt, changes, tracker, dbActive, active, queued, refused, channel, tasks,
                   removing, commands, raced, failed, timers>>

LoopGoesOn == loop' = [loop EXCEPT !.left = @ \ {loop.now}, !.now = None, !.may = FALSE]

(* add has run the triggers: nothing is left to retry.                     *)
Activated ==
    /\ loop.now # None /\ LoopGoesOn
    /\ active' = IF loop.may THEN active \cup {loop.now} ELSE active
    /\ queued' = queued \ {loop.now} /\ refused' = refused \ {loop.now}
    /\ UNCHANGED <<role, attempt, changes, tracker, dbActive, channel, tasks, removing, commands,
                   raced, failed, timers>>

(* Mutant: a workflow that fails is not retried. *)
ActivationFailsForGood ==
    /\ loop.now # None /\ LoopGoesOn
    /\ UNCHANGED <<role, attempt, changes, tracker, dbActive, active, queued, refused, channel, tasks,
                   removing, commands, raced, failed, timers>>

(* What an add that throws leaves of w in activeWorkflows: nothing new, or,*)
(* when its triggers ran before a poll node or a later call threw, w.      *)
Leaves(w, may) == \/ UNCHANGED active
                  \/ may /\ active' = active \cup {w}

(* addQueuedWorkflowActivation, unless the error is one of authorization.   *)
ActivationFails ==
    /\ loop.now # None /\ LoopGoesOn
    /\ Leaves(loop.now, loop.may)
    /\ \/ queued' = queued \cup {loop.now} /\ UNCHANGED refused
       \/ refused' = refused \cup {loop.now} /\ UNCHANGED queued
    /\ UNCHANGED <<role, attempt, changes, tracker, dbActive, channel, tasks, removing,
                   commands, raced, failed, timers>>

(* No workflow is left, or a query threw and the rest is given up.         *)
LoopEnds ==
    /\ loop.on /\ loop.now = None
    /\ loop' = Idle
    /\ failed' = failed \cup loop.left
    /\ UNCHANGED <<role, attempt, changes, tracker, dbActive, active, queued, refused, channel, tasks,
                   removing, commands, raced, timers>>

publishCommand(op, w) == channel' = Append(channel, [op |-> op, w |-> w])

(* An operation on w starts, or goes on, while another one is under way.   *)
Notes(w, others) == raced' = IF BusyWith(others, w) THEN raced \cup {w} ELSE raced

(* add with an id, in a multi-main setup: the retry asks the leader.       *)
RetryActivation(w) ==
    /\ w \in queued /\ queued' = queued \ {w}
    /\ publishCommand("add", w) /\ Notes(w, tasks)
    /\ UNCHANGED <<role, attempt, changes, tracker, dbActive, active, loop, refused, tasks, removing,
                   commands, failed, timers>>

(* emitError of a trigger that runs: the workflow is removed from memory,  *)
(* which nobody waits for, and its activation is queued.                   *)
emitError(w) ==
    /\ commands < MaxCommands /\ commands' = commands + 1
    /\ w \in active
    /\ tasks' = tasks \cup {[op |-> "close", w |-> w, step |-> "closing"]}
    /\ queued' = queued \cup {w} /\ Notes(w, tasks)
    /\ UNCHANGED <<role, attempt, changes, tracker, dbActive, active, loop, refused, channel, removing,
                   failed, timers>>

(* A user activates a workflow, on any main: what is active is removed     *)
(* first, by a command.                                                    *)
UserActivates(w) ==
    /\ commands < MaxCommands /\ commands' = commands + 1
    /\ IF w \in dbActive THEN publishCommand("remove", w) ELSE UNCHANGED channel
    /\ tasks' = tasks \cup {[op |-> "activate", w |-> w, step |-> "asked"]}
    /\ Notes(w, tasks)
    /\ UNCHANGED <<role, attempt, changes, tracker, dbActive, active, loop, queued, refused, removing,
                   failed, timers>>

(* remove publishes; the row is written after it.                          *)
UserDeactivates(w) ==
    /\ commands < MaxCommands /\ commands' = commands + 1
    /\ w \in dbActive
    /\ publishCommand("remove", w) /\ Notes(w, tasks)
    /\ tasks' = tasks \cup {[op |-> "write", w |-> w, step |-> "asked"]}
    /\ UNCHANGED <<role, attempt, changes, tracker, dbActive, active, loop, queued, refused, removing,
                   failed, timers>>

(* A command reaches this main, which handles it if it is the leader by    *)
(* then; if not another main may be.                                       *)
Receive ==
    /\ channel # <<>> /\ channel' = Tail(channel)
    /\ tasks' = IF role = "leader"
                THEN tasks \cup {[op |-> Head(channel).op, w |-> Head(channel).w, step |-> "asked"]}
                ELSE tasks
    /\ UNCHANGED <<role, attempt, changes, tracker, dbActive, active, loop, queued, refused, removing,
                   commands, raced, failed, timers>>

Step(t, step) == tasks' = (tasks \ {t}) \cup {[t EXCEPT !.step = step]}
Done(t) == tasks' = tasks \ {t}

(* add throws, at once or with the triggers on: the row is made inactive.  *)
Fails(t) ==
    /\ Done(t) /\ dbActive' = dbActive \ {t.w}
    /\ Leaves(t.w, t.step = "adds")
    /\ \/ UNCHANGED queued
       \/ t.step # "asked" /\ queued' = queued \ {t.w}
    /\ failed' = failed \cup ({t.w} \cap active')
    /\ UNCHANGED refused

(* handleAddWebhooksTriggersAndPollers: add reads the workflow, asks for   *)
(* the role, and adds the triggers.                                        *)
HandleAdd(t) ==
    /\ t.op = "add"
    /\ \/ /\ t.step = "asked" /\ t.w \in dbActive
          /\ Step(t, IF role = "leader" THEN "adds" ELSE "passes")
          /\ UNCHANGED <<dbActive, active, queued, refused, failed>>
       \/ /\ t.step = "asked" /\ t.w \notin dbActive /\ Fails(t)
       \/ /\ t.step \in {"adds", "passes"} /\ Done(t)
          /\ active' = IF t.step = "adds" THEN active \cup {t.w} ELSE active
          /\ queued' = queued \ {t.w} /\ refused' = refused \ {t.w}
          /\ UNCHANGED <<dbActive, failed>>
       \/ t.step \in {"adds", "passes"} /\ Fails(t)
    /\ UNCHANGED <<channel, raced>>

(* handleRemoveTriggersAndPollers awaits the activation error, then, as    *)
(* emitError does, the close functions of the triggers.  Either may throw, *)
(* and then the entry stays.                                               *)
HandleRemove(t) ==
    /\ t.op \in {"remove", "close"}
    /\ \/ t.step = "asked" /\ t.w \in active /\ Step(t, "closing") /\ UNCHANGED <<active, failed>>
       \/ t.step = "asked" /\ t.w \notin active /\ Done(t) /\ UNCHANGED <<active, failed>>
       \/ t.step = "closing" /\ Done(t) /\ active' = active \ {t.w} /\ UNCHANGED failed
       \/ Done(t) /\ failed' = failed \cup ({t.w} \cap active) /\ UNCHANGED active
    /\ UNCHANGED <<dbActive, queued, refused, channel, raced>>

(* activateWorkflow of a user writes the row, runs the hooks and publishes;*)
(* a hook that throws has the row written back.                            *)
Activate(t) ==
    /\ t.op = "activate"
    /\ \/ /\ t.step = "asked" /\ Step(t, "written")
          /\ dbActive' = dbActive \cup {t.w} /\ UNCHANGED <<channel, raced>>
       \/ /\ t.step = "written" /\ Done(t)
          /\ publishCommand("add", t.w) /\ Notes(t.w, tasks \ {t}) /\ UNCHANGED dbActive
       \/ /\ t.step = "written" /\ Done(t)
          /\ dbActive' = dbActive \ {t.w} /\ UNCHANGED <<channel, raced>>
    /\ UNCHANGED <<active, queued, refused, failed>>

(* deactivateWorkflow, on some main, writes the row.                       *)
WriteInactive(t) ==
    /\ t.op = "write" /\ Done(t)
    /\ dbActive' = dbActive \ {t.w}
    /\ UNCHANGED <<active, queued, refused, channel, raced, failed>>

HandleTask == \E t \in tasks :
    /\ HandleAdd(t) \/ HandleRemove(t) \/ Activate(t) \/ WriteInactive(t)
    /\ UNCHANGED <<role, attempt, changes, tracker, loop, removing, commands, timers>>

(* One removal after the other: a close function that throws keeps the     *)
(* entry, and the workflows that were left are not removed either.         *)
RemoveNext == \E k \in 1..MaxChanges : \E w \in removing[k] :
    /\ \/ /\ removing' = [removing EXCEPT ![k] = @ \ {w}]
          /\ active' = active \ {w} /\ UNCHANGED failed
       \/ /\ w \in active /\ UNCHANGED active
          /\ removing' = [removing EXCEPT ![k] = {}]
          /\ failed' = failed \cup (removing[k] \cap active)
    /\ UNCHANGED <<role, attempt, changes, tracker, dbActive, loop, queued, refused, channel, tasks,
                   commands, raced, timers>>

Manager ==
    \/ Activated \/ ActivationFails \/ LoopEnds \/ Receive \/ HandleTask \/ RemoveNext
    \/ \E w \in Workflows : activateWorkflow(w) \/ RetryActivation(w) \/ emitError(w)
                          \/ UserActivates(w) \/ UserDeactivates(w)
-----------------------------------------------------------------------------
(* Queue recovery: a timer of the context, or one it no longer names, runs *)
(* a cycle, and its end schedules the next whatever the role is by then.   *)
RecoveryRuns ==
    /\ recovery.runs = 0 \* one cycle at a time: the timers are minutes apart
    /\ \/ recovery.latest /\ recovery' = [recovery EXCEPT !.latest = FALSE, !.runs = 1]
       \/ recovery.others > 0 /\ recovery' = [recovery EXCEPT !.others = @ - 1, !.runs = 1]
    /\ UNCHANGED <<role, attempt, changes, tracker, manager, softDeletion>>

RecoveryEnds ==
    /\ recovery.runs > 0
    /\ recovery' = Scheduled([recovery EXCEPT !.runs = 0])
    /\ UNCHANGED <<role, attempt, changes, tracker, manager, softDeletion>>

Next == \/ \E vacant \in BOOLEAN : StepDown(vacant)
        \/ TakeOver \/ AttemptFails \/ Tracker \/ Manager
        \/ RecoveryRuns \/ RecoveryEnds

Spec == Init /\ [][Next]_vars

(* The interval of the tracker fires, the database answers, and timers     *)
(* expire.                                                                 *)
Fairness == /\ WF_vars(Poll) /\ WF_vars(SetTimers)
            /\ \A e \in Executions : WF_vars(startExecution(e)) /\ WF_vars(RunResumed(e))

LiveSpec == Spec /\ Fairness
-----------------------------------------------------------------------------
(* A follower has no timers for waiting executions, but for those a query  *)
(* asked as the leader set after the main had stepped down: two mains may  *)
(* then resume one execution, and the claim of the row decides.            *)
FollowerResumesNothing ==
    role = "follower" /\ ~late => \A e \in Executions : entry[e] # "armed"

(* A follower has no triggers of its own, which the leader runs too: what  *)
(* is still active is being removed, or was being added or removed as the  *)
(* role changed, or its removal threw, or another one did before its turn. *)
FollowerRunsNoTriggers ==
    role = "follower" => \A w \in active : Busy(w) \/ w \in raced \cup failed

(* The leader runs the triggers of the active workflows and no others: none*)
(* gets lost between the activation on takeover, the retry timers, the     *)
(* commands and the rows, whatever activations fail, unless operations on  *)
(* it have overlapped, or one threw that the code does not make good: a    *)
(* removal, an activation with the triggers on whose row is made inactive, *)
(* or a query of the activation on takeover.                               *)
LeaderRunsActiveWorkflows ==
    role = "leader" => \A w \in Workflows :
        \/ Busy(w) \/ w \in raced \cup failed
        \/ w \in active /\ w \in dbActive
        \/ w \notin active /\ (w \in dbActive => w \in queued \cup refused)

(* Every leader prunes, and looks for dangling executions: a cycle that    *)
(* was under way as the main stepped down does not keep the takeover from  *)
(* scheduling one.                                                         *)
LeaderMaintains ==
    role = "leader" => softDeletion > 0 /\ (recovery.latest \/ recovery.runs > 0)

(* MultiMainEvents says of leader-stepdown: "In response, its various      *)
(* services will stop triggers, pollers, pruning".  Does not hold:         *)
(* stopPruning returns early once the main is a follower.                  *)
FollowerDoesNotPrune == role = "follower" => softDeletion = 0

(* addQueuedWorkflowActivation: "it will keep on trying to activate it in  *)
(* regular amounts indefinitely".  Does not hold: the retry publishes, and *)
(* the handler of the command makes the workflow inactive when it fails.   *)
(* Here: a workflow becomes inactive only by a user's wish.                *)
RetriedIndefinitely == [][\A w \in dbActive \ dbActive' :
    \E t \in tasks : t.op \in {"write", "activate"} /\ t.w = w]_vars

(* While a main is the leader, an execution that waits is resumed, by a    *)
(* timer of its own even when another claim or entry got in between, unless*)
(* an entry without a timer is left of an earlier leadership.              *)
WaitingIsResumed == \A e \in Executions :
    row[e] = "waiting" ~> row[e] # "waiting" \/ role = "follower" \/ entry[e] = "cleared"
=============================================================================
