# A verification project for n8n

TLA+ models of the parts of n8n that decide *which executions run, when, and
what becomes of them*, checked with TLC and, where marked, proved with TLAPS.
Paths below are under `src/packages/`. `PROJECT.json` maps every definition to
the lines it stands for, lists the runs, the mutants that show each property can
fail, the findings, the hazards and the theorems. A configuration that no run of
`PROJECT.json` uses shows one of the further disagreements of section 4.

## 1. The system

n8n stores workflows (graphs of nodes) and runs them. A main process receives
webhooks, triggers and API calls; each starts an *execution*: a row in the
database, an entry in memory, and an engine that runs nodes one after another.
In **regular mode** the main process runs the engine. In **queue mode** it hands
the execution to workers over a Redis queue (Bull). Code nodes run in **task
runners**, separate processes that a **task broker** in the main process (or
worker) matches with the nodes that need them.

| Component | Source | State | Operations | Interacts with |
|---|---|---|---|---|
| Concurrency control | `cli/src/concurrency/` | per queue type: `capacity` (may be negative), `queue` of promises | throttle, release, remove, has, disable | called by ActiveExecutions and ExecutionService |
| Active executions | `cli/src/active-executions.ts` | `activeExecutions`: id to entry (status, engine, promises) | add, attach, stopExecution, finalizeExecution, shutdown | concurrency control, execution rows, engine |
| Workflow runner | `cli/src/workflow-runner.ts` | one call of `run` per start or resume, a timeout each | run, runMainProcess, processError, enqueueExecution | active executions, credentials check, engine, Bull |
| Execution rows | `@n8n/db/.../execution.repository.ts` | status, waitTill, data | create, setRunning, guarded and plain update, stopBeforeRun, stopDuringRun, markAsCrashed | everything |
| Stop request | `cli/src/executions/execution.service.ts` | none | read, check, act, write | concurrency control, active executions, WaitTracker, rows |
| WaitTracker, waiting webhooks | `cli/src/wait-tracker.ts`, `cli/src/webhooks/waiting-webhooks.ts` | armed timers | poll, fire, stop tracking; resume by request | rows, workflow runner |
| Event bus and recovery | `cli/src/eventbus/`, `cli/src/executions/execution-recovery.service.ts` | event log files, recovery flag file | log, find unfinished, recover, mark crashed | rows, lifecycle hooks |
| Start and stop | `cli/src/commands/start.ts` | none | run enqueued executions, stopProcess | WaitTracker, active executions |
| Task broker | `cli/src/task-runners/task-broker/` | runners, offers, requests, tasks, accept promises, timers | register, offer, request, settle, accept, reject, defer, done, error, cancel, time out | web socket server, requester, runners |
| Task requester | `cli/src/task-runners/task-managers/` | promises of requests and of tasks | request, send settings, cancel, done, error | broker, Code node |
| Task runner | `@n8n/task-runner/src/` | open offers, running tasks with a state machine | offer, accept, settings, cancel, time out, finish | broker |
| Queue mode | `cli/src/scaling/` | Bull jobs, progress messages, workers' running jobs | add, process, stop, stalled, queue recovery | Bull (external), rows |
| Multi-main | `cli/src/scaling/multi-main-setup.ee.ts` | leader key with expiry, role | check, take over, step down, shut down | Redis (external); announces changes of role to WaitTracker, pruning, triggers, queue recovery |
| Workflow engine | `core/src/execution-engine/workflow-execute.ts` | node stack, data waiting for other inputs, run data | run loop, add node, put to wait, cancel, report | nodes, lifecycle hooks |
| Partial execution | `core/src/execution-engine/partial-execution-utils/` | none (pure) | start nodes, cycles, cleaning run data | engine |
| Active workflow manager | `cli/src/active-workflow-manager.ts`, `core/src/execution-engine/active-workflows.ts` | active triggers, retry timers, an activation under way | add, remove, retry, activate all, remove all | triggers, leadership, pub/sub between mains, workflow rows |
| Pruning, queue recovery | `cli/src/services/pruning/`, `cli/src/scaling/scaling.service.ts` | timers | start and stop with the role | leadership, rows |
| REST, credentials, push, editor, nodes | rest of `packages/` | - | request handling, integrations, UI | not modelled: data rather than control |

### What is hard in it

* Everything in the main process is interleaved at each `await`; nothing is locked.
  A call of `run` has some ten of them between the insertion of the row and its
  last write, and two calls of the same execution can be anywhere in theirs.
* The database row is the only thing that survives a crash, and the only guard
  between two resumes of the same execution.
* `capacity` is a counter without owners: each release must match one call that was
  let through.
* A stop is a read, an act in memory and a write, with awaits between.
* The broker awaits a runner's answer while the request it was for may expire, be
  deferred or be matched again; runners die with messages in flight.
* Shutdown waits for a map to become empty that anybody may still add to.
* A main may find out that it lost the leadership any time after it did, its handlers
  of that event await nothing, and whatever they do overlaps with what was under way.
* A node with several inputs runs when they have all arrived or none can; what waits is
  kept in entries that come and go, in an order the position of nodes decides.

What makes each component correct is in section 3, beside the runs.

## 2. The modules

    ConcurrencyLimit            what the throttle promises: slots and a line
       ^ refined by
    ConcurrencyControl          the signed counter and its queues
       ^ extended by                         ^ proved in
    RegularMode                  ConcurrencyControl_proofs
       ^ proved in                           ^ used by
    RegularMode_proofs  <--used by-- RegularModeSlots_proofs
    TaskBroker                  broker + requester + runners
    QueueMode                   mains, Bull, workers and the rows they share
    Leadership                  mains, their checks, and the leader key
       ^ its events drive
    LeaderServices              what one main runs while it is the leader
    NodeStack                   the run loop of the engine
    (TaskBroker and each module below it has its X_proofs)

### ConcurrencyLimit, ConcurrencyControl

`ConcurrencyControl` is the service and its two `ConcurrencyQueue`s. `capacity`
and `queue` are the fields of the code; a promise is a pair of an execution id and the
call of `run` that awaits it, because an execution that is resumed twice has two.
`holders` is a history variable: which calls each queue has let through and not yet
been released. The operations (`throttle`, `release`, `remove`, `disable`, `has`)
are operators that other modules call; `NextCC` is the service by itself, under its
callers' discipline (a call asks once, releases what it was given).
`removeAll` is not there: its only caller runs it after `disable`, when it does
nothing.

`ConcurrencyLimit` has no counter: slots, a line in front of them, and four things
that can happen. One of them is not what one would write from the documentation:
`Abandon` lets the head of the line through although no slot is free. That is what
`ConcurrencyQueue.remove` does; section 4 has the disagreement.

### RegularMode

Extends `ConcurrencyControl` with calls of `WorkflowRunner.run`, the entries of
`ActiveExecutions`, the engine as far as it ends, waits and is canceled, the
status and waitTill columns, stops, WaitTracker timers, waiting webhooks, shutdown,
crash and restart. One action is one stretch of code between awaits, together with
the write it awaited:

| Action | Code |
|---|---|
| `CreateExecution`, `Arrive`, `LetThrough` | `add` to `throttle`, and its promise |
| `AdmitNew`, `Claim`, `Register` | `setRunning`, or the update that requires a waiting row; the entry |
| `FailCredentials`, `PrepareRun`, `StartEngine` | `run` to `runMainProcess`; the first two may throw |
| `EngineThrows`, `SaveError` | `processError`: the entry, then the row |
| `GoToWait`, `EndRun`, `SaveRun`, `CancelSave` | the engine and the two hooks that save |
| `Finalize`, `Timeout` | the handlers on the engine's promise, the timeouts |
| `StopRead`, `StopAct`, `StopWrite` | `ExecutionService.stop` |
| `PollWaiting`, `TimerFires`, `WebhookResume`, `RunEnqueued` | who resumes |
| `BeginShutdown`, `Drain`, `Exit`, `Crash` | `stopProcess`, `shutdown`, a new process and its recovery |

Sub-steps that the code makes before its next await are part of the action: the
settling of a promise also releases the slot, resolves the next promise in line and
drops the entry (`Settle`).

A call may end by an error in three ways, which differ in what they leave behind. What is
thrown inside the `try` of `runMainProcess` (line 266), or has the promise of an attached
engine rejected, meets `processError`, which settles the entry and then writes the row
(*erring*). A failed credentials check writes the row and then settles the entry
(*failed*). And what is awaited outside of either, the hooks at line 156, lines 214 to 264
(static data, a node type that is not known, the variables, `setRunning`), the hook in `processError`, or an
error whose message speaks of a cancellation, is caught by nobody: the call *threw*, and
what it held stays as it is. Every property that is about who settles, writes or gives
back names that place.

Left out: queue mode (`QueueMode`), progress that is saved between nodes (a setting,
off by default), the resumption of a parent execution by its waiting child,
partial manual executions, save settings that delete the row, the *simple* recovery mode
and a recovery that is itself interrupted. An engine that was not attached to an entry has
no handlers, and one that rejects is not followed further (it is an unhandled rejection).

### TaskBroker

The broker, the requester inside n8n and the runners, over two ordered message queues
per runner and connections that close. A *match* is an attempt of `acceptOffer` to
give a request to an offer; matches are numbered in order and the number is the task
id (`nanoid()` in the code). `accepting` holds the calls of `acceptOffer` that await
the runner; the rest of the variables are the maps of the three classes, and a set of
armed timers for each kind of timer. `settleTasks` is run inside each action whose
code calls it, to its first await. Launchers are runners that never accept: they
defer (so that the real runner gets started); their code is not in the repository,
and the map says so.

Left out: relays of data, node types and RPC calls between runner and requester,
several task types (offers and requests only meet within a type), heartbeats (a lost
one is a connection that closes), the idle timeout and drain of a runner.

### QueueMode

The same life of an execution when a worker runs it. There is no throttle (the service
is disabled in queue mode) and no memory in common: a main process and a worker share
the row, the job and a message. So the model keeps, for each *job*, the call of `run`
that added it (in a main), and the work on it (in a worker), each with its place in
the code:

| Action | Code |
|---|---|
| `CreateExecution`, `Ask`, `Claim`, `Register` | `add`; a resume has read the row some time before it claims it |
| `FailCredentials`, `Prepare`, `Enqueue`, `EnqueueFails`, `Attach` | `run` to `enqueueExecution`; the setup of the queue may throw, and hooks before and after the job is in the queue |
| `JobFinished`, `ReadForError`, `WriteError`, `Finalize` | what follows `job.finished()`; `processError` |
| `StopRead`, `StopAct`, `StopWrite`, `StopJob` | `ExecutionService.stop`, then `stopJob` in its own time |
| `RecoverRead`, `RecoverLook`, `RecoverMark` | `recoverFromQueue`, one action for each query |
| `ReadRow` to `Complete`, `Throws` | `processJob` |
| `Abort`, `CancelSave` | the abort message and the engine's `onCancel` |
| `PickUp`, `Stalled`, `EndJob` | Bull: external, as far as this code relies on it |

A *stalled* job is one whose lock was not renewed in time. Since `maxStalledCount`
is 0 it fails, and the main process writes the execution as an error, but the worker
may be alive and go on. Nothing in `processJob` looks at the row again after its
first read, and `setRunning` requires no status, so a stopped execution whose job a
worker has already taken does run when the abort message comes before the run is in
`runningJobs`. No claim of the code says otherwise; `SuccessLostToStaleReadsOnly`
states what remains true: a saved success is written over only by someone who had
looked at the row before (a stop, a recovery cycle, an error handler), or by the
save of a canceled engine. The recovery cycle is the one to know of: `markAsCrashed`
requires no status, so an execution that ends between the query for rows and the
mark is recorded as crashed, although the comment above `recoverFromQueue` speaks of
rows that are *new* or *running*.

`EntryHasCall` names two ways in which a live main keeps an entry for ever: a call that
*threw* (hooks in a failed credentials check, or a queue that cannot be set up, where
nothing is caught), and one that was *abandoned* (`addJob` or the hook after it threw, and
`processError` returned early: the job had succeeded, or the message speaks of a
cancellation).

Left out: graceful shutdown of workers and mains, reads of the row that fail or find no
row (`workflow-runner.ts:464`), the batch size
of the recovery (its query always takes the most recent rows: with more than a batch
of running executions, older dangling ones are not seen), messages that carry chunks
and responses, deletion of rows by save settings, manual executions (they stay in
the main process unless offloaded), metrics.

### Leadership

`MultiMainSetup` of every main, and the one key in Redis. A command is *sent*,
*executed* and *handled* in three steps, because everything interesting happens in
between: `calls[m]` holds, for each check under way, the command it awaits or the reply it
has yet to see, in the order of the connection. `expire` and `del` name no owner, so
they act on whoever's key it is by then.

| Action | Code |
|---|---|
| `Boot`, `SetKey`, `KeyTaken`, `Checking` | `init` and its first `tryBecomeLeader` |
| `InitServices`, `registerEventHandlers` | `WaitTracker.init`, then the handlers, some way into startup |
| `checkLeader`, `GotOwn`, `Renewed`, `GotOther`, `GotVacant` | one check, in its stretches |
| `shutdown`, `Cleared`, `Crash` | the key is deleted by a leader that stops, left by one that dies |
| `Execute`, `ExpireAbandoned`, `ExpireUnrenewed` | Redis: external but for the commands that are sent |

`told` is what the services of a main were last told. Two variables are history: `lapsed`,
the mains whose key went away since they set it, and `doubled`, the mains of which two attempts to take the
key were under way at once, as `setInterval` does not wait for a check to end, and one
still is. An attempt that fails demotes its main without a word (line 127); that is right when
the check it belongs to has demoted the main already, and goes wrong when another attempt
has made it the leader since.

### LeaderServices

The other side of those events, in one main: WaitTracker's entries and queries, the
triggers of active workflows, pruning and the timers of queue recovery. `StepDown` and
`TakeOver` are the branches of the check that announce a change; they start all handlers,
and each handler then goes on by itself:

| Action | Code |
|---|---|
| `Poll`, `SetTimers`, `startExecution`, `RunResumed`, `stopExecution` | WaitTracker; `found` is what queries will return |
| `activateWorkflow`, `Activated`, `ActivationFails`, `LoopEnds` | `addActiveWorkflows`, one workflow after the other |
| `UserActivates`, `Activate`, `UserDeactivates`, `RetryActivation`, `Receive` | commands published to, and taken by, whoever is the leader by then; what is active is removed before it is activated again, and a hook that throws has the row written back |
| `HandleAdd`, `HandleRemove`, `WriteInactive`, `RemoveNext` | the handlers, in their stretches |
| `emitError` | a trigger that runs fails: the workflow is removed from memory and queued |
| `RecoveryRuns`, `RecoveryEnds` | a cycle of `scheduleQueueRecovery` |
| `RowChanges` | other mains and workers |

Three history variables name what the code does not prevent. `late`: a query of a leader
returned after it stepped down. `raced`: an operation on a workflow overlapped another one,
or a change of role. `failed`: an operation threw where nothing makes it good. There are
four of these. A `closeFunction` that throws keeps the workflow active, and in
`removeAllTriggerAndPollerBasedWorkflows` ends the loop, so that the workflows it had left
stay active too (`active-workflows.ts:223`). A command to remove may throw before or while
it closes the triggers. An `add` may throw after the triggers run, at a poll node or a later call
(`active-workflows.ts:119`, `active-workflow-manager.ts:656`), and the handler then makes the row inactive.
And a query of `addActiveWorkflows` may throw, which gives up the workflows it has left.

Left out: several triggers of one workflow, of which a failed `add` leaves the first
running without an entry (`active-workflows.ts:97`); the webhooks of a workflow, which followers
add too; commands that get lost, a crash between a row and its command, and writes of the
row that fail.

### NodeStack

`WorkflowExecute`, for a workflow that is a constant of the behaviour (`graph`). A
datum is what one run of a node gave at one output: items are not looked into. `stack` is
`nodeExecutionStack`. `waiting` is `waitingExecution`: for each node a function of entry
indexes, as the code keeps objects with integer keys, and `keys` is the order in which its
properties are enumerated, the nodes that have entries. `getParentNodes` is the least set
closed under connections, which is what the code's search with its list of checked nodes
finds; `nodesToAdd` puts each connection at the place the sort by position gives it. No two
nodes share a position (`IsGraph`): the code's sort would leave those in the order of
their connections. `AddToWaiting` is the whole of
`addNodeToBeExecuted` for a node with several inputs, the choice of the index included;
`CheckWaiting` is the search that follows once the stack is empty.

| Action | Code |
|---|---|
| `NextNode`, `LoopEnds`, `TimesOut` | the head of the loop |
| `NodeReturns`, `NodeReturnsNull`, `NodeFailsAndGoesOn`, `NodeFails`, `NodeWaits` | what may become of a node, to the next hook that is awaited |
| `Checks`, `WaitingIsPutBack` | what follows that hook (phases *added*, *putting*) |
| `Cancel` | `onCancel`, between any two steps |
| `processSuccessExecution`, `Closed`, `Reported` | the end, around its two awaits |
| `Resume`, `Retry`, `Restart` | `handleWaitingState`, `ExecutionService.retry`, both from the row |

Resuming and retrying start from the row, which a hook has written. At the end of a run
that is what the engine had in memory. The hook of a cancellation writes at once, at
whatever point the engine is: while a node runs, its item is on no stack, and putting it
back later is a change of memory that nobody saves, for the engine that sees the abort
leaves the saving to that hook. So `Retry` of a canceled run may follow at any time after the cancellation,
from the state of that moment (everything later is lost with the engine): the item of
the running node goes to `forgotten`, and the check that would have followed it is left
out (`unchecked`). A row that was stopped without a cancellation is written back as it was
read, which is the state before the run. What is on its way to the row lands before
the next life starts; `putExecutionToWait` and the return of its node are one step.

A node may return data at any set of its connected outputs. Left out: progress that is
saved after each node (an option, off by default), the execution
order `v0`, the requests of agents to the engine, pinned data, `alwaysOutputData` (which
turns no data into some), the tries of `retryOnFail`, the check for endless loops,
partial runs, nodes that require certain inputs but not all, `exclusive` destinations, the checks before the loop, and errors thrown by
hooks (the `.catch` at the end). The indexes of the entries of a node are compared as
numbers; the code sorts them as strings (line 2118), which differs from the tenth waiting
entry of one node on. A node with several inputs whose items all have length
zero is possible only with those, so an entry found by the search always runs.

## 3. The runs

| Run | Shows | Bounds |
|---|---|---|
| `concurrency_control` | The counter accounts for every slot and promise, nobody waits beside a free slot; the counter implements `ConcurrencyLimit` | 4 calls, 2 executions, limits 2 and 1 |
| `regular_mode` | One engine per execution however it is resumed and stopped; each unsettled entry belongs to a call that will settle it, or threw; a throttled execution that was stopped never runs; shutdown lets nothing throttled start; the service is only used as `ConcurrencyControl` assumes | 3 calls, 2 executions, limit 1, one process; one stop at a time, and one call that an error ends beside one other |
| `regular_mode_restarts` | A running row is being run, over two crashes or restarts; a throttled call gets its turn, shutdown ends | 2 calls, 1 execution, 2 restarts |
| `enqueued_at_startup` | *finding* 1 | the smallest instance |
| `task_broker` | An offer is used once; a node that waits is in line or has a task, with a timer; one task per request; a runner never exceeds its room; settings always find the task waiting | a runner and a launcher, 2 requests, 3 offers |
| `task_broker_liveness` | Every request and every task is answered | the same with 2 offers |
| `queue_mode` | One worker at a time runs an execution, whichever jobs stall and whoever resumes; each entry in a main process has a call that will remove it; a saved success is lost only to those who read before it | 2 jobs of 1 execution, 1 main, 1 worker, no crash |
| `queue_mode_crashes` | No execution stays in progress for ever | 1 job, 2 crashes |
| `leadership` | Of two leaders one has lost its key unawares; a main tells its services of every change; once crashes and lapses cease, one main is the leader for good and holds the key; the last two but for a main that is `doubled` | 2 mains, 2 starts each, 2 lapses, one check at a time in one main and two in the other, a new id on each start |
| `leader_services` | A follower resumes nothing and runs no triggers, a leader runs those of the active workflows and no others, but for what `late`, `raced` and `failed` name; what waits is resumed | 2 steps down with 1 execution that waits again once; 1 step down with 1 workflow and 2 commands or errors of its trigger, or with 2 active workflows |
| `node_stack` | Each datum is in one place; a node never runs without an input that could still arrive; what is left waiting at the end is below a node that needs it; the execution is reported once; it ends; the first and the third but for a retry from a row written while a node ran | 8 workflows of up to 7 nodes, 3 runs of a node, 1 resumption or retry |
| `waiting_data_overwritten` | *finding* 2 | four branches to one merge |

Why the bounds are enough. Three calls of two executions with one slot is the
smallest instance in which an execution is resumed twice while another waits in line
and a third party stops either. `OneStopOneError` keeps that run small: one request to stop
at a time, and one call that an error ends or has ended, beside one other call. A stop
reads, acts and writes on one execution and meets the stops of others in the lines of the
queue only, where what it does is the `remove` that `concurrency_control` repeats in any order.
A call that *threw* goes on holding its entry and the one slot there is, so that one other
call is enough to meet it, of the same execution or of the other. The theorems have neither bound. Two restarts let a fresh process find what the
previous recovery left. Two requests and three offers let an offer expire, one be
deferred and the request be matched once more while the other request competes;
every timer can fire at any moment, so the real durations add nothing. Two jobs of
one execution that may start as waiting let two resumes meet, and let one job
outlive its end as a stalled one while the other runs; a live worker that lost its
lock does all a crashed one does and more, so crashes are left to the second run.
Two mains are enough for one to act on a key the other has lost, and two lapses for
either to lose it twice; a third main would do what the second does. One of the two has
two checks under way at once, so that overlapping checks of one main meet those of a main that
is in order; with two each, `MCOverlappingChecks` shows what comes of it. The workflows of
`MCNodeStack` are the shapes in which entries of waiting data meet: more branches than
inputs, a merge behind a merge in both orders of arrival, two outputs of one node, a
loop whose runs pair up at a merge. Two steps down let a main become leader with what its
former leadership left behind.
`MCLeaderServices` starts with executions; or with a workflow that users and
the errors of its trigger deal with; or with two active workflows, which is what it takes to
see a removal that ends halfway; there the leader is the main that runs them, and never are
more than two commands on their way at once. Executions, workflows and cycles of queue recovery share the role
alone, and no action reads two of them, so the second step down and the cycles go with the
executions. The theorems have none of these bounds.
`MaxRestarts`, `MaxOffers`, `MaxCrashes`, `MaxBoots`, `MaxLapses`, `MaxChecks`,
`MaxChanges`, `MaxCommands`, `MaxWaits` and `MaxRuns`, with the restrictions just named, are
the only bounds on behaviour;
each `Max` is a CONSTANT in a guard. Calls are not reused after they end, so `Calls` also
bounds how often executions start or resume; `concurrency_control` has no such
bound, and its theorems hold for every number of calls.

Deadlock checking is off where the system may stop: no user, timer or request is
obliged to come, and bounded calls and offers run out.

Symmetry is used only in runs of safety properties and refinements without
liveness.

### Fairness

`RegularMode!LiveSpec` has weak fairness of each call's own steps: promises of the
database, the hooks and the credentials check settle, nodes end, handlers run.
Nothing is assumed of users, WaitTracker, requests or the decision to shut down.
`Timeout` has no fairness: executions have none by default.
`TaskBroker!Fairness`: a message that arrived is handled, a timer that was armed
fires, and the server notices that a connection closed (the heartbeat does that).
Runners owe nothing: they need not connect, offer, accept or finish.
`QueueMode!LiveSpec`: awaits return and nodes end (`CallStep`, `WorkStep`), some
worker picks up a waiting job, Bull finds the job of a worker that died
(`StalledDead`; a live worker's job need not stall), and the leader's recovery timer is
always set again (`Recover`). Stops and resumes owe nothing. `InProgressEnds` needs all of
these: a main process that dies between the row and the job is only made good by the recovery.

`Leadership!Fairness`: a process that is down is started, its startup and its event loop
go on, its interval fires, Redis answers, and an abandoned key expires. Nothing is assumed
of crashes and lapses but that they cease (the bounds); a restart of a main is the
supervisor's, as in any deployment with several mains.
`LeaderServices!Fairness`: the interval of WaitTracker fires while it is set, queries
return, timers expire, resumptions go on. Nothing is assumed of the role: the exceptions
of `WaitingIsResumed` are a step down and an entry without a timer.
`NodeStack!LiveSpec`: the loop goes on, and a node that runs returns or throws some time.
Nothing is assumed of what it does, nor of timeouts, users and cancellation; a workflow
with a loop may run for ever, which `RunEnds` leaves out.

The liveness properties have exceptions, which are what the code leaves undone.
`ThrottledGetsItsTurn`: a slot held by a call that ended without giving it back
(`MCSkippedResume.cfg`, or a call that *threw*). `ShutdownComesToEnd`: an entry that is left by an execution that went to
wait while shutdown drained, or by a call that *threw*, on which the loop of `shutdown` spins until
the process is killed. `LeaderUnlessDoubled` is `LeaderIsDesignated` for the behaviours in
which no main has two attempts under way at once; the other behaviours are those of
`MCOverlappingChecks.cfg`. `WaitingIsResumed`: an entry left without a timer by an earlier
leadership. `InProgressEnds` and `WaitersAreAnswered` have none.

## 4. Findings

1. `enqueued_at_startup` (bug): executions enqueued when the process ended are never
   run, because only a *waiting* row can be claimed and theirs is *new*.
2. `waiting_data_overwritten` (bug): a new entry of waiting data may get the index of one in
   use. With four branches to the two inputs of a merge, the items of one are lost and the
   execution ends as a success.

Both are quoted with their lines in `PROJECT.json`.

### Further disagreements

Each of these configurations checks one property, states what a comment or a document
says in the comment above it, and is violated. They are the exceptions that the
properties of section 3 name, or what those properties leave open.

| Configuration, module | Property | What happens |
|---|---|---|
| `MCConcurrencyLimitExceeded`, `MCConcurrencyControl` | `AtMostLimitRunning` | Stopping a throttled execution lets the next one run beyond "Max production executions allowed to run concurrently" (`executions.config.ts:19`): `ConcurrencyQueue.remove` gives back capacity and resolves the next promise. |
| `MCSkippedResume`, `MCRegularMode` | `SkippedResumeHoldsNoSlot` | A duplicate resume is refused *after* it took a slot (`active-executions.ts:88`), which is never given back. |
| `MCRestartMarksCrashed`, `MCRegularMode` | `RestartMarksCrashed` | A crash after an execution logged its start and before its first node leaves a row that stays *running* (`execution-recovery.service.ts:133`). |
| `MCAcceptedTaskHasRequester`, `MCTaskBroker` | `AcceptedTaskHasRequester` | The case the broker calls "This shouldn't happen" (`task-broker.service.ts:586`) does, and leaves a task that holds a runner's slot. |
| `MCLeaderKeyKept`, `MCLeadership` | `LeaderIsDesignated` | A main that restarts under the same host id before its key expires finds its own id (`multi-main-setup.ee.ts:75`), renews it as a follower, and no main is ever the leader. |
| `MCOverlappingChecks`, `MCLeadership` | `LeaderIsDesignated` | When Redis takes longer than the interval, a check takes the key and the one before it demotes the main without a word (line 127); it then renews its own key for ever. |
| `MCFollowerPrunes`, `MCLeaderServices` | `FollowerDoesNotPrune` | `stopPruning` returns early, since the main is a follower by then (`executions-pruning.service.ts:80`). |
| `MCRetriedOnce`, `MCLeaderServices` | `RetriedIndefinitely` | With several mains the retry publishes a command whose handler makes the workflow inactive when it fails (`active-workflow-manager.ts:724`). |
| `MCReadyDataLeft`, `MCNodeStack` | `NothingReadyIsLeft` | A last node that returns null or is filtered out passes over the search (`workflow-execute.ts:1580`, `1769`), and a node that could run does not. |
| `MCContinuedError`, `MCNodeStack` | `ContinuedErrorIsNoFailure` | An execution whose last node failed and was told to continue ends as an error: the error is only cleared when another node starts (line 1500). |

## 5. The proofs

`ConcurrencyControl_proofs` proves for all finite sets of calls, all sets of
executions and all non-zero limits:

* `PromisesApart`: state stays well-typed, and no promise is in line twice or
  in line while holding a slot.
* `CapacityAlwaysAccounts`: `capacity = limit - holders - waiting`.
* `NeverIdleWhileThrottled`: if anybody waits, at least `limit` calls hold a slot.
* `CounterImplementsSlots`: `SpecCC => Slots!Spec`, the refinement.

The invariant is the conjunction of type correctness and the three facts, and they
need each other: letting the head of the line through changes
`Cardinality(holders)` by one only because the head does not hold a slot already
(`NoPromiseTwice`); that `enqueue` throttles exactly when no slot is free follows from the
sign of the counter only by `CapacityAccounts`; and `dequeue` keeps every slot used
only because it was the head of the line that took it. All three speak of one queue
at a time, so the proof is made about one queue (`QueueInv`) and lifted
(`OneQueueStep`). Lemmas state what `Shifted` and `WithoutItem` do to a sequence, and
there is one lemma per operation.

Assumptions: `LimitAssumption` (the constructor throws on a limit of zero),
`FiniteCalls` (a behaviour has some finite number of calls). TLC evaluates both.

`RegularMode_proofs` proves `OneEngine`: at most one call runs an execution at a time,
for any sets of calls and executions and any number of restarts. The statement is not
inductive: nothing in it says why a second call cannot become an owner. Two different
things keep it out, and the invariant (`IInv`) has a part for each:

* a resumed execution is guarded by its row. `OwnedIsNotWaiting`: while a call owns the
  execution its row is not *waiting*, so the update of a second call, which requires
  that status, finds nothing (`Claim`). This has to survive every write to the status column
  by stops, hooks and recovery.
* a new execution is not guarded at all: `setRunning` writes whatever the row says.
  `FreshIsAlone`: until its call has been let through, nobody else has to do with it,
  because no row of it is waiting, no timer is armed, it is not among the enqueued
  ones, and no other call is for it; and `NoRowNoCall`: what was never inserted is
  unknown to all.

The same module proves `NoRowLeftRunning` (the run's `NoOrphanRunning`): a row says
*running* only while somebody will still write it (or because recovery
passed over it, or its call threw where nothing is caught). `RowsInv` adds what a cancellation does
to that: the hook of a canceled engine has its write before it, or made it while its call
was the owner, so the row it leaves behind is not *running*.

`RegularModeSlots_proofs` proves `UsesTheService`: every behaviour of `RegularMode` is
one of `ConcurrencyControl`. The service only works for callers that ask once and give
back what they hold, and in `RegularMode` a slot is given back by whoever settles the
promise of an entry (a stop, a timeout, a shutdown, the handlers of this or an earlier
engine), not by the call that took it. The invariant (`SlotsInv`) says that an entry
that has not settled belongs to a call of its own execution that holds its slot
(`EntriesHold`), that a call let through holds its slot until it has its entry
(`AdmittedHold`), and that who waits or holds has asked (`WaitersQueued`,
`HoldersAsked`). Most steps only shrink lines; one lemma (`ShrinkingKeeps`) says what
such a step has to leave alone, and each action is shown to be of that kind. With the
theorems of the service, `CapacityAccounts`, `NoIdleSlotWhileThrottled` and the
refinement of `ConcurrencyLimit` hold of the whole life of executions. `holders` counts
a call that was refused after it took its slot (`MCSkippedResume.cfg`): accounting for a slot is
not the same as giving it back.

Four more theorems stand on these two invariants:

* `SomebodySettles` (`UnsettledIsWorkedOn`): an entry that has not settled belongs to a call
  of its execution that is before its engine, has it attached, or failed its check and will
  settle; or that threw. `OwnersWork` says of each owner where its work stands.
* `ShutdownResumesNobody` (`ThrottledStayDuringShutdown`): `DrainLifted`, the limit is lifted
  as long as entries are drained, and with a lifted limit `release` and `remove` let
  nobody through.
* `StoppedInLineNeverRuns` (`RemovedNeverRuns`): an execution whose call was taken out of line has no
  slot and is never given one (`RemovedIsGone`), and no other call runs in its place, which
  is `FreshIsAlone` again.
* `ModeTypes`: the types.

All rest on `ModeAssumption` (every execution has a mode, and the bound on restarts is a
number), which TLC evaluates too.

`QueueMode_proofs` proves, for any sets of executions, jobs and workers and any number of
crashes, `OneWorker` (`OneWorkerPerExecution`), `EntriesAreFinalized` (`EntryHasCall`) and
`SuccessIsLostToStaleReadsOnly`. The claim of a row is made by a main process and used by a
worker, so ownership has to be followed through the queue. `OwnerInv` does: a call has a
place in the code that agrees with its job (`CallsOK`), a job is made once
(`JobsMadeOnce`), of the calls for an execution one at most has work before it that was not
given up (`OneMayWork`), and from the claim to the save the row is neither *waiting* nor
*success* (`RowTaken`), which is what keeps a second claim out and what a stale read
breaks. `EntryInv` says the same of the memory of a main: an entry has the call that will
finalize it.

`TaskBroker_proofs` proves all six safety properties of the broker, for any number of
requests, runners and messages: `OffersAreUsedOnce`, `WaitersTracked`, `OneTask`,
`WithinCapacity`, `SettingsFindWaiting` and the types. A task is known to three parties that
hear of each other's changes later, so the invariant speaks of the messages between them.
`Channels`: a message names only tasks that were matched, and the offers in flight, pending
and taken are apart. `Rooms`: what a runner keeps, with the offers it has out, is within
its capacity. `SettingsOnce`: the settings of a task are sent once and in time.
`Waiters`: who waits for a task has it tracked, and one request has one task. The order of
messages in a channel is used through the earliest one of a kind; the least number
theorem it needs comes from `WFMin` of the library, as the induction theorems have an
operator as their parameter (`Least`, `SetInduction`).

`Leadership_proofs` proves `TwoLeadersOnlyAfterLapse`, for any number of mains, starts,
lapses and checks under way at once. It says nothing of the calls, so it is not
inductive. What is: `LeaderHeldKey`, that whoever is the leader, *or has a reply that
will make it one, or is about to delete the key as one*, holds the key or has lost it
(`LeaderHeldKeyAlways`). An attempt succeeds only on a vacant key, so everybody else who
claims the leadership has lost theirs. Two leaders cannot both hold one key.
`RoleChangesTold` says that a main's services are told of its role, for any number of checks
under way, but for an attempt that fails beside another attempt of the same main (`doubled`):
that one may demote a leader without a word. Its invariant says that a main with an attempt
under way that is not doubled is no leader (`Attempted`): the check the attempt belongs to has
made it a follower, and only an attempt makes a leader.

`LeaderServices_proofs` proves `FollowerResumesNothing`, `FollowerRunsNoTriggers` and
`LeaderMaintains`, for any executions, workflows and changes of role, from one
invariant: a follower does not track, has no armed timer and no result on its way unless it
is late; and a workflow that a follower runs is being removed, has raced or failed, and one
that it is about to add (`loop`, `tasks`) has raced. The third property is about timers only, and holds because
a cycle that ends always schedules the next. `LeaderRunsActiveWorkflowsTheorem` is about what
a leader must run. It follows from `LeaderIsOrderly`: for a workflow that has neither raced nor failed, at
most one thing is under way (the activation on takeover, one command, the command and the
row of a deactivation or of an activation, or the closing of a trigger that had an error), each of which
says what it will find, and otherwise the row, the trigger and the retries agree (`Settled`).

`NodeStack_proofs` proves all safety properties of the run loop, for any workflows, with
or without loops where the property does not exclude them, and any number of runs, resumes
and retries: `DataConserved` (`Conserved`), `NothingLeftUnneeded` (`LeftOnlyByNeed`),
`MissingInputsStayMissing` (`MissingInputNeverArrives`), `ReportedOnceTheorem` and
`TypesHold`. Three invariants carry them.

* `DataInv`. `Conserved` counts the places of a datum; what is inductive is that the places
  exclude each other and that a datum has arrived exactly if it is in one of them (`Kept`),
  that the keys are those of the nodes with entries, and that what arrived was made by an
  earlier run over an existing connection (`ArrivedIsMade`), so that the data of a new run
  is new. A run passes its data over all its connections in one step of the model, so the
  proof of that step has an induction of its own: `Delivered` is one connection (what
  it fills, completes or overwrites, `AddToWaitingIs` and `AddedKeeps`), `ChildrenKeep` all
  of them, where a datum is new at a connection because no earlier place in `nodesToAdd`
  has the same one (`ChildrenDistinct`), and `CheckKeeps` the search that follows. A retry that starts
  from a row written while a node ran moves its item to `forgotten`, which is one more place.
* `ReadyInv`: when the loop is left with an empty stack, the last node has checked what waits
  and nothing could run, unless the check was passed over (`unchecked`). In a workflow without loops the relation *is a parent of* is an
  order (`ParentsOrdered`), so of a waiting node and its waiting ancestors one has no
  waiting parent (`SomeWaitFirst`); it did not run, so it needs all its inputs.
* `QuietInv`: once an item lacks an input, no node above it has data on the stack, waits or
  runs (`Quiet`). The check starts a node so only with an empty stack and no waiting
  parent, and nothing starts above it later because data only moves downwards
  (`ChildrenBelow`). Then nothing can reach it.

`ReportedOnce` follows from what has been reported in each phase of a run, and whether a
cancellation came before the report, during it, or not at all (`ReportInv`).

Assumptions: `LeadershipAssumption`, `LeaderServicesAssumption`, `QueueModeAssumption` and
`RunnersAssumption` (bounds are numbers, a runner has some capacity, and the value that
stands for none is no main, workflow, job or worker) and `NodeStackAssumption` (finitely many
nodes and inputs, which are counted from 1; connections join nodes of the workflow; missing
data is not data); TLC evaluates them. That a workflow starts at one of its nodes and
that its destination is one is part of `IsGraph`.

Only model-checked: all liveness (fairness and ENABLED are beyond the prover). Every
safety property that a passing run checks is also a theorem.

## 6. Plan

In order:

1. `CrashRecovery`: the event log files, their rotation, the recovery flag, *simple*
   and *extensive* recovery. Waiting executions must survive a restart; a finished one
   stays finished; what was running is marked.
2. Entries of `NodeStack` that overwrite each other (*finding* 2): for which workflows
   `NothingOverwritten` holds, perhaps those without loops in which one connection at most
   leads to an input.
3. The recovery cycle of `QueueMode` with two leaders, and its batch size.
4. An abstract task service that `TaskBroker` implements.
5. Several triggers of one workflow in `LeaderServices`.
6. `PartialExecution`: start nodes, cycles and cleaned run data against reference
   definitions over small graphs.

### Not modelled

The map covers a small share of the repository: most of its lines are integrations
(`nodes-base`, `@n8n/nodes-langchain`), the editor, and request handlers over the
database, in which one call does one thing to one row and nothing is kept between calls.
There is no state machine in them to check. `PROJECT.json` lists every part with its
status and what is left out of those that are modelled.
