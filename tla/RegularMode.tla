----------------------------- MODULE RegularMode -----------------------------
(***************************************************************************)
(* The life of executions in a main process in regular mode: a call of     *)
(* WorkflowRunner.run creates or resumes an execution, is throttled, is    *)
(* registered in ActiveExecutions, runs the engine, and finalizes; users   *)
(* stop executions, timeouts cancel them, WaitTracker and waiting webhooks *)
(* resume them, and the process shuts down, crashes and starts again.      *)
(*                                                                         *)
(* One action is one stretch of code without an await, with the database   *)
(* write it starts from.  Calls of run are what interleaves: everything is *)
(* keyed by execution id, and one id may have several calls.               *)
(***************************************************************************)
EXTENDS ConcurrencyControl

CONSTANTS
    ModeOf,       \* [Executions -> Modes], the mode each execution runs in
    MaxRestarts,  \* bound on the number of times the process starts again
    None

ASSUME ModeAssumption ==
    /\ ModeOf \in [Executions -> Modes]
    /\ MaxRestarts \in Nat

VARIABLES
    process,     \* "up", "stopping" or "draining"
    restarts,
    db,          \* [Executions -> Status], the status column
    waitTill,    \* executions whose waitTill column is set
    overlooked,  \* executions whose event log holds their start and nothing
                 \* else, as the last recovery found it
    enqueued,    \* executions runEnqueuedExecutions has found and not yet run
    timers,      \* executions WaitTracker has armed a timer for
    stops,       \* [Executions -> how far a stop request has come]
    run,         \* [Calls -> the state of the call]
    active,      \* ActiveExecutions: [Executions -> Entry or None]
    aborted,     \* engines whose abort signal fired
    cancelSaves  \* engines whose onCancel hook has not written yet

execVars == <<process, restarts, overlooked, db, waitTill, enqueued, timers, stops,
              run, active, aborted, cancelSaves>>
vars == <<ccVars, execVars>>
-----------------------------------------------------------------------------
Status == {"none", "new", "running", "waiting", "success", "error", "canceled",
           "crashed"}
Outcomes == {"success", "error", "canceled"}

(* Where a call is: "queued" awaits throttle; "admitted" is let through;   *)
(* "claimed" has written its row; "prepared" is about to start the engine; *)
(* "toWait" has put the execution to wait; "saving" runs the               *)
(* workflowExecuteAfter hook; "saved" has its engine about to resolve;     *)
(* "erring" has settled the entry after an error, and is to save it;       *)
(* "threw" was left by an error that nothing handles.                      *)
PC == {"idle", "arriving", "queued", "admitted", "claimed", "registered",
       "prepared", "running", "toWait", "saving", "saved", "failed", "erring",
       "done", "refused", "removed", "threw"}
Call == [pc : PC, exec : Executions \cup {None},
         kind : {"new", "resume", "boot"},
         out : Outcomes \cup {"waiting"},  \* how its engine ends
         attached : BOOLEAN]              \* its engine was attached to an entry
IdleCall == [pc |-> "idle", exec |-> None, kind |-> "new", out |-> "success",
             attached |-> FALSE]

Entry == [owner : Calls,                 \* the call that added it
          status : {"running", "waiting"},
          engine : Calls \cup {None},    \* workflowExecution
          resp : BOOLEAN,                \* it has a responsePromise
          settled : BOOLEAN]             \* postExecutePromise has settled

NoExecution == [e \in Executions |-> None]

Init ==
    /\ InitCC
    /\ process = "up"
    /\ restarts = 0
    /\ db = [e \in Executions |-> "none"]
    /\ waitTill = {}
    /\ overlooked = {}
    /\ enqueued = {}
    /\ timers = {}
    /\ stops = [e \in Executions |-> "none"]
    /\ run = [c \in Calls |-> IdleCall]
    /\ active = NoExecution
    /\ aborted = {}
    /\ cancelSaves = {}
-----------------------------------------------------------------------------
exec(c) == run[c].exec
At(c, pc) == run[c].pc = pc
Goto(c, pc) == run' = [run EXCEPT ![c].pc = pc]

(* Mutant: the entry is never dropped, and settles again and again. *)
SettleKeepingEntry(e) ==
    IF active[e] = None \/ active[e].settled
    THEN UNCHANGED <<ccVars, active>>
    ELSE release(ModeOf[e], active[e].owner) /\ UNCHANGED active

(* The handlers on postExecutePromise: they run once, release the capacity *)
(* the entry's call took and drop the entry unless it waits.               *)
Settle(e) ==
    IF active[e] = None \/ active[e].settled
    THEN UNCHANGED <<ccVars, active>>
    ELSE /\ release(ModeOf[e], active[e].owner)
         /\ active' = [active EXCEPT ![e] =
                          IF @.status = "waiting"
                          THEN [@ EXCEPT !.settled = TRUE, !.engine = None]
                          ELSE None]

(* The engines whose promise is pending and was not canceled before. *)
Cancelable(engines) ==
    {c \in engines \cap Calls :
        run[c].pc \in {"running", "toWait", "saving", "saved"}} \ aborted

Abort(engines) ==
    /\ aborted' = aborted \cup Cancelable(engines)
    /\ cancelSaves' = cancelSaves \cup Cancelable(engines)

stopExecution(e) ==
    CASE active[e] = None ->
            UNCHANGED <<ccVars, active, aborted, cancelSaves>>
      [] active[e] # None /\ active[e].status = "waiting" ->
            /\ active' = [active EXCEPT ![e] = None]
            /\ UNCHANGED <<ccVars, aborted, cancelSaves>>
      [] OTHER ->
            /\ Abort({active[e].engine})
            /\ Settle(e)
-----------------------------------------------------------------------------
(* WorkflowRunner.run and ActiveExecutions.add *)

(* A call of run for an execution. *)
Ask(c, e, kind) ==
    run' = [run EXCEPT ![c] =
               [IdleCall EXCEPT !.pc = "arriving", !.exec = e, !.kind = kind]]

(* add without an id inserts the row. *)
CreateExecution(c, e) ==
    /\ At(c, "idle")
    /\ db[e] = "none"
    /\ db' = [db EXCEPT ![e] = "new"]
    /\ Ask(c, e, "new")
    /\ UNCHANGED <<ccVars, process, restarts, overlooked, waitTill, enqueued, timers, stops,
                   active, aborted, cancelSaves>>

(* throttle *)
Arrive(c) ==
    /\ At(c, "arriving")
    /\ throttle(ModeOf[exec(c)], [executionId |-> exec(c), call |-> c])
    /\ Goto(c, IF LetsThrough(ModeOf[exec(c)]) THEN "admitted" ELSE "queued")
    /\ UNCHANGED <<process, restarts, overlooked, db, waitTill, enqueued, timers, stops, active,
                   aborted, cancelSaves>>

(* The promise of a queued call resolved. *)
LetThrough(c) ==
    /\ At(c, "queued")
    /\ \E t \in QueueTypes : c \in holders[t]
    /\ Goto(c, "admitted")
    /\ UNCHANGED <<ccVars, process, restarts, overlooked, db, waitTill, enqueued, timers, stops,
                   active, aborted, cancelSaves>>

(* A new execution is set running whatever its row says by now. *)
AdmitNew(c) ==
    /\ At(c, "admitted")
    /\ run[c].kind = "new"
    /\ db' = [db EXCEPT ![exec(c)] = "running"]
    /\ Goto(c, "claimed")
    /\ UNCHANGED <<ccVars, process, restarts, overlooked, waitTill, enqueued, timers, stops,
                   active, aborted, cancelSaves>>

(* Mutant: the update does not require the status. *)
ClaimAnyStatus(c) ==
    /\ At(c, "admitted")
    /\ run[c].kind # "new"
    /\ db' = [db EXCEPT ![exec(c)] = "running"]
    /\ waitTill' = waitTill \ {exec(c)}
    /\ Goto(c, "claimed")
    /\ UNCHANGED <<ccVars, process, restarts, overlooked, enqueued, timers, stops, active,
                   aborted, cancelSaves>>

(* An existing execution is claimed by an update that requires its row to  *)
(* be waiting, or the call throws ExecutionAlreadyResumingError.           *)
Claim(c) ==
    /\ At(c, "admitted")
    /\ run[c].kind # "new"
    /\ IF db[exec(c)] = "waiting"
       THEN /\ db' = [db EXCEPT ![exec(c)] = "running"]
            /\ waitTill' = waitTill \ {exec(c)}
            /\ Goto(c, "claimed")
       ELSE /\ Goto(c, "refused")
            /\ UNCHANGED <<db, waitTill>>
    /\ UNCHANGED <<ccVars, process, restarts, overlooked, enqueued, timers, stops, active,
                   aborted, cancelSaves>>

(* The entry replaces the one a waiting execution left, and keeps its      *)
(* response promise.                                                       *)
Register(c) ==
    LET e == exec(c)
    IN  /\ At(c, "claimed")
        /\ active' = [active EXCEPT ![e] =
                         [owner |-> c, status |-> "running", engine |-> None,
                          resp |-> @ # None /\ @.resp, settled |-> FALSE]]
        /\ Goto(c, "registered")
        /\ UNCHANGED <<ccVars, process, restarts, overlooked, db, waitTill, enqueued, timers,
                       stops, aborted, cancelSaves>>

(* The credentials check throws: the hooks save a failed execution, or     *)
(* throw, before or after they have, and then nobody finalizes.            *)
FailCredentials(c) ==
    /\ At(c, "registered")
    /\ \/ /\ db' = [db EXCEPT ![exec(c)] = "error"]
          /\ \E pc \in {"failed", "threw"} : Goto(c, pc)
       \/ Goto(c, "threw") /\ UNCHANGED db
    /\ UNCHANGED <<ccVars, process, restarts, overlooked, waitTill, enqueued, timers, stops,
                   active, aborted, cancelSaves>>

(* The response promise of a webhook, if any, is attached, which throws    *)
(* when the entry is gone; then runMainProcess sets the row running.  Up   *)
(* to there whatever throws, an unknown node type for one, is not caught.  *)
PrepareRun(c) ==
    LET e == exec(c)
    IN  /\ At(c, "registered")
        /\ \E hasResponse \in BOOLEAN :
              \/ /\ active' = IF hasResponse /\ active[e] # None
                              THEN [active EXCEPT ![e].resp = TRUE]
                              ELSE active
                 /\ Goto(c, "threw") /\ UNCHANGED db
              \/ /\ hasResponse => active[e] # None
                 /\ active' = IF hasResponse THEN [active EXCEPT ![e].resp = TRUE] ELSE active
                 /\ db' = [db EXCEPT ![e] = "running"]
                 /\ Goto(c, "prepared")
        /\ UNCHANGED <<ccVars, process, restarts, overlooked, waitTill, enqueued, timers, stops,
                       aborted, cancelSaves>>

(* The engine starts and is attached to the entry of that id.  When the    *)
(* entry is gone, attaching throws but the engine is running all the same. *)
StartEngine(c) ==
    LET e == exec(c)
    IN  /\ At(c, "prepared")
        /\ active' = IF active[e] = None THEN active
                     ELSE [active EXCEPT ![e].engine = c]
        /\ run' = [run EXCEPT ![c].pc = "running", ![c].attached = active[e] # None]
        /\ UNCHANGED <<ccVars, process, restarts, overlooked, db, waitTill, enqueued, timers,
                       stops, aborted, cancelSaves>>
-----------------------------------------------------------------------------
(* The engine *)

(* putExecutionToWait: the node fails if the entry of its execution is gone. *)
GoToWait(c) ==
    /\ At(c, "running")
    /\ active[exec(c)] # None
    /\ active' = [active EXCEPT ![exec(c)].status = "waiting"]
    /\ Goto(c, "toWait")
    /\ UNCHANGED <<ccVars, process, restarts, overlooked, db, waitTill, enqueued, timers, stops,
                   aborted, cancelSaves>>

(* processSuccessExecution: an engine that was canceled leaves the saving  *)
(* to its onCancel hook.  "canceled" without an abort is the soft timeout. *)
EndRun(c) ==
    /\ \/ /\ At(c, "running")
          /\ \E out \in (IF c \in aborted THEN {"canceled"} ELSE Outcomes) :
                run' = [run EXCEPT ![c].out = out,
                                   ![c].pc = IF c \in aborted THEN "saved" ELSE "saving"]
       \/ /\ At(c, "toWait")
          /\ run' = [run EXCEPT ![c].out = IF c \in aborted THEN "canceled" ELSE "waiting",
                                ![c].pc = IF c \in aborted THEN "saved" ELSE "saving"]
    /\ UNCHANGED <<ccVars, process, restarts, overlooked, db, waitTill, enqueued, timers, stops,
                   active, aborted, cancelSaves>>

(* hookFunctionsSave writes the row; waitTill is only written when set. *)
SaveRun(c) ==
    /\ At(c, "saving")
    /\ db' = [db EXCEPT ![exec(c)] = run[c].out]
    /\ waitTill' = IF run[c].out = "waiting" THEN waitTill \cup {exec(c)} ELSE waitTill
    /\ Goto(c, "saved")
    /\ UNCHANGED <<ccVars, process, restarts, overlooked, enqueued, timers, stops, active,
                   aborted, cancelSaves>>

(* Mutant: another spelling of the status. *)
CancelSaveSpelling(c) ==
    /\ c \in cancelSaves
    /\ cancelSaves' = cancelSaves \ {c}
    /\ db' = [db EXCEPT ![exec(c)] = "cancelled"]
    /\ UNCHANGED <<ccVars, process, restarts, overlooked, waitTill, enqueued, timers, stops, run,
                   active, aborted>>

(* The onCancel hook writes the row. *)
CancelSave(c) ==
    /\ c \in cancelSaves
    /\ cancelSaves' = cancelSaves \ {c}
    /\ db' = [db EXCEPT ![exec(c)] = "canceled"]
    /\ UNCHANGED <<ccVars, process, restarts, overlooked, waitTill, enqueued, timers, stops, run,
                   active, aborted>>

(* Mutant: an execution that failed its credentials check is not finalized. *)
FinalizeNotFailed(c) ==
    /\ run[c].pc \in {"saved", "failed"}
    /\ IF run[c].attached THEN Settle(exec(c)) ELSE UNCHANGED <<ccVars, active>>
    /\ Goto(c, "done")
    /\ UNCHANGED <<process, restarts, overlooked, db, waitTill, enqueued, timers, stops, aborted,
                   cancelSaves>>

(* The handlers on the engine's promise settle the entry that now has the  *)
(* execution's id, whichever call added it.  An engine that was never      *)
(* attached has no handlers.                                               *)
Finalize(c) ==
    /\ run[c].pc \in {"saved", "failed"}
    /\ IF At(c, "failed") \/ run[c].attached
       THEN Settle(exec(c))
       ELSE UNCHANGED <<ccVars, active>>
    /\ Goto(c, "done")
    /\ UNCHANGED <<process, restarts, overlooked, db, waitTill, enqueued, timers, stops, aborted,
                   cancelSaves>>

(* processError meets what throws as the engine is started, and what has   *)
(* the promise of an attached engine rejected: the entry is settled, unless*)
(* the message speaks of a cancellation,                                   *)
EngineThrows(c) ==
    /\ \/ At(c, "prepared")
       \/ run[c].pc \in {"running", "toWait", "saving"} /\ run[c].attached
    /\ \/ Settle(exec(c)) /\ Goto(c, "erring")
       \/ UNCHANGED <<ccVars, active>> /\ Goto(c, "threw")
    /\ UNCHANGED <<process, restarts, overlooked, db, waitTill, enqueued, timers, stops, aborted,
                   cancelSaves>>

(* and the error is saved after that, unless a hook throws.                *)
SaveError(c) ==
    /\ At(c, "erring")
    /\ \/ db' = [db EXCEPT ![exec(c)] = "error"] /\ Goto(c, "done")
       \/ UNCHANGED db /\ Goto(c, "threw")
    /\ UNCHANGED <<ccVars, process, restarts, overlooked, waitTill, enqueued, timers, stops,
                   active, aborted, cancelSaves>>

(* The execution timeout, armed once the engine is attached. *)
Timeout(c) ==
    /\ run[c].attached
    /\ run[c].pc \in {"running", "toWait", "saving", "saved"}
    /\ stopExecution(exec(c))
    /\ UNCHANGED <<process, restarts, overlooked, db, waitTill, enqueued, timers, stops, run>>
-----------------------------------------------------------------------------
(* ExecutionService.stop *)

(* The row is read and found stoppable. *)
StopRead(e) ==
    /\ stops[e] = "none"
    /\ db[e] \in {"new", "waiting", "running"}
    /\ stops' = [stops EXCEPT ![e] = "read"]
    /\ UNCHANGED <<ccVars, process, restarts, overlooked, db, waitTill, enqueued, timers, run,
                   active, aborted, cancelSaves>>

(* The calls whose promise has left the line and never resolves. *)
Dropped(c) ==
    /\ At(c, "queued")
    /\ \A t \in QueueTypes :
          /\ c \notin holders'[t]
          /\ \A i \in DOMAIN queue'[t] : queue'[t][i].call # c

DropRemoved ==
    run' = [c \in Calls |-> IF Dropped(c) THEN [run[c] EXCEPT !.pc = "removed"] ELSE run[c]]

(* stopInRegularMode up to its write: a throttled execution leaves the     *)
(* line, any other is canceled and its resumption is called off.           *)
StopAct(e) ==
    /\ stops[e] = "read"
    /\ IF has(e)
       THEN /\ remove(ModeOf[e], e)
            /\ DropRemoved
            /\ stops' = [stops EXCEPT ![e] = "before"]
            /\ UNCHANGED <<active, aborted, cancelSaves, timers>>
       ELSE /\ stopExecution(e)
            /\ timers' = timers \ {e}
            /\ stops' = [stops EXCEPT ![e] = "during"]
            /\ UNCHANGED run
    /\ UNCHANGED <<process, restarts, overlooked, db, waitTill, enqueued>>

(* stopBeforeRun writes the status alone, stopDuringRun clears waitTill. *)
StopWrite(e) ==
    /\ stops[e] \in {"before", "during"}
    /\ db' = [db EXCEPT ![e] = "canceled"]
    /\ waitTill' = IF stops[e] = "during" THEN waitTill \ {e} ELSE waitTill
    /\ stops' = [stops EXCEPT ![e] = "none"]
    /\ UNCHANGED <<ccVars, process, restarts, overlooked, enqueued, timers, run, active, aborted,
                   cancelSaves>>
-----------------------------------------------------------------------------
(* Resuming *)

(* WaitTracker's poll arms a timer for a due row. *)
PollWaiting(e) ==
    /\ process = "up"
    /\ e \in waitTill \ timers
    /\ db[e] # "crashed"
    /\ timers' = timers \cup {e}
    /\ UNCHANGED <<ccVars, process, restarts, overlooked, db, waitTill, enqueued, stops, run,
                   active, aborted, cancelSaves>>

(* startExecution: a finished execution is refused before it is throttled. *)
TimerFires(c, e) ==
    /\ e \in timers
    /\ timers' = timers \ {e}
    /\ IF db[e] = "success"
       THEN UNCHANGED run
       ELSE /\ At(c, "idle")
            /\ Ask(c, e, "resume")
    /\ UNCHANGED <<ccVars, process, restarts, overlooked, db, waitTill, enqueued, stops, active,
                   aborted, cancelSaves>>

(* Mutant: only running and finished executions are refused. *)
WebhookResumeAnyStatus(c, e) ==
    /\ At(c, "idle")
    /\ db[e] \notin {"none", "running", "success"}
    /\ Ask(c, e, "resume")
    /\ UNCHANGED <<ccVars, process, restarts, overlooked, db, waitTill, enqueued, timers, stops,
                   active, aborted, cancelSaves>>

(* A request to a waiting webhook, refused while the row is running,       *)
(* finished, or holds an error.  A row canceled while throttled holds none *)
(* (it still has its waitTill).                                            *)
WebhookResume(c, e) ==
    /\ At(c, "idle")
    /\ \/ db[e] = "waiting"
       \/ db[e] = "canceled" /\ e \in waitTill
    /\ Ask(c, e, "resume")
    /\ UNCHANGED <<ccVars, process, restarts, overlooked, db, waitTill, enqueued, timers, stops,
                   active, aborted, cancelSaves>>
-----------------------------------------------------------------------------
(* The process *)

(* stopProcess up to ActiveExecutions.shutdown: WaitTracker.stopTracking. *)
BeginShutdown ==
    /\ process = "up"
    /\ process' = "stopping"
    /\ timers' = {}
    /\ UNCHANGED <<ccVars, restarts, overlooked, db, waitTill, enqueued, stops, run, active,
                   aborted, cancelSaves>>

(* Mutant: the limit stays in force. *)
DrainKeepingLimit ==
    /\ process = "stopping"
    /\ process' = "draining"
    /\ UNCHANGED <<ccVars, restarts, overlooked, db, waitTill, enqueued, timers, stops, run, active,
                   aborted, cancelSaves>>

(* ActiveExecutions.shutdown up to its loop: the limit is lifted, entries  *)
(* with a response promise are stopped, waiting ones are dropped.          *)
Drain ==
    LET responding(e) == active[e] # None /\ active[e].resp
        stopped == {e \in Executions : responding(e) /\ active[e].status = "running"}
    IN  /\ process = "stopping"
        /\ process' = "draining"
        /\ disable
        /\ Abort({active[e].engine : e \in stopped})
        /\ active' = [e \in Executions |->
                         IF active[e] = None \/ e \in stopped \/ active[e].status = "waiting"
                         THEN None ELSE active[e]]
        /\ UNCHANGED <<restarts, overlooked, db, waitTill, enqueued, timers, stops, run>>

(* Mutant: rows left running are not recovered. *)
NewProcessWithoutRecovery ==
    /\ restarts < MaxRestarts
    /\ restarts' = restarts + 1
    /\ process' = "up"
    /\ restart
    /\ enqueued' = {e \in Executions : db[e] = "new"}
    /\ timers' = {}
    /\ stops' = [e \in Executions |-> "none"]
    /\ run' = [c \in Calls |-> IdleCall]
    /\ active' = NoExecution
    /\ aborted' = {}
    /\ cancelSaves' = {}
    /\ UNCHANGED <<db, waitTill, overlooked>>

(* The engines that run a new execution may have logged its start and no   *)
(* node yet; a resumed execution has logged nodes before.                  *)
StartLogged ==
    {e \in Executions :
        \/ e \in overlooked
        \/ \E c \in Calls : At(c, "running") /\ exec(c) = e /\ run[c].kind = "new"}

(* A fresh process: whatever was in memory is gone, rows left running are  *)
(* marked as crashed, rows left new are found by runEnqueuedExecutions.    *)
(* An execution of which the log holds nothing but its start is passed     *)
(* over, and its row stays as it is.                                       *)
NewProcess ==
    /\ restarts < MaxRestarts
    /\ restarts' = restarts + 1
    /\ process' = "up"
    /\ restart
    /\ overlooked' \in SUBSET {e \in StartLogged : db[e] = "running"}
    /\ db' = [e \in Executions |-> IF db[e] = "running" /\ e \notin overlooked'
                                  THEN "crashed" ELSE db[e]]
    /\ enqueued' = {e \in Executions : db[e] = "new"}
    /\ timers' = {}
    /\ stops' = [e \in Executions |-> "none"]
    /\ run' = [c \in Calls |-> IdleCall]
    /\ active' = NoExecution
    /\ aborted' = {}
    /\ cancelSaves' = {}
    /\ UNCHANGED waitTill

(* The loop of shutdown ends once no entry is left, and the process exits. *)
Exit == process = "draining" /\ active = NoExecution /\ NewProcess

Crash == NewProcess

RunEnqueued(c, e) ==
    /\ At(c, "idle")
    /\ e \in enqueued
    /\ enqueued' = enqueued \ {e}
    /\ Ask(c, e, "boot")
    /\ UNCHANGED <<ccVars, process, restarts, overlooked, db, waitTill, timers, stops, active,
                   aborted, cancelSaves>>
-----------------------------------------------------------------------------
Step(c) ==
    \/ Arrive(c) \/ LetThrough(c) \/ AdmitNew(c) \/ Claim(c) \/ Register(c)
    \/ FailCredentials(c) \/ PrepareRun(c) \/ StartEngine(c)
    \/ GoToWait(c) \/ EndRun(c) \/ SaveRun(c) \/ CancelSave(c) \/ Finalize(c)
    \/ EngineThrows(c) \/ SaveError(c)

Next ==
    \/ \E c \in Calls : Step(c) \/ Timeout(c)
    \/ \E c \in Calls, e \in Executions :
          CreateExecution(c, e) \/ TimerFires(c, e) \/ WebhookResume(c, e) \/ RunEnqueued(c, e)
    \/ \E e \in Executions : StopRead(e) \/ StopAct(e) \/ StopWrite(e) \/ PollWaiting(e)
    \/ BeginShutdown \/ Drain \/ Exit \/ Crash

Spec == Init /\ [][Next]_vars
-----------------------------------------------------------------------------
TypeOK ==
    /\ CCTypeOK
    /\ process \in {"up", "stopping", "draining"}
    /\ restarts \in 0 .. MaxRestarts
    /\ db \in [Executions -> Status]
    /\ waitTill \subseteq Executions
    /\ overlooked \subseteq Executions
    /\ enqueued \subseteq Executions
    /\ timers \subseteq Executions
    /\ stops \in [Executions -> {"none", "read", "before", "during"}]
    /\ run \in [Calls -> Call]
    /\ active \in [Executions -> Entry \cup {None}]
    /\ aborted \subseteq Calls
    /\ cancelSaves \subseteq Calls

(* A call owns its execution from the write that claims the row to the end *)
(* of its engine, or the saving of an error.                               *)
Owns(c) == run[c].pc \in {"claimed", "registered", "prepared", "running", "toWait",
                          "saving", "erring"}

(* However often an execution is resumed, by its timer, by webhooks, twice *)
(* by either, with stops and restarts between, one call runs it at a time  *)
(* (the status required by ActiveExecutions.add).                          *)
OneEnginePerExecution ==
    \A c, d \in Calls : Owns(c) /\ Owns(d) /\ exec(c) = exec(d) => c = d

(* While the process serves, a row that says running is being run, or a    *)
(* write that cancels or fails it is on its way.  The exceptions are a call*)
(* that threw where nothing is caught (before setRunning, in the hooks of a*)
(* failed credentials check, in processError), whose row stays running, and*)
(* a row that recovery passed over (RestartMarksCrashed).                  *)
NoOrphanRunning ==
    process = "up" =>
        \A e \in Executions :
            db[e] = "running" =>
                \/ stops[e] \in {"before", "during"}
                \/ e \in overlooked
                \/ \E c \in Calls :
                      exec(c) = e /\ (Owns(c) \/ c \in cancelSaves \/ At(c, "threw"))

(* An entry whose promise has not settled belongs to a call of its         *)
(* execution that is going to settle it, with its engine attached if it    *)
(* runs; the exception is a call that threw, whose entry only a stop can   *)
(* settle.  No other entry holds up the loop of shutdown for ever.         *)
UnsettledIsWorkedOn ==
    \A e \in Executions :
        active[e] # None /\ ~active[e].settled =>
            LET c == active[e].owner
            IN  /\ exec(c) = e
                /\ \/ run[c].pc \in {"registered", "prepared", "failed", "threw"}
                   \/ run[c].pc \in {"running", "toWait", "saving", "saved"} /\ run[c].attached

(* A new execution that a user stops while it is in line never runs, nor   *)
(* does anything else run it: its call never returns from throttle.        *)
RemovedNeverRuns ==
    \A c, d \in Calls :
        At(c, "removed") /\ run[c].kind = "new" /\ exec(d) = exec(c) =>
            ~Owns(d) /\ ~\E t \in QueueTypes : d \in holders[t]

(* A call in line whose promise has not resolved. *)
Throttled(c) == At(c, "queued") /\ \A t \in QueueTypes : c \notin holders[t]

(* "removal of active executions will no longer release capacity back, so  *)
(* that throttled executions cannot resume during shutdown"                *)
ThrottledStayDuringShutdown ==
    [][process = "draining" /\ process' = "draining" =>
          \A c \in Calls : Throttled(c) => Throttled(c)' \/ At(c, "removed")']_vars

(* The service sees only calls in the order it is written for.             *)
UsesConcurrencyControl == SpecCC

(* A duplicate resume is skipped: it leaves nothing behind, and certainly  *)
(* no slot taken.                                                          *)
SkippedResumeHoldsNoSlot ==
    \A c, d \in Calls :
        At(c, "refused") /\ Owns(d) /\ exec(d) = exec(c) =>
            \A t \in QueueTypes : c \notin holders[t]

(* Executions found enqueued at startup are run.                           *)
EnqueuedRunAtStartup ==
    \A c \in Calls : run[c].kind = "boot" => ~At(c, "refused")

(* In regular mode, what a process left running has crashed: "if we are in *)
(* queue mode, running jobs may still be running on a worker despite the   *)
(* main process crashing, so we can't just mark them as crashed".          *)
RestartMarksCrashed ==
    [][restarts' # restarts => \A e \in Executions : db[e] = "running" => db'[e] = "crashed"]_vars

-----------------------------------------------------------------------------
(* Liveness.  Awaits return, nodes end, and the writes that were sent      *)
(* land; nothing obliges users, timers or requests.                        *)
LiveSpec == Spec /\ \A c \in Calls : WF_vars(Step(c))

(* No finished call sits on a slot of the queue. *)
HeldByFinished(t) ==
    \E d \in holders[t] : run[d].pc \in {"refused", "done", "threw", "removed"}

(* A throttled call is let through or taken out of line, unless a call     *)
(* that ended without giving its slot back sits on one (SkippedResume...)  *)
(* or the limit is lifted for shutdown.                                    *)
ThrottledGetsItsTurn ==
    \A c \in Calls :
        Throttled(c) ~> \/ ~Throttled(c)
                        \/ ~isEnabled
                        \/ \E t \in QueueTypes : HeldByFinished(t)

(* The loop of shutdown comes to its end, unless an execution that went to *)
(* wait while it was running left its entry behind, or a call that threw   *)
(* did.                                                                    *)
ShutdownComesToEnd ==
    process = "draining" ~>
        \/ process = "up"
        \/ active = NoExecution
        \/ \E e \in Executions :
              active[e] # None /\ (active[e].settled \/ At(active[e].owner, "threw"))
=============================================================================
