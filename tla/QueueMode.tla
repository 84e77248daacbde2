------------------------------ MODULE QueueMode ------------------------------
(***************************************************************************)
(* Executions in queue mode.  A main process creates or resumes an         *)
(* execution, adds a job to the queue and awaits its end; a worker picks   *)
(* the job up and runs the engine; a user stops executions from any main;  *)
(* the leader looks for executions that are in progress without a job.     *)
(* Main processes and workers crash, and workers lose the lock on a job.   *)
(*                                                                         *)
(* The queue is Bull's: an external service, modelled by what this code    *)
(* relies on.  A job is made by one call of WorkflowRunner.run, so the two *)
(* have one name.  One action is one stretch of code without an await,     *)
(* with the database or queue operation it starts from.                    *)
(***************************************************************************)
EXTENDS Naturals, FiniteSets

CONSTANTS
    Mains, Workers,
    Jobs,        \* calls of run, with the job each adds
    Executions,
    MaxCrashes,  \* bound on the crashes of processes
    None

ASSUME QueueModeAssumption == None \notin Jobs \cup Workers /\ MaxCrashes \in Nat

VARIABLES
    db,          \* [Executions -> Status], the status column
    run,         \* [Jobs -> Call], in the main process
    active,      \* [Mains -> ActiveExecutions]: an entry or None
    canceling,   \* [Jobs -> how far stopJob has come]
    stops,       \* [Executions -> Stop]
    recovery,    \* the recovery cycle under way
    queue,       \* [Jobs -> state of the job]
    aborts,      \* jobs with an abort-job message on its way
    work,        \* [Jobs -> Work], in the worker
    aborted,     \* runs whose abort signal fired
    cancelSaves, \* runs whose onCancel hook has not written yet
    crashes

mainVars == <<run, active, canceling, stops, recovery>>
workVars == <<work, aborted, cancelSaves>>
vars == <<db, mainVars, queue, aborts, workVars, crashes>>
-----------------------------------------------------------------------------
Status == {"none", "new", "running", "waiting", "success", "error", "canceled",
           "crashed"}
InProgress == {"new", "running"}

(* "claimed" has written the row; "added" has its entry; "queued" has added *)
(* its job; "awaiting" awaits job.finished(); "failing" and "gaveUp" are in *)
(* processError, after the job failed or was not enqueued; "finished" is    *)
(* about to finalize; "abandoned" left processError without having          *)
(* finalized; "threw" ended by an error that nothing catches; the process   *)
(* of a "lost" call has crashed.                                            *)
CallPC == {"idle", "asked", "refused", "claimed", "added", "failed", "prepared",
           "queued", "awaiting", "failing", "gaveUp", "writing", "writingLast",
           "finished", "done", "abandoned", "threw", "lost"}
Call == [pc : CallPC, main : Mains \cup {None}, exec : Executions \cup {None}]

Entry == [engine : Jobs \cup {None}]  \* workflowExecution
NoStop == [phase |-> "none", main |-> None]
Stop == [phase : {"read", "write"}, main : Mains] \cup {NoStop}
Recovery == [phase : {"idle", "look", "mark"}, main : Mains \cup {None},
             ids : SUBSET Executions]
NoRecovery == [phase |-> "idle", main |-> None, ids |-> {}]

JobState == {"none", "waiting", "active", "completed", "failed", "cancelled", "removed"}

(* "starting" has read the row, "prepared" has set it running; from         *)
(* "running" on the job is in runningJobs.                                  *)
WorkPC == {"none", "picked", "starting", "prepared", "running", "saving", "saved",
           "done", "dead"}
Outcomes == {"success", "error", "waiting"}
Work == [pc : WorkPC, worker : Workers \cup {None}, out : Outcomes]

(* An execution does not exist yet, or waits since an earlier life of the   *)
(* processes.                                                               *)
Init ==
    /\ db \in [Executions -> {"none", "waiting"}]
    /\ run = [j \in Jobs |-> [pc |-> "idle", main |-> None, exec |-> None]]
    /\ active = [m \in Mains |-> [e \in Executions |-> None]]
    /\ canceling = [j \in Jobs |-> "none"]
    /\ stops = [e \in Executions |-> NoStop]
    /\ recovery = NoRecovery
    /\ queue = [j \in Jobs |-> "none"]
    /\ aborts = {}
    /\ work = [j \in Jobs |-> [pc |-> "none", worker |-> None, out |-> "success"]]
    /\ aborted = {}
    /\ cancelSaves = {}
    /\ crashes = 0

exec(j) == run[j].exec
At(j, pc) == run[j].pc = pc
Works(j, pc) == work[j].pc = pc
Goto(j, pc) == run' = [run EXCEPT ![j].pc = pc]
GotoWork(j, pc) == work' = [work EXCEPT ![j].pc = pc]
Write(e, status) == db' = [db EXCEPT ![e] = status]

(* The entry of the job's execution in its main process. *)
entryOf(j) == active[run[j].main][exec(j)]
DropEntry(j) == active' = [active EXCEPT ![run[j].main][exec(j)] = None]
-----------------------------------------------------------------------------
(* WorkflowRunner.run in a main process *)

(* add without an id: the row is inserted, and nothing is throttled.       *)
CreateExecution(m, j, e) ==
    /\ At(j, "idle")
    /\ db[e] = "none"
    /\ Write(e, "new")
    /\ run' = [run EXCEPT ![j] = [pc |-> "claimed", main |-> m, exec |-> e]]
    /\ UNCHANGED <<active, canceling, stops, recovery, queue, aborts, workVars, crashes>>

(* A timer or a webhook resumes an execution that it has found waiting.    *)
Ask(m, j, e) ==
    /\ At(j, "idle")
    /\ db[e] = "waiting"
    /\ run' = [run EXCEPT ![j] = [pc |-> "asked", main |-> m, exec |-> e]]
    /\ UNCHANGED <<db, active, canceling, stops, recovery, queue, aborts, workVars, crashes>>

(* Mutant: the update does not require the status. *)
ClaimAnyStatus(j) ==
    /\ At(j, "asked")
    /\ Write(exec(j), "running")
    /\ Goto(j, "claimed")
    /\ UNCHANGED <<active, canceling, stops, recovery, queue, aborts, workVars, crashes>>

Claim(j) ==
    /\ At(j, "asked")
    /\ IF db[exec(j)] = "waiting"
       THEN Write(exec(j), "running") /\ Goto(j, "claimed")
       ELSE Goto(j, "refused") /\ UNCHANGED db
    /\ UNCHANGED <<active, canceling, stops, recovery, queue, aborts, workVars, crashes>>

Register(j) ==
    /\ At(j, "claimed")
    /\ active' = [active EXCEPT ![run[j].main][exec(j)] = [engine |-> None]]
    /\ Goto(j, "added")
    /\ UNCHANGED <<db, canceling, stops, recovery, queue, aborts, workVars, crashes>>

(* The hooks that save the failed run may throw, before they have written   *)
(* the row or after; then the entry is not finalized.                       *)
FailCredentials(j) ==
    /\ At(j, "added")
    /\ \/ Write(exec(j), "error") /\ (Goto(j, "failed") \/ Goto(j, "threw"))
       \/ UNCHANGED db /\ Goto(j, "threw")
    /\ UNCHANGED <<active, canceling, stops, recovery, queue, aborts, workVars, crashes>>

(* Attaching a response promise throws if the entry is gone, and setting up *)
(* the queue, before the try, may throw.                                    *)
Prepare(j) ==
    /\ At(j, "added")
    /\ Goto(j, "prepared") \/ Goto(j, "threw")
    /\ UNCHANGED <<db, active, canceling, stops, recovery, queue, aborts, workVars, crashes>>

(* addJob *)
Enqueue(j) ==
    /\ At(j, "prepared")
    /\ queue' = [queue EXCEPT ![j] = "waiting"]
    /\ Goto(j, "queued")
    /\ UNCHANGED <<db, active, canceling, stops, recovery, aborts, workVars, crashes>>

(* addJob throws, or a hook does once the job is in the queue; processError *)
(* returns at once when the error's message speaks of a cancellation.       *)
EnqueueFails(j) ==
    /\ run[j].pc \in {"prepared", "queued"}
    /\ Goto(j, "gaveUp") \/ Goto(j, "abandoned")
    /\ UNCHANGED <<db, active, canceling, stops, recovery, queue, aborts, workVars, crashes>>

(* The promise that awaits the job is attached to the entry of that id;    *)
(* when the entry is gone, attaching throws and the promise awaits on.     *)
Attach(j) ==
    /\ At(j, "queued")
    /\ active' = IF entryOf(j) = None THEN active
                 ELSE [active EXCEPT ![run[j].main][exec(j)].engine = j]
    /\ Goto(j, "awaiting")
    /\ UNCHANGED <<db, canceling, stops, recovery, queue, aborts, workVars, crashes>>

(* job.finished() settles: processError returns at once on a cancellation, *)
(* and on any message that speaks of one.                                   *)
JobFinished(j) ==
    /\ At(j, "awaiting")
    /\ queue[j] \in {"completed", "failed", "cancelled"}
    /\ Goto(j, "finished") \/ (queue[j] = "failed" /\ Goto(j, "failing"))
    /\ UNCHANGED <<db, active, canceling, stops, recovery, queue, aborts, workVars, crashes>>

(* processError: "a sanity run for the edge case that the execution was not *)
(* marked as stalled by Bull even though it executed successfully".         *)
ReadForError(j) ==
    /\ run[j].pc \in {"failing", "gaveUp"}
    /\ IF db[exec(j)] = "success"
       THEN /\ Goto(j, IF At(j, "failing") THEN "finished" ELSE "abandoned")
            /\ UNCHANGED active
       ELSE /\ DropEntry(j)
            /\ Goto(j, IF At(j, "failing") THEN "writing" ELSE "writingLast")
    /\ UNCHANGED <<db, canceling, stops, recovery, queue, aborts, workVars, crashes>>

(* The workflowExecuteAfter hook writes the failed run, or throws; after a  *)
(* failed job the code goes on as if the job had finished.                  *)
WriteError(j) ==
    /\ run[j].pc \in {"writing", "writingLast"}
    /\ \/ /\ Write(exec(j), "error")
          /\ Goto(j, IF At(j, "writing") THEN "finished" ELSE "done")
       \/ UNCHANGED db /\ Goto(j, "threw")
    /\ UNCHANGED <<active, canceling, stops, recovery, queue, aborts, workVars, crashes>>

(* Mutant: only a failed credentials check is finalized. *)
FinalizeFailed(j) ==
    /\ run[j].pc \in {"finished", "failed"}
    /\ IF At(j, "failed") THEN DropEntry(j) ELSE UNCHANGED active
    /\ Goto(j, "done")
    /\ UNCHANGED <<db, canceling, stops, recovery, queue, aborts, workVars, crashes>>

(* finalizeExecution settles the entry that now has the execution's id.     *)
Finalize(j) ==
    /\ run[j].pc \in {"finished", "failed"}
    /\ DropEntry(j)
    /\ Goto(j, "done")
    /\ UNCHANGED <<db, canceling, stops, recovery, queue, aborts, workVars, crashes>>
-----------------------------------------------------------------------------
(* ExecutionService.stop in scaling mode, at any main *)

StopRead(m, e) ==
    /\ stops[e].phase = "none"
    /\ db[e] \in {"new", "waiting", "running"}
    /\ stops' = [stops EXCEPT ![e] = [phase |-> "read", main |-> m]]
    /\ UNCHANGED <<db, run, active, canceling, recovery, queue, aborts, workVars, crashes>>

(* stopExecution: the entry is dropped, and the promise that is attached to *)
(* it canceled if it is pending.  Another main has no entry.                *)
StopAct(e) ==
    LET m == stops[e].main
        pending == {j \in Jobs : /\ active[m][e] # None
                                 /\ active[m][e].engine = j
                                 /\ run[j].pc \in {"awaiting", "failing", "writing",
                                                   "finished"}}
    IN  /\ stops[e].phase = "read"
        /\ active' = [active EXCEPT ![m][e] = None]
        /\ canceling' = [j \in Jobs |-> IF j \in pending THEN "check" ELSE canceling[j]]
        /\ stops' = [stops EXCEPT ![e].phase = "write"]
        /\ UNCHANGED <<db, run, recovery, queue, aborts, workVars, crashes>>

(* Mutant: another spelling of the status. *)
StopWriteSpelling(e) ==
    /\ stops[e].phase = "write"
    /\ Write(e, "cancelled")
    /\ stops' = [stops EXCEPT ![e] = NoStop]
    /\ UNCHANGED <<run, active, canceling, recovery, queue, aborts, workVars, crashes>>

StopWrite(e) ==
    /\ stops[e].phase = "write"
    /\ Write(e, "canceled")
    /\ stops' = [stops EXCEPT ![e] = NoStop]
    /\ UNCHANGED <<run, active, canceling, recovery, queue, aborts, workVars, crashes>>

(* stopJob: a job that is active is aborted by a message and then failed;   *)
(* any other is removed, which throws if a worker has it by now.            *)
StopJob(j) ==
    /\ \/ /\ canceling[j] = "check"
          /\ canceling' = [canceling EXCEPT ![j] =
                              IF queue[j] = "active" THEN "abort" ELSE "remove"]
          /\ UNCHANGED <<queue, aborts>>
       \/ /\ canceling[j] = "abort"
          /\ IF queue[j] = "active"
             THEN /\ aborts' = aborts \cup {j}
                  /\ canceling' = [canceling EXCEPT ![j] = "fail"]
             ELSE /\ canceling' = [canceling EXCEPT ![j] = "none"]
                  /\ UNCHANGED aborts
          /\ UNCHANGED queue
       \/ /\ canceling[j] = "fail"
          /\ queue' = [queue EXCEPT ![j] = IF @ = "active" THEN "cancelled" ELSE @]
          /\ canceling' = [canceling EXCEPT ![j] = "none"]
          /\ UNCHANGED aborts
       \/ /\ canceling[j] = "remove"
          /\ queue' = [queue EXCEPT ![j] = IF @ = "waiting" THEN "removed" ELSE @]
          /\ canceling' = [canceling EXCEPT ![j] = "none"]
          /\ UNCHANGED aborts
    /\ UNCHANGED <<db, run, active, stops, recovery, workVars, crashes>>
-----------------------------------------------------------------------------
(* recoverFromQueue, in three steps with a query before each of the last two *)

(* Mutant: only rows that say running are looked for. *)
RecoverReadRunning(m) ==
    LET stored == {e \in Executions : db[e] = "running"}
    IN  /\ recovery.phase = "idle"
        /\ stored # {}
        /\ recovery' = [phase |-> "look", main |-> m, ids |-> stored]
        /\ UNCHANGED <<db, run, active, canceling, stops, queue, aborts, workVars, crashes>>

RecoverRead(m) ==
    LET stored == {e \in Executions : db[e] \in InProgress}
    IN  /\ recovery.phase = "idle"
        /\ stored # {}
        /\ recovery' = [phase |-> "look", main |-> m, ids |-> stored]
        /\ UNCHANGED <<db, run, active, canceling, stops, queue, aborts, workVars, crashes>>

RecoverLook ==
    LET queued == {exec(j) : j \in {k \in Jobs : queue[k] \in {"active", "waiting"}}}
        dangling == recovery.ids \ queued
    IN  /\ recovery.phase = "look"
        /\ recovery' = IF dangling = {} THEN NoRecovery
                       ELSE [recovery EXCEPT !.phase = "mark", !.ids = dangling]
        /\ UNCHANGED <<db, run, active, canceling, stops, queue, aborts, workVars, crashes>>

(* markAsCrashed requires nothing of the row. *)
RecoverMark ==
    /\ recovery.phase = "mark"
    /\ db' = [e \in Executions |-> IF e \in recovery.ids THEN "crashed" ELSE db[e]]
    /\ recovery' = NoRecovery
    /\ UNCHANGED <<run, active, canceling, stops, queue, aborts, workVars, crashes>>
-----------------------------------------------------------------------------
(* The worker *)

PickUp(w, j) ==
    /\ queue[j] = "waiting"
    /\ queue' = [queue EXCEPT ![j] = "active"]
    /\ work' = [work EXCEPT ![j] = [pc |-> "picked", worker |-> w, out |-> "success"]]
    /\ UNCHANGED <<db, mainVars, aborts, aborted, cancelSaves, crashes>>

(* The job ends in the worker: it is moved if the worker still has it.     *)
EndJob(j, state) ==
    /\ queue' = [queue EXCEPT ![j] = IF @ = "active" THEN state ELSE @]
    /\ GotoWork(j, "done")
    /\ aborted' = aborted \ {j}

(* processJob reads the row and refrains from running a crashed execution. *)
ReadRow(j) ==
    /\ Works(j, "picked")
    /\ IF db[exec(j)] = "crashed"
       THEN EndJob(j, "completed")
       ELSE GotoWork(j, "starting") /\ UNCHANGED <<queue, aborted>>
    /\ UNCHANGED <<db, mainVars, aborts, cancelSaves, crashes>>

(* setRunning requires nothing of the row. *)
SetRunning(j) ==
    /\ Works(j, "starting")
    /\ Write(exec(j), "running")
    /\ GotoWork(j, "prepared")
    /\ UNCHANGED <<mainVars, queue, aborts, aborted, cancelSaves, crashes>>

(* The workflow is missing, or not fit to run. *)
Throws(j) ==
    /\ Works(j, "prepared")
    /\ EndJob(j, "failed")
    /\ UNCHANGED <<db, mainVars, aborts, cancelSaves, crashes>>

(* The engine starts and the job is in runningJobs. *)
Start(j) ==
    /\ Works(j, "prepared")
    /\ GotoWork(j, "running")
    /\ UNCHANGED <<db, mainVars, queue, aborts, aborted, cancelSaves, crashes>>

(* A canceled engine leaves the saving to its onCancel hook. *)
EndRun(j) ==
    /\ Works(j, "running")
    /\ IF j \in aborted
       THEN GotoWork(j, "saved")
       ELSE \E out \in Outcomes :
               work' = [work EXCEPT ![j].out = out, ![j].pc = "saving"]
    /\ UNCHANGED <<db, mainVars, queue, aborts, aborted, cancelSaves, crashes>>

SaveRun(j) ==
    /\ Works(j, "saving")
    /\ Write(exec(j), work[j].out)
    /\ work' = [work EXCEPT ![j].pc = "saved", ![j].out = "success"]
    /\ UNCHANGED <<mainVars, queue, aborts, aborted, cancelSaves, crashes>>

CancelSave(j) ==
    /\ j \in cancelSaves
    /\ cancelSaves' = cancelSaves \ {j}
    /\ Write(exec(j), "canceled")
    /\ UNCHANGED <<mainVars, queue, aborts, work, aborted, crashes>>

Complete(j) ==
    /\ Works(j, "saved")
    /\ EndJob(j, "completed")
    /\ UNCHANGED <<db, mainVars, aborts, cancelSaves, crashes>>

(* An abort-job message arrives: nothing is done unless the job is in       *)
(* runningJobs.                                                             *)
Abort(j) ==
    /\ j \in aborts
    /\ aborts' = aborts \ {j}
    /\ IF work[j].pc \in {"running", "saving", "saved"}
       THEN /\ aborted' = aborted \cup {j}
            /\ cancelSaves' = cancelSaves \cup {j}
       ELSE UNCHANGED <<aborted, cancelSaves>>
    /\ UNCHANGED <<db, mainVars, queue, work, crashes>>
-----------------------------------------------------------------------------
(* Faults *)

(* The worker no longer renews the lock: maxStalledCount is 0, so the job   *)
(* fails.  The worker may be alive.                                         *)
Stalled(j) ==
    /\ queue[j] = "active"
    /\ queue' = [queue EXCEPT ![j] = "failed"]
    /\ UNCHANGED <<db, mainVars, aborts, workVars, crashes>>

StalledDead(j) == Works(j, "dead") /\ Stalled(j)

(* Another process takes the place of the one that crashed. *)
WorkerCrash(w) ==
    LET dying == {j \in Jobs : work[j].worker = w /\ work[j].pc # "done"}
    IN  /\ crashes < MaxCrashes
        /\ crashes' = crashes + 1
        /\ work' = [j \in Jobs |-> IF j \in dying THEN [work[j] EXCEPT !.pc = "dead"]
                                  ELSE work[j]]
        /\ cancelSaves' = {j \in cancelSaves : work[j].worker # w}
        /\ UNCHANGED <<db, mainVars, queue, aborts, aborted>>

MainCrash(m) ==
    /\ crashes < MaxCrashes
    /\ crashes' = crashes + 1
    /\ run' = [j \in Jobs |->
                  IF run[j].main = m /\ run[j].pc \notin {"idle", "refused", "done"}
                  THEN [run[j] EXCEPT !.pc = "lost"] ELSE run[j]]
    /\ active' = [active EXCEPT ![m] = [e \in Executions |-> None]]
    /\ canceling' = [j \in Jobs |-> IF run[j].main = m THEN "none" ELSE canceling[j]]
    /\ stops' = [e \in Executions |-> IF stops[e].main = m THEN NoStop ELSE stops[e]]
    /\ recovery' = IF recovery.main = m THEN NoRecovery ELSE recovery
    /\ UNCHANGED <<db, queue, aborts, workVars>>
-----------------------------------------------------------------------------
CallStep(j) ==
    \/ Claim(j) \/ Register(j) \/ FailCredentials(j) \/ Prepare(j) \/ Enqueue(j)
    \/ EnqueueFails(j) \/ Attach(j) \/ JobFinished(j) \/ ReadForError(j)
    \/ WriteError(j) \/ Finalize(j) \/ StopJob(j)

WorkStep(j) ==
    \/ ReadRow(j) \/ SetRunning(j) \/ Throws(j) \/ Start(j) \/ EndRun(j) \/ SaveRun(j)
    \/ CancelSave(j) \/ Complete(j) \/ Abort(j)

Recover == RecoverLook \/ RecoverMark \/ \E m \in Mains : RecoverRead(m)

Next ==
    \/ \E j \in Jobs : CallStep(j) \/ WorkStep(j) \/ Stalled(j)
    \/ \E m \in Mains, j \in Jobs, e \in Executions : CreateExecution(m, j, e) \/ Ask(m, j, e)
    \/ \E w \in Workers, j \in Jobs : PickUp(w, j)
    \/ \E m \in Mains, e \in Executions : StopRead(m, e)
    \/ \E e \in Executions : StopAct(e) \/ StopWrite(e)
    \/ Recover
    \/ \E w \in Workers : WorkerCrash(w)
    \/ \E m \in Mains : MainCrash(m)

Spec == Init /\ [][Next]_vars
-----------------------------------------------------------------------------
TypeOK ==
    /\ db \in [Executions -> Status]
    /\ run \in [Jobs -> Call]
    /\ active \in [Mains -> [Executions -> Entry \cup {None}]]
    /\ canceling \in [Jobs -> {"none", "check", "abort", "fail", "remove"}]
    /\ stops \in [Executions -> Stop]
    /\ recovery \in Recovery
    /\ queue \in [Jobs -> JobState]
    /\ aborts \subseteq Jobs
    /\ work \in [Jobs -> Work]
    /\ aborted \subseteq Jobs
    /\ cancelSaves \subseteq Jobs
    /\ crashes \in 0 .. MaxCrashes

(* The engine of an execution runs in one worker at a time, whatever main   *)
(* processes resume it and whichever workers stall or crash (the status     *)
(* required by ActiveExecutions.add).                                       *)
AtWork(j) == work[j].pc \in {"starting", "prepared", "running", "saving"}

OneWorkerPerExecution ==
    \A j, k \in Jobs : AtWork(j) /\ AtWork(k) /\ exec(j) = exec(k) => j = k

(* An entry has a call of its execution, in its main process, that is still *)
(* to finalize it and whose job still ends: no stop, stalled job, failed    *)
(* job or other call of the execution leaves an entry behind that holds up  *)
(* the shutdown.  Two ways out are in the code and are excepted by name:    *)
(* "threw", after hooks that throw in a failed credentials check or a queue *)
(* that cannot be set up; and "abandoned", when addJob or the hook after it *)
(* throws and processError returns early, since the job has succeeded or    *)
(* since the message speaks of a cancellation.                              *)
EntryHasCall ==
    \A m \in Mains, e \in Executions :
        active[m][e] # None =>
            \E j \in Jobs :
                /\ run[j].main = m /\ exec(j) = e
                /\ \/ run[j].pc \in {"added", "failed", "prepared", "queued", "failing",
                                     "gaveUp", "finished"}
                   \/ run[j].pc \in {"abandoned", "threw"}
                   \/ At(j, "awaiting") /\ queue[j] # "removed"

(* A run that was saved as a success stays one, but for writers that had    *)
(* looked at the row before it was saved: a stop, a recovery cycle, an      *)
(* error handler, and the onCancel hook of a stop that came too late.       *)
SuccessLostToStaleReadsOnly ==
    [][\A e \in Executions :
          db[e] = "success" /\ db'[e] # "success" =>
              \/ stops[e].phase = "write"
              \/ recovery.phase = "mark" /\ e \in recovery.ids
              \/ \E j \in Jobs :
                    exec(j) = e /\ (run[j].pc \in {"writing", "writingLast"}
                                    \/ j \in cancelSaves)]_vars

(* "Mark in-progress executions as `crashed` if stored in DB as `new` or    *)
(* `running` but absent from the queue."                                    *)
RecoveryMarksInProgress ==
    [][\A e \in Executions :
          db[e] # "crashed" /\ db'[e] = "crashed" => db[e] \in InProgress]_vars
-----------------------------------------------------------------------------
(* Liveness.  Awaits return, nodes end, messages arrive, some worker picks  *)
(* jobs up, Bull finds jobs whose worker died, and the leader keeps looking *)
(* for dangling executions.                                                 *)
LiveSpec ==
    /\ Spec
    /\ \A j \in Jobs : /\ WF_vars(CallStep(j))
                       /\ WF_vars(WorkStep(j))
                       /\ WF_vars(StalledDead(j))
                       /\ WF_vars(\E w \in Workers : PickUp(w, j))
    /\ WF_vars(Recover)

(* No execution is in progress for ever, whichever processes crash.         *)
InProgressEnds == \A e \in Executions : db[e] \in InProgress ~> db[e] \notin InProgress
=============================================================================
