-------------------------- MODULE QueueMode_proofs --------------------------
(***************************************************************************)
(* Proofs about QueueMode, for any number of mains, workers, calls,        *)
(* executions and crashes: an execution has one worker at a time, an entry *)
(* has a call that finalizes it, and who may overwrite a success.          *)
(*                                                                         *)
(* A call is answerable for its execution from the claim of the row until  *)
(* the run is saved.  In that time the row says neither waiting, so that   *)
(* nobody claims it, nor success, so that nothing is lost to a writer that *)
(* does not look.                                                          *)
(***************************************************************************)
EXTENDS QueueMode, TLAPS

(* The engine runs or may yet run for the call, in whatever worker: the    *)
(* calls before the queue, the jobs in it, and the jobs with a worker.     *)
Unpicked == {"claimed", "added", "prepared"}
Working == {"picked", "starting", "prepared", "running", "saving"}
MayWork(j) == run[j].pc \in Unpicked \/ queue[j] = "waiting" \/ work[j].pc \in Working

(* The calls have an execution once they have been made. *)
CallsOK ==
    \A j \in Jobs : run[j].pc # "idle" => exec(j) \in Executions /\ run[j].main \in Mains

(* A call makes one job, and only a job in the queue gets a worker. *)
Unqueued == {"idle", "asked", "refused", "claimed", "added", "failed", "prepared"}
JobsMadeOnce ==
    \A j \in Jobs :
        /\ run[j].pc \in Unqueued => queue[j] = "none"
        /\ queue[j] \in {"none", "waiting"} => work[j].pc = "none"
        /\ work[j].pc = "none" => work[j].worker = None

(* No two calls are answerable for an execution, ... *)
OneMayWork ==
    \A j, k \in Jobs : MayWork(j) /\ MayWork(k) /\ exec(j) = exec(k) => j = k

(* ... whose row is taken meanwhile. *)
Untaken == {"none", "waiting", "success"}
RowTaken == \A j \in Jobs : MayWork(j) => db[exec(j)] \notin Untaken

(* The promise attached to an entry is that of a call of its execution. *)
EngineOfEntry ==
    \A m \in Mains, e \in Executions, j \in Jobs :
        active[m][e] # None /\ active[m][e].engine = j =>
            run[j].pc # "idle" /\ run[j].main = m /\ exec(j) = e

(* A job is removed from the queue by a stop, which found its call waiting *)
(* for it and has dropped the entry.                                       *)
Attached == {"awaiting", "failing", "writing", "finished", "done", "threw"}
StopsAttached ==
    \A j \in Jobs : /\ canceling[j] # "none" => run[j].pc \in Attached
                    /\ queue[j] = "removed" => run[j].pc \in Attached \cup {"lost"}

(* A call that will finalize the entry, or that is excepted, and that no   *)
(* stop has found.                                                         *)
Finalizers == {"added", "failed", "prepared", "queued", "failing", "gaveUp", "finished",
               "abandoned", "threw"}
WillFinalize(j, m, e) ==
    /\ run[j].main = m /\ exec(j) = e
    /\ \/ run[j].pc \in Finalizers
       \/ At(j, "awaiting") /\ queue[j] # "removed"

EntryIsFinalized ==
    \A m \in Mains, e \in Executions :
        active[m][e] # None => \E j \in Jobs : WillFinalize(j, m, e) /\ canceling[j] = "none"

OwnerInv == CallsOK /\ JobsMadeOnce /\ OneMayWork /\ RowTaken

EntryInv == EngineOfEntry /\ StopsAttached /\ EntryIsFinalized

IInv == TypeOK /\ OwnerInv /\ EntryInv

USE DEF exec, At, Works, Write
-----------------------------------------------------------------------------
(* Types *)

(* A call that goes on is a call. *)
LEMMA GotoType ==
    ASSUME TypeOK, NEW j \in Jobs, NEW pc \in CallPC, Goto(j, pc)
    PROVE  run' \in [Jobs -> Call]
  BY DEF Goto, TypeOK, Call

(* And so is work that goes on. *)
LEMMA GotoWorkType ==
    ASSUME TypeOK, NEW j \in Jobs, NEW pc \in WorkPC, GotoWork(j, pc)
    PROVE  work' \in [Jobs -> Work]
  BY DEF GotoWork, TypeOK, Work

(* A row that is written has a status. *)
LEMMA WriteType ==
    ASSUME TypeOK, CallsOK, NEW j \in Jobs, run[j].pc # "idle",
           NEW status \in Status, Write(exec(j), status)
    PROVE  db' \in [Executions -> Status]
  BY DEF TypeOK, CallsOK

(* An entry that is dropped is none. *)
LEMMA DropType ==
    ASSUME TypeOK, NEW j \in Jobs, DropEntry(j)
    PROVE  active' \in [Mains -> [Executions -> Entry \cup {None}]]
  BY DEF TypeOK, DropEntry

(* The types of what the calls of run change. *)
LEMMA CallTypes ==
    ASSUME TypeOK, CallsOK, NEW j \in Jobs, CallStep(j)
    PROVE  TypeOK'
<1> USE DEF CallPC, Status
<1>1. ASSUME Claim(j) PROVE TypeOK'
  <2>1. CASE db[exec(j)] = "waiting"
    BY <1>1, <2>1, GotoType, WriteType DEF Claim, TypeOK, workVars
  <2>2. CASE db[exec(j)] # "waiting"
    BY <1>1, <2>2, GotoType DEF Claim, TypeOK, workVars
  <2> QED
    BY <2>1, <2>2
<1>2. ASSUME Register(j) PROVE TypeOK'
  <2>1. run' \in [Jobs -> Call]
    BY <1>2, GotoType DEF Register
  <2>2. active' \in [Mains -> [Executions -> Entry \cup {None}]]
    BY <1>2 DEF Register, TypeOK, Entry
  <2> QED
    BY <1>2, <2>1, <2>2 DEF Register, TypeOK, workVars
<1>3. ASSUME FailCredentials(j) PROVE TypeOK'
  BY <1>3, GotoType, WriteType DEF FailCredentials, TypeOK, workVars
<1>4. ASSUME Prepare(j) PROVE TypeOK'
  <2>1. PICK pc \in {"threw", "prepared"} : Goto(j, pc)
    BY <1>4 DEF Prepare
  <2>2. run' \in [Jobs -> Call]
    BY <2>1, GotoType
  <2> QED
    BY <1>4, <2>2 DEF Prepare, TypeOK, workVars
<1>5. ASSUME Enqueue(j) PROVE TypeOK'
  BY <1>5, GotoType DEF Enqueue, TypeOK, JobState, workVars
<1>6. ASSUME EnqueueFails(j) PROVE TypeOK'
  BY <1>6, GotoType DEF EnqueueFails, TypeOK, workVars
<1>7. ASSUME Attach(j) PROVE TypeOK'
  <2>1. run' \in [Jobs -> Call]
    BY <1>7, GotoType DEF Attach
  <2>2. active' \in [Mains -> [Executions -> Entry \cup {None}]]
    <3>1. CASE entryOf(j) = None
      BY <1>7, <3>1 DEF Attach, TypeOK
    <3>2. CASE entryOf(j) # None
      <4>1. run[j].main \in Mains /\ exec(j) \in Executions
        BY <1>7 DEF Attach, CallsOK
      <4>2. entryOf(j) \in Entry
        BY <3>2, <4>1 DEF TypeOK, entryOf
      <4>3. [entryOf(j) EXCEPT !.engine = j] \in Entry
        BY <4>2 DEF Entry
      <4> QED
        BY <1>7, <3>2, <4>1, <4>3 DEF Attach, TypeOK, entryOf
    <3> QED
      BY <3>1, <3>2
  <2> QED
    BY <1>7, <2>1, <2>2 DEF Attach, TypeOK, workVars
<1>8. ASSUME JobFinished(j) PROVE TypeOK'
  BY <1>8, GotoType DEF JobFinished, TypeOK, workVars
<1>9. ASSUME ReadForError(j) PROVE TypeOK'
  <2>1. run' \in [Jobs -> Call]
    BY <1>9, GotoType DEF ReadForError
  <2>2. active' \in [Mains -> [Executions -> Entry \cup {None}]]
    BY <1>9, DropType DEF ReadForError, TypeOK
  <2> QED
    BY <1>9, <2>1, <2>2 DEF ReadForError, TypeOK, workVars
<1>10. ASSUME WriteError(j) PROVE TypeOK'
  BY <1>10, GotoType, WriteType DEF WriteError, TypeOK, workVars
<1>11. ASSUME Finalize(j) PROVE TypeOK'
  BY <1>11, GotoType, DropType DEF Finalize, TypeOK, workVars
<1>12. ASSUME StopJob(j) PROVE TypeOK'
  BY <1>12 DEF StopJob, TypeOK, JobState, workVars
<1> QED
  BY <1>1, <1>2, <1>3, <1>4, <1>5, <1>6, <1>7, <1>8, <1>9, <1>10, <1>11, <1>12 DEF CallStep

(* The types of what a worker changes for a job. *)
LEMMA WorkTypes ==
    ASSUME TypeOK, CallsOK, JobsMadeOnce, NEW j \in Jobs, WorkStep(j)
    PROVE  TypeOK'
<1> USE DEF WorkPC, Status
<1>0. ASSUME work[j].pc # "none" PROVE run[j].pc # "idle"
  BY <1>0 DEF JobsMadeOnce, Unqueued
<1>1. ASSUME NEW state \in {"completed", "failed"}, EndJob(j, state),
             UNCHANGED <<db, mainVars, aborts, cancelSaves, crashes>>
      PROVE  TypeOK'
  <2>1. work' \in [Jobs -> Work]
    BY <1>1, GotoWorkType DEF EndJob
  <2> QED
    BY <1>1, <2>1 DEF EndJob, TypeOK, JobState, mainVars
<1>2. ASSUME NEW pc \in WorkPC, GotoWork(j, pc),
             UNCHANGED <<db, mainVars, queue, aborts, aborted, cancelSaves, crashes>>
      PROVE  TypeOK'
  BY <1>2, GotoWorkType DEF TypeOK, mainVars
<1>3. ASSUME ReadRow(j) PROVE TypeOK'
  <2>1. CASE db[exec(j)] = "crashed"
    BY <1>1, <1>3, <2>1 DEF ReadRow
  <2>2. CASE db[exec(j)] # "crashed"
    BY <1>2, <1>3, <2>2 DEF ReadRow
  <2> QED
    BY <2>1, <2>2
<1>4. ASSUME SetRunning(j) PROVE TypeOK'
  BY <1>0, <1>4, GotoWorkType, WriteType DEF SetRunning, TypeOK, mainVars
<1>5. ASSUME Throws(j) PROVE TypeOK'
  BY <1>1, <1>5 DEF Throws
<1>6. ASSUME Start(j) PROVE TypeOK'
  BY <1>2, <1>6 DEF Start
<1>7. ASSUME EndRun(j) PROVE TypeOK'
  <2>1. CASE j \in aborted
    BY <1>2, <1>7, <2>1 DEF EndRun
  <2>2. ASSUME NEW out \in Outcomes,
               work' = [work EXCEPT ![j].out = out, ![j].pc = "saving"]
        PROVE  work' \in [Jobs -> Work]
    BY <2>2 DEF TypeOK, Work
  <2> QED
    BY <1>7, <2>1, <2>2 DEF EndRun, TypeOK, mainVars
<1>8. ASSUME SaveRun(j) PROVE TypeOK'
  <2>1. work[j].out \in Status /\ work' \in [Jobs -> Work]
    BY <1>8 DEF SaveRun, TypeOK, Work, Outcomes
  <2> QED
    BY <1>0, <1>8, <2>1, WriteType DEF SaveRun, TypeOK, mainVars
<1>9. ASSUME CancelSave(j) PROVE TypeOK'
  BY <1>9 DEF CancelSave, TypeOK, mainVars
<1>10. ASSUME Complete(j) PROVE TypeOK'
  BY <1>1, <1>10 DEF Complete
<1>11. ASSUME Abort(j) PROVE TypeOK'
  BY <1>11 DEF Abort, TypeOK, mainVars
<1> QED
  BY <1>3, <1>4, <1>5, <1>6, <1>7, <1>8, <1>9, <1>10, <1>11 DEF WorkStep

(* The types of what users, the leader and faults change. *)
LEMMA OtherTypes ==
    ASSUME TypeOK, [Next]_vars,
           \A j \in Jobs : ~CallStep(j) /\ ~WorkStep(j)
    PROVE  TypeOK'
<1> USE QueueModeAssumption DEF Status
<1>1. ASSUME NEW j \in Jobs, Stalled(j) PROVE TypeOK'
  BY <1>1 DEF Stalled, TypeOK, JobState, mainVars, workVars
<1>2. ASSUME NEW m \in Mains, NEW j \in Jobs, NEW e \in Executions,
             CreateExecution(m, j, e) \/ Ask(m, j, e)
      PROVE  TypeOK'
  <2>1. \A pc \in {"claimed", "asked"} : [pc |-> pc, main |-> m, exec |-> e] \in Call
    BY DEF Call, CallPC
  <2>2. CASE CreateExecution(m, j, e)
    BY <2>1, <2>2 DEF CreateExecution, TypeOK, workVars
  <2>3. CASE Ask(m, j, e)
    BY <2>1, <2>3 DEF Ask, TypeOK, workVars
  <2> QED
    BY <1>2, <2>2, <2>3
<1>3. ASSUME NEW w \in Workers, NEW j \in Jobs, PickUp(w, j) PROVE TypeOK'
  BY <1>3 DEF PickUp, TypeOK, JobState, Work, WorkPC, Outcomes, mainVars
<1>4. ASSUME NEW m \in Mains, NEW e \in Executions, StopRead(m, e) PROVE TypeOK'
  BY <1>4 DEF StopRead, TypeOK, Stop, workVars
<1>5. ASSUME NEW e \in Executions, StopAct(e) PROVE TypeOK'
  <2>1. stops' \in [Executions -> Stop]
    <3>1. stops[e] # NoStop
      BY <1>5 DEF StopAct, NoStop
    <3> QED
      BY <1>5, <3>1 DEF StopAct, TypeOK, Stop
  <2>2. active' \in [Mains -> [Executions -> Entry \cup {None}]]
    BY <1>5 DEF StopAct, TypeOK
  <2>3. canceling' \in [Jobs -> {"none", "check", "abort", "fail", "remove"}]
    BY <1>5 DEF StopAct, TypeOK
  <2> QED
    BY <1>5, <2>1, <2>2, <2>3 DEF StopAct, TypeOK, workVars
<1>6. ASSUME NEW e \in Executions, StopWrite(e) PROVE TypeOK'
  BY <1>6 DEF StopWrite, TypeOK, NoStop, Stop, workVars
<1>7. CASE Recover
  <2>1. NoRecovery \in Recovery
    BY DEF NoRecovery, Recovery
  <2>2. ASSUME NEW m \in Mains, RecoverRead(m) PROVE recovery' \in Recovery
    BY <2>2 DEF RecoverRead, Recovery
  <2>3. ASSUME RecoverLook PROVE recovery' \in Recovery
    <3> DEFINE dangling == recovery.ids \ {exec(j) : j \in {k \in Jobs : queue[k] \in {"active", "waiting"}}}
    <3> HIDE DEF dangling
    <3>1. dangling \subseteq Executions
      BY DEF dangling, TypeOK, Recovery
    <3>2. recovery' = NoRecovery \/ recovery' = [recovery EXCEPT !.phase = "mark", !.ids = dangling]
      BY <2>3 DEF RecoverLook, dangling
    <3>3. [recovery EXCEPT !.phase = "mark", !.ids = dangling] \in Recovery
      BY <3>1 DEF TypeOK, Recovery
    <3> QED
      BY <2>1, <3>2, <3>3
  <2>4. ASSUME RecoverMark PROVE db' \in [Executions -> Status]
    BY <2>4 DEF RecoverMark, TypeOK
  <2> QED
    BY <1>7, <2>1, <2>2, <2>3, <2>4 DEF Recover, RecoverRead, RecoverLook, RecoverMark,
       TypeOK, workVars
<1>8. ASSUME NEW w \in Workers, WorkerCrash(w) PROVE TypeOK'
  BY <1>8 DEF WorkerCrash, TypeOK, Work, WorkPC, mainVars
<1>9. ASSUME NEW m \in Mains, MainCrash(m) PROVE TypeOK'
  <2>1. run' \in [Jobs -> Call]
    <3>1. \A j \in Jobs : [run[j] EXCEPT !.pc = "lost"] \in Call
      BY DEF TypeOK, Call, CallPC
    <3> QED
      BY <1>9, <3>1 DEF MainCrash, TypeOK
  <2>2. active' \in [Mains -> [Executions -> Entry \cup {None}]]
    BY <1>9 DEF MainCrash, TypeOK
  <2>3. stops' \in [Executions -> Stop] /\ recovery' \in Recovery
    BY <1>9 DEF MainCrash, TypeOK, NoStop, Stop, NoRecovery, Recovery
  <2> QED
    BY <1>9, <2>1, <2>2, <2>3 DEF MainCrash, TypeOK, workVars
<1>10. CASE UNCHANGED vars
  BY <1>10 DEF vars, TypeOK, mainVars, workVars
<1> QED
  BY <1>1, <1>2, <1>3, <1>4, <1>5, <1>6, <1>7, <1>8, <1>9, <1>10 DEF Next
-----------------------------------------------------------------------------
(* Who is answerable for an execution *)

(* A call that may run its execution has one. *)
LEMMA MayWorkHasExecution ==
    ASSUME CallsOK, JobsMadeOnce, NEW j \in Jobs, MayWork(j)
    PROVE  run[j].pc # "idle" /\ exec(j) \in Executions
  BY DEF CallsOK, JobsMadeOnce, MayWork, Unpicked, Working, Unqueued

(* A call that goes on is still that of its execution, and others stay.    *)
Goes(j) ==
    /\ run'[j].main = run[j].main /\ run'[j].exec = exec(j)
    /\ \A k \in Jobs \ {j} : run'[k] = run[k]

LEMMA GotoGoes ==
    ASSUME TypeOK, NEW j \in Jobs, NEW pc, Goto(j, pc)
    PROVE  run'[j].pc = pc /\ Goes(j)
  BY DEF Goto, TypeOK, Call, Goes

(* Nobody becomes answerable, and the rows of those who are stay taken. *)
KeepsOwners ==
    /\ \A j \in Jobs : MayWork(j)' => MayWork(j) /\ run'[j].exec = exec(j)
    /\ \A e \in Executions :
          \/ db'[e] = db[e] \/ db'[e] \notin Untaken
          \/ \A j \in Jobs : MayWork(j)' => exec(j) # e

LEMMA OwnersKept ==
    ASSUME OwnerInv, KeepsOwners
    PROVE  OneMayWork' /\ RowTaken'
<1>1. \A j \in Jobs : MayWork(j) => exec(j) \in Executions
  BY MayWorkHasExecution DEF OwnerInv
<1>2. OneMayWork'
  BY DEF OwnerInv, OneMayWork, KeepsOwners
<1>3. RowTaken'
  BY <1>1 DEF OwnerInv, RowTaken, KeepsOwners
<1> QED
  BY <1>2, <1>3

(* A call takes a row that nobody was answerable for. *)
LEMMA OwnerTakes ==
    ASSUME OwnerInv, NEW j \in Jobs, NEW e \in Executions, NEW status \in {"new", "running"},
           db \in [Executions -> Status], db[e] \in Untaken, Write(e, status),
           run'[j].exec = e,
           \A k \in Jobs \ {j} : run'[k] = run[k],
           UNCHANGED <<queue, work>>
    PROVE  OneMayWork' /\ RowTaken'
<1>1. \A k \in Jobs : MayWork(k) => exec(k) \in Executions /\ exec(k) # e
  BY MayWorkHasExecution DEF OwnerInv, RowTaken
<1>2. \A k \in Jobs : k # j /\ MayWork(k)' => MayWork(k) /\ run'[k].exec = exec(k)
  BY DEF MayWork
<1>3. OneMayWork'
  BY <1>1, <1>2 DEF OwnerInv, OneMayWork
<1>4. RowTaken'
  BY <1>1, <1>2 DEF OwnerInv, RowTaken, Untaken
<1> QED
  BY <1>3, <1>4

(* The steps of the calls of run. *)
LEMMA CallOwners ==
    ASSUME TypeOK, OwnerInv, NEW j \in Jobs, CallStep(j)
    PROVE  OwnerInv'
<1> USE DEF workVars
<1>1. \A k \in Jobs : run[k].pc # "idle" => exec(k) \in Executions /\ run[k].main \in Mains
  BY DEF OwnerInv, CallsOK
<1>2. ASSUME Goes(j), run[j].pc # "idle", run'[j].pc # "idle",
             run'[j].pc \in Unqueued => run[j].pc \in Unqueued,
             run'[j].pc \in Unpicked => run[j].pc \in Unpicked,
             UNCHANGED <<queue, work>>,
             UNCHANGED db \/ Write(exec(j), "error")
      PROVE  OwnerInv'
  <2>1. CallsOK' /\ JobsMadeOnce'
    BY <1>1, <1>2 DEF OwnerInv, CallsOK, JobsMadeOnce, Goes
  <2>2. KeepsOwners
    BY <1>2 DEF KeepsOwners, MayWork, Untaken, TypeOK, Goes
  <2> QED
    BY <2>1, <2>2, OwnersKept DEF OwnerInv
<1>3. ASSUME NEW pc, Goto(j, pc) PROVE run'[j].pc = pc /\ Goes(j)
  BY <1>3, GotoGoes
<1>4. ASSUME Claim(j) PROVE OwnerInv'
  <2>1. CASE db[exec(j)] # "waiting"
    BY <1>2, <1>3, <1>4, <2>1 DEF Claim, Unqueued, Unpicked
  <2>2. CASE db[exec(j)] = "waiting"
    <3>0. Goes(j) /\ run'[j].pc = "claimed" /\ run[j].pc = "asked" /\ UNCHANGED <<queue, work>>
      BY <1>3, <1>4, <2>2 DEF Claim
    <3>1. CallsOK' /\ JobsMadeOnce'
      BY <1>1, <3>0 DEF OwnerInv, CallsOK, JobsMadeOnce, Unqueued, Goes
    <3>2. run'[j].exec = exec(j) /\ \A k \in Jobs \ {j} : run'[k] = run[k]
      BY <3>0 DEF Goes
    <3>3. exec(j) \in Executions
      BY <1>1, <1>4 DEF Claim
    <3> QED
      BY <1>4, <2>2, <3>1, <3>2, <3>3, OwnerTakes DEF Claim, OwnerInv, TypeOK, Untaken
  <2> QED
    BY <2>1, <2>2
<1>5. ASSUME Register(j) PROVE OwnerInv'
  BY <1>2, <1>3, <1>5 DEF Register, Unqueued, Unpicked
<1>6. ASSUME FailCredentials(j) PROVE OwnerInv'
  BY <1>2, <1>3, <1>6 DEF FailCredentials, Unqueued, Unpicked
<1>7. ASSUME Prepare(j) PROVE OwnerInv'
  <2>1. CASE Goto(j, "prepared")
    BY <1>2, <1>3, <1>7, <2>1 DEF Prepare, Unqueued, Unpicked
  <2>2. CASE Goto(j, "threw")
    BY <1>2, <1>3, <1>7, <2>2 DEF Prepare, Unqueued, Unpicked
  <2> QED
    BY <1>7, <2>1, <2>2 DEF Prepare
<1>8. ASSUME Enqueue(j) PROVE OwnerInv'
  <2>0. /\ Goes(j) /\ run'[j].pc = "queued" /\ run[j].pc = "prepared"
        /\ queue'[j] = "waiting" /\ \A k \in Jobs \ {j} : queue'[k] = queue[k]
        /\ UNCHANGED <<db, work>>
    BY <1>3, <1>8 DEF Enqueue, TypeOK
  <2>1. CallsOK' /\ JobsMadeOnce'
    BY <1>1, <2>0 DEF OwnerInv, CallsOK, JobsMadeOnce, Unqueued, Goes
  <2>2. KeepsOwners
    BY <2>0 DEF KeepsOwners, MayWork, Unpicked, Goes
  <2> QED
    BY <2>1, <2>2, OwnersKept DEF OwnerInv
<1>9. ASSUME EnqueueFails(j) PROVE OwnerInv'
  BY <1>2, <1>3, <1>9 DEF EnqueueFails, Unqueued, Unpicked
<1>10. ASSUME Attach(j) PROVE OwnerInv'
  BY <1>2, <1>3, <1>10 DEF Attach, Unqueued, Unpicked
<1>11. ASSUME JobFinished(j) PROVE OwnerInv'
  BY <1>2, <1>3, <1>11 DEF JobFinished, Unqueued, Unpicked
<1>12. ASSUME ReadForError(j) PROVE OwnerInv'
  BY <1>2, <1>3, <1>12 DEF ReadForError, Unqueued, Unpicked
<1>13. ASSUME WriteError(j) PROVE OwnerInv'
  BY <1>2, <1>3, <1>13 DEF WriteError, Unqueued, Unpicked
<1>14. ASSUME Finalize(j) PROVE OwnerInv'
  BY <1>2, <1>3, <1>14 DEF Finalize, Unqueued, Unpicked
<1>15. ASSUME StopJob(j) PROVE OwnerInv'
  <2>1. \A k \in Jobs :
            \/ queue'[k] = queue[k]
            \/ queue[k] \in {"active", "waiting"} /\ queue'[k] \in {"cancelled", "removed"}
    BY <1>15 DEF StopJob, TypeOK
  <2>2. UNCHANGED <<db, run, work>>
    BY <1>15 DEF StopJob
  <2>3. CallsOK' /\ JobsMadeOnce'
    BY <2>1, <2>2 DEF OwnerInv, CallsOK, JobsMadeOnce
  <2>4. KeepsOwners
    BY <2>1, <2>2 DEF KeepsOwners, MayWork
  <2> QED
    BY <2>3, <2>4, OwnersKept DEF OwnerInv
<1> QED
  BY <1>4, <1>5, <1>6, <1>7, <1>8, <1>9, <1>10, <1>11, <1>12, <1>13, <1>14, <1>15
  DEF CallStep

(* The work for other jobs stays, and a job that has left the queue does   *)
(* not come back.                                                          *)
WorkGoes(j) ==
    /\ \A k \in Jobs \ {j} : work'[k] = work[k] /\ queue'[k] = queue[k]
    /\ queue'[j] = queue[j] \/ queue'[j] \in {"completed", "failed"}

LEMMA GotoWorkGoes ==
    ASSUME TypeOK, NEW j \in Jobs, NEW pc, GotoWork(j, pc)
    PROVE  work'[j].pc = pc /\ \A k \in Jobs \ {j} : work'[k] = work[k]
  BY DEF GotoWork, TypeOK, Work

(* The steps of the workers. *)
LEMMA WorkOwners ==
    ASSUME TypeOK, OwnerInv, NEW j \in Jobs, WorkStep(j)
    PROVE  OwnerInv'
<1> USE DEF mainVars
<1>1. ASSUME WorkGoes(j), work[j].pc # "none", work'[j].pc # "none",
             work'[j].pc \in Working => work[j].pc \in Working,
             UNCHANGED run,
             \/ UNCHANGED db
             \/ \E status \in Status :
                   /\ Write(exec(j), status)
                   /\ status \in Untaken => work[j].pc \in Working /\ work'[j].pc \notin Working
      PROVE  OwnerInv'
  <2>0. run[j].pc \notin Unqueued /\ queue[j] \notin {"none", "waiting"}
    BY <1>1 DEF OwnerInv, JobsMadeOnce
  <2>1. CallsOK' /\ JobsMadeOnce'
    BY <1>1, <2>0 DEF OwnerInv, CallsOK, JobsMadeOnce, WorkGoes
  <2>2. \A k \in Jobs : MayWork(k)' => MayWork(k)
    BY <1>1, <2>0 DEF MayWork, WorkGoes
  <2>3. work'[j].pc \notin Working => ~MayWork(j)'
    BY <1>1, <2>0 DEF MayWork, WorkGoes, Unqueued, Unpicked
  <2>4. work[j].pc \in Working => MayWork(j)
    BY DEF MayWork
  <2>5. KeepsOwners
    BY <1>1, <2>2, <2>3, <2>4 DEF KeepsOwners, OwnerInv, OneMayWork, TypeOK
  <2> QED
    BY <2>1, <2>5, OwnersKept DEF OwnerInv
<1>2. ASSUME NEW pc, GotoWork(j, pc) PROVE work'[j].pc = pc /\ \A k \in Jobs \ {j} : work'[k] = work[k]
  BY <1>2, GotoWorkGoes
<1>3. ASSUME NEW state \in {"completed", "failed"}, EndJob(j, state), work[j].pc # "none",
             UNCHANGED <<db, run>>
      PROVE  OwnerInv'
  <2>1. work'[j].pc = "done" /\ WorkGoes(j)
    BY <1>2, <1>3 DEF EndJob, WorkGoes, TypeOK
  <2> QED
    BY <1>1, <1>3, <2>1 DEF Working
<1>4. ASSUME NEW pc, GotoWork(j, pc), UNCHANGED queue PROVE WorkGoes(j)
  BY <1>2, <1>4 DEF WorkGoes
<1>5. ASSUME ReadRow(j) PROVE OwnerInv'
  <2>1. CASE db[exec(j)] = "crashed"
    BY <1>3, <1>5, <2>1 DEF ReadRow
  <2>2. CASE db[exec(j)] # "crashed"
    BY <1>1, <1>2, <1>4, <1>5, <2>2 DEF ReadRow, Working
  <2> QED
    BY <2>1, <2>2
<1>6. ASSUME SetRunning(j) PROVE OwnerInv'
  BY <1>1, <1>2, <1>4, <1>6 DEF SetRunning, Working, Status, Untaken
<1>7. ASSUME Throws(j) PROVE OwnerInv'
  BY <1>3, <1>7 DEF Throws
<1>8. ASSUME Start(j) PROVE OwnerInv'
  BY <1>1, <1>2, <1>4, <1>8 DEF Start, Working
<1>9. ASSUME EndRun(j) PROVE OwnerInv'
  <2>1. CASE j \in aborted
    BY <1>1, <1>2, <1>4, <1>9, <2>1 DEF EndRun, Working
  <2>2. CASE j \notin aborted
    <3>1. work'[j].pc = "saving" /\ WorkGoes(j)
      BY <1>9, <2>2 DEF EndRun, WorkGoes, TypeOK, Work
    <3> QED
      BY <1>1, <1>9, <3>1 DEF EndRun, Working
  <2> QED
    BY <2>1, <2>2
<1>10. ASSUME SaveRun(j) PROVE OwnerInv'
  <2>1. work'[j].pc = "saved" /\ WorkGoes(j) /\ work[j].out \in Status
    BY <1>10 DEF SaveRun, WorkGoes, TypeOK, Work, Outcomes, Status
  <2> QED
    BY <1>1, <1>10, <2>1 DEF SaveRun, Working
<1>11. ASSUME CancelSave(j) \/ Abort(j) PROVE OwnerInv'
  <2>1. UNCHANGED <<run, queue, work>> /\ (UNCHANGED db \/ Write(exec(j), "canceled"))
    BY <1>11 DEF CancelSave, Abort
  <2>2. CallsOK' /\ JobsMadeOnce'
    BY <2>1 DEF OwnerInv, CallsOK, JobsMadeOnce
  <2>3. KeepsOwners
    BY <2>1 DEF KeepsOwners, MayWork, Untaken, TypeOK
  <2> QED
    BY <2>2, <2>3, OwnersKept DEF OwnerInv
<1>12. ASSUME Complete(j) PROVE OwnerInv'
  BY <1>3, <1>12 DEF Complete
<1> QED
  BY <1>5, <1>6, <1>7, <1>8, <1>9, <1>10, <1>11, <1>12 DEF WorkStep

(* The steps of users, of the leader, and faults. *)
LEMMA OtherOwners ==
    ASSUME TypeOK, OwnerInv, [Next]_vars,
           \A j \in Jobs : ~CallStep(j) /\ ~WorkStep(j)
    PROVE  OwnerInv'
<1> USE QueueModeAssumption DEF mainVars, workVars
<1>1. ASSUME UNCHANGED <<run, queue, work>>,
             \A e \in Executions : db'[e] = db[e] \/ db'[e] \notin Untaken
      PROVE  OwnerInv'
  <2>1. CallsOK' /\ JobsMadeOnce'
    BY <1>1 DEF OwnerInv, CallsOK, JobsMadeOnce
  <2>2. KeepsOwners
    BY <1>1 DEF KeepsOwners, MayWork
  <2> QED
    BY <2>1, <2>2, OwnersKept DEF OwnerInv
<1>2. ASSUME NEW j \in Jobs, Stalled(j) PROVE OwnerInv'
  <2>1. /\ UNCHANGED <<db, run, work>> /\ queue[j] = "active" /\ queue'[j] = "failed"
        /\ \A k \in Jobs \ {j} : queue'[k] = queue[k]
    BY <1>2 DEF Stalled, TypeOK
  <2>2. CallsOK' /\ JobsMadeOnce'
    BY <2>1 DEF OwnerInv, CallsOK, JobsMadeOnce
  <2>3. KeepsOwners
    BY <2>1 DEF KeepsOwners, MayWork
  <2> QED
    BY <2>2, <2>3, OwnersKept DEF OwnerInv
<1>3. ASSUME NEW m \in Mains, NEW j \in Jobs, NEW e \in Executions,
             CreateExecution(m, j, e) \/ Ask(m, j, e)
      PROVE  OwnerInv'
  <2>1. /\ run[j].pc = "idle" /\ UNCHANGED <<queue, work>>
        /\ run'[j].exec = e /\ run'[j].main = m
        /\ run'[j].pc \in {"asked", "claimed"}
        /\ \A k \in Jobs \ {j} : run'[k] = run[k]
    BY <1>3 DEF CreateExecution, Ask, TypeOK
  <2>2. CallsOK' /\ JobsMadeOnce'
    BY <2>1 DEF OwnerInv, CallsOK, JobsMadeOnce, Unqueued
  <2>3. CASE CreateExecution(m, j, e)
    BY <2>1, <2>2, <2>3, OwnerTakes DEF CreateExecution, OwnerInv, Untaken, TypeOK
  <2>4. CASE Ask(m, j, e)
    <3>1. run'[j].pc = "asked" /\ UNCHANGED db
      BY <2>4 DEF Ask, TypeOK
    <3>2. queue[j] = "none" /\ work[j].pc = "none"
      BY <2>1 DEF OwnerInv, JobsMadeOnce, Unqueued
    <3>3. KeepsOwners
      BY <2>1, <3>1, <3>2 DEF KeepsOwners, MayWork, Unpicked, Working
    <3> QED
      BY <2>2, <3>3, OwnersKept DEF OwnerInv
  <2> QED
    BY <1>3, <2>3, <2>4
<1>4. ASSUME NEW w \in Workers, NEW j \in Jobs, PickUp(w, j) PROVE OwnerInv'
  <2>1. /\ queue[j] = "waiting" /\ queue'[j] = "active" /\ work'[j].pc = "picked"
        /\ \A k \in Jobs \ {j} : queue'[k] = queue[k] /\ work'[k] = work[k]
        /\ UNCHANGED <<db, run>>
    BY <1>4 DEF PickUp, TypeOK
  <2>2. CallsOK' /\ JobsMadeOnce'
    BY <2>1 DEF OwnerInv, CallsOK, JobsMadeOnce
  <2>3. KeepsOwners
    BY <2>1 DEF KeepsOwners, MayWork
  <2> QED
    BY <2>2, <2>3, OwnersKept DEF OwnerInv
<1>5. ASSUME NEW m \in Mains, NEW e \in Executions, StopRead(m, e) PROVE OwnerInv'
  BY <1>1, <1>5 DEF StopRead
<1>6. ASSUME NEW e \in Executions, StopAct(e) PROVE OwnerInv'
  BY <1>1, <1>6 DEF StopAct
<1>7. ASSUME NEW e \in Executions, StopWrite(e) PROVE OwnerInv'
  BY <1>1, <1>7 DEF StopWrite, TypeOK, Untaken
<1>8. CASE Recover
  <2>1. CASE RecoverMark
    BY <1>1, <2>1 DEF RecoverMark, Untaken
  <2>2. CASE ~RecoverMark
    BY <1>1, <1>8, <2>2 DEF Recover, RecoverRead, RecoverLook
  <2> QED
    BY <2>1, <2>2
<1>9. ASSUME NEW w \in Workers, WorkerCrash(w) PROVE OwnerInv'
  <2>1. UNCHANGED <<db, run, queue>>
    BY <1>9 DEF WorkerCrash
  <2>2. \A j \in Jobs :
            \/ work'[j] = work[j]
            \/ work'[j].pc = "dead" /\ work[j].worker = w
    BY <1>9 DEF WorkerCrash, TypeOK, Work
  <2>3. CallsOK'
    BY <2>1 DEF OwnerInv, CallsOK
  <2>4. JobsMadeOnce'
    BY <2>1, <2>2 DEF OwnerInv, JobsMadeOnce
  <2>5. KeepsOwners
    BY <2>1, <2>2 DEF KeepsOwners, MayWork, Working
  <2> QED
    BY <2>3, <2>4, <2>5, OwnersKept DEF OwnerInv
<1>10. ASSUME NEW m \in Mains, MainCrash(m) PROVE OwnerInv'
  <2>1. UNCHANGED <<db, queue, work>>
    BY <1>10 DEF MainCrash
  <2>2. \A j \in Jobs :
            /\ run'[j].exec = exec(j) /\ run'[j].main = run[j].main
            /\ run'[j].pc = run[j].pc \/ (run[j].pc # "idle" /\ run'[j].pc = "lost")
    BY <1>10 DEF MainCrash, TypeOK, Call
  <2>3. CallsOK' /\ JobsMadeOnce'
    BY <2>1, <2>2 DEF OwnerInv, CallsOK, JobsMadeOnce, Unqueued
  <2>4. KeepsOwners
    BY <2>1, <2>2 DEF KeepsOwners, MayWork, Unpicked
  <2> QED
    BY <2>3, <2>4, OwnersKept DEF OwnerInv
<1>11. CASE UNCHANGED vars
  BY <1>1, <1>11 DEF vars
<1> QED
  BY <1>2, <1>3, <1>4, <1>5, <1>6, <1>7, <1>8, <1>9, <1>10, <1>11 DEF Next
-----------------------------------------------------------------------------
(* Entries *)

(* An entry that stays has a call that will still finalize it. *)
LEMMA EntriesStay ==
    ASSUME EntryInv, EngineOfEntry', StopsAttached',
           \A m \in Mains, e \in Executions :
               active'[m][e] # None =>
                   /\ active[m][e] # None
                   /\ \A j \in Jobs : WillFinalize(j, m, e) /\ canceling[j] = "none" =>
                                        WillFinalize(j, m, e)' /\ canceling'[j] = "none"
    PROVE  EntryInv'
  BY DEF EntryInv, EntryIsFinalized

(* The steps of the calls of run. *)
LEMMA CallEntries ==
    ASSUME TypeOK, OwnerInv, EntryInv, NEW j \in Jobs, CallStep(j)
    PROVE  EntryInv'
<1> USE DEF workVars
<1>1. run[j].pc # "idle" => exec(j) \in Executions /\ run[j].main \in Mains
  BY DEF OwnerInv, CallsOK
<1>2. ASSUME Goes(j), run[j].pc \notin {"idle", "lost"}, run'[j].pc # "idle", UNCHANGED canceling,
             \A k \in Jobs : queue'[k] = "removed" => queue[k] = "removed",
             UNCHANGED active \/ DropEntry(j),
             run[j].pc \in Attached => run'[j].pc \in Attached,
             run[j].pc \in Finalizers \cup {"awaiting"} =>
                 \/ run'[j].pc \in Finalizers
                 \/ active'[run[j].main][exec(j)] = None
      PROVE  EntryInv'
  <2>1. \A m \in Mains, e \in Executions : active'[m][e] = active[m][e] \/ active'[m][e] = None
    BY <1>2 DEF DropEntry, TypeOK
  <2>2. EngineOfEntry'
    BY <1>2, <2>1 DEF EntryInv, EngineOfEntry, Goes
  <2>3. StopsAttached'
    BY <1>2 DEF EntryInv, StopsAttached, Goes, Attached
  <2>4. ASSUME NEW m \in Mains, NEW e \in Executions, active'[m][e] # None,
               NEW k \in Jobs, WillFinalize(k, m, e)
        PROVE  WillFinalize(k, m, e)'
    BY <1>2, <2>4 DEF WillFinalize, Goes
  <2> QED
    BY <1>2, <2>1, <2>2, <2>3, <2>4, EntriesStay
<1>3. ASSUME NEW pc, Goto(j, pc) PROVE run'[j].pc = pc /\ Goes(j)
  BY <1>3, GotoGoes
<1>4. ASSUME DropEntry(j), run[j].pc # "idle" PROVE active'[run[j].main][exec(j)] = None
  BY <1>1, <1>4 DEF DropEntry, TypeOK
<1>5. ASSUME Claim(j) PROVE EntryInv'
  BY <1>2, <1>3, <1>5 DEF Claim, Attached, Finalizers
<1>6. ASSUME Register(j) PROVE EntryInv'
  <2>1. /\ Goes(j) /\ run[j].pc = "claimed" /\ run'[j].pc = "added"
        /\ UNCHANGED <<canceling, queue>>
    BY <1>3, <1>6 DEF Register
  <2>2. \A m \in Mains, e \in Executions :
            \/ active'[m][e] = active[m][e]
            \/ m = run[j].main /\ e = exec(j) /\ active'[m][e] = [engine |-> None]
    BY <1>6 DEF Register, TypeOK
  <2>3. EngineOfEntry'
    BY <2>1, <2>2, QueueModeAssumption DEF EntryInv, EngineOfEntry, Goes
  <2>4. StopsAttached' /\ canceling'[j] = "none"
    BY <2>1 DEF EntryInv, StopsAttached, Goes, Attached
  <2>5. EntryIsFinalized'
    <3> SUFFICES ASSUME NEW m \in Mains, NEW e \in Executions, active'[m][e] # None
                 PROVE  \E k \in Jobs : WillFinalize(k, m, e)' /\ canceling'[k] = "none"
      BY DEF EntryIsFinalized
    <3>1. CASE m = run[j].main /\ e = exec(j)
      <4>1. WillFinalize(j, m, e)'
        BY <2>1, <3>1 DEF WillFinalize, Finalizers, Goes
      <4> QED
        BY <2>4, <4>1
    <3>2. CASE ~(m = run[j].main /\ e = exec(j))
      <4>1. PICK k \in Jobs : WillFinalize(k, m, e) /\ canceling[k] = "none"
        BY <2>2, <3>2 DEF EntryInv, EntryIsFinalized
      <4>2. WillFinalize(k, m, e)'
        BY <2>1, <4>1 DEF WillFinalize, Finalizers, Goes
      <4> QED
        BY <2>1, <4>1, <4>2
    <3> QED
      BY <3>1, <3>2
  <2> QED
    BY <2>3, <2>4, <2>5 DEF EntryInv
<1>7. ASSUME FailCredentials(j) PROVE EntryInv'
  BY <1>2, <1>3, <1>7 DEF FailCredentials, Attached, Finalizers
<1>8. ASSUME Prepare(j) PROVE EntryInv'
  <2>1. CASE Goto(j, "prepared")
    BY <1>2, <1>3, <1>8, <2>1 DEF Prepare, Attached, Finalizers
  <2>2. CASE Goto(j, "threw")
    BY <1>2, <1>3, <1>8, <2>2 DEF Prepare, Attached, Finalizers
  <2> QED
    BY <1>8, <2>1, <2>2 DEF Prepare
<1>9. ASSUME Enqueue(j) PROVE EntryInv'
  <2>1. \A k \in Jobs : queue'[k] = "removed" => queue[k] = "removed"
    BY <1>9 DEF Enqueue, TypeOK
  <2> QED
    BY <1>2, <1>3, <1>9, <2>1 DEF Enqueue, Attached, Finalizers
<1>10. ASSUME EnqueueFails(j) PROVE EntryInv'
  BY <1>2, <1>3, <1>10 DEF EnqueueFails, Attached, Finalizers
<1>11. ASSUME Attach(j) PROVE EntryInv'
  <2>1. /\ Goes(j) /\ run[j].pc = "queued" /\ run'[j].pc = "awaiting"
        /\ UNCHANGED <<canceling, queue>>
    BY <1>3, <1>11 DEF Attach
  <2>2. \A m \in Mains, e \in Executions :
            /\ active'[m][e] # None => active[m][e] # None
            /\ \/ active'[m][e] = active[m][e]
               \/ /\ m = run[j].main /\ e = exec(j)
                  /\ \A k : active'[m][e].engine = k => k = j
    <3>1. CASE entryOf(j) = None
      BY <1>11, <3>1 DEF Attach
    <3>2. CASE entryOf(j) # None
      <4>1. entryOf(j) \in Entry
        BY <1>1, <2>1, <3>2 DEF TypeOK, entryOf
      <4>2. [entryOf(j) EXCEPT !.engine = j].engine = j
        BY <4>1 DEF Entry
      <4> QED
        BY <1>11, <3>2, <4>2 DEF Attach, TypeOK, entryOf
    <3> QED
      BY <3>1, <3>2
  <2>3. EngineOfEntry'
    BY <2>1, <2>2 DEF EntryInv, EngineOfEntry, Goes
  <2>4. StopsAttached' /\ queue'[j] # "removed"
    BY <2>1 DEF EntryInv, StopsAttached, Goes, Attached
  <2>5. ASSUME NEW m \in Mains, NEW e \in Executions, NEW k \in Jobs, WillFinalize(k, m, e)
        PROVE  WillFinalize(k, m, e)'
    BY <2>1, <2>4, <2>5 DEF WillFinalize, Goes
  <2> QED
    BY <2>1, <2>2, <2>3, <2>4, <2>5, EntriesStay
<1>12. ASSUME JobFinished(j) PROVE EntryInv'
  BY <1>2, <1>3, <1>12 DEF JobFinished, Attached, Finalizers
<1>13. ASSUME ReadForError(j) PROVE EntryInv'
  BY <1>2, <1>3, <1>4, <1>13 DEF ReadForError, Attached, Finalizers
<1>14. ASSUME WriteError(j) PROVE EntryInv'
  BY <1>2, <1>3, <1>14 DEF WriteError, Attached, Finalizers
<1>15. ASSUME Finalize(j) PROVE EntryInv'
  BY <1>2, <1>3, <1>4, <1>15 DEF Finalize, Attached, Finalizers
<1>16. ASSUME StopJob(j) PROVE EntryInv'
  <2>1. /\ UNCHANGED <<run, active>> /\ canceling[j] # "none"
        /\ \A k \in Jobs \ {j} : canceling'[k] = canceling[k] /\ queue'[k] = queue[k]
    BY <1>16 DEF StopJob, TypeOK
  <2>2. EngineOfEntry'
    BY <2>1 DEF EntryInv, EngineOfEntry
  <2>3. run[j].pc \in Attached
    BY <2>1 DEF EntryInv, StopsAttached
  <2>4. StopsAttached'
    BY <2>1, <2>3 DEF EntryInv, StopsAttached
  <2>5. ASSUME NEW m \in Mains, NEW e \in Executions, NEW k \in Jobs,
               WillFinalize(k, m, e), canceling[k] = "none"
        PROVE  WillFinalize(k, m, e)' /\ canceling'[k] = "none"
    BY <2>1, <2>5 DEF WillFinalize
  <2> QED
    BY <2>1, <2>2, <2>4, <2>5, EntriesStay
<1> QED
  BY <1>5, <1>6, <1>7, <1>8, <1>9, <1>10, <1>11, <1>12, <1>13, <1>14, <1>15, <1>16
  DEF CallStep

(* The steps of the workers leave the entries alone, and the jobs that are *)
(* removed.                                                                *)
LEMMA EntriesApart ==
    ASSUME EntryInv, UNCHANGED mainVars,
           \A j \in Jobs : queue'[j] = "removed" => queue[j] = "removed"
    PROVE  EntryInv'
<1> USE DEF mainVars
<1>1. EngineOfEntry' /\ StopsAttached'
  BY DEF EntryInv, EngineOfEntry, StopsAttached
<1>2. ASSUME NEW m \in Mains, NEW e \in Executions, NEW j \in Jobs, WillFinalize(j, m, e)
      PROVE  WillFinalize(j, m, e)'
  BY <1>2 DEF WillFinalize
<1> QED
  BY <1>1, <1>2, EntriesStay

LEMMA WorkEntries ==
    ASSUME TypeOK, EntryInv, NEW j \in Jobs, WorkStep(j)
    PROVE  EntryInv'
<1>1. ASSUME NEW state \in {"completed", "failed"}, EndJob(j, state)
      PROVE  \A k \in Jobs : queue'[k] = "removed" => queue[k] = "removed"
  BY <1>1 DEF EndJob, TypeOK
<1> QED
  BY <1>1, EntriesApart
  DEF WorkStep, ReadRow, SetRunning, Throws, Start, EndRun, SaveRun, CancelSave, Complete, Abort

(* The steps of users, of the leader, and faults. *)
LEMMA OtherEntries ==
    ASSUME TypeOK, OwnerInv, EntryInv, [Next]_vars,
           \A j \in Jobs : ~CallStep(j) /\ ~WorkStep(j)
    PROVE  EntryInv'
<1>1. ASSUME UNCHANGED <<run, active, canceling, queue>> PROVE EntryInv'
  <2>1. EngineOfEntry' /\ StopsAttached'
    BY <1>1 DEF EntryInv, EngineOfEntry, StopsAttached
  <2>2. ASSUME NEW m \in Mains, NEW e \in Executions, NEW j \in Jobs, WillFinalize(j, m, e)
        PROVE  WillFinalize(j, m, e)'
    BY <1>1, <2>2 DEF WillFinalize
  <2> QED
    BY <1>1, <2>1, <2>2, EntriesStay
<1>2. ASSUME NEW j \in Jobs, Stalled(j) PROVE EntryInv'
  BY <1>2, EntriesApart DEF Stalled, TypeOK
<1>3. ASSUME NEW m \in Mains, NEW j \in Jobs, NEW e \in Executions,
             CreateExecution(m, j, e) \/ Ask(m, j, e)
      PROVE  EntryInv'
  <2>1. /\ run[j].pc = "idle" /\ run'[j].pc # "idle" /\ UNCHANGED <<active, canceling, queue>>
        /\ \A k \in Jobs \ {j} : run'[k] = run[k]
    BY <1>3 DEF CreateExecution, Ask, TypeOK
  <2>2. canceling[j] = "none" /\ queue[j] # "removed"
    BY <2>1 DEF EntryInv, StopsAttached, Attached
  <2>3. EngineOfEntry' /\ StopsAttached'
    BY <2>1, <2>2 DEF EntryInv, EngineOfEntry, StopsAttached
  <2>4. ASSUME NEW n \in Mains, NEW f \in Executions, NEW k \in Jobs, WillFinalize(k, n, f)
        PROVE  WillFinalize(k, n, f)'
    BY <2>1, <2>4 DEF WillFinalize, Finalizers
  <2> QED
    BY <2>1, <2>3, <2>4, EntriesStay
<1>4. ASSUME NEW w \in Workers, NEW j \in Jobs, PickUp(w, j) PROVE EntryInv'
  BY <1>4, EntriesApart DEF PickUp, TypeOK
<1>5. ASSUME NEW e \in Executions, StopAct(e) PROVE EntryInv'
  <2> DEFINE m == stops[e].main
  <2>1. /\ UNCHANGED <<run, queue>>
        /\ \A n \in Mains, f \in Executions :
              active'[n][f] = IF n = m /\ f = e THEN None ELSE active[n][f]
    BY <1>5 DEF StopAct, TypeOK
  <2>2. \A j \in Jobs :
            \/ canceling'[j] = canceling[j]
            \/ /\ active[m][e] # None /\ active[m][e].engine = j
               /\ run[j].pc \in {"awaiting", "failing", "writing", "finished"}
    BY <1>5 DEF StopAct, TypeOK
  <2>3. EngineOfEntry'
    BY <2>1 DEF EntryInv, EngineOfEntry
  <2>4. StopsAttached'
    BY <2>1, <2>2 DEF EntryInv, StopsAttached, Attached
  <2>5. ASSUME NEW n \in Mains, NEW f \in Executions, active'[n][f] # None,
               NEW j \in Jobs, WillFinalize(j, n, f), canceling[j] = "none"
        PROVE  WillFinalize(j, n, f)' /\ canceling'[j] = "none"
    <3>1. WillFinalize(j, n, f)'
      BY <2>1, <2>5 DEF WillFinalize
    <3>2. ~(n = m /\ f = e) /\ run[j].main = n /\ exec(j) = f
      BY <2>1, <2>5 DEF WillFinalize
    <3>3. m \in Mains
      BY <1>5 DEF StopAct, TypeOK, Stop, NoStop
    <3>4. ~(active[m][e] # None /\ active[m][e].engine = j)
      BY <3>2, <3>3 DEF EntryInv, EngineOfEntry
    <3> QED
      BY <2>2, <2>5, <3>1, <3>4
  <2> QED
    BY <2>1, <2>3, <2>4, <2>5, EntriesStay
<1>6. ASSUME NEW m \in Mains, MainCrash(m) PROVE EntryInv'
  <2>1. /\ \A n \in Mains, e \in Executions :
              active'[n][e] = IF n = m THEN None ELSE active[n][e]
        /\ UNCHANGED queue
    BY <1>6 DEF MainCrash, TypeOK
  <2>2. \A j \in Jobs :
            /\ run'[j].exec = exec(j) /\ run'[j].main = run[j].main
            /\ run[j].pc # "idle" => run'[j].pc # "idle"
            /\ canceling'[j] = IF run[j].main = m THEN "none" ELSE canceling[j]
            /\ run[j].main # m => run'[j] = run[j]
            /\ run'[j].pc \in {run[j].pc, "lost"}
    BY <1>6 DEF MainCrash, TypeOK, Call
  <2>3. EngineOfEntry'
    BY <2>1, <2>2 DEF EntryInv, EngineOfEntry
  <2>4. StopsAttached'
    BY <2>1, <2>2 DEF EntryInv, StopsAttached
  <2>5. ASSUME NEW n \in Mains, NEW e \in Executions, active'[n][e] # None,
               NEW j \in Jobs, WillFinalize(j, n, e), canceling[j] = "none"
        PROVE  WillFinalize(j, n, e)' /\ canceling'[j] = "none"
    BY <2>1, <2>2, <2>5 DEF WillFinalize
  <2> QED
    BY <2>1, <2>3, <2>4, <2>5, EntriesStay
<1>7. ASSUME NEW m \in Mains, NEW e \in Executions, StopRead(m, e) PROVE EntryInv'
  BY <1>1, <1>7 DEF StopRead
<1>8. ASSUME NEW e \in Executions, StopWrite(e) PROVE EntryInv'
  BY <1>1, <1>8 DEF StopWrite
<1>9. CASE Recover
  BY <1>1, <1>9 DEF Recover, RecoverRead, RecoverLook, RecoverMark
<1>10. ASSUME NEW w \in Workers, WorkerCrash(w) PROVE EntryInv'
  BY <1>1, <1>10 DEF WorkerCrash, mainVars
<1>11. CASE UNCHANGED vars
  BY <1>1, <1>11 DEF vars, mainVars
<1> QED
  BY <1>2, <1>3, <1>4, <1>5, <1>6, <1>7, <1>8, <1>9, <1>10, <1>11 DEF Next
-----------------------------------------------------------------------------
(* The theorems *)

LEMMA InitEstablishes == Init => IInv
<1> SUFFICES ASSUME Init PROVE IInv
  OBVIOUS
<1>1. /\ \A j \in Jobs : /\ run[j].pc = "idle" /\ queue[j] = "none"
                         /\ canceling[j] = "none"
                         /\ work[j].pc = "none" /\ work[j].worker = None
      /\ \A m \in Mains, e \in Executions : active[m][e] = None
  BY DEF Init
<1>2. TypeOK
  BY QueueModeAssumption DEF Init, TypeOK, Status, Call, CallPC, Entry, Stop, NoStop, Recovery,
     NoRecovery, JobState, Work, WorkPC, Outcomes
<1>3. OwnerInv
  BY <1>1 DEF OwnerInv, CallsOK, JobsMadeOnce, OneMayWork, RowTaken, MayWork, Unpicked, Working
<1>4. EntryInv
  BY <1>1 DEF EntryInv, EngineOfEntry, StopsAttached, EntryIsFinalized
<1> QED
  BY <1>2, <1>3, <1>4 DEF IInv

LEMMA StepKeeps == IInv /\ [Next]_vars => IInv'
<1> SUFFICES ASSUME IInv, [Next]_vars PROVE IInv'
  OBVIOUS
<1>1. TypeOK /\ OwnerInv /\ EntryInv /\ CallsOK /\ JobsMadeOnce
  BY DEF IInv, OwnerInv
<1>2. ASSUME NEW j \in Jobs, CallStep(j) PROVE IInv'
  BY <1>1, <1>2, CallTypes, CallOwners, CallEntries DEF IInv
<1>3. ASSUME NEW j \in Jobs, WorkStep(j) PROVE IInv'
  BY <1>1, <1>3, WorkTypes, WorkOwners, WorkEntries DEF IInv
<1>4. ASSUME \A j \in Jobs : ~CallStep(j) /\ ~WorkStep(j) PROVE IInv'
  BY <1>1, <1>4, OtherTypes, OtherOwners, OtherEntries DEF IInv
<1> QED
  BY <1>2, <1>3, <1>4

LEMMA Invariant == Spec => []IInv
<1> QED
  BY InitEstablishes, StepKeeps, PTL DEF Spec

(* State stays well-typed: every write of the row, the queue and the       *)
(* entries is of a value the others know.                                  *)
THEOREM QueueModeTypes == Spec => []TypeOK
<1>1. IInv => TypeOK
  BY DEF IInv
<1> QED
  BY <1>1, Invariant, PTL

(* The engine of an execution runs in one worker at a time, however many   *)
(* mains resume it, and whatever stalls, crashes, stops and recovery       *)
(* cycles come between.                                                    *)
THEOREM OneWorker == Spec => []OneWorkerPerExecution
<1>1. IInv => OneWorkerPerExecution
  BY DEF IInv, OwnerInv, OneMayWork, MayWork, Working, OneWorkerPerExecution, AtWork
<1> QED
  BY <1>1, Invariant, PTL

(* An entry of ActiveExecutions has a call of its execution that is still  *)
(* to finalize it, or one that threw or left processError early.           *)
THEOREM EntriesAreFinalized == Spec => []EntryHasCall
<1>1. IInv => EntryHasCall
  BY DEF IInv, EntryInv, EntryIsFinalized, WillFinalize, Finalizers, EntryHasCall
<1> QED
  BY <1>1, Invariant, PTL

(* A stale read: a stop, a recovery cycle, an error handler or an onCancel *)
(* hook that is about to write the row without having looked at it since.  *)
WritesBlindly(e) ==
    \/ stops[e].phase = "write"
    \/ recovery.phase = "mark" /\ e \in recovery.ids
    \/ \E j \in Jobs :
          exec(j) = e /\ (run[j].pc \in {"writing", "writingLast"}
                          \/ j \in cancelSaves)

(* A row that says success is not that of a call that may still write it.  *)
LEMMA SuccessIsSettled ==
    ASSUME OwnerInv, NEW j \in Jobs, db[exec(j)] = "success"
    PROVE  ~MayWork(j)
  BY DEF OwnerInv, RowTaken, Untaken

LEMMA SuccessStays ==
    ASSUME IInv, [Next]_vars, NEW e \in Executions, db[e] = "success", ~WritesBlindly(e)
    PROVE  db'[e] = "success"
<1> USE DEF WritesBlindly
<1>0. TypeOK /\ OwnerInv
  BY DEF IInv
<1>1. ASSUME NEW j \in Jobs, CallStep(j) PROVE db'[e] = "success"
  <2>1. CASE FailCredentials(j)
    <3>1. MayWork(j)
      BY <2>1 DEF FailCredentials, MayWork, Unpicked
    <3> QED
      BY <1>0, <2>1, <3>1, SuccessIsSettled DEF FailCredentials, TypeOK
  <2>2. CASE Claim(j) \/ WriteError(j)
    BY <1>0, <2>2 DEF Claim, WriteError, TypeOK
  <2>3. CASE ~(FailCredentials(j) \/ Claim(j) \/ WriteError(j))
    BY <1>1, <2>3 DEF CallStep, Register, Prepare, Enqueue, EnqueueFails, Attach, JobFinished,
       ReadForError, Finalize, StopJob
  <2> QED
    BY <2>1, <2>2, <2>3
<1>2. ASSUME NEW j \in Jobs, WorkStep(j) PROVE db'[e] = "success"
  <2>1. CASE SetRunning(j) \/ SaveRun(j)
    <3>1. MayWork(j)
      BY <2>1 DEF SetRunning, SaveRun, MayWork, Working
    <3> QED
      BY <1>0, <2>1, <3>1, SuccessIsSettled DEF SetRunning, SaveRun, TypeOK
  <2>2. CASE CancelSave(j)
    BY <1>0, <2>2 DEF CancelSave, TypeOK
  <2>3. CASE ~(SetRunning(j) \/ SaveRun(j) \/ CancelSave(j))
    BY <1>2, <2>3 DEF WorkStep, ReadRow, Throws, Start, EndRun, Complete, Abort
  <2> QED
    BY <2>1, <2>2, <2>3
<1>3. ASSUME NEW m \in Mains, NEW j \in Jobs, NEW f \in Executions, CreateExecution(m, j, f)
      PROVE  db'[e] = "success"
  BY <1>0, <1>3 DEF CreateExecution, TypeOK
<1>4. ASSUME NEW f \in Executions, StopWrite(f) PROVE db'[e] = "success"
  BY <1>0, <1>4 DEF StopWrite, TypeOK
<1>5. CASE RecoverMark
  BY <1>0, <1>5 DEF RecoverMark, TypeOK
<1>6. CASE UNCHANGED db
  BY <1>6
<1> QED
  BY <1>1, <1>2, <1>3, <1>4, <1>5, <1>6
  DEF Next, Stalled, Ask, PickUp, StopRead, StopAct, Recover, RecoverLook, RecoverRead,
      WorkerCrash, MainCrash, vars

(* A run that was saved as a success stays one, but for the writers that   *)
(* do not look again: a stop, a recovery cycle, the error handler of a     *)
(* failed call, the onCancel hook of a canceled engine.  No claim, no      *)
(* start of a worker, no other engine's save and no failed check of        *)
(* credentials touches it, for the call that owns the row has saved it.    *)
THEOREM SuccessIsLostToStaleReadsOnly == Spec => SuccessLostToStaleReadsOnly
<1>1. IInv /\ [Next]_vars =>
        [\A e \in Executions :
            db[e] = "success" /\ db'[e] # "success" =>
                \/ stops[e].phase = "write"
                \/ recovery.phase = "mark" /\ e \in recovery.ids
                \/ \E j \in Jobs :
                      exec(j) = e /\ (run[j].pc \in {"writing", "writingLast"}
                                      \/ j \in cancelSaves)]_vars
  BY SuccessStays DEF WritesBlindly
<1> QED
  BY <1>1, Invariant, PTL DEF Spec, SuccessLostToStaleReadsOnly
=============================================================================
