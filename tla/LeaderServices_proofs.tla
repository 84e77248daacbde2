----------------------- MODULE LeaderServices_proofs -------------------------
(***************************************************************************)
(* What a main runs follows its role, for any number of executions,        *)
(* workflows, changes of the role and commands.  What a follower does not  *)
(* run and a leader maintains have one inductive invariant: next to the    *)
(* types, a follower tracks nothing and has no result on its way unless it *)
(* is late, and what it still runs or is about to run is being removed, or *)
(* has raced, or failed.  What a leader runs takes another on top of it:   *)
(* operations on a workflow come one at a time, or the workflow has raced. *)
(***************************************************************************)
EXTENDS LeaderServices, TLAPS

(* The tracker of a follower.                                              *)
QuietTracker ==
    role = "follower" =>
        /\ ~tracking
        /\ ~late => found = {} /\ \A e \in Executions : entry[e] # "armed"

(* The triggers of a follower, those it has and those it is about to add.  *)
QuietTriggers ==
    /\ loop.now # None => loop.now \in loop.left
    /\ role = "follower" =>
        /\ \A w \in active : BeingRemoved(w) \/ w \in raced \cup failed
        /\ loop.may /\ loop.now # None => loop.now \in raced
        /\ \A t \in tasks : t.op = "add" /\ t.step = "adds" => t.w \in raced

IInv == TypeOK /\ QuietTracker /\ QuietTriggers /\ LeaderMaintains

Recovery == [latest : BOOLEAN, others : Nat, runs : Nat]
-----------------------------------------------------------------------------
LEMMA ScheduledType ==
    ASSUME NEW r \in Recovery
    PROVE  Scheduled(r) \in Recovery /\ Scheduled(r).latest
<1>1. r.others \in Nat /\ r.runs \in Nat
    BY DEF Recovery
<1>2. r.others + 1 \in Nat
    BY <1>1
<1> QED BY <1>1, <1>2 DEF Scheduled, Recovery

LEMMA TrackerStep ==
    ASSUME IInv, Tracker
    PROVE  IInv' /\ UNCHANGED <<role, manager, timers, attempt, changes>>
<1>0. UNCHANGED <<role, manager, timers, attempt, changes>>
    BY DEF Tracker, Poll, SetTimers, startExecution, RunResumed, stopExecution, RowChanges
<1>1. QuietTriggers' /\ LeaderMaintains'
    BY <1>0 DEF IInv, QuietTriggers, BeingRemoved, LeaderMaintains, manager, timers
<1> USE DEF IInv, TypeOK, QuietTracker, manager, timers, Entry
<1>2. CASE Poll
    BY <1>0, <1>1, <1>2 DEF Poll, getWaitingExecutions
<1>3. CASE SetTimers
    BY <1>0, <1>1, <1>3 DEF SetTimers
<1>4. ASSUME NEW e \in Executions, startExecution(e) PROVE IInv'
    BY <1>0, <1>1, <1>4 DEF startExecution
<1>5. ASSUME NEW e \in Executions, RunResumed(e) PROVE IInv'
    BY <1>0, <1>1, <1>5 DEF RunResumed
<1>6. ASSUME NEW e \in Executions, stopExecution(e) PROVE IInv'
    BY <1>0, <1>1, <1>6 DEF stopExecution
<1>7. ASSUME NEW e \in Executions, RowChanges(e) PROVE IInv'
    BY <1>0, <1>1, <1>7, LeaderServicesAssumption DEF RowChanges
<1> QED BY <1>0, <1>2, <1>3, <1>4, <1>5, <1>6, <1>7 DEF Tracker

LEMMA RoleStep ==
    ASSUME IInv, (\E vacant \in BOOLEAN : StepDown(vacant)) \/ TakeOver \/ AttemptFails
    PROVE  IInv'
<1>1. ASSUME NEW vacant \in BOOLEAN, StepDown(vacant) PROVE IInv'
    <2> USE <1>1 DEF StepDown, StoppedTracking, RemovesAll
    <2>1. TypeOK'
        <3>1. changes' \in 0..MaxChanges
            BY LeaderServicesAssumption DEF IInv, TypeOK
        <3>2. /\ late' \in BOOLEAN /\ raced' \cup failed' \subseteq Workflows
              /\ removing' \in [1..MaxChanges -> SUBSET Workflows]
            BY DEF IInv, TypeOK, BusyOnes
        <3>3. recovery' \in [latest : BOOLEAN, others : Nat, runs : Nat]
            BY DEF IInv, TypeOK
        <3>4. entry' \in [Executions -> Entry]
            BY DEF IInv, TypeOK, Entry
        <3> QED BY <3>1, <3>2, <3>3, <3>4 DEF IInv, TypeOK
    <2>2. QuietTracker'
        <3>1. ~late' => found' = {}
            OBVIOUS
        <3>2. \A e \in Executions : entry'[e] # "armed"
            BY DEF IInv, TypeOK
        <3> QED BY <3>1, <3>2 DEF QuietTracker
    <2>3. QuietTriggers'
        <3>1. \A w \in active' : BeingRemoved(w)'
            <4>1. changes + 1 \in 1..MaxChanges
                BY LeaderServicesAssumption DEF IInv, TypeOK
            <4>2. removing'[changes + 1] = active
                BY <4>1 DEF IInv, TypeOK
            <4> QED BY <4>1, <4>2 DEF BeingRemoved
        <3>2. \A w \in Workflows : w \in loop.left \/ (\E t \in tasks : t.w = w) => w \in raced'
            BY DEF BusyOnes, Busy, BusyWith
        <3>3. \A t \in tasks : t.w \in Workflows
            BY DEF IInv, TypeOK, Task
        <3>4. loop.left \subseteq Workflows /\ (loop.now # None => loop.now \in loop.left)
            BY DEF IInv, TypeOK, QuietTriggers
        <3> QED BY <3>1, <3>2, <3>3, <3>4 DEF QuietTriggers
    <2>4. LeaderMaintains'
        BY DEF LeaderMaintains
    <2> QED BY <2>1, <2>2, <2>3, <2>4 DEF IInv
<1>2. CASE TakeOver
    <2> USE <1>2 DEF TakeOver, addActiveWorkflows, getWaitingExecutions
    <2>1. TypeOK'
        <3>1. recovery' \in [latest : BOOLEAN, others : Nat, runs : Nat]
            BY ScheduledType DEF IInv, TypeOK, Recovery
        <3>2. loop' \in [on : BOOLEAN, left : SUBSET Workflows, now : Workflows \cup {None},
                        may : BOOLEAN]
            BY DEF IInv, TypeOK, Idle
        <3>3. raced' \subseteq Workflows /\ found' \subseteq SUBSET Executions
            BY DEF IInv, TypeOK, BusyOnes
        <3>4. softDeletion' \in Nat /\ softDeletion' > 0
            BY DEF IInv, TypeOK
        <3> QED BY <3>1, <3>2, <3>3, <3>4 DEF IInv, TypeOK
    <2>2. QuietTracker' /\ LeaderMaintains'
        BY ScheduledType DEF IInv, TypeOK, Recovery, QuietTracker, LeaderMaintains
    <2>3. QuietTriggers'
        BY DEF IInv, TypeOK, QuietTriggers, Idle
    <2> QED BY <2>1, <2>2, <2>3 DEF IInv
<1>3. CASE AttemptFails
    BY <1>3 DEF AttemptFails, IInv, TypeOK, QuietTracker, QuietTriggers, LeaderMaintains,
       BeingRemoved, tracker, manager, timers
<1> QED BY <1>1, <1>2, <1>3

(* What the manager does not write.                                        *)
LEMMA ManagerFrame ==
    ASSUME IInv, Manager, TypeOK', QuietTriggers'
    PROVE  IInv'
<1>1. UNCHANGED <<role, attempt, changes, tracker, timers>>
    BY DEF Manager, Activated, ActivationFails, LoopEnds, Receive, HandleTask, RemoveNext,
       activateWorkflow, RetryActivation, emitError, UserActivates, UserDeactivates
<1> QED BY <1>1 DEF IInv, QuietTracker, LeaderMaintains, tracker, timers

(* The steps of the activation on takeover.                                *)
LEMMA LoopStep ==
    ASSUME IInv,
           \/ Activated \/ ActivationFails \/ LoopEnds
           \/ \E w \in Workflows : activateWorkflow(w)
    PROVE  TypeOK' /\ QuietTriggers'
<1> USE DEF IInv, TypeOK, QuietTriggers, BeingRemoved, tracker, timers, LoopGoesOn, Idle, Leaves
<1>1. CASE Activated
    BY <1>1 DEF Activated
<1>2. CASE ActivationFails
    BY <1>2 DEF ActivationFails
<1>3. CASE LoopEnds
    BY <1>3 DEF LoopEnds
<1>4. ASSUME NEW w \in Workflows, activateWorkflow(w) PROVE TypeOK' /\ QuietTriggers'
    BY <1>4 DEF activateWorkflow
<1> QED BY <1>1, <1>2, <1>3, <1>4

(* A task that is added, or whose step changes, is well-typed.             *)
LEMMA TaskType ==
    /\ \A op \in {"add", "remove", "activate", "write"}, w \in Workflows :
           [op |-> op, w |-> w, step |-> "asked"] \in Task
    /\ \A w \in Workflows : [op |-> "close", w |-> w, step |-> "closing"] \in Task
    /\ \A t \in Task : t.w \in Workflows
    /\ \A t \in Task, s \in {"adds", "passes", "closing", "written"} :
           /\ [t EXCEPT !.step = s] \in Task
           /\ [t EXCEPT !.step = s].op = t.op
           /\ [t EXCEPT !.step = s].w = t.w
           /\ [t EXCEPT !.step = s].step = s
BY DEF Task

LEMMA PublishType ==
    ASSUME TypeOK, NEW w \in Workflows, NEW op \in {"add", "remove"}, publishCommand(op, w)
    PROVE  channel' \in Seq(Command)
BY DEF publishCommand, TypeOK, Command

LEMMA NotesType ==
    ASSUME TypeOK, NEW w \in Workflows, NEW S, Notes(w, S)
    PROVE  raced' \subseteq Workflows /\ raced \subseteq raced'
BY DEF Notes, TypeOK

(* The commands: what is published, received and retried.                  *)
LEMMA CommandStep ==
    ASSUME IInv,
           \/ Receive
           \/ \E w \in Workflows : \/ RetryActivation(w) \/ emitError(w)
                                  \/ UserActivates(w) \/ UserDeactivates(w)
    PROVE  TypeOK' /\ QuietTriggers'
<1>1. TypeOK
    BY DEF IInv
<1>2. commands < MaxCommands /\ commands' = commands + 1 => commands' \in 0..MaxCommands
    BY LeaderServicesAssumption DEF IInv, TypeOK
<1> USE DEF IInv, QuietTriggers, BeingRemoved, tracker, timers
<1>3. CASE Receive
    <2>1. Head(channel) \in Command /\ Tail(channel) \in Seq(Command)
        BY <1>3 DEF Receive, TypeOK
    <2>2. Head(channel).op \in {"add", "remove"} /\ Head(channel).w \in Workflows
        BY <2>1 DEF Command
    <2>3. tasks' \subseteq Task
        BY <1>3, <2>2, TaskType DEF Receive, TypeOK
    <2>4. TypeOK'
        BY <1>3, <2>1, <2>3 DEF Receive, TypeOK
    <2> QED BY <1>3, <2>4 DEF Receive
<1>4. ASSUME NEW w \in Workflows, RetryActivation(w) PROVE TypeOK' /\ QuietTriggers'
    <2>1. channel' \in Seq(Command) /\ raced' \subseteq Workflows /\ raced \subseteq raced'
        BY <1>1, <1>4, PublishType, NotesType DEF RetryActivation
    <2> QED BY <1>4, <2>1 DEF RetryActivation, TypeOK
<1>5. ASSUME NEW w \in Workflows, emitError(w) PROVE TypeOK' /\ QuietTriggers'
    <2>1. raced' \subseteq Workflows /\ raced \subseteq raced'
        BY <1>1, <1>5, NotesType DEF emitError
    <2>2. tasks' \subseteq Task
        BY <1>5, TaskType DEF emitError, TypeOK
    <2>3. TypeOK'
        BY <1>2, <1>5, <2>1, <2>2 DEF emitError, TypeOK
    <2> QED BY <1>5, <2>1, <2>3 DEF emitError
<1>6. ASSUME NEW w \in Workflows, UserActivates(w) PROVE TypeOK' /\ QuietTriggers'
    <2>1. channel' \in Seq(Command) /\ raced' \subseteq Workflows /\ raced \subseteq raced'
        BY <1>1, <1>6, PublishType, NotesType DEF UserActivates, TypeOK
    <2>2. tasks' \subseteq Task
        BY <1>6, TaskType DEF UserActivates, TypeOK
    <2>3. TypeOK'
        BY <1>2, <1>6, <2>1, <2>2 DEF UserActivates, TypeOK
    <2> QED BY <1>6, <2>1, <2>3 DEF UserActivates
<1>7. ASSUME NEW w \in Workflows, UserDeactivates(w) PROVE TypeOK' /\ QuietTriggers'
    <2>1. channel' \in Seq(Command) /\ raced' \subseteq Workflows /\ raced \subseteq raced'
        BY <1>1, <1>7, PublishType, NotesType DEF UserDeactivates
    <2>2. tasks' \subseteq Task
        BY <1>7, TaskType DEF UserDeactivates, TypeOK
    <2>3. TypeOK'
        BY <1>2, <1>7, <2>1, <2>2 DEF UserDeactivates, TypeOK
    <2> QED BY <1>7, <2>1, <2>3 DEF UserDeactivates
<1> QED BY <1>3, <1>4, <1>5, <1>6, <1>7

(* The removal on step down: what it gives up has failed.                  *)
LEMMA RemovalStep ==
    ASSUME IInv, RemoveNext
    PROVE  TypeOK' /\ QuietTriggers'
<1>0. PICK k \in 1..MaxChanges : \E w \in removing[k] :
          /\ \/ /\ removing' = [removing EXCEPT ![k] = @ \ {w}]
                /\ active' = active \ {w} /\ UNCHANGED failed
             \/ /\ w \in active /\ UNCHANGED active
                /\ removing' = [removing EXCEPT ![k] = {}]
                /\ failed' = failed \cup (removing[k] \cap active)
          /\ UNCHANGED <<role, attempt, changes, tracker, dbActive, loop, queued, refused, channel,
                         tasks, commands, raced, timers>>
    BY DEF RemoveNext
<1>1. PICK w \in removing[k] :
          /\ \/ /\ removing' = [removing EXCEPT ![k] = @ \ {w}]
                /\ active' = active \ {w} /\ UNCHANGED failed
             \/ /\ w \in active /\ UNCHANGED active
                /\ removing' = [removing EXCEPT ![k] = {}]
                /\ failed' = failed \cup (removing[k] \cap active)
          /\ UNCHANGED <<role, attempt, changes, tracker, dbActive, loop, queued, refused, channel,
                         tasks, commands, raced, timers>>
    BY <1>0
<1>2. TypeOK'
    BY <1>1 DEF IInv, TypeOK, tracker, timers
<1>3. ASSUME NEW v \in active', BeingRemoved(v) \/ v \in raced \cup failed
      PROVE  BeingRemoved(v)' \/ v \in raced' \cup failed'
    <2>1. failed \subseteq failed' /\ raced' = raced /\ active' \subseteq active
        BY <1>1
    <2>2. ASSUME NEW j \in 1..MaxChanges, v \in removing[j]
          PROVE  v \in removing'[j] \/ v \in failed'
        <3>1. removing \in [1..MaxChanges -> SUBSET Workflows]
            BY DEF IInv, TypeOK
        <3>2. CASE removing' = [removing EXCEPT ![k] = @ \ {w}] /\ active' = active \ {w}
            <4>1. v # w
                BY <1>3, <3>2
            <4>2. removing'[j] = IF j = k THEN removing[k] \ {w} ELSE removing[j]
                BY <3>1, <3>2
            <4> QED BY <2>2, <4>1, <4>2
        <3>3. CASE /\ removing' = [removing EXCEPT ![k] = {}] /\ active' = active
                   /\ failed' = failed \cup (removing[k] \cap active)
            <4>1. removing'[j] = IF j = k THEN {} ELSE removing[j]
                BY <3>1, <3>3
            <4> QED BY <1>3, <2>2, <3>3, <4>1
        <3> QED BY <1>1, <3>2, <3>3
    <2> QED BY <1>3, <2>1, <2>2 DEF BeingRemoved
<1> QED BY <1>1, <1>2, <1>3 DEF IInv, QuietTriggers

(* The handlers of commands.                                               *)
LEMMA TaskStep ==
    ASSUME IInv, HandleTask
    PROVE  TypeOK' /\ QuietTriggers'
<1>1. PICK t \in tasks :
        /\ HandleAdd(t) \/ HandleRemove(t) \/ Activate(t) \/ WriteInactive(t)
        /\ UNCHANGED <<role, attempt, changes, tracker, loop, removing, commands, timers>>
    BY DEF HandleTask
<1>2. /\ t \in Task /\ t.w \in Workflows /\ TypeOK
      /\ \A u \in tasks : u.w \in Workflows
    BY TaskType DEF IInv, TypeOK
<1>3. \A s \in {"adds", "passes", "closing", "written"} :
        /\ [t EXCEPT !.step = s] \in Task
        /\ [t EXCEPT !.step = s].op = t.op
        /\ [t EXCEPT !.step = s].step = s
    BY <1>2, TaskType
<1> USE DEF IInv, QuietTriggers, BeingRemoved, tracker, timers
<1>4. CASE HandleAdd(t)
    <2>1. TypeOK'
        BY <1>1, <1>2, <1>3, <1>4 DEF HandleAdd, Step, Done, Fails, Leaves, TypeOK
    <2>2. failed \subseteq failed' /\ raced' = raced
        BY <1>4 DEF HandleAdd, Fails
    <2>3. CASE role = "follower"
        <3>1. \A u \in tasks' : u.op = "add" /\ u.step = "adds" => u \in tasks
            BY <1>3, <1>4, <2>3 DEF HandleAdd, Step, Done, Fails
        <3>2. active' \subseteq active \cup raced
            BY <1>4, <2>3 DEF HandleAdd, Step, Done, Fails, Leaves
        <3> QED BY <1>1, <2>1, <2>2, <2>3, <3>1, <3>2
    <2> QED BY <1>1, <2>1, <2>2, <2>3
<1>5. CASE HandleRemove(t)
    <2>1. TypeOK'
        BY <1>1, <1>2, <1>3, <1>5 DEF HandleRemove, Step, Done, TypeOK
    <2>2. active' \subseteq active /\ failed \subseteq failed' /\ raced' = raced
        BY <1>5 DEF HandleRemove
    <2>3. \A u \in tasks' : u.op = "add" => u \in tasks
        BY <1>3, <1>5 DEF HandleRemove, Step, Done
    <2> QED BY <1>1, <2>1, <2>2, <2>3
<1>6. CASE Activate(t)
    <2>1. channel' \in Seq(Command) /\ raced' \subseteq Workflows /\ raced \subseteq raced'
        BY <1>2, <1>6, PublishType, NotesType DEF Activate, TypeOK
    <2>2. tasks' \subseteq Task /\ dbActive' \subseteq Workflows
        BY <1>2, <1>3, <1>6 DEF Activate, Step, Done, TypeOK
    <2>3. TypeOK'
        BY <1>1, <1>6, <2>1, <2>2 DEF Activate, TypeOK
    <2>4. \A u \in tasks' : u.op = "add" => u \in tasks
        BY <1>3, <1>6 DEF Activate, Step, Done
    <2> QED BY <1>1, <1>6, <2>1, <2>3, <2>4 DEF Activate
<1>7. CASE WriteInactive(t)
    BY <1>1, <1>7 DEF WriteInactive, Done, TypeOK
<1> QED BY <1>1, <1>4, <1>5, <1>6, <1>7

(* A cycle of queue recovery leaves a timer or a run.                      *)
LEMMA RecoveryStep ==
    ASSUME IInv, RecoveryRuns \/ RecoveryEnds
    PROVE  IInv'
<1>0. recovery \in Recovery
    BY DEF IInv, TypeOK, Recovery
<1>1. recovery' \in Recovery /\ (recovery'.latest \/ recovery'.runs > 0)
    <2>1. CASE RecoveryRuns
        <3>1. recovery.others \in Nat /\ recovery.latest \in BOOLEAN
            BY <1>0 DEF Recovery
        <3>2. recovery.others > 0 => recovery.others - 1 \in Nat
            BY <3>1
        <3>3. CASE recovery' = [recovery EXCEPT !.latest = FALSE, !.runs = 1]
            <4>1. recovery' \in Recovery
                BY <1>0, <3>3 DEF Recovery
            <4>2. recovery'.runs = 1
                BY <1>0, <3>3 DEF Recovery
            <4> QED BY <4>1, <4>2
        <3>4. CASE recovery.others > 0 /\ recovery' = [recovery EXCEPT !.others = @ - 1, !.runs = 1]
            <4>1. recovery' \in Recovery
                BY <1>0, <3>2, <3>4 DEF Recovery
            <4>2. recovery'.runs = 1
                BY <1>0, <3>4 DEF Recovery
            <4> QED BY <4>1, <4>2
        <3> QED BY <2>1, <3>3, <3>4 DEF RecoveryRuns
    <2>2. CASE RecoveryEnds
        <3>1. [recovery EXCEPT !.runs = 0] \in Recovery
            BY <1>0 DEF Recovery
        <3> QED BY <2>2, <3>1, ScheduledType DEF RecoveryEnds
    <2> QED BY <2>1, <2>2
<1>2. UNCHANGED <<role, attempt, changes, tracker, manager, softDeletion>>
    BY DEF RecoveryRuns, RecoveryEnds
<1>3. TypeOK'
    BY <1>1, <1>2 DEF IInv, TypeOK, Recovery, tracker, manager
<1>4. QuietTracker' /\ QuietTriggers' /\ LeaderMaintains'
    BY <1>1, <1>2 DEF IInv, QuietTracker, QuietTriggers, BeingRemoved, LeaderMaintains,
       tracker, manager
<1> QED BY <1>3, <1>4 DEF IInv
-----------------------------------------------------------------------------
LEMMA InitInvariant == Init => IInv
<1> SUFFICES ASSUME Init PROVE IInv
    OBVIOUS
<1>1. TypeOK
    <2>1. commands \in 0..MaxCommands /\ changes \in 0..MaxChanges /\ waits \in 0..MaxWaits
        BY LeaderServicesAssumption DEF Init
    <2>2. tracking \in BOOLEAN /\ late \in BOOLEAN /\ found \subseteq SUBSET Executions
        BY DEF Init
    <2>3. loop \in [on : BOOLEAN, left : SUBSET Workflows, now : Workflows \cup {None},
                    may : BOOLEAN]
        BY DEF Init, Idle
    <2>4. recovery \in [latest : BOOLEAN, others : Nat, runs : Nat]
        BY DEF Init
    <2>5. entry \in [Executions -> Entry]
        BY DEF Init, Entry
    <2>6. channel \in Seq(Command) /\ softDeletion \in Nat
        BY DEF Init
    <2>7. /\ role \in {"leader", "follower"} /\ attempt \in BOOLEAN
          /\ row \in [Executions -> {"running", "waiting", "ended"}]
          /\ resuming \subseteq Executions /\ dbActive \subseteq Workflows
          /\ active \subseteq Workflows /\ queued \cup refused \subseteq Workflows
          /\ removing \in [1..MaxChanges -> SUBSET Workflows]
          /\ tasks \subseteq Task /\ raced \cup failed \subseteq Workflows
        BY DEF Init
    <2> QED BY <2>1, <2>2, <2>3, <2>4, <2>5, <2>6, <2>7 DEF TypeOK
<1>2. QuietTracker
    BY DEF Init, QuietTracker
<1>3. LeaderMaintains
    <2>1. ASSUME role = "leader" PROVE softDeletion = 1 /\ recovery.latest
        BY <2>1 DEF Init
    <2>2. 1 > 0
        OBVIOUS
    <2> QED BY <2>1, <2>2 DEF LeaderMaintains
<1>4. QuietTriggers
    <2>1. loop.now = None /\ active = {} /\ tasks = {}
        BY DEF Init, Idle
    <2> QED BY <2>1 DEF QuietTriggers
<1> QED BY <1>1, <1>2, <1>3, <1>4 DEF IInv

LEMMA StepInvariant == IInv /\ [Next]_vars => IInv'
<1> SUFFICES ASSUME IInv, [Next]_vars PROVE IInv'
    OBVIOUS
<1>1. CASE UNCHANGED vars
    BY <1>1 DEF vars, tracker, manager, timers, IInv, TypeOK, QuietTracker, QuietTriggers,
       BeingRemoved, LeaderMaintains
<1>2. CASE Manager
    BY <1>2, ManagerFrame, LoopStep, CommandStep, TaskStep, RemovalStep DEF Manager
<1> QED BY <1>1, <1>2, RoleStep, TrackerStep, RecoveryStep DEF Next

LEMMA Invariant == Spec => []IInv
<1> QED BY InitInvariant, StepInvariant, PTL DEF Spec

(* State stays well-typed, whatever the users, the other mains and the     *)
(* changes of the role do to each other.                                   *)
THEOREM LeaderServicesTypes == Spec => []TypeOK
<1>1. IInv => TypeOK
    BY DEF IInv
<1> QED BY <1>1, Invariant, PTL

(* A follower arms no timer for a waiting execution, but for those of a    *)
(* query that was on its way when the main stepped down.                   *)
THEOREM FollowerResumesNothingTheorem == Spec => []FollowerResumesNothing
<1>1. IInv => FollowerResumesNothing
    BY DEF IInv, QuietTracker, FollowerResumesNothing
<1> QED BY <1>1, Invariant, PTL

(* The triggers a follower still has are being removed, or are of a        *)
(* workflow that was being added or removed as the role changed, or whose  *)
(* removal threw or came after one that did.                               *)
THEOREM FollowerRunsNoTriggersTheorem == Spec => []FollowerRunsNoTriggers
<1>1. IInv => FollowerRunsNoTriggers
    BY DEF IInv, TypeOK, QuietTriggers, FollowerRunsNoTriggers, Busy, BusyWith
<1> QED BY <1>1, Invariant, PTL

(* A leader prunes and looks for dangling executions, however its role     *)
(* changed while a cycle was under way.                                    *)
THEOREM LeaderMaintainsTheorem == Spec => []LeaderMaintains
<1>1. IInv => LeaderMaintains
    BY DEF IInv
<1> QED BY <1>1, Invariant, PTL
-----------------------------------------------------------------------------
(* LeaderRunsActiveWorkflows.  Of a workflow whose operations have neither *)
(* overlapped nor thrown, one thing at a time is under way: the activation *)
(* on takeover, one command, the parts of a deactivation or of an          *)
(* activation, the command and the row, or the end of a trigger that had   *)
(* an error.  Each says what it will find.                                 *)
Sent(op, w) == \E i \in DOMAIN channel : channel[i].op = op /\ channel[i].w = w
SentOnce(w) == \A i, j \in DOMAIN channel : channel[i].w = w /\ channel[j].w = w => i = j
Handled(op, w) == \E t \in tasks : t.op = op /\ t.w = w
Coming(op, w) == Sent(op, w) \/ Handled(op, w)

OneCommand(w) ==
    /\ SentOnce(w)
    /\ \A t, u \in tasks : /\ t.w = w /\ t.op \in {"add", "remove"}
                          /\ u.w = w /\ u.op \in {"add", "remove"}
                          => t = u
    /\ Sent("add", w) \/ Sent("remove", w) => ~Handled("add", w) /\ ~Handled("remove", w)

(* The activation finds a workflow that is not active, and keeps the role. *)
InLoop(w) == w \in loop.left =>
    /\ ~Coming("add", w) /\ ~Coming("remove", w)
    /\ ~Handled("write", w) /\ ~Handled("activate", w) /\ ~Handled("close", w)
    /\ w \notin active
    /\ loop.now = w => loop.may /\ w \in dbActive

InAdd(w) ==
    /\ Coming("add", w) => /\ ~Handled("write", w) /\ ~Handled("activate", w)
                           /\ ~Handled("close", w)
                           /\ w \in active => w \in dbActive
    /\ \A t \in tasks : t.w = w /\ t.op = "add" =>
           t.step # "passes" /\ (t.step = "adds" => w \in dbActive)

(* What one part of a deactivation leaves when the other is done.          *)
InRemove(w) ==
    /\ Handled("write", w) /\ ~Coming("remove", w) => w \notin active
    /\ Coming("remove", w) /\ ~Handled("write", w) /\ ~Handled("activate", w) => w \notin dbActive

TwoActivate(t, u, w) == t.w = w /\ t.op = "activate" /\ u.w = w /\ u.op = "activate"
USE DEF TwoActivate

(* A user's activation comes after the removal of what was active.         *)
InActivate(w) ==
    /\ Handled("activate", w) => /\ ~Handled("write", w) /\ ~Handled("close", w)
                                 /\ ~Coming("remove", w) => w \notin active
    /\ \A t, u \in tasks : TwoActivate(t, u, w) => t = u

InClose(w) == Handled("close", w) =>
    /\ ~Coming("remove", w) /\ ~Handled("write", w)
    /\ w \in queued

Pending(w) == \/ w \in loop.left
              \/ Coming("add", w) \/ Coming("remove", w)
              \/ Handled("write", w) \/ Handled("activate", w) \/ Handled("close", w)

Settled(w) == \/ w \in active /\ w \in dbActive
              \/ w \notin active /\ (w \in dbActive => w \in queued \cup refused)

Orderly(w) ==
    /\ ~BeingRemoved(w)
    /\ OneCommand(w) /\ InLoop(w) /\ InAdd(w) /\ InRemove(w) /\ InActivate(w) /\ InClose(w)
    /\ Pending(w) \/ Settled(w)

LeaderIsOrderly ==
    /\ attempt => role = "follower"
    /\ role = "leader" => \A w \in Workflows \ (raced \cup failed) : Orderly(w)

LInv == IInv /\ LeaderIsOrderly

Ops == {"add", "remove", "close", "activate", "write"}

LEMMA OpTypes ==
    ASSUME TypeOK
    PROVE  /\ \A t \in tasks : t.op \in Ops
           /\ \A i \in DOMAIN channel : channel[i].op \in {"add", "remove"}
<1>1. \A t \in tasks : t.op \in Ops
    BY DEF TypeOK, Task, Ops
<1>2. \A i \in DOMAIN channel : channel[i] \in Command
    BY DEF TypeOK
<1> QED BY <1>1, <1>2 DEF Command

(* What is pending keeps a workflow busy, and nothing else but the removal *)
(* on step down does.                                                      *)
LEMMA BusyIsPending ==
    ASSUME TypeOK, NEW w \in Workflows
    PROVE  Busy(w) <=> Pending(w) \/ BeingRemoved(w)
<1>1. (\E t \in tasks : t.w = w) <=> \E op \in Ops : Handled(op, w)
    BY OpTypes DEF Handled
<1>2. (\E i \in DOMAIN channel : channel[i].w = w) <=> Sent("add", w) \/ Sent("remove", w)
    BY OpTypes DEF Sent
<1> QED BY <1>1, <1>2 DEF Busy, BusyWith, Pending, Coming, Ops

(* Nothing is pending: no task and no command are there.                   *)
LEMMA NothingPending ==
    ASSUME TypeOK, NEW w \in Workflows, ~Pending(w)
    PROVE  /\ \A t \in tasks : t.w # w
           /\ \A op : ~Sent(op, w) /\ ~Handled(op, w) /\ ~Coming(op, w)
           /\ SentOnce(w)
<1>1. \A t \in tasks : t.w # w
    BY OpTypes DEF Ops, Pending, Coming, Handled
<1>2. \A i \in DOMAIN channel : channel[i].w # w
    BY OpTypes DEF Pending, Coming, Sent
<1> QED BY <1>1, <1>2 DEF Sent, Handled, Coming, SentOnce

(* A step that touches nothing of a workflow.                              *)
LEMMA Untouched ==
    ASSUME NEW w \in Workflows, Orderly(w),
           BeingRemoved(w)' => BeingRemoved(w),
           w \in active' <=> w \in active, w \in dbActive' <=> w \in dbActive,
           w \in queued' <=> w \in queued, w \in refused' <=> w \in refused,
           w \in loop'.left <=> w \in loop.left,
           loop'.now = w => loop.now = w /\ loop'.may = loop.may,
           \A op \in {"add", "remove"} : Sent(op, w)' <=> Sent(op, w),
           SentOnce(w)',
           \A t : t.w = w => (t \in tasks' <=> t \in tasks)
    PROVE  Orderly(w)'
<1>1. \A op : Handled(op, w)' <=> Handled(op, w)
    BY DEF Handled
<1>2. \A op \in {"add", "remove"} : Coming(op, w)' <=> Coming(op, w)
    BY <1>1 DEF Coming
<1>3. OneCommand(w)'
    BY <1>1 DEF Orderly, OneCommand
<1>4. InLoop(w)' /\ InRemove(w)' /\ (Pending(w)' <=> Pending(w)) /\ (Settled(w)' <=> Settled(w))
    BY <1>1, <1>2 DEF Orderly, InLoop, InRemove, Pending, Settled
<1>5. InAdd(w)' /\ InActivate(w)' /\ InClose(w)'
    BY <1>1, <1>2 DEF Orderly, InAdd, InActivate, InClose
<1> QED BY <1>3, <1>4, <1>5 DEF Orderly

(* What is noted as raced, and what is not.                                *)
LEMMA Noted ==
    ASSUME NEW v, NEW S, Notes(v, S)
    PROVE  (v \notin raced' => ~BusyWith(S, v)) /\ raced \subseteq raced'
BY DEF Notes

(* The channel after a command is published, and after one is received.    *)
LEMMA Published ==
    ASSUME TypeOK, NEW v \in Workflows, NEW op \in {"add", "remove"}, publishCommand(op, v)
    PROVE  /\ \A o, w : Sent(o, w)' <=> Sent(o, w) \/ (o = op /\ w = v)
           /\ \A w : SentOnce(w) /\ (w = v => ~\E o \in {"add", "remove"} : Sent(o, v))
                       => SentOnce(w)'
<1> DEFINE c == [op |-> op, w |-> v]
           n == Len(channel)
<1>1. channel' = Append(channel, c) /\ channel \in Seq(Command) /\ n \in Nat /\ c \in Command
    BY DEF publishCommand, TypeOK, Command
<1>2. DOMAIN channel = 1..n /\ DOMAIN channel' = 1..(n + 1)
      /\ \A i \in 1..n : channel'[i] = channel[i]
    BY <1>1
<1>3. channel'[n + 1] = c /\ n + 1 \in 1..(n + 1)
    BY <1>1
<1>4. \A i \in DOMAIN channel : channel[i].op \in {"add", "remove"}
    <2>1. \A i \in DOMAIN channel : channel[i] \in Command
        BY <1>1
    <2> QED BY <2>1 DEF Command
<1>5. c.op = op /\ c.w = v
    OBVIOUS
<1> HIDE DEF c, n
<1>6. \A i \in 1..(n + 1) : i \in 1..n \/ i = n + 1
    BY <1>1
<1>7. \A i \in 1..n : i \in 1..(n + 1)
    BY <1>1
<1>8. ASSUME NEW o, NEW w PROVE Sent(o, w)' <=> Sent(o, w) \/ (o = op /\ w = v)
    BY <1>2, <1>3, <1>5, <1>6, <1>7 DEF Sent
<1>9. ASSUME NEW w, SentOnce(w), w = v => ~\E o \in {"add", "remove"} : Sent(o, v)
      PROVE  SentOnce(w)'
    <2>1. w = v => \A i \in 1..n : channel[i].w # w
        BY <1>2, <1>4, <1>9 DEF Sent
    <2> SUFFICES ASSUME NEW i \in 1..(n + 1), NEW j \in 1..(n + 1),
                        channel'[i].w = w, channel'[j].w = w
                 PROVE  i = j
        BY <1>2 DEF SentOnce
    <2>2. CASE i \in 1..n /\ j \in 1..n
        BY <1>2, <1>9, <2>2 DEF SentOnce
    <2>3. CASE i = n + 1 \/ j = n + 1
        <3>1. w = v
            BY <1>3, <1>5, <2>3
        <3> QED BY <1>2, <1>6, <2>1, <2>3, <3>1
    <2> QED BY <1>6, <2>2, <2>3
<1> QED BY <1>8, <1>9

LEMMA Received ==
    ASSUME TypeOK, channel # <<>>, channel' = Tail(channel), NEW w
    PROVE  /\ Head(channel) \in Command
           /\ \A o : Sent(o, w) <=> Sent(o, w)' \/ (o = Head(channel).op /\ w = Head(channel).w)
           /\ SentOnce(w) => SentOnce(w)'
           /\ SentOnce(w) /\ w = Head(channel).w => \A o : ~Sent(o, w)'
<1> DEFINE n == Len(channel)
<1>1. channel \in Seq(Command) /\ n \in Nat /\ n # 0
    BY DEF TypeOK
<1>2. /\ DOMAIN channel = 1..n /\ DOMAIN channel' = 1..(n - 1)
      /\ \A i \in 1..(n - 1) : channel'[i] = channel[i + 1]
      /\ Head(channel) = channel[1] /\ 1 \in 1..n /\ channel[1] \in Command
    BY <1>1
<1> HIDE DEF n
<1>3. \A i \in 1..(n - 1) : i + 1 \in 1..n /\ i + 1 # 1
    BY <1>1
<1>4. \A i \in 1..n : i = 1 \/ (i - 1 \in 1..(n - 1) /\ (i - 1) + 1 = i)
    BY <1>1
<1>5. ASSUME NEW o
      PROVE  Sent(o, w) <=> Sent(o, w)' \/ (o = Head(channel).op /\ w = Head(channel).w)
    <2>1. ASSUME NEW i \in 1..n, channel[i].op = o, channel[i].w = w, i # 1
          PROVE  Sent(o, w)'
        <3>1. i - 1 \in 1..(n - 1) /\ channel'[i - 1] = channel[i]
            BY <1>2, <1>4, <2>1
        <3> QED BY <1>2, <2>1, <3>1 DEF Sent
    <2>2. Sent(o, w)' => Sent(o, w)
        BY <1>2, <1>3 DEF Sent
    <2> QED BY <1>2, <2>1, <2>2 DEF Sent
<1>6. ASSUME SentOnce(w) PROVE SentOnce(w)'
    <2> SUFFICES ASSUME NEW i \in 1..(n - 1), NEW j \in 1..(n - 1),
                        channel'[i].w = w, channel'[j].w = w
                 PROVE  i = j
        BY <1>2 DEF SentOnce
    <2>1. i + 1 = j + 1
        BY <1>2, <1>3, <1>6 DEF SentOnce
    <2> QED BY <1>1, <2>1
<1>7. ASSUME SentOnce(w), w = Head(channel).w, NEW o PROVE ~Sent(o, w)'
    <2> SUFFICES ASSUME NEW i \in 1..(n - 1), channel'[i].w = w PROVE FALSE
        BY <1>2 DEF Sent
    <2>1. i + 1 \in 1..n /\ i + 1 # 1 /\ channel[i + 1].w = w
        BY <1>2, <1>3
    <2> QED BY <1>2, <1>7, <2>1 DEF SentOnce
<1> QED BY <1>2, <1>5, <1>6, <1>7

(* The changes of the role: a main that takes over finds nothing active    *)
(* but what was busy, and starts the activation of what is in the rows.    *)
LEMMA RoleOrderly ==
    ASSUME LInv, (\E vacant \in BOOLEAN : StepDown(vacant)) \/ TakeOver \/ AttemptFails
    PROVE  LeaderIsOrderly'
<1>1. CASE \E vacant \in BOOLEAN : StepDown(vacant)
    BY <1>1 DEF StepDown, LeaderIsOrderly
<1>2. CASE AttemptFails
    <2>1. UNCHANGED manager /\ role' = role /\ attempt' = FALSE
        BY <1>2 DEF AttemptFails
    <2>2. ASSUME NEW w \in Workflows, Orderly(w) PROVE Orderly(w)'
        BY <2>1, <2>2, Untouched DEF manager, Orderly, OneCommand, Sent, SentOnce, BeingRemoved
    <2> QED BY <2>1, <2>2 DEF LInv, LeaderIsOrderly, manager
<1>3. CASE TakeOver
    <2> USE <1>3 DEF TakeOver
    <2>1. role = "follower"
        BY DEF LInv, IInv, TypeOK, LeaderIsOrderly
    <2>2. ASSUME NEW w \in Workflows, w \notin raced' \cup failed' PROVE Orderly(w)'
        <3>1. ~Busy(w) /\ w \notin raced \cup failed /\ ~loop.on
            BY <2>2 DEF BusyOnes
        <3>2. ~BeingRemoved(w) /\ ~Pending(w) /\ TypeOK
            BY <3>1, BusyIsPending DEF LInv, IInv
        <3>3. w \notin active /\ ~BeingRemoved(w)'
            BY <2>1, <3>1, <3>2 DEF LInv, IInv, QuietTriggers, BeingRemoved
        <3>4. loop'.left = dbActive /\ loop'.now # w
            BY <3>1, LeaderServicesAssumption DEF addActiveWorkflows, Idle
        <3>5. /\ \A t \in tasks : t.w # w
              /\ \A op : ~Sent(op, w)' /\ ~Handled(op, w)' /\ ~Coming(op, w)'
              /\ SentOnce(w)'
            BY <3>2, NothingPending DEF Sent, Handled, Coming, SentOnce
        <3>6. OneCommand(w)' /\ InAdd(w)' /\ InRemove(w)' /\ InActivate(w)' /\ InClose(w)'
            BY <3>5 DEF OneCommand, InAdd, InRemove, InActivate, InClose
        <3>7. InLoop(w)'
            BY <3>3, <3>4, <3>5 DEF InLoop
        <3>8. Pending(w)' \/ Settled(w)'
            BY <3>3, <3>4 DEF Pending, Settled
        <3> QED BY <3>3, <3>6, <3>7, <3>8 DEF Orderly
    <2> QED BY <2>2 DEF LeaderIsOrderly
<1> QED BY <1>1, <1>2, <1>3

(* The rest of the steps leave the role alone.                             *)
LEMMA OrderlyStep ==
    ASSUME LInv, UNCHANGED <<role, attempt>>, raced \subseteq raced', failed \subseteq failed',
           \A w \in Workflows : role = "leader" /\ w \notin raced' \cup failed' /\ Orderly(w)
                                => Orderly(w)'
    PROVE  LeaderIsOrderly'
BY DEF LInv, LeaderIsOrderly

(* The activation of workflows on takeover.                                *)
LEMMA LoopOrderly ==
    ASSUME LInv,
           \/ Activated \/ ActivationFails \/ LoopEnds
           \/ \E w \in Workflows : activateWorkflow(w)
    PROVE  LeaderIsOrderly'
<1>0. /\ UNCHANGED <<role, attempt, channel, tasks, removing, raced, dbActive>>
      /\ failed \subseteq failed'
      /\ loop \in [on : BOOLEAN, left : SUBSET Workflows, now : Workflows \cup {None},
                   may : BOOLEAN]
      /\ loop.now # None => loop.now \in loop.left
      /\ TypeOK
    BY DEF LInv, IInv, TypeOK, QuietTriggers, Activated, ActivationFails, LoopEnds, activateWorkflow
<1> SUFFICES ASSUME NEW w \in Workflows, role = "leader", w \notin failed', Orderly(w)
             PROVE  Orderly(w)'
    BY <1>0, OrderlyStep
<1>1. /\ \A op : /\ Sent(op, w)' <=> Sent(op, w)
                 /\ Handled(op, w)' <=> Handled(op, w)
                 /\ Coming(op, w)' <=> Coming(op, w)
      /\ OneCommand(w)' /\ SentOnce(w)' /\ ~BeingRemoved(w)' /\ ~BeingRemoved(w)
    BY <1>0 DEF Sent, Handled, Coming, Orderly, OneCommand, SentOnce, BeingRemoved
<1>2. w \in loop.left => /\ ~Coming("add", w) /\ ~Coming("remove", w)
                         /\ ~Handled("write", w) /\ ~Handled("activate", w)
                         /\ ~Handled("close", w)
                         /\ w \notin active
                         /\ \A t \in tasks : t.w # w
    BY <1>0, OpTypes DEF Orderly, InLoop, Coming, Handled, Ops
<1>3. w \in loop.left => InAdd(w)' /\ InRemove(w)' /\ InActivate(w)' /\ InClose(w)'
    BY <1>0, <1>1, <1>2 DEF InAdd, InRemove, InActivate, InClose
<1>4. CASE Activated \/ ActivationFails
    <2>1. /\ loop'.left = loop.left \ {loop.now} /\ loop'.now = None /\ None # w
          /\ loop.now \in loop.left
        BY <1>0, <1>4, LeaderServicesAssumption DEF Activated, ActivationFails, LoopGoesOn
    <2>2. CASE loop.now # w
        <3>1. /\ w \in active' <=> w \in active
              /\ w \in queued' <=> w \in queued
              /\ w \in refused' <=> w \in refused
            BY <1>4, <2>2 DEF Activated, ActivationFails, Leaves
        <3> QED BY <1>0, <1>1, <2>1, <2>2, <3>1, Untouched
    <2>3. CASE loop.now = w
        <3>1. loop.may /\ w \in dbActive /\ w \notin active
            BY <2>1, <2>3 DEF Orderly, InLoop
        <3>2. Settled(w)'
            BY <1>0, <1>4, <2>3, <3>1 DEF Activated, ActivationFails, Settled
        <3>3. InLoop(w)'
            BY <2>1, <2>3 DEF InLoop
        <3> QED BY <1>0, <1>1, <1>3, <2>1, <2>3, <3>2, <3>3 DEF Orderly
    <2> QED BY <2>2, <2>3
<1>5. CASE LoopEnds
    <2>1. loop'.left = {} /\ loop'.now # w /\ w \notin loop.left
        BY <1>5, LeaderServicesAssumption DEF LoopEnds, Idle
    <2> QED BY <1>0, <1>1, <1>5, <2>1, Untouched DEF LoopEnds
<1>6. ASSUME NEW v \in Workflows, activateWorkflow(v) PROVE Orderly(w)'
    <2>1. UNCHANGED <<active, queued, refused>> /\ v \in loop.left /\ loop.now # w
        BY <1>6, LeaderServicesAssumption DEF activateWorkflow
    <2>2. CASE v # w
        <3>1. (w \in loop'.left <=> w \in loop.left) /\ loop'.now # w
            BY <1>0, <1>6, <2>1, <2>2 DEF activateWorkflow
        <3> QED BY <1>0, <1>1, <2>1, <3>1, Untouched
    <2>3. CASE v = w /\ w \in dbActive
        <3>1. loop'.left = loop.left /\ loop'.may
            BY <1>0, <1>6, <2>3 DEF activateWorkflow
        <3>2. InLoop(w)'
            BY <1>0, <1>1, <1>2, <2>1, <2>3, <3>1 DEF InLoop
        <3>3. Pending(w)'
            BY <2>1, <2>3, <3>1 DEF Pending
        <3> QED BY <1>0, <1>1, <1>3, <2>1, <2>3, <3>2, <3>3 DEF Orderly
    <2>4. CASE v = w /\ w \notin dbActive
        <3>1. w \notin loop'.left
            BY <1>0, <1>6, <2>4 DEF activateWorkflow
        <3>2. Settled(w)' /\ InLoop(w)'
            BY <1>0, <1>2, <2>1, <2>4, <3>1 DEF Settled, InLoop
        <3> QED BY <1>0, <1>1, <1>3, <2>1, <2>4, <3>2 DEF Orderly
    <2> QED BY <2>2, <2>3, <2>4
<1> QED BY <1>4, <1>5, <1>6

(* An operation starts for a workflow that nothing is pending for: the     *)
(* others are noted as raced.                                              *)
LEMMA StartOrderly ==
    ASSUME LInv, NEW v \in Workflows,
           \/ RetryActivation(v) \/ emitError(v) \/ UserActivates(v) \/ UserDeactivates(v)
    PROVE  LeaderIsOrderly'
<1>0. /\ UNCHANGED <<role, attempt, dbActive, active, loop, refused, removing, failed>> /\ TypeOK
      /\ loop.left \subseteq Workflows
    BY DEF LInv, IInv, TypeOK, RetryActivation, emitError, UserActivates, UserDeactivates
<1>1. Notes(v, tasks)
    BY DEF RetryActivation, emitError, UserActivates, UserDeactivates
<1>2. (v \notin raced' => ~Busy(v)) /\ raced \subseteq raced'
    BY <1>1, Noted DEF Busy
<1>3. \/ UNCHANGED channel /\ (emitError(v) \/ (UserActivates(v) /\ v \notin dbActive))
      \/ publishCommand("add", v) /\ RetryActivation(v)
      \/ publishCommand("remove", v) /\ (UserDeactivates(v) \/ UserActivates(v)) /\ v \in dbActive
    BY DEF RetryActivation, emitError, UserActivates, UserDeactivates
<1> SUFFICES ASSUME NEW w \in Workflows, role = "leader", w \notin raced', Orderly(w)
             PROVE  Orderly(w)'
    BY <1>0, <1>2, OrderlyStep
<1>4. ~BeingRemoved(w)'
    BY <1>0 DEF Orderly, BeingRemoved
<1>5. CASE w # v
    <2>1. /\ w \in queued' <=> w \in queued
          /\ \A t : t.w = w => (t \in tasks' <=> t \in tasks)
        BY <1>5 DEF RetryActivation, emitError, UserActivates, UserDeactivates
    <2>2. (\A o : Sent(o, w)' <=> Sent(o, w)) /\ SentOnce(w)'
        <3>1. CASE UNCHANGED channel
            BY <3>1 DEF Sent, SentOnce, Orderly, OneCommand
        <3>2. CASE publishCommand("add", v) \/ publishCommand("remove", v)
            BY <1>0, <1>5, <3>2, Published DEF Orderly, OneCommand
        <3> QED BY <1>3, <3>1, <3>2
    <2> QED BY <1>0, <1>4, <2>1, <2>2, Untouched
<1>6. CASE w = v
    <2>1. ~Pending(w) /\ Settled(w)
        BY <1>0, <1>2, <1>6, BusyIsPending DEF Orderly
    <2>2. /\ \A t \in tasks : t.w # w
          /\ \A op : ~Sent(op, w) /\ ~Handled(op, w)
          /\ SentOnce(w) /\ w \notin loop.left
        BY <1>0, <2>1, NothingPending DEF Pending
    <2>3. InLoop(w)'
        BY <1>0, <2>2 DEF InLoop
    <2>4. CASE RetryActivation(w)
        <3>1. tasks' = tasks /\ (w \in active => w \in dbActive)
            BY <2>1, <2>4 DEF RetryActivation, Settled
        <3>2. (\A o : Sent(o, w)' <=> o = "add") /\ SentOnce(w)'
            BY <1>0, <2>2, <2>4, Published DEF RetryActivation
        <3>3. \A o : ~Handled(o, w)'
            BY <2>2, <3>1 DEF Handled
        <3>4. OneCommand(w)' /\ InAdd(w)' /\ InRemove(w)' /\ InActivate(w)' /\ InClose(w)'
            BY <1>0, <2>2, <3>1, <3>2, <3>3 DEF OneCommand, InAdd, InRemove, InActivate, InClose, Coming
        <3> QED BY <1>4, <2>3, <3>2, <3>4 DEF Orderly, Pending, Coming
    <2>5. ASSUME NEW r, tasks' = tasks \cup {r}, r.w = w
          PROVE  /\ \A o : Handled(o, w)' <=> o = r.op
                 /\ \A t \in tasks' : t.w = w => t = r
        BY <2>2, <2>5 DEF Handled
    <2>6. CASE emitError(w)
        <3> DEFINE r == [op |-> "close", w |-> w, step |-> "closing"]
        <3>1. r.op = "close" /\ r.w = w /\ tasks' = tasks \cup {r} /\ w \in queued' /\ channel' = channel
            BY <2>6 DEF emitError
        <3> HIDE DEF r
        <3>2. (\A o : Handled(o, w)' <=> o = "close") /\ \A t \in tasks' : t.w = w => t = r
            BY <2>5, <3>1
        <3>3. (\A o : ~Sent(o, w)') /\ SentOnce(w)'
            BY <2>2, <3>1 DEF Sent, SentOnce
        <3>4. OneCommand(w)' /\ InAdd(w)' /\ InRemove(w)' /\ InActivate(w)' /\ InClose(w)'
            BY <3>1, <3>2, <3>3 DEF OneCommand, InAdd, InRemove, InActivate, InClose, Coming
        <3> QED BY <1>4, <2>3, <3>2, <3>4 DEF Orderly, Pending
    <2>7. CASE UserActivates(w)
        <3> DEFINE r == [op |-> "activate", w |-> w, step |-> "asked"]
        <3>1. r.op = "activate" /\ r.w = w /\ tasks' = tasks \cup {r}
            BY <2>7 DEF UserActivates
        <3> HIDE DEF r
        <3>2. (\A o : Handled(o, w)' <=> o = "activate") /\ \A t \in tasks' : t.w = w => t = r
            BY <2>5, <3>1
        <3>3. /\ SentOnce(w)' /\ ~Sent("add", w)'
              /\ ~Sent("remove", w)' => w \notin active
            <4>1. CASE w \in dbActive
                BY <1>0, <2>2, <2>7, <4>1, Published DEF UserActivates
            <4>2. CASE w \notin dbActive
                BY <2>1, <2>2, <2>7, <4>2 DEF UserActivates, Sent, SentOnce, Settled
            <4> QED BY <4>1, <4>2
        <3>4. OneCommand(w)' /\ InAdd(w)' /\ InRemove(w)' /\ InActivate(w)' /\ InClose(w)'
            BY <1>0, <3>1, <3>2, <3>3 DEF OneCommand, InAdd, InRemove, InActivate, InClose, Coming
        <3> QED BY <1>4, <2>3, <3>2, <3>4 DEF Orderly, Pending
    <2>8. CASE UserDeactivates(w)
        <3> DEFINE r == [op |-> "write", w |-> w, step |-> "asked"]
        <3>1. r.op = "write" /\ r.w = w /\ tasks' = tasks \cup {r}
            BY <2>8 DEF UserDeactivates
        <3> HIDE DEF r
        <3>2. (\A o : Handled(o, w)' <=> o = "write") /\ \A t \in tasks' : t.w = w => t = r
            BY <2>5, <3>1
        <3>3. SentOnce(w)' /\ \A o : Sent(o, w)' <=> o = "remove"
            BY <1>0, <2>2, <2>8, Published DEF UserDeactivates
        <3>4. OneCommand(w)' /\ InAdd(w)' /\ InRemove(w)' /\ InActivate(w)' /\ InClose(w)'
            BY <1>0, <3>1, <3>2, <3>3 DEF OneCommand, InAdd, InRemove, InActivate, InClose, Coming
        <3> QED BY <1>4, <2>3, <3>2, <3>4 DEF Orderly, Pending
    <2> QED BY <1>6, <2>4, <2>6, <2>7, <2>8
<1> QED BY <1>5, <1>6

(* A command is received by the leader, and becomes a task.                *)
LEMMA ReceiveOrderly ==
    ASSUME LInv, Receive
    PROVE  LeaderIsOrderly'
<1>0. /\ UNCHANGED <<role, attempt, dbActive, active, loop, queued, refused, removing, raced, failed>>
      /\ TypeOK /\ channel # <<>> /\ channel' = Tail(channel)
    BY DEF LInv, IInv, Receive
<1> SUFFICES ASSUME NEW w \in Workflows, role = "leader", Orderly(w) PROVE Orderly(w)'
    BY <1>0, OrderlyStep
<1> DEFINE c == Head(channel)
           r == [op |-> c.op, w |-> c.w, step |-> "asked"]
<1>1. /\ c \in Command
      /\ \A o : Sent(o, w) <=> Sent(o, w)' \/ (o = c.op /\ w = c.w)
      /\ SentOnce(w) => SentOnce(w)'
      /\ SentOnce(w) /\ w = c.w => \A o : ~Sent(o, w)'
    BY <1>0, Received
<1>2. tasks' = tasks \cup {r}
    BY DEF Receive
<1>3. r.op = c.op /\ r.w = c.w /\ r.step = "asked" /\ c.op \in {"add", "remove"}
    BY <1>1 DEF Command
<1> HIDE DEF c, r
<1>4. SentOnce(w) /\ SentOnce(w)' /\ ~BeingRemoved(w)'
    BY <1>0, <1>1 DEF Orderly, OneCommand, BeingRemoved
<1>5. CASE w # c.w
    BY <1>0, <1>1, <1>2, <1>3, <1>4, <1>5, Untouched
<1>6. CASE w = c.w
    <2>1. Sent(c.op, w) /\ \A o : ~Sent(o, w)'
        BY <1>1, <1>4, <1>6
    <2>2. ~Handled("add", w) /\ ~Handled("remove", w)
        BY <1>3, <2>1 DEF Orderly, OneCommand
    <2>3. \A o : Handled(o, w)' <=> Handled(o, w) \/ o = c.op
        BY <1>2, <1>3, <1>6 DEF Handled
    <2>4. \A o : Sent(o, w) => o = c.op
        BY <1>1, <2>1
    <2>5. \A o \in {"add", "remove"} : Coming(o, w)' <=> Coming(o, w)
        BY <2>1, <2>2, <2>3, <2>4 DEF Coming
    <2>6. \A o \in {"write", "activate", "close"} : Handled(o, w)' <=> Handled(o, w)
        BY <1>3, <2>3
    <2>7. OneCommand(w)'
        <3>1. \A t \in tasks : t.w = w => t.op \notin {"add", "remove"}
            BY <2>2 DEF Handled
        <3> QED BY <1>2, <1>4, <2>1, <3>1 DEF OneCommand
    <2>8. InLoop(w)' /\ InRemove(w)' /\ InClose(w)' /\ Pending(w)'
        BY <1>0, <1>3, <2>1, <2>3, <2>5, <2>6 DEF InLoop, InRemove, InClose, Pending, Orderly, Coming
    <2>9. InAdd(w)' /\ InActivate(w)'
        <3>1. \A t \in tasks' : t.op = "add" /\ t.w = w => t.step = "asked"
            BY <1>2, <1>3, <2>2 DEF Handled
        <3>2. \A t \in tasks' : t.op = "activate" => t \in tasks
            BY <1>2, <1>3
        <3> QED BY <1>0, <2>5, <2>6, <3>1, <3>2 DEF InAdd, InActivate, Orderly
    <2> QED BY <1>0, <1>4, <2>7, <2>8, <2>9 DEF Orderly
<1> QED BY <1>5, <1>6

(* A handler writes what its task is about, and leaves the task, a later   *)
(* step of it, or nothing.                                                 *)
LEMMA OtherTasks ==
    ASSUME LInv, NEW t \in tasks,
           HandleAdd(t) \/ HandleRemove(t) \/ Activate(t) \/ WriteInactive(t),
           UNCHANGED <<loop, removing>>,
           NEW w \in Workflows, w # t.w, Orderly(w)
    PROVE  Orderly(w)'
<1>0. TypeOK /\ t \in Task /\ t.w \in Workflows
    BY TaskType DEF LInv, IInv, TypeOK
<1>1. \A u : u.w = w => (u \in tasks' <=> u \in tasks)
    <2>1. Done(t) \/ \E s \in {"adds", "passes", "closing", "written"} : Step(t, s)
        BY DEF HandleAdd, HandleRemove, Activate, WriteInactive, Fails
    <2>2. CASE Done(t)
        BY <2>2 DEF Done
    <2>3. ASSUME NEW s \in {"adds", "passes", "closing", "written"}, Step(t, s)
          PROVE  \A u : u.w = w => (u \in tasks' <=> u \in tasks)
        <3> DEFINE x == [t EXCEPT !.step = s]
        <3>1. x.w = t.w /\ tasks' = (tasks \ {t}) \cup {x}
            BY <1>0, <2>3, TaskType DEF Step
        <3> HIDE DEF x
        <3> QED BY <3>1
    <2> QED BY <2>1, <2>2, <2>3
<1>2. /\ w \in active' <=> w \in active
      /\ w \in dbActive' <=> w \in dbActive
      /\ w \in queued' <=> w \in queued
      /\ w \in refused' <=> w \in refused
    BY DEF HandleAdd, HandleRemove, Activate, WriteInactive, Fails, Leaves
<1>3. (\A o : Sent(o, w)' <=> Sent(o, w)) /\ SentOnce(w)'
    <2>1. UNCHANGED channel \/ publishCommand("add", t.w)
        BY DEF HandleAdd, HandleRemove, Activate, WriteInactive
    <2>2. CASE UNCHANGED channel
        BY <2>2 DEF Sent, SentOnce, Orderly, OneCommand
    <2>3. CASE publishCommand("add", t.w)
        BY <1>0, <2>3, Published DEF Orderly, OneCommand
    <2> QED BY <2>1, <2>2, <2>3
<1> QED BY <1>1, <1>2, <1>3, Untouched DEF BeingRemoved

(* The task goes on to its next step.                                      *)
LEMMA StepOrderly ==
    ASSUME TypeOK, NEW t \in tasks, NEW s \in {"adds", "passes", "closing", "written"}, Step(t, s),
           Orderly(t.w), UNCHANGED <<active, queued, refused, loop, removing, channel>>,
           \/ UNCHANGED dbActive
           \/ t.op = "activate" /\ dbActive' = dbActive \cup {t.w},
           t.op = "add" => s = "adds" /\ t.w \in dbActive
    PROVE  Orderly(t.w)'
<1> DEFINE u == [t EXCEPT !.step = s]
           w == t.w
<1>1. u.op = t.op /\ u.w = t.w /\ u.step = s /\ tasks' = (tasks \ {t}) \cup {u} /\ t.op \in Ops
    BY TaskType, OpTypes DEF Step, TypeOK
<1> HIDE DEF u
<1>2. \A o : (Handled(o, w)' <=> Handled(o, w)) /\ (Sent(o, w)' <=> Sent(o, w))
             /\ (Coming(o, w)' <=> Coming(o, w))
    <2>1. \A o : Sent(o, w)' <=> Sent(o, w)
        BY DEF Sent
    <2>2. \A o : Handled(o, w)' <=> Handled(o, w)
        BY <1>1 DEF Handled
    <2> QED BY <2>1, <2>2 DEF Coming
<1>3. Handled(t.op, w)
    BY DEF Handled
<1>4. OneCommand(w)'
    <2>1. SentOnce(w)'
        BY DEF SentOnce, Orderly, OneCommand
    <2>2. ASSUME NEW x \in tasks', NEW y \in tasks', x.w = w, y.w = w,
                 x.op \in {"add", "remove"}, y.op \in {"add", "remove"}
          PROVE  x = y
        BY <1>1, <2>2 DEF Orderly, OneCommand
    <2> QED BY <1>2, <2>1, <2>2 DEF Orderly, OneCommand
<1>5. InLoop(w)' /\ InClose(w)' /\ ~BeingRemoved(w)'
    BY <1>1, <1>2, <1>3 DEF InLoop, InClose, Orderly, BeingRemoved, Coming, Ops
<1>6. InRemove(w)' /\ InActivate(w)'
    <2>1. InRemove(w)'
        BY <1>2, <1>3 DEF InRemove, Orderly
    <2>2. ASSUME NEW x \in tasks', NEW y \in tasks', x.w = w, y.w = w,
                 x.op = "activate", y.op = "activate"
          PROVE  x = y
        BY <1>1, <2>2 DEF Orderly, InActivate
    <2> QED BY <1>2, <2>1, <2>2 DEF InActivate, Orderly
<1>7. InAdd(w)'
    <2>1. Coming("add", w)' => t.op # "activate"
        BY <1>2, <1>3 DEF InAdd, Orderly
    <2>2. ASSUME NEW x \in tasks', x.w = w, x.op = "add"
          PROVE  x.step # "passes" /\ (x.step = "adds" => w \in dbActive')
        BY <1>1, <2>2 DEF InAdd, Orderly
    <2> QED BY <1>2, <2>1, <2>2 DEF InAdd, Orderly
<1>8. Pending(w)'
    BY <1>1, <1>2, <1>3 DEF Pending, Coming, Ops
<1> QED BY <1>4, <1>5, <1>6, <1>7, <1>8 DEF Orderly

(* A command is done: of its workflow a write or an activation may be left.*)
LEMMA CommandDone ==
    ASSUME TypeOK, NEW t \in tasks, t.op \in {"add", "remove"}, Done(t),
           NEW w, w = t.w, Orderly(w), UNCHANGED <<loop, removing, channel>>
    PROVE  /\ \A o \in {"add", "remove"} : ~Coming(o, w)' /\ ~Handled(o, w)'
           /\ \A o \in {"write", "activate", "close"} : Handled(o, w)' <=> Handled(o, w)
           /\ ~Handled("close", w) /\ w \notin loop.left
           /\ OneCommand(w)' /\ InLoop(w)' /\ InClose(w)' /\ InAdd(w)' /\ ~BeingRemoved(w)'
           /\ \A x, y \in tasks' : TwoActivate(x, y, w) => x = y
<1>1. Handled(t.op, w)
    BY DEF Handled
<1>2. w \notin loop.left /\ ~Handled("close", w) /\ ~Sent("add", w) /\ ~Sent("remove", w)
    BY <1>1 DEF Orderly, InLoop, InAdd, InClose, Coming, OneCommand
<1>3. \A u \in tasks' : u \in tasks /\ (u.w = w => u.op \notin {"add", "remove"})
    BY DEF Done, Orderly, OneCommand
<1>4. \A o \in {"add", "remove"} : ~Coming(o, w)' /\ ~Handled(o, w)' /\ ~Sent(o, w)'
    BY <1>2, <1>3 DEF Coming, Handled, Sent
<1>5. \A o \in {"write", "activate", "close"} : Handled(o, w)' <=> Handled(o, w)
    BY DEF Done, Handled
<1>6. SentOnce(w)' /\ ~BeingRemoved(w)'
    BY DEF SentOnce, Orderly, OneCommand, BeingRemoved
<1>7. OneCommand(w)' /\ InLoop(w)' /\ InClose(w)' /\ InAdd(w)'
    BY <1>2, <1>3, <1>4, <1>5, <1>6 DEF OneCommand, InLoop, InClose, InAdd
<1>8. \A x, y \in tasks' : TwoActivate(x, y, w) => x = y
    <2>1. \A x, y \in tasks : TwoActivate(x, y, w) => x = y
        BY DEF Orderly, InActivate
    <2> QED BY <2>1, <1>3
<1> QED BY <1>2, <1>4, <1>5, <1>6, <1>7, <1>8

(* A handler, or the writing of the row, goes on for the workflow of its   *)
(* task.                                                                   *)
LEMMA HandlerOrderly ==
    ASSUME LInv, NEW t \in tasks, HandleAdd(t) \/ HandleRemove(t) \/ WriteInactive(t),
           UNCHANGED <<role, attempt, loop, removing>>
    PROVE  LeaderIsOrderly'
<1>0. /\ TypeOK /\ t \in Task /\ UNCHANGED <<channel, raced>> /\ failed \subseteq failed'
      /\ t.w \in Workflows
    BY TaskType DEF LInv, IInv, TypeOK, HandleAdd, HandleRemove, WriteInactive, Fails
<1> SUFFICES ASSUME NEW w \in Workflows, role = "leader", w \notin failed', Orderly(w)
             PROVE  Orderly(w)'
    BY <1>0, OrderlyStep
<1>1. CASE w # t.w
    BY <1>1, OtherTasks
<1>2. CASE HandleAdd(t) /\ w = t.w
    <2>0. /\ t.op = "add" /\ ~Handled("write", w) /\ ~Handled("activate", w)
          /\ w \in active => w \in dbActive
          /\ t.step # "passes" /\ (t.step = "adds" => w \in dbActive)
        BY <1>2 DEF HandleAdd, Orderly, InAdd, Coming, Handled
    <2>1. CASE t.step = "asked" /\ t.w \in dbActive /\ Step(t, "adds")
                  /\ UNCHANGED <<dbActive, active, queued, refused>>
        BY <1>0, <1>2, <2>0, <2>1, StepOrderly
    <2>2. CASE Fails(t)
        <3>1. Done(t) /\ dbActive' = dbActive \ {w} /\ w \notin active'
            BY <1>2, <2>2 DEF Fails
        <3>2. InRemove(w)' /\ InActivate(w)' /\ Settled(w)'
            BY <1>0, <1>2, <2>0, <3>1, CommandDone DEF InRemove, InActivate, Settled
        <3> QED BY <1>0, <1>2, <2>0, <3>1, <3>2, CommandDone DEF Orderly
    <2>3. CASE /\ t.step \in {"adds", "passes"} /\ Done(t)
               /\ active' = IF t.step = "adds" THEN active \cup {t.w} ELSE active
               /\ queued' = queued \ {t.w} /\ refused' = refused \ {t.w}
               /\ UNCHANGED dbActive
        <3>1. InRemove(w)' /\ InActivate(w)' /\ Settled(w)'
            BY <1>0, <1>2, <2>0, <2>3, CommandDone DEF InRemove, InActivate, Settled
        <3> QED BY <1>0, <1>2, <2>0, <2>3, <3>1, CommandDone DEF Orderly
    <2> QED BY <1>2, <2>1, <2>2, <2>3 DEF HandleAdd
<1>3. CASE HandleRemove(t) /\ w = t.w
    <2>0. /\ t.op \in {"remove", "close"} /\ UNCHANGED <<dbActive, queued, refused>>
          /\ \/ Step(t, "closing") /\ UNCHANGED active
             \/ Done(t) /\ w \notin active'
        BY <1>3 DEF HandleRemove
    <2>1. CASE Step(t, "closing") /\ UNCHANGED active
        BY <1>0, <1>3, <2>0, <2>1, StepOrderly
    <2>2. CASE Done(t) /\ w \notin active' /\ t.op = "remove"
        <3>1. Coming("remove", w)
            BY <1>3, <2>2 DEF Coming, Handled
        <3>2. w \notin dbActive \/ Handled("write", w) \/ Handled("activate", w)
            BY <3>1 DEF Orderly, InRemove
        <3>3. InRemove(w)' /\ InActivate(w)'
            BY <1>0, <1>3, <2>2, CommandDone DEF InRemove, InActivate, Orderly
        <3>4. Pending(w)' \/ Settled(w)'
            BY <1>0, <1>3, <2>0, <2>2, <3>2, CommandDone DEF Pending, Settled
        <3> QED BY <1>0, <1>3, <2>2, <3>3, <3>4, CommandDone DEF Orderly
    <2>3. CASE Done(t) /\ w \notin active' /\ t.op = "close"
        <3>1. Handled("close", w)
            BY <1>3, <2>3 DEF Handled
        <3>2. /\ w \in queued /\ w \notin loop.left
              /\ ~Coming("add", w) /\ ~Coming("remove", w)
              /\ ~Handled("write", w) /\ ~Handled("activate", w)
            BY <3>1 DEF Orderly, InClose, InLoop, InAdd, InActivate
        <3>3. \A o : Sent(o, w)' <=> Sent(o, w)
            BY <1>0 DEF Sent
        <3>4. \A o : Handled(o, w)' => Handled(o, w)
            BY <2>3 DEF Done, Handled
        <3>5. SentOnce(w)' /\ tasks' \subseteq tasks /\ ~BeingRemoved(w)'
            BY <1>0, <2>3 DEF SentOnce, Orderly, OneCommand, Done, BeingRemoved
        <3>6. OneCommand(w)' /\ InLoop(w)'
            BY <1>0, <3>2, <3>3, <3>4, <3>5 DEF OneCommand, InLoop, Orderly
        <3>7. InAdd(w)' /\ InRemove(w)' /\ InActivate(w)' /\ InClose(w)'
            BY <2>0, <3>2, <3>3, <3>4, <3>5
               DEF InAdd, InRemove, InActivate, InClose, Coming, Handled, Orderly
        <3>8. Settled(w)'
            BY <2>0, <2>3, <3>2 DEF Settled
        <3> QED BY <3>5, <3>6, <3>7, <3>8 DEF Orderly
    <2> QED BY <2>0, <2>1, <2>2, <2>3
<1>4. CASE WriteInactive(t) /\ w = t.w
    <2>0. /\ t.op = "write" /\ Done(t) /\ dbActive' = dbActive \ {w} /\ Handled("write", w)
          /\ UNCHANGED <<active, queued, refused>>
        BY <1>4 DEF WriteInactive, Handled
    <2>1. /\ Handled("add", w)' <=> Handled("add", w)
          /\ Handled("remove", w)' <=> Handled("remove", w)
          /\ Handled("activate", w)' <=> Handled("activate", w)
          /\ Handled("close", w)' <=> Handled("close", w)
        BY <2>0 DEF Handled, Done
    <2>2. /\ Sent("add", w)' <=> Sent("add", w)
          /\ Sent("remove", w)' <=> Sent("remove", w)
        BY <1>0 DEF Sent
    <2>3. /\ Coming("add", w)' <=> Coming("add", w)
          /\ Coming("remove", w)' <=> Coming("remove", w)
        BY <2>1, <2>2 DEF Coming
    <2>4. /\ ~Coming("add", w) /\ (~Coming("remove", w) => w \notin active) /\ w \notin loop.left
          /\ ~Handled("activate", w) /\ ~Handled("close", w)
        BY <2>0 DEF Orderly, InAdd, InRemove, InLoop, InActivate, InClose
    <2>5. tasks' \subseteq tasks /\ ~BeingRemoved(w)' /\ SentOnce(w)'
        BY <1>0, <2>0 DEF Done, Orderly, OneCommand, BeingRemoved, SentOnce
    <2>6. OneCommand(w)'
        BY <2>1, <2>2, <2>5 DEF OneCommand, Orderly
    <2>7. InLoop(w)' /\ InClose(w)' /\ InActivate(w)'
        BY <2>1, <2>3, <2>4, <2>5 DEF InLoop, InClose, InActivate, Orderly
    <2>8. InAdd(w)'
        <3>1. \A u \in tasks' : u.w = w => u.op # "add"
            BY <2>4, <2>5 DEF Coming, Handled
        <3> QED BY <2>3, <2>4, <3>1 DEF InAdd
    <2>9. InRemove(w)'
        BY <2>0, <2>3, <2>4 DEF InRemove
    <2>10. Pending(w)' \/ Settled(w)'
        BY <2>0, <2>3, <2>4 DEF Pending, Settled
    <2> QED BY <2>5, <2>6, <2>7, <2>8, <2>9, <2>10 DEF Orderly
<1> QED BY <1>1, <1>2, <1>3, <1>4

(* A user's activation writes the row, and then publishes or writes the row*)
(* back.                                                                   *)
LEMMA ActivateOrderly ==
    ASSUME LInv, NEW t \in tasks, Activate(t), UNCHANGED <<role, attempt, loop, removing>>
    PROVE  LeaderIsOrderly'
<1>0. /\ TypeOK /\ t \in Task /\ t.op = "activate" /\ t.w \in Workflows
      /\ UNCHANGED <<active, queued, refused, failed>>
    BY TaskType DEF LInv, IInv, TypeOK, Activate
<1>1. raced \subseteq raced'
    BY Noted DEF Activate
<1> SUFFICES ASSUME NEW w \in Workflows, role = "leader", w \notin raced', Orderly(w)
             PROVE  Orderly(w)'
    BY <1>0, <1>1, OrderlyStep
<1>2. CASE w # t.w
    BY <1>2, OtherTasks
<1>3. CASE w = t.w
    <2>0. /\ Handled("activate", w) /\ ~Handled("write", w) /\ ~Handled("close", w)
          /\ ~Coming("add", w) /\ w \notin loop.left
          /\ ~Coming("remove", w) => w \notin active
          /\ ~BeingRemoved(w)'
        BY <1>0, <1>3 DEF Handled, Orderly, InActivate, InAdd, InLoop, BeingRemoved
    <2>1. CASE Step(t, "written") /\ dbActive' = dbActive \cup {t.w} /\ UNCHANGED channel
        BY <1>0, <1>3, <2>1, StepOrderly
    <2>2. ASSUME Done(t)
          PROVE  /\ ~Handled("activate", w)' /\ tasks' \subseteq tasks
                 /\ \A o \in {"add", "remove", "write", "close"} : Handled(o, w)' <=> Handled(o, w)
        BY <1>0, <1>3, <2>2 DEF Done, Handled, Orderly, InActivate
    <2>3. CASE Done(t) /\ publishCommand("add", t.w) /\ Notes(t.w, tasks \ {t}) /\ UNCHANGED dbActive
        <3>1. ~BusyWith(tasks \ {t}, w)
            BY <1>3, <2>3, Noted
        <3>2. (\A u \in tasks' : u.w # w) /\ \A i \in DOMAIN channel : channel[i].w # w
            BY <2>3, <3>1 DEF BusyWith, Done
        <3>3. (\A o : ~Sent(o, w) /\ ~Handled(o, w)') /\ SentOnce(w)
            BY <3>2 DEF Sent, Handled, SentOnce
        <3>4. (\A o : Sent(o, w)' <=> o = "add") /\ SentOnce(w)'
            BY <1>0, <1>3, <2>3, <3>3, Published
        <3>5. ~Coming("remove", w)
            <4>1. \A u \in tasks : u = t \/ u.w # w
                BY <2>3, <3>2 DEF Done
            <4> QED BY <1>0, <3>3, <4>1 DEF Coming, Handled
        <3>6. w \notin active'
            BY <1>0, <2>0, <3>5
        <3>7. OneCommand(w)' /\ InAdd(w)' /\ InRemove(w)' /\ InActivate(w)' /\ InClose(w)' /\ InLoop(w)'
            BY <2>0, <3>2, <3>3, <3>4, <3>6
               DEF OneCommand, InAdd, InRemove, InActivate, InClose, InLoop, Coming
        <3> QED BY <2>0, <3>4, <3>7 DEF Orderly, Pending, Coming
    <2>4. CASE Done(t) /\ dbActive' = dbActive \ {t.w} /\ UNCHANGED channel
        <3>1. \A o : Sent(o, w)' <=> Sent(o, w)
            BY <2>4 DEF Sent
        <3>2. \A o \in {"add", "remove"} : Coming(o, w)' <=> Coming(o, w)
            BY <2>2, <2>4, <3>1 DEF Coming
        <3>3. SentOnce(w)'
            BY <2>4 DEF SentOnce, Orderly, OneCommand
        <3>4. OneCommand(w)' /\ InLoop(w)' /\ InActivate(w)' /\ InClose(w)'
            BY <2>0, <2>2, <2>4, <3>1, <3>3 DEF OneCommand, InLoop, InActivate, InClose, Orderly
        <3>5. \A u \in tasks' : u.w = w => u.op # "add"
            BY <2>0, <2>2, <2>4 DEF Coming, Handled
        <3>6. InAdd(w)' /\ InRemove(w)'
            BY <1>3, <2>0, <2>2, <2>4, <3>2, <3>5 DEF InAdd, InRemove
        <3>7. Pending(w)' \/ Settled(w)'
            BY <1>0, <1>3, <2>0, <2>4, <3>2 DEF Pending, Settled
        <3> QED BY <2>0, <3>4, <3>6, <3>7 DEF Orderly
    <2> QED BY <2>1, <2>3, <2>4 DEF Activate
<1> QED BY <1>2, <1>3

(* What is being removed is not orderly, and the removal touches no other. *)
LEMMA RemovalOrderly ==
    ASSUME LInv, RemoveNext
    PROVE  LeaderIsOrderly'
<1>0. PICK k \in 1..MaxChanges : \E v \in removing[k] :
          /\ \/ /\ removing' = [removing EXCEPT ![k] = @ \ {v}]
                /\ active' = active \ {v} /\ UNCHANGED failed
             \/ /\ v \in active /\ UNCHANGED active
                /\ removing' = [removing EXCEPT ![k] = {}]
                /\ failed' = failed \cup (removing[k] \cap active)
          /\ UNCHANGED <<role, attempt, changes, tracker, dbActive, loop, queued, refused, channel,
                         tasks, commands, raced, timers>>
    BY DEF RemoveNext
<1>1. PICK v \in removing[k] :
          /\ failed \subseteq failed' /\ active \ {v} \subseteq active' /\ active' \subseteq active
          /\ \/ removing' = [removing EXCEPT ![k] = @ \ {v}]
             \/ removing' = [removing EXCEPT ![k] = {}]
          /\ UNCHANGED <<role, attempt, dbActive, loop, queued, refused, channel, tasks, raced>>
    BY <1>0
<1>2. ASSUME NEW w \in Workflows, Orderly(w) PROVE Orderly(w)'
    <2>1. w # v
        BY <1>1, <1>2 DEF Orderly, BeingRemoved
    <2>2. BeingRemoved(w)' => BeingRemoved(w)
        <3>1. removing \in [1..MaxChanges -> SUBSET Workflows]
            BY DEF LInv, IInv, TypeOK
        <3>2. \A j \in 1..MaxChanges : removing'[j] \subseteq removing[j]
            BY <1>1, <3>1
        <3> QED BY <3>2 DEF BeingRemoved
    <2>3. \A op : Sent(op, w)' <=> Sent(op, w)
        BY <1>1 DEF Sent
    <2>4. SentOnce(w)'
        BY <1>1, <1>2 DEF Orderly, OneCommand, SentOnce
    <2> QED BY <1>1, <1>2, <2>1, <2>2, <2>3, <2>4, Untouched
<1> QED BY <1>1, <1>2, OrderlyStep

LEMMA OrderlyNext == LInv /\ [Next]_vars => LeaderIsOrderly'
<1> SUFFICES ASSUME LInv, [Next]_vars PROVE LeaderIsOrderly'
    OBVIOUS
<1>1. ASSUME UNCHANGED <<role, attempt, manager>> PROVE LeaderIsOrderly'
    <2>1. ASSUME NEW w \in Workflows, Orderly(w) PROVE Orderly(w)'
        BY <1>1, <2>1, Untouched DEF manager, Orderly, OneCommand, Sent, SentOnce, BeingRemoved
    <2> QED BY <1>1, <2>1, OrderlyStep DEF manager
<1>2. CASE HandleTask
    <2>1. PICK t \in tasks :
              /\ HandleAdd(t) \/ HandleRemove(t) \/ Activate(t) \/ WriteInactive(t)
              /\ UNCHANGED <<role, attempt, changes, tracker, loop, removing, commands, timers>>
        BY <1>2 DEF HandleTask
    <2> QED BY <2>1, HandlerOrderly, ActivateOrderly
<1>3. CASE Manager
    BY <1>2, <1>3, RemovalOrderly, LoopOrderly, StartOrderly, ReceiveOrderly DEF Manager
<1>4. CASE Tracker \/ RecoveryRuns \/ RecoveryEnds
    BY <1>1, <1>4, TrackerStep DEF LInv, RecoveryRuns, RecoveryEnds
<1>5. CASE UNCHANGED vars
    BY <1>1, <1>5 DEF vars
<1> QED BY <1>3, <1>4, <1>5, RoleOrderly DEF Next

LEMMA InitOrderly == Init => LeaderIsOrderly
<1> SUFFICES ASSUME Init, NEW w \in Workflows PROVE Orderly(w)
    BY DEF Init, LeaderIsOrderly
<1>1. /\ channel = <<>> /\ tasks = {} /\ active = {} /\ ~BeingRemoved(w)
      /\ loop.left = dbActive /\ loop.now # w
    BY LeaderServicesAssumption DEF Init, Idle, BeingRemoved
<1>2. \A o : ~Sent(o, w) /\ ~Handled(o, w) /\ ~Coming(o, w)
    BY <1>1 DEF Sent, Handled, Coming
<1>3. OneCommand(w) /\ InLoop(w) /\ InAdd(w) /\ InRemove(w) /\ InActivate(w) /\ InClose(w)
    BY <1>1, <1>2 DEF OneCommand, SentOnce, InLoop, InAdd, InRemove, InActivate, InClose
<1>4. Pending(w) \/ Settled(w)
    BY <1>1 DEF Pending, Settled
<1> QED BY <1>1, <1>3, <1>4 DEF Orderly

(* For any workflows, commands and errors of triggers, and however the role*)
(* changes: nothing is lost between the activation on takeover, the        *)
(* retries, the commands of users and the rows, unless operations on a     *)
(* workflow overlap, or one throws that the code does not make good.       *)
THEOREM LeaderRunsActiveWorkflowsTheorem == Spec => []LeaderRunsActiveWorkflows
<1>1. Init => LeaderIsOrderly
    BY InitOrderly
<1>2. IInv /\ LeaderIsOrderly /\ [Next]_vars => LeaderIsOrderly'
    BY OrderlyNext DEF LInv
<1>3. IInv /\ LeaderIsOrderly => LeaderRunsActiveWorkflows
    BY BusyIsPending DEF IInv, LeaderIsOrderly, LeaderRunsActiveWorkflows, Orderly, Settled
<1> QED BY <1>1, <1>2, <1>3, Invariant, PTL DEF Spec
=============================================================================
