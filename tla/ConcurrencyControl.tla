------------------------- MODULE ConcurrencyControl -------------------------
(***************************************************************************)
(* ConcurrencyControlService and its ConcurrencyQueues: how regular mode   *)
(* throttles production and evaluation executions.  A queue is one signed  *)
(* integer, its capacity, and a list of the promises of throttled run      *)
(* calls: below zero, the capacity counts what waits beyond the limit.     *)
(*                                                                         *)
(* `holders` is a history variable: the calls each queue has let through   *)
(* and that have not released since.  The code keeps no such set, which is *)
(* why the claims about it are worth checking.                             *)
(***************************************************************************)
EXTENDS Integers, Sequences, FiniteSets

CONSTANTS
    Calls,            \* calls of WorkflowRunner.run, one promise each
    Executions,       \* execution ids
    productionLimit,  \* N8N_CONCURRENCY_PRODUCTION_LIMIT
    evaluationLimit   \* N8N_CONCURRENCY_EVALUATION_LIMIT

(* The constructor throws on a limit of 0 and reads any negative limit as  *)
(* unlimited; a call is never more than one promise.                       *)
ASSUME LimitAssumption ==
    /\ productionLimit \in Int \ {0}
    /\ evaluationLimit \in Int \ {0}
ASSUME FiniteCalls == IsFiniteSet(Calls)

VARIABLES
    isEnabled,  \* concurrency control is on in this process
    capacity,   \* [QueueTypes -> Int]
    queue,      \* [QueueTypes -> Seq(Item)], the throttled promises in order
    holders     \* [QueueTypes -> SUBSET Calls], history

ccVars == <<isEnabled, capacity, queue, holders>>
-----------------------------------------------------------------------------
(* A queue exists for each type whose limit is positive. *)
limits == [t \in {"production", "evaluation"} |->
              IF t = "production" THEN productionLimit ELSE evaluationLimit]
QueueTypes == {t \in {"production", "evaluation"} : limits[t] > 0}

Item == [executionId : Executions, call : Calls]

UnlimitedModes == {"error", "integrated", "cli", "internal", "manual", "retry"}
ProductionModes == {"webhook", "trigger", "chat"}
Modes == UnlimitedModes \cup ProductionModes \cup {"evaluation"}

(* The types of queue a mode is throttled by: none or one. *)
getQueue(mode) ==
    {t \in QueueTypes : \/ t = "production" /\ mode \in ProductionModes
                        \/ t = "evaluation" /\ mode = "evaluation"}

isUnlimited(mode) == getQueue(mode) = {}

InitCC ==
    /\ isEnabled = (QueueTypes # {})
    /\ capacity = [t \in QueueTypes |-> limits[t]]
    /\ queue = [t \in QueueTypes |-> <<>>]
    /\ holders = [t \in QueueTypes |-> {}]
-----------------------------------------------------------------------------
(* resolveNext: the promise at the head of the line resolves. *)
Resolved(line) == IF line = <<>> THEN {} ELSE {Head(line).call}
Shifted(line) == IF line = <<>> THEN <<>> ELSE Tail(line)

(* Mutant: the line holds execution ids. *)
enqueuePushingId(t, item) ==
    /\ capacity' = [capacity EXCEPT ![t] = @ - 1]
    /\ IF capacity[t] - 1 < 0
       THEN /\ queue' = [queue EXCEPT ![t] = Append(@, item.executionId)]
            /\ UNCHANGED holders
       ELSE /\ holders' = [holders EXCEPT ![t] = @ \cup {item.call}]
            /\ UNCHANGED queue
    /\ UNCHANGED isEnabled

(* Mutant: off by one, one call too many is let through. *)
enqueueOneMore(t, item) ==
    /\ capacity' = [capacity EXCEPT ![t] = @ - 1]
    /\ IF capacity[t] < 0
       THEN /\ queue' = [queue EXCEPT ![t] = Append(@, item)]
            /\ UNCHANGED holders
       ELSE /\ holders' = [holders EXCEPT ![t] = @ \cup {item.call}]
            /\ UNCHANGED queue
    /\ UNCHANGED isEnabled

enqueue(t, item) ==
    /\ capacity' = [capacity EXCEPT ![t] = @ - 1]
    /\ IF capacity[t] - 1 < 0
       THEN /\ queue' = [queue EXCEPT ![t] = Append(@, item)]
            /\ UNCHANGED holders
       ELSE /\ holders' = [holders EXCEPT ![t] = @ \cup {item.call}]
            /\ UNCHANGED queue
    /\ UNCHANGED isEnabled

(* Mutant: nobody is let through. *)
dequeueWithoutResolving(t, call) ==
    /\ capacity' = [capacity EXCEPT ![t] = @ + 1]
    /\ holders' = [holders EXCEPT ![t] = @ \ {call}]
    /\ UNCHANGED <<isEnabled, queue>>

dequeue(t, call) ==
    /\ capacity' = [capacity EXCEPT ![t] = @ + 1]
    /\ holders' = [holders EXCEPT ![t] = (@ \ {call}) \cup Resolved(queue[t])]
    /\ queue' = [queue EXCEPT ![t] = Shifted(@)]
    /\ UNCHANGED isEnabled

(* splice(i, 1) *)
WithoutItem(line, i) ==
    [j \in 1 .. (Len(line) - 1) |-> IF j < i THEN line[j] ELSE line[j + 1]]

(* findIndex: the place of the first queued promise of an execution. *)
FirstPlaces(line, executionId) ==
    {i \in DOMAIN line : /\ line[i].executionId = executionId
                         /\ \A j \in 1 .. (i - 1) : line[j].executionId # executionId}

(* Mutant: the capacity the removed promise had taken is not given back. *)
RemovePlaceKeepingCapacity(t, i) ==
    LET rest == WithoutItem(queue[t], i)
    IN  /\ queue' = [queue EXCEPT ![t] = Shifted(rest)]
        /\ holders' = [holders EXCEPT ![t] = @ \cup Resolved(rest)]
        /\ UNCHANGED <<isEnabled, capacity>>

(* The removed promise never resolves; the next one in line does, since    *)
(* remove ends like dequeue.                                               *)
RemovePlace(t, i) ==
    LET rest == WithoutItem(queue[t], i)
    IN  /\ capacity' = [capacity EXCEPT ![t] = @ + 1]
        /\ queue' = [queue EXCEPT ![t] = Shifted(rest)]
        /\ holders' = [holders EXCEPT ![t] = @ \cup Resolved(rest)]
        /\ UNCHANGED isEnabled

removeFrom(t, executionId) ==
    IF FirstPlaces(queue[t], executionId) = {}
    THEN UNCHANGED ccVars
    ELSE \E i \in FirstPlaces(queue[t], executionId) : RemovePlace(t, i)
-----------------------------------------------------------------------------
(* ConcurrencyControlService *)
has(executionId) ==
    isEnabled /\ \E t \in QueueTypes :
                    \E i \in DOMAIN queue[t] : queue[t][i].executionId = executionId

(* TRUE when throttle returns to its caller without waiting. *)
LetsThrough(mode) ==
    ~isEnabled \/ \A t \in getQueue(mode) : capacity[t] > 0

throttle(mode, item) ==
    IF ~isEnabled \/ isUnlimited(mode)
    THEN UNCHANGED ccVars
    ELSE \E t \in getQueue(mode) : enqueue(t, item)

release(mode, call) ==
    IF ~isEnabled \/ isUnlimited(mode)
    THEN UNCHANGED ccVars
    ELSE \E t \in getQueue(mode) : dequeue(t, call)

remove(mode, executionId) ==
    IF ~isEnabled \/ isUnlimited(mode)
    THEN UNCHANGED ccVars
    ELSE \E t \in getQueue(mode) : removeFrom(t, executionId)

disable ==
    /\ isEnabled' = FALSE
    /\ UNCHANGED <<capacity, queue, holders>>

(* A new process starts. *)
restart ==
    /\ isEnabled' = (QueueTypes # {})
    /\ capacity' = [t \in QueueTypes |-> limits[t]]
    /\ queue' = [t \in QueueTypes |-> <<>>]
    /\ holders' = [t \in QueueTypes |-> {}]
-----------------------------------------------------------------------------
(* The service by itself, used as ActiveExecutions uses it: a call asks    *)
(* once and releases only a slot it was given.                             *)
Queued(t, call) == \E i \in DOMAIN queue[t] : queue[t][i].call = call

Throttle(call, executionId, mode) ==
    /\ \A t \in getQueue(mode) : call \notin holders[t] /\ ~Queued(t, call)
    /\ throttle(mode, [executionId |-> executionId, call |-> call])

Release(call, mode) ==
    /\ \A t \in getQueue(mode) : call \in holders[t]
    /\ release(mode, call)

Remove(executionId, mode) == remove(mode, executionId)

NextCC ==
    \/ \E call \in Calls, e \in Executions, mode \in Modes : Throttle(call, e, mode)
    \/ \E call \in Calls, mode \in Modes : Release(call, mode)
    \/ \E e \in Executions, mode \in Modes : Remove(e, mode)
    \/ disable
    \/ restart

SpecCC == InitCC /\ [][NextCC]_ccVars
-----------------------------------------------------------------------------
CCTypeOK ==
    /\ isEnabled \in BOOLEAN
    /\ capacity \in [QueueTypes -> Int]
    /\ queue \in [QueueTypes -> Seq(Item)]
    /\ holders \in [QueueTypes -> SUBSET Calls]

(* The counter tells the truth: what it is short of the limit is exactly   *)
(* what holds a slot plus what waits (ConcurrencyQueue's capacity against  *)
(* its queue, over every interleaving of throttle, release and remove).    *)
CapacityAccounts ==
    \A t \in QueueTypes :
        capacity[t] = limits[t] - Cardinality(holders[t]) - Len(queue[t])

(* Nobody waits while a slot is free: enqueue throttles only below zero    *)
(* and every exit resolves the next promise in line.                       *)
NoIdleSlotWhileThrottled ==
    \A t \in QueueTypes :
        queue[t] # <<>> => Cardinality(holders[t]) >= limits[t]

(* A promise is in one place: a waiting call holds no slot and waits once, *)
(* so resolveNext never resolves a call twice or lets one through again.   *)
NoPromiseTwice ==
    \A t \in QueueTypes :
        /\ \A i \in DOMAIN queue[t] : queue[t][i].call \notin holders[t]
        /\ \A i, j \in DOMAIN queue[t] :
              queue[t][i].call = queue[t][j].call => i = j

(* The limit the configuration documents: "Max production executions       *)
(* allowed to run concurrently."                                           *)
AtMostLimitRunning ==
    \A t \in QueueTypes : Cardinality(holders[t]) <= limits[t]

(* The counter implements the slots. *)
Slots == INSTANCE ConcurrencyLimit WITH
            slots <- [t \in QueueTypes |-> limits[t]],
            open <- isEnabled,
            waiting <- queue

(* Every step of the counter is a step of the slots or a stutter. *)
ImplementsSlots == Slots!Spec
=============================================================================
