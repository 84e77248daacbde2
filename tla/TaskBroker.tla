------------------------------ MODULE TaskBroker ------------------------------
(***************************************************************************)
(* The task broker of a main process, its local requester, and the task    *)
(* runners connected over web sockets.  Runners offer what they have room  *)
(* for, the broker matches offers to requests in order, a runner accepts,  *)
(* rejects or defers, and the accepted task gets its settings and in the   *)
(* end an answer.  Everybody keeps timers.                                 *)
(*                                                                         *)
(* The requester lives in the broker's process and is called directly, so  *)
(* the broker and the requester change in one step; messages to and from a *)
(* runner travel in order, and vanish when its connection does.            *)
(***************************************************************************)
EXTENDS Integers, Sequences, FiniteSets

CONSTANTS
    Runners,         \* connections; a runner that restarts is another one
    Launchers,       \* those that launch a runner when offered a task
    Requests,        \* requests for a task, asked once each
    MaxConcurrency,  \* tasks a runner runs at once
    MaxOffers,       \* bound on the offers made over time
    Mode             \* of the task runners: "internal" or "external"

ASSUME RunnersAssumption ==
    /\ Launchers \subseteq Runners
    /\ MaxConcurrency \in Nat \ {0}
    /\ MaxOffers \in Nat
    /\ Mode \in {"internal", "external"}

VARIABLES
    \* TaskBroker
    knownRunners,         \* the runners that are registered
    pendingTaskOffers,    \* Seq of offers [id, runner]
    pendingTaskRequests,  \* Seq(Requests); the same request may be in it twice
    acceptInProgress,     \* requests an offer was accepted for
    matches,              \* Seq of [offer, runner, request]: task t is matches[t]
    accepting,            \* tasks whose acceptOffer awaits the runner
    runnerAcceptRejects,  \* tasks with an entry in that map
    tasks,                \* the tasks map
    requestTimers,        \* requests whose timeout is armed
    taskTimers,           \* tasks whose timeout is armed
    \* TaskRequester
    asked,                \* requestAcceptRejects
    awaited,              \* taskAcceptRejects
    \* TaskRunner
    link,                 \* [Runners -> "new", "up", "closed" or "gone"]
    openOffers,           \* [Runners -> set of offer ids]
    runningTasks,         \* task id -> TaskStatus, for the tasks that run
    runnerTimers,         \* tasks whose timeout in the runner is armed
    offersMade,
    \* web sockets
    toBroker,             \* [Runners -> Seq(message)]
    toRunner              \* [Runners -> Seq(message)]

brokerVars == <<knownRunners, pendingTaskOffers, pendingTaskRequests, acceptInProgress,
                matches, accepting, runnerAcceptRejects, tasks, requestTimers, taskTimers>>
requesterVars == <<asked, awaited>>
runnerVars == <<link, openOffers, runningTasks, runnerTimers, offersMade>>
vars == <<brokerVars, requesterVars, runnerVars, toBroker, toRunner>>
-----------------------------------------------------------------------------
Offer == [id : Nat, runner : Runners]
Match == [offer : Nat, runner : Runners, request : Requests]
TaskStatus == {"waitingForSettings", "running", "aborting:cancelled", "aborting:timeout"}
ToBroker == [type : {"taskoffer", "taskaccepted", "taskrejected", "taskdeferred",
                     "taskdone", "taskerror"}, id : Nat]
ToRunner == [type : {"taskofferaccept", "taskcancel", "tasksettings"}, id : Nat]

Init ==
    /\ knownRunners = {}
    /\ pendingTaskOffers = <<>>
    /\ pendingTaskRequests = <<>>
    /\ acceptInProgress = {}
    /\ matches = <<>>
    /\ accepting = {}
    /\ runnerAcceptRejects = {}
    /\ tasks = {}
    /\ requestTimers = {}
    /\ taskTimers = {}
    /\ asked = {}
    /\ awaited = {}
    /\ link = [r \in Runners |-> "new"]
    /\ openOffers = [r \in Runners |-> {}]
    /\ runningTasks = <<>>
    /\ runnerTimers = {}
    /\ offersMade = 0
    /\ toBroker = [r \in Runners |-> <<>>]
    /\ toRunner = [r \in Runners |-> <<>>]
-----------------------------------------------------------------------------
runnerOf(t) == matches[t].runner
requestOf(t) == matches[t].request

IsIn(x, seq) == \E i \in DOMAIN seq : seq[i] = x

(* splice at the first place of x *)
WithoutFirst(seq, x) ==
    LET at == CHOOSE i \in DOMAIN seq : seq[i] = x /\ \A j \in 1 .. (i - 1) : seq[j] # x
    IN  [j \in 1 .. (Len(seq) - 1) |-> IF j < at THEN seq[j] ELSE seq[j + 1]]

(* The items of seq at the places in S, in their order. *)
Nth(S, k) == CHOOSE i \in S : Cardinality({j \in S : j <= i}) = k
AtPlaces(seq, S) == [k \in 1 .. Cardinality(S) |-> seq[Nth(S, k)]]

(* What is sent over a connection that is no longer open is lost. *)
Sent(channel, r, messages) ==
    IF link[r] = "up" THEN [channel EXCEPT ![r] = @ \o messages] ELSE channel

Message(type, id) == [type |-> type, id |-> id]
Tell(r, type, t) == toRunner' = Sent(toRunner, r, <<Message(type, t)>>)
-----------------------------------------------------------------------------
(* settleTasks, on the lists it finds: expired offers go, and each request *)
(* that no offer is being accepted for gets the next offer, in order.      *)
(* acceptOffer makes the match a task and tells the runner.                *)

(* The places of the requests to serve; one that is there twice counts     *)
(* once, since the first match marks it.                                   *)
Open(requests, busy) ==
    {i \in DOMAIN requests : /\ requests[i] \notin busy
                             /\ \A j \in 1 .. (i - 1) : requests[j] # requests[i]}

Matched(offers, requests, busy) ==
    LET open == Open(requests, busy)
    IN  [k \in 1 .. (IF Cardinality(open) < Len(offers) THEN Cardinality(open)
                     ELSE Len(offers)) |->
            [offer |-> offers[k].id, runner |-> offers[k].runner,
             request |-> requests[Nth(open, k)]]]

Expiring(offers) ==
    {offers[i].id : i \in {j \in DOMAIN offers : offers[j].runner \notin Launchers}}

(* Mutant: the matched offers stay in the list. *)
settleTasksKeepingOffers(offers, requests) ==
    LET new == Matched(offers, requests, acceptInProgress)
        ids == (Len(matches) + 1) .. (Len(matches) + Len(new))
    IN  /\ Len(matches) + Len(new) <= 2 * MaxOffers
        /\ pendingTaskOffers' = offers
        /\ pendingTaskRequests' = requests
        /\ acceptInProgress' = acceptInProgress \cup {new[k].request : k \in DOMAIN new}
        /\ matches' = matches \o new
        /\ accepting' = accepting \cup ids
        /\ runnerAcceptRejects' = runnerAcceptRejects \cup ids
        /\ UNCHANGED toRunner

settleTasks(offers, requests) ==
    \E expired \in SUBSET Expiring(offers) :
        LET valid == AtPlaces(offers, {i \in DOMAIN offers : offers[i].id \notin expired})
            new == Matched(valid, requests, acceptInProgress)
            ids == (Len(matches) + 1) .. (Len(matches) + Len(new))
            told(r) == AtPlaces([k \in DOMAIN new |->
                                    Message("taskofferaccept", Len(matches) + k)],
                                {k \in DOMAIN new : new[k].runner = r})
        IN  /\ pendingTaskOffers' = SubSeq(valid, Len(new) + 1, Len(valid))
            /\ pendingTaskRequests' = requests
            /\ acceptInProgress' = acceptInProgress \cup {new[k].request : k \in DOMAIN new}
            /\ matches' = matches \o new
            /\ accepting' = accepting \cup ids
            /\ runnerAcceptRejects' = runnerAcceptRejects \cup ids
            /\ toRunner' = [r \in Runners |-> Sent(toRunner, r, told(r))[r]]

(* TaskRequester.startTask asks; taskRequested arms the timeout. *)
RequestTask(q) ==
    /\ q \notin asked \cup requestTimers
    /\ ~IsIn(q, pendingTaskRequests)
    /\ \A t \in DOMAIN matches : requestOf(t) # q
    /\ asked' = asked \cup {q}
    /\ requestTimers' = requestTimers \cup {q}
    /\ settleTasks(pendingTaskOffers, Append(pendingTaskRequests, q))
    /\ UNCHANGED <<knownRunners, tasks, taskTimers, awaited, runnerVars, toBroker>>
-----------------------------------------------------------------------------
(* Messages from a runner; onRunnerMessage drops what an unknown one says. *)

taskOffered(r, o) ==
    /\ settleTasks(Append(pendingTaskOffers, [id |-> o, runner |-> r]), pendingTaskRequests)
    /\ UNCHANGED <<knownRunners, tasks, requestTimers, taskTimers, requesterVars>>

(* Mutant: the requester keeps waiting for the id of a task it has. *)
handleRunnerAcceptKeepingAsked(r, t) ==
    /\ runnerAcceptRejects' = runnerAcceptRejects \ {t}
    /\ accepting' = accepting \ {t}
    /\ requestTimers' = requestTimers \ {requestOf(t)}
    /\ tasks' = tasks \cup {t}
    /\ awaited' = awaited \cup {t}
    /\ taskTimers' = taskTimers \cup {t}
    /\ Tell(r, "tasksettings", t)
    /\ UNCHANGED <<knownRunners, pendingTaskOffers, pendingTaskRequests, acceptInProgress,
                   matches, asked>>

(* Mutant: the settings are sent without arming the timeout of the task. *)
handleRunnerAcceptWithoutTimeout(r, t) ==
    /\ t \in accepting /\ requestOf(t) \in asked
    /\ runnerAcceptRejects' = runnerAcceptRejects \ {t}
    /\ accepting' = accepting \ {t}
    /\ requestTimers' = requestTimers \ {requestOf(t)}
    /\ pendingTaskRequests' = WithoutFirst(pendingTaskRequests, requestOf(t))
    /\ tasks' = tasks \cup {t}
    /\ asked' = asked \ {requestOf(t)}
    /\ awaited' = awaited \cup {t}
    /\ Tell(r, "tasksettings", t)
    /\ UNCHANGED <<knownRunners, pendingTaskOffers, acceptInProgress, matches, taskTimers>>

(* The task is registered before its request is looked for.  With the      *)
(* request at hand, the requester gets the task, sends its settings, and   *)
(* sendTaskSettings arms the timeout; a requester that no longer waits for *)
(* the request has the task canceled.                                      *)
handleRunnerAccept(r, t) ==
    LET q == requestOf(t)
        found == IsIn(q, pendingTaskRequests)
    IN  /\ runnerAcceptRejects' = runnerAcceptRejects \ {t}
        /\ accepting' = accepting \ {t}
        /\ IF t \notin accepting
           THEN UNCHANGED <<requestTimers, tasks, pendingTaskRequests, taskTimers,
                            requesterVars, toRunner>>
           ELSE /\ requestTimers' = requestTimers \ {q}
                /\ pendingTaskRequests' = IF found THEN WithoutFirst(pendingTaskRequests, q)
                                          ELSE pendingTaskRequests
                /\ IF found /\ q \in asked
                   THEN /\ tasks' = tasks \cup {t}
                        /\ asked' = asked \ {q}
                        /\ awaited' = awaited \cup {t}
                        /\ taskTimers' = taskTimers \cup {t}
                        /\ Tell(r, "tasksettings", t)
                   ELSE /\ tasks' = IF found THEN tasks ELSE tasks \cup {t}
                        /\ IF found THEN Tell(r, "taskcancel", t) ELSE UNCHANGED toRunner
                        /\ UNCHANGED <<requesterVars, taskTimers>>
        /\ UNCHANGED <<knownRunners, pendingTaskOffers, acceptInProgress, matches>>

(* The request may be served by another offer again. *)
acceptFails(t) ==
    /\ accepting' = accepting \ {t}
    /\ acceptInProgress' = IF t \in accepting THEN acceptInProgress \ {requestOf(t)}
                           ELSE acceptInProgress

handleRunnerReject(t) ==
    /\ runnerAcceptRejects' = runnerAcceptRejects \ {t}
    /\ acceptFails(t)
    /\ UNCHANGED <<knownRunners, pendingTaskOffers, pendingTaskRequests, matches, tasks,
                   requestTimers, taskTimers, requesterVars, toRunner>>

(* Mutant: what is pushed is the task. *)
handleRunnerDeferredPushingTask(t) ==
    /\ acceptFails(t)
    /\ pendingTaskRequests' = Append(pendingTaskRequests, t)
    /\ UNCHANGED <<knownRunners, pendingTaskOffers, matches, tasks, taskTimers,
                   runnerAcceptRejects, requestTimers, requesterVars, toRunner>>

(* The request is pushed once more, though it never left the list. *)
handleRunnerDeferred(t) ==
    /\ runnerAcceptRejects' = runnerAcceptRejects \ {t}
    /\ acceptFails(t)
    /\ IF t \in accepting
       THEN /\ requestTimers' = requestTimers \cup {requestOf(t)}
            /\ pendingTaskRequests' = Append(pendingTaskRequests, requestOf(t))
       ELSE UNCHANGED <<requestTimers, pendingTaskRequests>>
    /\ UNCHANGED <<knownRunners, pendingTaskOffers, matches, tasks, taskTimers,
                   requesterVars, toRunner>>

(* taskDoneHandler and taskErrorHandler: the requester is answered. *)
Answered(t) ==
    /\ tasks' = tasks \ {t}
    /\ taskTimers' = IF t \in tasks THEN taskTimers \ {t} ELSE taskTimers
    /\ awaited' = IF t \in tasks THEN awaited \ {t} ELSE awaited

taskAnswered(t) ==
    /\ Answered(t)
    /\ UNCHANGED <<knownRunners, pendingTaskOffers, pendingTaskRequests, acceptInProgress,
                   matches, accepting, runnerAcceptRejects, requestTimers, asked, toRunner>>

Replies == {"taskaccepted", "taskrejected", "taskdeferred"}
handleReply(r, m) ==
    \/ m.type = "taskaccepted" /\ handleRunnerAccept(r, m.id)
    \/ m.type = "taskrejected" /\ handleRunnerReject(m.id)
    \/ m.type = "taskdeferred" /\ handleRunnerDeferred(m.id)

onRunnerMessage(r) ==
    /\ toBroker[r] # <<>>
    /\ toBroker' = [toBroker EXCEPT ![r] = Tail(@)]
    /\ LET m == Head(toBroker[r])
       IN  IF r \notin knownRunners
           THEN UNCHANGED <<brokerVars, requesterVars, toRunner>>
           ELSE \/ m.type = "taskoffer" /\ taskOffered(r, m.id)
                \/ m.type \in {"taskdone", "taskerror"} /\ taskAnswered(m.id)
                \/ m.type \in Replies /\ IF m.id \in runnerAcceptRejects
                                         THEN handleReply(r, m)
                                         ELSE UNCHANGED <<brokerVars, requesterVars, toRunner>>
    /\ UNCHANGED runnerVars
-----------------------------------------------------------------------------
(* Timers of the broker *)

(* handleRequestTimeout: the requester is told that its request expired. *)
RequestTimeout(q) ==
    /\ q \in requestTimers
    /\ requestTimers' = requestTimers \ {q}
    /\ IF IsIn(q, pendingTaskRequests)
       THEN /\ pendingTaskRequests' = WithoutFirst(pendingTaskRequests, q)
            /\ asked' = asked \ {q}
       ELSE UNCHANGED <<pendingTaskRequests, asked>>
    /\ UNCHANGED <<knownRunners, pendingTaskOffers, acceptInProgress, matches, accepting,
                   runnerAcceptRejects, tasks, taskTimers, awaited, runnerVars, toBroker,
                   toRunner>>

(* Two seconds without an answer from the runner. *)
AcceptTimeout(t) ==
    /\ t \in accepting
    /\ acceptFails(t)
    /\ UNCHANGED <<knownRunners, pendingTaskOffers, pendingTaskRequests, matches,
                   runnerAcceptRejects, tasks, requestTimers, taskTimers, requesterVars,
                   runnerVars, toBroker, toRunner>>

(* handleTaskTimeout *)
TaskTimeout(t) ==
    /\ t \in taskTimers
    /\ taskTimers' = taskTimers \ {t}
    /\ tasks' = tasks \ {t}
    /\ awaited' = IF t \in tasks THEN awaited \ {t} ELSE awaited
    /\ IF t \in tasks /\ Mode = "external" /\ runnerOf(t) \in knownRunners
       THEN Tell(runnerOf(t), "taskcancel", t)
       ELSE UNCHANGED toRunner
    /\ UNCHANGED <<knownRunners, pendingTaskOffers, pendingTaskRequests, acceptInProgress,
                   matches, accepting, runnerAcceptRejects, requestTimers, asked, runnerVars,
                   toBroker>>
-----------------------------------------------------------------------------
(* TaskRequester.cancelTasks: the execution of the task was canceled. The  *)
(* broker's cancelTask leaves the task's timeout armed.                    *)
CancelTask(t) ==
    /\ t \in awaited
    /\ awaited' = awaited \ {t}
    /\ tasks' = tasks \ {t}
    /\ IF t \in tasks THEN Tell(runnerOf(t), "taskcancel", t) ELSE UNCHANGED toRunner
    /\ UNCHANGED <<knownRunners, pendingTaskOffers, pendingTaskRequests, acceptInProgress,
                   matches, accepting, runnerAcceptRejects, requestTimers, taskTimers, asked,
                   runnerVars, toBroker>>
-----------------------------------------------------------------------------
(* Connections *)

Connect(r) ==
    /\ link[r] = "new"
    /\ link' = [link EXCEPT ![r] = "up"]
    /\ knownRunners' = knownRunners \cup {r}
    /\ UNCHANGED <<pendingTaskOffers, pendingTaskRequests, acceptInProgress, matches,
                   accepting, runnerAcceptRejects, tasks, requestTimers, taskTimers,
                   requesterVars, openOffers, runningTasks, runnerTimers, offersMade,
                   toBroker, toRunner>>

TasksOf(r) == {t \in DOMAIN runningTasks : runnerOf(t) = r}
Without(statuses, gone) == [t \in DOMAIN statuses \ gone |-> statuses[t]]

(* The runner or its connection dies: what it sent last may be lost. *)
Close(r) ==
    /\ link[r] = "up"
    /\ link' = [link EXCEPT ![r] = "closed"]
    /\ openOffers' = [openOffers EXCEPT ![r] = {}]
    /\ runningTasks' = Without(runningTasks, TasksOf(r))
    /\ runnerTimers' = runnerTimers \ TasksOf(r)
    /\ \E n \in 0 .. Len(toBroker[r]) :
          toBroker' = [toBroker EXCEPT ![r] = SubSeq(@, 1, n)]
    /\ toRunner' = [toRunner EXCEPT ![r] = <<>>]
    /\ UNCHANGED <<brokerVars, requesterVars, offersMade>>

OffersOfOthers(r) ==
    AtPlaces(pendingTaskOffers,
             {i \in DOMAIN pendingTaskOffers : pendingTaskOffers[i].runner # r})

(* Mutant: the tasks of the runner do not fail. *)
DeregisterKeepingTasks(r) ==
    /\ link[r] = "closed"
    /\ link' = [link EXCEPT ![r] = "gone"]
    /\ knownRunners' = knownRunners \ {r}
    /\ pendingTaskOffers' = OffersOfOthers(r)
    /\ toBroker' = [toBroker EXCEPT ![r] = <<>>]
    /\ UNCHANGED <<pendingTaskRequests, acceptInProgress, matches, accepting,
                   runnerAcceptRejects, tasks, requestTimers, taskTimers, requesterVars,
                   openOffers, runningTasks, runnerTimers, offersMade, toRunner>>

(* deregisterRunner: offers are dropped and tasks fail.  An accept that is *)
(* in progress is not rejected, since its task is not in the map yet.      *)
Deregister(r) ==
    LET failed == {t \in tasks : runnerOf(t) = r}
    IN  /\ link[r] = "closed"
        /\ link' = [link EXCEPT ![r] = "gone"]
        /\ knownRunners' = knownRunners \ {r}
        /\ pendingTaskOffers' = OffersOfOthers(r)
        /\ tasks' = tasks \ failed
        /\ awaited' = awaited \ failed
        /\ toBroker' = [toBroker EXCEPT ![r] = <<>>]
        /\ UNCHANGED <<pendingTaskRequests, acceptInProgress, matches, accepting,
                       runnerAcceptRejects, requestTimers, taskTimers, asked, openOffers,
                       runningTasks, runnerTimers, offersMade, toRunner>>
-----------------------------------------------------------------------------
(* TaskRunner *)

(* Mutant: the tasks that run are not counted. *)
sendOffersIgnoringTasks(r, open, running, sent) ==
    LET n == IF MaxConcurrency - Cardinality(open) > MaxOffers - offersMade
             THEN MaxOffers - offersMade ELSE MaxConcurrency - Cardinality(open)
    IN  /\ openOffers' = [openOffers EXCEPT ![r] =
                             open \cup (offersMade + 1) .. (offersMade + n)]
        /\ offersMade' = IF n > 0 THEN offersMade + n ELSE offersMade
        /\ toBroker' = [toBroker EXCEPT ![r] =
                           @ \o sent \o [i \in 1 .. n |->
                                             Message("taskoffer", offersMade + i)]]

(* sendOffers tops up the offers that are open and not stale, after what   *)
(* was sent before it.                                                     *)
sendOffers(r, open, running, sent) ==
    \E stale \in SUBSET open :
        LET room == MaxConcurrency - (Cardinality(open \ stale) + Cardinality(running))
            n == IF room > MaxOffers - offersMade THEN MaxOffers - offersMade ELSE room
        IN  /\ openOffers' = [openOffers EXCEPT ![r] =
                                 (open \ stale) \cup (offersMade + 1) .. (offersMade + n)]
            /\ offersMade' = IF n > 0 THEN offersMade + n ELSE offersMade
            /\ toBroker' = [toBroker EXCEPT ![r] =
                               @ \o sent \o [i \in 1 .. n |->
                                                 Message("taskoffer", offersMade + i)]]

(* The interval of 250 ms. *)
SendOffers(r) ==
    /\ link[r] = "up"
    /\ r \notin Launchers
    /\ sendOffers(r, openOffers[r], TasksOf(r), <<>>)
    /\ UNCHANGED <<brokerVars, requesterVars, link, runningTasks, runnerTimers, toRunner>>

Running(t) == t \in DOMAIN runningTasks

finishTask(t, sent) ==
    LET r == runnerOf(t)
    IN  /\ runningTasks' = Without(runningTasks, {t})
        /\ runnerTimers' = runnerTimers \ {t}
        /\ sendOffers(r, openOffers[r], TasksOf(r) \ {t}, sent)
        /\ UNCHANGED link

Reply(r, type, t) == toBroker' = [toBroker EXCEPT ![r] = Append(@, Message(type, t))]

(* Mutant: the task is running before its settings are there. *)
offerAcceptedRunning(r, t) ==
    /\ openOffers' = [openOffers EXCEPT ![r] = @ \ {matches[t].offer}]
    /\ runningTasks' = [s \in DOMAIN runningTasks \cup {t} |->
                           IF s = t THEN "running" ELSE runningTasks[s]]
    /\ runnerTimers' = runnerTimers \cup {t}
    /\ Reply(r, "taskaccepted", t)
    /\ UNCHANGED <<link, offersMade>>

offerAccepted(r, t) ==
    LET o == matches[t].offer
    IN  /\ openOffers' = [openOffers EXCEPT ![r] = @ \ {o}]
        /\ IF Cardinality(TasksOf(r)) < MaxConcurrency /\ o \in openOffers[r]
           THEN /\ runningTasks' = [s \in DOMAIN runningTasks \cup {t} |->
                                       IF s = t THEN "waitingForSettings" ELSE runningTasks[s]]
                /\ runnerTimers' = runnerTimers \cup {t}
                /\ Reply(r, "taskaccepted", t)
           ELSE /\ Reply(r, "taskrejected", t)
                /\ UNCHANGED <<runningTasks, runnerTimers>>
        /\ UNCHANGED <<link, offersMade>>

(* A launcher defers: it only starts the runner that will make the offer. *)
offerDeferred(r, t) ==
    /\ openOffers' = [openOffers EXCEPT ![r] = {}]
    /\ Reply(r, "taskdeferred", t)
    /\ UNCHANGED <<link, runningTasks, runnerTimers, offersMade>>

SetStatus(t, status) ==
    /\ runningTasks' = [runningTasks EXCEPT ![t] = status]
    /\ UNCHANGED <<link, openOffers, runnerTimers, offersMade, toBroker>>

taskCancelled(t) ==
    \/ Running(t) /\ runningTasks[t] = "waitingForSettings" /\ finishTask(t, <<>>)
    \/ Running(t) /\ runningTasks[t] = "running" /\ SetStatus(t, "aborting:cancelled")
    \/ /\ Running(t) => runningTasks[t] \in {"aborting:cancelled", "aborting:timeout"}
       /\ UNCHANGED <<runnerVars, toBroker>>

(* In any other status receivedSettings throws and leaves it. *)
receivedSettings(t) ==
    IF Running(t) /\ runningTasks[t] = "waitingForSettings"
    THEN SetStatus(t, "running")
    ELSE UNCHANGED <<runnerVars, toBroker>>

onMessage(r) ==
    /\ toRunner[r] # <<>>
    /\ toRunner' = [toRunner EXCEPT ![r] = Tail(@)]
    /\ LET m == Head(toRunner[r])
       IN  \/ m.type = "taskofferaccept" /\ r \notin Launchers /\ offerAccepted(r, m.id)
           \/ m.type = "taskofferaccept" /\ r \in Launchers /\ offerDeferred(r, m.id)
           \/ m.type = "taskcancel" /\ taskCancelled(m.id)
           \/ m.type = "tasksettings" /\ receivedSettings(m.id)
    /\ UNCHANGED <<brokerVars, requesterVars>>

(* The offer of a launcher does not expire. *)
OfferToLaunch(r) ==
    /\ link[r] = "up"
    /\ r \in Launchers
    /\ openOffers[r] = {}
    /\ offersMade < MaxOffers
    /\ offersMade' = offersMade + 1
    /\ openOffers' = [openOffers EXCEPT ![r] = {offersMade + 1}]
    /\ Reply(r, "taskoffer", offersMade + 1)
    /\ UNCHANGED <<brokerVars, requesterVars, link, runningTasks, runnerTimers, toRunner>>

(* taskTimedOut *)
RunnerTimeout(t) ==
    /\ t \in runnerTimers
    /\ \/ /\ runningTasks[t] = "waitingForSettings"
          /\ finishTask(t, <<Message("taskerror", t)>>)
       \/ /\ runningTasks[t] # "waitingForSettings"
          /\ runnerTimers' = runnerTimers \ {t}
          /\ runningTasks' = [runningTasks EXCEPT ![t] =
                                 IF @ = "running" THEN "aborting:timeout" ELSE @]
          /\ UNCHANGED <<link, openOffers, offersMade, toBroker>>
    /\ UNCHANGED <<brokerVars, requesterVars, toRunner>>

(* taskExecutionSucceeded and taskExecutionFailed: a canceled task is not  *)
(* reported.                                                               *)
ExecutionEnds(t) ==
    /\ Running(t)
    /\ runningTasks[t] # "waitingForSettings"
    /\ \E answer \in {"taskdone", "taskerror"} :
          finishTask(t, IF runningTasks[t] = "aborting:cancelled" THEN <<>>
                        ELSE <<Message(answer, t)>>)
    /\ UNCHANGED <<brokerVars, requesterVars, toRunner>>
-----------------------------------------------------------------------------
Next ==
    \/ \E q \in Requests : RequestTask(q) \/ RequestTimeout(q)
    \/ \E r \in Runners :
          \/ Connect(r) \/ Close(r) \/ Deregister(r)
          \/ onRunnerMessage(r) \/ onMessage(r) \/ SendOffers(r) \/ OfferToLaunch(r)
    \/ \E t \in DOMAIN matches :
          \/ AcceptTimeout(t) \/ TaskTimeout(t) \/ CancelTask(t)
          \/ RunnerTimeout(t) \/ ExecutionEnds(t)

Spec == Init /\ [][Next]_vars

(* Messages that arrive are handled, timers fire, and the broker notices   *)
(* that a connection has closed.  Nothing obliges runners to connect, to   *)
(* make offers, or to finish a task.                                       *)
Fairness ==
    /\ \A q \in Requests : WF_vars(RequestTimeout(q))
    /\ \A r \in Runners :
          WF_vars(onRunnerMessage(r)) /\ WF_vars(onMessage(r)) /\ WF_vars(Deregister(r))
    /\ \A t \in 1 .. MaxOffers :
          /\ WF_vars(t \in DOMAIN matches /\ AcceptTimeout(t))
          /\ WF_vars(t \in DOMAIN matches /\ TaskTimeout(t))

LiveSpec == Spec /\ Fairness
-----------------------------------------------------------------------------
TypeOK ==
    LET ids == DOMAIN matches
    IN  /\ knownRunners \subseteq Runners
        /\ pendingTaskOffers \in Seq(Offer)
        /\ pendingTaskRequests \in Seq(Requests)
        /\ acceptInProgress \subseteq Requests
        /\ matches \in Seq(Match)
        /\ \A set \in {accepting, runnerAcceptRejects, tasks, taskTimers, awaited,
                        runnerTimers} : set \subseteq ids
        /\ requestTimers \subseteq Requests
        /\ asked \subseteq Requests
        /\ link \in [Runners -> {"new", "up", "closed", "gone"}]
        /\ openOffers \in [Runners -> SUBSET (1 .. MaxOffers)]
        /\ DOMAIN runningTasks \subseteq ids
        /\ \A t \in DOMAIN runningTasks : runningTasks[t] \in TaskStatus
        /\ offersMade \in 0 .. MaxOffers
        /\ toBroker \in [Runners -> Seq(ToBroker)]
        /\ toRunner \in [Runners -> Seq(ToRunner)]

(* An offer is good for one task: neither settleTasks nor the copy a late  *)
(* or a second match works on uses it again.                               *)
OfferUsedOnce ==
    /\ \A t, u \in DOMAIN matches : matches[t].offer = matches[u].offer => t = u
    /\ \A i \in DOMAIN pendingTaskOffers :
          \A t \in DOMAIN matches : matches[t].offer # pendingTaskOffers[i].id

(* A node that waits for a task id can still get one or be told that its   *)
(* request expired, whatever became of the offers accepted for it; and one *)
(* that waits for a result is owed it: the broker has its task, for a      *)
(* runner it knows, and has armed the timeout of last resort.              *)
WaitersAreTracked ==
    /\ asked \subseteq requestTimers
    /\ \A q \in asked : IsIn(q, pendingTaskRequests)
    /\ \A t \in awaited : t \in tasks \cap taskTimers /\ runnerOf(t) \in knownRunners

(* A node never runs its code twice: one request, one task. *)
OneTaskPerRequest ==
    /\ \A t, u \in awaited : requestOf(t) = requestOf(u) => t = u
    /\ \A t \in awaited : requestOf(t) \notin asked

(* What a runner has promised and what it runs never exceed its room. *)
OffersWithinCapacity ==
    \A r \in Runners :
        Cardinality(openOffers[r]) + Cardinality(TasksOf(r)) <= MaxConcurrency

(* "These states should never happen": settings reach a task that waits    *)
(* for them or that has left the runner.                                   *)
SettingsFindTaskWaiting ==
    \A r \in Runners :
        toRunner[r] # <<>> /\ Head(toRunner[r]).type = "tasksettings" =>
            LET t == Head(toRunner[r]).id
            IN  Running(t) => runningTasks[t] = "waitingForSettings"

(* A runner that accepts finds its request: no task is left in the map     *)
(* that nobody waits for.                                                  *)
AcceptedTaskHasRequester == tasks \subseteq awaited

(* Whoever asks for a task gets one or learns that the request expired, and*)
(* whoever waits for a result gets one or an error, even if the runner dies*)
(* or never finishes.                                                      *)
WaitersAreAnswered ==
    /\ \A q \in Requests : q \in asked ~> q \notin asked
    /\ \A t \in 1 .. MaxOffers : t \in awaited ~> t \notin awaited
=============================================================================
