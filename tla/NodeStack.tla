------------------------------ MODULE NodeStack -------------------------------
(***************************************************************************)
(* The run loop of the workflow engine (WorkflowExecute), for the          *)
(* execution order v1: the stack of nodes to run, the data that waits for  *)
(* the other inputs of a node, and what the outcome of each node does to   *)
(* both; cancellation, the timeout, waiting, resuming and retrying.        *)
(*                                                                         *)
(* A datum stands for the items of one output of one run, and is known by  *)
(* where it came from.  Inputs and outputs are counted from 1.  The rank   *)
(* of a node is its position, from the top left to the bottom right.       *)
(*                                                                         *)
(* One action is one stretch without an await.  The row is written by      *)
(* hooks beside the loop, and a resumption or a retry starts from the row. *)
(***************************************************************************)
EXTENDS Naturals, Sequences, FiniteSets, SequencesExt

CONSTANTS
    Nodes, Outputs, Inputs,
    Graphs,       \* the workflows
    MaxRuns,      \* bound on the runs of a node
    MaxRestarts,  \* bound on the times the execution is resumed or retried
    Missing, None

VARIABLES
    graph,       \* a workflow, with the destination node of the run
    parents,     \* getParentNodes of each node
    children,    \* the connections from each node, as they are added
    stack,       \* nodeExecutionStack, a sequence of Item
    waiting,     \* waitingExecution: the entries of each node, by their index
    keys,        \* its keys, the nodes with entries, in their order
    current,     \* the item whose node is run, or None
    runs,        \* [Nodes -> Seq], the statuses in runData
    last,        \* lastNodeExecuted
    phase,
    status,
    error,       \* executionError is set
    waitTill,    \* waitTill is set
    aborted,     \* abortController has been aborted
    reports,     \* statuses workflowExecuteAfter was run with
    \* bounds, history
    restarts,
    made,        \* runs of each node that made data
    arrived,     \* data that was passed to an input, in that order
    spent,       \* items whose node has run, or that the filter dropped
    dropped,     \* data that was overwritten: [to, input, datum]
    forgotten,   \* items that were off the stack when the row was written
    unchecked,   \* the last node passed over the check of what waits
    late         \* canceled while workflowExecuteAfter was run

config == <<graph, parents, children>>
data == <<waiting, keys, arrived, dropped>>
frame == <<stack, data>>
result == <<runs, last, made, spent>>
past == <<restarts, forgotten>>
ending == <<aborted, reports, late>>
vars == <<config, frame, result, ending, current, phase, status, error, waitTill, past,
          unchecked>>
-----------------------------------------------------------------------------
Empty == <<>> \* no items
Made == [from : Nodes, run : Nat, output : Outputs]
Start == [from |-> None, run |-> 0, output |-> 0]
Datum == Made \cup {Start}
Edge == [from : Nodes, output : Outputs, to : Nodes, input : Inputs]
IsItem(x) == \E k \in Inputs :
    x \in [node : Nodes, disabled : BOOLEAN, main : [1 .. k -> Datum \cup {Empty}]]

(* needsAll: nodes whose requiredInputs are all; continues: those with an  *)
(* onError that goes on; waits: those of a type that may put the execution *)
(* to wait.  No two nodes lie at the same place.                           *)
IsGraph(g) ==
    /\ g.start \in Nodes /\ g.destination \in Nodes \cup {None}
    /\ g.edges \subseteq Edge /\ IsFiniteSet(g.edges)
    /\ g.rank \in [Nodes -> Nat] /\ IsInjective(g.rank)
    /\ g.needsAll \cup g.continues \cup g.waits \subseteq Nodes

ASSUME NodeStackAssumption ==
    /\ IsFiniteSet(Nodes) /\ None \notin Nodes /\ ~IsItem(None)
    /\ Outputs \subseteq Nat
    /\ IsFiniteSet(Inputs) /\ Inputs = 1 .. Cardinality(Inputs) /\ 1 \in Inputs
    /\ \A g \in Graphs : IsGraph(g)
    /\ Missing \notin Datum \cup {Empty}
    /\ MaxRuns \in Nat /\ MaxRestarts \in Nat

numberOfInputs(n) ==
    LET into == {e.input : e \in {f \in graph.edges : f.to = n}}
    IN  IF into = {} THEN 0 ELSE Max(into)

(* What waits lacks an input, and the keys are those of what waits.        *)
IsEntry(n, x) == x \in [1 .. numberOfInputs(n) -> Made \cup {Missing}] /\ Missing \in Range(x)

IsWaiting(entries, nodes) ==
    /\ DOMAIN entries = Nodes
    /\ \A n \in Nodes :
          /\ IsFiniteSet(DOMAIN entries[n]) /\ DOMAIN entries[n] \subseteq Nat
          /\ \A index \in DOMAIN entries[n] : IsEntry(n, entries[n][index])
    /\ nodes \in Seq(Nodes) /\ IsInjective(nodes)
    /\ Range(nodes) = {n \in Nodes : DOMAIN entries[n] # {}}

TypeOK ==
    /\ graph \in Graphs
    /\ stack \in Seq(Range(stack)) /\ \A x \in Range(stack) \cup spent \cup forgotten : IsItem(x)
    /\ current = None \/ IsItem(current)
    /\ IsWaiting(waiting, keys)
    /\ arrived \in [Nodes -> [Inputs -> Seq(Made)]]
    /\ dropped \subseteq [to : Nodes, input : Inputs, datum : Made]
    /\ runs \in [Nodes -> Seq({"success", "error", "waiting"})]
    /\ last \in Nodes \cup {None}
    /\ phase \in {"loop", "node", "added", "putting", "ending", "closing", "reporting", "ended"}
    /\ (phase \in {"node", "putting"}) = (current # None)
    /\ status \in {"running", "canceled", "error", "waiting", "success"}
    /\ error \in BOOLEAN /\ waitTill \in BOOLEAN /\ aborted \in BOOLEAN
    /\ reports \in Seq({"canceled", "error", "waiting", "success"})
    /\ restarts \in 0..MaxRestarts /\ made \in [Nodes -> 0..MaxRuns]
    /\ unchecked \in BOOLEAN /\ late \in BOOLEAN

(* The ancestors of each node, itself left out (getConnectedNodes): in    *)
(* every set that has its parents and the parents of its own.              *)
Above(g, S) == {e.from : e \in {f \in g.edges : f.to \in S}}
getParentNodes(g) ==
    [n \in Nodes |-> {m \in Nodes \ {n} :
        \A S \in SUBSET Nodes : Above(g, S \cup {n}) \subseteq S => m \in S}]

(* The connections to the top left node come last, and so get their node to*)
(* the top of the stack.                                                   *)
Before(g, a, b) == \/ g.rank[a.to] > g.rank[b.to]
                   \/ a.to = b.to /\ a.output < b.output
                   \/ a.to = b.to /\ a.output = b.output /\ a.input < b.input
nodesToAdd(g) ==
    LET out(n) == {e \in g.edges : e.from = n}
        position(e) == Cardinality({a \in out(e.from) : Before(g, a, e)}) + 1
    IN  [n \in Nodes |-> [k \in 1 .. Cardinality(out(n)) |-> CHOOSE e \in out(n) : position(e) = k]]

Acyclic == \A e \in graph.edges : e.to # e.from /\ e.to \notin parents[e.from]

runNodeFilter ==
    IF graph.destination = None THEN Nodes ELSE parents[graph.destination] \cup {graph.destination}

Init ==
    /\ graph \in Graphs /\ parents = getParentNodes(graph) /\ children = nodesToAdd(graph)
    /\ stack = <<[node |-> graph.start, disabled |-> FALSE,
                  main |-> <<Start>>]>>
    /\ waiting = [n \in Nodes |-> <<>>] /\ keys = <<>> /\ current = None
    /\ runs = [n \in Nodes |-> <<>>] /\ last = None
    /\ phase = "loop" /\ status = "running"
    /\ error = FALSE /\ waitTill = FALSE /\ aborted = FALSE /\ reports = <<>>
    /\ restarts = 0 /\ made = [n \in Nodes |-> 0] /\ spent = {} /\ dropped = {}
    /\ arrived = [n \in Nodes |-> [i \in Inputs |-> <<>>]]
    /\ forgotten = {} /\ unchecked = FALSE /\ late = FALSE
-----------------------------------------------------------------------------
(* Data that waits *)

Without(s, x) ==
    IF x \in Range(s) THEN RemoveAt(s, CHOOSE k \in DOMAIN s : s[k] = x) ELSE s

(* The keys of an object stay in the order in which they were set, and a   *)
(* node is deleted with its last entry.                                    *)
WithEntries(f, n, entries) ==
    [f EXCEPT !.waiting[n] = entries,
              !.keys = IF DOMAIN entries = {} THEN Without(@, n)
                       ELSE IF n \in Range(@) THEN @ ELSE Append(@, n)]

(* The index of a new entry is the number of entries there are.            *)
NewIndex(entries) == Cardinality(DOMAIN entries)

(* Mutant: an entry that is full is left in the object. *)
CompletedKept(f, n, entries, index) == WithEntries(f, n, entries)

(* An entry with all its data goes to the stack.                           *)
Completed(f, n, entries, index) ==
    WithEntries(f, n, [i \in DOMAIN entries \ {index} |-> entries[i]])

Push(f, n, main) ==
    [f EXCEPT !.stack = <<[node |-> n, disabled |-> FALSE, main |-> main]>> \o @]

(* The first entry that lacks the input gets the datum, or a new one.      *)
AddToWaiting(f, n, input, d) ==
    LET entries == f.waiting[n]
        lacking == {i \in DOMAIN entries : entries[i][input] = Missing}
        index == IF lacking = {} THEN NewIndex(entries) ELSE Min(lacking)
        old == IF lacking = {} THEN [i \in 1..numberOfInputs(n) |-> Missing] ELSE entries[index]
        main == [old EXCEPT ![input] = d]
        filled == [i \in DOMAIN entries \cup {index} |-> IF i = index THEN main ELSE entries[i]]
        lost == IF lacking = {} /\ index \in DOMAIN entries
                THEN {[to |-> n, input |-> i, datum |-> entries[index][i]] :
                          i \in {j \in Inputs : j <= numberOfInputs(n)
                                                /\ entries[index][j] # Missing}}
                ELSE {}
        g == [f EXCEPT !.dropped = @ \cup lost]
    IN  IF Missing \in Range(main) THEN WithEntries(g, n, filled)
        ELSE Push(Completed(g, n, filled, index), n, main)

(* What one connection does with the data of its output.                   *)
addNodeToBeExecuted(f, e, d) ==
    LET g == [f EXCEPT !.arrived[e.to][e.input] = Append(@, d)]
    IN  IF numberOfInputs(e.to) > 1 THEN AddToWaiting(g, e.to, e.input, d)
        ELSE Push(g, e.to, <<d>>)

(* One connection after the other, those of the outputs with data.         *)
AddChildren(f, n, outs, run) ==
    LET added[k \in 0 .. Len(children[n])] ==
            IF k = 0 THEN f
            ELSE LET e == children[n][k]
                 IN  IF e.output \notin outs THEN added[k - 1]
                     ELSE addNodeToBeExecuted(added[k - 1], e,
                                              [from |-> n, run |-> run, output |-> e.output])
    IN  added[Len(children[n])]

(* Mutant: the parents of what waits may wait themselves. *)
CanRunWithoutParents(f, n) == n \notin graph.needsAll

(* What waits may run without all its inputs once none of its parents      *)
(* waits.                                                                  *)
CanRun(f, n) == n \notin graph.needsAll /\ Range(f.keys) \cap parents[n] = {}

(* The earliest entry of n, with no items for the inputs nothing arrived at*)
RunWithout(f, n) ==
    LET index == Min(DOMAIN f.waiting[n])
        main == [i \in DOMAIN f.waiting[n][index] |->
                    IF f.waiting[n][index][i] = Missing THEN Empty ELSE f.waiting[n][index][i]]
    IN  Push(Completed(f, n, f.waiting[n], index), n, main)

(* Mutant: only the node that has waited longest is looked at. *)
CheckFirst(f) ==
    IF f.stack = <<>> /\ f.keys # <<>> /\ CanRun(f, Head(f.keys))
    THEN RunWithout(f, Head(f.keys)) ELSE f

(* Once the stack is empty, the first node that can is run.                *)
CheckWaiting(f) ==
    LET ready == {k \in DOMAIN f.keys : CanRun(f, f.keys[k])}
    IN  IF f.stack = <<>> /\ ready # {} THEN RunWithout(f, f.keys[Min(ready)]) ELSE f
-----------------------------------------------------------------------------
(* The loop *)

(* It ends with the stack, or once the execution was canceled.             *)
LoopEnds ==
    /\ phase = "loop" /\ (stack = <<>> \/ status = "canceled")
    /\ phase' = "ending"
    /\ UNCHANGED <<config, frame, result, ending, current, status, error, waitTill, past,
                   unchecked>>

(* executionTimeoutTimestamp has passed.                                   *)
TimesOut ==
    /\ phase = "loop" /\ stack # <<>>
    /\ phase' = "ending" /\ status' = "canceled"
    /\ UNCHANGED <<config, frame, result, ending, current, error, waitTill, past, unchecked>>

(* Mutant: a node that is filtered out is put off. *)
FilteredOutLater ==
    /\ stack' = Tail(stack) \o <<Head(stack)>>
    /\ UNCHANGED <<spent, current, phase>> /\ unchecked' = TRUE

(* A node that is filtered out is passed over.                             *)
FilteredOut ==
    /\ stack' = Tail(stack) /\ spent' = spent \cup {Head(stack)}
    /\ unchecked' = TRUE
    /\ UNCHANGED <<current, phase>>

NextNode ==
    /\ phase = "loop" /\ stack # <<>> /\ status # "canceled"
    /\ error' = FALSE
    /\ \/ Head(stack).node \notin runNodeFilter /\ FilteredOut
       \/ /\ Head(stack).node \in runNodeFilter
          /\ current' = Head(stack) /\ stack' = Tail(stack) /\ phase' = "node"
          /\ UNCHANGED <<spent, unchecked>>
    /\ UNCHANGED <<config, data, runs, last, made, ending, status, waitTill,
                   past>>

Ran(n, how) == runs' = [runs EXCEPT ![n] = Append(@, how)] /\ last' = n

Now == [stack |-> stack, waiting |-> waiting, keys |-> keys,
        arrived |-> arrived, dropped |-> dropped]

Becomes(g) == /\ stack' = g.stack /\ waiting' = g.waiting /\ keys' = g.keys
              /\ arrived' = g.arrived /\ dropped' = g.dropped

(* The node has returned: its children are added, unless it is the         *)
(* destination, and the hook nodeExecuteAfter is awaited.                  *)
Succeeds(outs, how) ==
    LET n == current.node
    IN  /\ made[n] < MaxRuns /\ made' = [made EXCEPT ![n] = @ + 1]
        /\ Ran(n, how) /\ spent' = spent \cup {current}
        /\ current' = None /\ unchecked' = TRUE
        /\ IF n = graph.destination THEN phase' = "loop" /\ UNCHANGED frame
           ELSE phase' = "added" /\ Becomes(AddChildren(Now, n, outs, made[n] + 1))

(* Then, if the stack is empty, what waits is checked.                     *)
Checks ==
    /\ phase = "added" /\ phase' = "loop"
    /\ Becomes(CheckWaiting(Now)) /\ unchecked' = FALSE
    /\ UNCHANGED <<config, result, ending, current, status, error, waitTill, past>>

PassedOn == IF current.main[1] = Empty THEN {} ELSE {1}

(* What it returned at outputs that nothing is connected to is left out; a *)
(* disabled node passes the data of its first input on.                    *)
Connected(n) == {e.output : e \in {f \in graph.edges : f.from = n}}

NodeReturns ==
    /\ phase = "node" /\ UNCHANGED <<error, waitTill>>
    /\ IF current.disabled THEN Succeeds(PassedOn, "success")
       ELSE \E outs \in SUBSET Connected(current.node) : Succeeds(outs, "success")
    /\ UNCHANGED <<config, ending, status, past>>

(* It returned null: its branch ends, and nothing is recorded.             *)
NodeReturnsNull ==
    /\ phase = "node" /\ ~current.disabled /\ phase' = "loop"
    /\ spent' = spent \cup {current} /\ current' = None /\ unchecked' = TRUE
    /\ UNCHANGED <<config, frame, runs, last, made, ending, status, error, waitTill, past>>

(* It threw, and onError says to continue.                                 *)
NodeFailsAndGoesOn ==
    /\ phase = "node" /\ ~current.disabled /\ current.node \in graph.continues
    /\ error' = TRUE /\ Succeeds(PassedOn, "error")
    /\ UNCHANGED <<config, ending, status, waitTill, past>>

(* Mutant: what has to be run again is not put back. *)
NotPutBack(item) == UNCHANGED stack

PutBack(item) == stack' = <<item>> \o stack

(* It threw, and is put back so that it can be retried.                    *)
NodeFails ==
    /\ phase = "node" /\ ~current.disabled /\ current.node \notin graph.continues
    /\ error' = TRUE /\ Ran(current.node, "error") /\ PutBack(current)
    /\ current' = None /\ phase' = "ending"
    /\ UNCHANGED <<config, data, made, spent, ending, status, waitTill,
                   past, unchecked>>

(* It puts the execution to wait, and the hook nodeExecuteAfter is awaited *)
(* before it is put back.                                                  *)
NodeWaits ==
    /\ phase = "node" /\ ~current.disabled /\ current.node \in graph.waits
    /\ waitTill' = TRUE /\ Ran(current.node, "waiting") /\ phase' = "putting"
    /\ UNCHANGED <<config, frame, made, spent, ending, current, status, error,
                   past, unchecked>>

WaitingIsPutBack ==
    /\ phase = "putting" /\ PutBack(current)
    /\ current' = None /\ phase' = "ending"
    /\ UNCHANGED <<config, data, result, ending, status, error, waitTill, past, unchecked>>

(* onCancel, while the promise is pending.                                 *)
Cancel ==
    /\ ~aborted /\ phase # "ended"
    /\ aborted' = TRUE /\ status' = "canceled"
    /\ reports' = Append(reports, "canceled")
    /\ late' = (phase = "reporting")
    /\ UNCHANGED <<config, frame, result, current, phase, error, waitTill, past, unchecked>>

(* processSuccessExecution; an error that came of the abort may be told by *)
(* its name or not.                                                        *)
processSuccessExecution ==
    /\ phase = "ending" /\ phase' = "closing"
    /\ status' \in IF error THEN IF aborted THEN {"error", "canceled"} ELSE {"error"}
                   ELSE IF status = "canceled" THEN {"canceled"}
                   ELSE IF waitTill THEN {"waiting"} ELSE {"success"}
    /\ UNCHANGED <<config, frame, result, ending, current, error, waitTill, past, unchecked>>

(* Mutant: the report does not mind the abort. *)
ReportAlways == reports' = Append(reports, status) /\ phase' = "reporting"

Report == IF aborted THEN phase' = "ended" /\ UNCHANGED reports
          ELSE reports' = Append(reports, status) /\ phase' = "reporting"

(* It has awaited closeFunction.                                           *)
Closed ==
    /\ phase = "closing" /\ Report
    /\ UNCHANGED <<config, frame, result, aborted, late, current, status, error, waitTill,
                   past, unchecked>>

Reported ==
    /\ phase = "reporting" /\ phase' = "ended"
    /\ UNCHANGED <<config, frame, result, ending, current, status, error, waitTill, past,
                   unchecked>>

(* What starts again goes on from the row: the stack, what waits and the   *)
(* runs, as they were when a hook wrote them.  handleWaitingState disables *)
(* the first node on the stack, and removes the run of the last node, if   *)
(* the row says that the execution waits, and throws if there is no node.  *)
Restart(ran) ==
    /\ restarts < MaxRestarts /\ restarts' = restarts + 1
    /\ waitTill => stack # <<>>
    /\ stack' = IF waitTill THEN [stack EXCEPT ![1].disabled = TRUE] ELSE stack
    /\ runs' = IF waitTill THEN [ran EXCEPT ![last'] = Front(@)] ELSE ran
    /\ phase' = "loop" /\ status' = "running" /\ current' = None
    /\ error' = FALSE /\ waitTill' = FALSE /\ aborted' = FALSE /\ reports' = <<>> /\ late' = FALSE
    /\ UNCHANGED <<config, data, made, spent>>

(* The time has come, and the row waits.                                   *)
Resume ==
    /\ phase = "ended" /\ waitTill /\ "waiting" \in Range(reports)
    /\ UNCHANGED <<last, forgotten, unchecked>>
    /\ Restart(runs)

(* The end of a run is in the row: an error, a cancellation, or a wait that*)
(* was stopped.  A canceled run is in the row as it was when the hook of   *)
(* onCancel wrote it, at any time since; nothing the engine does later is  *)
(* saved, so the retry may as well follow at once.  When the row is as it  *)
(* was before the run, since a stop wrote back what it had read, this is a *)
(* run that was canceled before its first node.                            *)
RowCanBeRetried ==
    \/ aborted
    \/ phase = "ended" /\ Range(reports) \cap {"error", "canceled", "waiting"} # {}

(* lastNodeExecuted is set as a node throws, before its run is recorded.   *)
LastInRow == {last} \cup (IF phase = "node" /\ ~current.disabled THEN {current.node} ELSE {})

(* ExecutionService.retry: the run of the last node is removed if it is an *)
(* error.  The node that was run when the row was written is on no stack.  *)
Retry ==
    /\ RowCanBeRetried
    /\ last' \in LastInRow
    /\ forgotten' = IF current = None THEN forgotten ELSE forgotten \cup {current}
    /\ unchecked' = (unchecked \/ current # None)
    /\ Restart(IF last' # None /\ runs[last'] # <<>> /\ Last(runs[last']) = "error"
               THEN [runs EXCEPT ![last'] = Front(@)] ELSE runs)

Next == \/ LoopEnds \/ TimesOut \/ NextNode
        \/ NodeReturns \/ NodeReturnsNull \/ NodeFailsAndGoesOn \/ NodeFails \/ NodeWaits
        \/ Checks \/ WaitingIsPutBack
        \/ Cancel \/ processSuccessExecution \/ Closed \/ Reported
        \/ Resume \/ Retry

Spec == Init /\ [][Next]_vars

(* The loop goes on, and a node that is run returns or throws some time.   *)
GoesOn == \/ LoopEnds \/ NextNode \/ processSuccessExecution \/ Closed \/ Reported
          \/ NodeReturnsNull \/ NodeFails \/ NodeWaits \/ NodeReturns \/ NodeFailsAndGoesOn
          \/ Checks \/ WaitingIsPutBack

LiveSpec == Spec /\ WF_vars(GoesOn)
-----------------------------------------------------------------------------
(* Every datum that was passed to an input is in one place, whatever the   *)
(* order in which nodes run, fail, wait and are retried: on the stack,     *)
(* waiting, with the node that is run, used up, overwritten, or forgotten  *)
(* by a retry, as the row was written by the hook of a cancellation while  *)
(* the node was run.  Nothing gets lost otherwise, and no node gets the    *)
(* same data twice.                                                        *)
Has(item, n, i, d) == item.node = n /\ i \in DOMAIN item.main /\ item.main[i] = d

Places(n, i, d) ==
    Cardinality({k \in DOMAIN stack : Has(stack[k], n, i, d)})
    + Cardinality({index \in DOMAIN waiting[n] : waiting[n][index][i] = d})
    + Cardinality({x \in spent : Has(x, n, i, d)})
    + Cardinality({x \in forgotten : Has(x, n, i, d)})
    + (IF current # None /\ Has(current, n, i, d) THEN 1 ELSE 0)
    + (IF [to |-> n, input |-> i, datum |-> d] \in dropped THEN 1 ELSE 0)

Conserved == \A n \in Nodes, i \in Inputs :
    \A d \in Range(arrived[n][i]) : Places(n, i, d) = 1

(* A node that is run without an input has not been run too early: in a    *)
(* workflow without loops, nothing arrives at that input any more.         *)
Items == Range(stack) \cup spent \cup (IF current = None THEN {} ELSE {current})

MissingInputNeverArrives ==
    [][Acyclic => \A x \in Items : \A i \in DOMAIN x.main :
           x.main[i] = Empty => arrived'[x.node][i] = arrived[x.node][i]]_vars

(* After a run that ended as a success, without loops, data is left waiting*)
(* only below or at a node that needs all its inputs, unless the last node *)
(* passed over the check: it returned null, was filtered out, was the      *)
(* destination, or had not been followed by the check in the row a retry   *)
(* started from.                                                           *)
LeftOnlyByNeed ==
    reports = <<"success">> /\ Acyclic /\ ~unchecked => \A n \in Range(keys) :
        \E m \in Range(keys) : m \in graph.needsAll /\ m \in parents[n] \cup {n}

(* The execution is saved once, as what it was, unless it is canceled while*)
(* it is saved.                                                            *)
ReportedOnce ==
    /\ phase \in {"reporting", "ended"} => Len(reports) >= 1
    /\ Len(reports) > 1 => late

(* Once started, a workflow without loops comes to an end, and so does any *)
(* that is canceled, unless a retry has taken over from its row.           *)
RunEnds == /\ Acyclic ~> phase = "ended"
           /\ aborted ~> phase = "ended" \/ ~aborted

(* addNodeToBeExecuted: "There is currently no node waiting that does not  *)
(* already have data for the given input, so create a new entry".  Does    *)
(* not hold: the index of the new entry may be in use.                     *)
NothingOverwritten == dropped = {}

(* processRunExecutionData: "There are no more nodes in the execution      *)
(* stack. Check if there are waiting nodes that do not require data on all *)
(* inputs and execute them, one by one."  Does not hold: a last node that  *)
(* returns null or is filtered out passes over the check.                  *)
NothingReadyIsLeft ==
    reports = <<"success">> => \A n \in Range(keys) : ~CanRun([keys |-> keys], n)

(* "Workflow should continue running even if node errors".  Does not hold: *)
(* the error of a last node that continues is still set after the loop.    *)
ContinuedErrorIsNoFailure ==
    reports = <<"error">> /\ phase = "ended" => stack # <<>>
=============================================================================
