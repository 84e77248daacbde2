-------------------------- MODULE ConcurrencyLimit --------------------------
(***************************************************************************)
(* What regular-mode concurrency control promises, with no counter in it:  *)
(* every limited queue has a fixed number of slots.  A run call that finds *)
(* a free slot takes it, any other waits in line; a call that leaves, or a *)
(* waiting call that is taken out of the line, lets the head of the line   *)
(* through.  ConcurrencyControl implements this with one signed integer    *)
(* per queue.                                                              *)
(***************************************************************************)
EXTENDS Integers, Sequences, FiniteSets

CONSTANTS
    Calls,        \* the run calls that ask for a slot
    Executions,   \* the ids they run
    QueueTypes,   \* the limited queues
    slots         \* [QueueTypes -> Nat \ {0}]: the slots of each

VARIABLES
    open,     \* FALSE once the process shuts down: the limit is then lifted
    waiting,  \* [QueueTypes -> Seq of calls waiting in line]
    holders   \* [QueueTypes -> set of calls holding a slot]

limitVars == <<open, waiting, holders>>

Item == [executionId : Executions, call : Calls]

Init ==
    /\ open \in BOOLEAN
    /\ waiting = [t \in QueueTypes |-> <<>>]
    /\ holders = [t \in QueueTypes |-> {}]

(* The calls of the items that leave the line next. *)
FirstOf(line) == IF line = <<>> THEN {} ELSE {Head(line).call}
RestOf(line) == IF line = <<>> THEN <<>> ELSE Tail(line)

(* A call takes a free slot at once or joins the end of the line. *)
Arrive(t, item) ==
    /\ open
    /\ item.call \notin holders[t]
    /\ IF Cardinality(holders[t]) < slots[t]
       THEN /\ holders' = [holders EXCEPT ![t] = @ \cup {item.call}]
            /\ UNCHANGED waiting
       ELSE /\ waiting' = [waiting EXCEPT ![t] = Append(@, item)]
            /\ UNCHANGED holders
    /\ UNCHANGED open

(* A holder gives its slot up and the head of the line takes it. *)
Leave(t, call) ==
    /\ open
    /\ call \in holders[t]
    /\ holders' = [holders EXCEPT ![t] = (@ \ {call}) \cup FirstOf(waiting[t])]
    /\ waiting' = [waiting EXCEPT ![t] = RestOf(@)]
    /\ UNCHANGED open

(* A waiting call is taken out of the line; the new head of the line is    *)
(* let through although nobody left.                                       *)
Abandon(t, i) ==
    LET rest == [j \in 1 .. (Len(waiting[t]) - 1) |->
                    IF j < i THEN waiting[t][j] ELSE waiting[t][j + 1]]
    IN  /\ open
        /\ i \in 1 .. Len(waiting[t])
        /\ holders' = [holders EXCEPT ![t] = @ \cup FirstOf(rest)]
        /\ waiting' = [waiting EXCEPT ![t] = RestOf(rest)]
        /\ UNCHANGED open

Close ==
    /\ open' = FALSE
    /\ UNCHANGED <<waiting, holders>>

(* The process is replaced by a fresh one. *)
Reset ==
    /\ open' \in BOOLEAN
    /\ waiting' = [t \in QueueTypes |-> <<>>]
    /\ holders' = [t \in QueueTypes |-> {}]

Next ==
    \/ \E t \in QueueTypes :
          \/ \E item \in Item : Arrive(t, item)
          \/ \E call \in Calls : Leave(t, call)
          \/ \E i \in DOMAIN waiting[t] : Abandon(t, i)
    \/ Close
    \/ Reset

Spec == Init /\ [][Next]_limitVars
=============================================================================
