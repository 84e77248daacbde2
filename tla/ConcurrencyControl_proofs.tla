---------------------- MODULE ConcurrencyControl_proofs ----------------------
(***************************************************************************)
(* For any number of calls and any limits: the capacity counter accounts   *)
(* for every slot, nobody waits while a slot is free, no promise is        *)
(* resolved twice, and the counter implements the slots of                 *)
(* ConcurrencyLimit.                                                       *)
(***************************************************************************)
EXTENDS ConcurrencyControl, FiniteSetTheorems, TLAPS

(* The inductive invariant.  The three claims need each other: the counter *)
(* only decides rightly (NoIdleSlotWhileThrottled) because it accounts for *)
(* the slots, and it only accounts for them because a resolved promise was *)
(* not holding a slot already (NoPromiseTwice).                            *)
CCInv ==
    /\ CCTypeOK
    /\ CapacityAccounts
    /\ NoIdleSlotWhileThrottled
    /\ NoPromiseTwice

-----------------------------------------------------------------------------
(* Lemmas about lines *)

(* Taking an item out of a line keeps the others in their order. *)
LEMMA WithoutItemLemma ==
    ASSUME NEW S, NEW line \in Seq(S), NEW i \in 1 .. Len(line)
    PROVE  /\ WithoutItem(line, i) \in Seq(S)
           /\ Len(WithoutItem(line, i)) = Len(line) - 1
           /\ \A j \in 1 .. (Len(line) - 1) :
                 WithoutItem(line, i)[j] = IF j < i THEN line[j] ELSE line[j + 1]
<1>1. Len(line) \in Nat /\ Len(line) - 1 \in Nat
  OBVIOUS
<1>2. \A j \in 1 .. (Len(line) - 1) : (IF j < i THEN line[j] ELSE line[j + 1]) \in S
  OBVIOUS
<1> QED
  BY <1>1, <1>2 DEF WithoutItem

(* The head of a line leaves it. *)
LEMMA ShiftedLemma ==
    ASSUME NEW S, NEW line \in Seq(S), line # <<>>
    PROVE  /\ Shifted(line) \in Seq(S)
           /\ Len(Shifted(line)) = Len(line) - 1
           /\ \A j \in 1 .. (Len(line) - 1) : Shifted(line)[j] = line[j + 1]
           /\ Head(line) = line[1]
           /\ 1 \in 1 .. Len(line)
  BY DEF Shifted

(* The invariant of one queue, over its capacity, its line and its holders. *)
NoTwice(line, held) ==
    /\ \A i \in DOMAIN line : line[i].call \notin held
    /\ \A i, j \in DOMAIN line : line[i].call = line[j].call => i = j

QueueInv(t, cap, line, held) ==
    /\ cap \in Int
    /\ line \in Seq(Item)
    /\ held \in SUBSET Calls
    /\ cap = limits[t] - Cardinality(held) - Len(line)
    /\ line # <<>> => Cardinality(held) >= limits[t]
    /\ NoTwice(line, held)

(* The invariant of the service is that of each of its queues. *)
LEMMA CCInvPerQueue ==
    CCInv <=> /\ isEnabled \in BOOLEAN
             /\ capacity \in [QueueTypes -> Int]
             /\ queue \in [QueueTypes -> Seq(Item)]
             /\ holders \in [QueueTypes -> SUBSET Calls]
             /\ \A t \in QueueTypes : QueueInv(t, capacity[t], queue[t], holders[t])
  BY DEF CCInv, CCTypeOK, CapacityAccounts, NoIdleSlotWhileThrottled, NoPromiseTwice,
         QueueInv, NoTwice

(* A queue exists only for a positive limit. *)
LEMMA LimitsPositive == \A t \in QueueTypes : limits[t] \in Nat /\ limits[t] > 0
  BY LimitAssumption DEF QueueTypes, limits

(* Finitely many calls hold a slot. *)
LEMMA HeldFinite ==
    ASSUME NEW held \in SUBSET Calls
    PROVE  IsFiniteSet(held) /\ Cardinality(held) \in Nat
  BY FiniteCalls, FS_Subset, FS_CardinalityType

(* resolveNext moves the head of the line to the holders and changes       *)
(* neither the number of calls in the two nor their being apart.           *)
LEMMA ResolveNext ==
    ASSUME NEW line \in Seq(Item), NEW held \in SUBSET Calls, NoTwice(line, held)
    PROVE  /\ Shifted(line) \in Seq(Item)
           /\ held \cup Resolved(line) \in SUBSET Calls
           /\ NoTwice(Shifted(line), held \cup Resolved(line))
           /\ Cardinality(held \cup Resolved(line)) + Len(Shifted(line))
                 = Cardinality(held) + Len(line)
           /\ Cardinality(held \cup Resolved(line))
                 = IF line = <<>> THEN Cardinality(held) ELSE Cardinality(held) + 1
<1>1. CASE line = <<>>
  BY <1>1, HeldFinite DEF Shifted, Resolved, NoTwice
<1>2. CASE line # <<>>
  <2> DEFINE next == Head(line).call
  <2>1. /\ Shifted(line) \in Seq(Item)
        /\ Len(Shifted(line)) = Len(line) - 1
        /\ \A j \in 1 .. (Len(line) - 1) : Shifted(line)[j] = line[j + 1]
        /\ Head(line) = line[1]
        /\ 1 \in 1 .. Len(line)
    BY <1>2, ShiftedLemma
  <2>2. /\ next \in Calls
        /\ next \notin held
        /\ Resolved(line) = {next}
    <3>1. line[1] \in Item /\ 1 \in DOMAIN line
      BY <2>1
    <3>2. line[1].call \in Calls
      BY <3>1 DEF Item
    <3> QED
      BY <1>2, <2>1, <3>1, <3>2 DEF Resolved, NoTwice
  <2>3. Cardinality(held \cup {next}) = Cardinality(held) + 1
    BY <2>2, HeldFinite, FS_AddElement
  <2>4. NoTwice(Shifted(line), held \cup {next})
    <3>1. DOMAIN line = 1 .. Len(line) /\ DOMAIN Shifted(line) = 1 .. (Len(line) - 1)
      BY <2>1
    <3>2. \A i \in 1 .. (Len(line) - 1) : /\ i + 1 \in DOMAIN line
                                          /\ Shifted(line)[i] = line[i + 1]
      BY <2>1, <3>1
    <3>3. ASSUME NEW i \in DOMAIN Shifted(line)
          PROVE  Shifted(line)[i].call \notin held \cup {next}
      <4>1. /\ i + 1 \in DOMAIN line /\ 1 \in DOMAIN line /\ i + 1 # 1
            /\ Shifted(line)[i] = line[i + 1]
        BY <2>1, <3>1, <3>2
      <4>2. line[i + 1].call # line[1].call /\ line[i + 1].call \notin held
        BY <4>1 DEF NoTwice
      <4> QED
        BY <2>1, <4>1, <4>2
    <3>4. \A i, j \in DOMAIN Shifted(line) :
              Shifted(line)[i].call = Shifted(line)[j].call => i = j
      BY <2>1, <3>1, <3>2 DEF NoTwice
    <3> QED
      BY <3>3, <3>4 DEF NoTwice
  <2> HIDE DEF next
  <2>5. held \cup {next} \in SUBSET Calls
    BY <2>2
  <2>6. Len(line) \in Nat /\ Cardinality(held) \in Nat
    BY HeldFinite
  <2> QED
    BY <1>2, <2>1, <2>2, <2>3, <2>4, <2>5, <2>6
<1> QED
  BY <1>1, <1>2

-----------------------------------------------------------------------------
(* The three operations of ConcurrencyQueue keep the invariant of their    *)
(* queue.                                                                  *)

(* enqueue takes a slot or joins the end of the line. *)
LEMMA EnqueueKeeps ==
    ASSUME NEW t \in QueueTypes, NEW cap, NEW line, NEW held, NEW item \in Item,
           QueueInv(t, cap, line, held),
           item.call \notin held,
           \A i \in DOMAIN line : line[i].call # item.call
    PROVE  /\ cap - 1 < 0 => QueueInv(t, cap - 1, Append(line, item), held)
           /\ ~(cap - 1 < 0) => QueueInv(t, cap - 1, line, held \cup {item.call})
<1>1. /\ cap \in Int /\ line \in Seq(Item) /\ held \in SUBSET Calls
      /\ Len(line) \in Nat /\ Cardinality(held) \in Nat /\ IsFiniteSet(held)
      /\ limits[t] \in Nat /\ item.call \in Calls
  BY HeldFinite, LimitsPositive DEF QueueInv, Item
<1>2. ASSUME cap - 1 < 0
      PROVE  QueueInv(t, cap - 1, Append(line, item), held)
  <2>1. /\ Append(line, item) \in Seq(Item)
        /\ Len(Append(line, item)) = Len(line) + 1
        /\ DOMAIN line = 1 .. Len(line)
        /\ DOMAIN Append(line, item) = 1 .. (Len(line) + 1)
        /\ \A i \in 1 .. Len(line) : Append(line, item)[i] = line[i]
        /\ Append(line, item)[Len(line) + 1] = item
    BY <1>1
  <2>2. NoTwice(Append(line, item), held)
    BY <1>1, <2>1 DEF QueueInv, NoTwice
  <2>3. Cardinality(held) >= limits[t]
    <3>1. CASE line = <<>>
      BY <1>1, <1>2, <3>1 DEF QueueInv
    <3>2. CASE line # <<>>
      BY <3>2 DEF QueueInv
    <3> QED
      BY <3>1, <3>2
  <2> QED
    BY <1>1, <2>1, <2>2, <2>3 DEF QueueInv
<1>3. ASSUME ~(cap - 1 < 0)
      PROVE  QueueInv(t, cap - 1, line, held \cup {item.call})
  <2>1. Cardinality(held \cup {item.call}) = Cardinality(held) + 1
    BY <1>1, FS_AddElement
  <2>2. line = <<>>
    BY <1>1, <1>3 DEF QueueInv
  <2> QED
    BY <1>1, <2>1, <2>2 DEF QueueInv, NoTwice
<1> QED
  BY <1>2, <1>3

(* dequeue gives a slot back and lets the head of the line through. *)
LEMMA DequeueKeeps ==
    ASSUME NEW t \in QueueTypes, NEW cap, NEW line, NEW held, NEW call \in held,
           QueueInv(t, cap, line, held)
    PROVE  QueueInv(t, cap + 1, Shifted(line), (held \ {call}) \cup Resolved(line))
<1> DEFINE left == held \ {call}
<1>1. /\ cap \in Int /\ line \in Seq(Item) /\ held \in SUBSET Calls
      /\ Len(line) \in Nat /\ Cardinality(held) \in Nat /\ IsFiniteSet(held)
      /\ limits[t] \in Nat
  BY HeldFinite, LimitsPositive DEF QueueInv
<1>2. /\ left \in SUBSET Calls
      /\ Cardinality(left) = Cardinality(held) - 1
      /\ Cardinality(left) \in Nat
      /\ NoTwice(line, left)
  BY <1>1, HeldFinite, FS_RemoveElement DEF QueueInv, NoTwice
<1> HIDE DEF left
<1>3. /\ Shifted(line) \in Seq(Item)
      /\ left \cup Resolved(line) \in SUBSET Calls
      /\ NoTwice(Shifted(line), left \cup Resolved(line))
      /\ Cardinality(left \cup Resolved(line)) + Len(Shifted(line))
            = Cardinality(left) + Len(line)
      /\ Cardinality(left \cup Resolved(line))
            = IF line = <<>> THEN Cardinality(left) ELSE Cardinality(left) + 1
  BY <1>1, <1>2, ResolveNext
<1>4. Shifted(line) # <<>> => line # <<>>
  BY DEF Shifted
<1>5. /\ Cardinality(left \cup Resolved(line)) \in Nat
      /\ Len(Shifted(line)) \in Nat
  BY <1>3, HeldFinite
<1>6. cap = limits[t] - Cardinality(held) - Len(line)
  BY DEF QueueInv
<1>7. cap + 1 = limits[t] - Cardinality(left \cup Resolved(line)) - Len(Shifted(line))
  <2> DEFINE h2 == Cardinality(left \cup Resolved(line))
             n2 == Len(Shifted(line))
             h == Cardinality(held)
             n == Len(line)
             limit == limits[t]
  <2>1. h2 + n2 = h + n - 1
    BY <1>1, <1>2, <1>3, <1>5
  <2>2. cap = limit - h - n
    BY <1>6
  <2>3. cap \in Int /\ limit \in Int /\ h \in Int /\ n \in Int /\ h2 \in Int /\ n2 \in Int
    BY <1>1, <1>2, <1>3, <1>5, <1>6
  <2> HIDE DEF h2, n2, h, n, limit
  <2>4. cap + 1 = limit - h2 - n2
    BY <2>1, <2>2, <2>3
  <2> QED
    BY <2>4 DEF h2, n2, limit
<1>8. Shifted(line) # <<>> => Cardinality(left \cup Resolved(line)) >= limits[t]
  BY <1>1, <1>2, <1>3, <1>4 DEF QueueInv
<1>9. QueueInv(t, cap + 1, Shifted(line), left \cup Resolved(line))
  BY <1>1, <1>3, <1>7, <1>8 DEF QueueInv
<1> QED
  BY <1>9 DEF left

(* remove takes an item out of the line and lets the next one through. *)
LEMMA RemoveKeeps ==
    ASSUME NEW t \in QueueTypes, NEW cap, NEW line, NEW held, NEW i \in DOMAIN line,
           QueueInv(t, cap, line, held)
    PROVE  LET rest == WithoutItem(line, i)
           IN  QueueInv(t, cap + 1, Shifted(rest), held \cup Resolved(rest))
<1> DEFINE rest == WithoutItem(line, i)
<1>1. /\ cap \in Int /\ line \in Seq(Item) /\ held \in SUBSET Calls
      /\ Len(line) \in Nat /\ Cardinality(held) \in Nat /\ IsFiniteSet(held)
      /\ limits[t] \in Nat /\ DOMAIN line = 1 .. Len(line)
  BY HeldFinite, LimitsPositive DEF QueueInv
<1>2. /\ rest \in Seq(Item)
      /\ Len(rest) = Len(line) - 1
      /\ \A j \in 1 .. (Len(line) - 1) :
            rest[j] = IF j < i THEN line[j] ELSE line[j + 1]
  BY <1>1, WithoutItemLemma
<1> HIDE DEF rest
<1>3. NoTwice(rest, held)
  <2>1. DOMAIN rest = 1 .. (Len(line) - 1)
    BY <1>2
  <2>2. ASSUME NEW j \in DOMAIN rest
        PROVE  \E k \in DOMAIN line : /\ rest[j] = line[k]
                                       /\ k = IF j < i THEN j ELSE j + 1
    BY <1>1, <1>2, <2>1
  <2>3. \A j \in DOMAIN rest : rest[j].call \notin held
    BY <2>2 DEF QueueInv, NoTwice
  <2>4. ASSUME NEW j \in DOMAIN rest, NEW k \in DOMAIN rest, rest[j].call = rest[k].call
        PROVE  j = k
    <3>1. PICK a \in DOMAIN line : rest[j] = line[a] /\ a = IF j < i THEN j ELSE j + 1
      BY <2>2
    <3>2. PICK b \in DOMAIN line : rest[k] = line[b] /\ b = IF k < i THEN k ELSE k + 1
      BY <2>2
    <3>3. a = b
      BY <2>4, <3>1, <3>2 DEF QueueInv, NoTwice
    <3> QED
      BY <1>1, <2>1, <3>1, <3>2, <3>3
  <2> QED
    BY <2>3, <2>4 DEF NoTwice
<1>4. /\ Shifted(rest) \in Seq(Item)
      /\ held \cup Resolved(rest) \in SUBSET Calls
      /\ NoTwice(Shifted(rest), held \cup Resolved(rest))
      /\ Cardinality(held \cup Resolved(rest)) + Len(Shifted(rest))
            = Cardinality(held) + Len(rest)
      /\ Cardinality(held \cup Resolved(rest))
            = IF rest = <<>> THEN Cardinality(held) ELSE Cardinality(held) + 1
  BY <1>1, <1>2, <1>3, ResolveNext
<1>5. line # <<>>
  BY <1>1
<1>6. /\ Cardinality(held \cup Resolved(rest)) \in Nat
      /\ Len(Shifted(rest)) \in Nat /\ Len(rest) \in Nat
  BY <1>2, <1>4, HeldFinite
<1>7. cap = limits[t] - Cardinality(held) - Len(line)
  BY DEF QueueInv
<1>8. cap + 1 = limits[t] - Cardinality(held \cup Resolved(rest)) - Len(Shifted(rest))
  <2> DEFINE h2 == Cardinality(held \cup Resolved(rest))
             n2 == Len(Shifted(rest))
             h == Cardinality(held)
             n == Len(line)
             limit == limits[t]
  <2>1. h2 + n2 = h + n - 1
    BY <1>1, <1>2, <1>4, <1>6
  <2>2. cap = limit - h - n
    BY <1>7
  <2>3. cap \in Int /\ limit \in Int /\ h \in Int /\ n \in Int /\ h2 \in Int /\ n2 \in Int
    BY <1>1, <1>2, <1>4, <1>6, <1>7
  <2> HIDE DEF h2, n2, h, n, limit
  <2>4. cap + 1 = limit - h2 - n2
    BY <2>1, <2>2, <2>3
  <2> QED
    BY <2>4 DEF h2, n2, limit
<1>9. Cardinality(held \cup Resolved(rest)) >= limits[t]
  BY <1>1, <1>4, <1>5, <1>6 DEF QueueInv
<1>10. QueueInv(t, cap + 1, Shifted(rest), held \cup Resolved(rest))
  <2>1. /\ Shifted(rest) \in Seq(Item)
        /\ held \cup Resolved(rest) \in SUBSET Calls
        /\ NoTwice(Shifted(rest), held \cup Resolved(rest))
    BY <1>4
  <2>2. cap + 1 \in Int
    BY <1>1
  <2> QED
    BY <2>1, <2>2, <1>8, <1>9 DEF QueueInv
<1> QED
  BY <1>10 DEF rest

-----------------------------------------------------------------------------
(* The service *)

(* The constructor: every queue starts empty, at its limit. *)
LEMMA CCInitEstablishes == InitCC => CCInv
<1> SUFFICES ASSUME InitCC
             PROVE  CCInv
  OBVIOUS
<1>1. \A t \in QueueTypes : QueueInv(t, capacity[t], queue[t], holders[t])
  BY LimitsPositive, FS_EmptySet DEF InitCC, QueueInv, NoTwice
<1>2. /\ isEnabled \in BOOLEAN
      /\ capacity \in [QueueTypes -> Int]
      /\ queue \in [QueueTypes -> Seq(Item)]
      /\ holders \in [QueueTypes -> SUBSET Calls]
  BY LimitsPositive DEF InitCC
<1> QED
  BY <1>1, <1>2, CCInvPerQueue

(* A step that replaces one queue's three parts keeps CCInv when it keeps   *)
(* that queue's invariant.                                                 *)
LEMMA OneQueueStep ==
    ASSUME CCInv, NEW t \in QueueTypes, NEW cap, NEW line, NEW held,
           QueueInv(t, cap, line, held),
           capacity' = [capacity EXCEPT ![t] = cap],
           queue' = [queue EXCEPT ![t] = line],
           holders' = [holders EXCEPT ![t] = held],
           isEnabled' \in BOOLEAN
    PROVE  CCInv'
<1>1. /\ capacity \in [QueueTypes -> Int]
      /\ queue \in [QueueTypes -> Seq(Item)]
      /\ holders \in [QueueTypes -> SUBSET Calls]
      /\ \A u \in QueueTypes : QueueInv(u, capacity[u], queue[u], holders[u])
  BY CCInvPerQueue
<1>2. /\ capacity' \in [QueueTypes -> Int]
      /\ queue' \in [QueueTypes -> Seq(Item)]
      /\ holders' \in [QueueTypes -> SUBSET Calls]
  BY <1>1 DEF QueueInv
<1>3. ASSUME NEW u \in QueueTypes
      PROVE  QueueInv(u, capacity'[u], queue'[u], holders'[u])
  <2>1. CASE u = t
    BY <1>1, <2>1
  <2>2. CASE u # t
    BY <1>1, <2>2
  <2> QED
    BY <2>1, <2>2
<1> QED
  BY <1>2, <1>3 DEF CCInv, CCTypeOK, CapacityAccounts, NoIdleSlotWhileThrottled,
                    NoPromiseTwice, QueueInv, NoTwice

(* getQueue only answers with a queue that exists. *)
LEMMA ModeHasOneQueue ==
    ASSUME NEW mode
    PROVE  getQueue(mode) \subseteq QueueTypes
  BY DEF getQueue

(* throttle: a disabled service and an unlimited mode change nothing. *)
LEMMA ThrottleKeeps ==
    ASSUME CCInv, NEW call \in Calls, NEW e \in Executions, NEW mode \in Modes,
           Throttle(call, e, mode)
    PROVE  CCInv' \/ UNCHANGED ccVars
<1> DEFINE item == [executionId |-> e, call |-> call]
<1>1. CASE ~isEnabled \/ isUnlimited(mode)
  BY <1>1 DEF Throttle, throttle
<1>2. CASE isEnabled /\ ~isUnlimited(mode)
  <2>1. PICK t \in getQueue(mode) : enqueue(t, item)
    BY <1>2 DEF Throttle, throttle
  <2>2. /\ t \in QueueTypes
        /\ item \in Item /\ item.call = call
        /\ call \notin holders[t]
        /\ \A i \in DOMAIN queue[t] : queue[t][i].call # call
    BY <2>1, ModeHasOneQueue DEF Throttle, Queued, Item
  <2>3. QueueInv(t, capacity[t], queue[t], holders[t]) /\ isEnabled \in BOOLEAN
    BY <2>2, CCInvPerQueue
  <2> HIDE DEF item
  <2>4. /\ capacity[t] - 1 < 0 =>
              QueueInv(t, capacity[t] - 1, Append(queue[t], item), holders[t])
        /\ ~(capacity[t] - 1 < 0) =>
              QueueInv(t, capacity[t] - 1, queue[t], holders[t] \cup {item.call})
    BY <2>2, <2>3, EnqueueKeeps
  <2>5. /\ queue = [queue EXCEPT ![t] = queue[t]]
        /\ holders = [holders EXCEPT ![t] = holders[t]]
    BY <2>2 DEF CCInv, CCTypeOK
  <2>6. CASE capacity[t] - 1 < 0
    <3>1. /\ capacity' = [capacity EXCEPT ![t] = capacity[t] - 1]
          /\ queue' = [queue EXCEPT ![t] = Append(queue[t], item)]
          /\ holders' = [holders EXCEPT ![t] = holders[t]]
          /\ isEnabled' \in BOOLEAN
      BY <2>1, <2>3, <2>5, <2>6 DEF enqueue
    <3> QED
      BY <2>2, <2>4, <2>6, <3>1, OneQueueStep
  <2>7. CASE ~(capacity[t] - 1 < 0)
    <3>1. /\ capacity' = [capacity EXCEPT ![t] = capacity[t] - 1]
          /\ queue' = [queue EXCEPT ![t] = queue[t]]
          /\ holders' = [holders EXCEPT ![t] = holders[t] \cup {item.call}]
          /\ isEnabled' \in BOOLEAN
      BY <2>1, <2>3, <2>5, <2>7 DEF enqueue
    <3> QED
      BY <2>2, <2>4, <2>7, <3>1, OneQueueStep
  <2> QED
    BY <2>6, <2>7
<1> QED
  BY <1>1, <1>2

(* release, by a call that holds a slot of its queue. *)
LEMMA ReleaseKeeps ==
    ASSUME CCInv, NEW call \in Calls, NEW mode \in Modes, Release(call, mode)
    PROVE  CCInv' \/ UNCHANGED ccVars
<1>1. CASE ~isEnabled \/ isUnlimited(mode)
  BY <1>1 DEF Release, release
<1>2. CASE isEnabled /\ ~isUnlimited(mode)
  <2>1. PICK t \in getQueue(mode) : dequeue(t, call)
    BY <1>2 DEF Release, release
  <2>2. t \in QueueTypes /\ call \in holders[t]
    BY <2>1, ModeHasOneQueue DEF Release
  <2>3. QueueInv(t, capacity[t], queue[t], holders[t]) /\ isEnabled \in BOOLEAN
    BY <2>2, CCInvPerQueue
  <2>4. QueueInv(t, capacity[t] + 1, Shifted(queue[t]),
                 (holders[t] \ {call}) \cup Resolved(queue[t]))
    BY <2>2, <2>3, DequeueKeeps
  <2>5. /\ capacity' = [capacity EXCEPT ![t] = capacity[t] + 1]
        /\ queue' = [queue EXCEPT ![t] = Shifted(queue[t])]
        /\ holders' = [holders EXCEPT ![t] = (holders[t] \ {call}) \cup Resolved(queue[t])]
        /\ isEnabled' \in BOOLEAN
    BY <2>1, <2>3 DEF dequeue
  <2> QED
    BY <2>2, <2>4, <2>5, OneQueueStep
<1> QED
  BY <1>1, <1>2

(* remove, whether or not the execution is in line. *)
LEMMA RemoveExecutionKeeps ==
    ASSUME CCInv, NEW e \in Executions, NEW mode \in Modes, Remove(e, mode)
    PROVE  CCInv' \/ UNCHANGED ccVars
<1>1. CASE ~isEnabled \/ isUnlimited(mode)
  BY <1>1 DEF Remove, remove
<1>2. CASE isEnabled /\ ~isUnlimited(mode)
  <2>1. PICK t \in getQueue(mode) : removeFrom(t, e)
    BY <1>2 DEF Remove, remove
  <2>2. t \in QueueTypes
    BY <2>1, ModeHasOneQueue
  <2>3. CASE FirstPlaces(queue[t], e) = {}
    BY <2>1, <2>3 DEF removeFrom
  <2>4. CASE FirstPlaces(queue[t], e) # {}
    <3>1. PICK i \in FirstPlaces(queue[t], e) : RemovePlace(t, i)
      BY <2>1, <2>4 DEF removeFrom
    <3>2. i \in DOMAIN queue[t]
      BY <3>1 DEF FirstPlaces
    <3>3. QueueInv(t, capacity[t], queue[t], holders[t]) /\ isEnabled \in BOOLEAN
      BY <2>2, CCInvPerQueue
    <3> DEFINE rest == WithoutItem(queue[t], i)
    <3>4. QueueInv(t, capacity[t] + 1, Shifted(rest), holders[t] \cup Resolved(rest))
      BY <2>2, <3>2, <3>3, RemoveKeeps
    <3>5. /\ capacity' = [capacity EXCEPT ![t] = capacity[t] + 1]
          /\ queue' = [queue EXCEPT ![t] = Shifted(rest)]
          /\ holders' = [holders EXCEPT ![t] = holders[t] \cup Resolved(rest)]
          /\ isEnabled' \in BOOLEAN
      BY <3>1, <3>3 DEF RemovePlace
    <3> QED
      BY <2>2, <3>4, <3>5, OneQueueStep
  <2> QED
    BY <2>3, <2>4
<1> QED
  BY <1>1, <1>2

(* disable leaves the queues as they are. *)
LEMMA DisableKeeps ==
    ASSUME CCInv, disable
    PROVE  CCInv'
  BY DEF disable, CCInv, CCTypeOK, CapacityAccounts, NoIdleSlotWhileThrottled,
         NoPromiseTwice

(* A new process starts with fresh queues. *)
LEMMA RestartKeeps ==
    ASSUME restart
    PROVE  CCInv'
<1>1. \A t \in QueueTypes : QueueInv(t, capacity'[t], queue'[t], holders'[t])
  BY LimitsPositive, FS_EmptySet DEF restart, QueueInv, NoTwice
<1>2. /\ isEnabled' \in BOOLEAN
      /\ capacity' \in [QueueTypes -> Int]
      /\ queue' \in [QueueTypes -> Seq(Item)]
      /\ holders' \in [QueueTypes -> SUBSET Calls]
  BY LimitsPositive DEF restart
<1> QED
  BY <1>1, <1>2 DEF CCInv, CCTypeOK, CapacityAccounts, NoIdleSlotWhileThrottled,
                    NoPromiseTwice, QueueInv, NoTwice

(* Every step of the service keeps the inductive invariant. *)
LEMMA CCStepKeeps == CCInv /\ [NextCC]_ccVars => CCInv'
<1> SUFFICES ASSUME CCInv, [NextCC]_ccVars
             PROVE  CCInv'
  OBVIOUS
<1>1. CASE UNCHANGED ccVars
  BY <1>1 DEF ccVars, CCInv, CCTypeOK, CapacityAccounts, NoIdleSlotWhileThrottled,
              NoPromiseTwice
<1>2. CASE \E call \in Calls, e \in Executions, mode \in Modes : Throttle(call, e, mode)
  BY <1>1, <1>2, ThrottleKeeps
<1>3. CASE \E call \in Calls, mode \in Modes : Release(call, mode)
  BY <1>1, <1>3, ReleaseKeeps
<1>4. CASE \E e \in Executions, mode \in Modes : Remove(e, mode)
  BY <1>1, <1>4, RemoveExecutionKeeps
<1>5. CASE disable
  BY <1>5, DisableKeeps
<1>6. CASE restart
  BY <1>6, RestartKeeps
<1> QED
  BY <1>1, <1>2, <1>3, <1>4, <1>5, <1>6 DEF NextCC

(* The capacity counter accounts for every slot and every waiting call,    *)
(* whatever the limits, the calls and their interleaving.                  *)
THEOREM CapacityAlwaysAccounts == SpecCC => []CapacityAccounts
<1>1. CCInv => CapacityAccounts
  BY DEF CCInv
<1> QED
  BY <1>1, CCInitEstablishes, CCStepKeeps, PTL DEF SpecCC

(* No call waits while a slot of its queue is free. *)
THEOREM NeverIdleWhileThrottled == SpecCC => []NoIdleSlotWhileThrottled
<1>1. CCInv => NoIdleSlotWhileThrottled
  BY DEF CCInv
<1> QED
  BY <1>1, CCInitEstablishes, CCStepKeeps, PTL DEF SpecCC

(* No promise is queued twice or queued while it holds a slot. *)
THEOREM PromisesApart == SpecCC => [](CCTypeOK /\ NoPromiseTwice)
<1>1. CCInv => CCTypeOK /\ NoPromiseTwice
  BY DEF CCInv
<1> QED
  BY <1>1, CCInitEstablishes, CCStepKeeps, PTL DEF SpecCC

-----------------------------------------------------------------------------
(* The counter implements the slots *)

(* The sign of the counter says whether a slot is free. *)
LEMMA SignTellsFreeSlot ==
    ASSUME NEW t \in QueueTypes, NEW cap, NEW line, NEW held,
           QueueInv(t, cap, line, held)
    PROVE  cap - 1 < 0 <=> ~(Cardinality(held) < limits[t])
<1> DEFINE h == Cardinality(held)
           n == Len(line)
           limit == limits[t]
<1>1. /\ cap \in Int /\ h \in Nat /\ n \in Nat /\ limit \in Nat
      /\ cap = limit - h - n
      /\ n > 0 => h >= limit
  BY HeldFinite, LimitsPositive DEF QueueInv
<1> HIDE DEF h, n, limit
<1>2. cap - 1 < 0 <=> ~(h < limit)
  BY <1>1
<1> QED
  BY <1>2 DEF h, limit

(* throttle is an arrival at the slots, or nothing. *)
LEMMA ThrottleImplements ==
    ASSUME CCInv, NEW call \in Calls, NEW e \in Executions, NEW mode \in Modes,
           Throttle(call, e, mode)
    PROVE  Slots!Next \/ UNCHANGED ccVars
<1> DEFINE item == [executionId |-> e, call |-> call]
<1>1. CASE ~isEnabled \/ isUnlimited(mode)
  BY <1>1 DEF Throttle, throttle
<1>2. CASE isEnabled /\ ~isUnlimited(mode)
  <2>1. PICK t \in getQueue(mode) : enqueue(t, item)
    BY <1>2 DEF Throttle, throttle
  <2>2. t \in QueueTypes /\ item \in Slots!Item /\ item.call = call /\ call \notin holders[t]
    BY <2>1, ModeHasOneQueue DEF Throttle, Slots!Item
  <2>3. capacity[t] - 1 < 0 <=> ~(Cardinality(holders[t]) < limits[t])
    BY <2>2, CCInvPerQueue, SignTellsFreeSlot
  <2> HIDE DEF item
  <2>4. Slots!Cardinality(holders[t]) = Cardinality(holders[t])
    BY DEF Slots!Cardinality, Cardinality
  <2>5. Slots!Arrive(t, item)
    BY <1>2, <2>1, <2>2, <2>3, <2>4 DEF enqueue, Slots!Arrive
  <2> QED
    BY <2>2, <2>5 DEF Slots!Next
<1> QED
  BY <1>1, <1>2

(* release is a leave, or nothing. *)
LEMMA ReleaseImplements ==
    ASSUME CCInv, NEW call \in Calls, NEW mode \in Modes, Release(call, mode)
    PROVE  Slots!Next \/ UNCHANGED ccVars
<1>1. CASE ~isEnabled \/ isUnlimited(mode)
  BY <1>1 DEF Release, release
<1>2. CASE isEnabled /\ ~isUnlimited(mode)
  <2>1. PICK t \in getQueue(mode) : dequeue(t, call)
    BY <1>2 DEF Release, release
  <2>2. t \in QueueTypes /\ call \in holders[t]
    BY <2>1, ModeHasOneQueue DEF Release
  <2>3. Slots!Leave(t, call)
    BY <1>2, <2>1, <2>2
    DEF dequeue, Resolved, Shifted, Slots!Leave, Slots!FirstOf, Slots!RestOf
  <2> QED
    BY <2>2, <2>3 DEF Slots!Next
<1> QED
  BY <1>1, <1>2

(* remove is an abandoned place in line, or nothing. *)
LEMMA RemoveImplements ==
    ASSUME CCInv, NEW e \in Executions, NEW mode \in Modes, Remove(e, mode)
    PROVE  Slots!Next \/ UNCHANGED ccVars
<1>1. CASE ~isEnabled \/ isUnlimited(mode)
  BY <1>1 DEF Remove, remove
<1>2. CASE isEnabled /\ ~isUnlimited(mode)
  <2>1. PICK t \in getQueue(mode) : removeFrom(t, e)
    BY <1>2 DEF Remove, remove
  <2>2. t \in QueueTypes
    BY <2>1, ModeHasOneQueue
  <2>3. CASE FirstPlaces(queue[t], e) = {}
    BY <2>1, <2>3 DEF removeFrom
  <2>4. CASE FirstPlaces(queue[t], e) # {}
    <3>1. PICK i \in FirstPlaces(queue[t], e) : RemovePlace(t, i)
      BY <2>1, <2>4 DEF removeFrom
    <3>2. i \in DOMAIN queue[t] /\ DOMAIN queue[t] = 1 .. Len(queue[t])
      BY <2>2, <3>1 DEF FirstPlaces, CCInv, CCTypeOK
    <3>3. Slots!Abandon(t, i)
      BY <1>2, <3>1, <3>2
      DEF RemovePlace, WithoutItem, Resolved, Shifted,
          Slots!Abandon, Slots!FirstOf, Slots!RestOf
    <3> QED
      BY <2>2, <3>2, <3>3 DEF Slots!Next
  <2> QED
    BY <2>3, <2>4
<1> QED
  BY <1>1, <1>2

(* Every step of the service is a step of the slots or a stutter. *)
LEMMA StepImplements == CCInv /\ [NextCC]_ccVars => [Slots!Next]_(Slots!limitVars)
<1> SUFFICES ASSUME CCInv, [NextCC]_ccVars
             PROVE  Slots!Next \/ UNCHANGED <<isEnabled, queue, holders>>
  BY DEF Slots!limitVars
<1>1. CASE UNCHANGED ccVars
  BY <1>1 DEF ccVars
<1>2. CASE \E call \in Calls, e \in Executions, mode \in Modes : Throttle(call, e, mode)
  BY <1>1, <1>2, ThrottleImplements
<1>3. CASE \E call \in Calls, mode \in Modes : Release(call, mode)
  BY <1>1, <1>3, ReleaseImplements
<1>4. CASE \E e \in Executions, mode \in Modes : Remove(e, mode)
  BY <1>1, <1>4, RemoveImplements
<1>5. CASE disable
  BY <1>5 DEF disable, Slots!Next, Slots!Close
<1>6. CASE restart
  BY <1>6 DEF restart, Slots!Next, Slots!Reset
<1> QED
  BY <1>1, <1>2, <1>3, <1>4, <1>5, <1>6 DEF NextCC

(* The service, one counter per queue, behaves like slots with a line in   *)
(* front of them, in every behaviour.                                      *)
THEOREM CounterImplementsSlots == SpecCC => ImplementsSlots
<1>1. InitCC => Slots!Init
  BY DEF InitCC, Slots!Init
<1> QED
  BY <1>1, CCInitEstablishes, CCStepKeeps, StepImplements, PTL
  DEF SpecCC, ImplementsSlots, Slots!Spec
=============================================================================
