-------------------------- MODULE TaskBroker_proofs -------------------------
(***************************************************************************)
(* Proofs about TaskBroker, for any number of runners, launchers, requests *)
(* and offers: who waits is tracked, a request has one task, an offer is   *)
(* used once, a runner promises no more than it has room for, and settings *)
(* find their task waiting.                                                *)
(*                                                                         *)
(* The proofs rest on what is under way between the broker and a runner:   *)
(* every message names a task of that runner, an offer is either on its    *)
(* way, in the list, or matched, and settings are sent once.               *)
(***************************************************************************)
EXTENDS TaskBroker, WellFoundedInduction, FiniteSetTheorems, SequenceTheorems, TLAPS

-----------------------------------------------------------------------------
(* Lemmas about the operators of the model *)

(* A set of numbers has a least one. *)
LEMMA Least ==
    ASSUME NEW T, T \subseteq Nat, T # {}
    PROVE  \E x \in T : \A y \in T : x <= y
<1> DEFINE R == OpToRel(<, Nat)
<1>1. \A x, y \in Nat : x < y => <<x, y>> \in R
    BY DEF OpToRel
<1>2. IsWellFoundedOn(R, Nat)
    BY NatLessThanWellFounded
<1> HIDE DEF R
<1>3. PICK x \in T : \A y \in T : ~(<<y, x>> \in R)
    BY <1>2, WFMin
<1>4. ASSUME NEW y \in T PROVE x <= y
    <2>1. x \in Nat /\ y \in Nat /\ ~(y < x)
        BY <1>1, <1>3
    <2> QED BY <2>1
<1> QED BY <1>4

(* Induction, for a set of numbers. *)
LEMMA SetInduction ==
    ASSUME NEW S, 0 \in S, \A n \in Nat : n \in S => n + 1 \in S
    PROVE  Nat \subseteq S
<1> SUFFICES ASSUME Nat \ S # {} PROVE FALSE
    OBVIOUS
<1>1. PICK x \in Nat \ S : \A y \in Nat \ S : x <= y
    BY Least
<1>2. x - 1 \in Nat /\ x - 1 \in S
    BY <1>1
<1> QED BY <1>1, <1>2

(* A set of places has a k-th one, up to its cardinality. *)
LEMMA PlaceExists ==
    ASSUME NEW n \in Nat, NEW S \in SUBSET (1 .. n), NEW k \in 1 .. Cardinality(S)
    PROVE  \E i \in S : Cardinality({j \in S : j <= i}) = k
<1> DEFINE Has(m) == \A T \in SUBSET (1 .. m) : \A l \in 1 .. Cardinality(T) :
                        \E i \in T : Cardinality({j \in T : j <= i}) = l
           Good == {m \in Nat : Has(m)}
<1>1. 0 \in Good
    <2>1. \A T \in SUBSET (1 .. 0) : T = {}
        OBVIOUS
    <2>2. \A T \in SUBSET (1 .. 0) : Cardinality(T) = 0
        BY <2>1, FS_EmptySet
    <2> QED BY <2>2
<1>2. ASSUME NEW m \in Nat, m \in Good PROVE m + 1 \in Good
    <2> SUFFICES ASSUME NEW T \in SUBSET (1 .. m + 1), NEW l \in 1 .. Cardinality(T)
                 PROVE  \E i \in T : Cardinality({j \in T : j <= i}) = l
        OBVIOUS
    <2> DEFINE U == T \ {m + 1}
    <2>1. U \in SUBSET (1 .. m)
        <3>1. \A x \in U : x \in 1 .. m + 1 /\ x # m + 1
            OBVIOUS
        <3>2. \A x \in U : x \in 1 .. m
            BY <3>1
        <3> QED BY <3>2
    <2>2. IsFiniteSet(T) /\ IsFiniteSet(U) /\ Cardinality(U) \in Nat /\ Cardinality(T) \in Nat
        <3>1. IsFiniteSet(1 .. m + 1)
            BY FS_Interval, m + 1 \in Int, 1 \in Int
        <3>2. IsFiniteSet(T)
            BY <3>1, FS_Subset
        <3>3. IsFiniteSet(U)
            <4>1. U \in SUBSET T
                OBVIOUS
            <4> HIDE DEF U
            <4> QED BY <3>2, <4>1, FS_Subset
        <3> QED BY <3>2, <3>3, FS_CardinalityType
    <2>3. CASE m + 1 \in T /\ l = Cardinality(T)
        <3>1. \A j \in T : j <= m + 1
            <4>1. \A j \in T : j \in 1 .. m + 1
                OBVIOUS
            <4> QED BY <4>1
        <3>2. {j \in T : j <= m + 1} = T
            BY <3>1
        <3> QED BY <2>3, <3>2
    <2>4. CASE ~(m + 1 \in T /\ l = Cardinality(T))
        <3>1. Cardinality(T) = IF m + 1 \in T THEN Cardinality(U) + 1 ELSE Cardinality(U)
            <4>1. Cardinality(U) = IF m + 1 \in T THEN Cardinality(T) - 1 ELSE Cardinality(T)
                BY <2>2, FS_RemoveElement
            <4> QED BY <2>2, <4>1
        <3>2. l \in 1 .. Cardinality(U)
            BY <2>2, <2>4, <3>1
        <3>3. PICK i \in U : Cardinality({j \in U : j <= i}) = l
            BY <1>2, <2>1, <3>2
        <3>4. {j \in U : j <= i} = {j \in T : j <= i}
            BY <2>1
        <3> QED BY <3>3, <3>4
    <2> QED BY <2>3, <2>4
<1> HIDE DEF Has
<1>3. Nat \subseteq Good
    <2>1. \A m \in Nat : m \in Good => m + 1 \in Good
        BY <1>2
    <2> HIDE DEF Good
    <2> QED BY <1>1, <2>1, SetInduction
<1> QED BY <1>3 DEF Has

(* Nth picks a place of the set, another for each number. *)
LEMMA NthPlaces ==
    ASSUME NEW n \in Nat, NEW S \in SUBSET (1 .. n)
    PROVE  /\ IsFiniteSet(S) /\ Cardinality(S) \in Nat
           /\ \A k \in 1 .. Cardinality(S) : Nth(S, k) \in S
           /\ \A k, l \in 1 .. Cardinality(S) : Nth(S, k) = Nth(S, l) => k = l
<1>1. IsFiniteSet(S) /\ Cardinality(S) \in Nat
    <2>1. IsFiniteSet(1 .. n)
        BY FS_Interval, n \in Int, 1 \in Int
    <2>2. IsFiniteSet(S)
        BY <2>1, FS_Subset
    <2> QED BY <2>2, FS_CardinalityType
<1>2. ASSUME NEW k \in 1 .. Cardinality(S)
      PROVE  Nth(S, k) \in S /\ Cardinality({j \in S : j <= Nth(S, k)}) = k
    <2> DEFINE Is(i) == Cardinality({j \in S : j <= i}) = k
    <2>1. \E i \in S : Is(i)
        BY PlaceExists
    <2>2. Nth(S, k) = CHOOSE i \in S : Is(i)
        BY DEF Nth
    <2> HIDE DEF Is
    <2>3. Nth(S, k) \in S /\ Is(Nth(S, k))
        BY <2>1, <2>2
    <2> QED BY <2>3 DEF Is
<1> QED BY <1>1, <1>2

(* AtPlaces is a list of some items, no place taken twice. *)
LEMMA AtPlacesPick ==
    ASSUME NEW T, NEW seq \in Seq(T), NEW S \in SUBSET (DOMAIN seq)
    PROVE  /\ AtPlaces(seq, S) \in Seq(T)
           /\ Len(AtPlaces(seq, S)) = Cardinality(S)
           /\ \A k \in 1 .. Len(AtPlaces(seq, S)) :
                 Nth(S, k) \in S /\ AtPlaces(seq, S)[k] = seq[Nth(S, k)]
           /\ \A k, l \in 1 .. Len(AtPlaces(seq, S)) : Nth(S, k) = Nth(S, l) => k = l
<1>1. S \in SUBSET (1 .. Len(seq)) /\ Len(seq) \in Nat
    OBVIOUS
<1>2. /\ Cardinality(S) \in Nat
      /\ \A k \in 1 .. Cardinality(S) : Nth(S, k) \in S
      /\ \A k, l \in 1 .. Cardinality(S) : Nth(S, k) = Nth(S, l) => k = l
    BY <1>1, NthPlaces
<1>3. AtPlaces(seq, S) = [k \in 1 .. Cardinality(S) |-> seq[Nth(S, k)]]
    BY DEF AtPlaces
<1>4. \A k \in 1 .. Cardinality(S) : seq[Nth(S, k)] \in T
    BY <1>1, <1>2
<1>5. AtPlaces(seq, S) \in Seq(T)
    BY <1>2, <1>3, <1>4, IsASeq
<1>6. Len(AtPlaces(seq, S)) = Cardinality(S)
    BY <1>2, <1>3, <1>5
<1> QED BY <1>2, <1>3, <1>5, <1>6

(* Taking the first x out of a list leaves the other items there. *)
LEMMA WithoutFirstKeeps ==
    ASSUME NEW T, NEW seq \in Seq(T), NEW x, IsIn(x, seq)
    PROVE  /\ WithoutFirst(seq, x) \in Seq(T)
           /\ \A y : y # x /\ IsIn(y, seq) => IsIn(y, WithoutFirst(seq, x))
<1> DEFINE Places == {i \in 1 .. Len(seq) : seq[i] = x}
           First(i) == seq[i] = x /\ \A j \in 1 .. (i - 1) : seq[j] # x
           at == CHOOSE i \in DOMAIN seq : First(i)
           out == WithoutFirst(seq, x)
<1>1. Places # {} /\ Places \subseteq Nat /\ DOMAIN seq = 1 .. Len(seq) /\ Len(seq) \in Nat
    BY DEF IsIn
<1>2. PICK i \in Places : \A y \in Places : i <= y
    BY <1>1, Least
<1>3. \E j \in DOMAIN seq : First(j)
    <2>1. i \in DOMAIN seq /\ First(i)
        BY <1>1, <1>2
    <2> QED BY <2>1
<1>4. at \in 1 .. Len(seq) /\ seq[at] = x
    BY <1>1, <1>3
<1>5. out = [j \in 1 .. (Len(seq) - 1) |-> IF j < at THEN seq[j] ELSE seq[j + 1]]
    BY DEF WithoutFirst
<1> HIDE DEF at, out, Places
<1>6. Len(seq) - 1 \in Nat
    BY <1>1, <1>4
<1>7. \A j \in 1 .. (Len(seq) - 1) : (IF j < at THEN seq[j] ELSE seq[j + 1]) \in T
    BY <1>1
<1>8. out \in Seq(T) /\ DOMAIN out = 1 .. (Len(seq) - 1)
    BY <1>5, <1>6, <1>7, IsASeq
<1>9. ASSUME NEW y, y # x, IsIn(y, seq) PROVE IsIn(y, out)
    <2>1. PICK j \in 1 .. Len(seq) : seq[j] = y
        BY <1>1, <1>9 DEF IsIn
    <2>2. CASE j < at
        <3>1. j \in 1 .. (Len(seq) - 1) /\ out[j] = y
            BY <1>1, <1>4, <1>5, <2>1, <2>2
        <3> QED BY <1>8, <3>1 DEF IsIn
    <2>3. CASE ~(j < at)
        <3>1. j # at
            BY <1>4, <1>9, <2>1
        <3>2. j - 1 \in 1 .. (Len(seq) - 1) /\ out[j - 1] = y
            BY <1>1, <1>4, <1>5, <2>1, <2>3, <3>1
        <3> QED BY <1>8, <3>2 DEF IsIn
    <2> QED BY <2>2, <2>3
<1> QED BY <1>8, <1>9 DEF out
-----------------------------------------------------------------------------
(* What settleTasks does: of the offers it takes n, each for one new task, *)
(* and keeps m; those are the items of the list at the places p[1], ...,   *)
(* p[n + m].  Runners are told of new tasks only, and of their own.        *)
NewTasks(n) == (Len(matches) + 1) .. (Len(matches) + n)
Settled(offers, n, m, p) ==
    /\ \A k, l \in 1 .. (n + m) : p[k] = p[l] => k = l
    /\ pendingTaskOffers' \in Seq(Offer)
    /\ Len(pendingTaskOffers') = m
    /\ \A k \in 1 .. m : pendingTaskOffers'[k] = offers[p[n + k]]
    /\ matches' \in Seq(Match)
    /\ Len(matches') = Len(matches) + n
    /\ \A t \in 1 .. Len(matches) : matches'[t] = matches[t]
    /\ \A k \in 1 .. n : /\ matches'[Len(matches) + k].offer = offers[p[k]].id
                         /\ matches'[Len(matches) + k].runner = offers[p[k]].runner
    /\ acceptInProgress' \subseteq Requests
    /\ accepting' = accepting \cup NewTasks(n)
    /\ runnerAcceptRejects' = runnerAcceptRejects \cup NewTasks(n)
    /\ toRunner' \in [Runners -> Seq(ToRunner)]
    /\ \A r \in Runners : \A i \in DOMAIN toRunner'[r] :
          \/ i \in DOMAIN toRunner[r] /\ toRunner'[r][i] = toRunner[r][i]
          \/ /\ toRunner'[r][i].type = "taskofferaccept"
             /\ toRunner'[r][i].id \in NewTasks(n)
             /\ matches'[toRunner'[r][i].id].runner = r

(* The settling of valid offers, once it is clear which have expired. *)
LEMMA MatchedPairs ==
    ASSUME NEW valid \in Seq(Offer), NEW requests \in Seq(Requests), NEW busy
    PROVE  /\ Matched(valid, requests, busy) \in Seq(Match)
           /\ Len(Matched(valid, requests, busy)) <= Len(valid)
           /\ \A k \in 1 .. Len(Matched(valid, requests, busy)) :
                 /\ Matched(valid, requests, busy)[k].offer = valid[k].id
                 /\ Matched(valid, requests, busy)[k].runner = valid[k].runner
<1> DEFINE open == Open(requests, busy)
           n == IF Cardinality(open) < Len(valid) THEN Cardinality(open) ELSE Len(valid)
           pair(k) == [offer |-> valid[k].id, runner |-> valid[k].runner,
                       request |-> requests[Nth(open, k)]]
<1>1. open \in SUBSET (1 .. Len(requests)) /\ Len(requests) \in Nat /\ Len(valid) \in Nat
    BY DEF Open
<1>2. /\ Cardinality(open) \in Nat
      /\ \A k \in 1 .. Cardinality(open) : Nth(open, k) \in open
    BY <1>1, NthPlaces
<1>3. Matched(valid, requests, busy) = [k \in 1 .. n |-> pair(k)]
    BY DEF Matched
<1> HIDE DEF open
<1>4. n \in Nat /\ n <= Len(valid) /\ n <= Cardinality(open)
    BY <1>1, <1>2
<1> HIDE DEF n
<1>5. ASSUME NEW k \in 1 .. n PROVE pair(k) \in Match
    <2>1. k \in 1 .. Len(valid) /\ k \in 1 .. Cardinality(open)
        BY <1>1, <1>2, <1>4
    <2>2. requests[Nth(open, k)] \in Requests
        <3>1. Nth(open, k) \in 1 .. Len(requests)
            BY <1>1, <1>2, <2>1
        <3> QED BY <3>1
    <2>3. valid[k] \in Offer
        BY <2>1
    <2> QED BY <2>2, <2>3 DEF Match, Offer
<1>6. [k \in 1 .. n |-> pair(k)] \in Seq(Match)
    BY <1>4, <1>5, IsASeq
<1>7. Len([k \in 1 .. n |-> pair(k)]) = n
    BY <1>4, <1>6
<1> QED BY <1>3, <1>4, <1>6, <1>7

(* settleTasks settles. *)
LEMMA SettleEffect ==
    ASSUME TypeOK, NEW offers \in Seq(Offer), NEW requests \in Seq(Requests),
           settleTasks(offers, requests)
    PROVE  \E n, m \in Nat : \E p \in [1 .. (n + m) -> DOMAIN offers] :
               Settled(offers, n, m, p)
<1>1. PICK expired \in SUBSET Expiring(offers) :
        LET valid == AtPlaces(offers, {i \in DOMAIN offers : offers[i].id \notin expired})
            new == Matched(valid, requests, acceptInProgress)
            ids == (Len(matches) + 1) .. (Len(matches) + Len(new))
            told(r) == AtPlaces([k \in DOMAIN new |->
                                    Message("taskofferaccept", Len(matches) + k)],
                                {k \in DOMAIN new : new[k].runner = r})
        IN  /\ pendingTaskOffers' = SubSeq(valid, Len(new) + 1, Len(valid))
            /\ acceptInProgress' = acceptInProgress \cup {new[k].request : k \in DOMAIN new}
            /\ matches' = matches \o new
            /\ accepting' = accepting \cup ids
            /\ runnerAcceptRejects' = runnerAcceptRejects \cup ids
            /\ toRunner' = [r \in Runners |-> Sent(toRunner, r, told(r))[r]]
    BY DEF settleTasks
<1> DEFINE P == {i \in DOMAIN offers : offers[i].id \notin expired}
           valid == AtPlaces(offers, P)
           new == Matched(valid, requests, acceptInProgress)
           n == Len(new)
           m == Len(valid) - Len(new)
           p == [k \in 1 .. (n + m) |-> Nth(P, k)]
           accepts == [k \in DOMAIN new |-> Message("taskofferaccept", Len(matches) + k)]
           own(r) == {k \in DOMAIN new : new[k].runner = r}
           told(r) == AtPlaces(accepts, own(r))
<1>2. /\ pendingTaskOffers' = SubSeq(valid, n + 1, Len(valid))
      /\ acceptInProgress' = acceptInProgress \cup {new[k].request : k \in DOMAIN new}
      /\ matches' = matches \o new
      /\ accepting' = accepting \cup NewTasks(n)
      /\ runnerAcceptRejects' = runnerAcceptRejects \cup NewTasks(n)
      /\ toRunner' = [r \in Runners |-> Sent(toRunner, r, told(r))[r]]
    BY <1>1 DEF NewTasks
<1>3. /\ valid \in Seq(Offer)
      /\ \A k \in 1 .. Len(valid) : Nth(P, k) \in P /\ valid[k] = offers[Nth(P, k)]
      /\ \A k, l \in 1 .. Len(valid) : Nth(P, k) = Nth(P, l) => k = l
    BY AtPlacesPick
<1> HIDE DEF valid
<1>4. /\ new \in Seq(Match)
      /\ n <= Len(valid)
      /\ \A k \in 1 .. n : new[k].offer = valid[k].id /\ new[k].runner = valid[k].runner
    BY <1>3, MatchedPairs
<1> HIDE DEF new
<1>5. n \in Nat /\ m \in Nat /\ n + m = Len(valid) /\ DOMAIN new = 1 .. n
    BY <1>3, <1>4
<1>6. p \in [1 .. (n + m) -> DOMAIN offers]
    BY <1>3, <1>5
<1>7. matches \in Seq(Match) /\ Len(matches) \in Nat
    BY DEF TypeOK
<1>8. /\ pendingTaskOffers' \in Seq(Offer)
      /\ Len(pendingTaskOffers') = m
      /\ \A k \in 1 .. m : pendingTaskOffers'[k] = valid[n + k]
    <2>1. n + 1 \in 1 .. Len(valid) + 1 /\ Len(valid) \in n .. Len(valid)
        BY <1>3, <1>5
    <2>2. /\ SubSeq(valid, n + 1, Len(valid)) \in Seq(Offer)
          /\ Len(SubSeq(valid, n + 1, Len(valid))) = IF n + 1 <= Len(valid) THEN m ELSE 0
          /\ \A k \in 1 .. m : SubSeq(valid, n + 1, Len(valid))[k] = valid[n + k]
        <3>1. /\ SubSeq(valid, n + 1, Len(valid)) \in Seq(Offer)
              /\ Len(SubSeq(valid, n + 1, Len(valid))) = IF n + 1 <= Len(valid) THEN m ELSE 0
            BY <1>3, <1>5, <2>1
        <3>2. ASSUME NEW k \in 1 .. m
              PROVE  SubSeq(valid, n + 1, Len(valid))[k] = valid[n + k]
            <4>1. n \in Nat /\ m \in Nat /\ Len(valid) \in Nat /\ n + m = Len(valid)
                BY <1>3, <1>5
            <4> HIDE DEF n, m
            <4>2. k \in 1 .. (Len(valid) - (n + 1) + 1) /\ (n + 1) + k - 1 = n + k
                BY <4>1
            <4>3. \A i \in (n + 1) .. Len(valid) : valid[i] \in Offer
                BY <1>3, <4>1
            <4>4. \A i \in 1 .. (Len(valid) - (n + 1) + 1) :
                     SubSeq(valid, n + 1, Len(valid))[i] = valid[(n + 1) + i - 1]
                BY <4>1, <4>3, SubSeqProperties
            <4> QED BY <4>2, <4>4
        <3> QED BY <3>1, <3>2
    <2>3. m = IF n + 1 <= Len(valid) THEN m ELSE 0
        <3>1. n \in Nat /\ m \in Nat /\ n + m = Len(valid)
            BY <1>5
        <3> HIDE DEF n, m
        <3> QED BY <3>1
    <2>4. pendingTaskOffers' = SubSeq(valid, n + 1, Len(valid))
        BY <1>2
    <2> HIDE DEF n, m
    <2> QED BY <2>2, <2>3, <2>4
<1>9. /\ matches' \in Seq(Match)
      /\ Len(matches') = Len(matches) + n
      /\ \A t \in 1 .. Len(matches) : matches'[t] = matches[t]
      /\ \A k \in 1 .. n : matches'[Len(matches) + k] = new[k]
    BY <1>2, <1>4, <1>5, <1>7
<1>10. acceptInProgress' \subseteq Requests
    <2>1. ASSUME NEW k \in 1 .. n PROVE new[k].request \in Requests
        <3>1. new[k] \in Match
            BY <1>4
        <3> QED BY <3>1 DEF Match
    <2> QED BY <1>2, <1>5, <2>1 DEF TypeOK
<1>11. /\ accepts \in Seq(ToRunner)
       /\ Len(accepts) = n
       /\ \A k \in 1 .. n : accepts[k] = Message("taskofferaccept", Len(matches) + k)
    <2>1. \A k \in 1 .. n : Message("taskofferaccept", Len(matches) + k) \in ToRunner
        BY <1>5, <1>7 DEF Message, ToRunner
    <2>2. accepts = [k \in 1 .. n |-> Message("taskofferaccept", Len(matches) + k)]
        BY <1>5
    <2>3. accepts \in Seq(ToRunner)
        BY <1>5, <2>1, <2>2, IsASeq
    <2> QED BY <1>5, <2>2, <2>3
<1> HIDE DEF accepts
<1>12. ASSUME NEW r \in Runners
       PROVE  /\ told(r) \in Seq(ToRunner)
              /\ \A i \in 1 .. Len(told(r)) :
                    /\ told(r)[i].type = "taskofferaccept"
                    /\ told(r)[i].id \in NewTasks(n)
                    /\ matches'[told(r)[i].id].runner = r
    <2>1. own(r) \in SUBSET (DOMAIN accepts)
        BY <1>5, <1>11
    <2>2. /\ told(r) \in Seq(ToRunner)
          /\ \A i \in 1 .. Len(told(r)) :
                Nth(own(r), i) \in own(r) /\ told(r)[i] = accepts[Nth(own(r), i)]
        BY <1>11, <2>1, AtPlacesPick
    <2> HIDE DEF told
    <2>3. ASSUME NEW k \in own(r)
          PROVE  /\ accepts[k].type = "taskofferaccept"
                 /\ accepts[k].id = Len(matches) + k
                 /\ accepts[k].id \in NewTasks(n)
                 /\ matches'[accepts[k].id].runner = r
        <3>1. k \in 1 .. n /\ new[k].runner = r
            BY <1>5
        <3>2. accepts[k].type = "taskofferaccept" /\ accepts[k].id = Len(matches) + k
            <4>1. accepts[k] = [type |-> "taskofferaccept", id |-> Len(matches) + k]
                BY <1>11, <3>1 DEF Message
            <4> QED BY <4>1
        <3>3. Len(matches) + k \in NewTasks(n)
            BY <1>5, <1>7, <3>1 DEF NewTasks
        <3> QED BY <1>9, <3>1, <3>2, <3>3
    <2> QED BY <2>2, <2>3
<1>13. ASSUME NEW r \in Runners
       PROVE  toRunner'[r] = IF link[r] = "up" THEN toRunner[r] \o told(r) ELSE toRunner[r]
    BY <1>2 DEF Sent, TypeOK
<1> HIDE DEF told
<1>14. toRunner \in [Runners -> Seq(ToRunner)]
    BY DEF TypeOK
<1>15. ASSUME NEW r \in Runners PROVE toRunner'[r] \in Seq(ToRunner)
    <2>1. toRunner[r] \in Seq(ToRunner) /\ told(r) \in Seq(ToRunner)
        BY <1>12, <1>14
    <2>2. toRunner[r] \o told(r) \in Seq(ToRunner)
        BY <2>1, ConcatProperties
    <2> QED BY <1>13, <2>1, <2>2
<1>16. toRunner' \in [Runners -> Seq(ToRunner)]
    BY <1>2, <1>15
<1>17. ASSUME NEW r \in Runners, NEW i \in DOMAIN toRunner'[r]
       PROVE  \/ i \in DOMAIN toRunner[r] /\ toRunner'[r][i] = toRunner[r][i]
              \/ /\ toRunner'[r][i].type = "taskofferaccept"
                 /\ toRunner'[r][i].id \in NewTasks(n)
                 /\ matches'[toRunner'[r][i].id].runner = r
    <2>1. CASE link[r] # "up"
        BY <1>13, <1>17, <2>1
    <2>2. CASE link[r] = "up"
        <3>1. toRunner'[r] = toRunner[r] \o told(r) /\ told(r) \in Seq(ToRunner)
            BY <1>12, <1>13, <2>2
        <3>2. CASE i \in DOMAIN toRunner[r]
            BY <1>14, <3>1, <3>2
        <3>3. CASE i \notin DOMAIN toRunner[r]
            <4>1. /\ i - Len(toRunner[r]) \in 1 .. Len(told(r))
                  /\ toRunner'[r][i] = told(r)[i - Len(toRunner[r])]
                BY <1>14, <1>17, <3>1, <3>3
            <4> QED BY <1>12, <4>1
        <3> QED BY <3>2, <3>3
    <2> QED BY <2>1, <2>2
<1>18. /\ \A k, l \in 1 .. (n + m) : p[k] = p[l] => k = l
       /\ \A k \in 1 .. m : pendingTaskOffers'[k] = offers[p[n + k]]
       /\ \A k \in 1 .. n : /\ matches'[Len(matches) + k].offer = offers[p[k]].id
                            /\ matches'[Len(matches) + k].runner = offers[p[k]].runner
    <2>1. \A k \in 1 .. (n + m) : p[k] = Nth(P, k) /\ valid[k] = offers[p[k]]
        BY <1>3, <1>5
    <2>2. \A k, l \in 1 .. (n + m) : p[k] = p[l] => k = l
        BY <1>3, <1>5, <2>1
    <2> HIDE DEF p
    <2>3. \A k \in 1 .. m : n + k \in 1 .. (n + m)
        BY <1>5
    <2>4. \A k \in 1 .. n : k \in 1 .. (n + m)
        BY <1>5
    <2>5. \A k \in 1 .. m : pendingTaskOffers'[k] = offers[p[n + k]]
        BY <1>8, <2>1, <2>3
    <2>6. \A k \in 1 .. n : /\ new[k].offer = offers[p[k]].id
                             /\ new[k].runner = offers[p[k]].runner
        BY <1>4, <2>1, <2>4
    <2> QED BY <1>9, <2>2, <2>5, <2>6
<1> HIDE DEF n, m, p
<1>19. Settled(offers, n, m, p)
    BY <1>2, <1>8, <1>9, <1>10, <1>16, <1>17, <1>18 DEF Settled
<1> QED BY <1>5, <1>6, <1>19
-----------------------------------------------------------------------------
(* The inductive invariant *)

(* A message between the broker and a runner is about a task of that       *)
(* runner, but for the offers.                                             *)
IsOffer(m) == m.type = "taskoffer"
TaskOf(r, m) == m.id \in DOMAIN matches /\ runnerOf(m.id) = r
MessagesNameTasks ==
    \A r \in Runners :
        /\ \A i \in DOMAIN toRunner[r] : TaskOf(r, toRunner[r][i])
        /\ \A i \in DOMAIN toBroker[r] : IsOffer(toBroker[r][i]) \/ TaskOf(r, toBroker[r][i])

(* An offer that was made is on its way, in the list, or matched, and that *)
(* once: the offers of a list are fresh to a state that has none of them.  *)
OffersOnTheWayApart ==
    \A r, s \in Runners : \A i \in DOMAIN toBroker[r], j \in DOMAIN toBroker[s] :
        /\ IsOffer(toBroker[r][i]) /\ IsOffer(toBroker[s][j])
        /\ toBroker[r][i].id = toBroker[s][j].id
        => r = s /\ i = j
Listed(offers) ==
    /\ \A k, l \in DOMAIN offers : offers[k].id = offers[l].id => k = l
    /\ \A k \in DOMAIN offers : offers[k].id <= offersMade
Unmatched(o) == \A t \in DOMAIN matches : matches[t].offer # o
OffersOnTheWayNew ==
    \A r \in Runners : \A i \in DOMAIN toBroker[r] :
        IsOffer(toBroker[r][i]) =>
            /\ toBroker[r][i].id <= offersMade
            /\ Unmatched(toBroker[r][i].id)
            /\ \A k \in DOMAIN pendingTaskOffers : pendingTaskOffers[k].id # toBroker[r][i].id
OffersAreApart ==
    /\ OffersOnTheWayApart
    /\ OffersOnTheWayNew
    /\ Listed(pendingTaskOffers)
    /\ OfferUsedOnce
    /\ \A t \in DOMAIN matches : matches[t].offer <= offersMade

(* What a runner times is a task it runs, and launchers run none. *)
RunnersKeep ==
    /\ runnerTimers \subseteq DOMAIN runningTasks
    /\ \A t \in DOMAIN runningTasks : runnerOf(t) \notin Launchers

(* Settings are sent once, when the offer is no longer being accepted; the *)
(* task waits for them until they come.                                    *)
Waits(t) == Running(t) => runningTasks[t] = "waitingForSettings"
IsSettings(m) == m.type = "tasksettings"
SettingsOnce ==
    /\ \A t \in accepting : Waits(t)
    /\ \A r \in Runners : \A i \in DOMAIN toRunner[r] :
          IsSettings(toRunner[r][i]) =>
              /\ toRunner[r][i].id \notin accepting
              /\ Waits(toRunner[r][i].id)
              /\ \A j \in DOMAIN toRunner[r] : toRunner[r][j] = toRunner[r][i] => j = i

Channels == MessagesNameTasks /\ OffersAreApart
Rooms == RunnersKeep /\ OffersWithinCapacity
Waiters == WaitersAreTracked /\ OneTaskPerRequest
IInv == TypeOK /\ Channels /\ Rooms /\ SettingsOnce /\ Waiters

(* The invariant holds at first. *)
LEMMA InitInv == Init => IInv
<1> SUFFICES ASSUME Init PROVE IInv
    OBVIOUS
<1>1. DOMAIN matches = {} /\ DOMAIN pendingTaskOffers = {} /\ DOMAIN runningTasks = {}
    BY DEF Init
<1>2. \A r \in Runners : DOMAIN toBroker[r] = {} /\ DOMAIN toRunner[r] = {}
    BY DEF Init
<1>3. TypeOK
    BY <1>1, RunnersAssumption DEF Init, TypeOK
<1>4. Channels
    BY <1>1, <1>2 DEF Channels, MessagesNameTasks, OffersAreApart, OffersOnTheWayApart,
                      OffersOnTheWayNew, Listed, OfferUsedOnce
<1>5. Rooms
    <2>1. \A r \in Runners : openOffers[r] = {} /\ TasksOf(r) = {}
        BY <1>1 DEF Init, TasksOf
    <2>2. OffersWithinCapacity
        BY <2>1, FS_EmptySet, RunnersAssumption DEF OffersWithinCapacity
    <2> QED BY <1>1, <2>2 DEF Rooms, RunnersKeep, Init
<1>6. SettingsOnce
    BY <1>2 DEF SettingsOnce, Init
<1>7. Waiters
    BY DEF Waiters, WaitersAreTracked, OneTaskPerRequest, Init
<1> QED BY <1>3, <1>4, <1>5, <1>6, <1>7 DEF IInv
-----------------------------------------------------------------------------
(* What steps do to the connections *)

(* A connection loses messages, from the front or from the back. *)
Cut(new, old) ==
    \A r \in Runners : \E d \in Nat : \A i \in DOMAIN new[r] :
        i + d \in DOMAIN old[r] /\ new[r][i] = old[r][i + d]

(* Nothing happened, or the first message was taken. *)
LEMMA CutSame ==
    ASSUME NEW M, NEW old \in [Runners -> Seq(M)]
    PROVE  Cut(old, old)
<1> SUFFICES ASSUME NEW r \in Runners
             PROVE  \E d \in Nat : \A i \in DOMAIN old[r] :
                        i + d \in DOMAIN old[r] /\ old[r][i] = old[r][i + d]
    BY DEF Cut
<1>1. old[r] \in Seq(M)
    OBVIOUS
<1>2. \A i \in DOMAIN old[r] : i + 0 = i
    BY <1>1
<1> QED BY <1>2

LEMMA CutHead ==
    ASSUME NEW M, NEW old \in [Runners -> Seq(M)], NEW r \in Runners, old[r] # <<>>,
           NEW new, new = [old EXCEPT ![r] = Tail(@)]
    PROVE  new \in [Runners -> Seq(M)] /\ Cut(new, old)
<1>1. /\ Tail(old[r]) \in Seq(M)
      /\ Len(Tail(old[r])) = Len(old[r]) - 1
      /\ \A i \in 1 .. Len(Tail(old[r])) : Tail(old[r])[i] = old[r][i + 1]
    BY HeadTailProperties
<1>2. new \in [Runners -> Seq(M)]
    BY <1>1
<1>3. ASSUME NEW s \in Runners
      PROVE  \E d \in Nat : \A i \in DOMAIN new[s] :
                 i + d \in DOMAIN old[s] /\ new[s][i] = old[s][i + d]
    <2>1. CASE s = r
        <3>1. new[s] = Tail(old[r]) /\ old[r] \in Seq(M) /\ DOMAIN new[s] = 1 .. Len(new[s])
            BY <1>1, <2>1
        <3>2. \A i \in DOMAIN new[s] : i + 1 \in DOMAIN old[s] /\ new[s][i] = old[s][i + 1]
            BY <1>1, <2>1, <3>1
        <3> QED BY <3>2
    <2>2. CASE s # r
        <3>1. new[s] = old[s]
            BY <2>2
        <3>2. \E d \in Nat : \A i \in DOMAIN old[s] :
                 i + d \in DOMAIN old[s] /\ old[s][i] = old[s][i + d]
            <4>1. Cut(old, old)
                BY CutSame
            <4> QED BY <4>1 DEF Cut
        <3> QED BY <3>1, <3>2
    <2> QED BY <2>1, <2>2
<1> QED BY <1>2, <1>3 DEF Cut

LEMMA CutBack ==
    ASSUME NEW M, NEW old \in [Runners -> Seq(M)], NEW r \in Runners,
           NEW n \in 0 .. Len(old[r]), NEW new,
           new = [old EXCEPT ![r] = SubSeq(@, 1, n)]
    PROVE  new \in [Runners -> Seq(M)] /\ Cut(new, old)
<1>1. n \in Nat /\ old[r] \in Seq(M)
    OBVIOUS
<1>2. /\ SubSeq(old[r], 1, n) \in Seq(M)
      /\ Len(SubSeq(old[r], 1, n)) = n
      /\ \A i \in 1 .. n : SubSeq(old[r], 1, n)[i] = old[r][i]
    BY <1>1
<1>3. new \in [Runners -> Seq(M)]
    BY <1>2
<1>4. ASSUME NEW s \in Runners
      PROVE  \E d \in Nat : \A i \in DOMAIN new[s] :
                 i + d \in DOMAIN old[s] /\ new[s][i] = old[s][i + d]
    <2>1. CASE s = r
        <3>1. new[s] = SubSeq(old[r], 1, n) /\ DOMAIN new[s] = 1 .. n
            BY <1>2, <2>1
        <3>2. \A i \in DOMAIN new[s] : i + 0 \in DOMAIN old[s] /\ new[s][i] = old[s][i + 0]
            BY <1>1, <1>2, <2>1, <3>1
        <3> QED BY <3>2
    <2>2. CASE s # r
        <3>1. new[s] = old[s]
            BY <2>2
        <3>2. \E d \in Nat : \A i \in DOMAIN old[s] :
                 i + d \in DOMAIN old[s] /\ old[s][i] = old[s][i + d]
            <4>1. Cut(old, old)
                BY CutSame
            <4> QED BY <4>1 DEF Cut
        <3> QED BY <3>1, <3>2
    <2> QED BY <2>1, <2>2
<1> QED BY <1>3, <1>4 DEF Cut

(* All of it is gone. *)
LEMMA CutAll ==
    ASSUME NEW M, NEW old \in [Runners -> Seq(M)], NEW r \in Runners, NEW new,
           new = [old EXCEPT ![r] = <<>>]
    PROVE  new \in [Runners -> Seq(M)] /\ Cut(new, old)
<1>1. new \in [Runners -> Seq(M)]
    OBVIOUS
<1>2. ASSUME NEW s \in Runners
      PROVE  \E d \in Nat : \A i \in DOMAIN new[s] :
                 i + d \in DOMAIN old[s] /\ new[s][i] = old[s][i + d]
    <2>1. CASE s = r
        <3>1. DOMAIN new[s] = {}
            BY <2>1
        <3> QED BY <3>1
    <2>2. CASE s # r
        <3>1. new[s] = old[s]
            BY <2>2
        <3>2. \E d \in Nat : \A i \in DOMAIN old[s] :
                 i + d \in DOMAIN old[s] /\ old[s][i] = old[s][i + d]
            <4>1. Cut(old, old)
                BY CutSame
            <4> QED BY <4>1 DEF Cut
        <3> QED BY <3>1, <3>2
    <2> QED BY <2>1, <2>2
<1> QED BY <1>1, <1>2 DEF Cut

(* A message is told to a runner, or is lost with its connection. *)
LEMMA TellEffect ==
    ASSUME TypeOK, NEW r \in Runners, NEW type, NEW t,
           Message(type, t) \in ToRunner, Tell(r, type, t)
    PROVE  /\ toRunner' \in [Runners -> Seq(ToRunner)]
           /\ \A s \in Runners : \A i \in DOMAIN toRunner'[s] :
                 \/ i \in DOMAIN toRunner[s] /\ toRunner'[s][i] = toRunner[s][i]
                 \/ /\ s = r /\ i = Len(toRunner[s]) + 1
                    /\ toRunner'[s][i] = Message(type, t)
<1>1. toRunner \in [Runners -> Seq(ToRunner)]
    BY DEF TypeOK
<1>2. toRunner' = IF link[r] = "up"
                  THEN [toRunner EXCEPT ![r] = @ \o <<Message(type, t)>>] ELSE toRunner
    BY DEF Tell, Sent
<1>3. /\ toRunner[r] \o <<Message(type, t)>> \in Seq(ToRunner)
      /\ Len(toRunner[r] \o <<Message(type, t)>>) = Len(toRunner[r]) + 1
      /\ \A i \in 1 .. Len(toRunner[r]) :
            (toRunner[r] \o <<Message(type, t)>>)[i] = toRunner[r][i]
      /\ (toRunner[r] \o <<Message(type, t)>>)[Len(toRunner[r]) + 1] = Message(type, t)
    BY <1>1
<1>4. toRunner' \in [Runners -> Seq(ToRunner)]
    BY <1>1, <1>2, <1>3
<1>5. ASSUME NEW s \in Runners, NEW i \in DOMAIN toRunner'[s]
      PROVE  \/ i \in DOMAIN toRunner[s] /\ toRunner'[s][i] = toRunner[s][i]
             \/ /\ s = r /\ i = Len(toRunner[s]) + 1
                /\ toRunner'[s][i] = Message(type, t)
    <2>1. CASE link[r] = "up" /\ s = r
        <3>1. toRunner'[s] = toRunner[r] \o <<Message(type, t)>>
            BY <1>1, <1>2, <2>1
        <3>2. i \in 1 .. Len(toRunner[r]) + 1
            BY <1>3, <3>1
        <3> QED BY <1>1, <1>3, <2>1, <3>1, <3>2
    <2>2. CASE ~(link[r] = "up" /\ s = r)
        <3>1. toRunner'[s] = toRunner[s]
            BY <1>1, <1>2, <2>2
        <3> QED BY <3>1
    <2> QED BY <2>1, <2>2
<1> QED BY <1>4, <1>5
-----------------------------------------------------------------------------
(* What steps preserve, by what they do to the connections *)

(* What is in the list of offers after the step was in it before. *)
ListShrinks ==
    /\ Listed(pendingTaskOffers)'
    /\ \A k \in DOMAIN pendingTaskOffers' : \E l \in DOMAIN pendingTaskOffers :
          pendingTaskOffers'[k] = pendingTaskOffers[l]

(* Offers stay apart when messages are lost or taken. *)
LEMMA CutApart ==
    ASSUME OffersOnTheWayApart,
           toBroker' \in [Runners -> Seq(ToBroker)], Cut(toBroker', toBroker)
    PROVE  OffersOnTheWayApart'
<1> SUFFICES ASSUME NEW r \in Runners, NEW s \in Runners,
                    NEW i \in DOMAIN toBroker'[r], NEW j \in DOMAIN toBroker'[s],
                    IsOffer(toBroker'[r][i]), IsOffer(toBroker'[s][j]),
                    toBroker'[r][i].id = toBroker'[s][j].id
             PROVE  r = s /\ i = j
    BY DEF OffersOnTheWayApart, IsOffer
<1>1. PICK d \in Nat : \A h \in DOMAIN toBroker'[r] :
          h + d \in DOMAIN toBroker[r] /\ toBroker'[r][h] = toBroker[r][h + d]
    BY DEF Cut
<1>2. PICK h \in DOMAIN toBroker[s] : toBroker'[s][j] = toBroker[s][h]
    BY DEF Cut
<1>3. r = s
    <2>1. i + d \in DOMAIN toBroker[r] /\ toBroker'[r][i] = toBroker[r][i + d]
        BY <1>1
    <2>2. IsOffer(toBroker[r][i + d]) /\ IsOffer(toBroker[s][h])
        BY <1>2, <2>1
    <2>3. toBroker[r][i + d].id = toBroker[s][h].id
        BY <1>2, <2>1
    <2> QED BY <2>1, <2>2, <2>3 DEF OffersOnTheWayApart
<1>4. /\ i + d \in DOMAIN toBroker[r] /\ toBroker'[r][i] = toBroker[r][i + d]
      /\ j + d \in DOMAIN toBroker[r] /\ toBroker'[r][j] = toBroker[r][j + d]
    BY <1>1, <1>3
<1>5. i + d = j + d
    BY <1>3, <1>4 DEF OffersOnTheWayApart
<1>6. i \in Nat /\ j \in Nat
    <2>1. toBroker'[r] \in Seq(ToBroker)
        OBVIOUS
    <2> QED BY <1>3, <2>1
<1> QED BY <1>3, <1>5, <1>6

(* Messages to the broker are lost or taken, and no offers are made. *)
LEMMA QuietChannels ==
    ASSUME IInv, UNCHANGED <<matches, offersMade>>, ListShrinks,
           toBroker' \in [Runners -> Seq(ToBroker)], Cut(toBroker', toBroker),
           \A s \in Runners : \A i \in DOMAIN toRunner'[s] :
               \/ i \in DOMAIN toRunner[s] /\ toRunner'[s][i] = toRunner[s][i]
               \/ TaskOf(s, toRunner'[s][i])
    PROVE  Channels'
<1>1. MessagesNameTasks /\ OffersAreApart
    BY DEF IInv, Channels
<1>2. \A r \in Runners : \A i \in DOMAIN toBroker'[r] : \E j \in DOMAIN toBroker[r] :
         toBroker'[r][i] = toBroker[r][j]
    BY DEF Cut
<1>3. MessagesNameTasks'
    BY <1>1, <1>2 DEF MessagesNameTasks, TaskOf, IsOffer, runnerOf
<1>4. OffersOnTheWayApart'
    BY <1>1, CutApart DEF OffersAreApart
<1>5. OffersOnTheWayNew'
    BY <1>1, <1>2 DEF OffersAreApart, OffersOnTheWayNew, ListShrinks, IsOffer, Unmatched
<1>6. OffersAreApart'
    <2>1. OfferUsedOnce'
        BY <1>1 DEF OffersAreApart, OfferUsedOnce, ListShrinks
    <2> QED BY <1>1, <1>4, <1>5, <2>1 DEF OffersAreApart, ListShrinks
<1> QED BY <1>3, <1>6 DEF Channels

(* A runner says something about its tasks, or makes k offers, all new. *)
Said(r, says, k, c) ==
    /\ toBroker' \in [Runners -> Seq(ToBroker)]
    /\ \A s \in Runners \ {r} : toBroker'[s] = toBroker[s]
    /\ \A i \in DOMAIN toBroker'[r] :
          \/ i \in DOMAIN toBroker[r] /\ toBroker'[r][i] = toBroker[r][i]
          \/ toBroker'[r][i] \in says
          \/ i - c \in 1 .. k /\ toBroker'[r][i] = Message("taskoffer", offersMade + (i - c))

LEMMA SaidChannels ==
    ASSUME IInv, UNCHANGED <<matches, pendingTaskOffers>>,
           NEW r \in Runners, NEW says, NEW k \in Nat, NEW c \in Int, Said(r, says, k, c),
           offersMade' = offersMade + k,
           \A m \in says : ~IsOffer(m) /\ TaskOf(r, m),
           Cut(toRunner', toRunner)
    PROVE  Channels'
<1>1. /\ MessagesNameTasks /\ OffersAreApart
      /\ offersMade \in Nat /\ pendingTaskOffers \in Seq(Offer) /\ matches \in Seq(Match)
      /\ toBroker \in [Runners -> Seq(ToBroker)]
    BY DEF IInv, Channels, TypeOK
<1> DEFINE Old(s, i) == i \in DOMAIN toBroker[s] /\ toBroker'[s][i] = toBroker[s][i]
           New(s, i) == /\ s = r /\ i - c \in 1 .. k
                        /\ toBroker'[s][i] = Message("taskoffer", offersMade + (i - c))
<1>2. ASSUME NEW s \in Runners, NEW i \in DOMAIN toBroker'[s]
      PROVE  Old(s, i) \/ New(s, i) \/ (s = r /\ toBroker'[s][i] \in says)
    <2>1. CASE s = r
        BY <2>1 DEF Said
    <2>2. CASE s # r
        <3>1. toBroker'[s] = toBroker[s]
            BY <2>2 DEF Said
        <3> QED BY <3>1
    <2> QED BY <2>1, <2>2
<1>3. ASSUME NEW s \in Runners, NEW i \in DOMAIN toBroker'[s], New(s, i)
      PROVE  /\ IsOffer(toBroker'[s][i]) /\ i \in Int
             /\ toBroker'[s][i].id = offersMade + (i - c)
             /\ toBroker'[s][i].id > offersMade /\ toBroker'[s][i].id <= offersMade'
    <2>1. toBroker'[s][i] = [type |-> "taskoffer", id |-> offersMade + (i - c)]
        BY <1>3 DEF Message
    <2>2. i \in Int
        BY DEF Said
    <2>3. offersMade + (i - c) > offersMade /\ offersMade + (i - c) <= offersMade'
        BY <1>1, <1>3, <2>2
    <2> QED BY <2>1, <2>2, <2>3 DEF IsOffer
<1>4. ASSUME NEW s \in Runners, NEW i \in DOMAIN toBroker'[s], IsOffer(toBroker'[s][i])
      PROVE  Old(s, i) \/ New(s, i)
    BY <1>2, <1>4
<1>5. ASSUME NEW s \in Runners, NEW i \in DOMAIN toBroker'[s], IsOffer(toBroker'[s][i]),
             Old(s, i)
      PROVE  /\ toBroker'[s][i].id \in Nat /\ toBroker'[s][i].id <= offersMade
             /\ Unmatched(toBroker'[s][i].id)
             /\ \A l \in DOMAIN pendingTaskOffers :
                   pendingTaskOffers[l].id # toBroker'[s][i].id
    <2>1. toBroker[s][i] \in ToBroker
        BY <1>1, <1>5
    <2>2. toBroker'[s][i].id \in Nat
        BY <1>5, <2>1 DEF ToBroker
    <2> QED BY <1>1, <1>5, <2>2 DEF OffersAreApart, OffersOnTheWayNew
<1>6. MessagesNameTasks'
    <2>1. ASSUME NEW s \in Runners, NEW i \in DOMAIN toBroker'[s]
          PROVE  IsOffer(toBroker'[s][i]) \/ TaskOf(s, toBroker'[s][i])
        <3>1. CASE Old(s, i)
            <4>1. IsOffer(toBroker[s][i]) \/ TaskOf(s, toBroker[s][i])
                BY <1>1, <3>1 DEF MessagesNameTasks
            <4> QED BY <3>1, <4>1
        <3>2. CASE New(s, i)
            BY <1>3, <3>2
        <3>3. CASE s = r /\ toBroker'[s][i] \in says
            BY <3>3
        <3> QED BY <1>2, <3>1, <3>2, <3>3
    <2>2. ASSUME NEW s \in Runners, NEW i \in DOMAIN toRunner'[s]
          PROVE  TaskOf(s, toRunner'[s][i])
        BY <1>1 DEF MessagesNameTasks, Cut
    <2> QED BY <2>1, <2>2 DEF MessagesNameTasks, TaskOf, runnerOf, IsOffer
<1>7. OffersOnTheWayApart'
    <2> SUFFICES ASSUME NEW s \in Runners, NEW u \in Runners,
                        NEW i \in DOMAIN toBroker'[s], NEW j \in DOMAIN toBroker'[u],
                        IsOffer(toBroker'[s][i]), IsOffer(toBroker'[u][j]),
                        toBroker'[s][i].id = toBroker'[u][j].id
                 PROVE  s = u /\ i = j
        BY DEF OffersOnTheWayApart, IsOffer
    <2>1. CASE Old(s, i) /\ Old(u, j)
        <3>1. /\ i \in DOMAIN toBroker[s] /\ j \in DOMAIN toBroker[u]
              /\ IsOffer(toBroker[s][i]) /\ IsOffer(toBroker[u][j])
              /\ toBroker[s][i].id = toBroker[u][j].id
            BY <2>1
        <3> QED BY <1>1, <3>1 DEF OffersAreApart, OffersOnTheWayApart
    <2>2. CASE Old(s, i) /\ New(u, j)
        <3>1. toBroker'[s][i].id \in Nat /\ toBroker'[s][i].id <= offersMade
            BY <1>5, <2>2
        <3>2. toBroker'[u][j].id > offersMade
            BY <1>3, <2>2
        <3> QED BY <1>1, <3>1, <3>2
    <2>3. CASE New(s, i) /\ Old(u, j)
        <3>1. toBroker'[u][j].id \in Nat /\ toBroker'[u][j].id <= offersMade
            BY <1>5, <2>3
        <3>2. toBroker'[s][i].id > offersMade
            BY <1>3, <2>3
        <3> QED BY <1>1, <3>1, <3>2
    <2>4. CASE New(s, i) /\ New(u, j)
        <3>1. s = u /\ offersMade + (i - c) = offersMade + (j - c) /\ i \in Int /\ j \in Int
            BY <1>3, <2>4
        <3> QED BY <1>1, <3>1
    <2> QED BY <1>4, <2>1, <2>2, <2>3, <2>4
<1>8. ASSUME NEW o \in Int, o > offersMade
      PROVE  Unmatched(o) /\ \A l \in DOMAIN pendingTaskOffers : pendingTaskOffers[l].id # o
    <2>1. ASSUME NEW t \in DOMAIN matches PROVE matches[t].offer # o
        <3>1. matches[t] \in Match /\ matches[t].offer <= offersMade
            BY <1>1 DEF OffersAreApart
        <3> QED BY <1>1, <1>8, <3>1 DEF Match
    <2>2. ASSUME NEW l \in DOMAIN pendingTaskOffers PROVE pendingTaskOffers[l].id # o
        <3>1. pendingTaskOffers[l] \in Offer /\ pendingTaskOffers[l].id <= offersMade
            BY <1>1 DEF OffersAreApart, Listed
        <3> QED BY <1>1, <1>8, <3>1 DEF Offer
    <2> QED BY <2>1, <2>2 DEF Unmatched
<1>9. ASSUME NEW s \in Runners, NEW i \in DOMAIN toBroker'[s], IsOffer(toBroker'[s][i])
      PROVE  /\ toBroker'[s][i].id <= offersMade'
             /\ Unmatched(toBroker'[s][i].id)
             /\ \A l \in DOMAIN pendingTaskOffers :
                   pendingTaskOffers[l].id # toBroker'[s][i].id
    <2>1. CASE Old(s, i)
        BY <1>1, <1>5, <1>9, <2>1
    <2>2. CASE New(s, i)
        <3>1. toBroker'[s][i].id \in Int
            BY <1>1, <1>3, <2>2
        <3> QED BY <1>3, <1>8, <2>2, <3>1
    <2> QED BY <1>4, <1>9, <2>1, <2>2
<1>10. OffersOnTheWayNew'
    BY <1>9 DEF OffersOnTheWayNew, IsOffer, Unmatched
<1>11. Listed(pendingTaskOffers)' /\ \A t \in DOMAIN matches' : matches'[t].offer <= offersMade'
    <2>1. ASSUME NEW t \in DOMAIN matches PROVE matches[t].offer <= offersMade'
        <3>1. matches[t] \in Match /\ matches[t].offer <= offersMade
            BY <1>1 DEF OffersAreApart
        <3> QED BY <1>1, <3>1 DEF Match
    <2>2. ASSUME NEW l \in DOMAIN pendingTaskOffers PROVE pendingTaskOffers[l].id <= offersMade'
        <3>1. pendingTaskOffers[l] \in Offer /\ pendingTaskOffers[l].id <= offersMade
            BY <1>1 DEF OffersAreApart, Listed
        <3> QED BY <1>1, <3>1 DEF Offer
    <2> QED BY <1>1, <2>1, <2>2 DEF OffersAreApart, Listed
<1>12. OffersAreApart'
    BY <1>1, <1>7, <1>10, <1>11 DEF OffersAreApart, OfferUsedOnce
<1> QED BY <1>6, <1>12 DEF Channels

(* New messages are the settings of tasks that were being accepted, or     *)
(* cancel one; no task begins or goes on.                                  *)
LEMMA QuietSettings ==
    ASSUME IInv, UNCHANGED runningTasks, accepting' \subseteq accepting,
           \A s \in Runners : \A i \in DOMAIN toRunner'[s] :
               \/ i \in DOMAIN toRunner[s] /\ toRunner'[s][i] = toRunner[s][i]
               \/ ~IsSettings(toRunner'[s][i])
               \/ /\ i = Len(toRunner[s]) + 1
                  /\ toRunner'[s][i].id \in accepting
                  /\ toRunner'[s][i].id \notin accepting'
    PROVE  SettingsOnce'
<1>1. SettingsOnce /\ toRunner \in [Runners -> Seq(ToRunner)]
    BY DEF IInv, TypeOK
<1>2. \A t \in accepting' : Waits(t)'
    BY <1>1 DEF SettingsOnce, Waits, Running
<1> DEFINE Old(s, i) == i \in DOMAIN toRunner[s] /\ toRunner'[s][i] = toRunner[s][i]
           New(s, i) == /\ i = Len(toRunner[s]) + 1
                        /\ toRunner'[s][i].id \in accepting
                        /\ toRunner'[s][i].id \notin accepting'
<1>3. ASSUME NEW s \in Runners, NEW i \in DOMAIN toRunner'[s], IsSettings(toRunner'[s][i])
      PROVE  Old(s, i) \/ New(s, i)
    BY <1>3
<1>4. ASSUME NEW s \in Runners, NEW i \in DOMAIN toRunner'[s], IsSettings(toRunner'[s][i]),
             Old(s, i)
      PROVE  /\ toRunner'[s][i].id \notin accepting
             /\ Waits(toRunner'[s][i].id)
             /\ \A j \in DOMAIN toRunner[s] : toRunner[s][j] = toRunner[s][i] => j = i
    BY <1>1, <1>4 DEF SettingsOnce
<1>5. ASSUME NEW s \in Runners, NEW i \in DOMAIN toRunner'[s], IsSettings(toRunner'[s][i])
      PROVE  /\ toRunner'[s][i].id \notin accepting'
             /\ Waits(toRunner'[s][i].id)
             /\ \A j \in DOMAIN toRunner'[s] : toRunner'[s][j] = toRunner'[s][i] => j = i
    <2>1. toRunner'[s][i].id \notin accepting' /\ Waits(toRunner'[s][i].id)
        BY <1>1, <1>3, <1>4, <1>5 DEF SettingsOnce
    <2>2. ASSUME NEW j \in DOMAIN toRunner'[s], toRunner'[s][j] = toRunner'[s][i] PROVE j = i
        <3>1. IsSettings(toRunner'[s][j])
            BY <1>5, <2>2
        <3>2. CASE Old(s, i) /\ Old(s, j)
            BY <1>4, <1>5, <2>2, <3>2
        <3>3. CASE New(s, i) /\ New(s, j)
            BY <3>3
        <3>4. CASE Old(s, i) /\ New(s, j)
            BY <1>4, <1>5, <2>2, <3>4
        <3>5. CASE New(s, i) /\ Old(s, j)
            BY <1>4, <2>2, <3>1, <3>5
        <3> QED BY <1>3, <1>5, <3>1, <3>2, <3>3, <3>4, <3>5
    <2> QED BY <2>1, <2>2
<1> QED BY <1>2, <1>5 DEF SettingsOnce, Waits, Running, IsSettings

(* A runner takes messages; what its settings are still to find waits.     *)
LEMMA TakenSettings ==
    ASSUME IInv, UNCHANGED accepting,
           toRunner' \in [Runners -> Seq(ToRunner)], Cut(toRunner', toRunner),
           \A t : \/ Waits(t) => Waits(t)'
                  \/ /\ t \notin accepting
                     /\ \A s \in Runners : \A i \in DOMAIN toRunner'[s] :
                           IsSettings(toRunner'[s][i]) => toRunner'[s][i].id # t
    PROVE  SettingsOnce'
<1>1. SettingsOnce
    BY DEF IInv
<1>2. \A t \in accepting' : Waits(t)'
    BY <1>1 DEF SettingsOnce
<1>3. ASSUME NEW s \in Runners, NEW i \in DOMAIN toRunner'[s], IsSettings(toRunner'[s][i])
      PROVE  /\ toRunner'[s][i].id \notin accepting'
             /\ \A t : t = toRunner'[s][i].id => Waits(t)'
             /\ \A j \in DOMAIN toRunner'[s] : toRunner'[s][j] = toRunner'[s][i] => j = i
    <2>1. PICK d \in Nat : \A h \in DOMAIN toRunner'[s] :
              h + d \in DOMAIN toRunner[s] /\ toRunner'[s][h] = toRunner[s][h + d]
        BY DEF Cut
    <2>2. /\ toRunner'[s][i].id \notin accepting
          /\ Waits(toRunner'[s][i].id)
          /\ \A j \in DOMAIN toRunner[s] : toRunner[s][j] = toRunner'[s][i] => j = i + d
        BY <1>1, <1>3, <2>1 DEF SettingsOnce
    <2>3. \A t : t = toRunner'[s][i].id => Waits(t)'
        BY <1>3, <2>2
    <2>4. ASSUME NEW j \in DOMAIN toRunner'[s], toRunner'[s][j] = toRunner'[s][i] PROVE j = i
        <3>1. j + d = i + d
            BY <2>1, <2>2, <2>4
        <3>2. toRunner'[s] \in Seq(ToRunner)
            OBVIOUS
        <3> QED BY <3>1, <3>2
    <2> QED BY <2>2, <2>3, <2>4
<1> QED BY <1>2, <1>3 DEF SettingsOnce, IsSettings, Waits, Running

(* The rooms are those of the runners, and tasks stay with theirs.         *)
LEMMA QuietRooms ==
    ASSUME IInv, UNCHANGED <<openOffers, runningTasks, runnerTimers>>,
           matches' \in Seq(Match), Len(matches') >= Len(matches),
           \A t \in 1 .. Len(matches) : matches'[t] = matches[t]
    PROVE  Rooms'
<1>1. RunnersKeep /\ OffersWithinCapacity /\ matches \in Seq(Match)
    BY DEF IInv, Rooms, TypeOK
<1>2. \A t \in DOMAIN runningTasks : matches'[t] = matches[t]
    <2>1. DOMAIN runningTasks \subseteq 1 .. Len(matches)
        BY <1>1 DEF IInv, TypeOK
    <2> QED BY <2>1
<1>3. \A r \in Runners : TasksOf(r)' = TasksOf(r)
    BY <1>2 DEF TasksOf, runnerOf
<1>4. RunnersKeep'
    BY <1>1, <1>2 DEF RunnersKeep, runnerOf
<1>5. OffersWithinCapacity'
    BY <1>1, <1>3 DEF OffersWithinCapacity
<1> QED BY <1>4, <1>5 DEF Rooms

(* Settling a list of offers that are neither matched nor on their way.    *)
LEMMA SettleKeeps ==
    ASSUME IInv, UNCHANGED <<openOffers, runningTasks, runnerTimers, offersMade>>,
           NEW offers \in Seq(Offer), NEW n \in Nat, NEW m \in Nat,
           NEW p \in [1 .. (n + m) -> DOMAIN offers], Settled(offers, n, m, p),
           toBroker' \in [Runners -> Seq(ToBroker)], Cut(toBroker', toBroker),
           Listed(offers),
           \A k \in DOMAIN offers :
               /\ Unmatched(offers[k].id)
               /\ \A r \in Runners : \A i \in DOMAIN toBroker'[r] :
                     IsOffer(toBroker'[r][i]) => toBroker'[r][i].id # offers[k].id
    PROVE  Channels' /\ Rooms' /\ SettingsOnce'
<1> DEFINE N == Len(matches)
<1>1. /\ MessagesNameTasks /\ OffersAreApart /\ SettingsOnce
      /\ matches \in Seq(Match) /\ N \in Nat /\ DOMAIN matches = 1 .. N
      /\ accepting \subseteq 1 .. N /\ DOMAIN runningTasks \subseteq 1 .. N
      /\ toRunner \in [Runners -> Seq(ToRunner)]
    BY DEF IInv, Channels, TypeOK
<1>2. /\ matches' \in Seq(Match) /\ Len(matches') = N + n /\ DOMAIN matches' = 1 .. (N + n)
      /\ \A t \in 1 .. N : t \in DOMAIN matches' /\ matches'[t] = matches[t]
      /\ pendingTaskOffers' \in Seq(Offer) /\ DOMAIN pendingTaskOffers' = 1 .. m
      /\ accepting' = accepting \cup NewTasks(n)
    BY <1>1 DEF Settled
<1>3. \A k \in 1 .. m : /\ n + k \in 1 .. (n + m) /\ p[n + k] \in DOMAIN offers
                        /\ pendingTaskOffers'[k] = offers[p[n + k]]
    BY DEF Settled
<1>4. ASSUME NEW t \in 1 .. (N + n), t \notin 1 .. N
      PROVE  /\ t - N \in 1 .. n /\ t - N \in 1 .. (n + m) /\ p[t - N] \in DOMAIN offers
             /\ matches'[t].offer = offers[p[t - N]].id
    <2>1. t - N \in 1 .. n /\ t - N \in 1 .. (n + m) /\ N + (t - N) = t
        BY <1>1, <1>4
    <2>2. matches'[N + (t - N)].offer = offers[p[t - N]].id
        BY <2>1 DEF Settled
    <2> QED BY <2>1, <2>2
<1>5. \A k, l \in 1 .. (n + m) : offers[p[k]].id = offers[p[l]].id => k = l
    BY DEF Settled, Listed
<1>6. MessagesNameTasks'
    <2>1. ASSUME NEW r \in Runners, NEW i \in DOMAIN toBroker'[r], ~IsOffer(toBroker'[r][i])
          PROVE  toBroker'[r][i].id \in 1 .. N /\ matches[toBroker'[r][i].id].runner = r
        <3>1. PICK j \in DOMAIN toBroker[r] : toBroker'[r][i] = toBroker[r][j]
            BY DEF Cut
        <3> QED BY <1>1, <2>1, <3>1 DEF MessagesNameTasks, TaskOf, runnerOf
    <2>2. ASSUME NEW r \in Runners, NEW i \in DOMAIN toRunner'[r]
          PROVE  /\ toRunner'[r][i].id \in 1 .. (N + n)
                 /\ matches'[toRunner'[r][i].id].runner = r
        <3>1. CASE i \in DOMAIN toRunner[r] /\ toRunner'[r][i] = toRunner[r][i]
            <4>1. toRunner[r][i].id \in 1 .. N /\ matches[toRunner[r][i].id].runner = r
                BY <1>1, <3>1 DEF MessagesNameTasks, TaskOf, runnerOf
            <4> QED BY <1>1, <1>2, <3>1, <4>1
        <3>2. CASE toRunner'[r][i].id \in NewTasks(n) /\ matches'[toRunner'[r][i].id].runner = r
            BY <1>1, <3>2 DEF NewTasks
        <3> QED BY <3>1, <3>2 DEF Settled
    <2>3. \A r \in Runners : \A i \in DOMAIN toBroker'[r] :
             \/ IsOffer(toBroker'[r][i])
             \/ /\ toBroker'[r][i].id \in DOMAIN matches'
                /\ matches'[toBroker'[r][i].id].runner = r
        BY <1>2, <2>1
    <2> QED BY <1>2, <2>2, <2>3 DEF MessagesNameTasks, TaskOf, runnerOf, IsOffer
<1>7. OffersOnTheWayApart'
    BY <1>1, CutApart DEF OffersAreApart
<1>8. ASSUME NEW t \in 1 .. (N + n), NEW r \in Runners, NEW i \in DOMAIN toBroker'[r],
             IsOffer(toBroker'[r][i])
      PROVE  matches'[t].offer # toBroker'[r][i].id
    <2>1. CASE t \in 1 .. N
        <3>1. PICK j \in DOMAIN toBroker[r] : toBroker'[r][i] = toBroker[r][j]
            BY DEF Cut
        <3>2. Unmatched(toBroker[r][j].id)
            BY <1>1, <1>8, <3>1 DEF OffersAreApart, OffersOnTheWayNew
        <3> QED BY <1>1, <1>2, <2>1, <3>1, <3>2 DEF Unmatched
    <2>2. CASE t \notin 1 .. N
        BY <1>4, <1>8, <2>2
    <2> QED BY <2>1, <2>2
<1>9. ASSUME NEW r \in Runners, NEW i \in DOMAIN toBroker'[r], IsOffer(toBroker'[r][i])
      PROVE  toBroker'[r][i].id <= offersMade
    <2>1. PICK j \in DOMAIN toBroker[r] : toBroker'[r][i] = toBroker[r][j]
        BY DEF Cut
    <2> QED BY <1>1, <1>9, <2>1 DEF OffersAreApart, OffersOnTheWayNew
<1>10. OffersOnTheWayNew'
    <2>1. \A r \in Runners : \A i \in DOMAIN toBroker'[r] : IsOffer(toBroker'[r][i]) =>
             \A k \in 1 .. m : pendingTaskOffers'[k].id # toBroker'[r][i].id
        BY <1>3
    <2> QED BY <1>2, <1>8, <1>9, <2>1 DEF OffersOnTheWayNew, Unmatched, IsOffer
<1>11. Listed(pendingTaskOffers)'
    <2>1. ASSUME NEW k \in 1 .. m, NEW l \in 1 .. m,
                 pendingTaskOffers'[k].id = pendingTaskOffers'[l].id
          PROVE  k = l
        <3>1. n + k \in 1 .. (n + m) /\ n + l \in 1 .. (n + m)
            BY <1>3
        <3>2. n + k = n + l
            <4>1. offers[p[n + k]].id = offers[p[n + l]].id
                BY <1>3, <2>1
            <4> QED BY <1>5, <3>1, <4>1
        <3> QED BY <3>2
    <2>2. \A k \in 1 .. m : pendingTaskOffers'[k].id <= offersMade
        BY <1>3 DEF Listed
    <2> QED BY <1>2, <2>1, <2>2 DEF Listed
<1>12. ASSUME NEW t \in 1 .. (N + n), NEW u \in 1 .. (N + n),
              matches'[t].offer = matches'[u].offer
       PROVE  t = u
    <2>1. CASE t \in 1 .. N /\ u \in 1 .. N
        BY <1>1, <1>2, <1>12, <2>1 DEF OffersAreApart, OfferUsedOnce
    <2>2. CASE t \in 1 .. N /\ u \notin 1 .. N
        <3>1. Unmatched(matches'[u].offer)
            BY <1>4, <2>2
        <3> QED BY <1>1, <1>2, <1>12, <2>2, <3>1 DEF Unmatched
    <2>3. CASE t \notin 1 .. N /\ u \in 1 .. N
        <3>1. Unmatched(matches'[t].offer)
            BY <1>4, <2>3
        <3> QED BY <1>1, <1>2, <1>12, <2>3, <3>1 DEF Unmatched
    <2>4. CASE t \notin 1 .. N /\ u \notin 1 .. N
        <3>1. t - N = u - N
            BY <1>4, <1>5, <1>12, <2>4
        <3> QED BY <1>1, <3>1
    <2> QED BY <2>1, <2>2, <2>3, <2>4
<1>13. ASSUME NEW k \in 1 .. m, NEW t \in 1 .. (N + n)
       PROVE  matches'[t].offer # pendingTaskOffers'[k].id
    <2>1. CASE t \in 1 .. N
        <3>1. Unmatched(pendingTaskOffers'[k].id)
            BY <1>3
        <3> QED BY <1>1, <1>2, <2>1, <3>1 DEF Unmatched
    <2>2. CASE t \notin 1 .. N
        <3>1. t - N # n + k
            BY <1>1, <1>4, <2>2
        <3> QED BY <1>3, <1>4, <1>5, <2>2, <3>1
    <2> QED BY <2>1, <2>2
<1>14. OfferUsedOnce'
    BY <1>2, <1>12, <1>13 DEF OfferUsedOnce
<1>15. \A t \in 1 .. (N + n) : matches'[t].offer <= offersMade
    <2>1. ASSUME NEW t \in 1 .. (N + n) PROVE matches'[t].offer <= offersMade
        <3>1. CASE t \in 1 .. N
            BY <1>1, <1>2, <3>1 DEF OffersAreApart
        <3>2. CASE t \notin 1 .. N
            BY <1>4, <3>2 DEF Listed
        <3> QED BY <3>1, <3>2
    <2> QED BY <2>1
<1>16. OffersAreApart'
    BY <1>2, <1>7, <1>10, <1>11, <1>14, <1>15 DEF OffersAreApart
<1>17. Rooms'
    <2>1. Len(matches') >= Len(matches)
        BY <1>1, <1>2
    <2> QED BY <1>2, <2>1, QuietRooms
<1>18. \A t \in NewTasks(n) : t \notin 1 .. N
    BY <1>1 DEF NewTasks
<1>19. \A t \in accepting' : Waits(t)'
    BY <1>1, <1>2, <1>18 DEF SettingsOnce, Waits, Running
<1>20. ASSUME NEW r \in Runners, NEW i \in DOMAIN toRunner'[r], IsSettings(toRunner'[r][i])
       PROVE  /\ i \in DOMAIN toRunner[r] /\ toRunner'[r][i] = toRunner[r][i]
              /\ toRunner'[r][i].id \notin accepting' /\ Waits(toRunner'[r][i].id)
    <2>1. i \in DOMAIN toRunner[r] /\ toRunner'[r][i] = toRunner[r][i]
        BY <1>20 DEF Settled, IsSettings
    <2>2. toRunner'[r][i].id \in 1 .. N
        BY <1>1, <2>1 DEF MessagesNameTasks, TaskOf
    <2> QED BY <1>1, <1>2, <1>18, <1>20, <2>1, <2>2 DEF SettingsOnce
<1>21. ASSUME NEW r \in Runners, NEW i \in DOMAIN toRunner'[r], IsSettings(toRunner'[r][i]),
              NEW j \in DOMAIN toRunner'[r], toRunner'[r][j] = toRunner'[r][i]
       PROVE  j = i
    <2>1. IsSettings(toRunner'[r][j])
        BY <1>21
    <2> QED BY <1>1, <1>20, <1>21, <2>1 DEF SettingsOnce
<1>22. SettingsOnce'
    BY <1>19, <1>20, <1>21 DEF SettingsOnce, Waits, Running, IsSettings
<1> QED BY <1>6, <1>16, <1>17, <1>22 DEF Channels
-----------------------------------------------------------------------------
(* Steps of a runner *)

(* TasksOf is a finite set: the tasks are numbered. *)
LEMMA TasksFinite ==
    ASSUME TypeOK, NEW r \in Runners
    PROVE  /\ IsFiniteSet(TasksOf(r)) /\ Cardinality(TasksOf(r)) \in Nat
           /\ IsFiniteSet(openOffers[r]) /\ Cardinality(openOffers[r]) \in Nat
<1>1. matches \in Seq(Match) /\ DOMAIN runningTasks \subseteq 1 .. Len(matches)
    BY DEF TypeOK
<1>2. TasksOf(r) \in SUBSET (1 .. Len(matches)) /\ Len(matches) \in Int
    BY <1>1 DEF TasksOf
<1>3. openOffers[r] \in SUBSET (1 .. MaxOffers) /\ MaxOffers \in Int
    BY RunnersAssumption DEF TypeOK
<1>4. IsFiniteSet(1 .. Len(matches)) /\ IsFiniteSet(1 .. MaxOffers)
    BY <1>2, <1>3, FS_Interval, 1 \in Int
<1>5. IsFiniteSet(TasksOf(r)) /\ IsFiniteSet(openOffers[r])
    BY <1>2, <1>3, <1>4, FS_Subset
<1> QED BY <1>5, FS_CardinalityType

(* sendOffers makes no more offers than there is room for. *)
LEMMA OffersSent ==
    ASSUME TypeOK, NEW r \in Runners, NEW running, IsFiniteSet(running),
           NEW sent \in Seq(ToBroker), NEW says, \A i \in 1 .. Len(sent) : sent[i] \in says,
           Cardinality(openOffers[r]) + Cardinality(running) <= MaxConcurrency,
           sendOffers(r, openOffers[r], running, sent)
    PROVE  \E k \in Nat, c \in Int :
               /\ Said(r, says, k, c)
               /\ offersMade' = offersMade + k /\ offersMade' <= MaxOffers
               /\ openOffers' \in [Runners -> SUBSET (1 .. MaxOffers)]
               /\ \A s \in Runners \ {r} : openOffers'[s] = openOffers[s]
               /\ Cardinality(openOffers'[r]) + Cardinality(running) <= MaxConcurrency
<1> DEFINE room(stale) == MaxConcurrency
                             - (Cardinality(openOffers[r] \ stale) + Cardinality(running))
           num(stale) == IF room(stale) > MaxOffers - offersMade
                         THEN MaxOffers - offersMade ELSE room(stale)
<1>1. PICK stale \in SUBSET openOffers[r] :
        /\ openOffers' = [openOffers EXCEPT ![r] =
               (openOffers[r] \ stale) \cup (offersMade + 1) .. (offersMade + num(stale))]
        /\ offersMade' = IF num(stale) > 0 THEN offersMade + num(stale) ELSE offersMade
        /\ toBroker' = [toBroker EXCEPT ![r] =
               @ \o sent \o [i \in 1 .. num(stale) |-> Message("taskoffer", offersMade + i)]]
    BY DEF sendOffers
<1> DEFINE kept == openOffers[r] \ stale
           n == num(stale)
           k == IF n > 0 THEN n ELSE 0
           new == [i \in 1 .. n |-> Message("taskoffer", offersMade + i)]
           c == Len(toBroker[r]) + Len(sent)
<1>2. /\ offersMade \in Nat /\ offersMade <= MaxOffers
      /\ MaxOffers \in Nat /\ MaxConcurrency \in Nat
      /\ toBroker \in [Runners -> Seq(ToBroker)]
      /\ openOffers \in [Runners -> SUBSET (1 .. MaxOffers)]
    BY RunnersAssumption DEF TypeOK
<1>3. /\ IsFiniteSet(kept) /\ Cardinality(kept) \in Nat
      /\ Cardinality(kept) <= Cardinality(openOffers[r])
      /\ Cardinality(running) \in Nat /\ Cardinality(openOffers[r]) \in Nat
    <2>1. IsFiniteSet(openOffers[r]) /\ Cardinality(openOffers[r]) \in Nat
        BY TasksFinite
    <2>2. kept \in SUBSET openOffers[r]
        OBVIOUS
    <2> HIDE DEF kept
    <2>3. IsFiniteSet(kept) /\ Cardinality(kept) <= Cardinality(openOffers[r])
        BY <2>1, <2>2, FS_Subset
    <2> QED BY <2>1, <2>3, FS_CardinalityType
<1>4. /\ n \in Int /\ n <= MaxOffers - offersMade
      /\ Cardinality(kept) + Cardinality(running) + n <= MaxConcurrency
      /\ Cardinality(kept) + Cardinality(running) <= MaxConcurrency
    <2>1. n = IF MaxConcurrency - (Cardinality(kept) + Cardinality(running))
                    > MaxOffers - offersMade
              THEN MaxOffers - offersMade
              ELSE MaxConcurrency - (Cardinality(kept) + Cardinality(running))
        OBVIOUS
    <2> HIDE DEF n, kept
    <2> QED BY <1>2, <1>3, <2>1
<1>5. /\ openOffers' = [openOffers EXCEPT ![r] =
                            kept \cup (offersMade + 1) .. (offersMade + n)]
      /\ offersMade' = offersMade + k
      /\ toBroker' = [toBroker EXCEPT ![r] = @ \o sent \o new]
    <2>1. /\ openOffers' = [openOffers EXCEPT ![r] =
                                kept \cup (offersMade + 1) .. (offersMade + n)]
          /\ offersMade' = IF n > 0 THEN offersMade + n ELSE offersMade
          /\ toBroker' = [toBroker EXCEPT ![r] = @ \o sent \o new]
        BY <1>1
    <2> HIDE DEF n, kept, new
    <2> QED BY <1>2, <2>1
<1> HIDE DEF n
<1>6. k \in Nat /\ 1 .. n = 1 .. k /\ (offersMade + 1) .. (offersMade + n)
                                          = (offersMade + 1) .. (offersMade + k)
      /\ offersMade + k <= MaxOffers
    BY <1>2, <1>4
<1> HIDE DEF k, kept
<1>7. /\ new \in Seq(ToBroker) /\ Len(new) = k
      /\ \A i \in 1 .. k : new[i] = Message("taskoffer", offersMade + i)
    <2>1. new = [i \in 1 .. k |-> Message("taskoffer", offersMade + i)]
        BY <1>6
    <2> HIDE DEF new
    <2>2. \A i \in 1 .. k : Message("taskoffer", offersMade + i) \in ToBroker
        BY <1>2, <1>6 DEF Message, ToBroker
    <2>3. new \in Seq(ToBroker)
        BY <1>6, <2>1, <2>2, IsASeq
    <2> QED BY <1>6, <2>1, <2>3
<1> HIDE DEF new
<1>8. Said(r, says, k, c)
    <2> DEFINE out == toBroker[r] \o sent \o new
    <2>1. toBroker[r] \in Seq(ToBroker)
        BY <1>2
    <2>2. /\ toBroker[r] \o sent \in Seq(ToBroker) /\ Len(toBroker[r] \o sent) = c
          /\ \A i \in 1 .. c : (toBroker[r] \o sent)[i] =
                IF i <= Len(toBroker[r]) THEN toBroker[r][i] ELSE sent[i - Len(toBroker[r])]
        BY <2>1
    <2>3. /\ out \in Seq(ToBroker) /\ Len(out) = c + k
          /\ \A i \in 1 .. (c + k) :
                out[i] = IF i <= c THEN (toBroker[r] \o sent)[i] ELSE new[i - c]
        <3> DEFINE s1 == toBroker[r] \o sent
        <3>1. s1 \in Seq(ToBroker) /\ Len(s1) = c
            BY <2>2
        <3> HIDE DEF s1, c
        <3>2. /\ s1 \o new \in Seq(ToBroker) /\ Len(s1 \o new) = c + k
              /\ \A i \in 1 .. (c + k) :
                    (s1 \o new)[i] = IF i <= c THEN s1[i] ELSE new[i - c]
            BY <1>6, <1>7, <3>1, ConcatProperties
        <3> QED BY <3>2 DEF s1
    <2>4. toBroker'[r] = out /\ \A s \in Runners \ {r} : toBroker'[s] = toBroker[s]
        BY <1>2, <1>5
    <2>5. toBroker' \in [Runners -> Seq(ToBroker)]
        BY <1>2, <1>5, <2>3
    <2>6. c \in Nat /\ Len(toBroker[r]) \in Nat /\ c = Len(toBroker[r]) + Len(sent)
        BY <2>1
    <2> HIDE DEF out, c
    <2>7. ASSUME NEW i \in 1 .. (c + k)
          PROVE  \/ i \in DOMAIN toBroker[r] /\ out[i] = toBroker[r][i]
                 \/ out[i] \in says
                 \/ i - c \in 1 .. k /\ out[i] = Message("taskoffer", offersMade + (i - c))
        <3>1. CASE i <= Len(toBroker[r])
            BY <1>6, <2>1, <2>2, <2>3, <2>6, <3>1
        <3>2. CASE i > Len(toBroker[r]) /\ i <= c
            <4>1. i - Len(toBroker[r]) \in 1 .. Len(sent)
                BY <1>6, <2>1, <2>6, <3>2
            <4>2. out[i] = sent[i - Len(toBroker[r])]
                BY <1>6, <2>1, <2>2, <2>3, <2>6, <3>2
            <4> QED BY <4>1, <4>2
        <3>3. CASE i > c
            <4>1. i - c \in 1 .. k /\ out[i] = new[i - c]
                BY <1>6, <2>3, <2>6, <3>3
            <4> QED BY <1>7, <4>1
        <3> QED BY <1>6, <2>1, <2>6, <3>1, <3>2, <3>3
    <2>8. DOMAIN out = 1 .. (c + k)
        BY <1>6, <2>3, <2>6
    <2>9. \A i \in DOMAIN toBroker'[r] :
             \/ i \in DOMAIN toBroker[r] /\ toBroker'[r][i] = toBroker[r][i]
             \/ toBroker'[r][i] \in says
             \/ i - c \in 1 .. k /\ toBroker'[r][i] = Message("taskoffer", offersMade + (i - c))
        BY <2>4, <2>7, <2>8
    <2> QED BY <2>4, <2>5, <2>9 DEF Said
<1>9. openOffers' \in [Runners -> SUBSET (1 .. MaxOffers)]
    <2>1. kept \cup (offersMade + 1) .. (offersMade + n) \in SUBSET (1 .. MaxOffers)
        <3>1. kept \subseteq 1 .. MaxOffers
            BY <1>2 DEF kept
        <3>2. (offersMade + 1) .. (offersMade + k) \subseteq 1 .. MaxOffers
            BY <1>2, <1>6
        <3> QED BY <1>6, <3>1, <3>2
    <2> QED BY <1>2, <1>5, <2>1
<1>10. Cardinality(openOffers'[r]) + Cardinality(running) <= MaxConcurrency
    <2> DEFINE fresh == (offersMade + 1) .. (offersMade + k)
    <2>1. IsFiniteSet(fresh) /\ Cardinality(fresh) = k
        <3>1. /\ IsFiniteSet(fresh)
              /\ Cardinality(fresh) = IF offersMade + 1 > offersMade + k THEN 0
                                      ELSE (offersMade + k) - (offersMade + 1) + 1
            BY <1>2, <1>6, FS_Interval, offersMade + 1 \in Int, offersMade + k \in Int
        <3> HIDE DEF fresh
        <3> QED BY <1>2, <1>6, <3>1
    <2>2. openOffers'[r] = kept \cup fresh
        BY <1>2, <1>5, <1>6
    <2> HIDE DEF fresh
    <2>3. Cardinality(kept \cup fresh)
             = Cardinality(kept) + Cardinality(fresh) - Cardinality(kept \cap fresh)
        BY <1>3, <2>1, FS_Union
    <2>4. Cardinality(kept \cap fresh) \in Nat
        BY <1>3, FS_Intersection, FS_CardinalityType
    <2>5. Cardinality(openOffers'[r]) <= Cardinality(kept) + k
        BY <1>3, <1>6, <2>1, <2>2, <2>3, <2>4
    <2>6. Cardinality(openOffers'[r]) \in Int
        BY <1>3, <1>6, <2>1, <2>2, <2>3, <2>4
    <2> QED BY <1>2, <1>3, <1>4, <2>5, <2>6 DEF k
<1>11. c \in Int /\ \A s \in Runners \ {r} : openOffers'[s] = openOffers[s]
    BY <1>2, <1>5
<1> QED BY <1>5, <1>6, <1>8, <1>9, <1>10, <1>11

(* The duties of a runner's step: what it says is about its own tasks, it  *)
(* stays within its room, and it lets no task go on that waits.            *)
LEMMA RunnerStep ==
    ASSUME IInv, UNCHANGED <<brokerVars, requesterVars, link>>,
           toRunner' \in [Runners -> Seq(ToRunner)], Cut(toRunner', toRunner),
           \E r \in Runners, k \in Nat, c \in Int, says \in SUBSET ToBroker :
               /\ Said(r, says, k, c) /\ offersMade' = offersMade + k
               /\ \A m \in says : ~IsOffer(m) /\ TaskOf(r, m),
           offersMade' <= MaxOffers,
           openOffers' \in [Runners -> SUBSET (1 .. MaxOffers)],
           \A t \in DOMAIN runningTasks' : /\ t \in DOMAIN matches /\ runnerOf(t) \notin Launchers
                                           /\ runningTasks'[t] \in TaskStatus,
           runnerTimers' \subseteq DOMAIN runningTasks',
           OffersWithinCapacity',
           \A t : \/ Waits(t) => Waits(t)'
                  \/ /\ t \notin accepting
                     /\ \A s \in Runners : \A i \in DOMAIN toRunner'[s] :
                           IsSettings(toRunner'[s][i]) => toRunner'[s][i].id # t
    PROVE  IInv'
<1>1. TypeOK'
    <2>1. toBroker' \in [Runners -> Seq(ToBroker)] /\ offersMade' \in 0 .. MaxOffers
        BY RunnersAssumption DEF IInv, TypeOK, Said
    <2> QED BY <2>1 DEF IInv, TypeOK, brokerVars, requesterVars
<1>2. Channels'
    <2>1. UNCHANGED <<matches, pendingTaskOffers>>
        BY DEF brokerVars
    <2> QED BY <2>1, SaidChannels
<1>3. Rooms'
    <2>1. RunnersKeep'
        BY DEF RunnersKeep, runnerOf, brokerVars
    <2> QED BY <2>1 DEF Rooms
<1>4. SettingsOnce'
    BY TakenSettings DEF brokerVars
<1>5. Waiters'
    BY DEF IInv, Waiters, WaitersAreTracked, OneTaskPerRequest, brokerVars, requesterVars,
           requestOf, runnerOf, IsIn
<1> QED BY <1>1, <1>2, <1>3, <1>4, <1>5 DEF IInv

(* A task ends, and the room it had goes to new offers.                    *)
LEMMA FinishStep ==
    ASSUME IInv, UNCHANGED <<brokerVars, requesterVars>>,
           toRunner' \in [Runners -> Seq(ToRunner)], Cut(toRunner', toRunner),
           NEW t, Running(t), NEW sent \in Seq(ToBroker),
           \A i \in 1 .. Len(sent) : ~IsOffer(sent[i]) /\ sent[i].id = t,
           finishTask(t, sent)
    PROVE  IInv'
<1> DEFINE r == runnerOf(t)
           says == {m \in ToBroker : ~IsOffer(m) /\ m.id = t}
<1>1. /\ TypeOK /\ RunnersKeep /\ OffersWithinCapacity
      /\ t \in DOMAIN matches /\ r \in Runners
    <2>1. TypeOK /\ RunnersKeep /\ OffersWithinCapacity /\ matches \in Seq(Match)
        BY DEF IInv, Rooms, TypeOK
    <2>2. t \in DOMAIN matches
        BY <2>1 DEF Running, TypeOK
    <2>3. matches[t] \in Match
        BY <2>1, <2>2
    <2> QED BY <2>1, <2>2, <2>3 DEF runnerOf, Match
<1>2. /\ runningTasks' = Without(runningTasks, {t})
      /\ runnerTimers' = runnerTimers \ {t}
      /\ sendOffers(r, openOffers[r], TasksOf(r) \ {t}, sent)
      /\ link' = link
    BY DEF finishTask
<1>3. \A i \in 1 .. Len(sent) : sent[i] \in says
    OBVIOUS
<1>4. /\ IsFiniteSet(TasksOf(r) \ {t})
      /\ Cardinality(openOffers[r]) + Cardinality(TasksOf(r) \ {t}) <= MaxConcurrency
    <2>1. /\ IsFiniteSet(TasksOf(r)) /\ Cardinality(TasksOf(r)) \in Nat
          /\ Cardinality(openOffers[r]) \in Nat
        BY <1>1, TasksFinite
    <2>2. Cardinality(openOffers[r]) + Cardinality(TasksOf(r)) <= MaxConcurrency
        BY <1>1 DEF OffersWithinCapacity
    <2>3. /\ IsFiniteSet(TasksOf(r) \ {t})
          /\ Cardinality(TasksOf(r) \ {t}) \in Nat
          /\ Cardinality(TasksOf(r) \ {t}) <= Cardinality(TasksOf(r))
        BY <2>1, FS_Subset, FS_CardinalityType, TasksOf(r) \ {t} \in SUBSET TasksOf(r)
    <2> QED BY <2>1, <2>2, <2>3, RunnersAssumption
<1>5. PICK k \in Nat, c \in Int :
        /\ Said(r, says, k, c)
        /\ offersMade' = offersMade + k /\ offersMade' <= MaxOffers
        /\ openOffers' \in [Runners -> SUBSET (1 .. MaxOffers)]
        /\ \A s \in Runners \ {r} : openOffers'[s] = openOffers[s]
        /\ Cardinality(openOffers'[r]) + Cardinality(TasksOf(r) \ {t}) <= MaxConcurrency
    <2> DEFINE running == TasksOf(r) \ {t}
    <2>1. /\ IsFiniteSet(running) /\ sendOffers(r, openOffers[r], running, sent)
          /\ Cardinality(openOffers[r]) + Cardinality(running) <= MaxConcurrency
        BY <1>2, <1>4
    <2> HIDE DEF running, says, r
    <2>2. \E k \in Nat, c \in Int :
            /\ Said(r, says, k, c)
            /\ offersMade' = offersMade + k /\ offersMade' <= MaxOffers
            /\ openOffers' \in [Runners -> SUBSET (1 .. MaxOffers)]
            /\ \A s \in Runners \ {r} : openOffers'[s] = openOffers[s]
            /\ Cardinality(openOffers'[r]) + Cardinality(running) <= MaxConcurrency
        BY <1>1, <1>3, <2>1, OffersSent
    <2> QED BY <2>2 DEF running
<1>6. /\ says \in SUBSET ToBroker /\ \A m \in says : ~IsOffer(m) /\ TaskOf(r, m)
    BY <1>1 DEF TaskOf
<1>7. /\ DOMAIN runningTasks' = DOMAIN runningTasks \ {t}
      /\ \A u \in DOMAIN runningTasks' : runningTasks'[u] = runningTasks[u]
    BY <1>2 DEF Without
<1>8. /\ \A u \in DOMAIN runningTasks' : /\ u \in DOMAIN matches /\ runnerOf(u) \notin Launchers
                                         /\ runningTasks'[u] \in TaskStatus
      /\ runnerTimers' \subseteq DOMAIN runningTasks'
    BY <1>1, <1>2, <1>7 DEF RunnersKeep, TypeOK
<1>9. OffersWithinCapacity'
    <2>1. \A s \in Runners : TasksOf(s)' = IF s = r THEN TasksOf(s) \ {t} ELSE TasksOf(s)
        BY <1>7 DEF TasksOf, runnerOf, brokerVars
    <2> HIDE DEF r
    <2> QED BY <1>1, <1>5, <2>1 DEF OffersWithinCapacity
<1>10. \A u : Waits(u) => Waits(u)'
    BY <1>7 DEF Waits, Running
<1> HIDE DEF says
<1>11. r \in Runners /\ k \in Nat /\ c \in Int /\ says \in SUBSET ToBroker
    BY <1>1, <1>6
<1> QED BY <1>2, <1>5, <1>6, <1>8, <1>9, <1>10, <1>11, RunnerStep

(* A runner that says nothing but that, or nothing: one message at most.   *)
LEMMA ReplySaid ==
    ASSUME TypeOK, NEW r \in Runners, NEW type, NEW t, Message(type, t) \in ToBroker,
           Reply(r, type, t)
    PROVE  Said(r, {Message(type, t)}, 0, 0)
<1>1. toBroker \in [Runners -> Seq(ToBroker)]
    BY DEF TypeOK
<1>2. /\ Append(toBroker[r], Message(type, t)) \in Seq(ToBroker)
      /\ Len(Append(toBroker[r], Message(type, t))) = Len(toBroker[r]) + 1
      /\ \A i \in 1 .. Len(toBroker[r]) :
            Append(toBroker[r], Message(type, t))[i] = toBroker[r][i]
      /\ Append(toBroker[r], Message(type, t))[Len(toBroker[r]) + 1] = Message(type, t)
    BY <1>1, AppendProperties
<1>3. toBroker' = [toBroker EXCEPT ![r] = Append(@, Message(type, t))]
    BY DEF Reply
<1>4. toBroker' \in [Runners -> Seq(ToBroker)] /\ \A s \in Runners \ {r} : toBroker'[s] = toBroker[s]
    BY <1>1, <1>2, <1>3
<1>5. toBroker'[r] = Append(toBroker[r], Message(type, t))
    BY <1>1, <1>3
<1>6. ASSUME NEW i \in DOMAIN toBroker'[r]
      PROVE  \/ i \in DOMAIN toBroker[r] /\ toBroker'[r][i] = toBroker[r][i]
             \/ toBroker'[r][i] \in {Message(type, t)}
    <2>1. i \in 1 .. (Len(toBroker[r]) + 1) /\ toBroker[r] \in Seq(ToBroker)
        BY <1>1, <1>2, <1>5
    <2>2. CASE i = Len(toBroker[r]) + 1
        BY <1>2, <1>5, <2>2
    <2>3. CASE i \in 1 .. Len(toBroker[r])
        BY <1>2, <1>5, <2>1, <2>3
    <2> QED BY <2>1, <2>2, <2>3
<1> QED BY <1>4, <1>6 DEF Said

(* Nothing is said. *)
LEMMA NothingSaid ==
    ASSUME TypeOK, UNCHANGED toBroker, NEW r \in Runners, NEW says
    PROVE  Said(r, says, 0, 0)
BY DEF TypeOK, Said

(* What a runner has does not change, whatever it reads. *)
LEMMA IdleStep ==
    ASSUME IInv, UNCHANGED <<brokerVars, requesterVars, runnerVars, toBroker>>,
           toRunner' \in [Runners -> Seq(ToRunner)], Cut(toRunner', toRunner),
           NEW r \in Runners
    PROVE  IInv'
<1>1. TypeOK /\ RunnersKeep /\ OffersWithinCapacity
    BY DEF IInv, Rooms
<1>2. Said(r, {}, 0, 0) /\ offersMade' = offersMade + 0 /\ offersMade' <= MaxOffers
    BY <1>1, NothingSaid DEF TypeOK, runnerVars
<1>3. OffersWithinCapacity'
    BY <1>1 DEF OffersWithinCapacity, TasksOf, runnerOf, runnerVars, brokerVars
<1>4. \A t : Waits(t) => Waits(t)'
    BY DEF Waits, Running, runnerVars
<1>5. /\ openOffers' \in [Runners -> SUBSET (1 .. MaxOffers)]
      /\ runnerTimers' \subseteq DOMAIN runningTasks'
      /\ link' = link
    BY <1>1 DEF TypeOK, RunnersKeep, runnerVars
<1>6. \A t \in DOMAIN runningTasks' : /\ t \in DOMAIN matches /\ runnerOf(t) \notin Launchers
                                      /\ runningTasks'[t] \in TaskStatus
    BY <1>1 DEF TypeOK, RunnersKeep, runnerVars
<1>7. {} \in SUBSET ToBroker /\ 0 \in Nat /\ 0 \in Int
    OBVIOUS
<1>8. \E q \in Runners, k \in Nat, c \in Int, says \in SUBSET ToBroker :
         /\ Said(q, says, k, c) /\ offersMade' = offersMade + k
         /\ \A m \in says : ~IsOffer(m) /\ TaskOf(q, m)
    BY <1>2, <1>7
<1> QED BY <1>2, <1>3, <1>4, <1>5, <1>6, <1>8, RunnerStep

(* A task goes on that no longer waits, or that waits for nothing else.    *)
LEMMA StatusStep ==
    ASSUME IInv, UNCHANGED <<brokerVars, requesterVars, link, openOffers, offersMade, toBroker>>,
           toRunner' \in [Runners -> Seq(ToRunner)], Cut(toRunner', toRunner),
           NEW r \in Runners, NEW t, Running(t), NEW status \in TaskStatus,
           runningTasks' = [runningTasks EXCEPT ![t] = status],
           runnerTimers' \subseteq runnerTimers,
           \/ ~Waits(t)
           \/ /\ t \notin accepting
              /\ \A s \in Runners : \A i \in DOMAIN toRunner'[s] :
                    IsSettings(toRunner'[s][i]) => toRunner'[s][i].id # t
    PROVE  IInv'
<1>1. TypeOK /\ RunnersKeep /\ OffersWithinCapacity
    BY DEF IInv, Rooms
<1>2. Said(r, {}, 0, 0) /\ offersMade' = offersMade + 0 /\ offersMade' <= MaxOffers
    BY <1>1, NothingSaid DEF TypeOK
<1>3. /\ DOMAIN runningTasks' = DOMAIN runningTasks
      /\ \A u \in DOMAIN runningTasks :
            runningTasks'[u] = IF u = t THEN status ELSE runningTasks[u]
    OBVIOUS
<1>4. OffersWithinCapacity'
    <2>1. \A s \in Runners : TasksOf(s)' = TasksOf(s)
        BY <1>3 DEF TasksOf, runnerOf, brokerVars
    <2> QED BY <1>1, <2>1 DEF OffersWithinCapacity
<1>5. \A u : u # t => (Waits(u) => Waits(u)')
    BY <1>3 DEF Waits, Running
<1>6. /\ openOffers' \in [Runners -> SUBSET (1 .. MaxOffers)]
      /\ runnerTimers' \subseteq DOMAIN runningTasks'
    BY <1>1, <1>3 DEF TypeOK, RunnersKeep
<1>7. \A u \in DOMAIN runningTasks' : /\ u \in DOMAIN matches /\ runnerOf(u) \notin Launchers
                                      /\ runningTasks'[u] \in TaskStatus
    BY <1>1, <1>3 DEF TypeOK, RunnersKeep
<1>8. {} \in SUBSET ToBroker /\ 0 \in Nat /\ 0 \in Int
    OBVIOUS
<1>9. \E q \in Runners, k \in Nat, c \in Int, says \in SUBSET ToBroker :
         /\ Said(q, says, k, c) /\ offersMade' = offersMade + k
         /\ \A m \in says : ~IsOffer(m) /\ TaskOf(q, m)
    BY <1>2, <1>8
<1>10. \A u : \/ Waits(u) => Waits(u)'
              \/ /\ u \notin accepting
                 /\ \A s \in Runners : \A i \in DOMAIN toRunner'[s] :
                       IsSettings(toRunner'[s][i]) => toRunner'[s][i].id # u
    BY <1>5
<1> QED BY <1>2, <1>4, <1>6, <1>7, <1>9, <1>10, RunnerStep

(* An offer of the runner is accepted, and it has room or not. *)
LEMMA AcceptedStep ==
    ASSUME IInv, UNCHANGED <<brokerVars, requesterVars>>,
           toRunner' \in [Runners -> Seq(ToRunner)], Cut(toRunner', toRunner),
           NEW r \in Runners, r \notin Launchers,
           NEW t \in DOMAIN matches, runnerOf(t) = r, offerAccepted(r, t)
    PROVE  IInv'
<1> DEFINE o == matches[t].offer
           fits == Cardinality(TasksOf(r)) < MaxConcurrency /\ o \in openOffers[r]
           type == IF fits THEN "taskaccepted" ELSE "taskrejected"
<1>1. TypeOK /\ RunnersKeep /\ OffersWithinCapacity /\ matches \in Seq(Match) /\ t \in Nat
    BY DEF IInv, Rooms, TypeOK
<1>2. /\ openOffers' = [openOffers EXCEPT ![r] = @ \ {o}]
      /\ fits => /\ runningTasks' = [s \in DOMAIN runningTasks \cup {t} |->
                                        IF s = t THEN "waitingForSettings" ELSE runningTasks[s]]
                 /\ runnerTimers' = runnerTimers \cup {t}
      /\ ~fits => UNCHANGED <<runningTasks, runnerTimers>>
      /\ Reply(r, type, t)
      /\ link' = link /\ offersMade' = offersMade
    BY DEF offerAccepted
<1>3. Message(type, t) \in ToBroker /\ ~IsOffer(Message(type, t)) /\ TaskOf(r, Message(type, t))
    BY <1>1 DEF Message, ToBroker, IsOffer, TaskOf
<1> HIDE DEF type
<1>4. Said(r, {Message(type, t)}, 0, 0) /\ offersMade' = offersMade + 0
    <2>1. Said(r, {Message(type, t)}, 0, 0)
        BY <1>1, <1>2, <1>3, ReplySaid
    <2>2. offersMade \in Nat
        BY <1>1 DEF TypeOK
    <2> QED BY <1>2, <2>1, <2>2
<1> HIDE DEF fits
<1>5. /\ DOMAIN runningTasks' \subseteq DOMAIN runningTasks \cup {t}
      /\ runnerTimers' \subseteq DOMAIN runningTasks'
      /\ \A u \in DOMAIN runningTasks' : \/ runningTasks'[u] = "waitingForSettings"
                                         \/ /\ u \in DOMAIN runningTasks
                                            /\ runningTasks'[u] = runningTasks[u]
    BY <1>1, <1>2 DEF RunnersKeep
<1>6. \A u \in DOMAIN runningTasks' : /\ u \in DOMAIN matches /\ runnerOf(u) \notin Launchers
                                      /\ runningTasks'[u] \in TaskStatus
    BY <1>1, <1>5 DEF TypeOK, RunnersKeep, TaskStatus
<1>7. \A u : Waits(u) => Waits(u)'
    BY <1>5 DEF Waits, Running
<1>8. OffersWithinCapacity'
    <2>1. /\ IsFiniteSet(TasksOf(r)) /\ Cardinality(TasksOf(r)) \in Nat
          /\ IsFiniteSet(openOffers[r]) /\ Cardinality(openOffers[r]) \in Nat
        BY <1>1, TasksFinite
    <2>2. ASSUME NEW s \in Runners, s # r
          PROVE  TasksOf(s)' = TasksOf(s) /\ openOffers'[s] = openOffers[s]
        <3>1. CASE fits
            BY <1>1, <1>2, <2>2, <3>1 DEF TasksOf, runnerOf, brokerVars, TypeOK
        <3>2. CASE ~fits
            BY <1>1, <1>2, <2>2, <3>2 DEF TasksOf, runnerOf, brokerVars, TypeOK
        <3> QED BY <3>1, <3>2
    <2>3. Cardinality(openOffers'[r]) + Cardinality(TasksOf(r)') <= MaxConcurrency
        <3>1. openOffers'[r] = openOffers[r] \ {o}
            BY <1>1, <1>2 DEF TypeOK
        <3> HIDE DEF o
        <3>2. /\ Cardinality(openOffers[r] \ {o}) = IF o \in openOffers[r]
                    THEN Cardinality(openOffers[r]) - 1 ELSE Cardinality(openOffers[r])
            BY <2>1, FS_RemoveElement
        <3>3. Cardinality(openOffers[r]) + Cardinality(TasksOf(r)) <= MaxConcurrency
            BY <1>1 DEF OffersWithinCapacity
        <3>4. CASE fits
            <4>1. TasksOf(r)' = TasksOf(r) \cup {t}
                BY <1>2, <3>4 DEF TasksOf, runnerOf, brokerVars
            <4>2. Cardinality(TasksOf(r) \cup {t})
                     = IF t \in TasksOf(r) THEN Cardinality(TasksOf(r))
                       ELSE Cardinality(TasksOf(r)) + 1
                BY <2>1, FS_AddElement
            <4>3. o \in openOffers[r]
                BY <3>4 DEF fits, o
            <4> QED BY <2>1, <3>1, <3>2, <3>3, <4>1, <4>2, <4>3, RunnersAssumption
        <3>5. CASE ~fits
            <4>1. TasksOf(r)' = TasksOf(r)
                BY <1>2, <3>5 DEF TasksOf, runnerOf, brokerVars
            <4> QED BY <2>1, <3>1, <3>2, <3>3, <4>1, RunnersAssumption
        <3> QED BY <3>4, <3>5
    <2> QED BY <1>1, <2>2, <2>3 DEF OffersWithinCapacity
<1>9. openOffers' \in [Runners -> SUBSET (1 .. MaxOffers)] /\ offersMade' <= MaxOffers
    BY <1>1, <1>2 DEF TypeOK
<1>10. \E q \in Runners, k \in Nat, c \in Int, says \in SUBSET ToBroker :
         /\ Said(q, says, k, c) /\ offersMade' = offersMade + k
         /\ \A m \in says : ~IsOffer(m) /\ TaskOf(q, m)
    <2>1. {Message(type, t)} \in SUBSET ToBroker /\ 0 \in Nat /\ 0 \in Int
        BY <1>3
    <2>2. \A m \in {Message(type, t)} : ~IsOffer(m) /\ TaskOf(r, m)
        BY <1>3
    <2> QED BY <1>4, <2>1, <2>2
<1> QED BY <1>2, <1>5, <1>6, <1>7, <1>8, <1>9, <1>10, RunnerStep

(* A launcher says something and has no offer open, or one. *)
LEMMA LauncherStep ==
    ASSUME IInv, UNCHANGED <<brokerVars, requesterVars, link, runningTasks, runnerTimers>>,
           toRunner' \in [Runners -> Seq(ToRunner)], Cut(toRunner', toRunner),
           NEW r \in Launchers, NEW open \in SUBSET (1 .. MaxOffers),
           open = {} \/ \E o : open = {o},
           openOffers' = [openOffers EXCEPT ![r] = open], offersMade' <= MaxOffers,
           \E k \in Nat, c \in Int, says \in SUBSET ToBroker :
               /\ Said(r, says, k, c) /\ offersMade' = offersMade + k
               /\ \A m \in says : ~IsOffer(m) /\ TaskOf(r, m)
    PROVE  IInv'
<1>1. TypeOK /\ RunnersKeep /\ OffersWithinCapacity /\ r \in Runners
    BY RunnersAssumption DEF IInv, Rooms
<1>2. TasksOf(r) = {} /\ \A s \in Runners : TasksOf(s)' = TasksOf(s)
    BY <1>1 DEF RunnersKeep, TasksOf, runnerOf, brokerVars
<1>3. /\ openOffers' \in [Runners -> SUBSET (1 .. MaxOffers)]
      /\ openOffers'[r] = open
      /\ \A s \in Runners \ {r} : openOffers'[s] = openOffers[s]
    BY <1>1 DEF TypeOK
<1>4. Cardinality(open) \in {0, 1} /\ Cardinality({}) = 0
    BY FS_EmptySet, FS_Singleton
<1>5. Cardinality(openOffers'[r]) + Cardinality(TasksOf(r)') <= MaxConcurrency
    <2>1. TasksOf(r)' = {}
        BY <1>1, <1>2
    <2>2. Cardinality(TasksOf(r)') = 0 /\ Cardinality(openOffers'[r]) \in {0, 1}
        BY <1>3, <1>4, <2>1
    <2> QED BY <2>2, RunnersAssumption
<1>6. OffersWithinCapacity'
    BY <1>1, <1>2, <1>3, <1>5 DEF OffersWithinCapacity
<1>7. /\ runnerTimers' \subseteq DOMAIN runningTasks'
      /\ \A t \in DOMAIN runningTasks' : /\ t \in DOMAIN matches /\ runnerOf(t) \notin Launchers
                                         /\ runningTasks'[t] \in TaskStatus
    BY <1>1 DEF TypeOK, RunnersKeep
<1>8. \A t : Waits(t) => Waits(t)'
    BY DEF Waits, Running
<1>9. \E q \in Runners, k \in Nat, c \in Int, says \in SUBSET ToBroker :
         /\ Said(q, says, k, c) /\ offersMade' = offersMade + k
         /\ \A m \in says : ~IsOffer(m) /\ TaskOf(q, m)
    BY <1>1
<1> QED BY <1>3, <1>6, <1>7, <1>8, <1>9, RunnerStep

(* The first message to a runner. *)
LEMMA HeadToRunner ==
    ASSUME IInv, NEW r \in Runners, toRunner[r] # <<>>
    PROVE  /\ Head(toRunner[r]) = toRunner[r][1] /\ 1 \in DOMAIN toRunner[r]
           /\ Head(toRunner[r]) \in ToRunner
           /\ TaskOf(r, Head(toRunner[r]))
<1>1. toRunner[r] \in Seq(ToRunner)
    BY DEF IInv, TypeOK
<1>2. /\ Head(toRunner[r]) = toRunner[r][1] /\ 1 \in DOMAIN toRunner[r]
      /\ Head(toRunner[r]) \in ToRunner
    BY <1>1
<1> QED BY <1>2 DEF IInv, Channels, MessagesNameTasks

(* Whatever the broker tells a runner. *)
LEMMA MessageStep ==
    ASSUME IInv, NEW r \in Runners, onMessage(r)
    PROVE  IInv'
<1> DEFINE m == Head(toRunner[r])
           t == m.id
<1>1. /\ toRunner[r] # <<>> /\ UNCHANGED <<brokerVars, requesterVars>>
      /\ toRunner' = [toRunner EXCEPT ![r] = Tail(@)]
      /\ \/ m.type = "taskofferaccept" /\ r \notin Launchers /\ offerAccepted(r, t)
         \/ m.type = "taskofferaccept" /\ r \in Launchers /\ offerDeferred(r, t)
         \/ m.type = "taskcancel" /\ taskCancelled(t)
         \/ m.type = "tasksettings" /\ receivedSettings(t)
    BY DEF onMessage
<1>2. /\ m = toRunner[r][1] /\ 1 \in DOMAIN toRunner[r] /\ m \in ToRunner
      /\ t \in DOMAIN matches /\ runnerOf(t) = r
    BY <1>1, HeadToRunner DEF TaskOf
<1>3. toRunner \in [Runners -> Seq(ToRunner)] /\ TypeOK
    BY DEF IInv, TypeOK
<1>4. toRunner' \in [Runners -> Seq(ToRunner)] /\ Cut(toRunner', toRunner)
    BY <1>1, <1>3, CutHead
<1> HIDE DEF t
<1>5. CASE r \notin Launchers /\ offerAccepted(r, t)
    BY <1>1, <1>2, <1>4, <1>5, AcceptedStep
<1>6. CASE r \in Launchers /\ offerDeferred(r, t)
    <2>1. /\ openOffers' = [openOffers EXCEPT ![r] = {}] /\ Reply(r, "taskdeferred", t)
          /\ UNCHANGED <<link, runningTasks, runnerTimers, offersMade>>
        BY <1>6 DEF offerDeferred
    <2>2. /\ Message("taskdeferred", t) \in ToBroker /\ ~IsOffer(Message("taskdeferred", t))
          /\ TaskOf(r, Message("taskdeferred", t))
        <3>1. t \in Nat
            BY <1>2, <1>3 DEF TypeOK
        <3> QED BY <1>2, <3>1 DEF Message, ToBroker, IsOffer, TaskOf
    <2>3. Said(r, {Message("taskdeferred", t)}, 0, 0)
        BY <1>3, <2>1, <2>2, ReplySaid
    <2>4. {} \in SUBSET (1 .. MaxOffers) /\ offersMade' <= MaxOffers /\ offersMade' = offersMade + 0
        BY <1>3, <2>1 DEF TypeOK
    <2>5. \E k \in Nat, c \in Int, says \in SUBSET ToBroker :
             /\ Said(r, says, k, c) /\ offersMade' = offersMade + k
             /\ \A msg \in says : ~IsOffer(msg) /\ TaskOf(r, msg)
        <3>1. {Message("taskdeferred", t)} \in SUBSET ToBroker /\ 0 \in Nat /\ 0 \in Int
            BY <2>2
        <3>2. \A msg \in {Message("taskdeferred", t)} : ~IsOffer(msg) /\ TaskOf(r, msg)
            BY <2>2
        <3> QED BY <2>3, <2>4, <3>1, <3>2
    <2> QED BY <1>1, <1>4, <1>6, <2>1, <2>4, <2>5, LauncherStep
<1>7. CASE taskCancelled(t)
    <2>1. CASE Running(t) /\ finishTask(t, <<>>)
        <3>1. <<>> \in Seq(ToBroker) /\ \A i \in 1 .. Len(<<>>) : FALSE
            OBVIOUS
        <3> QED BY <1>1, <1>4, <2>1, <3>1, FinishStep
    <2>2. CASE /\ Running(t) /\ runningTasks[t] = "running"
               /\ SetStatus(t, "aborting:cancelled")
        <3>1. ~Waits(t) /\ "aborting:cancelled" \in TaskStatus
            BY <2>2 DEF Waits, TaskStatus
        <3>2. /\ UNCHANGED <<link, openOffers, offersMade, toBroker>>
              /\ runningTasks' = [runningTasks EXCEPT ![t] = "aborting:cancelled"]
              /\ runnerTimers' \subseteq runnerTimers
            BY <2>2 DEF SetStatus
        <3> QED BY <1>1, <1>4, <2>2, <3>1, <3>2, StatusStep
    <2>3. CASE UNCHANGED <<runnerVars, toBroker>>
        BY <1>1, <1>4, <2>3, IdleStep
    <2> QED BY <1>7, <2>1, <2>2, <2>3 DEF taskCancelled
<1>8. CASE m.type = "tasksettings" /\ receivedSettings(t)
    <2>1. CASE Running(t) /\ SetStatus(t, "running")
        <3>1. SettingsOnce /\ MessagesNameTasks
            BY DEF IInv, Channels
        <3>2. /\ t \notin accepting
              /\ \A j \in DOMAIN toRunner[r] : toRunner[r][j] = toRunner[r][1] => j = 1
            BY <1>2, <1>8, <3>1 DEF SettingsOnce, IsSettings, t
        <3>3. ASSUME NEW s \in Runners, NEW i \in DOMAIN toRunner'[s],
                     IsSettings(toRunner'[s][i]), toRunner'[s][i].id = t
              PROVE  FALSE
            <4>1. CASE s = r
                <5>1. /\ toRunner'[s] = Tail(toRunner[r]) /\ toRunner[r] \in Seq(ToRunner)
                    BY <1>1, <1>3, <4>1
                <5>2. /\ i \in Nat \ {0} /\ i + 1 \in DOMAIN toRunner[r]
                      /\ toRunner'[s][i] = toRunner[r][i + 1]
                    BY <1>1, <1>3, <4>1, <5>1
                <5>3. toRunner[r][i + 1] \in ToRunner
                    BY <5>1, <5>2
                <5>4. toRunner[r][i + 1] = toRunner[r][1]
                    BY <1>2, <1>8, <3>3, <5>2, <5>3 DEF ToRunner, IsSettings, t
                <5> QED BY <3>2, <5>2, <5>4
            <4>2. CASE s # r
                <5>1. toRunner'[s] = toRunner[s]
                    BY <1>1, <1>3, <4>2
                <5> QED BY <1>2, <3>1, <3>3, <4>2, <5>1 DEF MessagesNameTasks, TaskOf
            <4> QED BY <4>1, <4>2
        <3>4. /\ UNCHANGED <<link, openOffers, offersMade, toBroker>>
              /\ runningTasks' = [runningTasks EXCEPT ![t] = "running"]
              /\ runnerTimers' \subseteq runnerTimers
              /\ "running" \in TaskStatus
            BY <2>1 DEF SetStatus, TaskStatus
        <3> QED BY <1>1, <1>4, <2>1, <3>2, <3>3, <3>4, StatusStep
    <2>2. CASE UNCHANGED <<runnerVars, toBroker>>
        BY <1>1, <1>4, <2>2, IdleStep
    <2> QED BY <1>8, <2>1, <2>2 DEF receivedSettings
<1> QED BY <1>1, <1>5, <1>6, <1>7, <1>8

(* The interval of a runner, and the offer of a launcher. *)
LEMMA SendOffersStep ==
    ASSUME IInv, NEW r \in Runners, SendOffers(r)
    PROVE  IInv'
<1>1. /\ UNCHANGED <<brokerVars, requesterVars, link, runningTasks, runnerTimers, toRunner>>
      /\ sendOffers(r, openOffers[r], TasksOf(r), <<>>)
    BY DEF SendOffers
<1>2. TypeOK /\ RunnersKeep /\ OffersWithinCapacity /\ toRunner \in [Runners -> Seq(ToRunner)]
    BY DEF IInv, Rooms, TypeOK
<1>3. IsFiniteSet(TasksOf(r)) /\ Cardinality(openOffers[r]) + Cardinality(TasksOf(r)) <= MaxConcurrency
    BY <1>2, TasksFinite DEF OffersWithinCapacity
<1>4. <<>> \in Seq(ToBroker) /\ \A i \in 1 .. Len(<<>>) : <<>>[i] \in {}
    OBVIOUS
<1>5. PICK k \in Nat, c \in Int :
        /\ Said(r, {}, k, c)
        /\ offersMade' = offersMade + k /\ offersMade' <= MaxOffers
        /\ openOffers' \in [Runners -> SUBSET (1 .. MaxOffers)]
        /\ \A s \in Runners \ {r} : openOffers'[s] = openOffers[s]
        /\ Cardinality(openOffers'[r]) + Cardinality(TasksOf(r)) <= MaxConcurrency
    BY <1>1, <1>2, <1>3, <1>4, OffersSent
<1>6. OffersWithinCapacity'
    <2>1. \A s \in Runners : TasksOf(s)' = TasksOf(s)
        BY <1>1 DEF TasksOf, runnerOf, brokerVars
    <2> QED BY <1>2, <1>5, <2>1 DEF OffersWithinCapacity
<1>7. /\ runnerTimers' \subseteq DOMAIN runningTasks'
      /\ \A t \in DOMAIN runningTasks' : /\ t \in DOMAIN matches /\ runnerOf(t) \notin Launchers
                                         /\ runningTasks'[t] \in TaskStatus
    BY <1>1, <1>2 DEF TypeOK, RunnersKeep
<1>8. \A t : Waits(t) => Waits(t)'
    BY <1>1 DEF Waits, Running
<1>9. toRunner' \in [Runners -> Seq(ToRunner)] /\ Cut(toRunner', toRunner)
    BY <1>1, <1>2, CutSame
<1>10. \E q \in Runners, l \in Nat, d \in Int, says \in SUBSET ToBroker :
         /\ Said(q, says, l, d) /\ offersMade' = offersMade + l
         /\ \A m \in says : ~IsOffer(m) /\ TaskOf(q, m)
    BY <1>5, {} \in SUBSET ToBroker
<1> QED BY <1>1, <1>5, <1>6, <1>7, <1>8, <1>9, <1>10, RunnerStep

LEMMA OfferToLaunchStep ==
    ASSUME IInv, NEW r \in Runners, OfferToLaunch(r)
    PROVE  IInv'
<1>1. /\ UNCHANGED <<brokerVars, requesterVars, link, runningTasks, runnerTimers, toRunner>>
      /\ r \in Launchers /\ offersMade < MaxOffers /\ offersMade' = offersMade + 1
      /\ openOffers' = [openOffers EXCEPT ![r] = {offersMade + 1}]
      /\ Reply(r, "taskoffer", offersMade + 1)
    BY DEF OfferToLaunch
<1>2. /\ TypeOK /\ offersMade \in Nat /\ MaxOffers \in Nat
      /\ toRunner \in [Runners -> Seq(ToRunner)] /\ toBroker \in [Runners -> Seq(ToBroker)]
    BY RunnersAssumption DEF IInv, TypeOK
<1> DEFINE msg == Message("taskoffer", offersMade + 1)
           c == Len(toBroker[r])
<1>3. msg \in ToBroker
    BY <1>2 DEF Message, ToBroker
<1>4. Said(r, {}, 1, c) /\ c \in Int
    <2> DEFINE out == Append(toBroker[r], msg)
    <2>1. /\ toBroker[r] \in Seq(ToBroker) /\ c \in Nat
          /\ toBroker' = [toBroker EXCEPT ![r] = out]
        BY <1>1, <1>2 DEF Reply
    <2> HIDE DEF msg
    <2>2. /\ out \in Seq(ToBroker) /\ DOMAIN out = 1 .. (c + 1)
          /\ \A i \in 1 .. c : i \in DOMAIN toBroker[r] /\ out[i] = toBroker[r][i]
          /\ out[c + 1] = msg
        BY <1>3, <2>1, AppendProperties
    <2> HIDE DEF out, c
    <2>3. toBroker' \in [Runners -> Seq(ToBroker)]
        BY <1>2, <2>1, <2>2
    <2>4. toBroker'[r] = out /\ \A s \in Runners \ {r} : toBroker'[s] = toBroker[s]
        BY <1>2, <2>1
    <2>5. ASSUME NEW i \in 1 .. (c + 1)
          PROVE  \/ i \in DOMAIN toBroker[r] /\ out[i] = toBroker[r][i]
                 \/ i - c \in 1 .. 1 /\ out[i] = Message("taskoffer", offersMade + (i - c))
        <3>1. CASE i \in 1 .. c
            BY <2>2, <3>1
        <3>2. CASE i = c + 1
            <4>1. i - c = 1
                BY <2>1, <3>2
            <4> QED BY <2>2, <3>2, <4>1 DEF msg
        <3> QED BY <2>1, <3>1, <3>2
    <2> QED BY <2>1, <2>2, <2>3, <2>4, <2>5 DEF Said
<1>5. /\ {offersMade + 1} \in SUBSET (1 .. MaxOffers) /\ offersMade' <= MaxOffers
    BY <1>1, <1>2
<1>6. toRunner' \in [Runners -> Seq(ToRunner)] /\ Cut(toRunner', toRunner)
    BY <1>1, <1>2, CutSame
<1> HIDE DEF c
<1>7. \E k \in Nat, d \in Int, says \in SUBSET ToBroker :
         /\ Said(r, says, k, d) /\ offersMade' = offersMade + k
         /\ \A m \in says : ~IsOffer(m) /\ TaskOf(r, m)
    BY <1>1, <1>4, {} \in SUBSET ToBroker
<1> QED BY <1>1, <1>5, <1>6, <1>7, LauncherStep

(* A task times out in its runner, or comes to its end. *)
LEMMA RunnerTimeoutStep ==
    ASSUME IInv, NEW t \in DOMAIN matches, RunnerTimeout(t)
    PROVE  IInv'
<1>1. /\ TypeOK /\ t \in DOMAIN runningTasks /\ t \in Nat /\ matches \in Seq(Match)
      /\ toRunner \in [Runners -> Seq(ToRunner)] /\ runningTasks[t] \in TaskStatus
    BY DEF IInv, Rooms, RunnersKeep, TypeOK, RunnerTimeout
<1>2. UNCHANGED <<brokerVars, requesterVars, toRunner>>
    BY DEF RunnerTimeout
<1>3. toRunner' \in [Runners -> Seq(ToRunner)] /\ Cut(toRunner', toRunner)
    BY <1>1, <1>2, CutSame
<1>4. CASE finishTask(t, <<Message("taskerror", t)>>)
    <2>1. /\ Message("taskerror", t) \in ToBroker /\ ~IsOffer(Message("taskerror", t))
          /\ Message("taskerror", t).id = t
        BY <1>1 DEF Message, ToBroker, IsOffer
    <2> DEFINE sent == <<Message("taskerror", t)>>
    <2>2. sent \in Seq(ToBroker) /\ \A i \in 1 .. Len(sent) : ~IsOffer(sent[i]) /\ sent[i].id = t
        BY <2>1
    <2> HIDE DEF sent
    <2>3. finishTask(t, sent)
        BY <1>4 DEF sent
    <2> QED BY <1>1, <1>2, <1>3, <2>2, <2>3, FinishStep DEF Running
<1>5. CASE /\ runningTasks[t] # "waitingForSettings"
           /\ runnerTimers' = runnerTimers \ {t}
           /\ runningTasks' = [runningTasks EXCEPT ![t] =
                                  IF @ = "running" THEN "aborting:timeout" ELSE @]
           /\ UNCHANGED <<link, openOffers, offersMade, toBroker>>
    <2> DEFINE status == IF runningTasks[t] = "running" THEN "aborting:timeout"
                         ELSE runningTasks[t]
    <2>1. status \in TaskStatus /\ runningTasks' = [runningTasks EXCEPT ![t] = status]
        BY <1>1, <1>5 DEF TaskStatus
    <2>2. ~Waits(t) /\ Running(t) /\ runnerTimers' \subseteq runnerTimers
        BY <1>1, <1>5 DEF Waits, Running
    <2>3. runnerOf(t) \in Runners
        <3>1. matches[t] \in Match
            BY <1>1
        <3> QED BY <3>1 DEF Match, runnerOf
    <2> HIDE DEF status
    <2> QED BY <1>2, <1>3, <1>5, <2>1, <2>2, <2>3, StatusStep
<1> QED BY <1>4, <1>5 DEF RunnerTimeout

LEMMA ExecutionEndsStep ==
    ASSUME IInv, NEW t \in DOMAIN matches, ExecutionEnds(t)
    PROVE  IInv'
<1>1. /\ TypeOK /\ t \in Nat /\ Running(t) /\ toRunner \in [Runners -> Seq(ToRunner)]
      /\ UNCHANGED <<brokerVars, requesterVars, toRunner>>
    BY DEF IInv, TypeOK, ExecutionEnds
<1>2. PICK answer \in {"taskdone", "taskerror"} :
        finishTask(t, IF runningTasks[t] = "aborting:cancelled" THEN <<>>
                      ELSE <<Message(answer, t)>>)
    BY DEF ExecutionEnds
<1> DEFINE sent == IF runningTasks[t] = "aborting:cancelled" THEN <<>>
                   ELSE <<Message(answer, t)>>
<1>3. sent \in Seq(ToBroker) /\ \A i \in 1 .. Len(sent) : ~IsOffer(sent[i]) /\ sent[i].id = t
    <2>1. /\ Message(answer, t) \in ToBroker /\ ~IsOffer(Message(answer, t))
          /\ Message(answer, t).id = t
        BY <1>1 DEF Message, ToBroker, IsOffer
    <2> QED BY <2>1
<1>4. toRunner' \in [Runners -> Seq(ToRunner)] /\ Cut(toRunner', toRunner)
    BY <1>1, CutSame
<1>5. finishTask(t, sent)
    BY <1>2
<1> HIDE DEF sent
<1> QED BY <1>1, <1>3, <1>4, <1>5, FinishStep
-----------------------------------------------------------------------------
(* Steps of the broker *)

(* The duties of a step that neither takes nor matches an offer.           *)
LEMMA QuietStep ==
    ASSUME IInv, UNCHANGED <<matches, pendingTaskOffers, openOffers, runningTasks,
                             runnerTimers, offersMade>>,
           toBroker' \in [Runners -> Seq(ToBroker)], Cut(toBroker', toBroker),
           accepting' \subseteq accepting,
           \A s \in Runners : \A i \in DOMAIN toRunner'[s] :
               \/ i \in DOMAIN toRunner[s] /\ toRunner'[s][i] = toRunner[s][i]
               \/ /\ i = Len(toRunner[s]) + 1
                  /\ TaskOf(s, toRunner'[s][i])
                  /\ IsSettings(toRunner'[s][i]) => /\ toRunner'[s][i].id \in accepting
                                                    /\ toRunner'[s][i].id \notin accepting',
           TypeOK', Waiters'
    PROVE  IInv'
<1>1. ListShrinks
    <2>1. Listed(pendingTaskOffers)
        BY DEF IInv, Channels, OffersAreApart
    <2> QED BY <2>1 DEF ListShrinks, Listed
<1>2. Channels'
    BY <1>1, QuietChannels
<1>3. SettingsOnce'
    BY QuietSettings
<1>4. Rooms'
    <2>1. matches' \in Seq(Match) /\ Len(matches') >= Len(matches)
          /\ \A t \in 1 .. Len(matches) : matches'[t] = matches[t]
        BY DEF IInv, TypeOK
    <2> QED BY <2>1, QuietRooms
<1> QED BY <1>2, <1>3, <1>4 DEF IInv

(* The messages stay as they are. *)
LEMMA SameChannels ==
    ASSUME TypeOK
    PROVE  /\ toBroker \in [Runners -> Seq(ToBroker)] /\ Cut(toBroker, toBroker)
           /\ toRunner \in [Runners -> Seq(ToRunner)] /\ Cut(toRunner, toRunner)
BY CutSame DEF TypeOK

(* A request expires. *)
LEMMA RequestTimeoutStep ==
    ASSUME IInv, NEW q \in Requests, RequestTimeout(q)
    PROVE  IInv'
<1>1. TypeOK /\ WaitersAreTracked /\ OneTaskPerRequest
    BY DEF IInv, Waiters
<1>2. /\ UNCHANGED <<knownRunners, pendingTaskOffers, acceptInProgress, matches, accepting,
                     runnerAcceptRejects, tasks, taskTimers, awaited, runnerVars, toBroker,
                     toRunner>>
      /\ requestTimers' = requestTimers \ {q}
      /\ asked' \subseteq asked
    BY DEF RequestTimeout
<1>3. /\ pendingTaskRequests' \in Seq(Requests) /\ asked' \subseteq asked \ {q}
      /\ \A x : x # q /\ IsIn(x, pendingTaskRequests) => IsIn(x, pendingTaskRequests')
    <2>1. CASE IsIn(q, pendingTaskRequests)
        BY <1>1, <2>1, WithoutFirstKeeps DEF RequestTimeout, TypeOK
    <2>2. CASE ~IsIn(q, pendingTaskRequests)
        BY <1>1, <2>2 DEF RequestTimeout, TypeOK, WaitersAreTracked
    <2> QED BY <2>1, <2>2
<1>4. TypeOK'
    BY <1>1, <1>2, <1>3 DEF TypeOK, runnerVars
<1>5. Waiters'
    <2>1. \A x \in asked' : x # q /\ x \in requestTimers' /\ IsIn(x, pendingTaskRequests')
        BY <1>1, <1>2, <1>3 DEF WaitersAreTracked
    <2>2. WaitersAreTracked'
        BY <1>1, <1>2, <2>1 DEF WaitersAreTracked, runnerOf, IsIn
    <2>3. OneTaskPerRequest'
        BY <1>1, <1>2, <1>3 DEF OneTaskPerRequest, requestOf
    <2> QED BY <2>2, <2>3 DEF Waiters
<1>6. toBroker' \in [Runners -> Seq(ToBroker)] /\ Cut(toBroker', toBroker)
    BY <1>1, <1>2, SameChannels
<1> QED BY <1>2, <1>4, <1>5, <1>6, QuietStep DEF runnerVars

(* The runner does not answer in time. *)
LEMMA AcceptTimeoutStep ==
    ASSUME IInv, NEW t \in DOMAIN matches, AcceptTimeout(t)
    PROVE  IInv'
<1>1. TypeOK /\ Waiters
    BY DEF IInv
<1>2. /\ accepting' = accepting \ {t} /\ acceptInProgress' \subseteq acceptInProgress
      /\ UNCHANGED <<knownRunners, pendingTaskOffers, pendingTaskRequests, matches,
                     runnerAcceptRejects, tasks, requestTimers, taskTimers, requesterVars,
                     runnerVars, toBroker, toRunner>>
    BY DEF AcceptTimeout, acceptFails
<1>3. TypeOK'
    BY <1>1, <1>2 DEF TypeOK, runnerVars, requesterVars
<1>4. Waiters'
    BY <1>1, <1>2 DEF Waiters, WaitersAreTracked, OneTaskPerRequest, runnerOf, requestOf, IsIn,
                      requesterVars
<1>5. toBroker' \in [Runners -> Seq(ToBroker)] /\ Cut(toBroker', toBroker)
    BY <1>1, <1>2, SameChannels
<1> QED BY <1>2, <1>3, <1>4, <1>5, QuietStep DEF runnerVars

(* A task is over for its requester, which may be told to the runner.      *)
LEMMA OverStep ==
    ASSUME IInv, NEW t \in DOMAIN matches,
           UNCHANGED <<knownRunners, pendingTaskOffers, pendingTaskRequests, acceptInProgress,
                       matches, accepting, runnerAcceptRejects, requestTimers, asked,
                       runnerVars>>,
           tasks' = tasks \ {t}, awaited' \subseteq awaited,
           taskTimers' = taskTimers \/ taskTimers' = taskTimers \ {t},
           t \notin awaited',
           toBroker' \in [Runners -> Seq(ToBroker)], Cut(toBroker', toBroker),
           Tell(runnerOf(t), "taskcancel", t) \/ UNCHANGED toRunner
    PROVE  IInv'
<1>1. TypeOK /\ WaitersAreTracked /\ OneTaskPerRequest
    BY DEF IInv, Waiters
<1>2. runnerOf(t) \in Runners /\ t \in Nat
    <2>1. matches \in Seq(Match)
        BY <1>1 DEF TypeOK
    <2>2. matches[t] \in Match
        BY <2>1
    <2> QED BY <2>1, <2>2 DEF Match, runnerOf
<1>3. /\ Message("taskcancel", t) \in ToRunner
      /\ TaskOf(runnerOf(t), Message("taskcancel", t))
      /\ ~IsSettings(Message("taskcancel", t))
    BY <1>2 DEF Message, ToRunner, TaskOf, IsSettings
<1>4. /\ toRunner' \in [Runners -> Seq(ToRunner)]
      /\ \A s \in Runners : \A i \in DOMAIN toRunner'[s] :
            \/ i \in DOMAIN toRunner[s] /\ toRunner'[s][i] = toRunner[s][i]
            \/ /\ s = runnerOf(t) /\ i = Len(toRunner[s]) + 1
               /\ toRunner'[s][i] = Message("taskcancel", t)
    <2>1. CASE Tell(runnerOf(t), "taskcancel", t)
        BY <1>1, <1>2, <1>3, <2>1, TellEffect
    <2>2. CASE UNCHANGED toRunner
        BY <1>1, <2>2 DEF TypeOK
    <2> QED BY <2>1, <2>2
<1>5. TypeOK'
    BY <1>1, <1>4 DEF TypeOK, runnerVars
<1>6. Waiters'
    <2>1. WaitersAreTracked'
        BY <1>1 DEF WaitersAreTracked, runnerOf, IsIn
    <2>2. OneTaskPerRequest'
        BY <1>1 DEF OneTaskPerRequest, requestOf
    <2> QED BY <2>1, <2>2 DEF Waiters
<1> QED BY <1>3, <1>4, <1>5, <1>6, QuietStep DEF runnerVars

LEMMA TaskTimeoutStep ==
    ASSUME IInv, NEW t \in DOMAIN matches, TaskTimeout(t)
    PROVE  IInv'
<1>1. TypeOK /\ WaitersAreTracked
    BY DEF IInv, Waiters
<1>2. t \notin tasks => t \notin awaited
    BY <1>1 DEF WaitersAreTracked
<1>3. toBroker' \in [Runners -> Seq(ToBroker)] /\ Cut(toBroker', toBroker)
    BY <1>1, SameChannels DEF TaskTimeout
<1> QED BY <1>2, <1>3, OverStep DEF TaskTimeout

LEMMA CancelTaskStep ==
    ASSUME IInv, NEW t \in DOMAIN matches, CancelTask(t)
    PROVE  IInv'
<1>1. TypeOK
    BY DEF IInv
<1>2. toBroker' \in [Runners -> Seq(ToBroker)] /\ Cut(toBroker', toBroker)
    BY <1>1, SameChannels DEF CancelTask
<1> QED BY <1>2, OverStep DEF CancelTask

(* The duties of a step that settles: what it takes for offers is new, and *)
(* who waits for a task has its request among those it takes.              *)
LEMMA SettleStep ==
    ASSUME IInv, NEW offers \in Seq(Offer), NEW requests \in Seq(Requests),
           settleTasks(offers, requests),
           UNCHANGED <<knownRunners, tasks, taskTimers, awaited, runnerVars>>,
           toBroker' \in [Runners -> Seq(ToBroker)], Cut(toBroker', toBroker),
           Listed(offers),
           \A k \in DOMAIN offers :
               /\ Unmatched(offers[k].id)
               /\ \A r \in Runners : \A i \in DOMAIN toBroker'[r] :
                     IsOffer(toBroker'[r][i]) => toBroker'[r][i].id # offers[k].id,
           asked' \subseteq Requests, requestTimers' \subseteq Requests,
           \A q \in asked' : /\ q \in requestTimers' /\ IsIn(q, requests)
                             /\ \A t \in awaited : requestOf(t) # q
    PROVE  IInv'
<1>1. TypeOK /\ WaitersAreTracked /\ OneTaskPerRequest
    BY DEF IInv, Waiters
<1>2. PICK n \in Nat, m \in Nat : \E p \in [1 .. (n + m) -> DOMAIN offers] :
          Settled(offers, n, m, p)
    BY <1>1, SettleEffect
<1>3. PICK p \in [1 .. (n + m) -> DOMAIN offers] : Settled(offers, n, m, p)
    BY <1>2
<1>4. Channels' /\ Rooms' /\ SettingsOnce'
    BY <1>3, SettleKeeps DEF runnerVars
<1>5. pendingTaskRequests' = requests
    BY DEF settleTasks
<1>6. /\ matches \in Seq(Match) /\ matches' \in Seq(Match)
      /\ DOMAIN matches' = DOMAIN matches \cup NewTasks(n)
      /\ \A t \in DOMAIN matches : matches'[t] = matches[t]
      /\ accepting' = accepting \cup NewTasks(n)
      /\ runnerAcceptRejects' = runnerAcceptRejects \cup NewTasks(n)
      /\ pendingTaskOffers' \in Seq(Offer) /\ acceptInProgress' \subseteq Requests
      /\ toRunner' \in [Runners -> Seq(ToRunner)]
    <2>1. matches \in Seq(Match) /\ matches' \in Seq(Match) /\ Len(matches) \in Nat
          /\ Len(matches') = Len(matches) + n
        BY <1>1, <1>3 DEF TypeOK, Settled
    <2>2. DOMAIN matches' = DOMAIN matches \cup NewTasks(n)
        BY <2>1 DEF NewTasks
    <2> QED BY <1>3, <2>1, <2>2 DEF Settled
<1>7. TypeOK'
    <2>1. /\ accepting' \subseteq DOMAIN matches' /\ runnerAcceptRejects' \subseteq DOMAIN matches'
          /\ tasks' \subseteq DOMAIN matches' /\ taskTimers' \subseteq DOMAIN matches'
          /\ awaited' \subseteq DOMAIN matches' /\ runnerTimers' \subseteq DOMAIN matches'
          /\ DOMAIN runningTasks' \subseteq DOMAIN matches'
        BY <1>1, <1>6 DEF TypeOK, runnerVars
    <2>2. /\ pendingTaskRequests' \in Seq(Requests) /\ knownRunners' \subseteq Runners
          /\ link' \in [Runners -> {"new", "up", "closed", "gone"}]
          /\ openOffers' \in [Runners -> SUBSET (1 .. MaxOffers)]
          /\ \A t \in DOMAIN runningTasks' : runningTasks'[t] \in TaskStatus
          /\ offersMade' \in 0 .. MaxOffers
        BY <1>1, <1>5 DEF TypeOK, runnerVars
    <2> QED BY <1>6, <2>1, <2>2 DEF TypeOK
<1>8. Waiters'
    <2>1. \A t \in awaited' : /\ t \in awaited /\ t \in DOMAIN matches
                              /\ matches'[t] = matches[t]
        BY <1>1, <1>6 DEF TypeOK
    <2>2. WaitersAreTracked'
        <3>1. \A t \in awaited' : t \in tasks' \cap taskTimers' /\ matches'[t].runner \in knownRunners'
            BY <1>1, <2>1 DEF WaitersAreTracked, runnerOf
        <3> QED BY <1>5, <3>1 DEF WaitersAreTracked, runnerOf, IsIn
    <2>3. OneTaskPerRequest'
        BY <1>1, <2>1 DEF OneTaskPerRequest, requestOf
    <2> QED BY <2>2, <2>3 DEF Waiters
<1> QED BY <1>4, <1>7, <1>8 DEF IInv

(* A task is asked for. *)
LEMMA RequestTaskStep ==
    ASSUME IInv, NEW q \in Requests, RequestTask(q)
    PROVE  IInv'
<1>1. TypeOK /\ WaitersAreTracked /\ OneTaskPerRequest /\ OffersAreApart
    BY DEF IInv, Waiters, Channels
<1> DEFINE requests == Append(pendingTaskRequests, q)
<1>2. /\ \A t \in DOMAIN matches : requestOf(t) # q
      /\ asked' = asked \cup {q} /\ requestTimers' = requestTimers \cup {q}
      /\ settleTasks(pendingTaskOffers, requests)
      /\ UNCHANGED <<knownRunners, tasks, taskTimers, awaited, runnerVars, toBroker>>
    BY DEF RequestTask
<1>3. pendingTaskOffers \in Seq(Offer) /\ pendingTaskRequests \in Seq(Requests)
    BY <1>1 DEF TypeOK
<1>4. /\ requests \in Seq(Requests)
      /\ DOMAIN requests = 1 .. (Len(pendingTaskRequests) + 1)
      /\ \A i \in 1 .. Len(pendingTaskRequests) : requests[i] = pendingTaskRequests[i]
      /\ requests[Len(pendingTaskRequests) + 1] = q
    BY <1>3, AppendProperties
<1> HIDE DEF requests
<1>5. IsIn(q, requests) /\ \A x : IsIn(x, pendingTaskRequests) => IsIn(x, requests)
    BY <1>3, <1>4 DEF IsIn
<1>6. \A x \in asked' : /\ x \in requestTimers' /\ IsIn(x, requests)
                        /\ \A t \in awaited : requestOf(t) # x
    <2>1. awaited \subseteq DOMAIN matches
        BY <1>1 DEF TypeOK
    <2> QED BY <1>1, <1>2, <1>5, <2>1 DEF WaitersAreTracked, OneTaskPerRequest
<1>7. toBroker' \in [Runners -> Seq(ToBroker)] /\ Cut(toBroker', toBroker)
    BY <1>1, <1>2, SameChannels
<1>8. /\ Listed(pendingTaskOffers)
      /\ \A k \in DOMAIN pendingTaskOffers :
            /\ Unmatched(pendingTaskOffers[k].id)
            /\ \A r \in Runners : \A i \in DOMAIN toBroker'[r] :
                  IsOffer(toBroker'[r][i]) => toBroker'[r][i].id # pendingTaskOffers[k].id
    BY <1>1, <1>2 DEF OffersAreApart, OffersOnTheWayNew, OfferUsedOnce, Unmatched
<1>9. asked' \subseteq Requests /\ requestTimers' \subseteq Requests
    BY <1>1, <1>2 DEF TypeOK
<1> QED BY <1>2, <1>3, <1>4, <1>6, <1>7, <1>8, <1>9, SettleStep

(* The first message of a runner, and what is left after it. *)
LEMMA HeadToBroker ==
    ASSUME IInv, NEW r \in Runners, toBroker[r] # <<>>,
           toBroker' = [toBroker EXCEPT ![r] = Tail(@)]
    PROVE  /\ Head(toBroker[r]) = toBroker[r][1] /\ 1 \in DOMAIN toBroker[r]
           /\ Head(toBroker[r]) \in ToBroker
           /\ IsOffer(Head(toBroker[r])) \/ TaskOf(r, Head(toBroker[r]))
           /\ toBroker' \in [Runners -> Seq(ToBroker)] /\ Cut(toBroker', toBroker)
<1>1. toBroker \in [Runners -> Seq(ToBroker)] /\ toBroker[r] \in Seq(ToBroker)
    BY DEF IInv, TypeOK
<1>2. /\ Head(toBroker[r]) = toBroker[r][1] /\ 1 \in DOMAIN toBroker[r]
      /\ Head(toBroker[r]) \in ToBroker
    BY <1>1
<1>3. IsOffer(Head(toBroker[r])) \/ TaskOf(r, Head(toBroker[r]))
    BY <1>2 DEF IInv, Channels, MessagesNameTasks
<1> QED BY <1>1, <1>2, <1>3, CutHead

(* A runner offers to take a task. *)
LEMMA OfferedStep ==
    ASSUME IInv, NEW r \in Runners, toBroker[r] # <<>>,
           toBroker' = [toBroker EXCEPT ![r] = Tail(@)], UNCHANGED runnerVars,
           IsOffer(Head(toBroker[r])), taskOffered(r, Head(toBroker[r]).id)
    PROVE  IInv'
<1> DEFINE o == Head(toBroker[r]).id
           L == Len(pendingTaskOffers)
           offers == Append(pendingTaskOffers, [id |-> o, runner |-> r])
<1>1. TypeOK /\ WaitersAreTracked /\ OneTaskPerRequest /\ OffersAreApart
    BY DEF IInv, Waiters, Channels
<1>2. /\ settleTasks(offers, pendingTaskRequests)
      /\ UNCHANGED <<knownRunners, tasks, requestTimers, taskTimers, requesterVars, runnerVars>>
    BY DEF taskOffered
<1>3. /\ toBroker[r][1].id = o /\ IsOffer(toBroker[r][1]) /\ 1 \in DOMAIN toBroker[r]
      /\ o \in Nat
      /\ toBroker' \in [Runners -> Seq(ToBroker)] /\ Cut(toBroker', toBroker)
    BY HeadToBroker DEF ToBroker
<1> HIDE DEF o
<1>4. pendingTaskOffers \in Seq(Offer) /\ pendingTaskRequests \in Seq(Requests) /\ L \in Nat
    BY <1>1 DEF TypeOK
<1>5. [id |-> o, runner |-> r] \in Offer
    BY <1>3 DEF Offer
<1>6. /\ offers \in Seq(Offer) /\ DOMAIN offers = 1 .. (L + 1)
      /\ \A k \in 1 .. L : k \in DOMAIN pendingTaskOffers /\ offers[k] = pendingTaskOffers[k]
      /\ offers[L + 1].id = o
    BY <1>4, <1>5, AppendProperties
<1> HIDE DEF offers, L
<1>7. /\ o <= offersMade /\ Unmatched(o)
      /\ \A k \in DOMAIN pendingTaskOffers : pendingTaskOffers[k].id # o
    BY <1>1, <1>3 DEF OffersAreApart, OffersOnTheWayNew
<1>8. \A k \in DOMAIN offers : k \in 1 .. L \/ k = L + 1
    BY <1>4, <1>6
<1>9. Listed(offers)
    <2>1. \A k \in DOMAIN offers : offers[k].id <= offersMade
        BY <1>1, <1>6, <1>7, <1>8 DEF OffersAreApart, Listed
    <2>2. ASSUME NEW k \in DOMAIN offers, NEW l \in DOMAIN offers, offers[k].id = offers[l].id
          PROVE  k = l
        BY <1>1, <1>6, <1>7, <1>8, <2>2 DEF OffersAreApart, Listed
    <2> QED BY <2>1, <2>2 DEF Listed
<1>10. ASSUME NEW s \in Runners, NEW i \in DOMAIN toBroker'[s], IsOffer(toBroker'[s][i])
       PROVE  /\ toBroker'[s][i].id # o
              /\ \A k \in DOMAIN pendingTaskOffers :
                    pendingTaskOffers[k].id # toBroker'[s][i].id
    <2>1. toBroker[r] \in Seq(ToBroker) /\ toBroker \in [Runners -> Seq(ToBroker)]
        BY <1>1 DEF TypeOK
    <2>2. PICK j \in DOMAIN toBroker[s] : /\ toBroker'[s][i] = toBroker[s][j]
                                          /\ ~(s = r /\ j = 1)
        <3>1. CASE s = r
            <4>1. toBroker'[s] = Tail(toBroker[r])
                BY <2>1, <3>1
            <4>2. /\ i \in Nat \ {0} /\ i + 1 \in DOMAIN toBroker[r]
                  /\ toBroker'[s][i] = toBroker[r][i + 1]
                BY <2>1, <3>1, <4>1
            <4> QED BY <3>1, <4>2
        <3>2. CASE s # r
            <4>1. toBroker'[s] = toBroker[s]
                BY <2>1, <3>2
            <4> QED BY <3>2, <4>1
        <3> QED BY <3>1, <3>2
    <2>3. toBroker[s][j].id # o
        BY <1>1, <1>3, <1>10, <2>2 DEF OffersAreApart, OffersOnTheWayApart
    <2> QED BY <1>1, <1>10, <2>2, <2>3 DEF OffersAreApart, OffersOnTheWayNew
<1>11. \A k \in DOMAIN offers :
          /\ Unmatched(offers[k].id)
          /\ \A s \in Runners : \A i \in DOMAIN toBroker'[s] :
                IsOffer(toBroker'[s][i]) => toBroker'[s][i].id # offers[k].id
    <2>1. \A k \in DOMAIN pendingTaskOffers : Unmatched(pendingTaskOffers[k].id)
        BY <1>1 DEF OffersAreApart, OfferUsedOnce, Unmatched
    <2> QED BY <1>6, <1>7, <1>8, <1>10, <2>1
<1>12. /\ asked' \subseteq Requests /\ requestTimers' \subseteq Requests
       /\ \A q \in asked' : /\ q \in requestTimers' /\ IsIn(q, pendingTaskRequests)
                            /\ \A t \in awaited : requestOf(t) # q
    BY <1>1, <1>2 DEF TypeOK, WaitersAreTracked, OneTaskPerRequest, requesterVars
<1> QED BY <1>2, <1>3, <1>4, <1>6, <1>9, <1>11, <1>12, SettleStep DEF requesterVars

(* A runner accepts: its request is looked for, and the task registered.   *)
LEMMA AcceptStep ==
    ASSUME IInv, NEW r \in knownRunners, NEW t \in DOMAIN matches, runnerOf(t) = r,
           toBroker' \in [Runners -> Seq(ToBroker)], Cut(toBroker', toBroker),
           UNCHANGED runnerVars, handleRunnerAccept(r, t)
    PROVE  IInv'
<1> DEFINE q == requestOf(t)
           found == IsIn(q, pendingTaskRequests)
           given == t \in accepting /\ found /\ q \in asked
<1>1. /\ TypeOK /\ WaitersAreTracked /\ OneTaskPerRequest
      /\ matches \in Seq(Match) /\ t \in Nat /\ r \in Runners
    BY DEF IInv, Waiters, TypeOK
<1>2. q \in Requests
    <2>1. matches[t] \in Match
        BY <1>1
    <2> QED BY <2>1 DEF Match, requestOf
<1>3. /\ accepting' = accepting \ {t} /\ runnerAcceptRejects' = runnerAcceptRejects \ {t}
      /\ UNCHANGED <<knownRunners, pendingTaskOffers, acceptInProgress, matches>>
    BY DEF handleRunnerAccept
<1>4. /\ requestTimers' = IF t \in accepting THEN requestTimers \ {q} ELSE requestTimers
      /\ pendingTaskRequests' = IF t \in accepting /\ found
                                THEN WithoutFirst(pendingTaskRequests, q)
                                ELSE pendingTaskRequests
      /\ asked' = IF given THEN asked \ {q} ELSE asked
      /\ awaited' = IF given THEN awaited \cup {t} ELSE awaited
      /\ taskTimers' = IF given THEN taskTimers \cup {t} ELSE taskTimers
      /\ tasks \subseteq tasks' /\ tasks' \subseteq tasks \cup {t}
      /\ given => t \in tasks'
    BY DEF handleRunnerAccept, requesterVars
<1>5. \/ UNCHANGED toRunner
      \/ Tell(r, "taskcancel", t)
      \/ given /\ Tell(r, "tasksettings", t)
    BY DEF handleRunnerAccept
<1>6. /\ pendingTaskRequests' \in Seq(Requests)
      /\ \A x : x # q /\ IsIn(x, pendingTaskRequests) => IsIn(x, pendingTaskRequests')
    BY <1>1, <1>4, WithoutFirstKeeps DEF TypeOK
<1>7. q \in asked' => t \notin accepting
    BY <1>1, <1>4 DEF WaitersAreTracked
<1>8. \A type \in {"taskcancel", "tasksettings"} :
         /\ Message(type, t) \in ToRunner /\ TaskOf(r, Message(type, t))
         /\ Message(type, t).id = t
         /\ IsSettings(Message(type, t)) => type = "tasksettings"
    BY <1>1 DEF Message, ToRunner, TaskOf, IsSettings
<1>9. /\ toRunner' \in [Runners -> Seq(ToRunner)]
      /\ \A s \in Runners : \A i \in DOMAIN toRunner'[s] :
            \/ i \in DOMAIN toRunner[s] /\ toRunner'[s][i] = toRunner[s][i]
            \/ /\ i = Len(toRunner[s]) + 1
               /\ TaskOf(s, toRunner'[s][i])
               /\ IsSettings(toRunner'[s][i]) => /\ toRunner'[s][i].id \in accepting
                                                 /\ toRunner'[s][i].id \notin accepting'
    <2>1. CASE UNCHANGED toRunner
        BY <1>1, <2>1 DEF TypeOK
    <2>2. CASE Tell(r, "taskcancel", t)
        <3>1. Message("taskcancel", t) \in ToRunner
            BY <1>8
        <3>2. /\ toRunner' \in [Runners -> Seq(ToRunner)]
              /\ \A s \in Runners : \A i \in DOMAIN toRunner'[s] :
                    \/ i \in DOMAIN toRunner[s] /\ toRunner'[s][i] = toRunner[s][i]
                    \/ /\ s = r /\ i = Len(toRunner[s]) + 1
                       /\ toRunner'[s][i] = Message("taskcancel", t)
            BY <1>1, <2>2, <3>1, TellEffect
        <3> QED BY <1>8, <3>2
    <2>3. CASE given /\ Tell(r, "tasksettings", t)
        <3>1. Message("tasksettings", t) \in ToRunner
            BY <1>8
        <3>2. /\ toRunner' \in [Runners -> Seq(ToRunner)]
              /\ \A s \in Runners : \A i \in DOMAIN toRunner'[s] :
                    \/ i \in DOMAIN toRunner[s] /\ toRunner'[s][i] = toRunner[s][i]
                    \/ /\ s = r /\ i = Len(toRunner[s]) + 1
                       /\ toRunner'[s][i] = Message("tasksettings", t)
            BY <1>1, <2>3, <3>1, TellEffect
        <3>3. t \in accepting /\ t \notin accepting'
            BY <1>3, <2>3
        <3> QED BY <1>8, <3>2, <3>3
    <2> QED BY <1>5, <2>1, <2>2, <2>3
<1>10. TypeOK'
    <2>1. /\ accepting' \subseteq DOMAIN matches /\ runnerAcceptRejects' \subseteq DOMAIN matches
          /\ tasks' \subseteq DOMAIN matches /\ taskTimers' \subseteq DOMAIN matches
          /\ awaited' \subseteq DOMAIN matches
          /\ requestTimers' \subseteq Requests /\ asked' \subseteq Requests
        BY <1>1, <1>3, <1>4 DEF TypeOK
    <2> QED BY <1>1, <1>3, <1>6, <1>9, <2>1 DEF TypeOK, runnerVars
<1>11. Waiters'
    <2>1. \A x \in asked' : /\ x \in requestTimers' /\ IsIn(x, pendingTaskRequests')
        <3>1. \A x \in asked' : x \in asked /\ (x = q => t \notin accepting)
            BY <1>4, <1>7
        <3> QED BY <1>1, <1>4, <1>6, <3>1 DEF WaitersAreTracked
    <2>2. \A u \in awaited' : u \in tasks' \cap taskTimers' /\ runnerOf(u) \in knownRunners
        BY <1>1, <1>4 DEF WaitersAreTracked
    <2>3. WaitersAreTracked'
        BY <1>3, <2>1, <2>2 DEF WaitersAreTracked, runnerOf, IsIn
    <2>4. \A u, v \in awaited' : requestOf(u) = requestOf(v) => u = v
        BY <1>1, <1>4 DEF OneTaskPerRequest
    <2>5. \A u \in awaited' : requestOf(u) \notin asked'
        BY <1>1, <1>4 DEF OneTaskPerRequest
    <2>6. OneTaskPerRequest'
        BY <1>3, <2>4, <2>5 DEF OneTaskPerRequest, requestOf
    <2> QED BY <2>3, <2>6 DEF Waiters
<1> QED BY <1>3, <1>9, <1>10, <1>11, QuietStep DEF runnerVars

(* It rejects or defers: another offer may serve the request. *)
LEMMA RejectStep ==
    ASSUME IInv, NEW t \in DOMAIN matches,
           toBroker' \in [Runners -> Seq(ToBroker)], Cut(toBroker', toBroker),
           UNCHANGED runnerVars, handleRunnerReject(t) \/ handleRunnerDeferred(t)
    PROVE  IInv'
<1>1. TypeOK /\ WaitersAreTracked /\ OneTaskPerRequest
    BY DEF IInv, Waiters
<1>2. /\ runnerAcceptRejects' = runnerAcceptRejects \ {t} /\ accepting' = accepting \ {t}
      /\ acceptInProgress' \subseteq acceptInProgress
      /\ UNCHANGED <<knownRunners, pendingTaskOffers, matches, tasks, taskTimers,
                     requesterVars, toRunner>>
    BY DEF handleRunnerReject, handleRunnerDeferred, acceptFails
<1>3. \/ UNCHANGED <<requestTimers, pendingTaskRequests>>
      \/ /\ requestTimers' = requestTimers \cup {requestOf(t)}
         /\ pendingTaskRequests' = Append(pendingTaskRequests, requestOf(t))
    BY DEF handleRunnerReject, handleRunnerDeferred
<1>4. requestOf(t) \in Requests
    <2>1. matches \in Seq(Match)
        BY <1>1 DEF TypeOK
    <2>2. matches[t] \in Match
        BY <2>1
    <2> QED BY <2>2 DEF Match, requestOf
<1>5. /\ pendingTaskRequests' \in Seq(Requests)
      /\ \A x : IsIn(x, pendingTaskRequests) => IsIn(x, pendingTaskRequests')
      /\ requestTimers \subseteq requestTimers' /\ requestTimers' \subseteq Requests
    <2>1. CASE UNCHANGED <<requestTimers, pendingTaskRequests>>
        BY <1>1, <2>1 DEF TypeOK, IsIn
    <2>2. CASE /\ requestTimers' = requestTimers \cup {requestOf(t)}
               /\ pendingTaskRequests' = Append(pendingTaskRequests, requestOf(t))
        <3>1. pendingTaskRequests \in Seq(Requests) /\ requestTimers \subseteq Requests
            BY <1>1 DEF TypeOK
        <3> QED BY <1>4, <2>2, <3>1, AppendProperties DEF IsIn
    <2> QED BY <1>3, <2>1, <2>2
<1>6. TypeOK'
    BY <1>1, <1>2, <1>5 DEF TypeOK, requesterVars, runnerVars
<1>7. Waiters'
    <2>1. WaitersAreTracked'
        BY <1>1, <1>2, <1>5 DEF WaitersAreTracked, runnerOf, IsIn, requesterVars
    <2>2. OneTaskPerRequest'
        BY <1>1, <1>2 DEF OneTaskPerRequest, requestOf, requesterVars
    <2> QED BY <2>1, <2>2 DEF Waiters
<1>8. /\ UNCHANGED <<pendingTaskOffers, matches, toRunner>> /\ accepting' \subseteq accepting
    BY <1>2
<1> QED BY <1>6, <1>7, <1>8, QuietStep DEF runnerVars

(* What a runner says is dropped. *)
LEMMA DropStep ==
    ASSUME IInv, UNCHANGED <<brokerVars, requesterVars, toRunner, runnerVars>>,
           toBroker' \in [Runners -> Seq(ToBroker)], Cut(toBroker', toBroker)
    PROVE  IInv'
<1>1. TypeOK /\ Waiters
    BY DEF IInv
<1>2. TypeOK'
    BY <1>1 DEF TypeOK, brokerVars, requesterVars, runnerVars
<1>3. Waiters'
    BY <1>1 DEF Waiters, WaitersAreTracked, OneTaskPerRequest, runnerOf, requestOf, IsIn,
                brokerVars, requesterVars
<1>4. /\ UNCHANGED <<matches, pendingTaskOffers, toRunner>> /\ accepting' \subseteq accepting
    BY DEF brokerVars
<1> QED BY <1>2, <1>3, <1>4, QuietStep DEF runnerVars

(* Whatever a runner says. *)
LEMMA RunnerMessageStep ==
    ASSUME IInv, NEW r \in Runners, onRunnerMessage(r)
    PROVE  IInv'
<1> DEFINE m == Head(toBroker[r])
           t == m.id
<1>1. /\ toBroker[r] # <<>> /\ toBroker' = [toBroker EXCEPT ![r] = Tail(@)]
      /\ UNCHANGED runnerVars
    BY DEF onRunnerMessage
<1>2. m \in ToBroker /\ (IsOffer(m) \/ TaskOf(r, m))
    BY <1>1, HeadToBroker
<1>3. toBroker' \in [Runners -> Seq(ToBroker)] /\ Cut(toBroker', toBroker)
    BY <1>1, HeadToBroker
<1>4. \/ UNCHANGED <<brokerVars, requesterVars, toRunner>>
      \/ IsOffer(m) /\ taskOffered(r, t)
      \/ ~IsOffer(m) /\ taskAnswered(t)
      \/ ~IsOffer(m) /\ r \in knownRunners /\ handleReply(r, m)
    BY DEF onRunnerMessage, IsOffer, Replies
<1>5. ~IsOffer(m) => t \in DOMAIN matches /\ runnerOf(t) = r
    BY <1>2 DEF TaskOf
<1>6. CASE UNCHANGED <<brokerVars, requesterVars, toRunner>>
    BY <1>1, <1>3, <1>6, DropStep
<1>7. CASE IsOffer(m) /\ taskOffered(r, t)
    BY <1>1, <1>7, OfferedStep
<1> HIDE DEF m
<1>8. CASE ~IsOffer(m) /\ taskAnswered(t)
    <2>1. /\ TypeOK /\ WaitersAreTracked
        BY DEF IInv, Waiters
    <2>2. /\ tasks' = tasks \ {t}
          /\ taskTimers' = taskTimers \/ taskTimers' = taskTimers \ {t}
          /\ awaited' = IF t \in tasks THEN awaited \ {t} ELSE awaited
          /\ UNCHANGED <<knownRunners, pendingTaskOffers, pendingTaskRequests, acceptInProgress,
                         matches, accepting, runnerAcceptRejects, requestTimers, asked, toRunner>>
        BY <1>8 DEF taskAnswered, Answered
    <2>3. awaited' \subseteq awaited /\ t \notin awaited'
        BY <2>1, <2>2 DEF WaitersAreTracked
    <2> QED BY <1>1, <1>3, <1>5, <1>8, <2>2, <2>3, OverStep
<1>9. CASE ~IsOffer(m) /\ r \in knownRunners /\ handleReply(r, m)
    <2>1. CASE handleRunnerAccept(r, t)
        BY <1>1, <1>3, <1>5, <1>9, <2>1, AcceptStep
    <2>2. CASE handleRunnerReject(t) \/ handleRunnerDeferred(t)
        BY <1>1, <1>3, <1>5, <1>9, <2>2, RejectStep
    <2> QED BY <1>9, <2>1, <2>2 DEF handleReply
<1> QED BY <1>4, <1>6, <1>7, <1>8, <1>9
-----------------------------------------------------------------------------
(* Connections *)

LEMMA ConnectStep ==
    ASSUME IInv, NEW r \in Runners, Connect(r)
    PROVE  IInv'
<1>1. TypeOK /\ Waiters
    BY DEF IInv
<1>2. /\ knownRunners' = knownRunners \cup {r} /\ link' = [link EXCEPT ![r] = "up"]
      /\ UNCHANGED <<pendingTaskOffers, pendingTaskRequests, acceptInProgress, matches,
                     accepting, runnerAcceptRejects, tasks, requestTimers, taskTimers,
                     requesterVars, openOffers, runningTasks, runnerTimers, offersMade,
                     toBroker, toRunner>>
    BY DEF Connect
<1>3. TypeOK'
    BY <1>1, <1>2 DEF TypeOK, requesterVars
<1>4. Waiters'
    BY <1>1, <1>2 DEF Waiters, WaitersAreTracked, OneTaskPerRequest, runnerOf, requestOf, IsIn,
                      requesterVars
<1>5. toBroker' \in [Runners -> Seq(ToBroker)] /\ Cut(toBroker', toBroker)
    BY <1>1, <1>2, SameChannels
<1>6. accepting' \subseteq accepting
    BY <1>2
<1> QED BY <1>2, <1>3, <1>4, <1>5, <1>6, QuietStep

(* A runner or its connection dies. *)
LEMMA CloseStep ==
    ASSUME IInv, NEW r \in Runners, Close(r)
    PROVE  IInv'
<1>1. /\ TypeOK /\ RunnersKeep /\ OffersWithinCapacity /\ Waiters /\ OffersAreApart
      /\ toBroker \in [Runners -> Seq(ToBroker)] /\ toRunner \in [Runners -> Seq(ToRunner)]
      /\ openOffers \in [Runners -> SUBSET (1 .. MaxOffers)]
    BY DEF IInv, Rooms, Channels, TypeOK
<1>2. /\ link' = [link EXCEPT ![r] = "closed"]
      /\ openOffers' = [openOffers EXCEPT ![r] = {}]
      /\ runningTasks' = Without(runningTasks, TasksOf(r))
      /\ runnerTimers' = runnerTimers \ TasksOf(r)
      /\ toRunner' = [toRunner EXCEPT ![r] = <<>>]
      /\ UNCHANGED <<brokerVars, requesterVars, offersMade>>
    BY DEF Close
<1>3. PICK n \in 0 .. Len(toBroker[r]) :
          toBroker' = [toBroker EXCEPT ![r] = SubSeq(@, 1, n)]
    BY DEF Close
<1>4. toBroker' \in [Runners -> Seq(ToBroker)] /\ Cut(toBroker', toBroker)
    BY <1>1, <1>3, CutBack
<1>5. toRunner' \in [Runners -> Seq(ToRunner)] /\ Cut(toRunner', toRunner)
    BY <1>1, <1>2, CutAll
<1>6. /\ DOMAIN runningTasks' = DOMAIN runningTasks \ TasksOf(r)
      /\ \A t \in DOMAIN runningTasks' : runningTasks'[t] = runningTasks[t]
    BY <1>2 DEF Without
<1>7. TypeOK'
    <2>1. openOffers' \in [Runners -> SUBSET (1 .. MaxOffers)]
        BY <1>1, <1>2
    <2>2. link' \in [Runners -> {"new", "up", "closed", "gone"}]
        BY <1>1, <1>2 DEF TypeOK
    <2> QED BY <1>1, <1>2, <1>4, <1>5, <1>6, <2>1, <2>2 DEF TypeOK, brokerVars, requesterVars
<1>8. Channels'
    <2>1. \A s \in Runners : \A i \in DOMAIN toRunner'[s] :
             i \in DOMAIN toRunner[s] /\ toRunner'[s][i] = toRunner[s][i]
        BY <1>1, <1>2
    <2>2. ListShrinks
        BY <1>1, <1>2 DEF ListShrinks, OffersAreApart, Listed, brokerVars
    <2> QED BY <1>2, <1>4, <2>1, <2>2, QuietChannels DEF brokerVars
<1>9. Rooms'
    <2>1. RunnersKeep'
        BY <1>1, <1>2, <1>6 DEF RunnersKeep, runnerOf, brokerVars
    <2>2. ASSUME NEW s \in Runners
          PROVE  Cardinality(openOffers'[s]) + Cardinality(TasksOf(s)') <= MaxConcurrency
        <3>1. TasksOf(s)' = IF s = r THEN {} ELSE TasksOf(s)
            BY <1>2, <1>6 DEF TasksOf, runnerOf, brokerVars
        <3>2. openOffers'[s] = IF s = r THEN {} ELSE openOffers[s]
            BY <1>1, <1>2
        <3> QED BY <1>1, <3>1, <3>2, FS_EmptySet, RunnersAssumption DEF OffersWithinCapacity
    <2>3. OffersWithinCapacity'
        BY <2>2 DEF OffersWithinCapacity
    <2> QED BY <2>1, <2>3 DEF Rooms
<1>10. SettingsOnce'
    <2>1. \A t : Waits(t) => Waits(t)'
        BY <1>6 DEF Waits, Running
    <2> QED BY <1>2, <1>5, <2>1, TakenSettings DEF brokerVars
<1>11. Waiters'
    BY <1>1, <1>2 DEF Waiters, WaitersAreTracked, OneTaskPerRequest, runnerOf, requestOf, IsIn,
                      brokerVars, requesterVars
<1> QED BY <1>7, <1>8, <1>9, <1>10, <1>11 DEF IInv

(* The broker forgets a runner: its offers are dropped, its tasks fail.    *)
LEMMA DeregisterStep ==
    ASSUME IInv, NEW r \in Runners, Deregister(r)
    PROVE  IInv'
<1>1. /\ TypeOK /\ WaitersAreTracked /\ OneTaskPerRequest /\ OffersAreApart
      /\ toBroker \in [Runners -> Seq(ToBroker)] /\ pendingTaskOffers \in Seq(Offer)
    BY DEF IInv, Waiters, Channels, TypeOK
<1>2. /\ link' = [link EXCEPT ![r] = "gone"] /\ knownRunners' = knownRunners \ {r}
      /\ pendingTaskOffers' = OffersOfOthers(r)
      /\ tasks' = tasks \ {t \in tasks : runnerOf(t) = r}
      /\ awaited' = awaited \ {t \in tasks : runnerOf(t) = r}
      /\ toBroker' = [toBroker EXCEPT ![r] = <<>>]
      /\ UNCHANGED <<pendingTaskRequests, acceptInProgress, matches, accepting,
                     runnerAcceptRejects, requestTimers, taskTimers, asked, openOffers,
                     runningTasks, runnerTimers, offersMade, toRunner>>
    BY DEF Deregister
<1>3. toBroker' \in [Runners -> Seq(ToBroker)] /\ Cut(toBroker', toBroker)
    BY <1>1, <1>2, CutAll
<1> DEFINE S == {i \in DOMAIN pendingTaskOffers : pendingTaskOffers[i].runner # r}
<1>4. /\ pendingTaskOffers' \in Seq(Offer)
      /\ \A k \in DOMAIN pendingTaskOffers' :
            /\ Nth(S, k) \in DOMAIN pendingTaskOffers
            /\ pendingTaskOffers'[k] = pendingTaskOffers[Nth(S, k)]
      /\ \A k, l \in DOMAIN pendingTaskOffers' : Nth(S, k) = Nth(S, l) => k = l
    <2>1. pendingTaskOffers' = AtPlaces(pendingTaskOffers, S)
        BY <1>2 DEF OffersOfOthers
    <2>2. S \in SUBSET (DOMAIN pendingTaskOffers)
        OBVIOUS
    <2> HIDE DEF S
    <2>3. /\ AtPlaces(pendingTaskOffers, S) \in Seq(Offer)
          /\ \A k \in 1 .. Len(AtPlaces(pendingTaskOffers, S)) :
                /\ Nth(S, k) \in S
                /\ AtPlaces(pendingTaskOffers, S)[k] = pendingTaskOffers[Nth(S, k)]
          /\ \A k, l \in 1 .. Len(AtPlaces(pendingTaskOffers, S)) :
                Nth(S, k) = Nth(S, l) => k = l
        BY <1>1, <2>2, AtPlacesPick
    <2>4. DOMAIN pendingTaskOffers' = 1 .. Len(AtPlaces(pendingTaskOffers, S))
        BY <2>1, <2>3
    <2> QED BY <2>1, <2>2, <2>3, <2>4
<1> HIDE DEF S
<1>5. ListShrinks
    <2>1. \A k, l \in DOMAIN pendingTaskOffers' :
             pendingTaskOffers'[k].id = pendingTaskOffers'[l].id => k = l
        BY <1>1, <1>4 DEF OffersAreApart, Listed
    <2>2. \A k \in DOMAIN pendingTaskOffers' : pendingTaskOffers'[k].id <= offersMade
        BY <1>1, <1>4 DEF OffersAreApart, Listed
    <2> QED BY <1>2, <1>4, <2>1, <2>2 DEF ListShrinks, Listed
<1>6. Channels'
    BY <1>2, <1>3, <1>5, QuietChannels
<1>7. TypeOK'
    <2>1. link' \in [Runners -> {"new", "up", "closed", "gone"}]
        BY <1>1, <1>2 DEF TypeOK
    <2> QED BY <1>1, <1>2, <1>3, <1>4, <2>1 DEF TypeOK
<1>8. Rooms'
    <2>1. matches' \in Seq(Match) /\ Len(matches') >= Len(matches)
          /\ \A t \in 1 .. Len(matches) : matches'[t] = matches[t]
        BY <1>1, <1>2 DEF TypeOK
    <2> QED BY <1>2, <2>1, QuietRooms
<1>9. SettingsOnce'
    <2>1. accepting' \subseteq accepting
        BY <1>2
    <2> QED BY <1>2, <2>1, QuietSettings
<1>10. Waiters'
    <2>1. WaitersAreTracked'
        BY <1>1, <1>2 DEF WaitersAreTracked, runnerOf, IsIn
    <2>2. OneTaskPerRequest'
        BY <1>1, <1>2 DEF OneTaskPerRequest, requestOf
    <2> QED BY <2>1, <2>2 DEF Waiters
<1> QED BY <1>6, <1>7, <1>8, <1>9, <1>10 DEF IInv
-----------------------------------------------------------------------------
(* Results *)

(* Nothing happens. *)
LEMMA StutterStep ==
    ASSUME IInv, UNCHANGED vars
    PROVE  IInv'
<1>1. toBroker' \in [Runners -> Seq(ToBroker)] /\ Cut(toBroker', toBroker)
    BY SameChannels DEF IInv, vars
<1> QED BY <1>1, DropStep DEF vars

LEMMA NextInv == IInv /\ [Next]_vars => IInv'
<1> SUFFICES ASSUME IInv, [Next]_vars PROVE IInv'
    OBVIOUS
<1>1. CASE \E q \in Requests : RequestTask(q) \/ RequestTimeout(q)
    BY <1>1, RequestTaskStep, RequestTimeoutStep
<1>2. CASE \E r \in Runners : Connect(r) \/ Close(r) \/ Deregister(r)
    BY <1>2, ConnectStep, CloseStep, DeregisterStep
<1>3. CASE \E r \in Runners :
              onRunnerMessage(r) \/ onMessage(r) \/ SendOffers(r) \/ OfferToLaunch(r)
    BY <1>3, RunnerMessageStep, MessageStep, SendOffersStep, OfferToLaunchStep
<1>4. CASE \E t \in DOMAIN matches : AcceptTimeout(t) \/ TaskTimeout(t) \/ CancelTask(t)
    BY <1>4, AcceptTimeoutStep, TaskTimeoutStep, CancelTaskStep
<1>5. CASE \E t \in DOMAIN matches : RunnerTimeout(t) \/ ExecutionEnds(t)
    BY <1>5, RunnerTimeoutStep, ExecutionEndsStep
<1>6. CASE UNCHANGED vars
    BY <1>6, StutterStep
<1> QED BY <1>1, <1>2, <1>3, <1>4, <1>5, <1>6 DEF Next

(* The inductive invariant holds throughout. *)
LEMMA Invariant == Spec => []IInv
BY InitInv, NextInv, PTL DEF Spec

(* The state stays well-typed: in particular a request that is pushed back *)
(* is one, and every task anyone refers to has been matched.               *)
THEOREM TaskBrokerTypes == Spec => []TypeOK
<1>1. IInv => TypeOK
    BY DEF IInv
<1> QED BY <1>1, Invariant, PTL

(* Neither settleTasks nor a late or a second match uses an offer again,   *)
(* whatever connections close while offers are on their way.               *)
THEOREM OffersAreUsedOnce == Spec => []OfferUsedOnce
<1>1. IInv => OfferUsedOnce
    BY DEF IInv, Channels, OffersAreApart
<1> QED BY <1>1, Invariant, PTL

(* Who waits for a task id has a request in the list with its timeout      *)
(* armed, and who waits for a result has a task of a runner the broker     *)
(* knows, with its timeout armed: nobody is forgotten.                     *)
THEOREM WaitersTracked == Spec => []WaitersAreTracked
<1>1. IInv => WaitersAreTracked
    BY DEF IInv, Waiters
<1> QED BY <1>1, Invariant, PTL

(* A node never runs its code twice, though a deferred request is pushed   *)
(* into the list again and an accept may come after its timeout.           *)
THEOREM OneTask == Spec => []OneTaskPerRequest
<1>1. IInv => OneTaskPerRequest
    BY DEF IInv, Waiters
<1> QED BY <1>1, Invariant, PTL

(* A runner's open offers and running tasks fit in its concurrency.        *)
THEOREM WithinCapacity == Spec => []OffersWithinCapacity
<1>1. IInv => OffersWithinCapacity
    BY DEF IInv, Rooms
<1> QED BY <1>1, Invariant, PTL

(* receivedSettings never finds a task in a status it throws on.           *)
THEOREM SettingsFindWaiting == Spec => []SettingsFindTaskWaiting
<1>1. IInv => SettingsFindTaskWaiting
    <2> SUFFICES ASSUME IInv, NEW r \in Runners, toRunner[r] # <<>>,
                        Head(toRunner[r]).type = "tasksettings",
                        Running(Head(toRunner[r]).id)
                 PROVE  runningTasks[Head(toRunner[r]).id] = "waitingForSettings"
        BY DEF SettingsFindTaskWaiting
    <2>1. Head(toRunner[r]) = toRunner[r][1] /\ 1 \in DOMAIN toRunner[r]
        BY HeadToRunner
    <2>2. Waits(toRunner[r][1].id)
        BY <2>1 DEF IInv, SettingsOnce, IsSettings
    <2> QED BY <2>1, <2>2 DEF Waits
<1> QED BY <1>1, Invariant, PTL
=============================================================================
