----------------------- MODULE RegularModeSlots_proofs -----------------------
(***************************************************************************)
(* RegularMode uses the concurrency control service as it is meant to be   *)
(* used: a call asks for a slot once, and gives back only a slot it holds. *)
(* So every behaviour of RegularMode is one of ConcurrencyControl, and     *)
(* what is proved of the service holds of executions in regular mode.      *)
(*                                                                         *)
(* With who holds which slot known, the rest follows: every entry that has *)
(* not settled has a call that is to settle it, shutdown lets no throttled *)
(* call through, and an execution stopped in line never runs.              *)
(***************************************************************************)
EXTENDS RegularMode_proofs, ConcurrencyControl_proofs

(* Whose entry is in ActiveExecutions and has not settled. *)
Unsettled(e) == active[e] # None /\ ~active[e].settled

(* Where a call is once its entry has been made. *)
LaterPC == {"registered", "prepared", "running", "toWait", "saving", "saved", "failed",
            "erring", "done", "threw"}

HoldsSlot(c) == \A t \in getQueue(ModeOf[exec(c)]) : c \in holders[t]

Typed ==
    /\ run \in [Calls -> Call]
    /\ active \in [Executions -> Entry \cup {None}]
    /\ \A c \in Calls : run[c].pc # "idle" => exec(c) \in Executions

(* Who is in line waits for throttle to return, in the line of its mode. *)
WaitersQueued ==
    \A t \in QueueTypes, c \in Calls :
        Queued(t, c) => At(c, "queued") /\ t \in getQueue(ModeOf[exec(c)])

(* Who holds a slot has asked for one, in the line of its mode. *)
HoldersAsked ==
    \A t \in QueueTypes : \A c \in holders[t] :
        run[c].pc \notin {"idle", "arriving"} /\ t \in getQueue(ModeOf[exec(c)])

(* A call that was let through and has no entry yet holds its slot. *)
AdmittedHold ==
    isEnabled => \A c \in Calls : run[c].pc \in {"admitted", "claimed"} => HoldsSlot(c)

(* An entry that has not settled belongs to a call of its own execution,   *)
(* and that call holds its slot.                                           *)
EntryHolds(e) ==
    /\ exec(active[e].owner) = e
    /\ run[active[e].owner].pc \in LaterPC
    /\ isEnabled => HoldsSlot(active[e].owner)

EntriesHold == \A e \in Executions : Unsettled(e) => EntryHolds(e)

SlotsInv ==
    /\ CCInv
    /\ Typed
    /\ WaitersQueued
    /\ HoldersAsked
    /\ AdmittedHold
    /\ EntriesHold

USE DEF exec, At
-----------------------------------------------------------------------------
(* What the service's operations do to lines and holders *)

(* Lines lose calls, some of which become holders; no holder but those in  *)
(* gone loses its slot.                                                    *)
Shrinks(gone) ==
    /\ isEnabled' => isEnabled
    /\ \A t \in QueueTypes, c \in Calls :
          /\ Queued(t, c)' => Queued(t, c)
          /\ c \in holders'[t] => c \in holders[t] \/ Queued(t, c)
          /\ c \in holders[t] => c \in gone \/ c \in holders'[t]

(* A line without its head, or without an item, has fewer calls in it.     *)
LEMMA ShiftedHasFewer ==
    ASSUME NEW line \in Seq(Item), NEW c,
           \E i \in DOMAIN Shifted(line) : Shifted(line)[i].call = c
    PROVE  \E i \in DOMAIN line : line[i].call = c
<1>1. CASE line = <<>>
  BY <1>1 DEF Shifted
<1>2. CASE line # <<>>
  <2>1. PICK i \in DOMAIN Shifted(line) : Shifted(line)[i].call = c
    OBVIOUS
  <2>2. i \in 1 .. (Len(line) - 1) /\ Len(line) \in Nat
    BY <1>2, <2>1, ShiftedLemma
  <2>3. Shifted(line)[i] = line[i + 1] /\ i + 1 \in 1 .. Len(line)
    BY <1>2, <2>2, ShiftedLemma
  <2> QED
    BY <2>1, <2>3
<1> QED
  BY <1>1, <1>2

(* The same when splice takes an item out. *)
LEMMA WithoutItemHasFewer ==
    ASSUME NEW line \in Seq(Item), NEW place \in 1 .. Len(line), NEW c,
           \E i \in DOMAIN WithoutItem(line, place) : WithoutItem(line, place)[i].call = c
    PROVE  \E i \in DOMAIN line : line[i].call = c
<1>1. PICK i \in DOMAIN WithoutItem(line, place) : WithoutItem(line, place)[i].call = c
  OBVIOUS
<1>2. i \in 1 .. (Len(line) - 1) /\ Len(line) \in Nat
  BY <1>1, WithoutItemLemma
<1>3. WithoutItem(line, place)[i] = IF i < place THEN line[i] ELSE line[i + 1]
  BY <1>2, WithoutItemLemma
<1>4. i \in DOMAIN line /\ i + 1 \in DOMAIN line
  BY <1>2
<1> QED
  BY <1>1, <1>3, <1>4

(* The call that resolveNext lets through was in line. *)
LEMMA ResolvedWasInLine ==
    ASSUME NEW line \in Seq(Item), NEW c \in Resolved(line)
    PROVE  \E i \in DOMAIN line : line[i].call = c
<1>1. line # <<>> /\ c = Head(line).call
  BY DEF Resolved
<1>2. Len(line) \in Nat /\ Len(line) > 0 /\ DOMAIN line = 1 .. Len(line)
  BY <1>1
<1>3. Head(line) = line[1] /\ 1 \in DOMAIN line
  BY <1>1, <1>2
<1> QED
  BY <1>1, <1>3

(* release only shrinks lines; the releasing call alone loses a slot. *)
LEMMA ReleaseShrinks ==
    ASSUME CCInv, NEW call, NEW mode, release(mode, call)
    PROVE  Shrinks({call})
<1>1. CASE UNCHANGED ccVars
  BY <1>1 DEF Shrinks, ccVars, Queued
<1>2. ASSUME NEW t \in QueueTypes, dequeue(t, call)
      PROVE  Shrinks({call})
  <2>1. /\ queue[t] \in Seq(Item) /\ queue'[t] = Shifted(queue[t])
        /\ \A u \in QueueTypes : u # t => queue'[u] = queue[u] /\ holders'[u] = holders[u]
        /\ holders'[t] = (holders[t] \ {call}) \cup Resolved(queue[t])
        /\ isEnabled' = isEnabled
    BY <1>2 DEF dequeue, CCInv, CCTypeOK
  <2>2. ASSUME NEW u \in QueueTypes, NEW c \in Calls
        PROVE  /\ Queued(u, c)' => Queued(u, c)
               /\ c \in holders'[u] => c \in holders[u] \/ Queued(u, c)
               /\ c \in holders[u] => c \in {call} \/ c \in holders'[u]
    <3>1. CASE u # t
      BY <2>1, <3>1 DEF Queued
    <3>2. CASE u = t
      <4>1. Queued(u, c)' => Queued(u, c)
        BY <2>1, <3>2, ShiftedHasFewer DEF Queued
      <4>2. c \in Resolved(queue[u]) => Queued(u, c)
        BY <2>1, <3>2, ResolvedWasInLine DEF Queued
      <4> QED
        BY <2>1, <3>2, <4>1, <4>2
    <3> QED
      BY <3>1, <3>2
  <2> QED
    BY <2>1, <2>2 DEF Shrinks, Queued
<1> QED
  BY <1>1, <1>2, ModeHasOneQueue DEF release

(* remove only shrinks lines; nobody loses a slot. *)
LEMMA RemoveShrinks ==
    ASSUME CCInv, NEW e, NEW mode, remove(mode, e)
    PROVE  Shrinks({})
<1>1. CASE UNCHANGED ccVars
  BY <1>1 DEF Shrinks, ccVars, Queued
<1>2. ASSUME NEW t \in QueueTypes, NEW place \in FirstPlaces(queue[t], e),
             RemovePlace(t, place)
      PROVE  Shrinks({})
  <2> DEFINE rest == WithoutItem(queue[t], place)
  <2>1. queue[t] \in Seq(Item) /\ place \in 1 .. Len(queue[t])
    BY DEF CCInv, CCTypeOK, FirstPlaces
  <2>2. rest \in Seq(Item)
    BY <2>1, WithoutItemLemma
  <2>3. /\ queue'[t] = Shifted(rest)
        /\ \A u \in QueueTypes : u # t => queue'[u] = queue[u] /\ holders'[u] = holders[u]
        /\ holders'[t] = holders[t] \cup Resolved(rest)
        /\ isEnabled' = isEnabled
    BY <1>2 DEF RemovePlace, CCInv, CCTypeOK
  <2>4. ASSUME NEW c, \E i \in DOMAIN rest : rest[i].call = c
        PROVE  Queued(t, c)
    BY <2>1, <2>4, WithoutItemHasFewer DEF Queued
  <2> HIDE DEF rest
  <2>5. ASSUME NEW u \in QueueTypes, NEW c \in Calls
        PROVE  /\ Queued(u, c)' => Queued(u, c)
               /\ c \in holders'[u] => c \in holders[u] \/ Queued(u, c)
               /\ c \in holders[u] => c \in holders'[u]
    <3>1. CASE u # t
      BY <2>3, <3>1 DEF Queued
    <3>2. CASE u = t
      <4>1. Queued(u, c)' => Queued(u, c)
        BY <2>2, <2>3, <2>4, <3>2, ShiftedHasFewer DEF Queued
      <4>2. c \in Resolved(rest) => Queued(u, c)
        BY <2>2, <2>4, <3>2, ResolvedWasInLine DEF Queued
      <4> QED
        BY <2>3, <3>2, <4>1, <4>2
    <3> QED
      BY <3>1, <3>2
  <2> QED
    BY <2>3, <2>5 DEF Shrinks, Queued
<1> QED
  BY <1>1, <1>2, ModeHasOneQueue DEF remove, removeFrom
-----------------------------------------------------------------------------
(* A step in which lines only shrink keeps the invariant if it moves calls *)
(* and changes entries in this way.                                        *)
CallOK(c) ==
    /\ run'[c].pc # "idle" => run'[c].exec \in Executions
    /\ run[c].pc # "idle" => run'[c].exec = run[c].exec
    /\ run[c].pc = "idle" => run'[c].pc \in {"idle", "arriving"}
    /\ run'[c].pc \in {"idle", "arriving"} => run[c].pc \in {"idle", "arriving"}
    /\ \A t \in QueueTypes : Queued(t, c)' => run'[c].pc = "queued"
    /\ run'[c].pc \in {"admitted", "claimed"} =>
          run[c].pc \in {"admitted", "claimed"} \/ (isEnabled => HoldsSlot(c))
    /\ run[c].pc \in LaterPC => run'[c].pc \in LaterPC

KeptEntry(e, gone) ==
    Unsettled(e) /\ active'[e].owner = active[e].owner /\ active[e].owner \notin gone

NewEntry(e) ==
    LET c == active'[e].owner
    IN  exec(c) = e /\ At(c, "claimed") /\ run'[c].pc \in LaterPC

(* What such a step needs to keep the invariant. *)
LEMMA ShrinkingKeeps ==
    ASSUME SlotsInv, CCInv', NEW gone, Shrinks(gone),
           run' \in [Calls -> Call], active' \in [Executions -> Entry \cup {None}],
           \A c \in Calls : CallOK(c),
           \A c \in gone : c \in Calls /\ run[c].pc \in LaterPC,
           \A e \in Executions : Unsettled(e)' => KeptEntry(e, gone) \/ NewEntry(e)
    PROVE  SlotsInv'
<1>1. Typed'
  BY DEF Typed, CallOK
<1>2. /\ queue \in [QueueTypes -> Seq(Item)] /\ holders \in [QueueTypes -> SUBSET Calls]
      /\ holders' \in [QueueTypes -> SUBSET Calls]
  BY DEF SlotsInv, CCInv, CCTypeOK
<1>3. WaitersQueued'
  <2> SUFFICES ASSUME NEW t \in QueueTypes, NEW c \in Calls, Queued(t, c)'
               PROVE  run'[c].pc = "queued" /\ t \in getQueue(ModeOf[run'[c].exec])
    BY DEF WaitersQueued
  <2>1. Queued(t, c) /\ run'[c].pc = "queued"
    BY DEF Shrinks, CallOK
  <2>2. run[c].pc = "queued" /\ t \in getQueue(ModeOf[run[c].exec])
    BY <2>1 DEF SlotsInv, WaitersQueued
  <2>3. run'[c].exec = run[c].exec
    BY <2>2 DEF CallOK
  <2> QED
    BY <2>1, <2>2, <2>3
<1>4. HoldersAsked'
  <2> SUFFICES ASSUME NEW t \in QueueTypes, NEW c \in holders'[t]
               PROVE  /\ run'[c].pc \notin {"idle", "arriving"}
                      /\ t \in getQueue(ModeOf[run'[c].exec])
    BY DEF HoldersAsked
  <2>1. c \in Calls /\ (c \in holders[t] \/ Queued(t, c))
    BY <1>2 DEF Shrinks
  <2>2. run[c].pc \notin {"idle", "arriving"} /\ t \in getQueue(ModeOf[run[c].exec])
    BY <2>1 DEF SlotsInv, HoldersAsked, WaitersQueued
  <2> QED
    BY <2>1, <2>2 DEF CallOK
<1>5. ASSUME NEW c \in Calls, isEnabled', HoldsSlot(c), c \notin gone, run[c].pc # "idle"
      PROVE  \A t \in getQueue(ModeOf[run'[c].exec]) : c \in holders'[t]
  <2>1. run'[c].exec = run[c].exec
    BY <1>5 DEF CallOK
  <2>2. \A t \in getQueue(ModeOf[run[c].exec]) : c \in holders'[t]
    BY <1>5, ModeHasOneQueue DEF Shrinks, HoldsSlot
  <2> QED
    BY <2>1, <2>2
<1>6. AdmittedHold'
  <2> SUFFICES ASSUME isEnabled', NEW c \in Calls, run'[c].pc \in {"admitted", "claimed"}
               PROVE  \A t \in getQueue(ModeOf[run'[c].exec]) : c \in holders'[t]
    BY DEF AdmittedHold, HoldsSlot
  <2>1. isEnabled
    BY DEF Shrinks
  <2>2. run[c].pc # "idle" /\ run[c].pc \notin LaterPC
    BY DEF CallOK, LaterPC
  <2>3. HoldsSlot(c)
    BY <2>1 DEF CallOK, SlotsInv, AdmittedHold
  <2> QED
    BY <1>5, <2>2, <2>3
<1>7. EntriesHold'
  <2> SUFFICES ASSUME NEW e \in Executions, Unsettled(e)'
               PROVE  EntryHolds(e)'
    BY DEF EntriesHold
  <2> DEFINE c == active'[e].owner
  <2>1. c \in Calls
    BY DEF Unsettled, Entry
  <2>2. /\ run[c].exec = e /\ run[c].pc # "idle" /\ run'[c].pc \in LaterPC
        /\ c \notin gone
        /\ isEnabled => HoldsSlot(c)
    <3>1. CASE KeptEntry(e, gone)
      BY <2>1, <3>1 
         DEF KeptEntry, SlotsInv, EntriesHold, EntryHolds, CallOK, LaterPC
    <3>2. CASE NewEntry(e)
      BY <2>1, <3>2 DEF NewEntry, SlotsInv, AdmittedHold, LaterPC
    <3> QED
      BY <3>1, <3>2
  <2>3. run'[c].exec = e
    BY <2>1, <2>2 DEF CallOK
  <2>4. isEnabled' => \A t \in getQueue(ModeOf[run'[c].exec]) : c \in holders'[t]
    BY <1>5, <2>1, <2>2 DEF Shrinks
  <2> QED
    BY <2>2, <2>3, <2>4 DEF EntryHolds, HoldsSlot
<1> QED
  BY <1>1, <1>3, <1>4, <1>6, <1>7 DEF SlotsInv
-----------------------------------------------------------------------------
(* What a step does to the service and to the entries *)

(* A step of the service in which the calls in gone give back their slots, *)
(* and no entry of theirs remains.                                         *)
GivesBack(gone) ==
    /\ [NextCC]_ccVars
    /\ Shrinks(gone)
    /\ active' \in [Executions -> Entry \cup {None}]
    /\ \A c \in gone : c \in Calls /\ run[c].pc \in LaterPC
    /\ \A e \in Executions : Unsettled(e)' => KeptEntry(e, gone)

(* The service and its lines stay as they are. *)
LEMMA NothingShrinks ==
    ASSUME UNCHANGED ccVars
    PROVE  [NextCC]_ccVars /\ Shrinks({}) /\ (\A t, c : Queued(t, c)' <=> Queued(t, c))
  BY DEF Shrinks, ccVars, Queued

(* Entries that stay or go away keep their owners. *)
LEMMA FewerEntries ==
    ASSUME SlotsInv, UNCHANGED ccVars, active' \in [Executions -> Entry \cup {None}],
           \A e \in Executions :
              \/ active'[e] = active[e]
              \/ active'[e] = None
              \/ /\ active[e] # None
                 /\ active'[e].owner = active[e].owner
                 /\ active'[e].settled = active[e].settled
    PROVE  GivesBack({})
<1>1. \A e \in Executions : Unsettled(e)' => KeptEntry(e, {})
  BY DEF Unsettled, KeptEntry
<1> QED
  BY <1>1, NothingShrinks DEF GivesBack

(* Settling the promise of an execution gives back the slot of the call    *)
(* that owns the entry, and of no other.                                   *)
LEMMA SettleGivesBack ==
    ASSUME SlotsInv, NEW e \in Executions, Settle(e)
    PROVE  \E gone : GivesBack(gone)
<1>0. active \in [Executions -> Entry \cup {None}]
  BY DEF SlotsInv, Typed
<1>1. CASE active[e] = None \/ active[e].settled
  <2>1. UNCHANGED <<ccVars, active>>
    BY <1>1 DEF Settle
  <2> QED
    BY <2>1, <1>0, FewerEntries
<1>2. CASE ~(active[e] = None \/ active[e].settled)
  <2> DEFINE c == active[e].owner
  <2>1. /\ c \in Calls /\ run[c].exec = e /\ run[c].pc \in LaterPC
        /\ isEnabled => HoldsSlot(c)
    <3>1. Unsettled(e) /\ active[e] \in Entry
      BY <1>0, <1>2 DEF Unsettled
    <3> QED
      BY <3>1 DEF SlotsInv, EntriesHold, EntryHolds, Entry
  <2>2. release(ModeOf[e], c)
    BY <1>2 DEF Settle
  <2>3. active' = [active EXCEPT ![e] =
                          IF @.status = "waiting"
                          THEN [@ EXCEPT !.settled = TRUE, !.engine = None]
                          ELSE None]
    BY <1>2 DEF Settle
  <2>4. active' \in [Executions -> Entry \cup {None}]
    <3>1. active[e] \in Entry
      BY <1>0, <1>2
    <3>2. [active[e] EXCEPT !.settled = TRUE, !.engine = None] \in Entry
      BY <3>1 DEF Entry
    <3> QED
      BY <1>0, <2>3, <3>2
  <2>5. ModeOf[e] \in Modes
    BY ModeAssumption
  <2> HIDE DEF c
  <2>6. [NextCC]_ccVars
    <3>1. CASE isEnabled
      <4>1. Release(c, ModeOf[e])
        BY <2>1, <2>2, <3>1 DEF Release, HoldsSlot
      <4> QED
        BY <2>1, <2>5, <4>1 DEF NextCC
    <3>2. CASE ~isEnabled
      BY <2>2, <3>2 DEF release
    <3> QED
      BY <3>1, <3>2
  <2>7. Shrinks({c})
    BY <2>2, ReleaseShrinks DEF SlotsInv
  <2>8. ASSUME NEW f \in Executions, Unsettled(f)'
        PROVE  KeptEntry(f, {c})
    <3>1. f # e
      BY <1>0, <1>2, <2>3, <2>8 DEF Unsettled, Entry
    <3>2. active'[f] = active[f] /\ Unsettled(f)
      BY <1>0, <2>3, <2>8, <3>1 DEF Unsettled
    <3>3. run[active[f].owner].exec = f
      BY <3>2 DEF SlotsInv, EntriesHold, EntryHolds
    <3> QED
      BY <2>1, <3>1, <3>2, <3>3 DEF KeptEntry
  <2>9. \A d \in {c} : d \in Calls /\ run[d].pc \in LaterPC
    BY <2>1
  <2>10. \A f \in Executions : Unsettled(f)' => KeptEntry(f, {c})
    BY <2>8
  <2> QED
    BY <2>4, <2>6, <2>7, <2>9, <2>10 DEF GivesBack
<1> QED
  BY <1>1, <1>2

(* A stop request, or a timeout, settles the entry or drops it. *)
LEMMA StopGivesBack ==
    ASSUME SlotsInv, NEW e \in Executions, stopExecution(e)
    PROVE  \E gone : GivesBack(gone)
<1>0. active \in [Executions -> Entry \cup {None}]
  BY DEF SlotsInv, Typed
<1>1. CASE active[e] = None
  <2>1. UNCHANGED <<ccVars, active>>
    BY <1>1 DEF stopExecution
  <2> QED
    BY <2>1, <1>0, FewerEntries
<1>2. CASE active[e] # None /\ active[e].status = "waiting"
  <2>1. UNCHANGED ccVars /\ active' = [active EXCEPT ![e] = None]
    BY <1>2 DEF stopExecution
  <2> QED
    BY <2>1, <1>0, FewerEntries
<1>3. CASE active[e] # None /\ active[e].status # "waiting"
  <2>1. Settle(e)
    BY <1>3 DEF stopExecution
  <2> QED
    BY <2>1, SettleGivesBack
<1> QED
  BY <1>1, <1>2, <1>3
-----------------------------------------------------------------------------
(* What a step does to the calls *)

(* The service takes a step of its own and the invariant is kept. *)
Fits == [NextCC]_ccVars /\ SlotsInv'

(* A step that gives slots back, or none, and moves calls rightly. *)
LEMMA GivingBackFits ==
    ASSUME SlotsInv, NEW gone, GivesBack(gone),
           run' \in [Calls -> Call], \A c \in Calls : CallOK(c)
    PROVE  Fits
<1>1. CCInv'
  BY CCStepKeeps DEF GivesBack, SlotsInv
<1> QED
  BY <1>1, ShrinkingKeeps DEF GivesBack, Fits

(* A call that does not move is well. *)
LEMMA StayingIsOK ==
    ASSUME SlotsInv, NEW gone, Shrinks(gone), NEW c \in Calls, run'[c] = run[c]
    PROVE  CallOK(c)
<1>1. \A t \in QueueTypes : Queued(t, c)' => run[c].pc = "queued"
  BY DEF Shrinks, SlotsInv, WaitersQueued
<1> QED
  BY <1>1 DEF CallOK, SlotsInv, Typed

(* No call moves. *)
LEMMA CallsStayFits ==
    ASSUME SlotsInv, NEW gone, GivesBack(gone), UNCHANGED run
    PROVE  Fits
<1>1. run' \in [Calls -> Call]
  BY DEF SlotsInv, Typed
<1>2. \A c \in Calls : CallOK(c)
  BY StayingIsOK DEF GivesBack
<1> QED
  BY <1>1, <1>2, GivingBackFits

(* One call changes, of those that are out of line. *)
GoesOn(c) ==
    /\ run' \in [Calls -> Call]
    /\ \A d \in Calls : d # c => run'[d] = run[d]
    /\ run'[c].exec = run[c].exec
    /\ run[c].pc \notin {"idle", "arriving", "queued"}
    /\ run'[c].pc \notin {"idle", "arriving", "queued"}
    /\ run'[c].pc \in {"admitted", "claimed"} => run[c].pc = "admitted"
    /\ run[c].pc \in LaterPC => run'[c].pc \in LaterPC

(* Such a call, and the others, are well. *)
LEMMA GoingOnIsOK ==
    ASSUME SlotsInv, NEW gone, Shrinks(gone), NEW c \in Calls, GoesOn(c)
    PROVE  \A d \in Calls : CallOK(d)
<1>1. \A t \in QueueTypes : ~Queued(t, c)'
  BY DEF Shrinks, SlotsInv, WaitersQueued, GoesOn
<1>2. CallOK(c)
  BY <1>1 DEF CallOK, SlotsInv, Typed, GoesOn
<1>3. \A d \in Calls : d # c => CallOK(d)
  BY StayingIsOK DEF GoesOn
<1> QED
  BY <1>2, <1>3

(* One call goes on while slots are given back, or none. *)
LEMMA GoingOnFits ==
    ASSUME SlotsInv, NEW gone, GivesBack(gone), NEW c \in Calls, GoesOn(c)
    PROVE  Fits
<1>1. \A d \in Calls : CallOK(d)
  BY GoingOnIsOK DEF GivesBack
<1> QED
  BY <1>1, GivingBackFits DEF GoesOn

(* A call goes on to another place. *)
LEMMA GotoGoesOn ==
    ASSUME SlotsInv, NEW c \in Calls, NEW pc \in PC, Goto(c, pc),
           run[c].pc \notin {"idle", "arriving", "queued"},
           pc \notin {"idle", "arriving", "queued"},
           pc \in {"admitted", "claimed"} => run[c].pc = "admitted",
           run[c].pc \in LaterPC => pc \in LaterPC
    PROVE  GoesOn(c)
<1>1. run \in [Calls -> Call] /\ run[c] \in Call
  BY DEF SlotsInv, Typed
<1>2. [run[c] EXCEPT !.pc = pc] \in Call
  BY <1>1 DEF Call
<1> QED
  BY <1>1, <1>2 DEF Goto, GoesOn, Call

(* An idle call is asked to run an execution. *)
LEMMA AskFits ==
    ASSUME SlotsInv, NEW c \in Calls, NEW e \in Executions,
           NEW kind \in {"new", "resume", "boot"},
           At(c, "idle"), Ask(c, e, kind), UNCHANGED <<ccVars, active>>
    PROVE  Fits
<1> DEFINE r == [IdleCall EXCEPT !.pc = "arriving", !.exec = e, !.kind = kind]
<1>1. r \in Call /\ r.exec = e /\ r.pc = "arriving"
  BY DEF IdleCall, Call, PC, Outcomes
<1> HIDE DEF r
<1>2. /\ run' \in [Calls -> Call] /\ run'[c] = r
      /\ \A d \in Calls : d # c => run'[d] = run[d]
  BY <1>1 DEF Ask, SlotsInv, Typed, r
<1>3. GivesBack({})
  BY FewerEntries DEF SlotsInv, Typed
<1>4. \A t \in QueueTypes : ~Queued(t, c)'
  BY <1>3 DEF GivesBack, Shrinks, SlotsInv, WaitersQueued
<1>5. CallOK(c)
  BY <1>1, <1>2, <1>4 DEF CallOK, LaterPC
<1>6. \A d \in Calls : d # c => CallOK(d)
  BY <1>2, <1>3, StayingIsOK DEF GivesBack
<1> QED
  BY <1>2, <1>3, <1>5, <1>6, GivingBackFits
-----------------------------------------------------------------------------
(* Arriving and being let through *)

(* A mode has one line at most. *)
LEMMA OneLine ==
    ASSUME NEW mode, NEW t \in getQueue(mode), NEW u \in getQueue(mode)
    PROVE  t = u
  BY DEF getQueue, ProductionModes

(* Who is in a line once an item is appended. *)
LEMMA AppendedHasItem ==
    ASSUME NEW line \in Seq(Item), NEW item \in Item, NEW c
    PROVE  (\E i \in DOMAIN Append(line, item) : Append(line, item)[i].call = c)
              <=> (\E i \in DOMAIN line : line[i].call = c) \/ c = item.call
<1>1. Len(line) \in Nat /\ Append(line, item) \in Seq(Item)
  OBVIOUS
<1>2. DOMAIN line = 1 .. Len(line) /\ DOMAIN Append(line, item) = 1 .. (Len(line) + 1)
  OBVIOUS
<1>3. /\ Append(line, item)[Len(line) + 1] = item
      /\ \A i \in 1 .. Len(line) : Append(line, item)[i] = line[i]
  OBVIOUS
<1>4. \A i \in 1 .. (Len(line) + 1) : i \in 1 .. Len(line) \/ i = Len(line) + 1
  BY <1>1
<1>5. 1 .. Len(line) \subseteq 1 .. (Len(line) + 1) /\ Len(line) + 1 \in 1 .. (Len(line) + 1)
  BY <1>1
<1> QED
  BY <1>2, <1>3, <1>4, <1>5

(* The promise of a queued call has resolved: the call holds the slot it   *)
(* waited for, and is in no line any more.                                 *)
LEMMA LetThroughFits ==
    ASSUME SlotsInv, NEW c \in Calls, LetThrough(c)
    PROVE  Fits
<1>1. PICK t \in QueueTypes : c \in holders[t]
  BY DEF LetThrough
<1>2. t \in getQueue(ModeOf[run[c].exec])
  BY <1>1 DEF SlotsInv, HoldersAsked
<1>3. \A u \in QueueTypes : ~Queued(u, c)
  BY <1>1, <1>2, OneLine DEF SlotsInv, WaitersQueued, CCInv, NoPromiseTwice, Queued
<1>4. HoldsSlot(c)
  BY <1>1, <1>2, OneLine DEF HoldsSlot
<1>5. run[c].pc = "queued" /\ UNCHANGED <<ccVars, active>>
  BY DEF LetThrough
<1>6. [run[c] EXCEPT !.pc = "admitted"] \in Call /\ run \in [Calls -> Call]
  BY DEF SlotsInv, Typed, Call, PC
<1>7. /\ run' \in [Calls -> Call]
      /\ run'[c].pc = "admitted" /\ run'[c].exec = run[c].exec
      /\ \A d \in Calls : d # c => run'[d] = run[d]
  BY <1>6 DEF LetThrough, Goto, Call
<1>8. GivesBack({})
  BY <1>5, FewerEntries DEF SlotsInv, Typed
<1>9. CallOK(c)
  BY <1>3, <1>4, <1>5, <1>7, <1>8, NothingShrinks DEF CallOK, LaterPC, SlotsInv, Typed
<1>10. \A d \in Calls : d # c => CallOK(d)
  BY <1>7, <1>8, StayingIsOK DEF GivesBack
<1> QED
  BY <1>7, <1>8, <1>9, <1>10, GivingBackFits

(* What throttle does to the line of a call that is to wait, or goes       *)
(* through at once.                                                        *)
LEMMA EnqueuedEffect ==
    ASSUME SlotsInv, NEW t \in QueueTypes, NEW item \in Item, enqueue(t, item),
           NEW u \in QueueTypes, NEW d \in Calls
    PROVE  /\ isEnabled' = isEnabled
           /\ capacity[t] > 0 =>
                 /\ Queued(u, d)' <=> Queued(u, d)
                 /\ d \in holders'[u] <=> d \in holders[u] \/ (u = t /\ d = item.call)
           /\ ~(capacity[t] > 0) =>
                 /\ Queued(u, d)' <=> Queued(u, d) \/ (u = t /\ d = item.call)
                 /\ d \in holders'[u] <=> d \in holders[u]
<1>1. /\ queue \in [QueueTypes -> Seq(Item)] /\ holders \in [QueueTypes -> SUBSET Calls]
      /\ capacity \in [QueueTypes -> Int]
  BY DEF SlotsInv, CCInv, CCTypeOK
<1>2. capacity[t] - 1 < 0 <=> ~(capacity[t] > 0)
  BY <1>1
<1>3. CASE capacity[t] > 0
  <2>1. queue' = queue /\ holders' = [holders EXCEPT ![t] = holders[t] \cup {item.call}]
    BY <1>2, <1>3 DEF enqueue
  <2> QED
    BY <1>1, <1>3, <2>1 DEF enqueue, Queued
<1>4. CASE ~(capacity[t] > 0)
  <2>1. holders' = holders /\ queue' = [queue EXCEPT ![t] = Append(queue[t], item)]
    BY <1>2, <1>4 DEF enqueue
  <2>2. CASE u = t
    <3>1. queue'[u] = Append(queue[t], item) /\ queue[t] \in Seq(Item)
      BY <1>1, <2>1, <2>2
    <3>2. Queued(u, d)' <=> Queued(u, d) \/ d = item.call
      BY <2>2, <3>1, AppendedHasItem DEF Queued
    <3> QED
      BY <1>4, <2>1, <2>2, <3>2 DEF enqueue
  <2>3. CASE u # t
    <3>1. queue'[u] = queue[u]
      BY <1>1, <2>1, <2>3
    <3>2. Queued(u, d)' <=> Queued(u, d)
      BY <3>1 DEF Queued
    <3> QED
      BY <1>4, <2>1, <2>3, <3>2 DEF enqueue
  <2> QED
    BY <2>2, <2>3
<1> QED
  BY <1>3, <1>4

(* A call asks for a slot: it never asked before. *)
LEMMA ArriveFits ==
    ASSUME SlotsInv, NEW c \in Calls, Arrive(c)
    PROVE  Fits
<1> DEFINE e == run[c].exec
           mode == ModeOf[e]
           item == [executionId |-> e, call |-> c]
           pc == IF LetsThrough(mode) THEN "admitted" ELSE "queued"
<1>1. /\ run[c].pc = "arriving" /\ e \in Executions /\ mode \in Modes /\ item \in Item
      /\ run \in [Calls -> Call] /\ active' = active
      /\ active \in [Executions -> Entry \cup {None}]
  BY ModeAssumption DEF Arrive, SlotsInv, Typed, Item
<1>2. \A t \in QueueTypes : c \notin holders[t] /\ ~Queued(t, c)
  BY <1>1 DEF SlotsInv, HoldersAsked, WaitersQueued
<1>3. throttle(mode, item)
  BY DEF Arrive
<1>4. [NextCC]_ccVars
  <2>1. Throttle(c, e, mode)
    BY <1>2, <1>3, ModeHasOneQueue DEF Throttle
  <2> QED
    BY <1>1, <2>1 DEF NextCC
<1>5. /\ run' \in [Calls -> Call]
      /\ run'[c].pc = pc /\ run'[c].exec = e
      /\ \A d \in Calls : d # c => run'[d] = run[d]
  <2>1. [run[c] EXCEPT !.pc = pc] \in Call
    BY <1>1 DEF Call, PC
  <2>2. run' = [run EXCEPT ![c] = [run[c] EXCEPT !.pc = pc]]
    BY DEF Arrive, Goto
  <2>3. [run[c] EXCEPT !.pc = pc].pc = pc /\ [run[c] EXCEPT !.pc = pc].exec = e
    BY <1>1 DEF Call
  <2> QED
    BY <1>1, <2>1, <2>2, <2>3
<1>6. CASE ~isEnabled \/ isUnlimited(mode)
  <2>1. UNCHANGED ccVars /\ pc = "admitted"
    BY <1>3, <1>6 DEF throttle, LetsThrough, isUnlimited
  <2>2. GivesBack({})
    BY <1>1, <2>1, FewerEntries
  <2>3. isEnabled => HoldsSlot(c)
    BY <1>6 DEF HoldsSlot, isUnlimited
  <2>4. \A t \in QueueTypes : ~Queued(t, c)'
    BY <1>2, <2>1, NothingShrinks
  <2>5. CallOK(c)
    BY <1>1, <1>5, <2>1, <2>3, <2>4 DEF CallOK, LaterPC
  <2>6. \A d \in Calls : d # c => CallOK(d)
    BY <1>5, <2>2, StayingIsOK DEF GivesBack
  <2> QED
    BY <1>5, <2>2, <2>5, <2>6, GivingBackFits
<1>7. CASE isEnabled /\ ~isUnlimited(mode)
  <2>1. PICK t \in getQueue(mode) : enqueue(t, item)
    BY <1>3, <1>7 DEF throttle
  <2>2. t \in QueueTypes /\ (\A u \in getQueue(mode) : u = t) /\ item.call = c
    BY <2>1, ModeHasOneQueue, OneLine
  <2>3. pc = IF capacity[t] > 0 THEN "admitted" ELSE "queued"
    BY <1>7, <2>1, <2>2 DEF LetsThrough
  <2> HIDE DEF item, pc
  <2>4. \A u \in QueueTypes, d \in Calls :
           /\ isEnabled' = isEnabled
           /\ d # c => (Queued(u, d)' <=> Queued(u, d))
           /\ d # c => (d \in holders'[u] <=> d \in holders[u])
    BY <1>1, <2>1, <2>2, EnqueuedEffect
  <2>5. \A u \in QueueTypes :
           /\ Queued(u, c)' <=> pc = "queued" /\ u = t
           /\ c \in holders'[u] <=> pc = "admitted" /\ u = t
    BY <1>1, <1>2, <2>1, <2>2, <2>3, EnqueuedEffect
  <2> HIDE DEF e, mode
  <2>6. Typed'
    BY <1>1, <1>5 DEF SlotsInv, Typed
  <2>7. WaitersQueued'
    <3> SUFFICES ASSUME NEW u \in QueueTypes, NEW d \in Calls, Queued(u, d)'
                 PROVE  run'[d].pc = "queued" /\ u \in getQueue(ModeOf[run'[d].exec])
      BY DEF WaitersQueued
    <3>1. CASE d = c
      BY <1>5, <2>1, <2>5, <3>1 DEF mode
    <3>2. CASE d # c
      BY <1>5, <2>4, <3>2 DEF SlotsInv, WaitersQueued
    <3> QED
      BY <3>1, <3>2
  <2>8. HoldersAsked'
    <3>0. holders' \in [QueueTypes -> SUBSET Calls]
      BY <1>4, CCStepKeeps DEF SlotsInv, CCInv, CCTypeOK
    <3> SUFFICES ASSUME NEW u \in QueueTypes, NEW d \in holders'[u]
                 PROVE  /\ run'[d].pc \notin {"idle", "arriving"}
                        /\ u \in getQueue(ModeOf[run'[d].exec])
      BY DEF HoldersAsked
    <3>1. CASE d = c
      BY <1>5, <2>1, <2>5, <3>1 DEF mode
    <3>2. CASE d # c
      BY <1>5, <2>4, <3>0, <3>2 DEF SlotsInv, HoldersAsked
    <3> QED
      BY <3>1, <3>2
  <2>9. ASSUME NEW d \in Calls, d # c, HoldsSlot(d)
        PROVE  \A u \in getQueue(ModeOf[run'[d].exec]) : d \in holders'[u]
    BY <1>5, <2>4, <2>9, ModeHasOneQueue DEF HoldsSlot
  <2>10. AdmittedHold'
    <3> SUFFICES ASSUME NEW d \in Calls, run'[d].pc \in {"admitted", "claimed"}
                 PROVE  \A u \in getQueue(ModeOf[run'[d].exec]) : d \in holders'[u]
      BY DEF AdmittedHold, HoldsSlot
    <3>1. CASE d = c
      BY <1>5, <2>2, <2>3, <2>5, <3>1 DEF mode
    <3>2. CASE d # c
      <4>1. HoldsSlot(d)
        BY <1>5, <1>7, <3>2 DEF SlotsInv, AdmittedHold
      <4> QED
        BY <2>9, <3>2, <4>1
    <3> QED
      BY <3>1, <3>2
  <2>11. EntriesHold'
    <3> SUFFICES ASSUME NEW f \in Executions, Unsettled(f)'
                 PROVE  EntryHolds(f)'
      BY DEF EntriesHold
    <3> DEFINE d == active[f].owner
    <3>1. d \in Calls /\ EntryHolds(f) /\ active'[f].owner = d
      BY <1>1 DEF Unsettled, Entry, SlotsInv, EntriesHold
    <3>2. d # c /\ HoldsSlot(d) /\ run[d].exec = f /\ run[d].pc \in LaterPC
      BY <1>1, <1>7, <3>1 DEF EntryHolds, LaterPC
    <3> QED
      BY <1>5, <2>9, <3>1, <3>2 DEF EntryHolds, HoldsSlot
  <2> QED
    BY <1>4, <2>6, <2>7, <2>8, <2>10, <2>11, CCStepKeeps DEF SlotsInv, Fits
<1> QED
  BY <1>6, <1>7
-----------------------------------------------------------------------------
(* The other steps of a call *)

(* Setting running a new execution, or claiming the row of another one.    *)
LEMMA ClaimingFits ==
    ASSUME SlotsInv, NEW c \in Calls, AdmitNew(c) \/ Claim(c)
    PROVE  Fits
<1>1. PICK pc \in {"claimed", "refused"} : Goto(c, pc)
  BY DEF AdmitNew, Claim
<1>2. run[c].pc = "admitted" /\ UNCHANGED <<ccVars, active>>
  BY DEF AdmitNew, Claim
<1>3. GoesOn(c)
  BY <1>1, <1>2, GotoGoesOn DEF PC, LaterPC
<1>4. GivesBack({})
  BY <1>2, FewerEntries DEF SlotsInv, Typed
<1> QED
  BY <1>3, <1>4, GoingOnFits

(* ActiveExecutions.add: the new entry is that of a call with a slot.      *)
LEMMA RegisterFits ==
    ASSUME SlotsInv, NEW c \in Calls, Register(c)
    PROVE  Fits
<1> DEFINE e == run[c].exec
           entry == [owner |-> c, status |-> "running", engine |-> None,
                     resp |-> active[e] # None /\ active[e].resp, settled |-> FALSE]
<1>1. /\ run[c].pc = "claimed" /\ Goto(c, "registered") /\ UNCHANGED ccVars
      /\ active' = [active EXCEPT ![e] = entry]
  BY DEF Register
<1>2. e \in Executions /\ active \in [Executions -> Entry \cup {None}]
  BY <1>1 DEF SlotsInv, Typed
<1>3. active' \in [Executions -> Entry \cup {None}]
  <2>1. entry.resp \in BOOLEAN
    BY <1>2 DEF Entry
  <2>2. entry \in Entry
    BY <2>1 DEF Entry
  <2> QED
    BY <1>1, <1>2, <2>2
<1>4. active'[e].owner = c /\ \A f \in Executions : f # e => active'[f] = active[f]
  BY <1>1, <1>2
<1> HIDE DEF entry
<1>5. GoesOn(c)
  BY <1>1, GotoGoesOn DEF PC, LaterPC
<1>6. run'[c].pc = "registered"
  BY <1>1 DEF Goto, SlotsInv, Typed, Call
<1>7. [NextCC]_ccVars /\ Shrinks({})
  BY <1>1, NothingShrinks
<1>8. \A d \in Calls : CallOK(d)
  BY <1>5, <1>7, GoingOnIsOK
<1>9. ASSUME NEW f \in Executions, Unsettled(f)'
      PROVE  KeptEntry(f, {}) \/ NewEntry(f)
  <2>1. CASE f = e
    BY <1>1, <1>4, <1>6, <2>1 DEF NewEntry, LaterPC
  <2>2. CASE f # e
    BY <1>4, <1>9, <2>2 DEF KeptEntry, Unsettled
  <2> QED
    BY <2>1, <2>2
<1>10. CCInv' /\ run' \in [Calls -> Call]
  BY <1>5, <1>7, CCStepKeeps DEF SlotsInv, GoesOn
<1>11. SlotsInv'
  BY <1>3, <1>7, <1>8, <1>9, <1>10, ShrinkingKeeps
<1> QED
  BY <1>7, <1>11 DEF Fits

(* A failed credentials check leaves the entry, to be settled or for good.  *)
LEMMA FailCredentialsFits ==
    ASSUME SlotsInv, NEW c \in Calls, FailCredentials(c)
    PROVE  Fits
<1>1. run[c].pc = "registered" /\ UNCHANGED <<ccVars, active>>
  BY DEF FailCredentials
<1>2. PICK pc \in {"failed", "threw"} : Goto(c, pc)
  BY DEF FailCredentials
<1>3. GoesOn(c)
  BY <1>1, <1>2, GotoGoesOn DEF PC, LaterPC
<1>4. GivesBack({})
  BY <1>1, FewerEntries DEF SlotsInv, Typed
<1> QED
  BY <1>3, <1>4, GoingOnFits

(* An entry that is changed in one of its other fields stays its owner's.  *)
LEMMA TouchedEntry ==
    ASSUME SlotsInv, UNCHANGED ccVars, NEW e \in Executions, NEW entry \in Entry,
           active[e] # None, active' = [active EXCEPT ![e] = entry],
           entry.owner = active[e].owner, entry.settled = active[e].settled
    PROVE  GivesBack({})
<1>1. active \in [Executions -> Entry \cup {None}]
  BY DEF SlotsInv, Typed
<1>2. active' \in [Executions -> Entry \cup {None}]
  BY <1>1
<1>3. \A f \in Executions :
         \/ active'[f] = active[f]
         \/ /\ active[f] # None
            /\ active'[f].owner = active[f].owner
            /\ active'[f].settled = active[f].settled
  BY <1>1
<1> QED
  BY <1>2, <1>3, FewerEntries

(* Attaching a response promise changes no owner. *)
LEMMA PrepareRunFits ==
    ASSUME SlotsInv, NEW c \in Calls, PrepareRun(c)
    PROVE  Fits
<1> DEFINE e == run[c].exec
<1>1. run[c].pc = "registered" /\ UNCHANGED ccVars /\ e \in Executions
  BY DEF PrepareRun, SlotsInv, Typed
<1>2. PICK pc \in {"threw", "prepared"} : Goto(c, pc)
  BY DEF PrepareRun
<1>3. GoesOn(c)
  BY <1>1, <1>2, GotoGoesOn DEF PC, LaterPC
<1>4. GivesBack({})
  <2>1. CASE active' = active
    BY <1>1, <2>1, FewerEntries DEF SlotsInv, Typed
  <2>2. CASE active[e] # None /\ active' = [active EXCEPT ![e].resp = TRUE]
    <3>1. active[e] \in Entry
      BY <1>1, <2>2 DEF SlotsInv, Typed
    <3>2. [active[e] EXCEPT !.resp = TRUE] \in Entry
      BY <3>1 DEF Entry
    <3>3. /\ [active[e] EXCEPT !.resp = TRUE].owner = active[e].owner
          /\ [active[e] EXCEPT !.resp = TRUE].settled = active[e].settled
      BY <3>1 DEF Entry
    <3> QED
      BY <1>1, <2>2, <3>2, <3>3, TouchedEntry
  <2> QED
    BY <2>1, <2>2 DEF PrepareRun
<1> QED
  BY <1>3, <1>4, GoingOnFits

(* Attaching an engine changes no owner. *)
LEMMA StartEngineFits ==
    ASSUME SlotsInv, NEW c \in Calls, StartEngine(c)
    PROVE  Fits
<1> DEFINE e == run[c].exec
           r == [run[c] EXCEPT !.pc = "running", !.attached = active[e] # None]
<1>1. run[c].pc = "prepared" /\ UNCHANGED ccVars /\ e \in Executions
  BY DEF StartEngine, SlotsInv, Typed
<1>2. run \in [Calls -> Call] /\ run' = [run EXCEPT ![c] = r]
  BY DEF StartEngine, SlotsInv, Typed
<1>3. r \in Call /\ r.pc = "running" /\ r.exec = e
  BY <1>2 DEF Call, PC
<1> HIDE DEF r
<1>4. GoesOn(c)
  BY <1>1, <1>2, <1>3 DEF GoesOn, LaterPC
<1>5. GivesBack({})
  <2>1. CASE active' = active
    BY <1>1, <2>1, FewerEntries DEF SlotsInv, Typed
  <2>2. CASE active[e] # None /\ active' = [active EXCEPT ![e].engine = c]
    <3>1. active[e] \in Entry
      BY <1>1, <2>2 DEF SlotsInv, Typed
    <3>2. [active[e] EXCEPT !.engine = c] \in Entry
      BY <3>1 DEF Entry
    <3>3. /\ [active[e] EXCEPT !.engine = c].owner = active[e].owner
          /\ [active[e] EXCEPT !.engine = c].settled = active[e].settled
      BY <3>1 DEF Entry
    <3> QED
      BY <1>1, <2>2, <3>2, <3>3, TouchedEntry
  <2> QED
    BY <2>1, <2>2 DEF StartEngine
<1> QED
  BY <1>4, <1>5, GoingOnFits

(* Going to wait changes the status of the entry only. *)
LEMMA GoToWaitFits ==
    ASSUME SlotsInv, NEW c \in Calls, GoToWait(c)
    PROVE  Fits
<1> DEFINE e == run[c].exec
<1>1. /\ run[c].pc = "running" /\ Goto(c, "toWait") /\ UNCHANGED ccVars
      /\ e \in Executions /\ active[e] # None
      /\ active' = [active EXCEPT ![e].status = "waiting"]
  BY DEF GoToWait, SlotsInv, Typed
<1>2. GoesOn(c)
  BY <1>1, GotoGoesOn DEF PC, LaterPC
<1>3. GivesBack({})
  <2>1. active[e] \in Entry
    BY <1>1 DEF SlotsInv, Typed
  <2>2. [active[e] EXCEPT !.status = "waiting"] \in Entry
    BY <2>1 DEF Entry
  <2>3. /\ [active[e] EXCEPT !.status = "waiting"].owner = active[e].owner
        /\ [active[e] EXCEPT !.status = "waiting"].settled = active[e].settled
    BY <2>1 DEF Entry
  <2> QED
    BY <1>1, <2>2, <2>3, TouchedEntry
<1> QED
  BY <1>2, <1>3, GoingOnFits

(* The engine ends; its entry is settled later. *)
LEMMA EndRunFits ==
    ASSUME SlotsInv, NEW c \in Calls, EndRun(c)
    PROVE  Fits
<1>1. run[c].pc \in {"running", "toWait"} /\ UNCHANGED <<ccVars, active>>
  BY DEF EndRun
<1>2. PICK out \in Outcomes \cup {"waiting"}, pc \in {"saving", "saved"} :
         run' = [run EXCEPT ![c].out = out, ![c].pc = pc]
  BY DEF EndRun, Outcomes
<1> DEFINE r == [run[c] EXCEPT !.out = out, !.pc = pc]
<1>3. run \in [Calls -> Call] /\ run' = [run EXCEPT ![c] = r]
  BY <1>2 DEF SlotsInv, Typed
<1>4. r \in Call /\ r.pc = pc /\ r.exec = run[c].exec
  BY <1>3 DEF Call, PC
<1> HIDE DEF r
<1>5. GoesOn(c)
  BY <1>1, <1>2, <1>3, <1>4 DEF GoesOn, LaterPC
<1>6. GivesBack({})
  BY <1>1, FewerEntries DEF SlotsInv, Typed
<1> QED
  BY <1>5, <1>6, GoingOnFits

(* Saving writes the row. *)
LEMMA SaveRunFits ==
    ASSUME SlotsInv, NEW c \in Calls, SaveRun(c)
    PROVE  Fits
<1>1. run[c].pc = "saving" /\ Goto(c, "saved") /\ UNCHANGED <<ccVars, active>>
  BY DEF SaveRun
<1>2. GoesOn(c)
  BY <1>1, GotoGoesOn DEF PC, LaterPC
<1>3. GivesBack({})
  BY <1>1, FewerEntries DEF SlotsInv, Typed
<1> QED
  BY <1>2, <1>3, GoingOnFits

(* Whichever call settles the entry, the slot given back is its owner's.   *)
LEMMA FinalizeFits ==
    ASSUME SlotsInv, NEW c \in Calls, Finalize(c)
    PROVE  Fits
<1>1. run[c].pc \in {"saved", "failed"} /\ Goto(c, "done")
  BY DEF Finalize
<1>2. run[c].exec \in Executions
  BY <1>1 DEF SlotsInv, Typed
<1>3. Settle(run[c].exec) \/ UNCHANGED <<ccVars, active>>
  BY DEF Finalize
<1>4. PICK gone : GivesBack(gone)
  BY <1>2, <1>3, SettleGivesBack, FewerEntries DEF SlotsInv, Typed
<1>5. GoesOn(c)
  BY <1>1, GotoGoesOn DEF PC, LaterPC
<1> QED
  BY <1>4, <1>5, GoingOnFits

(* What is thrown settles the entry or leaves it. *)
LEMMA EngineThrowsFits ==
    ASSUME SlotsInv, NEW c \in Calls, EngineThrows(c)
    PROVE  Fits
<1>1. run[c].pc \in {"prepared", "running", "toWait", "saving"}
  BY DEF EngineThrows
<1>2. PICK pc \in {"erring", "threw"} : Goto(c, pc)
  BY DEF EngineThrows
<1>3. run[c].exec \in Executions
  BY <1>1 DEF SlotsInv, Typed
<1>4. Settle(run[c].exec) \/ UNCHANGED <<ccVars, active>>
  BY DEF EngineThrows
<1>5. PICK gone : GivesBack(gone)
  BY <1>3, <1>4, SettleGivesBack, FewerEntries DEF SlotsInv, Typed
<1>6. GoesOn(c)
  BY <1>1, <1>2, GotoGoesOn DEF PC, LaterPC
<1> QED
  BY <1>5, <1>6, GoingOnFits

(* The error is saved. *)
LEMMA SaveErrorFits ==
    ASSUME SlotsInv, NEW c \in Calls, SaveError(c)
    PROVE  Fits
<1>1. run[c].pc = "erring" /\ UNCHANGED <<ccVars, active>>
  BY DEF SaveError
<1>2. PICK pc \in {"done", "threw"} : Goto(c, pc)
  BY DEF SaveError
<1>3. GoesOn(c)
  BY <1>1, <1>2, GotoGoesOn DEF PC, LaterPC
<1>4. GivesBack({})
  BY <1>1, FewerEntries DEF SlotsInv, Typed
<1> QED
  BY <1>3, <1>4, GoingOnFits

(* A timeout settles the entry or drops it. *)
LEMMA TimeoutFits ==
    ASSUME SlotsInv, NEW c \in Calls, Timeout(c)
    PROVE  Fits
<1>1. run[c].exec \in Executions /\ stopExecution(run[c].exec) /\ UNCHANGED run
  BY DEF Timeout, SlotsInv, Typed
<1>2. PICK gone : GivesBack(gone)
  BY <1>1, StopGivesBack
<1> QED
  BY <1>1, <1>2, CallsStayFits
-----------------------------------------------------------------------------
(* Stop requests, the process, and what leaves the service alone *)

(* A stop takes a throttled execution out of line, and with it the call    *)
(* that waits, or stops it like a timeout does.                            *)
LEMMA StopActFits ==
    ASSUME SlotsInv, NEW e \in Executions, StopAct(e)
    PROVE  Fits
<1>1. CASE remove(ModeOf[e], e) /\ DropRemoved /\ UNCHANGED active
  <2>1. [NextCC]_ccVars
    BY <1>1, ModeAssumption DEF NextCC, Remove
  <2>2. GivesBack({})
    BY <1>1, <2>1, RemoveShrinks DEF GivesBack, SlotsInv, Typed, KeptEntry, Unsettled
  <2>3. run \in [Calls -> Call]
    BY DEF SlotsInv, Typed
  <2>4. \A c \in Calls : [run[c] EXCEPT !.pc = "removed"] \in Call
    BY <2>3 DEF Call, PC
  <2>5. run' = [c \in Calls |-> IF Dropped(c) THEN [run[c] EXCEPT !.pc = "removed"]
                                ELSE run[c]]
    BY <1>1 DEF DropRemoved
  <2>6. run' \in [Calls -> Call]
    BY <2>3, <2>4, <2>5
  <2>7. ASSUME NEW c \in Calls
        PROVE  CallOK(c)
    <3>1. CASE Dropped(c)
      <4>1. run'[c].pc = "removed" /\ run'[c].exec = run[c].exec
        BY <2>3, <2>5, <3>1 DEF Call
      <4>2. run[c].pc = "queued" /\ \A t \in QueueTypes : ~Queued(t, c)'
        BY <3>1 DEF Dropped, Queued
      <4> QED
        BY <4>1, <4>2 DEF CallOK, LaterPC, SlotsInv, Typed
    <3>2. CASE ~Dropped(c)
      BY <2>2, <2>5, <3>2, StayingIsOK DEF GivesBack
    <3> QED
      BY <3>1, <3>2
  <2> QED
    BY <2>2, <2>6, <2>7, GivingBackFits
<1>2. CASE stopExecution(e) /\ UNCHANGED run
  BY <1>2, StopGivesBack, CallsStayFits
<1> QED
  BY <1>1, <1>2 DEF StopAct

(* Shutdown lifts the limit and drops entries. *)
LEMMA DrainFits ==
    ASSUME SlotsInv, Drain
    PROVE  Fits
<1>1. disable /\ UNCHANGED run
  BY DEF Drain
<1>2. [NextCC]_ccVars
  BY <1>1 DEF NextCC
<1>3. Shrinks({})
  BY <1>1 DEF disable, Shrinks, Queued
<1>4. active \in [Executions -> Entry \cup {None}]
  BY DEF SlotsInv, Typed
<1>5. \A e \in Executions : active'[e] = None \/ active'[e] = active[e]
  BY DEF Drain
<1>6. active' \in [Executions -> Entry \cup {None}]
  BY <1>4, <1>5 DEF Drain
<1>7. \A e \in Executions : Unsettled(e)' => KeptEntry(e, {})
  BY <1>5 DEF Unsettled, KeptEntry
<1>8. GivesBack({})
  BY <1>2, <1>3, <1>6, <1>7 DEF GivesBack
<1> QED
  BY <1>1, <1>8, CallsStayFits

(* A process that starts has no lines, calls or entries. *)
LEMMA FreshProcess ==
    ASSUME \A t \in QueueTypes : queue[t] = <<>> /\ holders[t] = {},
           run = [c \in Calls |-> IdleCall], active = NoExecution
    PROVE  Typed /\ WaitersQueued /\ HoldersAsked /\ AdmittedHold /\ EntriesHold
<1>1. IdleCall \in Call /\ IdleCall.pc = "idle"
  BY DEF IdleCall, Call, PC, Outcomes
<1>2. Typed
  BY <1>1 DEF Typed, NoExecution
<1>3. WaitersQueued /\ HoldersAsked
  BY DEF WaitersQueued, HoldersAsked, Queued
<1>4. AdmittedHold /\ EntriesHold
  BY <1>1 DEF AdmittedHold, EntriesHold, Unsettled, NoExecution
<1> QED
  BY <1>2, <1>3, <1>4

(* So the invariant holds at first. *)
LEMMA InitIsFresh == Init => SlotsInv
<1> SUFFICES ASSUME Init
             PROVE  SlotsInv
  OBVIOUS
<1>1. CCInv
  BY CCInitEstablishes DEF Init
<1> QED
  BY <1>1, FreshProcess DEF Init, InitCC, SlotsInv

(* And when the process starts again. *)
LEMMA NewProcessFits ==
    ASSUME SlotsInv, NewProcess
    PROVE  Fits
<1>1. restart /\ run' = [c \in Calls |-> IdleCall] /\ active' = NoExecution
  BY DEF NewProcess
<1>2. [NextCC]_ccVars
  BY <1>1 DEF NextCC
<1>3. CCInv'
  BY <1>2, CCStepKeeps DEF SlotsInv
<1>4. \A t \in QueueTypes : queue'[t] = <<>> /\ holders'[t] = {}
  BY <1>1 DEF restart
<1>5. (Typed /\ WaitersQueued /\ HoldersAsked /\ AdmittedHold /\ EntriesHold)'
  <2>1. IdleCall \in Call /\ IdleCall.pc = "idle"
    BY DEF IdleCall, Call, PC, Outcomes
  <2>2. Typed'
    BY <1>1, <2>1 DEF Typed, NoExecution
  <2>3. WaitersQueued' /\ HoldersAsked'
    BY <1>4 DEF WaitersQueued, HoldersAsked, Queued
  <2>4. AdmittedHold' /\ EntriesHold'
    BY <1>1, <2>1 DEF AdmittedHold, EntriesHold, Unsettled, NoExecution
  <2> QED
    BY <2>2, <2>3, <2>4
<1> QED
  BY <1>2, <1>3, <1>5 DEF SlotsInv, Fits

(* Steps that touch neither the service nor calls nor entries. *)
LEMMA OthersFit ==
    ASSUME SlotsInv, UNCHANGED <<ccVars, run, active>>
    PROVE  Fits
<1>1. GivesBack({})
  BY FewerEntries DEF SlotsInv, Typed
<1> QED
  BY <1>1, CallsStayFits
-----------------------------------------------------------------------------
(* Every step is a step of the service, or none of its business. *)
LEMMA StepFits == SlotsInv /\ [Next]_vars => Fits
<1> SUFFICES ASSUME SlotsInv, [Next]_vars
             PROVE  Fits
  OBVIOUS
<1>1. CASE UNCHANGED vars
  BY <1>1, OthersFit DEF vars, execVars
<1>2. ASSUME NEW c \in Calls, Step(c) \/ Timeout(c)
      PROVE  Fits
  <2>1. CASE Arrive(c) \/ LetThrough(c) \/ AdmitNew(c) \/ Claim(c) \/ Register(c)
    BY <2>1, ArriveFits, LetThroughFits, ClaimingFits, RegisterFits
  <2>2. CASE FailCredentials(c) \/ PrepareRun(c) \/ StartEngine(c)
    BY <2>2, FailCredentialsFits, PrepareRunFits, StartEngineFits
  <2>3. CASE GoToWait(c) \/ EndRun(c) \/ SaveRun(c)
    BY <2>3, GoToWaitFits, EndRunFits, SaveRunFits
  <2>4. CASE CancelSave(c)
    BY <2>4, OthersFit DEF CancelSave
  <2>5. CASE Finalize(c) \/ Timeout(c) \/ EngineThrows(c) \/ SaveError(c)
    BY <2>5, FinalizeFits, TimeoutFits, EngineThrowsFits, SaveErrorFits
  <2> QED
    BY <1>2, <2>1, <2>2, <2>3, <2>4, <2>5 DEF Step
<1>3. ASSUME NEW c \in Calls, NEW e \in Executions,
             \/ CreateExecution(c, e)
             \/ TimerFires(c, e)
             \/ WebhookResume(c, e)
             \/ RunEnqueued(c, e)
      PROVE  Fits
  <2>1. CASE CreateExecution(c, e)
    BY <2>1, AskFits DEF CreateExecution
  <2>2. CASE TimerFires(c, e)
    BY <2>2, AskFits, OthersFit DEF TimerFires
  <2>3. CASE WebhookResume(c, e)
    BY <2>3, AskFits DEF WebhookResume
  <2>4. CASE RunEnqueued(c, e)
    BY <2>4, AskFits DEF RunEnqueued
  <2> QED
    BY <1>3, <2>1, <2>2, <2>3, <2>4
<1>4. ASSUME NEW e \in Executions,
             StopRead(e) \/ StopAct(e) \/ StopWrite(e) \/ PollWaiting(e)
      PROVE  Fits
  <2>1. CASE StopAct(e)
    BY <2>1, StopActFits
  <2>2. CASE StopRead(e) \/ StopWrite(e) \/ PollWaiting(e)
    BY <2>2, OthersFit DEF StopRead, StopWrite, PollWaiting
  <2> QED
    BY <1>4, <2>1, <2>2
<1>5. CASE BeginShutdown
  BY <1>5, OthersFit DEF BeginShutdown
<1>6. CASE Drain
  BY <1>6, DrainFits
<1>7. CASE Exit \/ Crash
  BY <1>7, NewProcessFits DEF Exit, Crash
<1> QED
  BY <1>1, <1>2, <1>3, <1>4, <1>5, <1>6, <1>7 DEF Next

(* Executions in regular mode ask for slots once and give back only slots  *)
(* they hold, whatever settles their entries, in whatever order they are   *)
(* stopped, resumed, timed out and restarted.                              *)
THEOREM UsesTheService == Spec => UsesConcurrencyControl
<1>1. Init => InitCC
  BY DEF Init
<1>2. SlotsInv /\ [Next]_vars => SlotsInv' /\ [NextCC]_ccVars
  BY StepFits DEF Fits
<1> QED
  BY <1>1, <1>2, InitIsFresh, PTL DEF Spec, UsesConcurrencyControl, SpecCC

(* So the counter accounts for the slots of executions in regular mode.    *)
THEOREM ModeAccounts == Spec => []CapacityAccounts
  BY UsesTheService, CapacityAlwaysAccounts, PTL DEF UsesConcurrencyControl

(* And nobody is throttled while a slot is free. *)
THEOREM ModeNeverIdle == Spec => []NoIdleSlotWhileThrottled
  BY UsesTheService, NeverIdleWhileThrottled, PTL DEF UsesConcurrencyControl

(* And executions in regular mode implement slots with a line. *)
THEOREM ModeImplementsSlots == Spec => ImplementsSlots
  BY UsesTheService, CounterImplementsSlots, PTL DEF UsesConcurrencyControl
-----------------------------------------------------------------------------
(* Who works on the entries.  That every entry that has not settled belongs *)
(* to a call of its execution is EntriesHold; that this call is still going *)
(* to settle it, or threw, needs to know that its engine was attached to    *)
(* the entry, if it runs: the handlers of an engine that was not attached   *)
(* do not exist.                                                            *)
EnginePC == {"running", "toWait", "saving", "saved"}
WorkingPC == {"registered", "prepared", "failed", "threw"} \cup EnginePC

WorksOn(c, e) ==
    /\ exec(c) = e
    /\ run[c].pc \in WorkingPC
    /\ run[c].pc \in EnginePC => run[c].attached

OwnersWork == \A e \in Executions : Unsettled(e) => WorksOn(active[e].owner, e)

(* Entries go away or keep their owners, and these keep working.           *)
LEMMA KeepWorking ==
    ASSUME OwnersWork,
           \A e \in Executions :
              Unsettled(e)' =>
                 /\ Unsettled(e) /\ active'[e].owner = active[e].owner
                 /\ WorksOn(active[e].owner, e) =>
                       /\ run'[active[e].owner].exec = e
                       /\ run'[active[e].owner].pc \in WorkingPC
                       /\ run'[active[e].owner].pc \in EnginePC =>
                             run'[active[e].owner].attached
    PROVE  OwnersWork'
  BY DEF OwnersWork, WorksOn

(* No call moves but one that works on nothing. *)
LEMMA OthersWork ==
    ASSUME SlotsInv, OwnersWork, NEW gone, GivesBack(gone),
           \A d \in Calls : run[d].pc \in WorkingPC => run'[d] = run[d]
    PROVE  OwnersWork'
<1>1. \A e \in Executions : Unsettled(e) => active[e].owner \in Calls
  BY DEF SlotsInv, Typed, Unsettled, Entry
<1>2. ASSUME NEW e \in Executions, Unsettled(e)'
      PROVE  /\ Unsettled(e) /\ active'[e].owner = active[e].owner
             /\ WorksOn(active[e].owner, e) =>
                   run'[active[e].owner] = run[active[e].owner]
  BY <1>1, <1>2 DEF GivesBack, KeptEntry, WorksOn
<1> QED
  BY <1>2, KeepWorking DEF WorksOn

(* One call goes on working, and no entry changes its owner.               *)
LEMMA GoesOnWorking ==
    ASSUME SlotsInv, OwnersWork, GivesBack({}), NEW c \in Calls,
           \A d \in Calls : d # c => run'[d] = run[d],
           run'[c].exec = run[c].exec,
           Unsettled(run[c].exec)' /\ WorksOn(c, run[c].exec) =>
              /\ run'[c].pc \in WorkingPC
              /\ run'[c].pc \in EnginePC => run'[c].attached
    PROVE  OwnersWork'
<1>1. ASSUME NEW e \in Executions, Unsettled(e)'
      PROVE  /\ Unsettled(e) /\ active'[e].owner = active[e].owner
             /\ WorksOn(active[e].owner, e) =>
                   /\ run'[active[e].owner].exec = e
                   /\ run'[active[e].owner].pc \in WorkingPC
                   /\ run'[active[e].owner].pc \in EnginePC =>
                         run'[active[e].owner].attached
  <2>1. Unsettled(e) /\ active'[e].owner = active[e].owner /\ active[e].owner \in Calls
    BY <1>1 DEF GivesBack, KeptEntry, SlotsInv, Typed, Unsettled, Entry
  <2>2. CASE active[e].owner = c
    BY <1>1, <2>1, <2>2 DEF WorksOn
  <2>3. CASE active[e].owner # c
    BY <2>1, <2>3 DEF WorksOn
  <2> QED
    BY <2>1, <2>2, <2>3
<1> QED
  BY <1>1, KeepWorking

(* An entry that Settle has met is settled, or gone. *)
LEMMA SettledAfter ==
    ASSUME SlotsInv, NEW f \in Executions, Settle(f)
    PROVE  ~Unsettled(f)'
<1>1. active \in [Executions -> Entry \cup {None}]
  BY DEF SlotsInv, Typed
<1>2. CASE active[f] = None \/ active[f].settled
  BY <1>2 DEF Settle, Unsettled
<1>3. CASE ~(active[f] = None \/ active[f].settled)
  <2>1. active[f] \in Entry
    BY <1>1, <1>3
  <2> DEFINE entry == [active[f] EXCEPT !.settled = TRUE, !.engine = None]
  <2>2. entry.settled
    BY <2>1 DEF Entry
  <2>3. active' = [active EXCEPT ![f] = IF active[f].status = "waiting" THEN entry ELSE None]
    BY <1>3 DEF Settle
  <2> HIDE DEF entry
  <2>4. active'[f] = entry \/ active'[f] = None
    BY <1>1, <2>3
  <2> QED
    BY <2>2, <2>4 DEF Unsettled
<1> QED
  BY <1>2, <1>3

(* Each step of a call keeps somebody working on every entry. *)
LEMMA StepWorks ==
    ASSUME SlotsInv, OwnersWork, NEW c \in Calls, Step(c)
    PROVE  OwnersWork'
<1>0. run \in [Calls -> Call] /\ active \in [Executions -> Entry \cup {None}]
  BY DEF SlotsInv, Typed
<1>1. ASSUME UNCHANGED <<ccVars, active>>
      PROVE  GivesBack({})
  BY <1>0, <1>1, FewerEntries
<1>2. ASSUME NEW pc, Goto(c, pc)
      PROVE  /\ \A d \in Calls : d # c => run'[d] = run[d]
             /\ run'[c].pc = pc /\ run'[c].exec = run[c].exec
             /\ run'[c].attached = run[c].attached
  BY <1>0, <1>2 DEF Goto, Call
<1>3. CASE Arrive(c)
  <2>1. PICK pc : Goto(c, pc)
    BY <1>3 DEF Arrive
  <2>2. run[c].pc = "arriving" /\ active' = active
    BY <1>3 DEF Arrive
  <2>3. ASSUME NEW e \in Executions, Unsettled(e)'
        PROVE  /\ Unsettled(e) /\ active'[e].owner = active[e].owner
               /\ WorksOn(active[e].owner, e) =>
                     run'[active[e].owner] = run[active[e].owner]
    BY <1>0, <1>2, <2>1, <2>2, <2>3 DEF Unsettled, Entry, WorksOn, WorkingPC, EnginePC
  <2> QED
    BY <2>3, KeepWorking DEF WorksOn
<1>4. CASE LetThrough(c) \/ AdmitNew(c) \/ Claim(c)
  <2>1. PICK pc : Goto(c, pc)
    BY <1>4 DEF LetThrough, AdmitNew, Claim
  <2>2. run[c].pc \in {"queued", "admitted"} /\ UNCHANGED <<ccVars, active>>
    BY <1>4 DEF LetThrough, AdmitNew, Claim
  <2>3. \A d \in Calls : run[d].pc \in WorkingPC => run'[d] = run[d]
    BY <1>2, <2>1, <2>2 DEF WorkingPC, EnginePC
  <2> QED
    BY <1>1, <2>2, <2>3, OthersWork
<1>5. CASE Register(c)
  <2> DEFINE f == run[c].exec
             entry == [owner |-> c, status |-> "running", engine |-> None,
                       resp |-> active[f] # None /\ active[f].resp, settled |-> FALSE]
  <2>1. /\ run[c].pc = "claimed" /\ Goto(c, "registered")
        /\ active' = [active EXCEPT ![f] = entry] /\ f \in Executions
    BY <1>5 DEF Register, SlotsInv, Typed
  <2>2. entry.owner = c
    OBVIOUS
  <2> HIDE DEF entry
  <2> SUFFICES ASSUME NEW e \in Executions, Unsettled(e)'
               PROVE  WorksOn(active[e].owner, e)'
    BY DEF OwnersWork
  <2>3. CASE e = f
    BY <1>0, <1>2, <2>1, <2>2, <2>3 DEF WorksOn, WorkingPC, EnginePC
  <2>4. CASE e # f
    <3>1. Unsettled(e) /\ active'[e] = active[e] /\ active[e].owner \in Calls
      BY <1>0, <2>1, <2>4 DEF Unsettled, Entry
    <3>2. WorksOn(active[e].owner, e) /\ active[e].owner # c
      BY <2>1, <3>1 DEF OwnersWork, WorksOn, WorkingPC, EnginePC
    <3> QED
      BY <1>2, <2>1, <3>1, <3>2 DEF WorksOn
  <2> QED
    BY <2>3, <2>4
<1>6. CASE FailCredentials(c) \/ SaveRun(c)
  <2>1. PICK pc \in {"failed", "threw", "saved"} :
           Goto(c, pc) /\ (pc = "saved" => run[c].pc = "saving")
    BY <1>6 DEF FailCredentials, SaveRun
  <2>2. UNCHANGED <<ccVars, active>>
    BY <1>6 DEF FailCredentials, SaveRun
  <2> QED
    BY <1>1, <1>2, <2>1, <2>2, GoesOnWorking DEF WorksOn, WorkingPC, EnginePC
<1>7. CASE PrepareRun(c)
  <2> DEFINE f == run[c].exec
  <2>1. f \in Executions /\ UNCHANGED ccVars
    BY <1>7 DEF PrepareRun, SlotsInv, Typed
  <2>2. PICK pc \in {"threw", "prepared"} : Goto(c, pc)
    BY <1>7 DEF PrepareRun
  <2>3. CASE active' = active
    BY <1>1, <1>2, <2>1, <2>2, <2>3, GoesOnWorking DEF WorkingPC, EnginePC
  <2>4. CASE active[f] # None /\ active' = [active EXCEPT ![f].resp = TRUE]
    <3>1. active[f] \in Entry
      BY <1>0, <2>1, <2>4
    <3> DEFINE entry == [active[f] EXCEPT !.resp = TRUE]
    <3>2. /\ entry \in Entry /\ entry.owner = active[f].owner
          /\ entry.settled = active[f].settled
      BY <3>1 DEF Entry
    <3>3. active' = [active EXCEPT ![f] = entry]
      BY <2>4
    <3> HIDE DEF entry
    <3>4. GivesBack({})
      BY <2>1, <2>4, <3>2, <3>3, TouchedEntry
    <3> QED
      BY <1>2, <2>2, <3>4, GoesOnWorking DEF WorkingPC, EnginePC
  <2> QED
    BY <1>7, <2>3, <2>4 DEF PrepareRun
<1>8. CASE StartEngine(c)
  <2> DEFINE f == run[c].exec
             r == [run[c] EXCEPT !.pc = "running", !.attached = active[f] # None]
  <2>1. /\ f \in Executions /\ UNCHANGED ccVars
        /\ run' = [run EXCEPT ![c] = r]
    BY <1>0, <1>8 DEF StartEngine, SlotsInv, Typed
  <2>2. r.pc = "running" /\ r.exec = f /\ (r.attached <=> active[f] # None)
    BY <1>0 DEF Call
  <2> HIDE DEF r
  <2>3. /\ \A d \in Calls : d # c => run'[d] = run[d]
        /\ run'[c] = r
    BY <1>0, <2>1
  <2>4. CASE active[f] = None /\ active' = active
    <3>1. ~Unsettled(f)'
      BY <2>2, <2>3, <2>4 DEF Unsettled
    <3> QED
      BY <1>1, <2>1, <2>2, <2>3, <2>4, <3>1, GoesOnWorking
  <2>5. CASE active[f] # None /\ active' = [active EXCEPT ![f].engine = c]
    <3>1. active[f] \in Entry
      BY <1>0, <2>1, <2>5
    <3> DEFINE entry == [active[f] EXCEPT !.engine = c]
    <3>2. /\ entry \in Entry /\ entry.owner = active[f].owner
          /\ entry.settled = active[f].settled
      BY <3>1 DEF Entry
    <3>3. active' = [active EXCEPT ![f] = entry]
      BY <2>5
    <3> HIDE DEF entry
    <3>4. GivesBack({})
      BY <2>1, <2>5, <3>2, <3>3, TouchedEntry
    <3>5. run'[c].pc \in WorkingPC /\ run'[c].attached
      BY <2>2, <2>3, <2>5 DEF WorkingPC, EnginePC
    <3> QED
      BY <2>2, <2>3, <3>4, <3>5, GoesOnWorking
  <2> QED
    BY <1>8, <2>4, <2>5 DEF StartEngine
<1>9. CASE GoToWait(c)
  <2> DEFINE f == run[c].exec
  <2>1. /\ f \in Executions /\ UNCHANGED ccVars /\ Goto(c, "toWait") /\ run[c].pc = "running"
        /\ active[f] # None /\ active' = [active EXCEPT ![f].status = "waiting"]
    BY <1>9 DEF GoToWait, SlotsInv, Typed
  <2>2. active[f] \in Entry
    BY <1>0, <2>1
  <2> DEFINE entry == [active[f] EXCEPT !.status = "waiting"]
  <2>3. /\ entry \in Entry /\ entry.owner = active[f].owner
        /\ entry.settled = active[f].settled
    BY <2>2 DEF Entry
  <2>4. active' = [active EXCEPT ![f] = entry]
    BY <2>1
  <2> HIDE DEF entry
  <2>5. GivesBack({})
    BY <2>1, <2>3, <2>4, TouchedEntry
  <2> QED
    BY <1>2, <2>1, <2>5, GoesOnWorking DEF WorksOn, WorkingPC, EnginePC
<1>10. CASE EndRun(c)
  <2>1. PICK out \in Outcomes \cup {"waiting"}, pc \in {"saved", "saving"} :
           run' = [run EXCEPT ![c].out = out, ![c].pc = pc]
    BY <1>10 DEF EndRun, Outcomes
  <2>2. /\ \A d \in Calls : d # c => run'[d] = run[d]
        /\ run'[c].pc = pc /\ run'[c].exec = run[c].exec
        /\ run'[c].attached = run[c].attached
    BY <1>0, <2>1 DEF Call
  <2>3. run[c].pc \in {"running", "toWait"} /\ UNCHANGED <<ccVars, active>>
    BY <1>10 DEF EndRun
  <2> QED
    BY <1>1, <2>2, <2>3, GoesOnWorking DEF WorksOn, WorkingPC, EnginePC
<1>11. CASE CancelSave(c)
  <2>1. UNCHANGED <<ccVars, active>> /\ run' = run
    BY <1>11 DEF CancelSave
  <2> QED
    BY <1>1, <2>1, OthersWork
<1>12. CASE Finalize(c)
  <2>0. PICK f \in Executions : f = run[c].exec
    BY <1>12 DEF Finalize, SlotsInv, Typed
  <2>1. /\ run[c].pc \in {"saved", "failed"} /\ Goto(c, "done")
        /\ Settle(f) \/ (~At(c, "failed") /\ ~run[c].attached /\ UNCHANGED <<ccVars, active>>)
    BY <1>12, <2>0 DEF Finalize
  <2>2. PICK gone : GivesBack(gone)
    BY <1>1, <2>1, SettleGivesBack
  <2>3. ~Unsettled(f)' \/ ~WorksOn(c, f)
    <3>1. CASE Settle(f)
      BY <3>1, SettledAfter
    <3>2. CASE ~At(c, "failed") /\ ~run[c].attached
      BY <2>1, <3>2 DEF WorksOn, EnginePC
    <3> QED
      BY <2>1, <3>1, <3>2
  <2>4. ASSUME NEW e \in Executions, Unsettled(e)'
        PROVE  /\ Unsettled(e) /\ active'[e].owner = active[e].owner
               /\ WorksOn(active[e].owner, e) =>
                     run'[active[e].owner] = run[active[e].owner]
    <3>1. Unsettled(e) /\ active'[e].owner = active[e].owner /\ active[e].owner \in Calls
      BY <2>2, <2>4 DEF GivesBack, KeptEntry, SlotsInv, Typed, Unsettled, Entry
    <3>2. WorksOn(active[e].owner, e) => active[e].owner # c
      BY <2>0, <2>3, <2>4 DEF WorksOn
    <3> QED
      BY <1>2, <2>1, <3>1, <3>2
  <2> QED
    BY <2>4, KeepWorking DEF WorksOn
<1>13. CASE EngineThrows(c)
  <2>0. PICK f \in Executions : f = run[c].exec
    BY <1>13 DEF EngineThrows, SlotsInv, Typed
  <2>1. CASE Settle(f) /\ Goto(c, "erring")
    <3>1. ~Unsettled(f)'
      BY <2>1, SettledAfter
    <3>2. PICK gone : GivesBack(gone)
      BY <2>1, SettleGivesBack
    <3>3. ASSUME NEW e \in Executions, Unsettled(e)'
          PROVE  /\ Unsettled(e) /\ active'[e].owner = active[e].owner
                 /\ WorksOn(active[e].owner, e) =>
                       run'[active[e].owner] = run[active[e].owner]
      <4>1. Unsettled(e) /\ active'[e].owner = active[e].owner /\ active[e].owner \in Calls
        BY <3>2, <3>3 DEF GivesBack, KeptEntry, SlotsInv, Typed, Unsettled, Entry
      <4>2. WorksOn(active[e].owner, e) => active[e].owner # c
        BY <2>0, <3>1, <3>3 DEF WorksOn
      <4> QED
        BY <1>2, <2>1, <4>1, <4>2
    <3> QED
      BY <3>3, KeepWorking DEF WorksOn
  <2>2. CASE Goto(c, "threw") /\ UNCHANGED <<ccVars, active>>
    BY <1>1, <1>2, <2>2, GoesOnWorking DEF WorkingPC, EnginePC
  <2> QED
    BY <1>13, <2>0, <2>1, <2>2 DEF EngineThrows
<1>14. CASE SaveError(c)
  <2>1. run[c].pc = "erring" /\ UNCHANGED <<ccVars, active>>
    BY <1>14 DEF SaveError
  <2>2. PICK pc \in {"done", "threw"} : Goto(c, pc)
    BY <1>14 DEF SaveError
  <2>3. \A d \in Calls : run[d].pc \in WorkingPC => run'[d] = run[d]
    BY <1>2, <2>1, <2>2 DEF WorkingPC, EnginePC
  <2> QED
    BY <1>1, <2>1, <2>3, OthersWork
<1> QED
  BY <1>3, <1>4, <1>5, <1>6, <1>7, <1>8, <1>9, <1>10, <1>11, <1>12,
     <1>13, <1>14 DEF Step

(* Every step does. *)
LEMMA NextWorks == SlotsInv /\ OwnersWork /\ [Next]_vars => OwnersWork'
<1> SUFFICES ASSUME SlotsInv, OwnersWork, [Next]_vars
             PROVE  OwnersWork'
  OBVIOUS
<1>0. run \in [Calls -> Call] /\ active \in [Executions -> Entry \cup {None}]
  BY DEF SlotsInv, Typed
<1>1. ASSUME NEW gone, GivesBack(gone), UNCHANGED run
      PROVE  OwnersWork'
  BY <1>1, OthersWork
<1>2. CASE UNCHANGED <<ccVars, run, active>>
  <2>1. GivesBack({})
    BY <1>0, <1>2, FewerEntries
  <2> QED
    BY <1>1, <1>2, <2>1
<1>3. CASE UNCHANGED vars
  BY <1>2, <1>3 DEF vars, execVars
<1>4. ASSUME NEW c \in Calls, Step(c)
      PROVE  OwnersWork'
  BY <1>4, StepWorks
<1>5. ASSUME NEW e \in Executions, stopExecution(e), UNCHANGED run
      PROVE  OwnersWork'
  <2>1. PICK gone : GivesBack(gone)
    BY <1>5, StopGivesBack
  <2> QED
    BY <1>1, <1>5, <2>1
<1>6. ASSUME NEW c \in Calls, Timeout(c)
      PROVE  OwnersWork'
  <2>1. exec(c) \in Executions
    BY <1>6 DEF Timeout, SlotsInv, Typed
  <2> QED
    BY <1>5, <1>6, <2>1 DEF Timeout
<1>7. ASSUME NEW c \in Calls, NEW e \in Executions,
             \/ CreateExecution(c, e)
             \/ TimerFires(c, e)
             \/ WebhookResume(c, e)
             \/ RunEnqueued(c, e)
      PROVE  OwnersWork'
  <2>1. UNCHANGED <<ccVars, active>>
    BY <1>7 DEF CreateExecution, TimerFires, WebhookResume, RunEnqueued
  <2>2. CASE UNCHANGED run
    BY <1>2, <2>1, <2>2
  <2>3. ASSUME NEW kind, At(c, "idle"), Ask(c, e, kind)
        PROVE  OwnersWork'
    <3>1. GivesBack({})
      BY <1>0, <2>1, FewerEntries
    <3>2. \A d \in Calls : run[d].pc \in WorkingPC => run'[d] = run[d]
      BY <1>0, <2>3 DEF Ask, WorkingPC, EnginePC
    <3> QED
      BY <3>1, <3>2, OthersWork
  <2> QED
    BY <1>7, <2>2, <2>3 DEF CreateExecution, TimerFires, WebhookResume, RunEnqueued
<1>8. ASSUME NEW e \in Executions, StopAct(e)
      PROVE  OwnersWork'
  <2>1. CASE stopExecution(e) /\ UNCHANGED run
    BY <1>5, <2>1
  <2>2. CASE DropRemoved /\ UNCHANGED active
    <3>1. \A d \in Calls : run[d].pc \in WorkingPC => run'[d] = run[d]
      BY <2>2 DEF DropRemoved, Dropped, WorkingPC, EnginePC
    <3>2. \A f \in Executions : Unsettled(f) => active[f].owner \in Calls
      BY <1>0 DEF Unsettled, Entry
    <3>3. \A f \in Executions :
             Unsettled(f)' => /\ Unsettled(f) /\ active'[f].owner = active[f].owner
                              /\ WorksOn(active[f].owner, f) =>
                                    run'[active[f].owner] = run[active[f].owner]
      BY <2>2, <3>1, <3>2 DEF Unsettled, WorksOn
    <3> QED
      BY <3>3, KeepWorking DEF WorksOn
  <2> QED
    BY <1>8, <2>1, <2>2 DEF StopAct
<1>9. ASSUME NEW e \in Executions, StopRead(e) \/ StopWrite(e) \/ PollWaiting(e)
      PROVE  OwnersWork'
  BY <1>2, <1>9 DEF StopRead, StopWrite, PollWaiting
<1>10. CASE BeginShutdown
  BY <1>2, <1>10 DEF BeginShutdown
<1>11. CASE Drain
  <2>1. run' = run /\ \A e \in Executions : active'[e] = None \/ active'[e] = active[e]
    BY <1>11 DEF Drain
  <2>2. \A f \in Executions :
           Unsettled(f)' => Unsettled(f) /\ active'[f].owner = active[f].owner
    BY <2>1 DEF Unsettled
  <2> QED
    BY <2>1, <2>2, KeepWorking DEF WorksOn
<1>12. CASE Exit \/ Crash
  BY <1>12 DEF Exit, Crash, NewProcess, NoExecution, OwnersWork, Unsettled
<1> QED
  BY <1>3, <1>4, <1>6, <1>7, <1>8, <1>9, <1>10, <1>11, <1>12 DEF Next

(* SlotsInv holds always: it is kept by every step that fits the service.  *)
LEMMA SlotsAlways == Spec => []SlotsInv
<1>1. SlotsInv /\ [Next]_vars => SlotsInv'
  BY StepFits DEF Fits
<1> QED
  BY <1>1, InitIsFresh, PTL DEF Spec

(* Whoever stops, resumes or times out an execution, an entry whose promise *)
(* has not settled belongs to a call of its execution that is still to      *)
(* settle it, with its engine attached if it runs, or that threw: the loop  *)
(* of shutdown waits for nobody else who is gone.                           *)
THEOREM SomebodySettles == Spec => []UnsettledIsWorkedOn
<1>1. Init => OwnersWork
  BY DEF Init, NoExecution, OwnersWork, Unsettled
<1>2. OwnersWork => UnsettledIsWorkedOn
  BY DEF UnsettledIsWorkedOn, OwnersWork, Unsettled, WorksOn, WorkingPC, EnginePC
<1> QED
  BY <1>1, <1>2, NextWorks, SlotsAlways, PTL DEF Spec
-----------------------------------------------------------------------------
(* Calls that are stopped while throttled, and throttled calls at shutdown *)

(* The ways in which a step uses the service. *)
Releases == \E mode \in Modes, call \in Calls : release(mode, call)
Removes == \E mode \in Modes, e \in Executions : remove(mode, e)

HowItIsUsed ==
    \/ UNCHANGED ccVars
    \/ \E c \in Calls : Arrive(c)
    \/ Releases
    \/ Removes
    \/ disable /\ process = "stopping"
    \/ restart /\ process' = "up"

(* Settling releases the slot of the entry's owner, or does nothing. *)
LEMMA SettleReleases ==
    ASSUME SlotsInv, NEW e \in Executions, Settle(e)
    PROVE  UNCHANGED ccVars \/ Releases
<1>1. CASE active[e] = None \/ active[e].settled
  BY <1>1 DEF Settle
<1>2. CASE ~(active[e] = None \/ active[e].settled)
  <2>1. active[e].owner \in Calls
    BY <1>2 DEF SlotsInv, Typed, Entry
  <2>2. release(ModeOf[e], active[e].owner)
    BY <1>2 DEF Settle
  <2> QED
    BY <2>1, <2>2, ModeAssumption DEF Releases
<1> QED
  BY <1>1, <1>2

(* So does stopping an execution. *)
LEMMA StopReleases ==
    ASSUME SlotsInv, NEW e \in Executions, stopExecution(e)
    PROVE  UNCHANGED ccVars \/ Releases
  BY SettleReleases DEF stopExecution

(* Every step uses the service in one of these ways, and the process only  *)
(* comes to drain with the limit lifted.                                   *)
LEMMA StepUses ==
    ASSUME SlotsInv, [Next]_vars
    PROVE  /\ HowItIsUsed
           /\ process' = "draining" => process = "draining" \/ disable
<1>1. CASE UNCHANGED <<ccVars, process>>
  BY <1>1 DEF HowItIsUsed
<1>2. CASE UNCHANGED vars
  BY <1>1, <1>2 DEF vars, execVars
<1>3. ASSUME NEW c \in Calls, Step(c)
      PROVE  HowItIsUsed /\ process' = process
  <2>1. CASE Arrive(c)
    BY <2>1 DEF Arrive, HowItIsUsed
  <2>2. CASE \/ LetThrough(c) \/ AdmitNew(c) \/ Claim(c) \/ Register(c)
             \/ FailCredentials(c) \/ PrepareRun(c) \/ StartEngine(c)
    BY <2>2 DEF HowItIsUsed, LetThrough, AdmitNew, Claim, Register, FailCredentials,
                PrepareRun, StartEngine
  <2>3. CASE GoToWait(c) \/ EndRun(c) \/ SaveRun(c) \/ CancelSave(c)
    BY <2>3 DEF HowItIsUsed, GoToWait, EndRun, SaveRun, CancelSave
  <2>4. CASE Finalize(c) \/ EngineThrows(c) \/ SaveError(c)
    <3>1. run[c].exec \in Executions /\ process' = process
      BY <2>4 DEF Finalize, EngineThrows, SaveError, SlotsInv, Typed
    <3>2. Settle(run[c].exec) \/ UNCHANGED ccVars
      BY <2>4 DEF Finalize, EngineThrows, SaveError
    <3> QED
      BY <3>1, <3>2, SettleReleases DEF HowItIsUsed
  <2> QED
    BY <1>3, <2>1, <2>2, <2>3, <2>4 DEF Step
<1>4. ASSUME NEW c \in Calls, Timeout(c)
      PROVE  HowItIsUsed /\ process' = process
  <2>1. run[c].exec \in Executions /\ stopExecution(run[c].exec) /\ process' = process
    BY <1>4 DEF Timeout, SlotsInv, Typed
  <2> QED
    BY <2>1, StopReleases DEF HowItIsUsed
<1>5. ASSUME NEW c \in Calls, NEW e \in Executions,
             \/ CreateExecution(c, e)
             \/ TimerFires(c, e)
             \/ WebhookResume(c, e)
             \/ RunEnqueued(c, e)
      PROVE  UNCHANGED <<ccVars, process>>
  BY <1>5 DEF CreateExecution, TimerFires, WebhookResume, RunEnqueued
<1>6. ASSUME NEW e \in Executions, StopRead(e) \/ StopWrite(e) \/ PollWaiting(e)
      PROVE  UNCHANGED <<ccVars, process>>
  BY <1>6 DEF StopRead, StopWrite, PollWaiting
<1>7. ASSUME NEW e \in Executions, StopAct(e)
      PROVE  HowItIsUsed /\ process' = process
  <2>1. process' = process /\ (remove(ModeOf[e], e) \/ stopExecution(e))
    BY <1>7 DEF StopAct
  <2> QED
    BY <2>1, StopReleases, ModeAssumption DEF HowItIsUsed, Removes
<1>8. CASE BeginShutdown
  BY <1>8 DEF BeginShutdown, HowItIsUsed
<1>9. CASE Drain
  BY <1>9 DEF Drain, HowItIsUsed
<1>10. CASE Exit \/ Crash
  BY <1>10 DEF Exit, Crash, NewProcess, HowItIsUsed
<1> QED
  BY <1>1, <1>2, <1>3, <1>4, <1>5, <1>6, <1>7, <1>8, <1>9, <1>10 DEF Next

(* With the limit lifted the service does nothing until the process starts  *)
(* again.                                                                   *)
LEMMA LiftedIsStill ==
    ASSUME HowItIsUsed, ~isEnabled
    PROVE  UNCHANGED ccVars \/ (disable /\ process = "stopping") \/ process' = "up"
  BY DEF HowItIsUsed, Arrive, throttle, Releases, release, Removes, remove

(* The limit is lifted as long as shutdown waits. *)
DrainLifted == process = "draining" => ~isEnabled

(* It stays lifted. *)
LEMMA DrainStaysLifted == SlotsInv /\ DrainLifted /\ [Next]_vars => DrainLifted'
<1> SUFFICES ASSUME SlotsInv, DrainLifted, [Next]_vars, process' = "draining"
             PROVE  ~isEnabled'
  BY DEF DrainLifted
<1>1. CASE disable
  BY <1>1 DEF disable
<1>2. CASE ~disable
  <2>1. process = "draining" /\ ~isEnabled
    BY <1>2, StepUses DEF DrainLifted
  <2> QED
    BY <2>1, StepUses, LiftedIsStill DEF ccVars
<1> QED
  BY <1>1, <1>2

(* How a call leaves its place in line, and how it comes to be removed. *)
QueuedStays(c) ==
    /\ run[c].pc = "queued" => run'[c].pc \in {"queued", "removed"} \/ LetThrough(c)
    /\ run'[c].pc = "removed" => run[c].pc = "removed" \/ Dropped(c)

(* It is let through, taken out by a stop, or gone with the process.       *)
LEMMA QueuedMoves ==
    ASSUME SlotsInv, [Next]_vars, NEW c \in Calls
    PROVE  QueuedStays(c) \/ NewProcess
<1>0. run \in [Calls -> Call]
  BY DEF SlotsInv, Typed
<1>1. ASSUME run'[c] = run[c]
      PROVE  QueuedStays(c)
  BY <1>1 DEF QueuedStays
<1>2. ASSUME NEW pc, NEW d \in Calls, Goto(d, pc), pc # "removed",
             d = c /\ run[c].pc = "queued" => LetThrough(c)
      PROVE  QueuedStays(c)
  <2>1. CASE d = c
    <3>1. run'[c].pc = pc
      BY <1>0, <1>2, <2>1 DEF Goto, Call
    <3> QED
      BY <1>2, <2>1, <3>1 DEF QueuedStays
  <2>2. CASE d # c
    BY <1>0, <1>1, <1>2, <2>2 DEF Goto
  <2> QED
    BY <2>1, <2>2
<1>3. ASSUME NEW d \in Calls, Step(d)
      PROVE  QueuedStays(c)
  <2>1. CASE Arrive(d)
    BY <1>2, <2>1 DEF Arrive
  <2>2. CASE LetThrough(d)
    BY <1>2, <2>2 DEF LetThrough
  <2>3. CASE AdmitNew(d) \/ Claim(d) \/ Register(d) \/ FailCredentials(d) \/ PrepareRun(d)
    <3>1. PICK pc \in {"claimed", "refused", "registered", "failed", "threw", "prepared"} :
             Goto(d, pc)
      BY <2>3 DEF AdmitNew, Claim, Register, FailCredentials, PrepareRun
    <3>2. run[d].pc # "queued"
      BY <2>3 DEF AdmitNew, Claim, Register, FailCredentials, PrepareRun
    <3> QED
      BY <1>2, <3>1, <3>2
  <2>4. CASE GoToWait(d) \/ SaveRun(d) \/ Finalize(d) \/ EngineThrows(d) \/ SaveError(d)
    <3>1. PICK pc \in {"toWait", "saved", "done", "erring", "threw"} : Goto(d, pc)
      BY <2>4 DEF GoToWait, SaveRun, Finalize, EngineThrows, SaveError
    <3>2. run[d].pc # "queued"
      BY <2>4 DEF GoToWait, SaveRun, Finalize, EngineThrows, SaveError
    <3> QED
      BY <1>2, <3>1, <3>2
  <2>5. CASE StartEngine(d) \/ EndRun(d)
    <3>1. /\ \A f \in Calls : f # d => run'[f] = run[f]
          /\ run'[d].pc \in {"running", "saving", "saved"}
          /\ run[d].pc # "queued"
      BY <1>0, <2>5 DEF StartEngine, EndRun, Call
    <3> QED
      BY <1>1, <3>1 DEF QueuedStays
  <2>6. CASE CancelSave(d)
    BY <1>1, <2>6 DEF CancelSave
  <2> QED
    BY <1>3, <2>1, <2>2, <2>3, <2>4, <2>5, <2>6 DEF Step
<1>4. ASSUME NEW d \in Calls, Timeout(d)
      PROVE  QueuedStays(c)
  BY <1>1, <1>4 DEF Timeout
<1>5. ASSUME NEW d \in Calls, NEW e \in Executions,
             \/ CreateExecution(d, e)
             \/ TimerFires(d, e)
             \/ WebhookResume(d, e)
             \/ RunEnqueued(d, e)
      PROVE  QueuedStays(c)
  <2>1. CASE UNCHANGED run
    BY <1>1, <2>1
  <2>2. ASSUME NEW kind, At(d, "idle"), Ask(d, e, kind)
        PROVE  QueuedStays(c)
    <3>1. CASE d = c
      <4>1. run'[c].pc = "arriving"
        BY <1>0, <2>2, <3>1 DEF Ask, IdleCall
      <4> QED
        BY <2>2, <3>1, <4>1 DEF QueuedStays
    <3>2. CASE d # c
      BY <1>0, <1>1, <2>2, <3>2 DEF Ask
    <3> QED
      BY <3>1, <3>2
  <2> QED
    BY <1>5, <2>1, <2>2 DEF CreateExecution, TimerFires, WebhookResume, RunEnqueued
<1>6. ASSUME NEW e \in Executions,
             StopRead(e) \/ StopAct(e) \/ StopWrite(e) \/ PollWaiting(e)
      PROVE  QueuedStays(c)
  <2>1. CASE UNCHANGED run
    BY <1>1, <2>1
  <2>2. CASE DropRemoved
    <3>1. CASE Dropped(c)
      <4>1. run'[c].pc = "removed"
        BY <1>0, <2>2, <3>1 DEF DropRemoved, Call
      <4> QED
        BY <3>1, <4>1 DEF QueuedStays
    <3>2. CASE ~Dropped(c)
      BY <1>1, <2>2, <3>2 DEF DropRemoved
    <3> QED
      BY <3>1, <3>2
  <2> QED
    BY <1>6, <2>1, <2>2 DEF StopRead, StopAct, StopWrite, PollWaiting
<1>7. CASE BeginShutdown \/ Drain \/ UNCHANGED vars
  BY <1>1, <1>7 DEF BeginShutdown, Drain, vars, execVars
<1>8. CASE Exit \/ Crash
  BY <1>8 DEF Exit, Crash
<1> QED
  BY <1>3, <1>4, <1>5, <1>6, <1>7, <1>8 DEF Next

(* During shutdown a throttled call stays throttled, or is stopped.        *)
LEMMA ThrottledStay ==
    ASSUME SlotsInv, DrainLifted, [Next]_vars,
           process = "draining", process' = "draining",
           NEW c \in Calls, Throttled(c)
    PROVE  Throttled(c)' \/ At(c, "removed")'
<1>1. UNCHANGED ccVars
  BY StepUses, LiftedIsStill DEF DrainLifted
<1>2. ~LetThrough(c)
  BY DEF Throttled, LetThrough
<1>3. ~NewProcess
  BY DEF NewProcess
<1>4. run'[c].pc \in {"queued", "removed"}
  BY <1>2, <1>3, QueuedMoves DEF QueuedStays, Throttled
<1> QED
  BY <1>1, <1>4 DEF Throttled, ccVars

(* Lifting the limit at shutdown lets no throttled execution through: what *)
(* releases a slot from then on resolves nobody's promise.                 *)
THEOREM ShutdownResumesNobody == Spec => ThrottledStayDuringShutdown
<1>1. Init => DrainLifted
  BY DEF Init, DrainLifted
<1>2. SlotsInv /\ DrainLifted /\ [Next]_vars =>
         [process = "draining" /\ process' = "draining" =>
             \A c \in Calls : Throttled(c) => Throttled(c)' \/ At(c, "removed")']_vars
  BY ThrottledStay
<1> QED
  BY <1>1, <1>2, DrainStaysLifted, SlotsAlways, PTL DEF Spec, ThrottledStayDuringShutdown

(* Who was taken out of line holds no slot and is never given one.         *)
RemovedIsGone ==
    \A c \in Calls : At(c, "removed") => \A t \in QueueTypes : c \notin holders[t]

(* The service gives slots only to calls in line and to those that ask.    *)
LEMMA HoldersCome ==
    ASSUME SlotsInv, [Next]_vars, NEW t \in QueueTypes, NEW c \in Calls, c \in holders'[t]
    PROVE  c \in holders[t] \/ Queued(t, c) \/ At(c, "arriving")
<1>1. CASE UNCHANGED ccVars
  BY <1>1 DEF ccVars
<1>2. ASSUME NEW gone, Shrinks(gone)
      PROVE  c \in holders[t] \/ Queued(t, c)
  BY <1>2 DEF Shrinks
<1>3. CASE Releases
  BY <1>2, <1>3, ReleaseShrinks DEF Releases, SlotsInv
<1>4. CASE Removes
  BY <1>2, <1>4, RemoveShrinks DEF Removes, SlotsInv
<1>5. CASE disable \/ restart
  BY <1>5 DEF disable, restart
<1>6. ASSUME NEW d \in Calls, Arrive(d)
      PROVE  c \in holders[t] \/ Queued(t, c) \/ At(c, "arriving")
  <2> DEFINE item == [executionId |-> run[d].exec, call |-> d]
             mode == ModeOf[run[d].exec]
  <2>1. /\ run[d].pc = "arriving" /\ throttle(mode, item)
        /\ item \in Item /\ item.call = d
    BY <1>6 DEF Arrive, SlotsInv, Typed, Item
  <2>2. CASE ~isEnabled \/ isUnlimited(mode)
    BY <1>1, <2>1, <2>2 DEF throttle
  <2>3. CASE isEnabled /\ ~isUnlimited(mode)
    <3>1. PICK u \in getQueue(mode) : enqueue(u, item)
      BY <2>1, <2>3 DEF throttle
    <3>2. u \in QueueTypes
      BY <3>1, ModeHasOneQueue
    <3> HIDE DEF item, mode
    <3>3. c \in holders[t] \/ c = d
      BY <2>1, <3>1, <3>2, EnqueuedEffect
    <3> QED
      BY <2>1, <3>3
  <2> QED
    BY <2>2, <2>3
<1> QED
  BY <1>1, <1>3, <1>4, <1>5, <1>6, StepUses DEF HowItIsUsed

(* So a removed call never comes by a slot. *)
LEMMA RemovedStaysGone == SlotsInv /\ RemovedIsGone /\ [Next]_vars => RemovedIsGone'
<1> SUFFICES ASSUME SlotsInv, RemovedIsGone, [Next]_vars, NEW c \in Calls,
                    run'[c].pc = "removed", NEW t \in QueueTypes
             PROVE  c \notin holders'[t]
  BY DEF RemovedIsGone
<1>1. CASE NewProcess
  BY <1>1 DEF NewProcess, restart
<1>2. CASE Dropped(c)
  BY <1>2 DEF Dropped
<1>3. CASE run[c].pc = "removed"
  <2>1. c \notin holders[t] /\ ~Queued(t, c)
    BY <1>3 DEF RemovedIsGone, SlotsInv, WaitersQueued
  <2> QED
    BY <1>3, <2>1, HoldersCome
<1> QED
  BY <1>1, <1>2, <1>3, QueuedMoves DEF QueuedStays

(* A new execution that is stopped in line is run by nobody, neither by the *)
(* call that waited, which has no slot, nor by another one, since nobody    *)
(* else knows of an execution that has not run.                             *)
THEOREM StoppedInLineNeverRuns == Spec => []RemovedNeverRuns
<1>1. Init => RemovedIsGone
  BY DEF Init, IdleCall, RemovedIsGone
<1>2. IInv /\ SlotsInv /\ RemovedIsGone => RemovedNeverRuns
  <2> SUFFICES ASSUME IInv, SlotsInv, RemovedIsGone, NEW c \in Calls, NEW d \in Calls,
                      At(c, "removed"), run[c].kind = "new", exec(d) = exec(c)
               PROVE  ~Owns(d) /\ \A t \in QueueTypes : d \notin holders[t]
    BY DEF RemovedNeverRuns
  <2>1. CASE d = c
    BY <2>1 DEF RemovedIsGone, Owns
  <2>2. CASE d # c
    <3>1. Alone(c)
      BY DEF IInv, FreshIsAlone, Fresh, FreshPC
    <3>2. run[d].pc = "idle"
      BY <2>2, <3>1 DEF Alone
    <3> QED
      BY <3>2 DEF Owns, SlotsInv, HoldersAsked
  <2> QED
    BY <2>1, <2>2
<1> QED
  BY <1>1, <1>2, RemovedStaysGone, SlotsAlways, InitEstablishes, NextKeeps, PTL DEF Spec
-----------------------------------------------------------------------------
(* The types of what is left: the process and the sets of executions. *)
RestTyped ==
    /\ process \in {"up", "stopping", "draining"}
    /\ restarts \in 0 .. MaxRestarts
    /\ waitTill \subseteq Executions
    /\ overlooked \subseteq Executions
    /\ enqueued \subseteq Executions
    /\ timers \subseteq Executions

(* They are kept. *)
LEMMA RestStaysTyped == IInv /\ RestTyped /\ [Next]_vars => RestTyped'
<1> SUFFICES ASSUME IInv, RestTyped, [Next]_vars
             PROVE  RestTyped'
  OBVIOUS
<1>1. CASE UNCHANGED <<process, restarts, overlooked, waitTill, enqueued, timers>>
  BY <1>1 DEF RestTyped
<1>2. ASSUME NEW c \in Calls, Step(c) \/ Timeout(c)
      PROVE  RestTyped'
  <2>1. CASE Claim(c) \/ SaveRun(c)
    <3>1. exec(c) \in Executions
      BY <2>1 DEF Claim, SaveRun, IInv, CallsOK
    <3> QED
      BY <2>1, <3>1 DEF Claim, SaveRun, RestTyped
  <2>2. CASE \/ Arrive(c) \/ LetThrough(c) \/ AdmitNew(c) \/ Register(c)
             \/ FailCredentials(c) \/ PrepareRun(c) \/ StartEngine(c)
    BY <1>1, <2>2 DEF Arrive, LetThrough, AdmitNew, Register, FailCredentials, PrepareRun,
                      StartEngine
  <2>3. CASE \/ GoToWait(c) \/ EndRun(c) \/ CancelSave(c) \/ Finalize(c) \/ Timeout(c)
             \/ EngineThrows(c) \/ SaveError(c)
    BY <1>1, <2>3 DEF GoToWait, EndRun, CancelSave, Finalize, Timeout, EngineThrows, SaveError
  <2> QED
    BY <1>2, <2>1, <2>2, <2>3 DEF Step
<1>3. ASSUME NEW c \in Calls, NEW e \in Executions,
             \/ CreateExecution(c, e)
             \/ TimerFires(c, e)
             \/ WebhookResume(c, e)
             \/ RunEnqueued(c, e)
      PROVE  RestTyped'
  BY <1>3 DEF CreateExecution, TimerFires, WebhookResume, RunEnqueued, RestTyped
<1>4. ASSUME NEW e \in Executions,
             StopRead(e) \/ StopAct(e) \/ StopWrite(e) \/ PollWaiting(e)
      PROVE  RestTyped'
  BY <1>4 DEF StopRead, StopAct, StopWrite, PollWaiting, RestTyped
<1>5. CASE BeginShutdown \/ Drain
  BY <1>5 DEF BeginShutdown, Drain, RestTyped
<1>6. CASE Exit \/ Crash
  <2>1. NewProcess
    BY <1>6 DEF Exit, Crash
  <2>2. /\ restarts < MaxRestarts /\ restarts' = restarts + 1 /\ process' = "up"
        /\ overlooked' \in SUBSET {e \in StartLogged : db[e] = "running"}
        /\ enqueued' = {e \in Executions : db[e] = "new"}
        /\ timers' = {} /\ waitTill' = waitTill
    BY <2>1 DEF NewProcess
  <2>3. StartLogged \subseteq Executions
    BY DEF StartLogged
  <2>4. restarts' \in 0 .. MaxRestarts
    BY <2>2, ModeAssumption DEF RestTyped
  <2> QED
    BY <2>2, <2>3, <2>4 DEF RestTyped
<1>7. CASE UNCHANGED vars
  BY <1>1, <1>7 DEF vars, execVars
<1> QED
  BY <1>2, <1>3, <1>4, <1>5, <1>6, <1>7 DEF Next

(* Every variable keeps its type: rows, entries, calls and lines are what  *)
(* the code can make of them.                                              *)
THEOREM ModeTypes == Spec => []TypeOK
<1>1. Init => RestTyped
  BY ModeAssumption DEF Init, RestTyped
<1>2. IInv /\ RowsInv /\ SlotsInv /\ RestTyped => TypeOK
  BY DEF IInv, CallsOK, RowsInv, CanceledIsWritten, SlotsInv, CCInv, Typed, RestTyped, TypeOK
<1> QED
  BY <1>1, <1>2, RestStaysTyped, SlotsAlways, InitEstablishes, NextKeeps, InitRows, RowsNext,
     PTL DEF Spec
=============================================================================
