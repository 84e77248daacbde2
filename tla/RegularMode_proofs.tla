------------------------- MODULE RegularMode_proofs -------------------------
(***************************************************************************)
(* Proofs about RegularMode, for any number of calls and executions and    *)
(* any number of restarts: one call runs an execution at a time, and no    *)
(* row is left running.                                                    *)
(*                                                                         *)
(* The status column is what keeps two resuming calls apart: as long as a  *)
(* call owns an execution its row is not waiting, and a row that is not    *)
(* waiting cannot be claimed.  A new execution is not guarded by its row:  *)
(* what keeps others from it is that nothing else knows its id yet.        *)
(***************************************************************************)
EXTENDS RegularMode, TLAPS

(* The calls in progress have an execution. *)
CallsOK ==
    /\ run \in [Calls -> Call]
    /\ db \in [Executions -> Status]
    /\ \A c \in Calls : run[c].pc # "idle" => exec(c) \in Executions

(* A row is never waiting while a call owns its execution. *)
OwnedIsNotWaiting == \A c \in Calls : Owns(c) => db[exec(c)] # "waiting"

(* Nobody but a call that is creating it can refer to the execution. *)
Unknown(e) == e \notin waitTill /\ e \notin timers /\ e \notin enqueued

(* A call on its way to being let through for the first time. *)
FreshPC == {"arriving", "queued", "admitted", "removed"}
Fresh(c) == run[c].kind = "new" /\ run[c].pc \in FreshPC

(* Nothing but the call itself has to do with its execution. *)
Alone(c) ==
    /\ db[exec(c)] \in {"new", "canceled"}
    /\ Unknown(exec(c))
    /\ \A d \in Calls \ {c} : run[d].pc # "idle" => exec(d) # exec(c)

FreshIsAlone == \A c \in Calls : Fresh(c) => Alone(c)

(* Nothing refers to an execution that does not exist. *)
NoRowNoCall ==
    \A e \in Executions :
        db[e] = "none" =>
            /\ Unknown(e)
            /\ \A c \in Calls : run[c].pc # "idle" => exec(c) # e

IInv ==
    /\ CallsOK
    /\ OneEnginePerExecution
    /\ OwnedIsNotWaiting
    /\ FreshIsAlone
    /\ NoRowNoCall

USE DEF exec, At
-----------------------------------------------------------------------------
(* An idle call is a call. *)
LEMMA IdleIsCall == IdleCall \in Call
  BY DEF IdleCall, Call, PC, Outcomes

(* Nothing exists at first. *)
LEMMA InitEstablishes == Init => IInv
<1> SUFFICES ASSUME Init
             PROVE  IInv
  OBVIOUS
<1>1. /\ \A c \in Calls : run[c] = IdleCall
      /\ \A e \in Executions : db[e] = "none" /\ Unknown(e)
  BY DEF Init, Unknown
<1>2. IdleCall.pc = "idle"
  BY DEF IdleCall
<1>3. CallsOK
  BY <1>1, <1>2, IdleIsCall DEF Init, CallsOK, Status
<1>4. OneEnginePerExecution /\ OwnedIsNotWaiting /\ FreshIsAlone /\ NoRowNoCall
  BY <1>1, <1>2 DEF OneEnginePerExecution, OwnedIsNotWaiting, Owns, FreshIsAlone,
                    Fresh, FreshPC, NoRowNoCall
<1> QED
  BY <1>3, <1>4 DEF IInv

(* A call in progress changes, and stays a call of the same execution.     *)
Moves(c) ==
    /\ run[c].pc # "idle" /\ run'[c].pc # "idle"
    /\ run' \in [Calls -> Call]
    /\ \A d \in Calls : d # c => run'[d] = run[d]
    /\ run'[c].exec = run[c].exec /\ run'[c].kind = run[c].kind

(* Such a call may write the row of its own execution and change whether   *)
(* its waitTill is set.  It may become an owner if nobody else is.         *)
LEMMA CallMoves ==
    ASSUME IInv, NEW c \in Calls, Moves(c),
           Owns(c)' => /\ \A d \in Calls \ {c} : Owns(d) => exec(d) # exec(c)
                       /\ db'[exec(c)] # "waiting",
           Fresh(c)' => Fresh(c) /\ UNCHANGED <<db, waitTill>>,
           db' \in [Executions -> Status],
           \A e \in Executions : e # exec(c) => db'[e] = db[e],
           db'[exec(c)] # "none",
           db'[exec(c)] = "waiting" => Owns(c) \/ db[exec(c)] = "waiting",
           \A e \in Executions : e # exec(c) /\ e \in waitTill' => e \in waitTill,
           UNCHANGED <<timers, enqueued>>
    PROVE  IInv'
<1>1. /\ exec(c) \in Executions /\ run[c].pc # "idle"
      /\ \A d \in Calls : d # c => run'[d] = run[d]
      /\ \A d \in Calls : run'[d].exec = run[d].exec /\ run'[d].kind = run[d].kind
      /\ \A d \in Calls : run'[d].pc = "idle" <=> run[d].pc = "idle"
  BY DEF IInv, CallsOK, Moves
<1>2. CallsOK'
  BY <1>1 DEF IInv, CallsOK, Moves
<1>3. OneEnginePerExecution'
  BY <1>1 DEF IInv, OneEnginePerExecution, Owns
<1>4. OwnedIsNotWaiting'
  <2> SUFFICES ASSUME NEW d \in Calls, Owns(d)'
               PROVE  db'[run'[d].exec] # "waiting"
    BY DEF OwnedIsNotWaiting
  <2>1. CASE d = c
    BY <2>1, <1>1 DEF Owns
  <2>2. CASE d # c
    <3>1. /\ Owns(d) /\ db[exec(d)] # "waiting" /\ exec(d) \in Executions
          /\ exec(d) = exec(c) => ~Owns(c)
      BY <2>2, <1>1 DEF IInv, CallsOK, OneEnginePerExecution, OwnedIsNotWaiting, Owns
    <3> QED
      BY <3>1, <1>1
  <2> QED
    BY <2>1, <2>2
<1>5. FreshIsAlone'
  <2> SUFFICES ASSUME NEW d \in Calls, Fresh(d)'
               PROVE  Alone(d)'
    BY DEF FreshIsAlone
  <2>1. Fresh(d) /\ exec(d) \in Executions
    BY <1>1 DEF Fresh, FreshPC, IInv, CallsOK
  <2>2. Alone(d)
    BY <2>1 DEF IInv, FreshIsAlone
  <2>3. CASE d = c
    <3>1. UNCHANGED <<db, waitTill, timers, enqueued>>
      BY <2>3
    <3> QED
      BY <3>1, <2>2, <2>3, <1>1 DEF Alone, Unknown
  <2>4. CASE d # c
    BY <2>1, <2>2, <2>4, <1>1 DEF Alone, Unknown
  <2> QED
    BY <2>3, <2>4
<1>6. NoRowNoCall'
  BY <1>1 DEF IInv, NoRowNoCall, Unknown
<1> QED
  BY <1>2, <1>3, <1>4, <1>5, <1>6 DEF IInv

(* An idle call is asked to resume an execution, or to run an enqueued one. *)
LEMMA AskKeeps ==
    ASSUME IInv, NEW c \in Calls, NEW e \in Executions, NEW kind \in {"resume", "boot"},
           At(c, "idle"), Ask(c, e, kind),
           db[e] # "none",
           \A d \in Calls : Fresh(d) => exec(d) # e,
           UNCHANGED <<db, waitTill>>,
           timers' \subseteq timers, enqueued' \subseteq enqueued
    PROVE  IInv'
<1> DEFINE r == [IdleCall EXCEPT !.pc = "arriving", !.exec = e, !.kind = kind]
<1>0. r \in Call /\ r.exec = e /\ r.pc = "arriving" /\ r.kind = kind
  BY DEF IdleCall, Call, PC, Outcomes
<1> HIDE DEF r
<1>1. /\ run'[c] = r
      /\ run' \in [Calls -> Call]
      /\ \A d \in Calls : d # c => run'[d] = run[d]
  BY <1>0 DEF Ask, IInv, CallsOK, r
<1>2. CallsOK'
  BY <1>0, <1>1 DEF IInv, CallsOK
<1>3. OneEnginePerExecution' /\ OwnedIsNotWaiting'
  BY <1>0, <1>1 DEF IInv, OneEnginePerExecution, OwnedIsNotWaiting, Owns
<1>4. FreshIsAlone'
  <2> SUFFICES ASSUME NEW d \in Calls, Fresh(d)'
               PROVE  Alone(d)'
    BY DEF FreshIsAlone
  <2>1. d # c /\ Fresh(d) /\ run'[d] = run[d] /\ exec(d) # e
    BY <1>0, <1>1 DEF Fresh
  <2>2. Alone(d)
    BY <2>1 DEF IInv, FreshIsAlone
  <2> QED
    BY <2>1, <2>2, <1>0, <1>1 DEF Alone, Unknown
<1>5. NoRowNoCall'
  BY <1>0, <1>1 DEF IInv, NoRowNoCall, Unknown
<1> QED
  BY <1>2, <1>3, <1>4, <1>5 DEF IInv

(* An idle call inserts the row of an execution that does not exist yet.   *)
LEMMA CreateKeeps ==
    ASSUME IInv, NEW c \in Calls, NEW e \in Executions, CreateExecution(c, e)
    PROVE  IInv'
<1> DEFINE r == [IdleCall EXCEPT !.pc = "arriving", !.exec = e, !.kind = "new"]
<1>0. r \in Call /\ r.exec = e /\ r.pc = "arriving" /\ r.kind = "new"
  BY DEF IdleCall, Call, PC, Outcomes
<1> HIDE DEF r
<1>1. /\ run'[c] = r
      /\ run' \in [Calls -> Call]
      /\ \A d \in Calls : d # c => run'[d] = run[d]
      /\ run[c].pc = "idle" /\ db[e] = "none"
      /\ db' = [db EXCEPT ![e] = "new"]
      /\ UNCHANGED <<waitTill, timers, enqueued>>
  BY <1>0 DEF CreateExecution, Ask, IInv, CallsOK, r
<1>2. CallsOK'
  BY <1>0, <1>1 DEF IInv, CallsOK, Status
<1>3. Unknown(e) /\ \A d \in Calls : run[d].pc # "idle" => exec(d) # e
  BY <1>1 DEF IInv, NoRowNoCall
<1>4. \A f \in Executions : f # e => db'[f] = db[f]
  BY <1>1 DEF IInv, CallsOK
<1>5. db'[e] = "new"
  BY <1>1 DEF IInv, CallsOK
<1>6. OneEnginePerExecution' /\ OwnedIsNotWaiting'
  BY <1>0, <1>1, <1>3, <1>4 DEF IInv, CallsOK, OneEnginePerExecution, OwnedIsNotWaiting, Owns
<1>7. FreshIsAlone'
  <2> SUFFICES ASSUME NEW d \in Calls, Fresh(d)'
               PROVE  Alone(d)'
    BY DEF FreshIsAlone
  <2>1. CASE d = c
    BY <2>1, <1>0, <1>1, <1>3, <1>5 DEF Alone, Unknown
  <2>2. CASE d # c
    <3>1. Fresh(d) /\ Alone(d) /\ exec(d) # e /\ exec(d) \in Executions
      BY <2>2, <1>1, <1>3 DEF IInv, CallsOK, FreshIsAlone, Fresh, FreshPC
    <3> QED
      BY <3>1, <2>2, <1>0, <1>1, <1>4 DEF Alone, Unknown
  <2> QED
    BY <2>1, <2>2
<1>8. NoRowNoCall'
  BY <1>0, <1>1, <1>3, <1>4, <1>5 DEF IInv, NoRowNoCall, Unknown
<1> QED
  BY <1>2, <1>6, <1>7, <1>8 DEF IInv

(* No call moves, but for those a stop takes out of line; rows may be      *)
(* canceled, and timers armed for waiting executions.                      *)
LEMMA CallsStay ==
    ASSUME IInv,
           run' \in [Calls -> Call],
           \A d \in Calls :
              /\ run'[d].exec = run[d].exec
              /\ run'[d].kind = run[d].kind
              /\ run'[d].pc = run[d].pc \/ (run[d].pc = "queued" /\ run'[d].pc = "removed"),
           db' \in [Executions -> Status],
           \A e \in Executions : db'[e] = db[e] \/ db'[e] = "canceled",
           waitTill' \subseteq waitTill,
           timers' \subseteq timers \cup waitTill,
           UNCHANGED enqueued
    PROVE  IInv'
<1>1. CallsOK'
  BY DEF IInv, CallsOK
<1>2. \A d \in Calls : (Owns(d)' <=> Owns(d)) /\ (Fresh(d)' <=> Fresh(d))
  BY DEF Owns, Fresh, FreshPC
<1>3. OneEnginePerExecution'
  BY <1>2 DEF IInv, OneEnginePerExecution
<1>4. OwnedIsNotWaiting'
  <2> SUFFICES ASSUME NEW d \in Calls, Owns(d)'
               PROVE  db'[run'[d].exec] # "waiting"
    BY DEF OwnedIsNotWaiting
  <2>1. Owns(d) /\ run[d].exec \in Executions /\ db[run[d].exec] # "waiting"
    BY <1>2 DEF IInv, CallsOK, OwnedIsNotWaiting, Owns
  <2> QED
    BY <2>1
<1>5. FreshIsAlone'
  <2> SUFFICES ASSUME NEW d \in Calls, Fresh(d)'
               PROVE  Alone(d)'
    BY DEF FreshIsAlone
  <2>1. Alone(d) /\ exec(d) \in Executions
    BY <1>2 DEF IInv, CallsOK, FreshIsAlone, Fresh, FreshPC
  <2> QED
    BY <2>1 DEF Alone, Unknown
<1>6. NoRowNoCall'
  BY DEF IInv, NoRowNoCall, Unknown
<1> QED
  BY <1>1, <1>3, <1>4, <1>5, <1>6 DEF IInv

(* A fresh process has idle calls only. *)
LEMMA NewProcessKeeps ==
    ASSUME IInv, NewProcess
    PROVE  IInv'
<1>1. /\ \A c \in Calls : run'[c] = IdleCall
      /\ run' = [c \in Calls |-> IdleCall]
      /\ db' \in [Executions -> Status]
      /\ \A e \in Executions : db'[e] = db[e] \/ (db[e] = "running" /\ db'[e] = "crashed")
      /\ timers' = {} /\ enqueued' = {e \in Executions : db[e] = "new"}
      /\ waitTill' = waitTill
  BY DEF NewProcess, IInv, CallsOK, Status
<1>2. IdleCall.pc = "idle"
  BY DEF IdleCall
<1>3. CallsOK'
  BY <1>1, <1>2, IdleIsCall DEF CallsOK
<1>4. OneEnginePerExecution' /\ OwnedIsNotWaiting' /\ FreshIsAlone'
  BY <1>1, <1>2 DEF OneEnginePerExecution, OwnedIsNotWaiting, Owns, FreshIsAlone, Fresh,
                    FreshPC
<1>5. NoRowNoCall'
  BY <1>1, <1>2 DEF IInv, NoRowNoCall, Unknown
<1> QED
  BY <1>3, <1>4, <1>5 DEF IInv

(* The ways in which a call moves. *)
LEMMA BecomeMoves ==
    ASSUME IInv, NEW c \in Calls, NEW r \in Call, ~At(c, "idle"), r.pc # "idle",
           r.exec = run[c].exec, r.kind = run[c].kind,
           run' = [run EXCEPT ![c] = r]
    PROVE  Moves(c) /\ run'[c] = r
  BY DEF Moves, IInv, CallsOK

(* A call that goes to another place moves. *)
LEMMA GotoMoves ==
    ASSUME IInv, NEW c \in Calls, NEW pc \in PC \ {"idle"}, ~At(c, "idle"), Goto(c, pc)
    PROVE  Moves(c) /\ run'[c].pc = pc
<1> DEFINE r == [run[c] EXCEPT !.pc = pc]
<1>1. r \in Call /\ r.pc = pc /\ r.exec = run[c].exec /\ r.kind = run[c].kind
  BY DEF IInv, CallsOK, Call
<1>2. run' = [run EXCEPT ![c] = r]
  BY DEF Goto, IInv, CallsOK
<1>3. r.pc # "idle"
  BY <1>1
<1> HIDE DEF r
<1> QED
  BY <1>1, <1>2, <1>3, BecomeMoves

(* A call that moves on without a write, and neither becomes an owner nor  *)
(* starts over.                                                            *)
LEMMA QuietKeeps ==
    ASSUME IInv, NEW c \in Calls, Moves(c),
           Owns(c)' => Owns(c),
           Fresh(c)' => Fresh(c),
           UNCHANGED <<db, waitTill, timers, enqueued>>
    PROVE  IInv'
<1>1. exec(c) \in Executions
  BY DEF IInv, CallsOK, Moves
<1>2. Owns(c)' => /\ \A d \in Calls \ {c} : Owns(d) => exec(d) # exec(c)
                  /\ db'[exec(c)] # "waiting"
  <2> SUFFICES ASSUME Owns(c)'
               PROVE  /\ \A d \in Calls \ {c} : Owns(d) => exec(d) # exec(c)
                      /\ db[exec(c)] # "waiting"
    OBVIOUS
  <2>1. Owns(c)
    OBVIOUS
  <2> QED
    BY <2>1 DEF IInv, OneEnginePerExecution, OwnedIsNotWaiting
<1>3. db[exec(c)] # "none" /\ db \in [Executions -> Status]
  BY <1>1 DEF IInv, CallsOK, NoRowNoCall, Moves
<1> QED
  BY <1>1, <1>2, <1>3, CallMoves

(* Such a call neither becomes an owner nor starts over. *)
LEMMA GotoKeeps ==
    ASSUME IInv, NEW c \in Calls, NEW pc \in PC \ {"idle"}, ~At(c, "idle"), Goto(c, pc),
           Owns(c)' => Owns(c),
           Fresh(c)' => Fresh(c),
           UNCHANGED <<db, waitTill, timers, enqueued>>
    PROVE  IInv'
  BY GotoMoves, QuietKeeps

(* A call that writes another status than waiting into its row.            *)
LEMMA WriteKeeps ==
    ASSUME IInv, NEW c \in Calls, Moves(c), NEW status \in Status \ {"none", "waiting"},
           db' = [db EXCEPT ![exec(c)] = status],
           Owns(c)' => \A d \in Calls \ {c} : Owns(d) => exec(d) # exec(c),
           ~Fresh(c)',
           waitTill' \subseteq waitTill,
           UNCHANGED <<timers, enqueued>>
    PROVE  IInv'
<1>1. exec(c) \in Executions
  BY DEF Moves, IInv, CallsOK
<1>2. /\ db' \in [Executions -> Status]
      /\ db'[exec(c)] = status
      /\ \A e \in Executions : e # exec(c) => db'[e] = db[e]
  BY <1>1 DEF IInv, CallsOK
<1> QED
  BY <1>1, <1>2, CallMoves

(* An owner shares its execution with no other owner. *)
LEMMA OwnerIsAlone ==
    ASSUME IInv, NEW c \in Calls, Owns(c)
    PROVE  \A d \in Calls \ {c} : Owns(d) => exec(d) # exec(c)
  BY DEF IInv, OneEnginePerExecution

(* Nor does a call that is fresh, or whose row is waiting.                 *)
LEMMA NobodyOwns ==
    ASSUME IInv, NEW c \in Calls, Fresh(c) \/ db[exec(c)] = "waiting"
    PROVE  \A d \in Calls \ {c} : Owns(d) => exec(d) # exec(c)
<1>1. CASE Fresh(c)
  BY <1>1 DEF IInv, FreshIsAlone, Alone, Owns
<1>2. CASE db[exec(c)] = "waiting"
  BY <1>2 DEF IInv, OwnedIsNotWaiting
<1> QED
  BY <1>1, <1>2

(* Each step of a call keeps the invariant. *)
LEMMA StepKeeps ==
    ASSUME IInv, NEW c \in Calls, Step(c)
    PROVE  IInv'
<1>0. exec(c) \in Executions \/ At(c, "idle")
  BY DEF IInv, CallsOK
<1>1. CASE Arrive(c)
  <2> DEFINE pc == IF LetsThrough(ModeOf[exec(c)]) THEN "admitted" ELSE "queued"
  <2>1. Goto(c, pc) /\ pc \in PC \ {"idle"} /\ ~At(c, "idle")
        /\ UNCHANGED <<db, waitTill, timers, enqueued>>
    BY <1>1 DEF Arrive, PC
  <2>2. run'[c].pc = pc /\ run'[c].kind = run[c].kind
    BY <2>1, GotoMoves DEF Moves
  <2>3. (Owns(c)' => Owns(c)) /\ (Fresh(c)' => Fresh(c))
    BY <1>1, <2>2 DEF Arrive, Owns, Fresh, FreshPC
  <2> HIDE DEF pc
  <2> QED
    BY <2>1, <2>3, GotoKeeps
<1>2. CASE LetThrough(c)
  <2>1. Goto(c, "admitted") /\ "admitted" \in PC \ {"idle"} /\ ~At(c, "idle")
        /\ UNCHANGED <<db, waitTill, timers, enqueued>>
    BY <1>2 DEF LetThrough, PC
  <2>2. run'[c].pc = "admitted" /\ run'[c].kind = run[c].kind
    BY <2>1, GotoMoves DEF Moves
  <2>3. (Owns(c)' => Owns(c)) /\ (Fresh(c)' => Fresh(c))
    BY <1>2, <2>2 DEF LetThrough, Owns, Fresh, FreshPC
  <2> QED
    BY <2>1, <2>3, GotoKeeps
<1>3. CASE AdmitNew(c)
  <2>1. /\ Goto(c, "claimed") /\ "claimed" \in PC \ {"idle"} /\ ~At(c, "idle")
        /\ db' = [db EXCEPT ![exec(c)] = "running"]
        /\ UNCHANGED <<waitTill, timers, enqueued>>
    BY <1>3 DEF AdmitNew, PC
  <2>2. Moves(c) /\ run'[c].pc = "claimed"
    BY <2>1, GotoMoves
  <2>3. Fresh(c) /\ ~Fresh(c)'
    BY <1>3, <2>2 DEF AdmitNew, Fresh, FreshPC
  <2>4. "running" \in Status \ {"none", "waiting"}
    BY DEF Status
  <2> QED
    BY <2>1, <2>2, <2>3, <2>4, NobodyOwns, WriteKeeps
<1>4. CASE Claim(c)
  <2>1. CASE db[exec(c)] = "waiting"
    <3>1. /\ Goto(c, "claimed") /\ "claimed" \in PC \ {"idle"} /\ ~At(c, "idle")
          /\ db' = [db EXCEPT ![exec(c)] = "running"]
          /\ waitTill' \subseteq waitTill
          /\ UNCHANGED <<timers, enqueued>>
      BY <1>4, <2>1 DEF Claim, PC
    <3>2. Moves(c) /\ run'[c].pc = "claimed"
      BY <3>1, GotoMoves
    <3>3. ~Fresh(c)'
      BY <3>2 DEF Fresh, FreshPC
    <3>4. "running" \in Status \ {"none", "waiting"}
      BY DEF Status
    <3> QED
      BY <2>1, <3>1, <3>2, <3>3, <3>4, NobodyOwns, WriteKeeps
  <2>2. CASE db[exec(c)] # "waiting"
    <3>1. /\ Goto(c, "refused") /\ "refused" \in PC \ {"idle"} /\ ~At(c, "idle")
          /\ UNCHANGED <<db, waitTill, timers, enqueued>>
      BY <1>4, <2>2 DEF Claim, PC
    <3>2. run'[c].pc = "refused"
      BY <3>1, GotoMoves
    <3>3. (Owns(c)' => Owns(c)) /\ ~Fresh(c)'
      BY <3>2 DEF Owns, Fresh, FreshPC
    <3> QED
      BY <3>1, <3>3, GotoKeeps
  <2> QED
    BY <2>1, <2>2
<1>5. CASE Register(c)
  <2>1. /\ Goto(c, "registered") /\ "registered" \in PC \ {"idle"} /\ ~At(c, "idle")
        /\ UNCHANGED <<db, waitTill, timers, enqueued>>
    BY <1>5 DEF Register, PC
  <2>2. run'[c].pc = "registered"
    BY <2>1, GotoMoves
  <2>3. (Owns(c)' => Owns(c)) /\ ~Fresh(c)'
    BY <1>5, <2>2 DEF Register, Owns, Fresh, FreshPC
  <2> QED
    BY <2>1, <2>3, GotoKeeps
<1>6. CASE FailCredentials(c)
  <2>1. PICK pc \in {"failed", "threw"} : Goto(c, pc)
    BY <1>6 DEF FailCredentials
  <2>2. /\ pc \in PC \ {"idle"} /\ ~At(c, "idle")
        /\ db' = [db EXCEPT ![exec(c)] = "error"] \/ UNCHANGED db
        /\ UNCHANGED <<waitTill, timers, enqueued>>
    BY <1>6 DEF FailCredentials, PC
  <2>3. Moves(c) /\ run'[c].pc = pc
    BY <2>1, <2>2, GotoMoves
  <2>4. ~Fresh(c)' /\ ~Owns(c)'
    BY <2>3 DEF Owns, Fresh, FreshPC
  <2>5. "error" \in Status \ {"none", "waiting"}
    BY DEF Status
  <2> QED
    BY <2>1, <2>2, <2>3, <2>4, <2>5, GotoKeeps, WriteKeeps
<1>7. CASE PrepareRun(c)
  <2>1. CASE Goto(c, "threw") /\ UNCHANGED db
    <3>1. /\ "threw" \in PC \ {"idle"} /\ ~At(c, "idle")
          /\ UNCHANGED <<waitTill, timers, enqueued>>
      BY <1>7 DEF PrepareRun, PC
    <3>2. run'[c].pc = "threw"
      BY <2>1, <3>1, GotoMoves
    <3>3. (Owns(c)' => Owns(c)) /\ ~Fresh(c)'
      BY <3>2 DEF Owns, Fresh, FreshPC
    <3> QED
      BY <2>1, <3>1, <3>3, GotoKeeps
  <2>2. CASE Goto(c, "prepared") /\ db' = [db EXCEPT ![exec(c)] = "running"]
    <3>1. /\ "prepared" \in PC \ {"idle"} /\ ~At(c, "idle") /\ Owns(c)
          /\ UNCHANGED <<waitTill, timers, enqueued>>
      BY <1>7 DEF PrepareRun, PC, Owns
    <3>2. Moves(c) /\ run'[c].pc = "prepared"
      BY <2>2, <3>1, GotoMoves
    <3>3. ~Fresh(c)' /\ "running" \in Status \ {"none", "waiting"}
      BY <3>2 DEF Fresh, FreshPC, Status
    <3> QED
      BY <2>2, <3>1, <3>2, <3>3, OwnerIsAlone, WriteKeeps
  <2> QED
    BY <1>7, <2>1, <2>2 DEF PrepareRun
<1>8. CASE StartEngine(c)
  <2> DEFINE r == [run[c] EXCEPT !.pc = "running", !.attached = active[exec(c)] # None]
  <2>1. /\ r \in Call /\ r.pc = "running" /\ r.exec = run[c].exec /\ r.kind = run[c].kind
        /\ run' = [run EXCEPT ![c] = r]
    BY <1>8 DEF StartEngine, IInv, CallsOK, Call, PC
  <2>2. Owns(c) /\ ~At(c, "idle") /\ UNCHANGED <<db, waitTill, timers, enqueued>>
    BY <1>8 DEF StartEngine, Owns
  <2> HIDE DEF r
  <2>3. Moves(c) /\ run'[c] = r
    BY <2>1, <2>2, BecomeMoves
  <2>4. ~Fresh(c)'
    BY <2>1, <2>3 DEF Fresh, FreshPC
  <2> QED
    BY <2>2, <2>3, <2>4, QuietKeeps
<1>9. CASE GoToWait(c)
  <2>1. /\ Goto(c, "toWait") /\ "toWait" \in PC \ {"idle"} /\ ~At(c, "idle")
        /\ UNCHANGED <<db, waitTill, timers, enqueued>>
    BY <1>9 DEF GoToWait, PC
  <2>2. run'[c].pc = "toWait"
    BY <2>1, GotoMoves
  <2>3. (Owns(c)' => Owns(c)) /\ ~Fresh(c)'
    BY <1>9, <2>2 DEF GoToWait, Owns, Fresh, FreshPC
  <2> QED
    BY <2>1, <2>3, GotoKeeps
<1>10. CASE EndRun(c)
  <2>1. PICK out \in Outcomes \cup {"waiting"}, pc \in {"saved", "saving"} :
           run' = [run EXCEPT ![c].out = out, ![c].pc = pc]
    BY <1>10 DEF EndRun, Outcomes
  <2> DEFINE r == [run[c] EXCEPT !.out = out, !.pc = pc]
  <2>2. /\ r \in Call /\ r.pc = pc /\ r.exec = run[c].exec /\ r.kind = run[c].kind
        /\ run' = [run EXCEPT ![c] = r]
    BY <2>1 DEF IInv, CallsOK, Call, PC
  <2>3. Owns(c) /\ ~At(c, "idle") /\ UNCHANGED <<db, waitTill, timers, enqueued>>
    BY <1>10 DEF EndRun, Owns
  <2> HIDE DEF r
  <2>4. Moves(c) /\ run'[c] = r
    BY <2>1, <2>2, <2>3, BecomeMoves
  <2>5. ~Fresh(c)'
    BY <2>1, <2>2, <2>4 DEF Fresh, FreshPC
  <2> QED
    BY <2>3, <2>4, <2>5, QuietKeeps
<1>11. CASE SaveRun(c)
  <2>1. /\ Goto(c, "saved") /\ "saved" \in PC \ {"idle"} /\ ~At(c, "idle") /\ Owns(c)
        /\ exec(c) \in Executions
        /\ db' = [db EXCEPT ![exec(c)] = run[c].out]
        /\ waitTill' \subseteq waitTill \cup {exec(c)}
        /\ UNCHANGED <<timers, enqueued>>
    BY <1>11, <1>0 DEF SaveRun, PC, Owns
  <2>2. Moves(c) /\ run'[c].pc = "saved"
    BY <2>1, GotoMoves
  <2>3. ~Owns(c)' /\ ~Fresh(c)'
    BY <2>2 DEF Owns, Fresh, FreshPC
  <2>4. run[c].out \in Status \ {"none"}
    BY DEF IInv, CallsOK, Call, Outcomes, Status
  <2>5. /\ db' \in [Executions -> Status]
        /\ db'[exec(c)] # "none"
        /\ \A e \in Executions : e # exec(c) => db'[e] = db[e]
    BY <2>1, <2>4 DEF IInv, CallsOK
  <2> QED
    BY <2>1, <2>2, <2>3, <2>5, CallMoves
<1>12. CASE CancelSave(c)
  <2>1. /\ run' = run /\ UNCHANGED <<waitTill, timers, enqueued>>
        /\ db' = [db EXCEPT ![exec(c)] = "canceled"]
    BY <1>12 DEF CancelSave
  <2>2. /\ db' \in [Executions -> Status]
        /\ \A e \in Executions : db'[e] = db[e] \/ db'[e] = "canceled"
    BY <2>1 DEF IInv, CallsOK, Status
  <2>3. run \in [Calls -> Call]
    BY DEF IInv, CallsOK
  <2> QED
    BY <2>1, <2>2, <2>3, CallsStay
<1>13. CASE Finalize(c)
  <2>1. /\ Goto(c, "done") /\ "done" \in PC \ {"idle"} /\ ~At(c, "idle")
        /\ UNCHANGED <<db, waitTill, timers, enqueued>>
    BY <1>13 DEF Finalize, PC
  <2>2. run'[c].pc = "done"
    BY <2>1, GotoMoves
  <2>3. (Owns(c)' => Owns(c)) /\ ~Fresh(c)'
    BY <1>13, <2>2 DEF Finalize, Owns, Fresh, FreshPC
  <2> QED
    BY <2>1, <2>3, GotoKeeps
<1>14. CASE EngineThrows(c)
  <2>1. PICK pc \in {"erring", "threw"} : Goto(c, pc)
    BY <1>14 DEF EngineThrows
  <2>2. /\ pc \in PC \ {"idle"} /\ ~At(c, "idle") /\ Owns(c)
        /\ UNCHANGED <<db, waitTill, timers, enqueued>>
    BY <1>14 DEF EngineThrows, PC, Owns
  <2>3. run'[c].pc = pc
    BY <2>1, <2>2, GotoMoves
  <2>4. ~Fresh(c)'
    BY <2>3 DEF Fresh, FreshPC
  <2> QED
    BY <2>1, <2>2, <2>4, GotoKeeps
<1>15. CASE SaveError(c)
  <2>1. PICK pc \in {"done", "threw"} : Goto(c, pc)
    BY <1>15 DEF SaveError
  <2>2. /\ pc \in PC \ {"idle"} /\ ~At(c, "idle")
        /\ db' = [db EXCEPT ![exec(c)] = "error"] \/ UNCHANGED db
        /\ UNCHANGED <<waitTill, timers, enqueued>>
    BY <1>15 DEF SaveError, PC
  <2>3. Moves(c) /\ run'[c].pc = pc
    BY <2>1, <2>2, GotoMoves
  <2>4. ~Fresh(c)' /\ ~Owns(c)'
    BY <2>3 DEF Owns, Fresh, FreshPC
  <2>5. "error" \in Status \ {"none", "waiting"}
    BY DEF Status
  <2> QED
    BY <2>1, <2>2, <2>3, <2>4, <2>5, GotoKeeps, WriteKeeps
<1> QED
  BY <1>1, <1>2, <1>3, <1>4, <1>5, <1>6, <1>7, <1>8, <1>9, <1>10, <1>11, <1>12, <1>13,
     <1>14, <1>15 DEF Step

(* Steps of others that leave the calls where they are. *)
LEMMA QuietStepsKeep ==
    ASSUME IInv, run' = run, db' = db, waitTill' = waitTill, enqueued' = enqueued,
           timers' \subseteq timers \cup waitTill
    PROVE  IInv'
<1>1. run \in [Calls -> Call] /\ db \in [Executions -> Status]
  BY DEF IInv, CallsOK
<1> QED
  BY <1>1, CallsStay

(* A stop takes calls out of line, for good, or stops the engine. *)
LEMMA StopActKeeps ==
    ASSUME IInv, NEW e \in Executions, StopAct(e)
    PROVE  IInv'
<1>1. UNCHANGED <<db, waitTill, enqueued>> /\ timers' \subseteq timers
  BY DEF StopAct
<1>2. CASE UNCHANGED run
  BY <1>1, <1>2, QuietStepsKeep
<1>3. CASE DropRemoved
  <2>0. \A c \in Calls : Dropped(c) => run[c].pc = "queued"
    BY DEF Dropped
  <2>1. \A c \in Calls : \/ run'[c] = run[c]
                         \/ run[c].pc = "queued" /\ run'[c] = [run[c] EXCEPT !.pc = "removed"]
    BY <1>3, <2>0 DEF DropRemoved
  <2>2. \A c \in Calls : run[c] \in Call
    BY DEF IInv, CallsOK
  <2>3. \A c \in Calls :
           /\ run'[c] \in Call
           /\ run'[c].exec = run[c].exec
           /\ run'[c].kind = run[c].kind
           /\ run'[c].pc = run[c].pc \/ (run[c].pc = "queued" /\ run'[c].pc = "removed")
    <3> SUFFICES ASSUME NEW c \in Calls
                 PROVE  /\ run'[c] \in Call
                        /\ run'[c].exec = run[c].exec
                        /\ run'[c].kind = run[c].kind
                        /\ \/ run'[c].pc = run[c].pc
                           \/ run[c].pc = "queued" /\ run'[c].pc = "removed"
      OBVIOUS
    <3> DEFINE r == run[c]
               taken == [r EXCEPT !.pc = "removed"]
    <3>1. r \in Call
      BY <2>2
    <3> HIDE DEF r
    <3>2. /\ taken \in Call /\ taken.pc = "removed"
          /\ taken.exec = r.exec /\ taken.kind = r.kind
      BY <3>1 DEF Call, PC
    <3>3. run'[c] = r \/ (r.pc = "queued" /\ run'[c] = taken)
      BY <2>1 DEF r
    <3> HIDE DEF taken
    <3> QED
      BY <3>1, <3>2, <3>3 DEF r
  <2>4. run' \in [Calls -> Call]
    BY <1>3, <2>3 DEF DropRemoved
  <2>5. db \in [Executions -> Status]
    BY DEF IInv, CallsOK
  <2> QED
    BY <1>1, <2>3, <2>4, <2>5, CallsStay
<1> QED
  BY <1>2, <1>3 DEF StopAct

(* Every step keeps the invariant. *)
LEMMA NextKeeps == IInv /\ [Next]_vars => IInv'
<1> SUFFICES ASSUME IInv, [Next]_vars
             PROVE  IInv'
  OBVIOUS
<1>1. CASE UNCHANGED vars
  BY <1>1, QuietStepsKeep DEF vars, execVars
<1>2. ASSUME NEW c \in Calls, Step(c)
      PROVE  IInv'
  BY <1>2, StepKeeps
<1>3. ASSUME NEW c \in Calls, Timeout(c)
      PROVE  IInv'
  BY <1>3, QuietStepsKeep DEF Timeout
<1>4. ASSUME NEW c \in Calls, NEW e \in Executions, CreateExecution(c, e)
      PROVE  IInv'
  BY <1>4, CreateKeeps
<1>5. ASSUME NEW c \in Calls, NEW e \in Executions, TimerFires(c, e)
      PROVE  IInv'
  <2>1. /\ UNCHANGED <<db, waitTill, enqueued>> /\ timers' \subseteq timers
        /\ e \in timers
    BY <1>5 DEF TimerFires
  <2>2. CASE UNCHANGED run
    BY <2>1, <2>2, QuietStepsKeep
  <2>3. CASE At(c, "idle") /\ Ask(c, e, "resume")
    <3>1. db[e] # "none" /\ \A d \in Calls : Fresh(d) => exec(d) # e
      BY <2>1 DEF IInv, NoRowNoCall, FreshIsAlone, Alone, Unknown
    <3> QED
      BY <2>1, <2>3, <3>1, AskKeeps
  <2> QED
    BY <1>5, <2>2, <2>3 DEF TimerFires
<1>6. ASSUME NEW c \in Calls, NEW e \in Executions, WebhookResume(c, e)
      PROVE  IInv'
  <2>1. /\ At(c, "idle") /\ Ask(c, e, "resume")
        /\ UNCHANGED <<db, waitTill, timers, enqueued>>
        /\ db[e] = "waiting" \/ (db[e] = "canceled" /\ e \in waitTill)
    BY <1>6 DEF WebhookResume
  <2>2. db[e] # "none" /\ \A d \in Calls : Fresh(d) => exec(d) # e
    BY <2>1 DEF IInv, FreshIsAlone, Alone, Unknown
  <2> QED
    BY <2>1, <2>2, AskKeeps
<1>7. ASSUME NEW c \in Calls, NEW e \in Executions, RunEnqueued(c, e)
      PROVE  IInv'
  <2>1. /\ At(c, "idle") /\ Ask(c, e, "boot")
        /\ UNCHANGED <<db, waitTill, timers>> /\ enqueued' \subseteq enqueued
        /\ e \in enqueued
    BY <1>7 DEF RunEnqueued
  <2>2. db[e] # "none" /\ \A d \in Calls : Fresh(d) => exec(d) # e
    BY <2>1 DEF IInv, NoRowNoCall, FreshIsAlone, Alone, Unknown
  <2> QED
    BY <2>1, <2>2, AskKeeps
<1>8. ASSUME NEW e \in Executions, StopRead(e) \/ PollWaiting(e)
      PROVE  IInv'
  BY <1>8, QuietStepsKeep DEF StopRead, PollWaiting
<1>9. ASSUME NEW e \in Executions, StopAct(e)
      PROVE  IInv'
  BY <1>9, StopActKeeps
<1>10. ASSUME NEW e \in Executions, StopWrite(e)
       PROVE  IInv'
  <2>1. /\ run' = run /\ UNCHANGED <<timers, enqueued>> /\ waitTill' \subseteq waitTill
        /\ db' = [db EXCEPT ![e] = "canceled"]
    BY <1>10 DEF StopWrite
  <2>2. /\ db' \in [Executions -> Status]
        /\ \A f \in Executions : db'[f] = db[f] \/ db'[f] = "canceled"
        /\ run \in [Calls -> Call]
    BY <2>1 DEF IInv, CallsOK, Status
  <2> QED
    BY <2>1, <2>2, CallsStay
<1>11. CASE BeginShutdown \/ Drain
  BY <1>11, QuietStepsKeep DEF BeginShutdown, Drain
<1>12. CASE Exit \/ Crash
  BY <1>12, NewProcessKeeps DEF Exit, Crash
<1> QED
  BY <1>1, <1>2, <1>3, <1>4, <1>5, <1>6, <1>7, <1>8, <1>9, <1>10, <1>11, <1>12 DEF Next

(* However executions are started, stopped and resumed, and whenever the   *)
(* process crashes, no two calls run the same execution at a time.         *)
THEOREM OneEngine == Spec => []OneEnginePerExecution
<1>1. IInv => OneEnginePerExecution
  BY DEF IInv
<1> QED
  BY <1>1, InitEstablishes, NextKeeps, PTL DEF Spec
-----------------------------------------------------------------------------
(* Why no row is left running.  What accounts for a row that says running  *)
(* is a call that owns it, a write that cancels it, or one of the two      *)
(* exceptions; a call that was canceled leaves the writing to its hook.    *)

(* The row of the execution is going to be written, or is an exception.    *)
Accounted(e) ==
    \/ stops[e] \in {"before", "during"}
    \/ e \in overlooked
    \/ \E c \in Calls : exec(c) = e /\ (Owns(c) \/ c \in cancelSaves \/ At(c, "threw"))

RunningAccounted == \A e \in Executions : db[e] = "running" => Accounted(e)

(* Where a call can be once its engine was canceled. *)
CanceledPC == {"running", "toWait", "saving", "saved", "erring", "done", "threw"}

(* The hook of a canceled engine is to write, or wrote while the call was  *)
(* still the owner.  Without this an engine that was canceled could end    *)
(* with nobody left to write its row.                                      *)
CanceledIsWritten ==
    /\ cancelSaves \subseteq aborted
    /\ aborted \subseteq Calls
    /\ \A c \in aborted :
          /\ run[c].pc \in CanceledPC
          /\ Owns(c) /\ c \notin cancelSaves => db[exec(c)] # "running"

RowsInv ==
    /\ stops \in [Executions -> {"none", "read", "before", "during"}]
    /\ RunningAccounted
    /\ CanceledIsWritten

(* Nothing runs at first. *)
LEMMA InitRows == Init => RowsInv
  BY DEF Init, RowsInv, RunningAccounted, CanceledIsWritten

(* A call moves and may write its row.  If it ceases to account for a row  *)
(* that says running, the row is not running any more.                     *)
LEMMA RowsCallMoves ==
    ASSUME IInv, RowsInv, NEW c \in Calls, Moves(c),
           UNCHANGED <<stops, overlooked, aborted, cancelSaves>>,
           \A e \in Executions : e # exec(c) => db'[e] = db[e],
           db'[exec(c)] = "running" =>
              \/ Owns(c)' \/ run'[c].pc = "threw" \/ c \in cancelSaves
              \/ db[exec(c)] = "running" /\ ~Owns(c) /\ ~At(c, "threw"),
           db'[exec(c)] = "running" =>
              \/ db[exec(c)] = "running"
              \/ \A d \in Calls \ {c} : Owns(d) => exec(d) # exec(c),
           c \in aborted =>
              /\ run'[c].pc \in CanceledPC
              /\ Owns(c)' => Owns(c) /\ db'[exec(c)] = db[exec(c)]
    PROVE  RowsInv'
<1>1. /\ exec(c) \in Executions /\ run'[c].exec = run[c].exec
      /\ \A d \in Calls : d # c => run'[d] = run[d]
      /\ \A d \in Calls : run'[d].exec = run[d].exec
  BY DEF IInv, CallsOK, Moves
<1>2. RunningAccounted'
  <2> SUFFICES ASSUME NEW e \in Executions, db'[e] = "running"
               PROVE  Accounted(e)'
    BY DEF RunningAccounted
  <2>1. CASE e = exec(c) /\ (Owns(c)' \/ run'[c].pc = "threw" \/ c \in cancelSaves)
    BY <2>1, <1>1 DEF Accounted
  <2>2. CASE db[e] = "running" /\ (e = exec(c) => ~Owns(c) /\ ~At(c, "threw")
                                                  /\ c \notin cancelSaves)
    <3>1. CASE stops[e] \in {"before", "during"} \/ e \in overlooked
      BY <3>1 DEF Accounted
    <3>2. ASSUME NEW d \in Calls, exec(d) = e,
                 Owns(d) \/ d \in cancelSaves \/ At(d, "threw")
          PROVE  Accounted(e)'
      <4>1. d # c
        BY <2>2, <3>2
      <4>2. run'[d] = run[d] /\ (Owns(d) => Owns(d)')
        BY <1>1, <4>1 DEF Owns
      <4> QED
        BY <3>2, <4>2 DEF Accounted
    <3> QED
      BY <2>2, <3>1, <3>2 DEF RowsInv, RunningAccounted, Accounted
  <2> QED
    BY <2>1, <2>2
<1>3. CanceledIsWritten'
  <2> SUFFICES ASSUME NEW d \in aborted
               PROVE  /\ run'[d].pc \in CanceledPC
                      /\ Owns(d)' /\ d \notin cancelSaves => db'[run'[d].exec] # "running"
    BY DEF RowsInv, CanceledIsWritten
  <2>1. /\ d \in Calls /\ run[d].pc \in CanceledPC
        /\ Owns(d) /\ d \notin cancelSaves => db[exec(d)] # "running"
    BY DEF RowsInv, CanceledIsWritten
  <2>2. CASE d = c
    BY <2>1, <2>2, <1>1
  <2>3. CASE d # c
    <3>1. run'[d] = run[d] /\ (Owns(d)' <=> Owns(d)) /\ exec(d) \in Executions
      BY <1>1, <2>1, <2>3 DEF Owns, IInv, CallsOK, CanceledPC
    <3> QED
      BY <1>1, <2>1, <2>3, <3>1
  <2> QED
    BY <2>2, <2>3
<1> QED
  BY <1>2, <1>3 DEF RowsInv

(* A call goes on without a write, and accounts for its row as before.     *)
LEMMA RowsQuietMove ==
    ASSUME IInv, RowsInv, NEW c \in Calls, Moves(c),
           UNCHANGED <<db, stops, overlooked, aborted, cancelSaves>>,
           Owns(c) => Owns(c)' \/ run'[c].pc = "threw" \/ c \in cancelSaves
                      \/ db[exec(c)] # "running",
           run[c].pc # "threw",
           c \in aborted => run'[c].pc \in CanceledPC /\ (Owns(c)' => Owns(c))
    PROVE  RowsInv'
  BY RowsCallMoves

(* Calls stay, but for those a stop takes out of line; rows may be         *)
(* canceled; engines that run may be canceled, each with a hook to come.   *)
LEMMA RowsStay ==
    ASSUME IInv, RowsInv,
           \A d \in Calls :
              /\ run'[d].exec = run[d].exec
              /\ run'[d].pc = run[d].pc \/ (run[d].pc = "queued" /\ run'[d].pc = "removed"),
           \A e \in Executions : db'[e] = db[e] \/ db'[e] = "canceled",
           stops' \in [Executions -> {"none", "read", "before", "during"}],
           \A e \in Executions :
              stops[e] \in {"before", "during"} =>
                 stops'[e] \in {"before", "during"} \/ db'[e] # "running",
           overlooked' = overlooked,
           aborted \subseteq aborted', aborted' \subseteq Calls,
           cancelSaves' \subseteq aborted',
           \A d \in aborted' \ aborted : d \in cancelSaves' /\ run[d].pc \in CanceledPC,
           \A d \in cancelSaves : d \in cancelSaves' \/ db'[exec(d)] # "running"
    PROVE  RowsInv'
<1>1. \A d \in Calls : /\ Owns(d)' <=> Owns(d)
                       /\ run'[d].pc = "threw" <=> run[d].pc = "threw"
                       /\ run'[d].pc \in CanceledPC <=> run[d].pc \in CanceledPC
                       /\ run'[d].exec = run[d].exec
  BY DEF Owns, CanceledPC
<1>2. RunningAccounted'
  <2> SUFFICES ASSUME NEW e \in Executions, db'[e] = "running"
               PROVE  Accounted(e)'
    BY DEF RunningAccounted
  <2>1. db[e] = "running"
    OBVIOUS
  <2>2. CASE stops[e] \in {"before", "during"} \/ e \in overlooked
    BY <2>2 DEF Accounted
  <2>3. ASSUME NEW d \in Calls, exec(d) = e,
               Owns(d) \/ d \in cancelSaves \/ At(d, "threw")
        PROVE  Accounted(e)'
    <3>1. run'[d].exec = e /\ (Owns(d)' \/ d \in cancelSaves' \/ run'[d].pc = "threw")
      BY <1>1, <2>3
    <3> QED
      BY <3>1 DEF Accounted
  <2> QED
    BY <2>1, <2>2, <2>3 DEF RowsInv, RunningAccounted, Accounted
<1>3. CanceledIsWritten'
  <2> SUFFICES ASSUME NEW d \in aborted'
               PROVE  /\ run'[d].pc \in CanceledPC
                      /\ Owns(d)' /\ d \notin cancelSaves' => db'[run'[d].exec] # "running"
    BY DEF RowsInv, CanceledIsWritten
  <2>1. d \in Calls
    OBVIOUS
  <2>2. CASE d \notin aborted
    BY <1>1, <2>1, <2>2
  <2>3. CASE d \in aborted
    <3>1. /\ run[d].pc \in CanceledPC
          /\ Owns(d) /\ d \notin cancelSaves => db[exec(d)] # "running"
      BY <2>3 DEF RowsInv, CanceledIsWritten
    <3>2. exec(d) \in Executions
      BY <2>1, <3>1 DEF IInv, CallsOK, CanceledPC
    <3> QED
      BY <1>1, <2>1, <3>1, <3>2
  <2> QED
    BY <2>2, <2>3
<1> QED
  BY <1>2, <1>3 DEF RowsInv

(* A call that is asked for had nothing to account for. *)
LEMMA RowsAsk ==
    ASSUME IInv, RowsInv, NEW c \in Calls, NEW e \in Executions,
           NEW kind \in {"new", "resume", "boot"}, At(c, "idle"), Ask(c, e, kind),
           \A f \in Executions : db'[f] = db[f] \/ db'[f] = "new",
           UNCHANGED <<stops, overlooked, aborted, cancelSaves>>
    PROVE  RowsInv'
<1> DEFINE r == [IdleCall EXCEPT !.pc = "arriving", !.exec = e, !.kind = kind]
<1>0. r.pc = "arriving"
  BY DEF IdleCall
<1> HIDE DEF r
<1>1. /\ \A d \in Calls : d # c => run'[d] = run[d]
      /\ run'[c].pc = "arriving"
  BY <1>0 DEF Ask, IInv, CallsOK, r
<1>2. c \notin aborted /\ c \notin cancelSaves /\ ~Owns(c) /\ ~At(c, "threw")
  BY DEF RowsInv, CanceledIsWritten, CanceledPC, Owns
<1>3. RunningAccounted'
  <2> SUFFICES ASSUME NEW f \in Executions, db'[f] = "running"
               PROVE  Accounted(f)'
    BY DEF RunningAccounted
  <2>1. db[f] = "running"
    OBVIOUS
  <2>2. ASSUME NEW d \in Calls, exec(d) = f,
               Owns(d) \/ d \in cancelSaves \/ At(d, "threw")
        PROVE  Accounted(f)'
    <3>1. run'[d] = run[d] /\ (Owns(d)' <=> Owns(d))
      BY <1>1, <1>2, <2>2 DEF Owns
    <3> QED
      BY <2>2, <3>1 DEF Accounted
  <2> QED
    BY <2>1, <2>2 DEF RowsInv, RunningAccounted, Accounted
<1>4. CanceledIsWritten'
  <2> SUFFICES ASSUME NEW d \in aborted
               PROVE  /\ run'[d].pc \in CanceledPC
                      /\ Owns(d)' /\ d \notin cancelSaves => db'[run'[d].exec] # "running"
    BY DEF RowsInv, CanceledIsWritten
  <2>1. d \in Calls /\ run'[d] = run[d] /\ (Owns(d)' <=> Owns(d))
    BY <1>1, <1>2 DEF RowsInv, CanceledIsWritten, Owns
  <2>2. run[d].pc \in CanceledPC /\ exec(d) \in Executions
    BY <2>1 DEF RowsInv, CanceledIsWritten, CanceledPC, IInv, CallsOK
  <2> QED
    BY <2>1, <2>2 DEF RowsInv, CanceledIsWritten
<1> QED
  BY <1>3, <1>4 DEF RowsInv

(* Rows that a process left running are crashed, or passed over. *)
LEMMA RowsNewProcess ==
    ASSUME IInv, NewProcess
    PROVE  RowsInv'
<1>1. /\ \A e \in Executions : db'[e] = "running" => e \in overlooked'
      /\ stops' = [e \in Executions |-> "none"]
      /\ aborted' = {} /\ cancelSaves' = {}
  BY DEF NewProcess, IInv, CallsOK
<1> QED
  BY <1>1 DEF RowsInv, RunningAccounted, Accounted, CanceledIsWritten

(* An owner that is not canceled ends: it writes an error, or throws.      *)
LEMMA ErrorWritten ==
    ASSUME IInv, RowsInv, NEW c \in Calls, Moves(c), Owns(c), c \notin aborted,
           UNCHANGED <<stops, overlooked, aborted, cancelSaves>>,
           \/ db' = [db EXCEPT ![exec(c)] = "error"]
           \/ run'[c].pc = "threw" /\ UNCHANGED db
    PROVE  RowsInv'
<1>1. db \in [Executions -> Status] /\ exec(c) \in Executions
  BY DEF IInv, CallsOK, Moves
<1>2. CASE db' = [db EXCEPT ![exec(c)] = "error"]
  <2>1. db'[exec(c)] = "error" /\ \A e \in Executions : e # exec(c) => db'[e] = db[e]
    BY <1>1, <1>2
  <2> QED
    BY <2>1, RowsCallMoves
<1>3. CASE run'[c].pc = "threw" /\ UNCHANGED db
  BY <1>3, RowsQuietMove DEF Owns
<1> QED
  BY <1>2, <1>3

(* Each step of a call. *)
LEMMA RowsStep ==
    ASSUME IInv, RowsInv, NEW c \in Calls, Step(c)
    PROVE  RowsInv'
<1>0. db \in [Executions -> Status] /\ run \in [Calls -> Call]
  BY DEF IInv, CallsOK
<1>1. c \in aborted => run[c].pc \in CanceledPC
  BY DEF RowsInv, CanceledIsWritten
<1>2. ASSUME NEW pc \in PC \ {"idle"}, Goto(c, pc), run[c].pc # "idle"
      PROVE  Moves(c) /\ run'[c].pc = pc /\ exec(c) \in Executions
  BY <1>2, GotoMoves DEF IInv, CallsOK
<1>3. CASE Arrive(c) \/ LetThrough(c)
  <2>1. PICK pc \in {"admitted", "queued"} : Goto(c, pc)
    BY <1>3 DEF Arrive, LetThrough
  <2>2. /\ run[c].pc \in {"arriving", "queued"} /\ pc \in PC \ {"idle"}
        /\ UNCHANGED <<db, stops, overlooked, aborted, cancelSaves>>
    BY <1>3 DEF Arrive, LetThrough, PC
  <2>3. Moves(c) /\ run'[c].pc = pc
    BY <1>2, <2>1, <2>2
  <2> QED
    BY <1>1, <2>2, <2>3, RowsQuietMove DEF Owns, CanceledPC
<1>4. CASE AdmitNew(c) \/ Claim(c)
  <2>1. run[c].pc = "admitted" /\ UNCHANGED <<stops, overlooked, aborted, cancelSaves>>
    BY <1>4 DEF AdmitNew, Claim
  <2>2. CASE Goto(c, "refused") /\ UNCHANGED db
    <3>1. Moves(c) /\ run'[c].pc = "refused"
      BY <1>2, <2>1, <2>2 DEF PC
    <3> QED
      BY <1>1, <2>1, <2>2, <3>1, RowsQuietMove DEF Owns, CanceledPC
  <2>3. CASE /\ Goto(c, "claimed") /\ db' = [db EXCEPT ![exec(c)] = "running"]
             /\ Fresh(c) \/ db[exec(c)] = "waiting"
    <3>1. Moves(c) /\ run'[c].pc = "claimed" /\ exec(c) \in Executions
      BY <1>2, <2>1, <2>3 DEF PC
    <3>2. Owns(c)' /\ c \notin aborted
      BY <1>1, <2>1, <3>1 DEF Owns, CanceledPC
    <3>3. \A e \in Executions : e # exec(c) => db'[e] = db[e]
      BY <1>0, <2>3
    <3>4. \A d \in Calls \ {c} : Owns(d) => exec(d) # exec(c)
      BY <2>3, NobodyOwns
    <3> QED
      BY <2>1, <3>1, <3>2, <3>3, <3>4, RowsCallMoves
  <2> QED
    BY <1>4, <2>2, <2>3 DEF AdmitNew, Claim, Fresh, FreshPC
<1>5. CASE Register(c)
  <2>1. /\ Goto(c, "registered") /\ run[c].pc = "claimed"
        /\ UNCHANGED <<db, stops, overlooked, aborted, cancelSaves>>
    BY <1>5 DEF Register
  <2>2. Moves(c) /\ run'[c].pc = "registered"
    BY <1>2, <2>1 DEF PC
  <2> QED
    BY <1>1, <2>1, <2>2, RowsQuietMove DEF Owns, CanceledPC
<1>6. CASE FailCredentials(c)
  <2>1. PICK pc \in {"failed", "threw"} :
           /\ Goto(c, pc)
           /\ \/ db' = [db EXCEPT ![exec(c)] = "error"]
              \/ pc = "threw" /\ UNCHANGED db
    BY <1>6 DEF FailCredentials
  <2>2. run[c].pc = "registered" /\ UNCHANGED <<stops, overlooked, aborted, cancelSaves>>
    BY <1>6 DEF FailCredentials
  <2>3. Moves(c) /\ run'[c].pc = pc /\ exec(c) \in Executions
    BY <1>2, <2>1, <2>2 DEF PC
  <2>4. c \notin aborted /\ Owns(c)
    BY <1>1, <2>2 DEF CanceledPC, Owns
  <2> QED
    BY <2>1, <2>2, <2>3, <2>4, ErrorWritten
<1>7. CASE PrepareRun(c)
  <2>1. run[c].pc = "registered" /\ UNCHANGED <<stops, overlooked, aborted, cancelSaves>>
    BY <1>7 DEF PrepareRun
  <2>2. c \notin aborted /\ Owns(c)
    BY <1>1, <2>1 DEF CanceledPC, Owns
  <2>3. CASE Goto(c, "threw") /\ UNCHANGED db
    <3>1. Moves(c) /\ run'[c].pc = "threw"
      BY <1>2, <2>1, <2>3 DEF PC
    <3> QED
      BY <2>1, <2>2, <2>3, <3>1, RowsQuietMove
  <2>4. CASE Goto(c, "prepared") /\ db' = [db EXCEPT ![exec(c)] = "running"]
    <3>1. Moves(c) /\ run'[c].pc = "prepared" /\ Owns(c)'
      BY <1>2, <2>1, <2>4 DEF PC, Owns
    <3>2. \A e \in Executions : e # exec(c) => db'[e] = db[e]
      BY <1>0, <2>4
    <3> QED
      BY <2>1, <2>2, <3>1, <3>2, OwnerIsAlone, RowsCallMoves
  <2> QED
    BY <1>7, <2>3, <2>4 DEF PrepareRun
<1>8. CASE StartEngine(c)
  <2> DEFINE r == [run[c] EXCEPT !.pc = "running", !.attached = active[exec(c)] # None]
  <2>1. /\ r \in Call /\ r.pc = "running" /\ r.exec = run[c].exec /\ r.kind = run[c].kind
        /\ run' = [run EXCEPT ![c] = r]
    BY <1>0, <1>8 DEF StartEngine, Call, PC
  <2>2. /\ Owns(c) /\ run[c].pc = "prepared"
        /\ UNCHANGED <<db, stops, overlooked, aborted, cancelSaves>>
    BY <1>8 DEF StartEngine, Owns
  <2> HIDE DEF r
  <2>3. Moves(c) /\ run'[c].pc = "running"
    BY <2>1, <2>2, BecomeMoves
  <2> QED
    BY <2>2, <2>3, RowsQuietMove DEF Owns, CanceledPC
<1>9. CASE GoToWait(c)
  <2>1. /\ Goto(c, "toWait") /\ run[c].pc = "running"
        /\ UNCHANGED <<db, stops, overlooked, aborted, cancelSaves>>
    BY <1>9 DEF GoToWait
  <2>2. Moves(c) /\ run'[c].pc = "toWait"
    BY <1>2, <2>1 DEF PC
  <2> QED
    BY <2>1, <2>2, RowsQuietMove DEF Owns, CanceledPC
<1>10. CASE EndRun(c)
  <2>1. PICK out \in Outcomes \cup {"waiting"}, pc \in {"saved", "saving"} :
           run' = [run EXCEPT ![c].out = out, ![c].pc = pc] /\ (pc = "saved" => c \in aborted)
    BY <1>10 DEF EndRun, Outcomes
  <2> DEFINE r == [run[c] EXCEPT !.out = out, !.pc = pc]
  <2>2. /\ r \in Call /\ r.pc = pc /\ r.exec = run[c].exec /\ r.kind = run[c].kind
        /\ run' = [run EXCEPT ![c] = r]
    BY <1>0, <2>1 DEF Call, PC
  <2>3. /\ Owns(c) /\ run[c].pc \in {"running", "toWait"}
        /\ UNCHANGED <<db, stops, overlooked, aborted, cancelSaves>>
    BY <1>10 DEF EndRun, Owns
  <2> HIDE DEF r
  <2>4. Moves(c) /\ run'[c].pc = pc
    BY <2>1, <2>2, <2>3, BecomeMoves
  <2>5. Owns(c)' \/ c \in cancelSaves \/ db[exec(c)] # "running"
    BY <2>1, <2>3, <2>4 DEF Owns, RowsInv, CanceledIsWritten
  <2> QED
    BY <2>3, <2>4, <2>5, RowsQuietMove DEF Owns, CanceledPC
<1>11. CASE SaveRun(c)
  <2>1. /\ Goto(c, "saved") /\ run[c].pc = "saving"
        /\ db' = [db EXCEPT ![exec(c)] = run[c].out]
        /\ UNCHANGED <<stops, overlooked, aborted, cancelSaves>>
    BY <1>11 DEF SaveRun
  <2>2. Moves(c) /\ run'[c].pc = "saved" /\ exec(c) \in Executions
    BY <1>2, <2>1 DEF PC
  <2>3. run[c].out # "running"
    BY <1>0 DEF Call, Outcomes
  <2>4. db'[exec(c)] # "running" /\ \A e \in Executions : e # exec(c) => db'[e] = db[e]
    BY <1>0, <2>1, <2>2, <2>3
  <2>5. ~Owns(c)' /\ run'[c].pc \in CanceledPC
    BY <2>2 DEF Owns, CanceledPC
  <2> QED
    BY <2>1, <2>2, <2>4, <2>5, RowsCallMoves
<1>12. CASE CancelSave(c)
  <2>1. /\ run' = run /\ UNCHANGED <<stops, overlooked, aborted>>
        /\ c \in cancelSaves /\ cancelSaves' = cancelSaves \ {c}
        /\ db' = [db EXCEPT ![exec(c)] = "canceled"]
    BY <1>12 DEF CancelSave
  <2>2. c \in aborted /\ exec(c) \in Executions
    BY <1>1, <2>1 DEF RowsInv, CanceledIsWritten, IInv, CallsOK, CanceledPC
  <2>3. \A e \in Executions : db'[e] = db[e] \/ db'[e] = "canceled"
    BY <1>0, <2>1
  <2>4. \A d \in cancelSaves : d \in cancelSaves' \/ db'[exec(d)] # "running"
    BY <1>0, <2>1, <2>2
  <2> QED
    BY <2>1, <2>3, <2>4, RowsStay DEF RowsInv, CanceledIsWritten
<1>13. CASE Finalize(c)
  <2>1. /\ Goto(c, "done") /\ run[c].pc \in {"saved", "failed"}
        /\ UNCHANGED <<db, stops, overlooked, aborted, cancelSaves>>
    BY <1>13 DEF Finalize
  <2>2. Moves(c) /\ run'[c].pc = "done"
    BY <1>2, <2>1 DEF PC
  <2> QED
    BY <2>1, <2>2, RowsQuietMove DEF Owns, CanceledPC
<1>14. CASE EngineThrows(c)
  <2>1. PICK pc \in {"erring", "threw"} : Goto(c, pc)
    BY <1>14 DEF EngineThrows
  <2>2. /\ run[c].pc \in {"prepared", "running", "toWait", "saving"}
        /\ UNCHANGED <<db, stops, overlooked, aborted, cancelSaves>>
    BY <1>14 DEF EngineThrows
  <2>3. Moves(c) /\ run'[c].pc = pc
    BY <1>2, <2>1, <2>2 DEF PC
  <2> QED
    BY <2>2, <2>3, RowsQuietMove DEF Owns, CanceledPC
<1>15. CASE SaveError(c)
  <2>1. PICK pc \in {"done", "threw"} :
           /\ Goto(c, pc)
           /\ \/ db' = [db EXCEPT ![exec(c)] = "error"]
              \/ pc = "threw" /\ UNCHANGED db
    BY <1>15 DEF SaveError
  <2>2. run[c].pc = "erring" /\ UNCHANGED <<stops, overlooked, aborted, cancelSaves>>
    BY <1>15 DEF SaveError
  <2>3. Moves(c) /\ run'[c].pc = pc /\ exec(c) \in Executions
    BY <1>2, <2>1, <2>2 DEF PC
  <2>4. CASE db' = [db EXCEPT ![exec(c)] = "error"]
    <3>1. db'[exec(c)] = "error" /\ \A e \in Executions : e # exec(c) => db'[e] = db[e]
      BY <1>0, <2>3, <2>4
    <3>2. ~Owns(c)' /\ run'[c].pc \in CanceledPC
      BY <2>3 DEF Owns, CanceledPC
    <3> QED
      BY <2>2, <2>3, <3>1, <3>2, RowsCallMoves
  <2>5. CASE pc = "threw" /\ UNCHANGED db
    BY <2>2, <2>3, <2>5, RowsQuietMove DEF Owns, CanceledPC
  <2> QED
    BY <2>1, <2>4, <2>5
<1> QED
  BY <1>3, <1>4, <1>5, <1>6, <1>7, <1>8, <1>9, <1>10, <1>11, <1>12, <1>13, <1>14, <1>15 DEF Step

(* What canceling engines does. *)
LEMMA AbortCancels ==
    ASSUME RowsInv, NEW engines, Abort(engines)
    PROVE  /\ aborted \subseteq aborted' /\ aborted' \subseteq Calls
           /\ cancelSaves \subseteq cancelSaves' /\ cancelSaves' \subseteq aborted'
           /\ \A d \in aborted' \ aborted : d \in cancelSaves' /\ run[d].pc \in CanceledPC
  BY DEF Abort, Cancelable, RowsInv, CanceledIsWritten, CanceledPC

(* A stop cancels the engine of the entry, or nothing. *)
LEMMA StopCancels ==
    ASSUME NEW e, stopExecution(e)
    PROVE  (\E engines : Abort(engines)) \/ UNCHANGED <<aborted, cancelSaves>>
  BY DEF stopExecution

(* Engines are canceled while calls and rows stay.                         *)
LEMMA RowsCancel ==
    ASSUME IInv, RowsInv,
           \A d \in Calls :
              /\ run'[d].exec = run[d].exec
              /\ run'[d].pc = run[d].pc \/ (run[d].pc = "queued" /\ run'[d].pc = "removed"),
           \A e \in Executions : db'[e] = db[e] \/ db'[e] = "canceled",
           stops' \in [Executions -> {"none", "read", "before", "during"}],
           \A e \in Executions :
              stops[e] \in {"before", "during"} =>
                 stops'[e] \in {"before", "during"} \/ db'[e] # "running",
           overlooked' = overlooked,
           (\E engines : Abort(engines)) \/ UNCHANGED <<aborted, cancelSaves>>
    PROVE  RowsInv'
<1>1. CASE UNCHANGED <<aborted, cancelSaves>>
  BY <1>1, RowsStay DEF RowsInv, CanceledIsWritten
<1>2. ASSUME NEW engines, Abort(engines)
      PROVE  RowsInv'
  <2>1. \A d \in cancelSaves : d \in cancelSaves' \/ db'[exec(d)] # "running"
    BY <1>2, AbortCancels
  <2> QED
    BY <1>2, <2>1, AbortCancels, RowsStay
<1> QED
  BY <1>1, <1>2

(* Every step keeps the rows accounted for. *)
LEMMA RowsNext == IInv /\ RowsInv /\ [Next]_vars => RowsInv'
<1> SUFFICES ASSUME IInv, RowsInv, [Next]_vars
             PROVE  RowsInv'
  OBVIOUS
<1>0. stops \in [Executions -> {"none", "read", "before", "during"}]
  BY DEF RowsInv
<1>1. CASE UNCHANGED <<run, db, stops, overlooked, aborted, cancelSaves>>
  BY <1>0, <1>1, RowsCancel
<1>2. ASSUME NEW c \in Calls, Step(c)
      PROVE  RowsInv'
  BY <1>2, RowsStep
<1>3. ASSUME NEW c \in Calls, Timeout(c)
      PROVE  RowsInv'
  BY <1>0, <1>3, StopCancels, RowsCancel DEF Timeout
<1>4. ASSUME NEW c \in Calls, NEW e \in Executions, CreateExecution(c, e)
      PROVE  RowsInv'
  <2>1. \A f \in Executions : db'[f] = db[f] \/ db'[f] = "new"
    BY <1>4 DEF CreateExecution, IInv, CallsOK
  <2> QED
    BY <1>4, <2>1, RowsAsk DEF CreateExecution
<1>5. ASSUME NEW c \in Calls, NEW e \in Executions,
             TimerFires(c, e) \/ WebhookResume(c, e) \/ RunEnqueued(c, e)
      PROVE  RowsInv'
  <2>1. UNCHANGED <<db, stops, overlooked, aborted, cancelSaves>>
    BY <1>5 DEF TimerFires, WebhookResume, RunEnqueued
  <2>2. \/ UNCHANGED run
        \/ At(c, "idle") /\ (Ask(c, e, "resume") \/ Ask(c, e, "boot"))
    BY <1>5 DEF TimerFires, WebhookResume, RunEnqueued
  <2> QED
    BY <1>1, <2>1, <2>2, RowsAsk
<1>6. ASSUME NEW e \in Executions, StopRead(e)
      PROVE  RowsInv'
  <2>1. /\ UNCHANGED <<run, db, overlooked, aborted, cancelSaves>>
        /\ stops' = [stops EXCEPT ![e] = "read"] /\ stops[e] = "none"
    BY <1>6 DEF StopRead
  <2>2. /\ stops' \in [Executions -> {"none", "read", "before", "during"}]
        /\ \A f \in Executions :
              stops[f] \in {"before", "during"} => stops'[f] \in {"before", "during"}
    BY <1>0, <2>1
  <2> QED
    BY <2>1, <2>2, RowsCancel
<1>7. ASSUME NEW e \in Executions, StopAct(e)
      PROVE  RowsInv'
  <2>1. PICK how \in {"before", "during"} : stops' = [stops EXCEPT ![e] = how]
    BY <1>7 DEF StopAct
  <2>2. /\ stops' \in [Executions -> {"none", "read", "before", "during"}]
        /\ \A f \in Executions :
              stops[f] \in {"before", "during"} => stops'[f] \in {"before", "during"}
    BY <1>0, <2>1
  <2>3. UNCHANGED <<db, overlooked>>
    BY <1>7 DEF StopAct
  <2>4. CASE stopExecution(e) /\ UNCHANGED run
    BY <2>2, <2>3, <2>4, StopCancels, RowsCancel
  <2>5. CASE DropRemoved /\ UNCHANGED <<aborted, cancelSaves>>
    <3>1. ASSUME NEW d \in Calls
          PROVE  /\ run'[d].exec = run[d].exec
                 /\ \/ run'[d].pc = run[d].pc
                    \/ run[d].pc = "queued" /\ run'[d].pc = "removed"
      <4> DEFINE r == run[d]
      <4>1. r \in Call
        BY DEF IInv, CallsOK
      <4>2. run'[d] = r \/ (r.pc = "queued" /\ run'[d] = [r EXCEPT !.pc = "removed"])
        <5>1. Dropped(d) => r.pc = "queued"
          BY DEF Dropped
        <5>2. run'[d] = IF Dropped(d) THEN [r EXCEPT !.pc = "removed"] ELSE r
          BY <2>5 DEF DropRemoved
        <5> QED
          BY <5>1, <5>2
      <4> HIDE DEF r
      <4>3. /\ [r EXCEPT !.pc = "removed"].pc = "removed"
            /\ [r EXCEPT !.pc = "removed"].exec = r.exec
        BY <4>1 DEF Call
      <4> QED
        BY <4>2, <4>3 DEF r
    <3> QED
      BY <2>2, <2>3, <2>5, <3>1, RowsCancel
  <2> QED
    BY <1>7, <2>4, <2>5 DEF StopAct
<1>8. ASSUME NEW e \in Executions, StopWrite(e)
      PROVE  RowsInv'
  <2>1. /\ UNCHANGED <<run, overlooked, aborted, cancelSaves>>
        /\ stops' = [stops EXCEPT ![e] = "none"]
        /\ db' = [db EXCEPT ![e] = "canceled"]
    BY <1>8 DEF StopWrite
  <2>2. /\ stops' \in [Executions -> {"none", "read", "before", "during"}]
        /\ \A f \in Executions :
              /\ db'[f] = db[f] \/ db'[f] = "canceled"
              /\ stops[f] \in {"before", "during"} =>
                    stops'[f] \in {"before", "during"} \/ db'[f] # "running"
    BY <1>0, <2>1 DEF IInv, CallsOK
  <2> QED
    BY <2>1, <2>2, RowsCancel
<1>9. ASSUME NEW e \in Executions, PollWaiting(e)
      PROVE  RowsInv'
  BY <1>1, <1>9 DEF PollWaiting
<1>10. CASE BeginShutdown
  BY <1>1, <1>10 DEF BeginShutdown
<1>11. CASE Drain
  <2>1. UNCHANGED <<run, db, stops, overlooked>> /\ \E engines : Abort(engines)
    BY <1>11 DEF Drain
  <2> QED
    BY <1>0, <2>1, RowsCancel
<1>12. CASE Exit \/ Crash
  BY <1>12, RowsNewProcess DEF Exit, Crash
<1>13. CASE UNCHANGED vars
  BY <1>1, <1>13 DEF vars, execVars
<1> QED
  BY <1>2, <1>3, <1>4, <1>5, <1>6, <1>7, <1>8, <1>9, <1>10, <1>11, <1>12, <1>13 DEF Next

(* While the process serves, a row that says running is being run, or a    *)
(* write that cancels it is on its way, whatever stops, timeouts and        *)
(* shutdowns cancel and whenever it crashes; but for the rows recovery     *)
(* passed over, and those of calls that threw where nothing is caught.     *)
THEOREM NoRowLeftRunning == Spec => []NoOrphanRunning
<1>1. Init => IInv /\ RowsInv
  BY InitEstablishes, InitRows
<1>2. IInv /\ RowsInv /\ [Next]_vars => (IInv /\ RowsInv)'
  BY NextKeeps, RowsNext
<1>3. IInv /\ RowsInv => NoOrphanRunning
  BY DEF RowsInv, RunningAccounted, Accounted, NoOrphanRunning
<1> QED
  BY <1>1, <1>2, <1>3, PTL DEF Spec
=============================================================================
