----------------------------- MODULE Leadership ------------------------------
(***************************************************************************)
(* The election of a leader among the main processes of a multi-main       *)
(* setup (MultiMainSetup).  The leader is the main whose host id is in the *)
(* leader key, a Redis key with a time to live.  Every main checks the key *)
(* at an interval: the leader renews it, the others take it when it is     *)
(* vacant.  Losing and gaining the key is announced to the services of the *)
(* process ("leader-stepdown", "leader-takeover") once their handlers are  *)
(* registered.                                                             *)
(*                                                                         *)
(* A command to Redis is sent, executed, and its reply handled in three    *)
(* steps; the connection of a main keeps them in order.  Time is left out: *)
(* the key of a main that is up expires at most MaxLapses times (a stalled *)
(* event loop or Redis), that of a main that is gone expires at some time. *)
(***************************************************************************)
EXTENDS Naturals, Sequences, FiniteSets

CONSTANTS
    Mains,
    MaxBoots,    \* bound on the starts of each main
    MaxLapses,   \* bound on the expiries of the key of a main that is up
    MaxChecks,   \* [Mains -> bound on the checks of it under way at once]
    KeepsHostId, \* the host id survives a restart (in Docker: the host name)
    NoId

ASSUME LeadershipAssumption ==
    /\ MaxBoots \in Nat /\ MaxLapses \in Nat /\ MaxChecks \in [Mains -> Nat]
    /\ KeepsHostId \in BOOLEAN
    /\ NoId \notin Mains \X Nat

VARIABLES
    key,        \* the host id in the leader key, or NoId
    phase,      \* [Mains -> Phases]
    role,       \* [Mains -> Roles], instanceRole
    registered, \* mains that have registered the handlers of the events
    told,       \* [Mains -> what the wait tracker was last told]
    boots,      \* [Mains -> number of starts]
    calls,      \* [Mains -> Seq(Sent \cup Replied)], one per check under way
    lapsed,     \* mains whose host id has left the key since they set it
    doubled,    \* mains of which two attempts were under way at once, and one still is
    lapses

process == <<phase, registered, boots>>
checks == <<calls, doubled>>
vars == <<key, phase, role, registered, told, boots, checks, lapsed, lapses>>
-----------------------------------------------------------------------------
Phases == {"down", "starting", "up", "stopping"}
Roles == {"unset", "leader", "follower"}
Sent == {"get", "set", "expire", "del"}
Replied == {"own", "other", "vacant", "ok", "taken", "renewed", "cleared"}
HostIds == Mains \X Nat

TypeOK ==
    /\ key \in HostIds \cup {NoId}
    /\ phase \in [Mains -> Phases]
    /\ role \in [Mains -> Roles]
    /\ registered \in SUBSET Mains
    /\ told \in [Mains -> Roles \cup {"nothing"}]
    /\ boots \in [Mains -> Nat]
    /\ calls \in [Mains -> Seq(Sent \cup Replied)]
    /\ lapsed \in SUBSET Mains /\ doubled \in SUBSET Mains
    /\ lapses \in Nat

(* Hostname-based in Docker, a new nano id on every start otherwise.       *)
hostId(m) == <<m, IF KeepsHostId THEN 0 ELSE boots[m]>>

HeldBy(m) == phase[m] # "down" /\ key = hostId(m)

Init ==
    /\ key = NoId
    /\ phase = [m \in Mains |-> "down"]
    /\ role = [m \in Mains |-> "unset"]
    /\ registered = {}
    /\ told = [m \in Mains |-> "nothing"]
    /\ boots = [m \in Mains |-> 0]
    /\ calls = [m \in Mains |-> <<>>]
    /\ lapsed = {} /\ doubled = {}
    /\ lapses = 0
-----------------------------------------------------------------------------
(* The attempts of a main to take the key that are under way.              *)
Attempts == {"set", "ok", "taken"}
attempts(s) == {i \in DOMAIN s : s[i] \in Attempts}

GoesOnWith(m, s) ==
    /\ calls' = [calls EXCEPT ![m] = s]
    /\ doubled' = IF attempts(s) = {} THEN doubled \ {m}
                  ELSE IF \E i, j \in attempts(s) : i # j THEN doubled \cup {m}
                  ELSE doubled
-----------------------------------------------------------------------------
(* The process *)

(* initOrchestration awaits init, which sends the first attempt.           *)
Boot(m) ==
    /\ phase[m] = "down" /\ boots[m] < MaxBoots
    /\ boots' = [boots EXCEPT ![m] = @ + 1]
    /\ phase' = [phase EXCEPT ![m] = "starting"]
    /\ GoesOnWith(m, <<"set">>)
    /\ lapsed' = lapsed \ {m}
    /\ UNCHANGED <<key, role, registered, told, lapses>>

(* WaitTracker.init starts tracking if this main is the leader by then.    *)
InitServices(m) ==
    /\ phase[m] = "up" /\ told[m] = "nothing"
    /\ told' = [told EXCEPT ![m] = role[m]]
    /\ UNCHANGED <<key, role, process, checks, lapsed, lapses>>

registerEventHandlers(m) ==
    /\ phase[m] = "up" /\ told[m] # "nothing" /\ m \notin registered
    /\ registered' = registered \cup {m}
    /\ UNCHANGED <<key, phase, role, told, boots, checks, lapsed, lapses>>

Exit(m) ==
    /\ phase' = [phase EXCEPT ![m] = "down"]
    /\ role' = [role EXCEPT ![m] = "unset"]
    /\ told' = [told EXCEPT ![m] = "nothing"]
    /\ registered' = registered \ {m}
    /\ GoesOnWith(m, <<>>)
    /\ UNCHANGED <<key, boots, lapsed, lapses>>

(* A crash, at any point, of a main that can still be started again.       *)
Crash(m) == phase[m] # "down" /\ boots[m] < MaxBoots /\ Exit(m)

(* No further check starts; checks under way go on.  A follower goes on to *)
(* close the connection, a leader once the key is cleared.                 *)
shutdown(m) ==
    /\ phase[m] = "up" /\ m \in registered /\ boots[m] < MaxBoots
    /\ IF role[m] = "leader"
       THEN /\ phase' = [phase EXCEPT ![m] = "stopping"]
            /\ GoesOnWith(m, Append(calls[m], "del"))
            /\ UNCHANGED <<key, role, registered, told, boots, lapsed, lapses>>
       ELSE Exit(m)
-----------------------------------------------------------------------------
(* Redis *)

LoseKey == key' = NoId /\ lapsed' = lapsed \cup {key[1]}

setIfNotExists(m) == key = NoId /\ key' = hostId(m) /\ lapsed' = lapsed \ {m}

(* The first command of the connection that has no reply yet.              *)
Execute(m) == \E i \in DOMAIN calls[m] :
    LET cmd == calls[m][i]
        Reply(r) == calls' = [calls EXCEPT ![m][i] = r]
    IN  /\ cmd \in Sent
        /\ \A j \in 1..(i - 1) : calls[m][j] \in Replied
        /\ \/ /\ cmd = "get"
              /\ Reply(CASE key = NoId -> "vacant"
                         [] key = hostId(m) -> "own"
                         [] OTHER -> "other")
              /\ UNCHANGED <<key, lapsed>>
           \/ /\ cmd = "set" /\ setIfNotExists(m)
              /\ Reply("ok")
           \/ /\ cmd = "set" /\ key # NoId
              /\ Reply("taken")
              /\ UNCHANGED <<key, lapsed>>
           \/ /\ cmd = "expire"                  \* whoever's key it is by now
              /\ Reply("renewed")
              /\ UNCHANGED <<key, lapsed>>
           \/ /\ cmd = "del"                     \* whoever's key it is by now
              /\ IF key = NoId THEN UNCHANGED <<key, lapsed>> ELSE LoseKey
              /\ Reply("cleared")
        /\ UNCHANGED <<role, told, process, doubled, lapses>>

ExpireAbandoned ==
    /\ key # NoId /\ \A m \in Mains : ~HeldBy(m)
    /\ LoseKey
    /\ UNCHANGED <<role, told, process, checks, lapses>>

ExpireUnrenewed ==
    /\ \E m \in Mains : HeldBy(m)
    /\ lapses < MaxLapses
    /\ lapses' = lapses + 1
    /\ LoseKey
    /\ UNCHANGED <<role, told, process, checks>>
-----------------------------------------------------------------------------
(* The checks *)

(* setInterval does not wait for the check before to end.                  *)
checkLeader(m) ==
    /\ phase[m] = "up" /\ Len(calls[m]) < MaxChecks[m]
    /\ GoesOnWith(m, Append(calls[m], "get"))
    /\ UNCHANGED <<key, role, told, process, lapsed, lapses>>

(* Mutant: the handlers get the name of the event. *)
emitName(m, r) == told' = IF m \in registered THEN [told EXCEPT ![m] = "leader-stepdown"] ELSE told

emit(m, r) == told' = IF m \in registered THEN [told EXCEPT ![m] = r] ELSE told

Follow(m) == role' = [role EXCEPT ![m] = "follower"] /\ emit(m, "follower")
Pop(m) == GoesOnWith(m, Tail(calls[m]))
Send(m, cmd) == GoesOnWith(m, Append(Tail(calls[m]), cmd))
Got(m, reply) == calls[m] # <<>> /\ Head(calls[m]) = reply

(* checkLeader goes on with the value of the key.                          *)
GotOwn(m) ==
    /\ Got(m, "own") /\ Send(m, "expire")
    /\ UNCHANGED <<key, role, told, process, lapsed, lapses>>

GotOther(m) ==
    /\ Got(m, "other") /\ Pop(m)
    /\ IF role[m] = "leader" THEN Follow(m) ELSE UNCHANGED <<role, told>>
    /\ UNCHANGED <<key, process, lapsed, lapses>>

(* Mutant: the services do not hear of a vacant key. *)
GotVacantSilently(m) ==
    /\ Got(m, "vacant") /\ role' = [role EXCEPT ![m] = "follower"] /\ Send(m, "set")
    /\ UNCHANGED <<key, told, process, lapsed, lapses>>

(* Mutant: the next check will tell. *)
GotVacantWaiting(m) ==
    /\ Got(m, "vacant") /\ Follow(m) /\ Pop(m)
    /\ UNCHANGED <<key, process, lapsed, lapses>>

GotVacant(m) ==
    /\ Got(m, "vacant") /\ Follow(m) /\ Send(m, "set")
    /\ UNCHANGED <<key, process, lapsed, lapses>>

Renewed(m) ==
    /\ Got(m, "renewed") /\ Pop(m)
    /\ UNCHANGED <<key, role, told, process, lapsed, lapses>>

(* init ends with the reply to its attempt, and the checks begin.          *)
Checking(m) ==
    /\ phase' = IF phase[m] = "starting" THEN [phase EXCEPT ![m] = "up"] ELSE phase
    /\ Pop(m)
    /\ UNCHANGED <<key, registered, boots, lapsed, lapses>>

(* tryBecomeLeader goes on: with the key, *)
SetKey(m) ==
    /\ Got(m, "ok") /\ Checking(m)
    /\ role' = [role EXCEPT ![m] = "leader"]
    /\ emit(m, "leader")

(* Mutant: the reply is not looked at. *)
KeyTakenUnseen(m) ==
    /\ Got(m, "taken") /\ Checking(m)
    /\ role' = [role EXCEPT ![m] = "leader"]
    /\ emit(m, "leader")

(* or without, and then nothing is emitted.                                *)
KeyTaken(m) ==
    /\ Got(m, "taken") /\ Checking(m)
    /\ role' = [role EXCEPT ![m] = "follower"]
    /\ UNCHANGED told

Cleared(m) == Got(m, "cleared") /\ Exit(m)
-----------------------------------------------------------------------------
Handle(m) == GotOwn(m) \/ GotOther(m) \/ GotVacant(m) \/ Renewed(m)
             \/ SetKey(m) \/ KeyTaken(m) \/ Cleared(m)

Start(m) == Boot(m) \/ InitServices(m) \/ registerEventHandlers(m)

Next ==
    \/ ExpireAbandoned \/ ExpireUnrenewed
    \/ \E m \in Mains : \/ Start(m) \/ Crash(m) \/ shutdown(m)
                        \/ checkLeader(m) \/ Execute(m) \/ Handle(m)

Spec == Init /\ [][Next]_vars

(* A process that is down is started, its startup and its event loop go    *)
(* on, its interval fires, Redis answers, and keys expire.                 *)
Fairness ==
    /\ WF_vars(ExpireAbandoned)
    /\ \A m \in Mains : /\ WF_vars(Start(m)) /\ WF_vars(checkLeader(m))
                        /\ WF_vars(Execute(m)) /\ WF_vars(Handle(m))

LiveSpec == Spec /\ Fairness
-----------------------------------------------------------------------------
(* Whoever believes to be the leader, is about to (its attempt succeeded), *)
(* or is about to clear the key on shutdown, holds the key or has held and *)
(* lost it: markAsLeader follows a successful attempt only, whatever       *)
(* checks of other mains are answered in between.                          *)
Claims(m) == role[m] = "leader" \/ \E i \in DOMAIN calls[m] : calls[m][i] \in {"ok", "del"}
LeaderHeldKey == \A m \in Mains : Claims(m) => key = hostId(m) \/ m \in lapsed

(* Two mains believe to be the leader only while one of them has yet to    *)
(* find out that its key has lapsed: triggers and pollers then run twice.  *)
TwoLeadersOnlyAfterLapse == \A m, n \in Mains :
    m # n /\ role[m] = "leader" /\ role[n] = "leader" => m \in lapsed \/ n \in lapsed

(* Once its handlers are registered, a main announces every change of its  *)
(* role to its services.  KeyTaken is silent: the check it is part of has  *)
(* made the main a follower already, unless another check has taken the    *)
(* key in between, which takes two checks that found the key vacant and    *)
(* tried to take it at once.                                               *)
RoleChangesAreTold == [][\A m \in Mains :
    m \in registered /\ m \in registered' /\ role'[m] # role[m]
    => told'[m] = role'[m] \/ m \in doubled]_vars

(* When mains stop crashing and keys lapsing, exactly one main is the      *)
(* leader in the end, and it holds the key.  A main that finds its own id  *)
(* in the key renews it and stays what it is, so this takes host ids that  *)
(* do not survive a restart, and no two attempts of a main at once.        *)
LeaderIsDesignated == <>[](\E m \in Mains :
    HeldBy(m) /\ {n \in Mains : role[n] = "leader"} = {m})

LeaderUnlessDoubled == [](doubled = {}) => LeaderIsDesignated
=============================================================================
