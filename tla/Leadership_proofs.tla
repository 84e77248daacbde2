-------------------------- MODULE Leadership_proofs --------------------------
(***************************************************************************)
(* LeaderHeldKey is inductive together with the types and the fact that a  *)
(* process that is down has no role and no calls: an attempt succeeds on a *)
(* vacant key only, so every other main that claims the leadership has     *)
(* lost the key by then, and what takes a key away marks its owner.        *)
(* RoleChangesAreTold follows from when a leader can have an attempt under *)
(* way: it had two of them at once.                                        *)
(***************************************************************************)
EXTENDS Leadership, TLAPS

DownIsQuiet == \A m \in Mains : phase[m] = "down" => role[m] = "unset" /\ calls[m] = <<>>

IInv == TypeOK /\ DownIsQuiet /\ LeaderHeldKey

(* The types and the role of a process that is down, step by step.         *)
LEMMA TypeStep == TypeOK /\ DownIsQuiet /\ [Next]_vars => TypeOK' /\ DownIsQuiet'
<1> SUFFICES ASSUME TypeOK, DownIsQuiet, [Next]_vars
             PROVE  TypeOK' /\ DownIsQuiet'
    OBVIOUS
<1> USE LeadershipAssumption DEF TypeOK, DownIsQuiet, Phases, Roles, Sent, Replied,
        process, HostIds, checks, GoesOnWith
<1>1. CASE ExpireAbandoned
    BY <1>1 DEF ExpireAbandoned, LoseKey
<1>2. CASE ExpireUnrenewed
    <2>1. PICK m \in Mains : key = hostId(m)
        BY <1>2 DEF ExpireUnrenewed, HeldBy
    <2> QED BY <1>2, <2>1 DEF ExpireUnrenewed, LoseKey, hostId
<1>3. ASSUME NEW m \in Mains, Start(m) PROVE TypeOK' /\ DownIsQuiet'
    <2>1. CASE Boot(m)
        BY <2>1 DEF Boot
    <2>2. CASE InitServices(m)
        BY <2>2 DEF InitServices
    <2>3. CASE registerEventHandlers(m)
        BY <2>3 DEF registerEventHandlers
    <2> QED BY <1>3, <2>1, <2>2, <2>3 DEF Start
<1>4. ASSUME NEW m \in Mains, Exit(m) PROVE TypeOK' /\ DownIsQuiet'
    BY <1>4 DEF Exit
<1>5. ASSUME NEW m \in Mains, shutdown(m) PROVE TypeOK' /\ DownIsQuiet'
    <2>1. CASE role[m] = "leader"
        <3>1. calls' = [calls EXCEPT ![m] = Append(@, "del")] /\ phase[m] = "up"
            BY <1>5, <2>1 DEF shutdown
        <3>2. Append(calls[m], "del") \in Seq(Sent \cup Replied)
            OBVIOUS
        <3>3. /\ UNCHANGED <<key, role, registered, told, boots, lapsed, lapses>>
              /\ phase' = [phase EXCEPT ![m] = "stopping"] /\ doubled' \in SUBSET Mains
            BY <1>5, <2>1 DEF shutdown
        <3> QED BY <3>1, <3>2, <3>3
    <2> QED BY <1>4, <1>5, <2>1 DEF shutdown
<1>6. ASSUME NEW m \in Mains, checkLeader(m) PROVE TypeOK' /\ DownIsQuiet'
    BY <1>6 DEF checkLeader
<1>7. ASSUME NEW m \in Mains, Execute(m) PROVE TypeOK' /\ DownIsQuiet'
    <2>1. PICK i \in DOMAIN calls[m] : Execute(m)!(i)
        BY <1>7 DEF Execute
    <2>2. hostId(m) \in HostIds
        BY DEF hostId
    <2>3. PICK r \in Replied : calls' = [calls EXCEPT ![m][i] = r]
        BY <2>1
    <2>4. calls'[m] \in Seq(Sent \cup Replied)
        BY <2>3
    <2>5. key' \in HostIds \cup {NoId} /\ lapsed' \in SUBSET Mains
        BY <2>1, <2>2 DEF LoseKey, setIfNotExists
    <2> QED BY <2>1, <2>3, <2>4, <2>5
<1>8. ASSUME NEW m \in Mains, Handle(m) PROVE TypeOK' /\ DownIsQuiet'
    <2>0. Tail(calls[m]) \in Seq(Sent \cup Replied)
          /\ Append(Tail(calls[m]), "set") \in Seq(Sent \cup Replied) /\ phase[m] # "down"
        BY <1>8 DEF Handle, GotOwn, GotOther, GotVacant, Renewed, SetKey, KeyTaken, Cleared, Got
    <2> USE DEF Got, Pop, Send, emit, Follow, Checking
    <2>1. CASE GotOwn(m)
        BY <2>1 DEF GotOwn
    <2>2. CASE GotOther(m)
        BY <2>0, <2>2 DEF GotOther
    <2>3. CASE GotVacant(m)
        BY <2>0, <2>3 DEF GotVacant
    <2>4. CASE Renewed(m)
        BY <2>4 DEF Renewed
    <2>5. CASE SetKey(m)
        BY <2>0, <2>5 DEF SetKey
    <2>6. CASE KeyTaken(m)
        BY <2>0, <2>6 DEF KeyTaken
    <2>7. CASE Cleared(m)
        BY <1>4, <2>7 DEF Cleared
    <2> QED BY <1>8, <2>1, <2>2, <2>3, <2>4, <2>5, <2>6, <2>7 DEF Handle
<1>9. CASE UNCHANGED vars
    BY <1>9 DEF vars
<1> QED BY <1>1, <1>2, <1>3, <1>4, <1>5, <1>6, <1>7, <1>8, <1>9 DEF Next, Crash

(* A main claims no more than before when its calls lose their head, or    *)
(* get a call at their end that is no claim, and its role is no new one.   *)
LEMMA NoNewClaim ==
    ASSUME TypeOK, NEW m \in Mains,
           role'[m] = "leader" => Claims(m),
           \/ calls'[m] = calls[m] \/ calls'[m] = <<>>
           \/ calls[m] # <<>> /\ calls'[m] = Tail(calls[m])
           \/ \E c \in {"get", "set", "expire"} :
                 \/ calls'[m] = Append(calls[m], c)
                 \/ calls[m] # <<>> /\ calls'[m] = Append(Tail(calls[m]), c)
    PROVE  Claims(m)' => Claims(m)
<1> SUFFICES ASSUME NEW i \in DOMAIN calls'[m], calls'[m][i] \in {"ok", "del"}
             PROVE  Claims(m)
    BY DEF Claims
<1>1. calls[m] \in Seq(Sent \cup Replied)
    BY DEF TypeOK
<1>2. \E j \in DOMAIN calls[m] : calls[m][j] = calls'[m][i]
    <2>1. CASE calls'[m] = calls[m] \/ calls'[m] = <<>>
        BY <2>1
    <2>2. CASE calls[m] # <<>> /\ calls'[m] = Tail(calls[m])
        BY <1>1, <2>2
    <2>3. ASSUME NEW c \in {"get", "set", "expire"}, calls'[m] = Append(calls[m], c)
          PROVE  calls'[m][i] = calls[m][i] /\ i \in DOMAIN calls[m]
        BY <1>1, <2>3
    <2>4. ASSUME NEW c \in {"get", "set", "expire"}, calls[m] # <<>>,
                 calls'[m] = Append(Tail(calls[m]), c)
          PROVE  calls'[m][i] = calls[m][i + 1] /\ i + 1 \in DOMAIN calls[m]
        BY <1>1, <2>4
    <2> QED BY <2>1, <2>2, <2>3, <2>4
<1> QED BY <1>2 DEF Claims

(* The key changes hands only as LeaderHeldKey allows.                     *)
LEMMA ExecuteStep ==
    ASSUME IInv, NEW m \in Mains, Execute(m)
    PROVE  LeaderHeldKey'
<1>1. PICK i \in DOMAIN calls[m] : Execute(m)!(i)
    BY DEF Execute
<1>2. calls[m] \in Seq(Sent \cup Replied) /\ role' = role /\ UNCHANGED <<boots, phase>>
    BY <1>1 DEF IInv, TypeOK, process
<1>3. \A n \in Mains : hostId(n)' = hostId(n) /\ hostId(n)[1] = n /\ hostId(n) # NoId
    BY <1>2, LeadershipAssumption DEF hostId, IInv, TypeOK
<1>4. PICK r \in Replied : calls' = [calls EXCEPT ![m][i] = r] /\ (r = "ok" => key' = hostId(m))
    BY <1>1 DEF Replied, setIfNotExists
<1> SUFFICES ASSUME NEW n \in Mains, Claims(n)'
             PROVE  key' = hostId(n) \/ n \in lapsed'
    BY <1>3 DEF LeaderHeldKey
<1>5. CASE n = m /\ r = "ok"
    BY <1>4, <1>5
<1>6. CASE n # m \/ r # "ok"
    <2>1. Claims(n)
        <3>1. CASE role'[n] = "leader"
            BY <1>2, <3>1 DEF Claims
        <3>2. ASSUME NEW j \in DOMAIN calls'[n], calls'[n][j] \in {"ok", "del"}
              PROVE  j \in DOMAIN calls[n] /\ calls[n][j] \in {"ok", "del"}
            BY <1>2, <1>4, <1>6, <3>2 DEF IInv, TypeOK, Replied
        <3> QED BY <3>1, <3>2 DEF Claims
    <2>2. key = hostId(n) \/ n \in lapsed
        BY <2>1 DEF IInv, LeaderHeldKey
    <2>3. CASE UNCHANGED <<key, lapsed>>
        BY <2>2, <2>3
    <2>4. CASE LoseKey
        BY <1>3, <2>2, <2>4 DEF LoseKey
    <2>5. CASE key = NoId /\ key' = hostId(m) /\ lapsed' = lapsed \ {m}
        BY <1>3, <2>2, <2>5
    <2> QED BY <1>1, <2>3, <2>4, <2>5 DEF setIfNotExists
<1> QED BY <1>5, <1>6

LEMMA KeyStep == IInv /\ [Next]_vars => LeaderHeldKey'
<1> SUFFICES ASSUME IInv, [Next]_vars PROVE LeaderHeldKey'
    OBVIOUS
<1> USE DEF GoesOnWith, checks
<1>1. \A m \in Mains : boots'[m] = boots[m] => hostId(m)' = hostId(m)
    BY DEF hostId
<1>2. ASSUME LoseKey, UNCHANGED <<role, process, calls>> PROVE LeaderHeldKey'
    BY <1>1, <1>2 DEF LoseKey, process, IInv, LeaderHeldKey, Claims, hostId
<1>3. ASSUME UNCHANGED <<key, lapsed, boots>>,
             NEW m \in Mains, Claims(m)' => Claims(m),
             \A n \in Mains \ {m} : role'[n] = role[n] /\ calls'[n] = calls[n]
      PROVE  LeaderHeldKey'
    BY <1>1, <1>3 DEF IInv, LeaderHeldKey, Claims
<1>4. ASSUME NEW m \in Mains, Start(m) PROVE LeaderHeldKey'
    <2>1. CASE Boot(m)
        <3>1. ~Claims(m)'
            BY <2>1 DEF Boot, IInv, TypeOK, DownIsQuiet, Claims
        <3>2. \A n \in Mains \ {m} : hostId(n)' = hostId(n) /\ (Claims(n)' <=> Claims(n))
            BY <1>1, <2>1 DEF Boot, IInv, TypeOK, Claims
        <3> QED BY <2>1, <3>1, <3>2 DEF Boot, IInv, LeaderHeldKey
    <2>2. CASE InitServices(m) \/ registerEventHandlers(m)
        BY <1>1, <2>2 DEF InitServices, registerEventHandlers, process, IInv, LeaderHeldKey, Claims
    <2> QED BY <1>4, <2>1, <2>2 DEF Start
<1>5. ASSUME NEW m \in Mains, Exit(m) PROVE LeaderHeldKey'
    <2>1. ~Claims(m)'
        BY <1>5 DEF Exit, Claims, IInv, TypeOK
    <2> QED BY <1>3, <1>5, <2>1 DEF Exit, IInv, TypeOK
<1>6. ASSUME NEW m \in Mains, shutdown(m) PROVE LeaderHeldKey'
    <2>1. CASE role[m] = "leader"
        <3>1. Claims(m)
            BY <2>1 DEF Claims
        <3> QED BY <1>3, <1>6, <2>1, <3>1 DEF shutdown, IInv, TypeOK
    <2> QED BY <1>5, <1>6, <2>1 DEF shutdown
<1>7. ASSUME NEW m \in Mains, checkLeader(m) PROVE LeaderHeldKey'
    <2>1. Claims(m)' => Claims(m)
        BY <1>7, NoNewClaim DEF checkLeader, IInv, TypeOK, Claims
    <2> QED BY <1>3, <1>7, <2>1 DEF checkLeader, process, IInv, TypeOK
<1>8. ASSUME NEW m \in Mains, Handle(m) PROVE LeaderHeldKey'
    <2> USE DEF Got, Pop, Send, Follow, Checking, IInv, TypeOK, process
    <2>1. CASE Cleared(m)
        BY <1>5, <2>1 DEF Cleared
    <2>2. CASE SetKey(m)
        <3>1. 1 \in DOMAIN calls[m] /\ calls[m][1] = "ok"
            BY <2>2 DEF SetKey
        <3>2. Claims(m)
            BY <3>1 DEF Claims
        <3> QED BY <1>3, <2>2, <3>2 DEF SetKey
    <2>3. CASE GotOwn(m) \/ GotOther(m) \/ GotVacant(m) \/ Renewed(m) \/ KeyTaken(m)
        <3> USE DEF GotOwn, GotOther, GotVacant, Renewed, KeyTaken
        <3>1. role'[m] = "leader" => Claims(m)
            BY <2>3 DEF Claims
        <3>2. Claims(m)' => Claims(m)
            BY <2>3, <3>1, NoNewClaim
        <3>3. \A n \in Mains \ {m} : role'[n] = role[n] /\ calls'[n] = calls[n]
            BY <2>3
        <3> QED BY <1>3, <2>3, <3>2, <3>3
    <2> QED BY <1>8, <2>1, <2>2, <2>3 DEF Handle
<1>9. CASE UNCHANGED vars
    BY <1>1, <1>9 DEF vars, IInv, LeaderHeldKey, Claims
<1> QED BY <1>2, <1>4, <1>5, <1>6, <1>7, <1>8, <1>9, ExecuteStep
        DEF Next, Crash, ExpireAbandoned, ExpireUnrenewed, process
-----------------------------------------------------------------------------
(* The inductive invariant holds throughout. *)
LEMMA Invariant == Spec => []IInv
<1>1. Init => IInv
    BY LeadershipAssumption
       DEF Init, IInv, TypeOK, DownIsQuiet, LeaderHeldKey, Claims, Phases, Roles
<1>2. IInv /\ [Next]_vars => IInv'
    BY TypeStep, KeyStep DEF IInv
<1> QED BY <1>1, <1>2, PTL DEF Spec

(* State stays well-typed: the key holds a host id or nothing, and a       *)
(* connection the commands of checks that are under way.                   *)
THEOREM LeadershipTypes == Spec => []TypeOK
<1>1. IInv => TypeOK
    BY DEF IInv
<1> QED BY <1>1, Invariant, PTL

(* For any number of mains, checks under way, crashes, lapses of the key   *)
(* and shutdowns: who claims the leadership has, or had, set the key.      *)
THEOREM LeaderHeldKeyAlways == Spec => []LeaderHeldKey
<1>1. IInv => LeaderHeldKey
    BY DEF IInv
<1> QED BY <1>1, Invariant, PTL

(* Two mains are leaders at once only while one of them has lost its key   *)
(* without having learnt of it.                                            *)
THEOREM TwoLeadersTheorem == Spec => []TwoLeadersOnlyAfterLapse
<1>1. LeaderHeldKey => TwoLeadersOnlyAfterLapse
    BY DEF LeaderHeldKey, TwoLeadersOnlyAfterLapse, Claims, hostId
<1> QED BY <1>1, LeaderHeldKeyAlways, PTL
-----------------------------------------------------------------------------
(* The role changes silently only where tryBecomeLeader finds the key      *)
(* taken.  By then the main has been a follower since the check found the  *)
(* key vacant, or a leader since another attempt of it succeeded, which    *)
(* was under way at the same time.                                         *)
Two(s) == \E i, j \in attempts(s) : i # j

Attempted(m) ==
    /\ Two(calls[m]) => m \in doubled
    /\ role[m] = "leader" /\ attempts(calls[m]) # {} => m \in doubled
    /\ m \in registered => phase[m] \in {"up", "stopping"}
    /\ phase[m] \in {"up", "stopping"} => role[m] # "unset"

AttemptedEach == \A m \in Mains : Attempted(m)

(* What leaves a main alone leaves its attempts alone.                     *)
LEMMA OthersAttempted ==
    ASSUME AttemptedEach, NEW m \in Mains, Attempted(m)',
           \A n \in Mains \ {m} : /\ phase'[n] = phase[n] /\ role'[n] = role[n]
                                  /\ calls'[n] = calls[n]
                                  /\ n \in registered' <=> n \in registered
                                  /\ n \in doubled' <=> n \in doubled
    PROVE  AttemptedEach'
<1> SUFFICES ASSUME NEW n \in Mains PROVE Attempted(n)'
    BY DEF AttemptedEach
<1> QED BY DEF AttemptedEach, Attempted, Two

(* The attempts of the calls without their head, and with one more call.   *)
LEMMA AttemptsOf ==
    ASSUME NEW s \in Seq(Sent \cup Replied), NEW c, c \notin Attempts
    PROVE  /\ attempts(Append(s, c)) = attempts(s)
           /\ s # <<>> => /\ Tail(s) \in Seq(Sent \cup Replied)
                          /\ attempts(Tail(s)) # {} => attempts(s) # {}
                          /\ Head(s) \in Attempts /\ attempts(Tail(s)) # {} => Two(s)
<1>1. attempts(Append(s, c)) = attempts(s)
    <2>1. /\ DOMAIN Append(s, c) = 1 .. Len(s) + 1 /\ DOMAIN s = 1 .. Len(s) /\ Len(s) \in Nat
          /\ Append(s, c)[Len(s) + 1] = c /\ \A i \in DOMAIN s : Append(s, c)[i] = s[i]
        OBVIOUS
    <2> QED BY <2>1 DEF attempts
<1>2. ASSUME s # <<>>, NEW i \in attempts(Tail(s))
      PROVE  i + 1 \in attempts(s) /\ (Head(s) \in Attempts => Two(s))
    <2>1. /\ i \in 1 .. Len(s) - 1 /\ Tail(s)[i] = s[i + 1] /\ Tail(s)[i] \in Attempts
          /\ Head(s) = s[1] /\ 1 \in DOMAIN s /\ i + 1 \in DOMAIN s /\ i + 1 # 1
        BY <1>2 DEF attempts
    <2>2. i + 1 \in attempts(s)
        BY <2>1 DEF attempts
    <2>3. Head(s) \in Attempts => 1 \in attempts(s)
        BY <2>1 DEF attempts
    <2> QED BY <2>1, <2>2, <2>3 DEF Two
<1> QED BY <1>1, <1>2

(* The calls of a main become s: two attempts are noted.                   *)
LEMMA Noted ==
    ASSUME TypeOK, NEW m \in Mains, NEW s, GoesOnWith(m, s)
    PROVE  /\ calls'[m] = s /\ \A n \in Mains \ {m} : calls'[n] = calls[n] /\ (n \in doubled' <=> n \in doubled)
           /\ Two(s) => m \in doubled'
           /\ m \in doubled /\ attempts(s) # {} => m \in doubled'
<1>1. Two(s) => attempts(s) # {}
    BY DEF Two
<1> QED BY <1>1 DEF GoesOnWith, Two, TypeOK

(* The step of a main that leaves it with the calls s.                     *)
LEMMA AttemptedThen ==
    ASSUME TypeOK, AttemptedEach, NEW m \in Mains, NEW s, GoesOnWith(m, s),
           role'[m] = "leader" /\ attempts(s) # {} => m \in doubled \/ Two(s),
           m \in registered' => phase'[m] \in {"up", "stopping"},
           phase'[m] \in {"up", "stopping"} => role'[m] # "unset",
           \A n \in Mains \ {m} : /\ phase'[n] = phase[n] /\ role'[n] = role[n]
                                  /\ n \in registered' <=> n \in registered
    PROVE  AttemptedEach'
<1>1. Attempted(m)'
    <2>1. calls'[m] = s /\ (Two(s) => m \in doubled') /\ (m \in doubled /\ attempts(s) # {} => m \in doubled')
        BY Noted
    <2> QED BY <2>1 DEF Attempted, Two, attempts
<1> QED BY <1>1, Noted, OthersAttempted

(* A check that is handled.                                                *)
LEMMA AttemptedHandled ==
    ASSUME TypeOK, AttemptedEach, NEW m \in Mains, Handle(m)
    PROVE  AttemptedEach'
<1> DEFINE s == calls[m]
           t == Tail(s)
<1>0. /\ Attempted(m) /\ s \in Seq(Sent \cup Replied) /\ phase[m] \in Phases
      /\ role \in [Mains -> Roles] /\ phase \in [Mains -> Phases]
    BY DEF AttemptedEach, TypeOK
<1>1. s # <<>>
    BY DEF Handle, GotOwn, GotOther, GotVacant, Renewed, SetKey, KeyTaken, Cleared, Got
<1>2. "expire" \notin Attempts /\ "ok" \in Attempts
    BY DEF Attempts
<1>3. /\ attempts(t) # {} => attempts(s) # {}
      /\ Head(s) \in Attempts /\ attempts(t) # {} => Two(s)
      /\ attempts(Append(t, "expire")) = attempts(t)
    <2>1. t \in Seq(Sent \cup Replied)
        BY <1>0, <1>1
    <2>2. attempts(Append(t, "expire")) = attempts(t)
        BY <1>2, <2>1, AttemptsOf
    <2> QED BY <1>0, <1>1, <1>2, <2>2, AttemptsOf
<1>4. role[m] = "leader" /\ attempts(t) # {} => m \in doubled
    BY <1>0, <1>3 DEF Attempted
<1>5. CASE GotOwn(m)
    <2>1. GoesOnWith(m, Append(t, "expire")) /\ UNCHANGED <<role, phase, registered>>
        BY <1>5 DEF GotOwn, Send, process
    <2> QED BY <1>0, <1>3, <1>4, <2>1, AttemptedThen DEF Attempted
<1>6. CASE GotOther(m) \/ Renewed(m)
    <2>1. /\ GoesOnWith(m, t) /\ UNCHANGED <<phase, registered>>
          /\ role' = role \/ role' = [role EXCEPT ![m] = "follower"]
        BY <1>6 DEF GotOther, Renewed, Pop, Follow, process
    <2>2. /\ role'[m] = role[m] \/ role'[m] = "follower"
          /\ \A n \in Mains \ {m} : role'[n] = role[n]
        BY <1>0, <2>1
    <2> QED BY <1>0, <1>4, <2>1, <2>2, AttemptedThen DEF Attempted
<1>7. CASE GotVacant(m)
    <2>1. /\ GoesOnWith(m, Append(t, "set")) /\ UNCHANGED <<phase, registered>>
          /\ role' = [role EXCEPT ![m] = "follower"]
        BY <1>7 DEF GotVacant, Send, Follow, process
    <2>2. role'[m] = "follower" /\ \A n \in Mains \ {m} : role'[n] = role[n]
        BY <1>0, <2>1
    <2> QED BY <1>0, <2>1, <2>2, AttemptedThen DEF Attempted
<1>8. CASE SetKey(m) \/ KeyTaken(m)
    <2>1. /\ GoesOnWith(m, t) /\ UNCHANGED registered
          /\ phase' = IF phase[m] = "starting" THEN [phase EXCEPT ![m] = "up"] ELSE phase
        BY <1>8 DEF SetKey, KeyTaken, Checking, Pop
    <2>2. \/ role' = [role EXCEPT ![m] = "leader"] /\ Head(s) = "ok"
          \/ role' = [role EXCEPT ![m] = "follower"]
        BY <1>8 DEF SetKey, KeyTaken, Got
    <2>3. /\ role'[m] \in {"leader", "follower"} /\ \A n \in Mains \ {m} : role'[n] = role[n]
          /\ role'[m] = "leader" => Head(s) \in Attempts
        BY <1>0, <1>2, <2>2
    <2>4. /\ \A n \in Mains \ {m} : phase'[n] = phase[n]
          /\ phase[m] \in {"up", "stopping"} => phase'[m] \in {"up", "stopping"}
        BY <1>0, <2>1
    <2>5. role'[m] = "leader" /\ attempts(t) # {} => m \in doubled
        BY <1>0, <1>3, <2>3 DEF Attempted
    <2>6. m \in registered' => phase'[m] \in {"up", "stopping"}
        BY <1>0, <2>1, <2>4 DEF Attempted
    <2> QED BY <2>1, <2>3, <2>4, <2>5, <2>6, AttemptedThen
<1>9. CASE Cleared(m)
    <2>1. GoesOnWith(m, <<>>) /\ attempts(<<>>) = {}
        BY <1>9 DEF Cleared, Exit, attempts
    <2> QED BY <1>0, <1>9, <2>1, AttemptedThen DEF Cleared, Exit
<1> QED BY <1>5, <1>6, <1>7, <1>8, <1>9 DEF Handle

(* The other steps of a main, and those of Redis.                          *)
LEMMA AttemptedStep ==
    ASSUME TypeOK, DownIsQuiet, AttemptedEach, [Next]_vars
    PROVE  AttemptedEach'
<1>0. /\ role \in [Mains -> Roles] /\ phase \in [Mains -> Phases]
      /\ calls \in [Mains -> Seq(Sent \cup Replied)]
    BY DEF TypeOK
<1>a. \A m \in Mains : Attempted(m)
    BY DEF AttemptedEach
<1>1. CASE ExpireAbandoned \/ ExpireUnrenewed \/ UNCHANGED vars
    <2>1. UNCHANGED <<role, phase, registered, calls, doubled>>
        BY <1>1 DEF ExpireAbandoned, ExpireUnrenewed, vars, process, checks
    <2> QED BY <2>1 DEF AttemptedEach, Attempted, Two
<1>2. ASSUME NEW m \in Mains, Start(m) PROVE AttemptedEach'
    <2>1. CASE Boot(m)
        <3>1. /\ GoesOnWith(m, <<"set">>) /\ UNCHANGED <<role, registered>>
              /\ phase' = [phase EXCEPT ![m] = "starting"] /\ phase[m] = "down"
            BY <2>1 DEF Boot
        <3>2. role[m] = "unset" /\ m \notin registered
            BY <1>a, <3>1 DEF DownIsQuiet, Attempted
        <3>3. phase'[m] = "starting" /\ \A n \in Mains \ {m} : phase'[n] = phase[n]
            BY <1>0, <3>1
        <3> QED BY <3>1, <3>2, <3>3, AttemptedThen
    <2>2. CASE InitServices(m)
        <3>1. UNCHANGED <<role, phase, registered, calls, doubled>>
            BY <2>2 DEF InitServices, process, checks
        <3> QED BY <3>1 DEF AttemptedEach, Attempted, Two
    <2>3. CASE registerEventHandlers(m)
        <3>1. /\ UNCHANGED <<role, phase, calls, doubled>> /\ phase[m] = "up"
              /\ registered' = registered \cup {m}
            BY <2>3 DEF registerEventHandlers, checks
        <3>2. Attempted(m)'
            BY <1>a, <3>1 DEF Attempted, Two
        <3> QED BY <3>1, <3>2, OthersAttempted
    <2> QED BY <1>2, <2>1, <2>2, <2>3 DEF Start
<1>3. ASSUME NEW m \in Mains, Exit(m) PROVE AttemptedEach'
    <2>1. GoesOnWith(m, <<>>) /\ attempts(<<>>) = {}
        BY <1>3 DEF Exit, attempts
    <2> QED BY <1>0, <1>3, <2>1, AttemptedThen DEF Exit
<1>4. ASSUME NEW m \in Mains, shutdown(m) PROVE AttemptedEach'
    <2>1. CASE role[m] = "leader"
        <3>1. /\ GoesOnWith(m, Append(calls[m], "del")) /\ UNCHANGED <<role, registered>>
              /\ phase' = [phase EXCEPT ![m] = "stopping"]
            BY <1>4, <2>1 DEF shutdown
        <3>2. attempts(Append(calls[m], "del")) = attempts(calls[m])
            BY <1>0, AttemptsOf DEF Attempts
        <3>3. phase'[m] = "stopping" /\ \A n \in Mains \ {m} : phase'[n] = phase[n]
            BY <1>0, <3>1
        <3> QED BY <1>a, <2>1, <3>1, <3>2, <3>3, AttemptedThen DEF Attempted
    <2> QED BY <1>3, <1>4, <2>1 DEF shutdown
<1>5. ASSUME NEW m \in Mains, checkLeader(m) PROVE AttemptedEach'
    <2>1. GoesOnWith(m, Append(calls[m], "get")) /\ UNCHANGED <<role, phase, registered>>
        BY <1>5 DEF checkLeader, process
    <2>2. attempts(Append(calls[m], "get")) = attempts(calls[m])
        BY <1>0, AttemptsOf DEF Attempts
    <2> QED BY <1>a, <2>1, <2>2, AttemptedThen DEF Attempted
<1>6. ASSUME NEW m \in Mains, Execute(m) PROVE AttemptedEach'
    <2>1. PICK i \in DOMAIN calls[m] : Execute(m)!(i)
        BY <1>6 DEF Execute
    <2>2. PICK r \in Replied : calls' = [calls EXCEPT ![m][i] = r] /\ (r \in Attempts <=> calls[m][i] \in Attempts)
        BY <2>1 DEF Replied, Attempts
    <2>3. UNCHANGED <<role, phase, registered, doubled>>
        BY <2>1 DEF process
    <2>4. /\ \A n \in Mains \ {m} : calls'[n] = calls[n]
          /\ DOMAIN calls'[m] = DOMAIN calls[m]
          /\ \A j \in DOMAIN calls[m] : calls'[m][j] \in Attempts <=> calls[m][j] \in Attempts
        BY <1>0, <2>2
    <2>5. attempts(calls'[m]) = attempts(calls[m])
        BY <2>4 DEF attempts
    <2>6. Attempted(m)'
        BY <1>a, <2>3, <2>5 DEF Attempted, Two
    <2> QED BY <2>3, <2>4, <2>6, OthersAttempted
<1> QED BY <1>1, <1>2, <1>3, <1>4, <1>5, <1>6, AttemptedHandled DEF Next, Crash

(* However many checks of a main are under way, no service of a process    *)
(* takes it for a leader that is none, or for a follower that leads: every *)
(* change of role is told, but the one that an attempt makes as it fails   *)
(* beside another attempt of the same main.                                *)
THEOREM RoleChangesTold == Spec => RoleChangesAreTold
<1>1. Init => AttemptedEach
    BY DEF Init, AttemptedEach, Attempted, Two, attempts
<1>2. IInv /\ AttemptedEach /\ [Next]_vars => AttemptedEach'
    BY AttemptedStep DEF IInv
<1>3. IInv /\ AttemptedEach /\ [Next]_vars
      => [\A m \in Mains : m \in registered /\ m \in registered' /\ role'[m] # role[m]
                           => told'[m] = role'[m] \/ m \in doubled]_vars
    <2> SUFFICES ASSUME IInv, AttemptedEach, Next, NEW m \in Mains,
                        m \in registered, m \in registered', role'[m] # role[m]
                 PROVE  told'[m] = role'[m] \/ m \in doubled
        OBVIOUS
    <2>1. PICK n \in Mains : Start(n) \/ Exit(n) \/ shutdown(n) \/ Handle(n)
        BY DEF Next, ExpireAbandoned, ExpireUnrenewed, Crash, checkLeader, Execute
    <2>2. ~Start(n)
        BY DEF Start, Boot, InitServices, registerEventHandlers, process
    <2>3. ~Exit(n) /\ ~Cleared(n)
        BY DEF Exit, Cleared, IInv, TypeOK
    <2>4. ~shutdown(n)
        BY <2>3 DEF shutdown
    <2>5. role \in [Mains -> Roles] /\ told \in [Mains -> Roles \cup {"nothing"}]
          /\ calls[n] \in Seq(Sent \cup Replied) /\ phase[n] \in Phases
        BY DEF IInv, TypeOK
    <2>6. CASE GotOwn(n) \/ Renewed(n)
        BY <2>6 DEF GotOwn, Renewed
    <2>7. CASE GotOther(n) \/ GotVacant(n) \/ SetKey(n)
        BY <2>5, <2>7 DEF GotOther, GotVacant, SetKey, Follow, emit
    <2>8. CASE KeyTaken(n)
        <3>1. n = m /\ role[m] # "follower"
            BY <2>5, <2>8 DEF KeyTaken
        <3>2. 1 \in attempts(calls[n])
            BY <2>5, <2>8 DEF KeyTaken, Got, Attempts, attempts
        <3>3. Attempted(n)
            BY DEF AttemptedEach
        <3>4. role[n] \in Roles
            BY <2>5
        <3>5. role[n] = "leader"
            BY <3>1, <3>3, <3>4 DEF Attempted, Roles
        <3> QED BY <3>1, <3>2, <3>3, <3>5 DEF Attempted
    <2> QED BY <2>1, <2>2, <2>3, <2>4, <2>6, <2>7, <2>8 DEF Handle
<1> QED BY <1>1, <1>2, <1>3, Invariant, PTL DEF Spec, RoleChangesAreTold
=============================================================================
