----------------------------- MODULE Server_proofs -----------------------------
(***************************************************************************)
(* Proofs about Server, for every number of nodes, every set of            *)
(* connections and every capacity of the channels.                         *)
(***************************************************************************)
EXTENDS Server, FiniteSetTheorems, TLAPS

USE UpstreamsAssumption, SessionsAssumption, ServerAssumption

-----------------------------------------------------------------------------
(* Type correctness: first what happens to the nodes, then to the sessions. *)

UpStep ==
    \/ \E u \in Upstreams : NodeChanges(u)
    \/ BeginCheck
    \/ (\E u \in Upstreams : CheckUpstream(u)) \/ EndCheck
    \/ PollCurrent \/ \E u \in Upstreams : PollOther(u)
    \/ \E u \in Upstreams : RequestFails(u)
    \/ Post(upstream) /\ UNCHANGED <<node, upstream, check, polls, failsCount>>
    \/ UNCHANGED upVars

SeStep ==
    \/ \E l \in Loops : Call(l)
    \/ \E l \in Loops : BeginLoop(l)
    \/ \E l \in Loops : Return(l)
    \/ \E l \in Loops, c \in Clients : Spawn(l, c)
    \/ \E l \in Loops, c \in Clients, f \in BOOLEAN : Push(l, c, f)
    \/ \E c \in Clients : registerSession(c)
    \/ \E c \in Clients : removeSession(c)
    \/ \E c \in Clients : DropSession(c)
    \/ \E c \in Clients, f \in BOOLEAN : StrayPush(c, f)
    \/ \E c \in Clients : LogIn(c) \/ HangUp(c)
    \/ UNCHANGED seVars

LEMMA StepCases == [Next]_vars => UpStep /\ SeStep
<1> SUFFICES ASSUME [Next]_vars PROVE UpStep /\ SeStep
    OBVIOUS
<1>1. \A c \in Clients : Outcomes(c) \subseteq BOOLEAN
    BY DEF Outcomes
<1>2. CASE TickCheck
    BY <1>2 DEF TickCheck, UpStep, SeStep
<1>3. CASE TickRetarget
    BY <1>3 DEF TickRetarget, UpStep, SeStep, Loops
<1>4. CASE \E b \in Broadcasters : Refresh(b)
    BY <1>4 DEF Refresh, UpStep, SeStep, Loops
<1>5. CASE Checking \/ Polling \/ Requesting
    BY <1>5 DEF Checking, Polling, Requesting, UpStep, SeStep
<1>6. CASE \E l \in Loops : Looping(l)
    BY <1>1, <1>6 DEF Looping, UpStep, SeStep
<1>7. CASE Writing \/ Straying
    BY <1>1, <1>7 DEF Writing, Straying, UpStep, SeStep
<1>8. CASE Incidents
    BY <1>8 DEF Incidents, UpStep, SeStep
<1>9. CASE UNCHANGED vars
    BY <1>9 DEF vars, UpStep, SeStep
<1>10. QED
    BY <1>2, <1>3, <1>4, <1>5, <1>6, <1>7, <1>8, <1>9 DEF Next, Serving

(* A client becomes sick when its failures come to the limit. *)
LEMMA FailureType ==
    ASSUME UpTypeOK, NEW u \in Upstreams, ClientFails(u)
    PROVE  /\ sickRate' \in [Upstreams -> 0..SickLimit]
           /\ successRate' \in [Upstreams -> 0..(SickLimit - 1)]
           /\ sick' \in [Upstreams -> BOOLEAN]
           /\ \A v \in Upstreams : sick'[v] <=> sickRate'[v] = SickLimit
<1> USE DEF UpTypeOK
<1>1. sickRate[u] \in 0..SickLimit
    OBVIOUS
<1>2. sickRate' = [sickRate EXCEPT ![u] = Lesser(sickRate[u] + 1, SickLimit)]
    BY DEF ClientFails
<1>3. Lesser(sickRate[u] + 1, SickLimit) \in 0..SickLimit
    BY <1>1 DEF Lesser
<1>4. sick' = [sick EXCEPT ![u] = (sick[u] \/ sickRate[u] + 1 >= SickLimit)]
    BY DEF ClientFails
<1>5. successRate' = [successRate EXCEPT ![u] = 0]
    BY DEF ClientFails
<1>6. sick'[u] <=> sickRate'[u] = SickLimit
  <2>1. sickRate'[u] = SickLimit <=> sickRate[u] + 1 >= SickLimit
    BY <1>1, <1>2 DEF Lesser
  <2>2. sickRate[u] = SickLimit => sickRate[u] + 1 >= SickLimit
    BY <1>1
  <2>3. sick'[u] <=> sick[u] \/ sickRate[u] + 1 >= SickLimit
    BY <1>4, Zenon
  <2>4. QED
    BY <2>1, <2>2, <2>3, Zenon
<1>7. QED
    BY <1>2, <1>3, <1>4, <1>5, <1>6

(* It recovers after as many successes, and no failure is left. *)
LEMMA SuccessType ==
    ASSUME UpTypeOK, NEW u \in Upstreams, markAlive(u)
    PROVE  /\ sickRate' \in [Upstreams -> 0..SickLimit]
           /\ successRate' \in [Upstreams -> 0..(SickLimit - 1)]
           /\ sick' \in [Upstreams -> BOOLEAN]
           /\ \A v \in Upstreams : sick'[v] <=> sickRate'[v] = SickLimit
<1> USE DEF UpTypeOK
<1>1. successRate[u] \in 0..(SickLimit - 1)
    OBVIOUS
<1>2. CASE successRate[u] + 1 >= SickLimit
  <2>1. /\ sick' = [sick EXCEPT ![u] = FALSE]
        /\ sickRate' = [sickRate EXCEPT ![u] = 0]
        /\ successRate' = [successRate EXCEPT ![u] = 0]
    BY <1>2 DEF markAlive
  <2>2. ~sick'[u] /\ sickRate'[u] = 0 /\ 0 # SickLimit
    BY <2>1
  <2>3. QED
    BY <2>1, <2>2
<1>3. CASE ~(successRate[u] + 1 >= SickLimit)
  <2>1. successRate' = [successRate EXCEPT ![u] = successRate[u] + 1]
        /\ UNCHANGED <<sickRate, sick>>
    BY <1>3 DEF markAlive
  <2>2. QED
    BY <1>1, <1>3, <2>1
<1>4. QED
    BY <1>2, <1>3

LEMMA UpType == UpTypeOK /\ UpStep => UpTypeOK'
<1> SUFFICES ASSUME UpTypeOK, UpStep PROVE UpTypeOK'
    OBVIOUS
<1> DEFINE ClientsOK ==
        /\ sickRate \in [Upstreams -> 0..SickLimit]
        /\ successRate \in [Upstreams -> 0..(SickLimit - 1)]
        /\ sick \in [Upstreams -> BOOLEAN]
        /\ \A v \in Upstreams : sick[v] <=> sickRate[v] = SickLimit
<1>1. ASSUME NEW u \in Upstreams, Post(u)
      PROVE  ClientsOK'
  <2>1. CASE ClientFails(u)
    BY <2>1, FailureType
  <2>2. CASE UNCHANGED clients
    BY <2>2 DEF clients, UpTypeOK
  <2>3. QED
    BY <1>1, <2>1, <2>2 DEF Post
<1>2. \A n \in 0..MaxFails : Lesser(n + 1, MaxFails) \in 0..MaxFails
    BY DEF Lesser
<1>3. ASSUME NEW u \in Upstreams, poll(u)
      PROVE  ClientsOK' /\ failsCount' \in 0..MaxFails
    BY <1>1, <1>2, <1>3 DEF poll, markOk, UpTypeOK
<1> DEFINE RestOK ==
        /\ node \in [Upstreams -> {"up", "down"}]
        /\ upstream \in Upstreams
        /\ checking \in 0..(N + 1) /\ candidate \in Upstreams
        /\ backup \in BOOLEAN
        /\ polls \in [Upstreams -> 0..MaxPolls]
        /\ failsCount \in 0..MaxFails
<1>0. RestOK /\ ClientsOK /\ 1 \in Upstreams /\ 1 \in 0..(N + 1)
        /\ 0 \in 0..(N + 1)
    BY DEF UpTypeOK, Upstreams
<1>4. ASSUME NEW u \in Upstreams, NodeChanges(u)
      PROVE  UpTypeOK'
    BY <1>4 DEF NodeChanges, UpTypeOK, clients, check
<1>5. CASE BeginCheck
  <2>1. RestOK'
    BY <1>0, <1>5 DEF BeginCheck
  <2>2. ClientsOK'
    BY <1>5 DEF BeginCheck, UpTypeOK, clients
  <2>3. QED
    BY <2>1, <2>2 DEF UpTypeOK
<1>6. ASSUME NEW u \in Upstreams, CheckUpstream(u)
      PROVE  UpTypeOK'
  <2>1. ClientsOK'
    BY <1>1, <1>6, SuccessType DEF CheckUpstream
  <2>2. checking' \in 0..(N + 1) /\ candidate' \in Upstreams
          /\ backup' \in BOOLEAN
    BY <1>6 DEF CheckUpstream, UpTypeOK, Upstreams
  <2>3. RestOK'
    BY <1>6, <2>2 DEF CheckUpstream, UpTypeOK
  <2>4. QED
    BY <2>1, <2>3 DEF UpTypeOK
<1>7. CASE EndCheck
  <2>1. RestOK'
    BY <1>0, <1>7 DEF EndCheck
  <2>2. ClientsOK'
    BY <1>7 DEF EndCheck, UpTypeOK, clients
  <2>3. QED
    BY <2>1, <2>2 DEF UpTypeOK
<1>8. CASE PollCurrent
  <2>1. ClientsOK' /\ failsCount' \in 0..MaxFails
    BY <1>3, <1>8 DEF PollCurrent, UpTypeOK
  <2>2. polls' \in [Upstreams -> 0..MaxPolls]
    BY <1>8 DEF PollCurrent, UpTypeOK
  <2>3. QED
    BY <1>8, <2>1, <2>2 DEF PollCurrent, UpTypeOK, check
<1>9. ASSUME NEW u \in Upstreams, PollOther(u)
      PROVE  UpTypeOK'
  <2>1. ClientsOK' /\ failsCount' \in 0..MaxFails
    BY <1>3, <1>9 DEF PollOther
  <2>2. polls' \in [Upstreams -> 0..MaxPolls]
    BY <1>9 DEF PollOther, UpTypeOK
  <2>3. QED
    BY <1>9, <2>1, <2>2 DEF PollOther, UpTypeOK, check
<1>10. CASE Post(upstream)
               /\ UNCHANGED <<node, upstream, check, polls, failsCount>>
  <2>1. ClientsOK'
    BY <1>1, <1>10 DEF UpTypeOK
  <2>2. QED
    BY <1>10, <2>1 DEF UpTypeOK, check
<1>11. ASSUME NEW u \in Upstreams, RequestFails(u)
       PROVE  UpTypeOK'
  <2>1. ClientsOK'
    BY <1>11, FailureType DEF RequestFails
  <2>2. QED
    BY <1>11, <2>1 DEF RequestFails, UpTypeOK, check
<1>12. CASE UNCHANGED upVars
    BY <1>12 DEF upVars, clients, check, UpTypeOK
<1>13. QED
    BY <1>4, <1>5, <1>6, <1>7, <1>8, <1>9, <1>10, <1>11, <1>12 DEF UpStep

(* There are finitely many sessions and goroutines. *)
LEMMA Finite ==
    ASSUME NEW S \in SUBSET Clients
    PROVE  IsFiniteSet(S) /\ Cardinality(S) \in Nat
BY FS_Subset, FS_CardinalityType

LEMMA SeType == SeTypeOK /\ SeStep => SeTypeOK'
<1> SUFFICES ASSUME SeTypeOK, SeStep PROVE SeTypeOK'
    OBVIOUS
<1> USE DEF SeTypeOK, loops
<1>1. ASSUME NEW l \in Loops, Call(l) \/ BeginLoop(l) \/ Return(l)
      PROVE  SeTypeOK'
    BY <1>1 DEF Call, BeginLoop, Return, RLock
<1>2. ASSUME NEW l \in Loops, NEW c \in Clients, Spawn(l, c)
      PROVE  SeTypeOK'
  <2>1. kept[l] \in Nat /\ kept[l] + 1 <= Slots
    BY <1>2, Finite DEF Spawn, HasSlot
  <2>2. kept' \in [Loops -> 0..Slots]
    BY <1>2, <2>1 DEF Spawn
  <2>3. todo' \in [Loops -> SUBSET Clients]
          /\ pushing' \in [Loops -> SUBSET Clients]
    BY <1>2 DEF Spawn
  <2>4. QED
    BY <1>2, <2>2, <2>3 DEF Spawn
<1>3. ASSUME NEW l \in Loops, NEW c \in Clients, NEW f \in BOOLEAN,
             Push(l, c, f)
      PROVE  SeTypeOK'
    BY <1>3 DEF Push, Pushed
<1>4. ASSUME NEW c \in Clients,
             registerSession(c) \/ removeSession(c) \/ DropSession(c)
      PROVE  SeTypeOK'
    BY <1>4 DEF registerSession, removeSession, DropSession, LockAndUnlock
<1>5. ASSUME NEW c \in Clients, NEW f \in BOOLEAN, StrayPush(c, f)
      PROVE  SeTypeOK'
    BY <1>5 DEF StrayPush
<1>6. ASSUME NEW c \in Clients, LogIn(c) \/ HangUp(c)
      PROVE  SeTypeOK'
    BY <1>6 DEF LogIn, HangUp
<1>7. CASE UNCHANGED seVars
    BY <1>7 DEF seVars
<1>8. QED
    BY <1>1, <1>2, <1>3, <1>4, <1>5, <1>6, <1>7 DEF SeStep

(* Who takes turns at the timer, and what is left of the budget. *)
Turns ==
    /\ turn \in {"check", "retarget"}
    /\ budget \in 0..MaxIncidents
    /\ checking # 0 => turn = "retarget"
    /\ stage[Retarget] # "idle" => turn = "check"

LEMMA NextTurns == UpTypeOK /\ SeTypeOK /\ Turns /\ [Next]_vars => Turns'
<1> SUFFICES ASSUME UpTypeOK, SeTypeOK, Turns, [Next]_vars PROVE Turns'
    OBVIOUS
<1> USE DEF UpTypeOK, SeTypeOK, Turns, upVars, seVars, clients, check, loops
<1>1. CASE TickCheck
    BY <1>1 DEF TickCheck, TimerRuns
<1>2. CASE TickRetarget
    BY <1>2 DEF TickRetarget, TimerRuns
<1>3. CASE \E b \in Broadcasters : Refresh(b)
  <2>1. UNCHANGED <<checking, turn, budget>>
    BY <1>3 DEF Refresh
  <2>2. stage'[Retarget] = stage[Retarget]
    BY <1>3 DEF Refresh, Call, Loops
  <2>3. QED
    BY <2>1, <2>2
<1>4. CASE Checking
    BY <1>4 DEF Checking, CheckUpstream, EndCheck, Upstreams
<1>5. CASE Polling \/ Requesting
    BY <1>5 DEF Polling, PollCurrent, PollOther, Requesting, RequestFails
<1>6. ASSUME NEW l \in Loops, Looping(l)
      PROVE  Turns'
  <2>1. UNCHANGED <<checking, turn, budget>>
    BY <1>6 DEF Looping
  <2>2. stage[Retarget] = "idle" => stage'[Retarget] = "idle"
    BY <1>6 DEF Looping, BeginLoop, RLock, Return, Spawn, Push, Loops
  <2>3. QED
    BY <2>1, <2>2
<1>7. CASE Writing \/ Straying
    BY <1>7 DEF Writing, Straying, registerSession, removeSession, DropSession,
               StrayPush
<1>8. CASE Incidents
  <2>1. UNCHANGED <<checking, turn>>
    BY <1>8 DEF Incidents, NodeChanges
  <2>2. budget' \in 0..MaxIncidents
    BY <1>8 DEF Incidents, Incident
  <2>3. stage' = stage
    BY <1>8 DEF Incidents, LogIn, HangUp, StrayPush, Push
  <2>4. QED
    BY <2>1, <2>2, <2>3
<1>9. CASE UNCHANGED vars
    BY <1>9 DEF vars
<1>10. QED
    BY <1>1, <1>2, <1>3, <1>4, <1>5, <1>6, <1>7, <1>8, <1>9
       DEF Next, Serving

LEMMA InitType == Init => TypeOK
<1> SUFFICES ASSUME Init PROVE TypeOK
    OBVIOUS
<1>1. 1 \in Upstreams /\ Retarget \in Loops
    BY DEF Upstreams, Loops
<1>2. UpTypeOK
  <2>1. \A u \in Upstreams : sick[u] = FALSE /\ sickRate[u] = 0
    BY DEF Init, UpInit
  <2>2. \A u \in Upstreams : sick[u] <=> sickRate[u] = SickLimit
    BY <2>1
  <2>3. /\ node \in [Upstreams -> {"up", "down"}]
        /\ sickRate \in [Upstreams -> 0..SickLimit]
        /\ successRate \in [Upstreams -> 0..(SickLimit - 1)]
        /\ sick \in [Upstreams -> BOOLEAN]
        /\ polls \in [Upstreams -> 0..MaxPolls]
    BY DEF Init, UpInit
  <2>4. /\ upstream = 1 /\ candidate = 1 /\ checking = 0 /\ backup = FALSE
        /\ failsCount = 0 /\ 0 \in 0..(N + 1) /\ 0 \in 0..MaxFails
    BY DEF Init, UpInit
  <2>5. QED
    BY <1>1, <2>2, <2>3, <2>4 DEF UpTypeOK
<1>3. SeTypeOK
    BY DEF Init, SeInit, SeTypeOK
<1>4. Turns
    BY <1>1 DEF Init, UpInit, SeInit, Turns
<1>5. QED
    BY <1>2, <1>3, <1>4 DEF TypeOK, Turns

LEMMA NextType == TypeOK /\ [Next]_vars => TypeOK'
BY StepCases, UpType, SeType, NextTurns DEF TypeOK, Turns

(* Every variable keeps its type; an RPC client is sick exactly from the   *)
(* limit of failures until it recovers; and upstream checks and retargets  *)
(* never run at the same time, since they share the timer                  *)
(* (stratum.go:213-231).                                                   *)
THEOREM TypeCorrect == Spec => []TypeOK
BY InitType, NextType, PTL DEF Spec

-----------------------------------------------------------------------------
(* Who can jam.                                                            *)

(* The places a retarget has lost, and the sessions it has yet to reach,   *)
(* are of different sessions: while it holds sessionsMu none is added or   *)
(* removed.                                                                *)
Crowd ==
    /\ stage[Retarget] = "loop" =>
          kept[Retarget] + Cardinality(todo[Retarget]) <= Cardinality(sessions)
    /\ stage[Retarget] # "loop" => kept[Retarget] = 0

LEMMA NextCrowd == SeTypeOK /\ Crowd /\ SeStep => Crowd'
<1> SUFFICES ASSUME SeTypeOK, Crowd, SeStep PROVE Crowd'
    OBVIOUS
<1>1. Retarget \in Loops /\ todo[Retarget] \in SUBSET Clients
        /\ sessions \in SUBSET Clients /\ kept[Retarget] \in Nat
    BY DEF SeTypeOK, Loops
<1>2. /\ IsFiniteSet(todo[Retarget]) /\ Cardinality(todo[Retarget]) \in Nat
      /\ IsFiniteSet(sessions) /\ Cardinality(sessions) \in Nat
    BY <1>1, Finite
<1> USE DEF SeTypeOK, Crowd, loops
<1>3. ASSUME NEW l \in Loops, Call(l) \/ Return(l)
      PROVE  Crowd'
    BY <1>1, <1>3 DEF Call, Return
<1>4. ASSUME NEW l \in Loops, BeginLoop(l)
      PROVE  Crowd'
  <2>1. CASE l = Retarget
    <3>1. stage[Retarget] = "lock" /\ UNCHANGED <<kept, sessions>>
            /\ todo'[Retarget] = sessions
        BY <1>1, <1>4, <2>1 DEF BeginLoop, RLock
    <3>2. QED
        BY <1>1, <1>2, <3>1
  <2>2. CASE l # Retarget
    BY <1>1, <1>4, <2>2 DEF BeginLoop
  <2>3. QED
    BY <2>1, <2>2
<1>5. ASSUME NEW l \in Loops, NEW c \in Clients, Spawn(l, c)
      PROVE  Crowd'
  <2>1. CASE l = Retarget
    <3>1. /\ stage[Retarget] = "loop" /\ c \in todo[Retarget]
          /\ todo'[Retarget] = todo[Retarget] \ {c}
          /\ kept'[Retarget] \in {kept[Retarget], kept[Retarget] + 1}
          /\ UNCHANGED <<stage, sessions>>
        BY <1>1, <1>5, <2>1 DEF Spawn
    <3>2. Cardinality(todo'[Retarget]) = Cardinality(todo[Retarget]) - 1
      <4> DEFINE S == todo[Retarget]
      <4>1. IsFiniteSet(S) /\ c \in S
        BY <1>2, <3>1
      <4> HIDE DEF S
      <4>2. Cardinality(S \ {c}) = Cardinality(S) - 1
        BY ONLY <4>1, FS_RemoveElement
      <4>3. QED
        BY ONLY <3>1, <4>2 DEF S
    <3>3. QED
        BY <1>1, <1>2, <3>1, <3>2
  <2>2. CASE l # Retarget
    BY <1>1, <1>5, <2>2 DEF Spawn
  <2>3. QED
    BY <2>1, <2>2
<1>6. ASSUME NEW c \in Clients,
             registerSession(c) \/ removeSession(c) \/ DropSession(c)
      PROVE  Crowd'
  <2>1. stage[Retarget] # "loop" /\ UNCHANGED loops
    BY <1>1, <1>6
       DEF registerSession, removeSession, DropSession, LockAndUnlock, Reading
  <2>2. QED
    BY <2>1
<1>7. CASE UNCHANGED <<stage, todo, kept, sessions>>
    BY <1>7
<1>8. QED
    BY <1>3, <1>4, <1>5, <1>6, <1>7
       DEF SeStep, Push, StrayPush, LogIn, HangUp, seVars

(* A retarget gets stuck only when there are more sessions than its        *)
(* channel has places, however connections come and go meanwhile           *)
(* (handlers.go:264-269).                                                  *)
THEOREM OnlyCrowdsJamRetargets == Spec => []OnlyCrowdsJam
<1>1. Init => Crowd
    BY DEF Init, SeInit, Crowd, Loops
<1>2. TypeOK /\ Crowd /\ [Next]_vars => Crowd'
    BY NextCrowd, StepCases DEF TypeOK
<1>3. TypeOK /\ Crowd => OnlyCrowdsJam
  <2> SUFFICES ASSUME TypeOK, Crowd, jammed
               PROVE  Cardinality(sessions) > Slots
    BY DEF OnlyCrowdsJam
  <2>1. todo[Retarget] \in SUBSET Clients /\ sessions \in SUBSET Clients
    BY DEF TypeOK, SeTypeOK, Loops
  <2>2. Cardinality(todo[Retarget]) \in Nat /\ Cardinality(sessions) \in Nat
          /\ IsFiniteSet(todo[Retarget])
    BY <2>1, Finite
  <2>3. Cardinality(todo[Retarget]) # 0
    BY <2>2, FS_EmptySet DEF jammed
  <2>4. QED
    BY <2>2, <2>3 DEF Crowd, jammed
<1>4. QED
    BY <1>1, <1>2, <1>3, InitType, NextType, PTL DEF Spec
=============================================================================
