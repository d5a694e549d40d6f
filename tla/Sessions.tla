------------------------------- MODULE Sessions -------------------------------
(***************************************************************************)
(* The sessions of the stratum server (stratum.go:358-402, 502-512) and    *)
(* the two loops that send them jobs: broadcastNewJobs and                 *)
(* updateFixedDiffJobs (handlers.go:225-294).  A loop holds sessionsMu for *)
(* reading; for every session it puts a number into a channel of Slots     *)
(* places, which blocks when the channel is full, and starts a goroutine   *)
(* that pushes a job and takes a number out again.  The goroutine of       *)
(* updateFixedDiffJobs takes none out for a session whose difficulty it    *)
(* leaves as it is.  A component of Server.                                *)
(*                                                                         *)
(* A client is one connection; whoever comes back is another client.       *)
(* sessionsMu is a Go RWMutex: who waits for writing holds up new readers, *)
(* and when a writer is done, the readers held up go first.                *)
(***************************************************************************)
EXTENDS Integers, FiniteSets

CONSTANTS
    Clients,       \* connections
    Starts,        \* what connections may be at the start
    Broadcasters,  \* goroutines that call broadcastNewJobs
    Retarget,      \* the one that calls updateFixedDiffJobs
    Slots          \* capacity of a loop's channel (1024*16 in the code)

ASSUME SessionsAssumption ==
    /\ Slots \in Nat \ {0} /\ Retarget \notin Broadcasters
    /\ IsFiniteSet(Clients)
    /\ Starts \subseteq [Clients -> {"open", "member", "gone"}]

Loops == Broadcasters \cup {Retarget}

VARIABLES
    client,    \* what the handler of a connection does
    sessions,  \* the map of sessions
    stage,     \* a loop: not running, waiting for sessionsMu, iterating
    todo,      \* a loop: sessions not reached
    pushing,   \* a loop: goroutines that will free their slot
    kept,      \* a loop: slots of goroutines that ended without freeing it
    stray,     \* goroutines whose loop has returned
    removing,  \* goroutines whose push failed, at removeSession
    admitted   \* loops that the last writer let go first

loops  == <<stage, todo, pushing, kept>>
seVars == <<client, sessions, loops, stray, removing, admitted>>

SeTypeOK ==
    /\ client \in [Clients -> {"open", "joining", "member", "leaving", "gone"}]
    /\ sessions \subseteq Clients
    /\ stage \in [Loops -> {"idle", "lock", "loop"}]
    /\ todo \in [Loops -> SUBSET Clients]
    /\ pushing \in [Loops -> SUBSET Clients]
    /\ kept \in [Loops -> 0..Slots]
    /\ stray \subseteq Clients /\ removing \subseteq Clients
    /\ admitted \subseteq {l \in Loops : stage[l] = "lock"}

SeInit ==
    /\ client \in Starts
    /\ sessions = {c \in Clients : client[c] = "member"}
    /\ stage = [l \in Loops |-> "idle"]
    /\ todo = [l \in Loops |-> {}]
    /\ pushing = [l \in Loops |-> {}]
    /\ kept = [l \in Loops |-> 0]
    /\ stray = {} /\ removing = {} /\ admitted = {}

-----------------------------------------------------------------------------
(* sessionsMu.                                                             *)

Reading == {l \in Loops : stage[l] = "loop"}
WaitToWrite ==
    {c \in Clients : client[c] \in {"joining", "leaving"}} \cup removing

RLock(l) == stage[l] = "lock" /\ (WaitToWrite = {} \/ l \in admitted)

(* A writer enters, writes and leaves in one step. *)
LockAndUnlock ==
    /\ Reading = {} /\ admitted = {}
    /\ admitted' = {l \in Loops : stage[l] = "lock"}

-----------------------------------------------------------------------------
(* The handler of a connection.                                            *)

\* handleLoginRPC comes to registerSession, perhaps once more.
LogIn(c) ==
    /\ client[c] \in {"open", "member"}
    /\ client' = [client EXCEPT ![c] = "joining"]
    /\ UNCHANGED <<sessions, loops, stray, removing, admitted>>

registerSession(c) ==
    /\ client[c] = "joining" /\ LockAndUnlock
    /\ client' = [client EXCEPT ![c] = "member"]
    /\ sessions' = sessions \cup {c}
    /\ UNCHANGED <<loops, stray, removing>>

\* The client disconnects, is dropped, or its deadline passes.
HangUp(c) ==
    /\ client[c] \in {"open", "member"}
    /\ client' = [client EXCEPT ![c] = "leaving"]
    /\ UNCHANGED <<sessions, loops, stray, removing, admitted>>

\* removeSession at the end of handleClient
removeSession(c) ==
    /\ client[c] = "leaving" /\ LockAndUnlock
    /\ client' = [client EXCEPT ![c] = "gone"]
    /\ sessions' = sessions \ {c}
    /\ UNCHANGED <<loops, stray, removing>>

\* removeSession in the goroutine of a push that failed
DropSession(c) ==
    /\ c \in removing /\ LockAndUnlock
    /\ removing' = removing \ {c}
    /\ sessions' = sessions \ {c}
    /\ UNCHANGED <<client, loops, stray>>

-----------------------------------------------------------------------------
(* The loops.                                                              *)

Call(l) ==
    /\ stage[l] = "idle"
    /\ stage' = [stage EXCEPT ![l] = "lock"]
    /\ UNCHANGED <<client, sessions, todo, pushing, kept, stray, removing,
                   admitted>>

BeginLoop(l) ==
    /\ RLock(l)
    /\ stage' = [stage EXCEPT ![l] = "loop"]
    /\ todo' = [todo EXCEPT ![l] = sessions]
    /\ admitted' = admitted \ {l}
    /\ UNCHANGED <<client, sessions, pushing, kept, stray, removing>>

HasSlot(l) == kept[l] + Cardinality(pushing[l]) < Slots

(* A goroutine is started.  That of updateFixedDiffJobs ends at once when   *)
(* the difficulty of its session is fixed or stays the same.               *)
Spawn(l, c) ==
    /\ stage[l] = "loop" /\ c \in todo[l] /\ HasSlot(l)
    /\ todo' = [todo EXCEPT ![l] = @ \ {c}]
    /\ \/ /\ pushing' = [pushing EXCEPT ![l] = @ \cup {c}]
          /\ UNCHANGED kept
       \/ /\ l = Retarget
          /\ kept' = [kept EXCEPT ![l] = @ + 1]
          /\ UNCHANGED pushing
    /\ UNCHANGED <<client, sessions, stage, stray, removing, admitted>>

(* A push fails once the connection is closed, perhaps as soon as the      *)
(* client has hung up; at any other time a slow client is an incident.     *)
Outcomes(c) == CASE client[c] = "gone"    -> {TRUE}
                 [] client[c] = "leaving" -> BOOLEAN
                 [] OTHER                 -> {FALSE}

(* Mutant: the goroutine frees its slot after it has removed the session. *)
Pushed_RemoveFirst(l, c, failed) ==
    IF c \in removing \/ (failed /\ c \in sessions)
    THEN removing' = removing \cup {c} /\ UNCHANGED pushing
    ELSE pushing' = [pushing EXCEPT ![l] = @ \ {c}] /\ UNCHANGED removing

(* The slot is free before the session is removed. *)
Pushed(l, c, failed) ==
    /\ pushing' = [pushing EXCEPT ![l] = @ \ {c}]
    /\ removing' = IF failed THEN removing \cup {c} ELSE removing

Push(l, c, failed) ==
    /\ c \in pushing[l]
    /\ Pushed(l, c, failed)
    /\ UNCHANGED <<client, sessions, stage, todo, kept, stray, admitted>>

(* Mutant: the places of the channel are not given back with it. *)
Return_KeepSlots(l) ==
    /\ stage[l] = "loop" /\ todo[l] = {}
    /\ stage' = [stage EXCEPT ![l] = "idle"]
    /\ stray' = stray \cup pushing[l]
    /\ pushing' = [pushing EXCEPT ![l] = {}]
    /\ UNCHANGED <<client, sessions, todo, kept, removing, admitted>>

(* The loop returns, with its last goroutines still at work. *)
Return(l) ==
    /\ stage[l] = "loop" /\ todo[l] = {}
    /\ stage' = [stage EXCEPT ![l] = "idle"]
    /\ stray' = stray \cup pushing[l]
    /\ pushing' = [pushing EXCEPT ![l] = {}]
    /\ kept' = [kept EXCEPT ![l] = 0]
    /\ UNCHANGED <<client, sessions, todo, removing, admitted>>

StrayPush(c, failed) ==
    /\ c \in stray
    /\ stray' = stray \ {c}
    /\ removing' = IF failed THEN removing \cup {c} ELSE removing
    /\ UNCHANGED <<client, sessions, loops, admitted>>

-----------------------------------------------------------------------------
(* A retarget is stuck: every place of its channel is taken by a goroutine *)
(* that has ended, and there are sessions left.  It holds sessionsMu.      *)
jammed ==
    /\ stage[Retarget] = "loop" /\ todo[Retarget] # {}
    /\ kept[Retarget] = Slots
=============================================================================
