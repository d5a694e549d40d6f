-------------------------------- MODULE Server --------------------------------
(***************************************************************************)
(* The stratum server's goroutines (stratum.go:200-290): Upstreams and     *)
(* Sessions together, with what joins them.  Upstream checks and retargets *)
(* are run by two goroutines that receive from one timer, and each resets  *)
(* it when it is done; receivers of a channel are served in the order they *)
(* came, so that the two take turns, and none of them runs while the other *)
(* does.  Loops begin only while the pool is not sick; new templates come  *)
(* from the current upstream.                                              *)
(***************************************************************************)
EXTENDS Upstreams, Sessions

CONSTANT MaxIncidents  \* bound: changes of nodes, logins, disconnections

ASSUME ServerAssumption == MaxIncidents \in Nat

VARIABLES
    turn,    \* which goroutine receives the next tick
    budget   \* incidents left

vars == <<upVars, seVars, turn, budget>>

TypeOK ==
    /\ UpTypeOK /\ SeTypeOK
    /\ turn \in {"check", "retarget"}
    /\ budget \in 0..MaxIncidents
    \* Whoever has received a tick is the one who does not get the next.
    /\ checking # 0 => turn = "retarget"
    /\ stage[Retarget] # "idle" => turn = "check"

Init ==
    /\ UpInit /\ SeInit
    /\ turn \in {"check", "retarget"}
    /\ budget = MaxIncidents

Incident == budget > 0 /\ budget' = budget - 1

-----------------------------------------------------------------------------
\* The timer is running when no receiver is at work.
TimerRuns == checking = 0 /\ stage[Retarget] = "idle"

TickCheck ==
    /\ TimerRuns /\ turn = "check" /\ turn' = "retarget"
    /\ BeginCheck
    /\ UNCHANGED <<seVars, budget>>

TickRetarget ==
    /\ TimerRuns /\ turn = "retarget" /\ turn' = "check"
    /\ IF isSick THEN UNCHANGED seVars ELSE Call(Retarget)
    /\ UNCHANGED <<upVars, budget>>

(* refreshBlockTemplate: the current upstream is asked; a new template is  *)
(* broadcast, unless the pool is sick.                                     *)
Refresh(b) ==
    /\ stage[b] = "idle"
    /\ Post(upstream)
    /\ IF node[upstream] = "up" /\ ~isSick THEN Call(b) ELSE UNCHANGED seVars
    /\ UNCHANGED <<node, upstream, check, polls, failsCount, turn, budget>>

Checking ==
    /\ (\E u \in Upstreams : CheckUpstream(u)) \/ EndCheck
    /\ UNCHANGED <<seVars, turn, budget>>

Polling ==
    /\ PollCurrent \/ \E u \in Upstreams : PollOther(u)
    /\ UNCHANGED <<seVars, turn, budget>>

Requesting ==
    /\ \E u \in Upstreams : RequestFails(u)
    /\ UNCHANGED <<seVars, turn, budget>>

Looping(l) ==
    /\ \/ BeginLoop(l) \/ Return(l)
       \/ \E c \in Clients :
             Spawn(l, c) \/ \E failed \in Outcomes(c) : Push(l, c, failed)
    /\ UNCHANGED <<upVars, turn, budget>>

Writing ==
    /\ \E c \in Clients :
          registerSession(c) \/ removeSession(c) \/ DropSession(c)
    /\ UNCHANGED <<upVars, turn, budget>>

Straying ==
    /\ \E c \in Clients : \E failed \in Outcomes(c) : StrayPush(c, failed)
    /\ UNCHANGED <<upVars, turn, budget>>

Incidents ==
    /\ Incident /\ UNCHANGED turn
    /\ \/ (\E u \in Upstreams : NodeChanges(u)) /\ UNCHANGED seVars
       \/ /\ \E c \in Clients :
                \/ LogIn(c) \/ HangUp(c) \/ StrayPush(c, TRUE)
                \/ \E l \in Loops : Push(l, c, TRUE)
          /\ UNCHANGED upVars

Serving ==
    \/ TickCheck
    \/ TickRetarget
    \/ \E b \in Broadcasters : Refresh(b)
    \/ Checking
    \/ Polling
    \/ \E l \in Loops : Looping(l)
    \/ Writing
    \/ Straying
    \/ Incidents

Next == Serving \/ Requesting

(* Timers fire, requests end by their timeouts, and Go runs what can run.  *)
Fairness ==
    /\ WF_vars(TickCheck) /\ WF_vars(TickRetarget) /\ WF_vars(Checking)
    /\ WF_vars(PollCurrent /\ UNCHANGED <<seVars, turn, budget>>)
    /\ \A u \in Upstreams :
          WF_vars(PollOther(u) /\ UNCHANGED <<seVars, turn, budget>>)
    /\ \A l \in Loops : WF_vars(Looping(l))
    /\ WF_vars(Writing) /\ WF_vars(Straying)

Spec == Init /\ [][Next]_vars /\ Fairness

-----------------------------------------------------------------------------
(* Properties.                                                             *)

(* A retarget gets stuck only in a crowd: more sessions than the channel   *)
(* has places (handlers.go:264-269).                                       *)
OnlyCrowdsJam == jammed => Cardinality(sessions) > Slots

(* Every loop over the sessions ends, whatever connections do meanwhile;   *)
(* once a retarget is stuck, a loop may not even begin, as somebody waits  *)
(* to write (handlers.go:230-255, 262-294).                                *)
LoopsEnd ==
    \A l \in Loops : stage[l] # "idle" ~> (stage[l] = "idle" \/ jammed)

(* Every login gets its session registered and every handler ends, unless  *)
(* a retarget is stuck (stratum.go:400, 502-512).                          *)
SessionsServed ==
    \A c \in Clients :
        client[c] \in {"joining", "leaving"}
            ~> (client[c] \in {"member", "gone"} \/ jammed)

Reachable(u) == node[u] = "up"
FirstAlive(u) == Reachable(u) /\ \A v \in Upstreams : v < u => ~Reachable(v)

(* The pool comes to work with the first node that is alive, and stays,    *)
(* back from a backup as well (README.md:13, stratum.go:535-556).  There   *)
(* are two exceptions: a retarget that is stuck never resets the timer     *)
(* checks depend on (stratum.go:213-231); and blocks the node refuses, or  *)
(* wallet calls that fail, again and again, make the client of a live node *)
(* sick again and again (rpc.go:236-259, payments.go:137, 270, 361).       *)
WorkFromFirstAlive ==
    \A u \in Upstreams :
        <>[]FirstAlive(u) => \/ <>[](upstream = u \/ jammed)
                            \/ []<><<RequestFails(u)>>_vars

(* The pool is not sick for ever while any node answers, and becomes sick  *)
(* for good when none does (stratum.go:262-290, 565-584), stuck or not.    *)
SicknessFollowsNodes ==
    /\ (\E u \in Upstreams : <>[]Reachable(u)) => []<>~isSick
    /\ <>[](\A u \in Upstreams : ~Reachable(u)) => <>[]isSick
=============================================================================
