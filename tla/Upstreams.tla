------------------------------ MODULE Upstreams ------------------------------
(***************************************************************************)
(* The nodes the pool works with and what it knows of them: the counters   *)
(* of each RPC client (rpc/rpc.go), the check that chooses the upstream    *)
(* (checkUpstreams) and the polls that tell whether the pool is sick       *)
(* (stratum.go:262-290, 565-584).  A component of Server.                  *)
(*                                                                         *)
(* A request is one step: it is sent, answered or timed out, and counted.  *)
(* Counters are capped where the code only compares them with that cap.    *)
(***************************************************************************)
EXTENDS Integers

CONSTANTS
    N,           \* number of upstreams enabled in the configuration
    SickLimit,   \* failures until an RPC client is sick (5 in the code)
    MaxFails,    \* Stratum.MaxFails
    MaxPolls     \* bound: polls of one upstream under way

ASSUME UpstreamsAssumption ==
    /\ N \in Nat \ {0} /\ SickLimit \in Nat \ {0}
    /\ MaxFails \in Nat \ {0} /\ MaxPolls \in Nat \ {0}

Upstreams == 1..N

VARIABLES
    node,        \* external: whether a node gives templates and information
    sickRate, successRate, sick,   \* per RPC client
    upstream,    \* the one the pool works with
    checking,    \* checkUpstreams: the upstream it is at, 0 if not running
    candidate,   \* checkUpstreams: the one it will choose
    backup,      \* checkUpstreams: whether that one passed
    polls,       \* requests of the asynchronous polls under way
    failsCount   \* failures since the last success of any poll

clients == <<sickRate, successRate, sick>>
check   == <<checking, candidate, backup>>
upVars  == <<node, clients, upstream, check, polls, failsCount>>

UpTypeOK ==
    /\ node \in [Upstreams -> {"up", "down"}]
    /\ sickRate \in [Upstreams -> 0..SickLimit]
    /\ successRate \in [Upstreams -> 0..(SickLimit - 1)]
    /\ sick \in [Upstreams -> BOOLEAN]
    /\ upstream \in Upstreams
    /\ checking \in 0..(N + 1) /\ candidate \in Upstreams
    /\ backup \in BOOLEAN
    /\ polls \in [Upstreams -> 0..MaxPolls]
    /\ failsCount \in 0..MaxFails
    \* An RPC client is sick from the limit on until it recovers.
    /\ \A u \in Upstreams : sick[u] <=> sickRate[u] = SickLimit

UpInit ==
    /\ node = [u \in Upstreams |-> "up"]
    /\ sickRate = [u \in Upstreams |-> 0]
    /\ successRate = [u \in Upstreams |-> 0]
    /\ sick = [u \in Upstreams |-> FALSE]
    /\ upstream = 1
    /\ checking = 0 /\ candidate = 1 /\ backup = FALSE
    /\ polls = [u \in Upstreams |-> 0]
    /\ failsCount = 0

Lesser(x, y) == IF x <= y THEN x ELSE y

NodeChanges(u) ==
    /\ node' = [node EXCEPT ![u] = IF @ = "up" THEN "down" ELSE "up"]
    /\ UNCHANGED <<clients, upstream, check, polls, failsCount>>

-----------------------------------------------------------------------------
(* An RPC client counts its failures and, in checks, its successes.        *)

\* RPCClient.markSick
ClientFails(u) ==
    /\ sickRate' = [sickRate EXCEPT ![u] = Lesser(@ + 1, SickLimit)]
    /\ successRate' = [successRate EXCEPT ![u] = 0]
    /\ sick' = [sick EXCEPT ![u] = @ \/ sickRate[u] + 1 >= SickLimit]

(* Mutant: a client that has recovered keeps its failures. *)
markAlive_KeepRate(u) ==
    IF successRate[u] + 1 >= SickLimit
    THEN /\ sick' = [sick EXCEPT ![u] = FALSE]
         /\ successRate' = [successRate EXCEPT ![u] = 0]
         /\ UNCHANGED sickRate
    ELSE /\ successRate' = [successRate EXCEPT ![u] = @ + 1]
         /\ UNCHANGED <<sickRate, sick>>

markAlive(u) ==
    IF successRate[u] + 1 >= SickLimit
    THEN /\ sick' = [sick EXCEPT ![u] = FALSE]
         /\ sickRate' = [sickRate EXCEPT ![u] = 0]
         /\ successRate' = [successRate EXCEPT ![u] = 0]
    ELSE /\ successRate' = [successRate EXCEPT ![u] = @ + 1]
         /\ UNCHANGED <<sickRate, sick>>

(* What a request of the template or a poll leaves behind in the client.   *)
(* A node that is down gives no answer, one that makes no sense, an error  *)
(* of JSON-RPC, or an HTTP error status: all are errors for the caller,    *)
(* but the last is no failure of the client.                               *)
Post(u) ==
    \/ node[u] = "down" /\ ClientFails(u)
    \/ UNCHANGED clients

(* Other requests go through the same clients: a block is submitted, the   *)
(* hash of a block is looked up, the wallet is asked for its balance or a  *)
(* transfer.  Each may fail, or be refused by an error of JSON-RPC, while  *)
(* the node answers everything else, and is counted all the same.          *)
RequestFails(u) ==
    /\ ClientFails(u)
    /\ UNCHANGED <<node, upstream, check, polls, failsCount>>

-----------------------------------------------------------------------------
(* checkUpstreams.                                                         *)

BeginCheck ==
    /\ checking = 0
    /\ checking' = 1 /\ candidate' = 1 /\ backup' = FALSE
    /\ UNCHANGED <<node, clients, upstream, polls, failsCount>>

(* RPCClient.Check: ok if the node answers and the client is not sick.     *)
CheckUpstream(u) ==
    /\ checking = u
    /\ IF node[u] = "up" THEN markAlive(u) ELSE Post(u)
    /\ LET ok == node[u] = "up" /\ ~sick'[u]
       IN /\ candidate' = IF ok /\ ~backup THEN u ELSE candidate
          /\ backup' = (backup \/ ok)
    /\ checking' = u + 1
    /\ UNCHANGED <<node, upstream, polls, failsCount>>

(* Mutant: the pool stays with an upstream that is not sick. *)
EndCheck_Sticky ==
    /\ checking = N + 1
    /\ upstream' = IF backup /\ node[upstream] = "up" THEN upstream
                                                      ELSE candidate
    /\ checking' = 0 /\ candidate' = 1 /\ backup' = FALSE
    /\ UNCHANGED <<node, clients, polls, failsCount>>

EndCheck ==
    /\ checking = N + 1
    /\ upstream' = candidate
    /\ checking' = 0 /\ candidate' = 1 /\ backup' = FALSE
    /\ UNCHANGED <<node, clients, polls, failsCount>>

-----------------------------------------------------------------------------
(* Polls: markSick and markOk of the server.                               *)

markOk == failsCount' = 0

poll(u) ==
    /\ Post(u)
    /\ IF node[u] = "up" THEN markOk
       ELSE failsCount' = Lesser(failsCount + 1, MaxFails)

isSick == failsCount >= MaxFails

(* Mutant: only the current upstream is polled. *)
PollCurrent_Only ==
    /\ poll(upstream)
    /\ UNCHANGED <<polls, node, upstream, check>>

(* The current upstream is polled; a goroutine of its own polls the others, *)
(* perhaps still when the next round begins.                               *)
PollCurrent ==
    /\ \A u \in Upstreams \ {upstream} : polls[u] < MaxPolls
    /\ poll(upstream)
    /\ polls' = [u \in Upstreams |->
                    IF u = upstream THEN polls[u] ELSE polls[u] + 1]
    /\ UNCHANGED <<node, upstream, check>>

PollOther(u) ==
    /\ polls[u] > 0
    /\ poll(u)
    /\ polls' = [polls EXCEPT ![u] = @ - 1]
    /\ UNCHANGED <<node, upstream, check>>
=============================================================================
