--------------------------------- MODULE Jobs ---------------------------------
(***************************************************************************)
(* What one session works on and is credited for: block templates that     *)
(* concurrent refreshes fetch (blocks.go:39-77), the jobs that logins,     *)
(* requests, broadcasts and retargets make of them (handlers.go, miner.go  *)
(* 150-210), and the shares that come back (handlers.go:177-217,           *)
(* miner.go:291-578).                                                      *)
(*                                                                         *)
(* The client is honest: a share is a nonce whose hash meets the target of *)
(* the job it works on, and may be sent again.  A write to the connection  *)
(* is its arrival.  Templates differ in Prev_Hash.  calcVarDiff is any     *)
(* change of difficulty.  A sick pool and a closed connection, which end   *)
(* all this, are left to Server; the amounts of donations are left out.    *)
(***************************************************************************)
EXTENDS Integers, Sequences

CONSTANTS
    Templates,   \* block templates of the node
    Height,      \* their heights
    Diffs,       \* difficulties of a session
    Default,     \* the one of the endpoint
    Block,       \* the difficulty of the network
    Nonces,
    Kept,        \* valid jobs of a session (4 in the code)
    TrustedSharesCount,
    Ids,         \* bound: jobs anybody still knows of
    MaxIncidents,  \* bound: moves of the node, retargets, logins, requests
    Fetchers,    \* goroutines that refresh the template
    Handler,     \* the one that handles the session's requests
    None         \* no job, no template, no share

Jobs == [id : Ids, tmpl : Templates, target : Diffs]
Shares == [job : Jobs, nonce : Nonces, hash : Diffs \cup {Block}]

ASSUME JobsAssumption ==
    /\ Height \in [Templates -> Nat] /\ None \notin Templates
    /\ Diffs \subseteq Nat \ {0} /\ Default \in Diffs
    /\ Block \in Nat /\ \A d \in Diffs : d < Block
    /\ Kept \in Nat \ {0} /\ TrustedSharesCount \in Nat
    /\ Ids \subseteq Nat /\ Handler \in Fetchers
    /\ None \notin Jobs /\ None \notin Shares
    /\ MaxIncidents \in Nat

VARIABLES
    tip,         \* external: the template the node would give
    answering,   \* external: it answers, and with no error
    template,    \* the pool's
    at, held,    \* a refresh: where it is, the template in its hands
    vardiff,     \* VarDiff.Enabled, constant
    registered,  \* the session is in the map of sessions
    difficulty, isFixedDiff, validJobs,   \* of the session
    submitted,   \* nonces of a job (submissions)
    doing,       \* what the handler is at
    own,         \* the template it has read
    setDiff,     \* the difficulty it has read
    share,       \* the share it has received
    retarget,    \* updateFixedDiffJobs: where it is
    base,        \* updateFixedDiffJobs: the template it has read
    offer,       \* updateFixedDiffJobs: the job it has made
    newDiff,     \* updateFixedDiffJobs: and its difficulty
    sending,     \* jobs about to be written to the connection
    reply,       \* job about to be written as a reply
    working,     \* the client's job
    TrustedShares,
    credits,     \* what a nonce of a job was credited (history)
    overlap,     \* jobs were made while others were on the way (history)
    budget       \* incidents left

node    == <<tip, answering, template, at, held>>
session == <<registered, difficulty, isFixedDiff>>
jobs    == <<validJobs, submitted, credits>>
handler == <<doing, own, setDiff, share, reply, TrustedShares>>
tuner   == <<retarget, base, offer, newDiff>>
client  == <<sending, working>>
vars == <<node, vardiff, session, jobs, handler, tuner, client, overlap,
          budget>>

TypeOK ==
    /\ tip \in Templates /\ template \in Templates
    /\ answering \in BOOLEAN
    /\ at \in [Fetchers -> {"idle", "reply", "new", "stored", "cast"}]
    /\ held \in [Fetchers -> Templates \cup {None}]
    /\ vardiff \in BOOLEAN /\ registered \in BOOLEAN
    /\ difficulty \in Diffs /\ isFixedDiff \in BOOLEAN
    /\ validJobs \in Seq(Jobs) /\ Len(validJobs) <= Kept
    /\ submitted \in [Ids -> SUBSET Nonces]
    /\ credits \in [Ids \X Nonces -> Seq(Diffs)]
    /\ doing \in {"idle", "login", "join", "getjob", "submit", "check",
                  "block", "credit", "refresh"}
    /\ own \in Templates \cup {None}
    /\ setDiff \in Diffs
    /\ share \in Shares \cup {None}
    /\ retarget \in {"idle", "begun", "made"}
    /\ base \in Templates \cup {None}
    /\ offer \in Jobs \cup {None} /\ newDiff \in Diffs
    /\ sending \subseteq Jobs
    /\ reply \in Jobs \cup {None} /\ working \in Jobs \cup {None}
    /\ TrustedShares \in 0..TrustedSharesCount
    /\ overlap \in BOOLEAN
    /\ budget \in 0..MaxIncidents

Init ==
    /\ tip \in Templates /\ template = tip /\ answering = TRUE
    /\ at = [f \in Fetchers |-> "idle"] /\ held = [f \in Fetchers |-> None]
    /\ vardiff \in BOOLEAN
    /\ registered = FALSE /\ difficulty = Default /\ isFixedDiff = FALSE
    /\ validJobs = <<>>
    /\ submitted = [i \in Ids |-> {}]
    /\ credits = [k \in Ids \X Nonces |-> <<>>]
    /\ doing = "idle" /\ own = None /\ setDiff = Default /\ share = None
    /\ retarget = "idle" /\ base = None /\ offer = None /\ newDiff = Default
    /\ sending = {} /\ reply = None /\ working = None
    /\ TrustedShares = 0 /\ overlap = FALSE
    /\ budget = MaxIncidents

Incident == budget > 0 /\ budget' = budget - 1

(* Somebody makes or sends a job. *)
Busy ==
    \/ \E f \in Fetchers : at[f] \in {"stored", "cast"}
    \/ doing \in {"login", "join", "getjob"} \/ retarget # "idle"
    \/ sending # {} \/ reply # None

-----------------------------------------------------------------------------
(* Jobs.                                                                   *)

InUse ==
    {validJobs[i].id : i \in DOMAIN validJobs}
        \cup {j.id : j \in sending \cup ({offer, reply, working} \ {None})}
        \cup (IF share = None THEN {} ELSE {share.job.id})

(* Job ids count up; the model takes one that is free again. *)
IsNextId(id) == id \notin InUse /\ \A i \in Ids \ InUse : id <= i

Target(diff) == IF isFixedDiff \/ vardiff THEN diff ELSE Default

(* Mutant: one job more is kept. *)
pushJob_OneMore(job) ==
    validJobs' = LET s == Append(validJobs, job)
                 IN IF Len(s) > Kept + 1 THEN Tail(s) ELSE s

(* Mutant: the last job is dropped, not the first. *)
pushJob_DropLast(job) ==
    validJobs' = IF Len(validJobs) < Kept THEN Append(validJobs, job)
                                          ELSE validJobs

pushJob(job) ==
    validJobs' = LET s == Append(validJobs, job)
                 IN IF Len(s) > Kept THEN Tail(s) ELSE s

(* getJob makes a job, and it is valid before the client hears of it.  What *)
(* is known of jobs that are not valid any more is forgotten.              *)
getJob(job, t, diff) ==
    /\ job = [id |-> job.id, tmpl |-> t, target |-> Target(diff)]
    /\ IsNextId(job.id)
    /\ pushJob(job)
    /\ LET old == {validJobs'[i].id : i \in DOMAIN validJobs'} \ {job.id}
       IN  /\ submitted' =
                 [i \in Ids |-> IF i \in old THEN submitted[i] ELSE {}]
           /\ credits' = [k \in Ids \X Nonces |->
                            IF k[1] \in old THEN credits[k] ELSE <<>>]

-----------------------------------------------------------------------------
(* Templates: the node, refreshBlockTemplate and broadcastNewJobs.         *)

NodeMoves ==
    /\ Incident
    /\ tip' \in Templates \ {tip}
    /\ UNCHANGED <<answering, template, at, held, vardiff, session, jobs,
                   handler, tuner, client, overlap>>

(* Requests begin or cease to fail: with no answer, an error of JSON-RPC or *)
(* a status that is no success.                                            *)
NodeFails ==
    /\ Incident
    /\ answering' = ~answering
    /\ UNCHANGED <<tip, template, at, held, vardiff, session, jobs, handler,
                   tuner, client, overlap>>

(* The handler refreshes only when its share was a block.  A refresh whose *)
(* request fails is over.                                                  *)
Ask(f) ==
    /\ at[f] = "idle" /\ (f = Handler => doing = "refresh")
    /\ IF answering
       THEN /\ at' = [at EXCEPT ![f] = "reply"]
            /\ held' = [held EXCEPT ![f] = tip]
       ELSE UNCHANGED <<at, held>>
    /\ doing' = IF f = Handler THEN "idle" ELSE doing
    /\ UNCHANGED <<tip, answering, template, vardiff, session, jobs, own,
                   setDiff, share, reply, TrustedShares, tuner, client,
                   overlap, budget>>

(* Mutant: only higher templates are new. *)
IsNew_Higher(t) == Height[t] > Height[template]

IsNew(t) == t # template

(* fetchBlockTemplate compares the answer with the template of the pool as *)
(* it is now, perhaps not the one it was when the node was asked.          *)
Fetched(f) ==
    /\ at[f] = "reply"
    /\ IF IsNew(held[f])
       THEN /\ at' = [at EXCEPT ![f] = "new"]
            /\ UNCHANGED held
       ELSE /\ at' = [at EXCEPT ![f] = "idle"]
            /\ held' = [held EXCEPT ![f] = None]
    /\ UNCHANGED <<tip, answering, template, vardiff, session, jobs, handler,
                   tuner, client, overlap, budget>>

\* And stores it, perhaps over one that was stored since the comparison.
Store(f) ==
    /\ at[f] = "new"
    /\ template' = held[f]
    /\ at' = [at EXCEPT ![f] = "stored"]
    /\ held' = [held EXCEPT ![f] = None]
    /\ overlap' = Busy
    /\ UNCHANGED <<tip, answering, vardiff, session, jobs, handler, tuner,
                   client, budget>>

broadcastNewJobs(f) ==
    /\ at[f] = "stored"
    /\ IF registered
       THEN /\ at' = [at EXCEPT ![f] = "cast"]
            /\ held' = [held EXCEPT ![f] = template]
       ELSE /\ at' = [at EXCEPT ![f] = "idle"]
            /\ UNCHANGED held
    /\ UNCHANGED <<tip, answering, template, vardiff, session, jobs, handler,
                   tuner, client, overlap, budget>>

(* The goroutine for the session. *)
Cast(f) ==
    /\ at[f] = "cast"
    /\ \E job \in Jobs :
          getJob(job, held[f], difficulty) /\ sending' = sending \cup {job}
    /\ at' = [at EXCEPT ![f] = "idle"]
    /\ held' = [held EXCEPT ![f] = None]
    /\ UNCHANGED <<tip, answering, template, vardiff, session, handler, tuner,
                   working, overlap, budget>>

\* pushMessage
Send(job) ==
    /\ job \in sending
    /\ sending' = sending \ {job} /\ working' = job
    /\ UNCHANGED <<node, vardiff, session, jobs, handler, tuner, overlap,
                    budget>>

-----------------------------------------------------------------------------
(* updateFixedDiffJobs, for the session.                                   *)

RetargetBegins ==
    /\ Incident
    /\ retarget = "idle" /\ registered /\ ~isFixedDiff
    /\ retarget' = "begun" /\ base' = template
    /\ overlap' = (overlap \/ Busy)
    /\ UNCHANGED <<node, vardiff, session, jobs, handler, offer, newDiff,
                   client>>

\* calcVarDiff leaves the difficulty as it is, or a job is made.
RetargetMakes ==
    /\ retarget = "begun" /\ base' = None
    /\ \/ /\ retarget' = "idle"
          /\ UNCHANGED <<jobs, offer, newDiff>>
       \/ /\ ~isFixedDiff /\ newDiff' \in Diffs \ {difficulty}
          /\ offer' \in Jobs /\ getJob(offer', base, newDiff')
          /\ retarget' = "made"
    /\ UNCHANGED <<node, vardiff, session, handler, client, overlap, budget>>

RetargetSets ==
    /\ retarget = "made" /\ retarget' = "idle"
    /\ difficulty' = newDiff
    /\ sending' = sending \cup {offer}
    /\ offer' = None /\ newDiff' = Default
    /\ UNCHANGED <<node, vardiff, registered, isFixedDiff, base, jobs, handler,
                   working, overlap, budget>>

-----------------------------------------------------------------------------
(* Requests of the client, handled one after the other.                    *)

HandlerFree ==
    doing = "idle" /\ reply = None /\ at[Handler] \in {"idle", "cast"}

(* handleLoginRPC sets the difficulty and reads the template; a login may  *)
(* come once more.  fix is None or the difficulty the login asks for.      *)
Login(fix) ==
    /\ Incident /\ HandlerFree
    /\ difficulty' = IF fix = None THEN Default ELSE fix
    /\ isFixedDiff' = (fix # None)
    /\ doing' = "login" /\ own' = template /\ overlap' = Busy
    /\ UNCHANGED <<node, vardiff, registered, jobs, setDiff, share, reply,
                   TrustedShares, tuner, client>>

registerSession ==
    /\ doing = "login"
    /\ registered' = TRUE /\ doing' = "join"
    /\ UNCHANGED <<node, vardiff, difficulty, isFixedDiff, jobs, own, setDiff,
                   share, reply, TrustedShares, tuner, client, overlap, budget>>

\* handleGetJobRPC
GetJob ==
    /\ Incident /\ HandlerFree /\ registered
    /\ doing' = "getjob" /\ own' = template /\ overlap' = Busy
    /\ UNCHANGED <<node, vardiff, session, jobs, setDiff, share, reply,
                   TrustedShares, tuner, client>>

(* Both end with a job in the reply. *)
MakeReply ==
    /\ doing \in {"join", "getjob"}
    /\ reply' \in Jobs /\ getJob(reply', own, difficulty)
    /\ doing' = "idle" /\ own' = None
    /\ UNCHANGED <<node, vardiff, session, setDiff, share, TrustedShares,
                   tuner, client, overlap, budget>>

\* sendResult
SendReply ==
    /\ reply # None
    /\ working' = reply /\ reply' = None
    /\ UNCHANGED <<node, vardiff, session, jobs, doing, own, setDiff, share,
                   TrustedShares, tuner, sending, overlap, budget>>

(* The client has found a share, or has had no answer to it. *)
Submit(nonce, hash) ==
    /\ Incident /\ HandlerFree /\ registered /\ working # None
    /\ hash >= working.target
    /\ share' = [job |-> working, nonce |-> nonce, hash |-> hash]
    /\ doing' = "submit"
    /\ UNCHANGED <<node, vardiff, session, jobs, own, setDiff, reply,
                   TrustedShares, tuner, client, overlap>>

Reject ==
    /\ doing' = "idle" /\ own' = None /\ share' = None /\ setDiff' = Default

findJob == \E i \in DOMAIN validJobs : validJobs[i] = share.job

(* Mutant: nonces are looked up, but not kept. *)
submit_Forget == UNCHANGED submitted

\* Job.submit
submit ==
    submitted' = [submitted EXCEPT ![share.job.id] = @ \cup {share.nonce}]

(* handleSubmitRPC: invalid job, duplicate, block expired, or on to        *)
(* processShare, which reads the difficulty once before and again after it *)
(* has hashed.  Only the heights of the two templates are compared.        *)
handleSubmitRPC ==
    /\ doing = "submit"
    /\ IF ~findJob \/ share.nonce \in submitted[share.job.id]
       THEN Reject /\ UNCHANGED submitted
       ELSE /\ submit
            /\ IF Height[share.job.tmpl] # Height[template] THEN Reject
               ELSE /\ doing' = "check" /\ own' = template
                    /\ setDiff' = difficulty
                    /\ UNCHANGED share
    /\ UNCHANGED <<node, vardiff, session, validJobs, credits, reply,
                   TrustedShares, tuner, client, overlap, budget>>

Trusted == TrustedShares >= TrustedSharesCount

(* The hash of a share of another template is of no use; it is computed    *)
(* only for a miner that is not trusted.                                   *)
ValidHash == share.job.tmpl = own /\ share.hash >= setDiff

processShare ==
    /\ doing = "check"
    /\ TrustedShares' = IF Trusted THEN TrustedShares
                        ELSE IF ValidHash THEN TrustedShares + 1 ELSE 0
    /\ \/ /\ ~Trusted /\ ~ValidHash /\ Reject
       \/ /\ Trusted \/ ValidHash
          /\ \/ /\ share.hash = Block /\ doing' = "block"
                /\ UNCHANGED <<own, share, setDiff>>
             \/ /\ share.hash # Block /\ share.hash < setDiff /\ Reject
             \/ /\ share.hash # Block /\ share.hash >= setDiff
                /\ doing' = "credit"
                /\ UNCHANGED <<own, share, setDiff>>
    /\ UNCHANGED <<node, vardiff, session, jobs, reply, tuner, client,
                    overlap, budget>>

Accept ==
    /\ credits' = [credits EXCEPT ![<<share.job.id, share.nonce>>] =
                      Append(@, difficulty)]
    /\ own' = None /\ share' = None /\ setDiff' = Default

(* storeShare and what follows it *)
storeShare ==
    /\ doing = "credit" /\ doing' = "idle"
    /\ Accept
    /\ UNCHANGED <<node, vardiff, session, validJobs, submitted, reply,
                   TrustedShares, tuner, client, overlap, budget>>

(* The node takes a block if it is built on the node's tip; the template   *)
(* is refreshed before the client hears of it.  A submission that fails is *)
(* rejected as a bad hash.                                                 *)
SubmitBlock ==
    /\ doing = "block"
    /\ IF share.job.tmpl = own /\ own = tip /\ answering
       THEN Accept /\ doing' = "refresh"
       ELSE Reject /\ UNCHANGED credits
    /\ UNCHANGED <<node, vardiff, session, validJobs, submitted, reply,
                   TrustedShares, tuner, client, overlap, budget>>

-----------------------------------------------------------------------------
Handling ==
    \/ registerSession \/ MakeReply \/ SendReply
    \/ handleSubmitRPC \/ processShare \/ storeShare \/ SubmitBlock

Requests ==
    \/ \E fix \in Diffs \cup {None} : Login(fix)
    \/ GetJob
    \/ \E nonce \in Nonces, hash \in Diffs \cup {Block} : Submit(nonce, hash)

Refreshing(f) ==
    Ask(f) \/ Fetched(f) \/ Store(f) \/ broadcastNewJobs(f) \/ Cast(f)

Next ==
    \/ NodeMoves \/ NodeFails
    \/ \E f \in Fetchers : Refreshing(f)
    \/ \E job \in sending : Send(job)
    \/ RetargetBegins \/ RetargetMakes \/ RetargetSets
    \/ Requests
    \/ Handling

Fairness == \A f \in Fetchers : WF_vars(Refreshing(f))

Spec == Init /\ [][Next]_vars /\ Fairness

-----------------------------------------------------------------------------
(* Properties.                                                             *)

(* As long as jobs do not overlap, each made and sent while no other is on *)
(* its way, the client works on the pool's template, at the target of the  *)
(* difficulty the pool will check, and the pool still knows that job       *)
(* (handlers.go:154-158, 237-253, 274-290, miner.go:191-199).              *)
WorkIsCurrent ==
    registered /\ ~Busy /\ ~overlap =>
        /\ working \in {validJobs[i] : i \in DOMAIN validJobs}
        /\ working.tmpl = template
        /\ working.target = Target(difficulty)

(* VarDiff is not enabled, but retargets have changed the difficulty all   *)
(* the same (handlers.go:272-277), while targets stay (miner.go:170-173).  *)
Drifted == Target(difficulty) # difficulty

Disturbed == Busy \/ overlap \/ share.job # working \/ Drifted

(* A nonce of a job is credited once; and a share of the job the client    *)
(* works on is credited with the target it was asked for, unless jobs      *)
(* overlap, the difficulty has drifted from the target, it was sent and    *)
(* rejected before, or it is a block that the node has moved away from or  *)
(* that could not be submitted (handlers.go:186-215, miner.go:305,         *)
(* 390-404, 521-541).                                                      *)
FairVerdicts ==
    [][share # None /\ share' = None =>
         LET credit == credits'[<<share.job.id, share.nonce>>]
         IN  /\ Len(credit) <= 1
             /\ \/ Disturbed
                \/ share.hash = Block /\ (tip # template \/ ~answering)
                \/ doing = "submit" /\ share.nonce \in submitted[share.job.id]
                \/ credit = <<share.job.target>>
      ]_vars

(* When the node answers and stays with a template, the pool comes to it   *)
(* and stays, whatever answers overtook each other (blocks.go:39-77).      *)
TemplateCatchesUp ==
    \A t \in Templates :
        <>[](tip = t /\ answering) => <>[](template = t)
=============================================================================
