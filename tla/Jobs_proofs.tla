------------------------------ MODULE Jobs_proofs ------------------------------
(***************************************************************************)
(* Proofs about Jobs, for every set of templates, difficulties, nonces and *)
(* refreshing goroutines, and every number of jobs kept.                   *)
(***************************************************************************)
EXTENDS Jobs, TLAPS

USE JobsAssumption

-----------------------------------------------------------------------------
(* The inductive invariant.                                                *)

Valid == {validJobs[i] : i \in DOMAIN validJobs}

(* Jobs somebody still has in hand or works on. *)
Known ==
    Valid \cup sending \cup ({offer, reply, working} \ {None})
        \cup (IF share = None THEN {} ELSE {share.job})

(* An id stands for one job; and a job is on its way to the client in one  *)
(* place only, and not any more when the client works on it.               *)
Distinct ==
    /\ \A j, k \in Known : j.id = k.id => j = k
    /\ offer # None => offer \notin sending \cup {reply, working}
    /\ reply # None => reply \notin sending \cup {working}
    /\ working \notin sending
    /\ share # None => share.job \notin sending \cup {offer, reply}

(* What is done with a share is done for a registered session; and what a  *)
(* refresh or a retarget is about to use is there.                         *)
Judging == doing \in {"check", "block", "credit"}
Control ==
    /\ share # None <=> doing = "submit" \/ Judging
    /\ doing = "block" => share.hash = Block
    /\ doing \in {"join", "getjob"} \/ share # None => registered
    /\ \A f \in Fetchers : at[f] = "cast" => registered
    /\ \A f \in Fetchers : at[f] \in {"reply", "new"} => held[f] # None
    /\ retarget = "made" => offer # None

(* As long as no jobs overlap, one job is made or on its way. *)
Making == {f \in Fetchers : at[f] \in {"stored", "cast"}}
Answering == doing \in {"login", "join", "getjob"}

OneAtATime ==
    ~overlap =>
        /\ \A f, g \in Making : f = g
        /\ \A j, k \in sending : j = k
        /\ Making # {} => ~Answering /\ retarget = "idle"
        /\ Making # {} \/ Answering \/ retarget # "idle" =>
              sending = {} /\ reply = None
        /\ Answering => retarget = "idle"
        /\ sending # {} => reply = None

(* And it is made of the pool's template and the session's difficulty.     *)
Good(j) == j \in Valid /\ j.tmpl = template /\ j.target = Target(difficulty)

UpToDate ==
    ~overlap =>
        /\ \A f \in Fetchers : at[f] = "cast" => held[f] = template
        /\ Answering => own = template
        /\ retarget = "begun" => base = template /\ Good(working)
        /\ retarget = "made" => /\ offer \in Valid /\ offer.tmpl = template
                                /\ offer.target = Target(newDiff)
        /\ \A j \in sending : Good(j)
        /\ reply # None => Good(reply)
        /\ registered /\ ~Busy => Good(working)

(* A nonce that was credited, or is being looked at, is known for the job. *)
Counted ==
    /\ \A i \in Ids, n \in Nonces : Len(credits[<<i, n>>]) <= 1
    /\ \A j \in Valid, n \in Nonces :
          credits[<<j.id, n>>] # <<>> => n \in submitted[j.id]
    /\ Judging =>
          /\ credits[<<share.job.id, share.nonce>>] = <<>>
          /\ share.job \in Valid => share.nonce \in submitted[share.job.id]

(* A share of the client's job is judged by the template and difficulty    *)
(* that the pool has, unless a job is on its way that will replace it.     *)
Judged ==
    /\ share # None => share.hash >= share.job.target
    /\ ~overlap /\ Judging /\ share.job = working
          /\ (~Busy \/ retarget = "begun")
       => own = template /\ setDiff = difficulty

IInv ==
    /\ TypeOK
    /\ Distinct
    /\ Control
    /\ OneAtATime
    /\ UpToDate
    /\ Counted
    /\ Judged

-----------------------------------------------------------------------------
(* Steps.                                                                  *)

Steps ==
    \/ NodeMoves
    \/ NodeFails
    \/ \E f \in Fetchers : Ask(f)
    \/ \E f \in Fetchers : Fetched(f)
    \/ \E f \in Fetchers : Store(f)
    \/ \E f \in Fetchers : broadcastNewJobs(f)
    \/ \E f \in Fetchers : Cast(f)
    \/ \E job \in sending : Send(job)
    \/ RetargetBegins
    \/ RetargetMakes
    \/ RetargetSets
    \/ \E fix \in Diffs \cup {None} : Login(fix)
    \/ GetJob
    \/ \E n \in Nonces, h \in Diffs \cup {Block} : Submit(n, h)
    \/ registerSession
    \/ MakeReply
    \/ SendReply
    \/ handleSubmitRPC
    \/ processShare
    \/ storeShare
    \/ SubmitBlock
    \/ UNCHANGED vars

LEMMA StepCases == [Next]_vars => Steps
BY DEF Next, Refreshing, Requests, Handling, Steps

(* The sequence of valid jobs gets one more, and loses its first when it   *)
(* is full.                                                                *)
LEMMA Pushed ==
    ASSUME validJobs \in Seq(Jobs), Len(validJobs) <= Kept,
           NEW job \in Jobs, pushJob(job)
    PROVE  /\ validJobs' \in Seq(Jobs) /\ Len(validJobs') <= Kept
           /\ job \in Valid'
           /\ Valid' \subseteq Valid \cup {job}
<1> DEFINE s == Append(validJobs, job)
<1>1. /\ s \in Seq(Jobs) /\ Len(s) = Len(validJobs) + 1 /\ s[Len(s)] = job
      /\ Len(validJobs) \in Nat
      /\ \A i \in 1..Len(validJobs) : s[i] = validJobs[i]
    OBVIOUS
<1>2. DOMAIN validJobs = 1..Len(validJobs) /\ DOMAIN s = 1..Len(s)
    BY <1>1
<1>3. \A i \in DOMAIN s : s[i] \in Valid \cup {job}
    BY <1>1, <1>2 DEF Valid
<1>4. CASE Len(s) > Kept
  <2>1. validJobs' = Tail(s)
    BY <1>4 DEF pushJob
  <2>2. /\ Tail(s) \in Seq(Jobs) /\ Len(Tail(s)) = Len(s) - 1
        /\ \A i \in 1..(Len(s) - 1) : Tail(s)[i] = s[i + 1]
        /\ DOMAIN Tail(s) = 1..(Len(s) - 1)
    BY <1>1, <1>4
  <2>3. Len(s) - 1 \in 1..(Len(s) - 1) /\ Tail(s)[Len(s) - 1] = job
    BY <1>1, <1>4, <2>2
  <2>4. job \in Valid'
    BY <2>1, <2>2, <2>3 DEF Valid
  <2>5. Valid' \subseteq Valid \cup {job}
    <3> SUFFICES ASSUME NEW j \in Valid' PROVE j \in Valid \cup {job}
        OBVIOUS
    <3>1. PICK i \in 1..(Len(s) - 1) : j = s[i + 1]
        BY <2>1, <2>2 DEF Valid
    <3>2. i + 1 \in DOMAIN s
        BY <1>1, <1>2
    <3>3. QED
        BY <1>3, <3>1, <3>2
  <2>6. QED
    BY <1>1, <2>1, <2>2, <2>4, <2>5
<1>5. CASE ~(Len(s) > Kept)
  <2>1. validJobs' = s
    BY <1>5 DEF pushJob
  <2>2. QED
    BY <1>1, <1>2, <1>3, <1>5, <2>1 DEF Valid
<1>6. QED
    BY <1>4, <1>5

(* What getJob does to the jobs, the nonces and the credits. *)
LEMMA NewJob ==
    ASSUME TypeOK, NEW job \in Jobs, NEW t, NEW diff, getJob(job, t, diff)
    PROVE  /\ validJobs' \in Seq(Jobs) /\ Len(validJobs') <= Kept
           /\ submitted' \in [Ids -> SUBSET Nonces]
           /\ credits' \in [Ids \X Nonces -> Seq(Diffs)]
           /\ job.tmpl = t /\ job.target = Target(diff)
           /\ \A j \in Known : j.id # job.id
           /\ job \in Valid' /\ Valid' \subseteq Valid \cup {job}
           /\ \A i \in Ids, n \in Nonces :
                 credits'[<<i, n>>] \in {credits[<<i, n>>], <<>>}
           /\ \A n \in Nonces : credits'[<<job.id, n>>] = <<>>
           /\ \A j \in Valid' : j # job /\ j.id # job.id =>
                 submitted'[j.id] = submitted[j.id]
<1> DEFINE old == {validJobs'[i].id : i \in DOMAIN validJobs'} \ {job.id}
<1>1. /\ validJobs' \in Seq(Jobs) /\ Len(validJobs') <= Kept
      /\ job \in Valid' /\ Valid' \subseteq Valid \cup {job}
    BY Pushed DEF TypeOK, getJob
<1>2. submitted' = [i \in Ids |-> IF i \in old THEN submitted[i] ELSE {}]
    BY DEF getJob
<1>3. credits' = [k \in Ids \X Nonces |->
                     IF k[1] \in old THEN credits[k] ELSE <<>>]
    BY DEF getJob
<1>4. job.tmpl = t /\ job.target = Target(diff)
    BY DEF getJob, Jobs
<1>5. job.id \notin InUse
    BY DEF getJob, IsNextId
<1>6. \A j \in Known : j.id # job.id
    BY <1>5 DEF InUse, Known, Valid
<1>7. submitted' \in [Ids -> SUBSET Nonces]
    BY <1>2 DEF TypeOK
<1>8. credits' \in [Ids \X Nonces -> Seq(Diffs)]
    BY <1>3 DEF TypeOK
<1>9. \A i \in Ids, n \in Nonces :
         credits'[<<i, n>>] = IF i \in old THEN credits[<<i, n>>] ELSE <<>>
    BY <1>3
<1>10. \A j \in Valid' : j \in Jobs /\ (j.id # job.id => j.id \in old)
    BY <1>1 DEF Valid
<1>11. job.id \in Ids
    BY DEF Jobs
<1>12. \A j \in Valid' : j.id # job.id => submitted'[j.id] = submitted[j.id]
    BY <1>2, <1>10 DEF Jobs
<1>13. QED
    BY <1>1, <1>4, <1>6, <1>7, <1>8, <1>9, <1>11, <1>12

-----------------------------------------------------------------------------
(* Type correctness.                                                       *)

LEMMA InitType == Init => TypeOK /\ Control
<1> SUFFICES ASSUME Init PROVE TypeOK /\ Control
    OBVIOUS
<1>1. validJobs \in Seq(Jobs) /\ Len(validJobs) = 0
    BY DEF Init
<1>2. credits \in [Ids \X Nonces -> Seq(Diffs)]
    BY DEF Init
<1>3. Control
    BY DEF Init, Control, Judging
<1>4. /\ at \in [Fetchers -> {"idle", "reply", "new", "stored", "cast"}]
      /\ held \in [Fetchers -> Templates \cup {None}]
      /\ submitted \in [Ids -> SUBSET Nonces]
    BY DEF Init
<1>5. /\ tip \in Templates /\ template \in Templates
      /\ answering = TRUE
      /\ vardiff \in BOOLEAN /\ registered = FALSE /\ isFixedDiff = FALSE
      /\ difficulty = Default /\ setDiff = Default /\ newDiff = Default
      /\ doing = "idle" /\ retarget = "idle" /\ overlap = FALSE
      /\ own = None /\ share = None /\ base = None /\ offer = None
      /\ sending = {} /\ reply = None /\ working = None
      /\ TrustedShares = 0 /\ budget = MaxIncidents
    BY DEF Init
<1>6. TypeOK
  <2>1. /\ Len(validJobs) <= Kept
        /\ TrustedShares \in 0..TrustedSharesCount
        /\ budget \in 0..MaxIncidents
    BY <1>1, <1>5
  <2>2. overlap \in BOOLEAN /\ registered \in BOOLEAN
          /\ isFixedDiff \in BOOLEAN /\ answering \in BOOLEAN
    BY <1>5
  <2>3. difficulty \in Diffs /\ setDiff \in Diffs /\ newDiff \in Diffs
    BY <1>5
  <2>4. QED
    BY <1>1, <1>2, <1>4, <1>5, <2>1, <2>2, <2>3 DEF TypeOK
<1>7. QED
    BY <1>3, <1>6

LEMMA NextType == TypeOK /\ Control /\ [Next]_vars => TypeOK'
<1> SUFFICES ASSUME TypeOK, Control, [Next]_vars PROVE TypeOK'
    OBVIOUS
<1> USE DEF TypeOK, node, session, jobs, handler, tuner, client
<1>1. CASE NodeMoves \/ NodeFails
  <2>1. budget' \in 0..MaxIncidents /\ tip' \in Templates
    BY <1>1 DEF NodeMoves, NodeFails, Incident
  <2>2. answering' \in BOOLEAN
    BY <1>1 DEF NodeMoves, NodeFails
  <2>3. UNCHANGED <<template, at, held, vardiff, session, jobs, handler,
                    tuner, client, overlap>>
    BY <1>1 DEF NodeMoves, NodeFails
  <2>4. QED
    BY <2>1, <2>2, <2>3
<1>2. ASSUME NEW f \in Fetchers, Ask(f)
      PROVE  TypeOK'
  <2>1. held' \in [Fetchers -> Templates \cup {None}]
    BY <1>2 DEF Ask
  <2>2. at' \in [Fetchers -> {"idle", "reply", "new", "stored", "cast"}]
    BY <1>2 DEF Ask
  <2>3. doing' \in {"idle", doing}
    BY <1>2 DEF Ask
  <2>4. QED
    BY <1>2, <2>1, <2>2, <2>3 DEF Ask
<1>3. ASSUME NEW f \in Fetchers, Fetched(f)
      PROVE  TypeOK'
  <2>1. held' \in [Fetchers -> Templates \cup {None}]
    BY <1>3 DEF Fetched
  <2>2. at' \in [Fetchers -> {"idle", "reply", "new", "stored", "cast"}]
    BY <1>3 DEF Fetched
  <2>3. QED
    BY <1>3, <2>1, <2>2 DEF Fetched
<1>3a. ASSUME NEW f \in Fetchers, Store(f)
       PROVE  TypeOK'
  <2>1. held[f] \in Templates
    BY <1>3a DEF Store, Control
  <2>2. overlap' \in BOOLEAN
    BY <1>3a DEF Store, Busy
  <2>3. template' \in Templates
    BY <1>3a, <2>1 DEF Store
  <2>4. held' \in [Fetchers -> Templates \cup {None}]
    BY <1>3a DEF Store
  <2>5. at' \in [Fetchers -> {"idle", "reply", "new", "stored", "cast"}]
    BY <1>3a DEF Store
  <2>6. UNCHANGED <<tip, answering, vardiff, session, jobs, handler, tuner,
                    client, budget>>
    BY <1>3a DEF Store
  <2>7. QED
    BY <2>2, <2>3, <2>4, <2>5, <2>6
<1>4. ASSUME NEW f \in Fetchers, broadcastNewJobs(f)
      PROVE  TypeOK'
  <2>1. held' \in [Fetchers -> Templates \cup {None}]
    BY <1>4 DEF broadcastNewJobs
  <2>2. at' \in [Fetchers -> {"idle", "reply", "new", "stored", "cast"}]
    BY <1>4 DEF broadcastNewJobs
  <2>3. QED
    BY <1>4, <2>1, <2>2 DEF broadcastNewJobs
<1>5. ASSUME NEW f \in Fetchers, Cast(f)
      PROVE  TypeOK'
  <2>1. PICK job \in Jobs : getJob(job, held[f], difficulty)
                              /\ sending' = sending \cup {job}
    BY <1>5 DEF Cast
  <2>2. held' \in [Fetchers -> Templates \cup {None}]
    BY <1>5 DEF Cast
  <2>3. at' \in [Fetchers -> {"idle", "reply", "new", "stored", "cast"}]
    BY <1>5 DEF Cast
  <2>4. sending' \subseteq Jobs
    BY <2>1
  <2>5. /\ validJobs' \in Seq(Jobs) /\ Len(validJobs') <= Kept
        /\ submitted' \in [Ids -> SUBSET Nonces]
        /\ credits' \in [Ids \X Nonces -> Seq(Diffs)]
    BY <2>1, NewJob
  <2>6. QED
    BY <1>5, <2>2, <2>3, <2>4, <2>5 DEF Cast
<1>6. ASSUME NEW job \in sending, Send(job)
      PROVE  TypeOK'
    BY <1>6 DEF Send
<1>7. CASE RetargetBegins
    BY <1>7 DEF RetargetBegins, Incident, Busy
<1>8. CASE RetargetMakes
  <2>1. CASE UNCHANGED <<jobs, offer, newDiff>>
    BY <1>8, <2>1 DEF RetargetMakes
  <2>2. CASE newDiff' \in Diffs /\ offer' \in Jobs
               /\ getJob(offer', base, newDiff')
    BY <1>8, <2>2, NewJob DEF RetargetMakes
  <2>3. QED
    BY <1>8, <2>1, <2>2 DEF RetargetMakes
<1>9. CASE RetargetSets
    BY <1>9 DEF RetargetSets, Control
<1>10. ASSUME NEW fix \in Diffs \cup {None}, Login(fix)
       PROVE  TypeOK'
    BY <1>10 DEF Login, Incident, Busy
<1>11. CASE GetJob
    BY <1>11 DEF GetJob, Incident, Busy
<1>12. ASSUME NEW n \in Nonces, NEW h \in Diffs \cup {Block}, Submit(n, h)
       PROVE  TypeOK'
  <2>1. share' \in Shares
    BY <1>12 DEF Submit, Shares
  <2>2. QED
    BY <1>12, <2>1 DEF Submit, Incident
<1>13. CASE registerSession
    BY <1>13 DEF registerSession
<1>14. CASE MakeReply
  <2>1. reply' \in Jobs /\ getJob(reply', own, difficulty)
    BY <1>14 DEF MakeReply
  <2>2. /\ validJobs' \in Seq(Jobs) /\ Len(validJobs') <= Kept
        /\ submitted' \in [Ids -> SUBSET Nonces]
        /\ credits' \in [Ids \X Nonces -> Seq(Diffs)]
    BY <2>1, NewJob
  <2>3. QED
    BY <1>14, <2>1, <2>2 DEF MakeReply
<1>15. CASE SendReply
    BY <1>15 DEF SendReply
<1>16. CASE handleSubmitRPC
  <2>1. share \in Shares
    BY <1>16 DEF handleSubmitRPC, Control
  <2>2. submitted' \in [Ids -> SUBSET Nonces]
    BY <1>16, <2>1 DEF handleSubmitRPC, submit, Shares
  <2>3. QED
    BY <1>16, <2>2 DEF handleSubmitRPC, Reject
<1>17. CASE processShare
    BY <1>17 DEF processShare, Reject, Trusted
<1>18. ASSUME Accept, Judging
       PROVE  credits' \in [Ids \X Nonces -> Seq(Diffs)]
  <2> DEFINE k == <<share.job.id, share.nonce>>
  <2>1. share \in Shares
    BY <1>18 DEF Control
  <2>2. k \in Ids \X Nonces
    BY <2>1 DEF Shares, Jobs
  <2>3. Append(credits[k], difficulty) \in Seq(Diffs)
    BY <2>2
  <2>4. credits' = [credits EXCEPT ![k] = Append(credits[k], difficulty)]
    BY <1>18 DEF Accept
  <2>5. QED
    BY <2>2, <2>3, <2>4
<1>19. CASE storeShare
    BY <1>18, <1>19 DEF storeShare, Accept, Judging
<1>20. CASE SubmitBlock
  <2>1. CASE Accept /\ doing' = "refresh"
    <3>1. credits' \in [Ids \X Nonces -> Seq(Diffs)]
      BY <1>18, <1>20, <2>1 DEF SubmitBlock, Judging
    <3>2. own' = None /\ share' = None /\ setDiff' \in Diffs
      BY <2>1 DEF Accept
    <3>3. QED
      BY <1>20, <2>1, <3>1, <3>2 DEF SubmitBlock
  <2>2. CASE Reject /\ UNCHANGED credits
    <3>1. /\ doing' = "idle" /\ own' = None /\ share' = None
          /\ setDiff' \in Diffs
      BY <2>2 DEF Reject
    <3>2. QED
      BY <1>20, <2>2, <3>1 DEF SubmitBlock
  <2>3. QED
    BY <1>20, <2>1, <2>2 DEF SubmitBlock
<1>21. CASE UNCHANGED vars
    BY <1>21 DEF vars
<1>22. QED
    BY StepCases, <1>1, <1>2, <1>3, <1>3a, <1>4, <1>5, <1>6, <1>7, <1>8,
       <1>9, <1>10, <1>11, <1>12, <1>13, <1>14, <1>15, <1>16, <1>17, <1>19,
       <1>20, <1>21
       DEF Steps

LEMMA NextControl == TypeOK /\ Control /\ [Next]_vars => Control'
<1> SUFFICES ASSUME TypeOK, Control, [Next]_vars PROVE Control'
    OBVIOUS
<1> USE DEF TypeOK, Control, Judging, node, session, jobs, handler, tuner,
            client
<1>1. ASSUME NEW f \in Fetchers,
             Ask(f) \/ Fetched(f) \/ Store(f) \/ broadcastNewJobs(f) \/ Cast(f)
      PROVE  Control'
  <2>1. CASE Ask(f)
    BY <2>1 DEF Ask
  <2>2. CASE Fetched(f)
    BY <2>2 DEF Fetched
  <2>3. CASE Store(f)
    BY <2>3 DEF Store
  <2>4. CASE broadcastNewJobs(f)
    BY <2>4 DEF broadcastNewJobs
  <2>5. CASE Cast(f)
    BY <2>5 DEF Cast
  <2>6. QED
    BY <1>1, <2>1, <2>2, <2>3, <2>4, <2>5
<1>2. CASE RetargetBegins \/ RetargetMakes \/ RetargetSets
    BY <1>2 DEF RetargetBegins, RetargetMakes, RetargetSets
<1>3. ASSUME NEW fix \in Diffs \cup {None}, Login(fix)
      PROVE  Control'
    BY <1>3 DEF Login, HandlerFree
<1>4. CASE GetJob \/ registerSession \/ MakeReply \/ SendReply
  <2>1. CASE GetJob
    BY <2>1 DEF GetJob, HandlerFree
  <2>2. CASE registerSession
    BY <2>2 DEF registerSession
  <2>3. CASE MakeReply
    BY <2>3 DEF MakeReply
  <2>4. CASE SendReply
    BY <2>4 DEF SendReply
  <2>5. QED
    BY <1>4, <2>1, <2>2, <2>3, <2>4
<1>5. ASSUME NEW n \in Nonces, NEW h \in Diffs \cup {Block}, Submit(n, h)
      PROVE  Control'
  <2>1. share' # None /\ doing' = "submit" /\ registered
    BY <1>5 DEF Submit, Shares
  <2>2. QED
    BY <1>5, <2>1 DEF Submit
<1>6. CASE handleSubmitRPC \/ processShare
    BY <1>6 DEF handleSubmitRPC, processShare, Reject
<1>7. CASE storeShare \/ SubmitBlock
    BY <1>7 DEF storeShare, SubmitBlock, Accept, Reject
<1>8. ASSUME NEW job \in sending, Send(job)
      PROVE  Control'
    BY <1>8 DEF Send
<1>9. CASE NodeMoves \/ NodeFails \/ UNCHANGED vars
    BY <1>9 DEF NodeMoves, NodeFails, vars
<1>10. QED
    BY StepCases, <1>1, <1>2, <1>3, <1>4, <1>5, <1>6, <1>7, <1>8, <1>9
       DEF Steps

LEMMA TypeInvariance == Spec => [](TypeOK /\ Control)
BY InitType, NextType, NextControl, PTL DEF Spec

(* Every variable keeps its type: above all, the session never has more    *)
(* valid jobs than it keeps, and trust is counted up to its threshold.     *)
THEOREM TypeCorrect == Spec => []TypeOK
BY TypeInvariance, PTL

-----------------------------------------------------------------------------
(* Jobs keep apart.                                                        *)

(* What is known is a job. *)
LEMMA KnownJobs == TypeOK => Known \subseteq Jobs
BY DEF TypeOK, Known, Valid, Shares

LEMMA NextDistinct ==
    TypeOK /\ Control /\ Distinct /\ [Next]_vars => Distinct'
<1> SUFFICES ASSUME TypeOK, Control, Distinct, [Next]_vars PROVE Distinct'
    OBVIOUS
<1> DEFINE OneId == \A j, k \in Known : j.id = k.id => j = k
           Apart ==
               /\ offer # None => offer \notin sending \cup {reply, working}
               /\ reply # None => reply \notin sending \cup {working}
               /\ working \notin sending
               /\ share # None => share.job \notin sending \cup {offer, reply}
<1>0. OneId /\ Apart
    BY DEF Distinct
<1>1. Known \subseteq Jobs /\ None \notin Jobs /\ sending \subseteq Jobs
        /\ (share # None => share.job \in Known)
        /\ offer \in Known \cup {None} /\ reply \in Known \cup {None}
        /\ working \in Known \cup {None} /\ sending \subseteq Known
    BY KnownJobs DEF TypeOK, Known
<1>2. ASSUME Known' \subseteq Known
      PROVE  OneId'
    BY <1>0, <1>2
<1>3. ASSUME NEW job \in Jobs, NEW t, NEW diff, getJob(job, t, diff)
      PROVE  /\ job \notin Known
             /\ Valid' \subseteq Valid \cup {job}
             /\ Known' \subseteq Known \cup {job} => OneId'
  <2>1. \A j \in Known : j.id # job.id
    BY <1>3, NewJob
  <2>2. Known' \subseteq Known \cup {job} => OneId'
    BY <1>0, <2>1
  <2>3. QED
    BY <1>3, <2>1, <2>2, NewJob
<1> USE DEF node, session, jobs, handler, tuner, client
<1>4. ASSUME NEW f \in Fetchers, Cast(f)
      PROVE  Distinct'
  <2>1. PICK job \in Jobs : getJob(job, held[f], difficulty)
                              /\ sending' = sending \cup {job}
    BY <1>4 DEF Cast
  <2>2. UNCHANGED <<offer, reply, working, share>>
    BY <1>4 DEF Cast
  <2>3. Known' \subseteq Known \cup {job}
    BY <1>3, <2>1, <2>2 DEF Known
  <2>4. Apart'
    BY <1>0, <1>1, <1>3, <2>1, <2>2
  <2>5. QED
    BY <1>3, <2>1, <2>3, <2>4 DEF Distinct
<1>5. ASSUME NEW job \in sending, Send(job)
      PROVE  Distinct'
  <2>1. /\ sending' = sending \ {job} /\ working' = job
        /\ UNCHANGED <<validJobs, offer, reply, share>>
    BY <1>5 DEF Send
  <2>2. Known' \subseteq Known
    BY <1>1, <2>1 DEF Known, Valid
  <2>3. Apart'
    BY <1>0, <1>1, <2>1
  <2>4. QED
    BY <1>2, <2>2, <2>3 DEF Distinct
<1>6. CASE RetargetMakes
  <2>1. UNCHANGED <<sending, reply, working, share>>
    BY <1>6 DEF RetargetMakes
  <2>2. CASE UNCHANGED <<jobs, offer>>
    <3>1. Known' \subseteq Known /\ Apart'
        BY <1>0, <2>1, <2>2 DEF Known, Valid
    <3>2. QED
        BY <1>2, <3>1 DEF Distinct
  <2>3. CASE offer' \in Jobs /\ getJob(offer', base, newDiff')
    <3>1. Known' \subseteq Known \cup {offer'}
        BY <1>3, <2>1, <2>3 DEF Known
    <3>2. offer' \notin Known /\ offer' # None
        BY <1>1, <1>3, <2>3
    <3>3. Apart'
        BY <1>0, <1>1, <2>1, <3>2
    <3>4. QED
        BY <1>3, <2>3, <3>1, <3>3 DEF Distinct
  <2>4. QED
    BY <1>6, <2>2, <2>3 DEF RetargetMakes
<1>7. CASE RetargetSets
  <2>1. /\ sending' = sending \cup {offer} /\ offer' = None /\ offer # None
        /\ UNCHANGED <<validJobs, reply, working, share>>
    BY <1>7 DEF RetargetSets, Control
  <2>2. Known' \subseteq Known
    BY <1>1, <2>1 DEF Known, Valid
  <2>3. Apart'
    BY <1>0, <1>1, <2>1
  <2>4. QED
    BY <1>2, <2>2, <2>3 DEF Distinct
<1>8. ASSUME NEW n \in Nonces, NEW h \in Diffs \cup {Block}, Submit(n, h)
      PROVE  Distinct'
  <2>1. /\ working # None /\ share'.job = working /\ reply = None
        /\ UNCHANGED <<validJobs, sending, offer, reply, working>>
    BY <1>8 DEF Submit, HandlerFree
  <2>2. Known' \subseteq Known
    BY <1>1, <2>1 DEF Known, Valid
  <2>3. Apart'
    BY <1>0, <1>1, <2>1
  <2>4. QED
    BY <1>2, <2>2, <2>3 DEF Distinct
<1>9. CASE MakeReply
  <2>1. /\ reply' \in Jobs /\ getJob(reply', own, difficulty)
        /\ UNCHANGED <<sending, offer, working, share>>
    BY <1>9 DEF MakeReply
  <2>2. Known' \subseteq Known \cup {reply'}
    BY <1>3, <2>1 DEF Known
  <2>3. reply' \notin Known /\ reply' # None
    BY <1>1, <1>3, <2>1
  <2>4. Apart'
    BY <1>0, <1>1, <2>1, <2>3
  <2>5. QED
    BY <1>3, <2>1, <2>2, <2>4 DEF Distinct
<1>10. CASE SendReply
  <2>1. /\ working' = reply /\ reply' = None /\ reply # None
        /\ UNCHANGED <<validJobs, sending, offer, share>>
    BY <1>10 DEF SendReply
  <2>2. Known' \subseteq Known
    BY <1>1, <2>1 DEF Known, Valid
  <2>3. Apart'
    BY <1>0, <1>1, <2>1
  <2>4. QED
    BY <1>2, <2>2, <2>3 DEF Distinct
<1>11. CASE /\ share' \in {share, None}
            /\ UNCHANGED <<validJobs, sending, offer, reply, working>>
  <2>1. Known' \subseteq Known
    BY <1>11 DEF Known, Valid
  <2>2. Apart'
    BY <1>0, <1>11
  <2>3. QED
    BY <1>2, <2>1, <2>2 DEF Distinct
<1>12. ASSUME \/ NodeMoves \/ NodeFails
              \/ \E f \in Fetchers :
                    Ask(f) \/ Fetched(f) \/ Store(f) \/ broadcastNewJobs(f)
              \/ RetargetBegins \/ GetJob \/ registerSession
              \/ \E fix \in Diffs \cup {None} : Login(fix)
              \/ handleSubmitRPC \/ processShare \/ storeShare \/ SubmitBlock
              \/ UNCHANGED vars
       PROVE  /\ share' \in {share, None}
              /\ UNCHANGED <<validJobs, sending, offer, reply, working>>
    BY <1>12 DEF NodeMoves, NodeFails, Ask, Fetched, Store, broadcastNewJobs,
               RetargetBegins,
               GetJob, registerSession, Login, handleSubmitRPC, processShare,
               storeShare, SubmitBlock, Reject, Accept, vars
<1>13. QED
    BY StepCases, <1>4, <1>5, <1>6, <1>7, <1>8, <1>9, <1>10, <1>11, <1>12
       DEF Steps

-----------------------------------------------------------------------------
(* One job at a time.                                                      *)

LEMMA BusyCases ==
    Busy <=> Making # {} \/ Answering \/ retarget # "idle" \/ sending # {}
             \/ reply # None
BY DEF Busy, Making, Answering

LEMMA NextOneAtATime ==
    TypeOK /\ Control /\ OneAtATime /\ [Next]_vars => OneAtATime'
<1> SUFFICES ASSUME TypeOK, Control, OneAtATime, [Next]_vars, ~overlap'
             PROVE  OneAtATime'
    BY DEF OneAtATime
<1> USE DEF node, session, jobs, handler, tuner, client
<1>1. ASSUME NEW f \in Fetchers, Store(f)
      PROVE  OneAtATime'
  <2>1. ~Busy /\ at' = [at EXCEPT ![f] = "stored"]
          /\ UNCHANGED <<doing, retarget, sending, reply>>
    BY <1>1 DEF Store
  <2>2. Making' = {f} /\ ~Answering' /\ retarget' = "idle"
          /\ sending' = {} /\ reply' = None
    BY <2>1, BusyCases DEF Making, Answering, TypeOK
  <2>3. QED
    BY <2>2 DEF OneAtATime
<1>2. ASSUME GetJob \/ \E fix \in Diffs \cup {None} : Login(fix)
      PROVE  OneAtATime'
  <2>1. ~Busy /\ UNCHANGED <<at, retarget, sending, reply>>
    BY <1>2 DEF GetJob, Login
  <2>2. Making' = {} /\ retarget' = "idle" /\ sending' = {} /\ reply' = None
    BY <2>1, BusyCases DEF Making
  <2>3. QED
    BY <2>2 DEF OneAtATime
<1>3. CASE RetargetBegins
  <2>1. ~Busy /\ UNCHANGED <<at, doing, sending, reply>>
    BY <1>3 DEF RetargetBegins
  <2>2. Making' = {} /\ ~Answering' /\ sending' = {} /\ reply' = None
    BY <2>1, BusyCases DEF Making, Answering
  <2>3. QED
    BY <2>2 DEF OneAtATime
<1>4. ASSUME ~overlap, NEW f \in Fetchers,
             Ask(f) \/ Fetched(f) \/ broadcastNewJobs(f)
      PROVE  OneAtATime'
  <2>1. /\ Making' \subseteq Making /\ (Answering' => Answering)
        /\ UNCHANGED <<retarget, sending, reply>>
    BY <1>4 DEF Ask, Fetched, broadcastNewJobs, Making, Answering, TypeOK
  <2>2. QED
    BY <1>4, <2>1 DEF OneAtATime
<1>5. ASSUME ~overlap, NEW f \in Fetchers, Cast(f)
      PROVE  OneAtATime'
  <2>1. PICK job \in Jobs : sending' = sending \cup {job}
    BY <1>5 DEF Cast
  <2>2. f \in Making
    BY <1>5 DEF Cast, Making
  <2>3. /\ Making = {f} /\ ~Answering /\ retarget = "idle" /\ sending = {}
        /\ reply = None
    BY <1>5, <2>2 DEF OneAtATime
  <2>4. at' = [at EXCEPT ![f] = "idle"] /\ UNCHANGED <<doing, retarget, reply>>
    BY <1>5 DEF Cast
  <2>5. Making' = {} /\ ~Answering'
    BY <2>3, <2>4 DEF Making, Answering, TypeOK
  <2>6. QED
    BY <2>1, <2>3, <2>4, <2>5 DEF OneAtATime
<1>6. ASSUME ~overlap, NEW job \in sending, Send(job)
      PROVE  OneAtATime'
  <2>1. sending' \subseteq sending /\ UNCHANGED <<at, doing, retarget, reply>>
    BY <1>6 DEF Send
  <2>2. Making' = Making /\ Answering' = Answering
    BY <2>1 DEF Making, Answering
  <2>3. QED
    BY <1>6, <2>1, <2>2 DEF OneAtATime
<1>7. ASSUME ~overlap, RetargetMakes
      PROVE  OneAtATime'
  <2>1. retarget # "idle" /\ UNCHANGED <<at, doing, sending, reply>>
    BY <1>7 DEF RetargetMakes
  <2>2. Making' = Making /\ Answering' = Answering
    BY <2>1 DEF Making, Answering
  <2>3. QED
    BY <1>7, <2>1, <2>2 DEF OneAtATime
<1>8. ASSUME ~overlap, RetargetSets
      PROVE  OneAtATime'
  <2>1. /\ retarget # "idle" /\ retarget' = "idle"
        /\ sending' = sending \cup {offer} /\ UNCHANGED <<at, doing, reply>>
    BY <1>8 DEF RetargetSets
  <2>2. Making' = Making /\ Answering' = Answering
    BY <2>1 DEF Making, Answering
  <2>3. Making = {} /\ ~Answering /\ sending = {} /\ reply = None
    BY <1>8, <2>1 DEF OneAtATime
  <2>4. QED
    BY <2>1, <2>2, <2>3 DEF OneAtATime
<1>9. ASSUME ~overlap, MakeReply
      PROVE  OneAtATime'
  <2>1. Answering /\ ~Answering' /\ UNCHANGED <<at, retarget, sending>>
    BY <1>9 DEF MakeReply, Answering
  <2>2. Making' = Making
    BY <2>1 DEF Making
  <2>3. Making = {} /\ retarget = "idle" /\ sending = {}
    BY <1>9, <2>1 DEF OneAtATime
  <2>4. QED
    BY <2>1, <2>2, <2>3 DEF OneAtATime
<1>10. ASSUME ~overlap, SendReply
       PROVE  OneAtATime'
  <2>1. reply' = None /\ UNCHANGED <<at, doing, retarget, sending>>
    BY <1>10 DEF SendReply
  <2>2. Making' = Making /\ Answering' = Answering
    BY <2>1 DEF Making, Answering
  <2>3. QED
    BY <1>10, <2>1, <2>2 DEF OneAtATime
<1>11. ASSUME ~overlap,
              \/ NodeMoves \/ NodeFails
              \/ \E n \in Nonces, h \in Diffs \cup {Block} : Submit(n, h)
              \/ registerSession
              \/ handleSubmitRPC \/ processShare \/ storeShare \/ SubmitBlock
              \/ UNCHANGED vars
       PROVE  OneAtATime'
  <2>1. UNCHANGED <<at, retarget, sending, reply>>
          /\ (Answering' => Answering)
    BY <1>11 DEF NodeMoves, NodeFails, Submit, registerSession,
                handleSubmitRPC, processShare, storeShare, SubmitBlock, Reject,
                Accept, vars,
                Answering
  <2>2. Making' = Making
    BY <2>1 DEF Making
  <2>3. QED
    BY <1>11, <2>1, <2>2 DEF OneAtATime
<1>12. QED
  <2>1. \/ ~overlap
        \/ GetJob \/ (\E fix \in Diffs \cup {None} : Login(fix))
        \/ \E f \in Fetchers : Store(f)
    BY StepCases
       DEF Steps, NodeMoves, NodeFails, Ask, Fetched, broadcastNewJobs, Cast,
           Send, RetargetBegins, RetargetMakes, RetargetSets, Submit,
           registerSession, MakeReply,
           SendReply, handleSubmitRPC, processShare, storeShare, SubmitBlock,
           vars
  <2>2. QED
    BY StepCases, <2>1, <1>1, <1>2, <1>3, <1>4, <1>5, <1>6, <1>7, <1>8, <1>9,
       <1>10, <1>11 DEF Steps

-----------------------------------------------------------------------------
(* The job is made of the current template and difficulty.                 *)

Ground == <<template, difficulty, isFixedDiff, vardiff>>

LEMMA GoodStays ==
    ASSUME UNCHANGED <<Ground, validJobs>>, NEW j, Good(j)
    PROVE  j \in Valid' /\ j.tmpl = template' /\ j.target = Target(difficulty)'
BY DEF Ground, Good, Valid, Target

LEMMA NextUpToDate ==
    TypeOK /\ Control /\ OneAtATime /\ OneAtATime' /\ UpToDate /\ [Next]_vars
        => UpToDate'
<1> SUFFICES ASSUME TypeOK, Control, OneAtATime, OneAtATime', UpToDate,
                    [Next]_vars, ~overlap'
             PROVE  UpToDate'
    BY DEF UpToDate
<1> DEFINE Begun == retarget = "begun" => base = template /\ Good(working)
           Made == retarget = "made" => /\ offer \in Valid
                                        /\ offer.tmpl = template
                                        /\ offer.target = Target(newDiff)
           Casts == \A f \in Fetchers : at[f] = "cast" => held[f] = template
           Rest == registered /\ ~Busy => Good(working)
<1> USE DEF node, session, jobs, handler, tuner, client
<1>1. ASSUME Answering' => own' = template', Casts', Begun', Made',
             \A j \in sending' : Good(j)', reply' # None => Good(reply)', Rest'
      PROVE  UpToDate'
    BY <1>1 DEF UpToDate
<1>2. ASSUME ~overlap
      PROVE  /\ Answering => own = template
             /\ Casts /\ Begun /\ Made /\ Rest
             /\ \A j \in sending : Good(j)
             /\ reply # None => Good(reply)
    BY <1>2 DEF UpToDate
<1>3. ASSUME NEW f \in Fetchers, Store(f)
      PROVE  UpToDate'
  <2>1. ~Busy /\ at' = [at EXCEPT ![f] = "stored"]
          /\ UNCHANGED <<doing, retarget, sending, reply>>
    BY <1>3 DEF Store
  <2>2. /\ \A g \in Fetchers : at'[g] # "cast"
        /\ ~Answering' /\ retarget' = "idle" /\ sending' = {}
        /\ reply' = None /\ Making' # {}
    BY <2>1, BusyCases DEF Making, Answering, TypeOK
  <2>3. Busy'
    BY <2>2 DEF Busy, Making
  <2>4. QED
    BY <2>2, <2>3 DEF UpToDate
<1>4. ASSUME ~overlap, NEW f \in Fetchers, broadcastNewJobs(f)
      PROVE  UpToDate'
  <2>1. f \in Making
    BY <1>4 DEF broadcastNewJobs, Making
  <2>2. /\ Making = {f} /\ ~Answering /\ retarget = "idle" /\ sending = {}
        /\ reply = None
    BY <1>4, <2>1 DEF OneAtATime
  <2>3. ~Answering' /\ retarget' = "idle" /\ sending' = {} /\ reply' = None
    BY <1>4, <2>2 DEF broadcastNewJobs, Answering
  <2>4. \A g \in Fetchers \ {f} : at'[g] # "cast"
    BY <1>4, <2>2 DEF broadcastNewJobs, Making, TypeOK
  <2>5. CASE registered
    <3>1. at'[f] = "cast" /\ held'[f] = template'
        BY <1>4, <2>5 DEF broadcastNewJobs, TypeOK
    <3>2. Busy'
        BY <3>1 DEF Busy
    <3>3. QED
        BY <2>3, <2>4, <3>1, <3>2 DEF UpToDate
  <2>6. CASE ~registered
    <3>1. at'[f] # "cast" /\ ~registered'
        BY <1>4, <2>6 DEF broadcastNewJobs, TypeOK
    <3>2. QED
        BY <2>3, <2>4, <3>1 DEF UpToDate
  <2>7. QED
    BY <2>5, <2>6
<1>5. ASSUME ~overlap, NEW f \in Fetchers, Cast(f)
      PROVE  UpToDate'
  <2>1. PICK job \in Jobs : /\ getJob(job, held[f], difficulty)
                            /\ sending' = sending \cup {job}
    BY <1>5 DEF Cast
  <2>2. f \in Making /\ held[f] = template
    BY <1>2, <1>5 DEF Cast, Making
  <2>3. /\ Making = {f} /\ ~Answering /\ retarget = "idle" /\ sending = {}
        /\ reply = None
    BY <1>5, <2>2 DEF OneAtATime
  <2>4. /\ ~Answering' /\ retarget' = "idle" /\ sending' = {job}
        /\ reply' = None /\ UNCHANGED Ground
    BY <1>5, <2>1, <2>3 DEF Cast, Answering, Ground
  <2>5. \A g \in Fetchers : at'[g] # "cast"
    BY <1>5, <2>3 DEF Cast, Making, TypeOK
  <2>6. job \in Valid' /\ job.tmpl = template /\ job.target = Target(difficulty)
    BY <2>1, <2>2, NewJob
  <2>7. Good(job)'
    BY <2>4, <2>6 DEF Good, Ground, Target
  <2>8. Busy'
    BY <2>4 DEF Busy
  <2>9. QED
    BY <2>4, <2>5, <2>7, <2>8 DEF UpToDate
<1>6. ASSUME ~overlap, NEW job \in sending, Send(job)
      PROVE  UpToDate'
  <2>1. /\ sending' \subseteq sending /\ working' = job
        /\ UNCHANGED <<node, vardiff, session, jobs, handler, tuner>>
    BY <1>6 DEF Send
  <2>2. UNCHANGED <<Ground, validJobs>>
    BY <2>1 DEF Ground
  <2>3. retarget = "idle" /\ reply = None
    BY <1>6, <2>1 DEF OneAtATime, TypeOK
  <2>4. \A j \in sending' \cup {job} : Good(j)'
    BY <1>2, <1>6, <2>1, <2>2, GoodStays DEF Good
  <2>5. QED
    BY <1>1, <1>2, <1>6, <2>1, <2>3, <2>4 DEF Answering
<1>7. CASE RetargetBegins
  <2>1. /\ ~Busy /\ ~overlap /\ registered /\ retarget' = "begun"
        /\ base' = template
        /\ UNCHANGED <<node, vardiff, session, jobs, handler, offer, newDiff,
                       client>>
    BY <1>7 DEF RetargetBegins
  <2>2. UNCHANGED <<Ground, validJobs>> /\ Good(working)
    BY <1>2, <2>1 DEF Ground
  <2>3. Good(working)'
    BY <2>1, <2>2, GoodStays DEF Good
  <2>4. \A f \in Fetchers : at'[f] # "cast"
    BY <2>1 DEF Busy
  <2>5. /\ ~Answering' /\ sending' = {} /\ reply' = None
    BY <2>1, BusyCases DEF Answering
  <2>6. QED
    BY <2>1, <2>3, <2>4, <2>5 DEF UpToDate
<1>8. ASSUME ~overlap, RetargetMakes
      PROVE  UpToDate'
  <2>1. /\ retarget = "begun" /\ base = template /\ Good(working)
        /\ UNCHANGED <<node, vardiff, session, handler, client>>
    BY <1>2, <1>8 DEF RetargetMakes
  <2>2. Making = {} /\ ~Answering /\ sending = {} /\ reply = None
    BY <1>8, <2>1 DEF OneAtATime
  <2>3. /\ \A f \in Fetchers : at'[f] # "cast"
        /\ ~Answering' /\ sending' = {} /\ reply' = None
    BY <2>1, <2>2 DEF Making, Answering
  <2>4. CASE retarget' = "idle" /\ UNCHANGED jobs
    <3>1. Good(working)'
        BY <2>1, <2>4, GoodStays DEF Good, Ground
    <3>2. QED
        BY <2>3, <2>4, <3>1 DEF UpToDate
  <2>5. CASE retarget' = "made" /\ offer' \in Jobs
               /\ getJob(offer', base, newDiff')
    <3>1. /\ offer' \in Valid' /\ offer'.tmpl = template
          /\ offer'.target = Target(newDiff')
        BY <2>1, <2>5, NewJob
    <3>2. template' = template /\ Target(newDiff)' = Target(newDiff')
        BY <2>1 DEF Target
    <3>3. Busy'
        BY <2>5 DEF Busy
    <3>4. QED
        BY <2>3, <2>5, <3>1, <3>2, <3>3 DEF UpToDate
  <2>6. QED
    BY <1>8, <2>4, <2>5 DEF RetargetMakes
<1>9. ASSUME ~overlap, RetargetSets
      PROVE  UpToDate'
  <2>1. /\ retarget = "made" /\ retarget' = "idle" /\ difficulty' = newDiff
        /\ sending' = sending \cup {offer}
        /\ UNCHANGED <<node, vardiff, isFixedDiff, validJobs, handler>>
    BY <1>9 DEF RetargetSets
  <2>2. Making = {} /\ ~Answering /\ sending = {} /\ reply = None
    BY <1>9, <2>1 DEF OneAtATime
  <2>3. /\ \A f \in Fetchers : at'[f] # "cast"
        /\ ~Answering' /\ sending' = {offer} /\ reply' = None
    BY <2>1, <2>2 DEF Making, Answering
  <2>4. /\ offer \in Valid' /\ offer.tmpl = template'
        /\ offer.target = Target(difficulty)'
    BY <1>2, <1>9, <2>1 DEF Valid, Target
  <2>5. Busy'
    BY <2>3 DEF Busy
  <2>6. \A j \in sending' : Good(j)'
    BY <2>3, <2>4 DEF Good
  <2>7. QED
    BY <2>1, <2>3, <2>5, <2>6 DEF UpToDate
<1>10. ASSUME GetJob \/ \E fix \in Diffs \cup {None} : Login(fix)
       PROVE  UpToDate'
  <2>1. /\ ~Busy /\ doing' \in {"login", "getjob"} /\ own' = template'
        /\ UNCHANGED <<at, held, retarget, sending, reply>>
    BY <1>10 DEF GetJob, Login
  <2>2. /\ \A f \in Fetchers : at'[f] # "cast"
        /\ retarget' = "idle" /\ sending' = {} /\ reply' = None
    BY <2>1 DEF Busy
  <2>3. Busy'
    BY <2>1 DEF Busy
  <2>4. QED
    BY <2>1, <2>2, <2>3 DEF UpToDate
<1>11. ASSUME ~overlap, registerSession \/ MakeReply
       PROVE  UpToDate'
  <2>1. /\ Answering /\ own = template /\ UNCHANGED <<Ground, at, retarget,
                                                      sending>>
    BY <1>2, <1>11 DEF registerSession, MakeReply, Answering, Ground
  <2>2. /\ \A f \in Fetchers : at'[f] # "cast"
        /\ retarget' = "idle" /\ sending' = {}
    BY <1>11, <2>1 DEF OneAtATime, Making
  <2>3. CASE registerSession
    <3>1. reply' = None /\ own' = template' /\ doing' = "join"
        BY <1>11, <2>1, <2>3 DEF registerSession, OneAtATime, Ground
    <3>2. Busy'
        BY <3>1 DEF Busy
    <3>3. QED
        BY <2>2, <3>1, <3>2 DEF UpToDate
  <2>4. CASE MakeReply
    <3>1. reply' \in Jobs /\ getJob(reply', own, difficulty) /\ ~Answering'
        BY <2>4 DEF MakeReply, Answering
    <3>2. reply' \in Valid' /\ reply'.tmpl = own
            /\ reply'.target = Target(difficulty)
        BY <3>1, NewJob
    <3>3. Good(reply)'
        BY <2>1, <3>2 DEF Good, Ground, Target
    <3>4. Busy'
        BY <3>1 DEF Busy
    <3>5. QED
        BY <2>2, <3>1, <3>3, <3>4 DEF UpToDate
  <2>5. QED
    BY <1>11, <2>3, <2>4
<1>12. ASSUME ~overlap, SendReply
       PROVE  UpToDate'
  <2>1. /\ reply # None /\ working' = reply /\ reply' = None
        /\ UNCHANGED <<Ground, validJobs, node, doing, own, retarget, sending>>
    BY <1>12 DEF SendReply, Ground
  <2>2. Making = {} /\ ~Answering /\ retarget = "idle" /\ sending = {}
    BY <1>12, <2>1 DEF OneAtATime
  <2>3. /\ \A f \in Fetchers : at'[f] # "cast"
        /\ ~Answering' /\ retarget' = "idle" /\ sending' = {}
    BY <2>1, <2>2 DEF Making, Answering
  <2>4. Good(working)'
    BY <1>2, <1>12, <2>1, GoodStays DEF Good
  <2>5. QED
    BY <2>1, <2>3, <2>4 DEF UpToDate
<1>13. ASSUME ~overlap,
              \/ NodeMoves \/ NodeFails
              \/ \E f \in Fetchers : Ask(f) \/ Fetched(f)
              \/ \E n \in Nonces, h \in Diffs \cup {Block} : Submit(n, h)
              \/ handleSubmitRPC \/ processShare \/ storeShare \/ SubmitBlock
              \/ UNCHANGED vars
       PROVE  UpToDate'
  <2>1. UNCHANGED <<Ground, validJobs, registered, tuner, sending, reply,
                    working>>
    BY <1>13 DEF NodeMoves, NodeFails, Ask, Fetched, Submit,
                handleSubmitRPC, processShare,
                storeShare, SubmitBlock, Reject, Accept, vars, Ground
  <2>2. (Answering' => Answering /\ own' = own) /\ (Answering => Answering')
    BY <1>13 DEF NodeMoves, NodeFails, Ask, Fetched, Submit,
                HandlerFree, handleSubmitRPC,
                processShare, storeShare, SubmitBlock, Reject, Accept, vars,
                Answering
  <2>3. \A f \in Fetchers :
           /\ at'[f] \in {"stored", "cast"} <=> at[f] \in {"stored", "cast"}
           /\ at'[f] = "cast" => at[f] = "cast" /\ held'[f] = held[f]
    BY <1>13 DEF NodeMoves, NodeFails, Ask, Fetched, Submit,
                handleSubmitRPC, processShare,
                storeShare, SubmitBlock, Reject, Accept, vars, TypeOK
  <2>4. Busy <=> Busy'
    BY <2>1, <2>2, <2>3 DEF Busy, Answering
  <2>6. \A j : Good(j) => Good(j)'
    BY <2>1, GoodStays DEF Good
  <2>7. Good(working) => Good(working)'
    BY <2>1, GoodStays DEF Good
  <2>8. Good(reply) => Good(reply)'
    BY <2>1, GoodStays DEF Good
  <2>9. Made'
    BY <1>2, <1>13, <2>1 DEF Valid, Target, Ground
  <2>10. Casts' /\ (Answering' => own' = template')
    BY <1>2, <1>13, <2>1, <2>2, <2>3 DEF Ground
  <2>11. Begun' /\ Rest' /\ (reply' # None => Good(reply)')
            /\ \A j \in sending' : Good(j)'
    BY <1>2, <1>13, <2>1, <2>4, <2>6, <2>7, <2>8 DEF Ground
  <2>12. QED
    BY <1>1, <2>9, <2>10, <2>11
<1>14. QED
  <2>1. \/ ~overlap
        \/ GetJob \/ (\E fix \in Diffs \cup {None} : Login(fix))
        \/ \E f \in Fetchers : Store(f)
    BY StepCases
       DEF Steps, NodeMoves, NodeFails, Ask, Fetched, broadcastNewJobs, Cast,
           Send, RetargetBegins, RetargetMakes, RetargetSets, Submit,
           registerSession, MakeReply,
           SendReply, handleSubmitRPC, processShare, storeShare, SubmitBlock,
           vars
  <2>2. QED
    BY StepCases, <2>1, <1>3, <1>4, <1>5, <1>6, <1>7, <1>8, <1>9, <1>10, <1>11,
       <1>12, <1>13 DEF Steps

-----------------------------------------------------------------------------
(* What a nonce was credited.                                              *)

LEMMA NextCounted ==
    TypeOK /\ Control /\ Distinct /\ Counted /\ [Next]_vars => Counted'
<1> SUFFICES ASSUME TypeOK, Control, Distinct, Counted, [Next]_vars
             PROVE  Counted'
    OBVIOUS
<1> DEFINE Once == \A i \in Ids, n \in Nonces : Len(credits[<<i, n>>]) <= 1
           Kn == \A j \in Valid, n \in Nonces :
                    credits[<<j.id, n>>] # <<>> => n \in submitted[j.id]
           Open ==
               Judging =>
                 /\ credits[<<share.job.id, share.nonce>>] = <<>>
                 /\ share.job \in Valid => share.nonce \in submitted[share.job.id]
<1>0. Once /\ Kn /\ Open
    BY DEF Counted
<1>1. /\ Valid \subseteq Known /\ Known \subseteq Jobs
      /\ \A j, k \in Known : j.id = k.id => j = k
      /\ (Judging \/ doing = "submit" => share # None)
      /\ (share # None =>
            /\ share.job \in Known /\ share.job.id \in Ids
            /\ share.nonce \in Nonces /\ share.job \in Jobs)
    BY KnownJobs DEF Known, Distinct, Control, TypeOK, Shares, Jobs
<1>2. ASSUME NEW job \in Jobs, NEW t, NEW diff, getJob(job, t, diff),
             share' = share, Judging' => Judging
      PROVE  Counted'
  <2>1. /\ \A j \in Known : j.id # job.id
        /\ Valid' \subseteq Valid \cup {job}
        /\ \A i \in Ids, n \in Nonces :
              credits'[<<i, n>>] \in {credits[<<i, n>>], <<>>}
        /\ \A n \in Nonces : credits'[<<job.id, n>>] = <<>>
        /\ \A j \in Valid' : j # job /\ j.id # job.id =>
              submitted'[j.id] = submitted[j.id]
    BY <1>2, NewJob
  <2>2. Once'
    <3> SUFFICES ASSUME NEW i \in Ids, NEW n \in Nonces
                 PROVE  Len(credits'[<<i, n>>]) <= 1
        OBVIOUS
    <3>1. CASE credits'[<<i, n>>] = <<>>
        BY <3>1
    <3>2. CASE credits'[<<i, n>>] = credits[<<i, n>>]
        BY <1>0, <3>2
    <3>3. QED
        BY <2>1, <3>1, <3>2
  <2>3. Kn'
    <3> SUFFICES ASSUME NEW j \in Valid', NEW n \in Nonces,
                        credits'[<<j.id, n>>] # <<>>
                 PROVE  n \in submitted'[j.id]
        OBVIOUS
    <3>1. j # job /\ j \in Valid /\ j.id # job.id /\ j.id \in Ids
        BY <1>1, <2>1 DEF Jobs
    <3>2. credits[<<j.id, n>>] # <<>>
        BY <2>1, <3>1
    <3>3. QED
        BY <1>0, <2>1, <3>1, <3>2
  <2>4. Open'
    <3> SUFFICES ASSUME Judging'
                 PROVE  /\ credits'[<<share.job.id, share.nonce>>] = <<>>
                        /\ share.job \in Valid' =>
                              share.nonce \in submitted'[share.job.id]
        BY <1>2
    <3>1. share.job \in Known /\ share.job.id # job.id /\ share.job # job
        BY <1>1, <1>2, <2>1
    <3>2. QED
        BY <1>0, <1>1, <1>2, <2>1, <3>1
  <2>5. QED
    BY <2>2, <2>3, <2>4 DEF Counted
<1>3. ASSUME UNCHANGED jobs, share' = share, Judging' => Judging
      PROVE  Counted'
    BY <1>0, <1>3 DEF jobs, Counted, Valid
<1>4. ASSUME UNCHANGED jobs, ~Judging'
      PROVE  Counted'
    BY <1>0, <1>4 DEF jobs, Counted, Valid
<1>5. ASSUME Accept, Judging, UNCHANGED <<validJobs, submitted>>, ~Judging'
      PROVE  Counted'
  <2> DEFINE k == <<share.job.id, share.nonce>>
  <2>1. k \in Ids \X Nonces /\ credits[k] = <<>> /\ share.job \in Known
    BY <1>0, <1>1, <1>5
  <2>2. credits' = [credits EXCEPT ![k] = Append(credits[k], difficulty)]
    BY <1>5 DEF Accept
  <2>3. credits'[k] = <<difficulty>>
    BY <2>1, <2>2 DEF TypeOK
  <2>4. \A i \in Ids, n \in Nonces :
           <<i, n>> # k => credits'[<<i, n>>] = credits[<<i, n>>]
    BY <2>2 DEF TypeOK
  <2>5. Once'
    <3> SUFFICES ASSUME NEW i \in Ids, NEW n \in Nonces
                 PROVE  Len(credits'[<<i, n>>]) <= 1
        OBVIOUS
    <3>1. CASE <<i, n>> = k
      <4>1. credits'[<<i, n>>] = <<difficulty>>
        BY ONLY <2>3, <3>1
      <4>2. QED
        BY ONLY <4>1
    <3>2. CASE <<i, n>> # k
        BY <1>0, <2>4, <3>2
    <3>3. QED
        BY <3>1, <3>2
  <2>6. Kn'
    <3> SUFFICES ASSUME NEW j \in Valid, NEW n \in Nonces,
                        credits'[<<j.id, n>>] # <<>>
                 PROVE  n \in submitted[j.id]
        BY <1>5 DEF Valid
    <3>1. j \in Known /\ j.id \in Ids
        BY <1>1 DEF Jobs
    <3>2. CASE <<j.id, n>> = k
      <4>1. j = share.job /\ n = share.nonce
        BY <1>1, <2>1, <3>1, <3>2
      <4>2. QED
        BY <1>0, <1>5, <4>1
    <3>3. CASE <<j.id, n>> # k
        BY <1>0, <2>4, <3>1, <3>3
    <3>4. QED
        BY <3>2, <3>3
  <2>7. QED
    BY <1>5, <2>5, <2>6 DEF Counted
<1> USE DEF node, session, handler, tuner, client
<1>6. CASE handleSubmitRPC
  <2>1. /\ doing = "submit" /\ UNCHANGED <<validJobs, credits>>
        /\ Valid' = Valid
    BY <1>6 DEF handleSubmitRPC, Valid
  <2>2. CASE ~findJob \/ share.nonce \in submitted[share.job.id]
    <3>1. UNCHANGED jobs /\ ~Judging'
        BY <1>6, <2>1, <2>2 DEF handleSubmitRPC, Reject, jobs, Judging
    <3>2. QED
        BY <1>4, <3>1
  <2>3. CASE ~(~findJob \/ share.nonce \in submitted[share.job.id])
    <3>1. share.job \in Valid /\ share.nonce \notin submitted[share.job.id]
        BY <2>3 DEF findJob, Valid
    <3>2. credits[<<share.job.id, share.nonce>>] = <<>>
        BY <1>0, <1>1, <2>1, <3>1
    <3>3. submit
        BY <1>6, <2>3 DEF handleSubmitRPC
    <3>4. /\ share.nonce \in submitted'[share.job.id]
          /\ \A i \in Ids : submitted[i] \subseteq submitted'[i]
        BY <1>1, <2>1, <3>3 DEF submit, TypeOK
    <3>5. Once'
        BY <1>0, <2>1
    <3>6. Kn'
        BY <1>0, <1>1, <2>1, <3>4 DEF Jobs
    <3>7. Judging' => share' = share
        BY <1>6, <2>3 DEF handleSubmitRPC, Reject, Judging
    <3>8. Open'
        BY <2>1, <3>2, <3>4, <3>7
    <3>9. QED
        BY <3>5, <3>6, <3>8 DEF Counted
  <2>4. QED
    BY <2>2, <2>3
<1>7. CASE processShare
  <2>1. UNCHANGED jobs /\ Judging /\ (Judging' => share' = share)
    BY <1>7 DEF processShare, Reject, Judging
  <2>2. QED
    BY <1>3, <1>4, <2>1
<1>8. CASE storeShare
    BY <1>5, <1>8 DEF storeShare, Judging
<1>9. CASE SubmitBlock
  <2>1. Judging /\ ~Judging' /\ UNCHANGED <<validJobs, submitted>>
          /\ (Accept \/ UNCHANGED credits)
    BY <1>9 DEF SubmitBlock, Reject, Judging
  <2>2. QED
    BY <1>4, <1>5, <2>1 DEF jobs
<1>10. ASSUME NEW f \in Fetchers, Cast(f)
       PROVE  Counted'
  <2>1. PICK job \in Jobs : getJob(job, held[f], difficulty)
    BY <1>10 DEF Cast
  <2>2. share' = share /\ Judging' = Judging
    BY <1>10 DEF Cast, Judging
  <2>3. QED
    BY <1>2, <2>1, <2>2
<1>11. CASE RetargetMakes
  <2>1. share' = share /\ Judging' = Judging
    BY <1>11 DEF RetargetMakes, Judging
  <2>2. CASE UNCHANGED jobs
    BY <1>3, <2>1, <2>2
  <2>3. CASE offer' \in Jobs /\ getJob(offer', base, newDiff')
    BY <1>2, <2>1, <2>3
  <2>4. QED
    BY <1>11, <2>2, <2>3 DEF RetargetMakes
<1>12. CASE MakeReply
  <2>1. reply' \in Jobs /\ getJob(reply', own, difficulty)
    BY <1>12 DEF MakeReply
  <2>2. share' = share /\ ~Judging'
    BY <1>12 DEF MakeReply, Judging
  <2>3. QED
    BY <1>2, <2>1, <2>2
<1>13. ASSUME \/ NodeMoves \/ NodeFails
              \/ \E f \in Fetchers :
                    Ask(f) \/ Fetched(f) \/ Store(f) \/ broadcastNewJobs(f)
              \/ RetargetBegins \/ RetargetSets
              \/ GetJob \/ registerSession \/ SendReply
              \/ \E fix \in Diffs \cup {None} : Login(fix)
              \/ \E job \in sending : Send(job)
              \/ UNCHANGED vars
       PROVE  Counted'
  <2>1. UNCHANGED jobs /\ share' = share /\ (Judging' => Judging)
    BY <1>13 DEF NodeMoves, NodeFails, Ask, Fetched, Store, broadcastNewJobs,
               RetargetBegins,
                RetargetSets, GetJob, registerSession, SendReply, Login, Send,
                vars, Judging
  <2>2. QED
    BY <1>3, <2>1
<1>14. ASSUME NEW n \in Nonces, NEW h \in Diffs \cup {Block}, Submit(n, h)
       PROVE  Counted'
  <2>1. UNCHANGED jobs /\ ~Judging'
    BY <1>14 DEF Submit, Judging
  <2>2. QED
    BY <1>4, <2>1
<1>15. QED
    BY StepCases, <1>6, <1>7, <1>8, <1>9, <1>10, <1>11, <1>12, <1>13, <1>14
       DEF Steps

-----------------------------------------------------------------------------
(* What a share is judged by.                                              *)

LEMMA NextJudged ==
    TypeOK /\ Control /\ Distinct /\ OneAtATime /\ Judged /\ [Next]_vars
        => Judged'
<1> SUFFICES ASSUME TypeOK, Control, Distinct, OneAtATime, Judged,
                    [Next]_vars
             PROVE  Judged'
    OBVIOUS
<1> DEFINE Met == share # None => share.hash >= share.job.target
           Quiet == /\ Judging /\ share.job = working
                    /\ ~Busy \/ retarget = "begun"
           Fair == own = template /\ setDiff = difficulty
<1>0. Met /\ (~overlap /\ Quiet => Fair)
    BY DEF Judged
<1>1. ASSUME Met', ~overlap' /\ Quiet' => Fair'
      PROVE  Judged'
    BY <1>1 DEF Judged
<1>2. ASSUME Met', ~Quiet'
      PROVE  Judged'
    BY <1>1, <1>2
<1>3. ASSUME Met', UNCHANGED <<own, template, setDiff, difficulty>>,
             ~overlap' /\ Quiet' => ~overlap /\ Quiet
      PROVE  Judged'
    BY <1>0, <1>1, <1>3
<1>4. ASSUME share' \in {share, None}
      PROVE  Met'
    BY <1>0, <1>4
<1> USE DEF node, session, jobs, handler, tuner, client
<1>5. ASSUME NEW f \in Fetchers, Store(f)
      PROVE  Judged'
  <2>1. Met' /\ UNCHANGED <<doing, own, setDiff, difficulty, share, working,
                             retarget, sending, reply>>
    BY <1>4, <1>5 DEF Store
  <2>2. overlap' = Busy /\ at' = [at EXCEPT ![f] = "stored"]
    BY <1>5 DEF Store
  <2>3. at'[f] = "stored"
    BY <2>2 DEF TypeOK
  <2>4. Busy'
    BY <2>3 DEF Busy
  <2>5. ~overlap' => retarget' # "begun"
    BY <2>1, <2>2, BusyCases
  <2>6. QED
    BY <1>1, <2>1, <2>4, <2>5
<1>6. ASSUME NEW f \in Fetchers, broadcastNewJobs(f)
      PROVE  Judged'
  <2>1. Met' /\ f \in Making
          /\ UNCHANGED <<doing, share, retarget, registered, overlap>>
    BY <1>4, <1>6 DEF broadcastNewJobs, Making
  <2>2. CASE registered
    <3>1. at'[f] = "cast"
        BY <1>6, <2>2 DEF broadcastNewJobs, TypeOK
    <3>2. Busy' /\ (~overlap' => retarget' # "begun")
        BY <2>1, <3>1 DEF Busy, OneAtATime
    <3>3. QED
        BY <1>1, <2>1, <3>2
  <2>3. CASE ~registered
    <3>1. ~Judging'
        BY <2>1, <2>3 DEF Control, Judging
    <3>2. QED
        BY <1>2, <2>1, <3>1
  <2>4. QED
    BY <2>2, <2>3
<1>7. ASSUME NEW f \in Fetchers, Cast(f)
      PROVE  Judged'
  <2>1. Met' /\ f \in Making /\ sending' # {}
          /\ UNCHANGED <<retarget, overlap>>
    BY <1>4, <1>7 DEF Cast, Making
  <2>2. Busy' /\ (~overlap' => retarget' # "begun")
    BY <2>1 DEF Busy, OneAtATime
  <2>3. QED
    BY <1>1, <2>1, <2>2
<1>8. ASSUME NEW job \in sending, Send(job)
      PROVE  Judged'
  <2>1. Met' /\ working' = job /\ UNCHANGED <<doing, share>>
    BY <1>4, <1>8 DEF Send
  <2>2. ~Quiet'
    BY <1>8, <2>1 DEF Distinct, Control, Judging
  <2>3. QED
    BY <1>2, <2>1, <2>2
<1>9. CASE RetargetBegins
  <2>1. /\ Met' /\ ~overlap' => ~overlap /\ ~Busy
        /\ UNCHANGED <<template, difficulty, own, setDiff, share, doing,
                       working>>
    BY <1>4, <1>9 DEF RetargetBegins
  <2>2. Judging' = Judging
    BY <2>1 DEF Judging
  <2>3. QED
    BY <1>3, <1>4, <2>1, <2>2
<1>10. CASE RetargetMakes
  <2>1. /\ Met' /\ retarget = "begun" /\ retarget' \in {"idle", "made"}
        /\ UNCHANGED <<template, difficulty, own, setDiff, share, doing,
                       working, overlap>>
    BY <1>4, <1>10 DEF RetargetMakes
  <2>2. Judging' = Judging
    BY <2>1 DEF Judging
  <2>3. QED
    BY <1>3, <2>1, <2>2
<1>11. CASE RetargetSets
  <2>1. Met' /\ sending' # {} /\ retarget' = "idle"
    BY <1>4, <1>11 DEF RetargetSets
  <2>2. Busy'
    BY <2>1 DEF Busy
  <2>3. QED
    BY <1>2, <2>1, <2>2
<1>12. ASSUME NEW n \in Nonces, NEW h \in Diffs \cup {Block}, Submit(n, h)
       PROVE  Judged'
  <2>1. Met' /\ ~Judging'
    BY <1>12 DEF Submit, Judging
  <2>2. QED
    BY <1>2, <2>1
<1>13. CASE SendReply
  <2>1. Met' /\ reply # None /\ working' = reply /\ UNCHANGED <<doing, share>>
    BY <1>4, <1>13 DEF SendReply
  <2>2. ~Quiet'
    BY <2>1 DEF Distinct, Control, Judging
  <2>3. QED
    BY <1>2, <2>1, <2>2
<1>14. CASE handleSubmitRPC
  <2>1. Met'
    BY <1>4, <1>14 DEF handleSubmitRPC, Reject
  <2>2. Judging' => Fair'
    BY <1>14 DEF handleSubmitRPC, Reject, Judging
  <2>3. QED
    BY <1>1, <2>1, <2>2
<1>15. CASE processShare
  <2>1. /\ doing = "check" /\ Judging /\ Met' /\ (Busy <=> Busy')
        /\ UNCHANGED <<template, difficulty, working, overlap, retarget>>
    BY <1>4, <1>15 DEF processShare, Reject, Busy, Judging
  <2>2. Judging' => UNCHANGED <<own, share, setDiff>>
    BY <1>15 DEF processShare, Reject, Judging
  <2>3. QED
    BY <1>0, <1>1, <2>1, <2>2
<1>16. ASSUME \/ \E fix \in Diffs \cup {None} : Login(fix)
              \/ GetJob \/ registerSession \/ MakeReply
              \/ storeShare \/ SubmitBlock
       PROVE  Judged'
  <2>1. Met' /\ ~Judging'
    BY <1>4, <1>16 DEF Login, GetJob, registerSession, MakeReply, storeShare,
                       SubmitBlock, Accept, Reject, Judging
  <2>2. QED
    BY <1>2, <2>1
<1>17. ASSUME \/ NodeMoves \/ NodeFails \/ UNCHANGED vars
              \/ \E f \in Fetchers : Ask(f) \/ Fetched(f)
       PROVE  Judged'
  <2>1. /\ Met'
        /\ UNCHANGED <<own, template, setDiff, difficulty, share, working,
                       overlap, retarget, sending, reply>>
        /\ Judging' = Judging
    BY <1>4, <1>17 DEF NodeMoves, NodeFails, Ask, Fetched, vars, Judging
  <2>2. Busy <=> Busy'
    BY <1>17 DEF NodeMoves, NodeFails, Ask, Fetched, vars, Busy, TypeOK
  <2>3. QED
    BY <1>3, <2>1, <2>2
<1>18. QED
    BY StepCases, <1>5, <1>6, <1>7, <1>8, <1>9, <1>10, <1>11, <1>12, <1>13,
       <1>14, <1>15, <1>16, <1>17 DEF Steps

-----------------------------------------------------------------------------
(* The invariant, and what it is for.                                      *)

LEMMA InitInv == Init => IInv
<1> SUFFICES ASSUME Init PROVE IInv
    OBVIOUS
<1>1. /\ at = [f \in Fetchers |-> "idle"] /\ validJobs = <<>>
      /\ registered = FALSE /\ doing = "idle" /\ share = None
      /\ retarget = "idle" /\ offer = None
      /\ sending = {} /\ reply = None /\ working = None
      /\ credits = [k \in Ids \X Nonces |-> <<>>]
    BY DEF Init
<1>2. Valid = {} /\ Making = {} /\ ~Answering /\ ~Judging
    BY <1>1 DEF Valid, Making, Answering, Judging
<1>3. Distinct
    BY <1>1, <1>2 DEF Known, Distinct
<1>4. OneAtATime /\ UpToDate
    BY <1>1, <1>2 DEF OneAtATime, UpToDate
<1>5. \A i \in Ids, n \in Nonces : credits[<<i, n>>] = <<>>
    BY <1>1
<1>6. Len(<<>>) <= 1
    OBVIOUS
<1>7. Counted
    BY <1>2, <1>5, <1>6 DEF Counted
<1>8. Judged
    BY <1>1, <1>2 DEF Judged
<1>9. QED
    BY InitType, <1>3, <1>4, <1>7, <1>8 DEF IInv

LEMMA NextInv == IInv /\ [Next]_vars => IInv'
BY NextType, NextControl, NextDistinct, NextOneAtATime, NextUpToDate,
   NextCounted, NextJudged DEF IInv

LEMMA Invariance == Spec => []IInv
BY InitInv, NextInv, PTL DEF Spec

(* As long as jobs do not overlap, a client that has got its job works on  *)
(* the template of the pool, at the target of the difficulty it will be    *)
(* checked with, in a job that is still valid (handlers.go:237-290).       *)
THEOREM WorkStaysCurrent == Spec => []WorkIsCurrent
<1>1. IInv => WorkIsCurrent
    BY DEF IInv, UpToDate, Good, Valid, WorkIsCurrent
<1>2. QED
    BY Invariance, <1>1, PTL

(* The verdict on a share. *)
Verdict ==
    share # None /\ share' = None =>
         LET credit == credits'[<<share.job.id, share.nonce>>]
         IN  /\ Len(credit) <= 1
             /\ \/ Disturbed
                \/ share.hash = Block /\ (tip # template \/ ~answering)
                \/ doing = "submit" /\ share.nonce \in submitted[share.job.id]
                \/ credit = <<share.job.target>>

LEMMA StepVerdict == IInv /\ IInv' /\ [Next]_vars => Verdict
<1> SUFFICES ASSUME IInv, IInv', [Next]_vars, share # None, share' = None
             PROVE  Verdict
    BY DEF Verdict
<1> DEFINE k == <<share.job.id, share.nonce>>
           Refused ==
               \/ Disturbed
               \/ share.hash = Block /\ (tip # template \/ ~answering)
               \/ doing = "submit" /\ share.nonce \in submitted[share.job.id]
<1>1. /\ share \in Shares /\ share.job \in Jobs /\ k \in Ids \X Nonces
      /\ share.job.id \in Ids /\ share.nonce \in Nonces
      /\ credits \in [Ids \X Nonces -> Seq(Diffs)]
      /\ share.job.target \in Diffs /\ share.hash \in Diffs \cup {Block}
      /\ difficulty \in Diffs /\ registered
    BY DEF IInv, TypeOK, Shares, Jobs, Control
<1>2. Len(credits'[k]) <= 1
    BY <1>1 DEF IInv, Counted
<1>3. ASSUME Refused \/ credits'[k] = <<share.job.target>>
      PROVE  Verdict
    BY <1>2, <1>3 DEF Verdict
<1>4. ASSUME ~Disturbed
      PROVE  /\ ~Busy /\ ~overlap /\ share.job = working
             /\ Good(working) /\ share.job.target = difficulty
             /\ share.hash >= difficulty
             /\ Judging => own = template /\ setDiff = difficulty
  <2>1. /\ ~Busy /\ ~overlap /\ share.job = working
        /\ Target(difficulty) = difficulty
    BY <1>4 DEF Disturbed, Drifted
  <2>2. Good(working)
    BY <1>1, <2>1 DEF IInv, UpToDate
  <2>3. QED
    BY <2>1, <2>2 DEF IInv, Judged, Good
<1>5. CASE handleSubmitRPC
  <2>1. SUFFICES ASSUME ~Refused PROVE FALSE
    BY <1>3
  <2>2. doing = "submit" /\ share.nonce \notin submitted[share.job.id]
    BY <1>5, <2>1 DEF handleSubmitRPC
  <2>3. share.job \in Valid /\ share.job.tmpl = template
    BY <1>4, <2>1 DEF Good
  <2>4. findJob
    BY <2>3 DEF findJob, Valid
  <2>5. QED
    BY <1>5, <2>2, <2>3, <2>4 DEF handleSubmitRPC
<1>6. CASE processShare
  <2>1. SUFFICES ASSUME ~Refused PROVE FALSE
    BY <1>3
  <2>2. doing = "check" /\ own = template /\ setDiff = difficulty
          /\ share.job.tmpl = template /\ share.hash >= setDiff
    BY <1>4, <1>6, <2>1 DEF processShare, Judging, Good
  <2>3. ValidHash
    BY <2>2 DEF ValidHash
  <2>4. ~(share.hash < setDiff)
    BY <1>1, <2>2
  <2>5. QED
    BY <1>6, <2>3, <2>4 DEF processShare
<1>7. ASSUME Accept, Judging
      PROVE  Verdict
  <2>1. credits[k] = <<>>
    BY <1>7 DEF IInv, Counted
  <2>2. credits' = [credits EXCEPT ![k] = Append(credits[k], difficulty)]
    BY <1>7 DEF Accept
  <2>3. credits'[k] = <<difficulty>>
    BY <1>1, <2>1, <2>2
  <2>4. Disturbed \/ difficulty = share.job.target
    BY <1>4
  <2>5. QED
    BY <1>3, <2>3, <2>4
<1>8. CASE storeShare
    BY <1>7, <1>8 DEF storeShare, Judging
<1>9. CASE SubmitBlock
  <2>1. CASE share.job.tmpl = own /\ own = tip /\ answering
    BY <1>7, <1>9, <2>1 DEF SubmitBlock, Judging
  <2>2. CASE ~(share.job.tmpl = own /\ own = tip /\ answering)
    <3>1. SUFFICES ASSUME ~Refused PROVE FALSE
        BY <1>3
    <3>2. doing = "block" /\ own = template /\ share.job.tmpl = template
        BY <1>4, <1>9, <3>1 DEF SubmitBlock, Judging, Good
    <3>3. (tip # template \/ ~answering) /\ share.hash = Block
        BY <2>2, <3>2 DEF IInv, Control
    <3>4. QED
        BY <3>1, <3>3
  <2>3. QED
    BY <2>1, <2>2
<1>10. QED
  <2>1. share' = None /\ share # None =>
          handleSubmitRPC \/ processShare \/ storeShare \/ SubmitBlock
    BY StepCases
       DEF Steps, NodeMoves, NodeFails, Ask, Fetched, Store,
           broadcastNewJobs, Cast, Send, RetargetBegins, RetargetMakes,
           RetargetSets, Login, GetJob, Submit,
           registerSession, MakeReply, SendReply, vars, handler, IInv, Control,
           Judging, HandlerFree
  <2>2. QED
    BY <2>1, <1>5, <1>6, <1>8, <1>9

(* A nonce of a job is credited once, and a share of the job the client    *)
(* works on with the target it was asked for, with the exceptions that     *)
(* FairVerdicts names, a submission that fails among them                  *)
(* (handlers.go:186-215, miner.go:305, 390-404, 521-541).                  *)
THEOREM VerdictsAreFair == Spec => FairVerdicts
<1>1. IInv /\ IInv' /\ [Next]_vars => Verdict
    BY StepVerdict
<1>2. QED
    BY Invariance, <1>1, PTL DEF Spec, FairVerdicts, Verdict
=============================================================================
