------------------------------- MODULE Events -------------------------------
(***************************************************************************)
(* The random reward event (stratum/events.go): while an event lasts, a    *)
(* goroutine wakes up every few seconds, keeps a record per day of when    *)
(* each address started and was last heard of, and draws a winner for the  *)
(* day before, for the last day of the event on the day after it, and on a *)
(* bonus day for every hour.  A draw is two commits: the credit to         *)
(* "payments:pending" and then the record "eventspayment:<key>", which     *)
(* keeps the key from being drawn again.                                   *)
(*                                                                         *)
(* Time is counted in hours, of which a day has Hours; the pass reads the  *)
(* clock anew before each of its draws, so that midnight may fall into it. *)
(* Passes are much shorter than an hour: one runs from end to end in every *)
(* hour the pool is up, and no pass meets more than one turn of the hour.  *)
(*                                                                         *)
(* Abstractions.  The stored statistics of a worker are as fresh as the    *)
(* worker (they are written every StoreMinerStatsInterval).  A day's       *)
(* record is forgotten when nothing can read it any more.  The donation    *)
(* miner, which never beats, is left out.  The event is within one year.   *)
(***************************************************************************)
EXTENDS Integers, FiniteSets

CONSTANTS
    Workers,      \* the workers that may ever log in
    AddressOf,    \* the address a worker mines for
    Calendars,    \* EventsConfig: the events the instance considers
    Hours,        \* hours of a day
    MonthDays,    \* days of a month
    Grace,        \* the silence a miner is allowed (300 s in the code)
    Criteria,     \* MinerPercentCriteria, as hours of a day
    LastDay,      \* bound: the days are 1..LastDay
    MaxIncidents, \* bound: logins, departures, crashes, and passes during
                  \* which the hour turns
    None          \* nothing stored

Addresses == {AddressOf[w] : w \in Workers}
Days == 1..LastDay
Times == 0..(LastDay * Hours + Hours - 1)
DayOf(t) == t \div Hours
DayStart(d) == d * Hours

\* What a reward is drawn for: a day, or an hour of a day.
DayKey(d) == <<d>>
HourKey(t) == <<DayOf(t), t % Hours>>
Keys == {DayKey(d) : d \in Days} \cup {HourKey(t) : t \in Times}

ASSUME CalendarAssumption ==
    /\ Hours \in Nat \ {0, 1, 2} /\ MonthDays \in Nat \ {0, 1}
    /\ Grace \in Nat \ {0} /\ Criteria \in 1..Hours
    /\ LastDay \in Nat \ {0}
    /\ Calendars \subseteq [start : Days, end : Days, bonus : Days \cup {0}]
    /\ None \notin [start : Nat, beat : Nat, offset : Int]
    /\ None \notin Keys \X Addresses
ASSUME EventsBoundsAssumption == MaxIncidents \in Nat

VARIABLES
    event,      \* configuration: first day, last day, bonus day or 0
    now,        \* the clock
    mining,     \* the workers that are connected and beating
    startedAt,  \* miners:stats: StartedAt of a worker
    lastBeat,   \* miners:stats: LastBeat of a worker, 0 if never
    data,       \* store: "events:<day>"
    payment,    \* store: keys of "eventspayment:<key>"
    credited,   \* store: credits to "payments:pending" for a key
    up,         \* the process runs
    pc,         \* the pass: where it is
    task,       \* the pass: the draw it is at
    today,      \* the pass: todaysdate
    collected,  \* the pass: storedstats
    award,      \* the pass: key and winner being stored, or None
    turned,     \* pacing: the hour has turned during this pass
    passed,     \* pacing: a whole pass since the hour turned
    lastHour,   \* pacing: a whole pass in the hour before this one
    budget,     \* pacing: incidents left
    seen,       \* history: <<day, address>> that mined
    whole,      \* history: <<day, address>> mined from before it to its end
    served,     \* history: days with a whole pass
    cut         \* history: crashes between the two commits of a key

clock   == <<now, turned, passed, lastHour>>
miners  == <<mining, startedAt, lastBeat>>
store   == <<data, payment, credited>>
pass    == <<pc, task, today, collected, award>>
history == <<seen, whole, served, cut>>
vars    == <<event, clock, miners, store, up, pass, budget, history>>

Entry == [start : Nat, beat : Nat, offset : Int]
Record == [Addresses -> Entry \cup {None}]
NoRecord == [a \in Addresses |-> None]

TypeOK ==
    /\ event \in Calendars
    /\ now \in Times /\ now >= Hours
    /\ mining \subseteq Workers
    /\ startedAt \in [Workers -> Nat] /\ lastBeat \in [Workers -> Nat]
    /\ data \in [Days -> Record]
    /\ payment \subseteq Keys
    /\ credited \in [Keys -> Nat]
    /\ up \in BOOLEAN
    /\ pc \in {"idle", "store", "draw", "credit", "record"}
    /\ task \in {"yesterday", "end", "bonus"}
    /\ today \in Days \cup {0}
    /\ collected \in Record
    /\ award \in (Keys \X Addresses) \cup {None}
    /\ turned \in BOOLEAN /\ passed \in BOOLEAN /\ lastHour \in BOOLEAN
    /\ budget \in Nat
    /\ seen \subseteq Days \X Addresses /\ whole \subseteq Days \X Addresses
    /\ served \subseteq Days
    /\ cut \in [Keys -> Nat]
    \* Something is being awarded exactly between a draw and its record.
    /\ pc \in {"credit", "record"} <=> award # None
    /\ ~up => pc = "idle"

Init ==
    /\ event \in Calendars
    /\ now = Hours
    /\ mining \in SUBSET Workers
    /\ startedAt = [w \in Workers |-> IF w \in mining THEN now ELSE 0]
    /\ lastBeat = startedAt
    /\ data = [d \in Days |-> NoRecord]
    /\ payment = {} /\ credited = [k \in Keys |-> 0]
    /\ up = TRUE
    /\ pc = "idle" /\ task = "yesterday" /\ today = 0
    /\ collected = NoRecord /\ award = None
    /\ turned = FALSE /\ passed = FALSE /\ lastHour = FALSE
    /\ budget = MaxIncidents
    /\ seen = {<<1, AddressOf[w]>> : w \in mining} /\ whole = {} /\ served = {}
    /\ cut = [k \in Keys |-> 0]

-----------------------------------------------------------------------------
(* The clock and the miners.                                               *)

\* Something happens that uses up the bound by one.
Incident == budget > 0 /\ budget' = budget - 1

\* What is older than two days is not looked at again.
Recent(S, d) == {p \in S : p[1] >= d - 2}

(* The hour turns.  Whoever mines beats in every hour.  At midnight the    *)
(* addresses are noted that have mined since before the day began.         *)
Tick ==
    /\ now + 1 \in Times
    /\ \/ ~up \/ passed
       \/ pc # "idle" /\ ~turned /\ budget > 0
    /\ budget' = IF pc = "idle" THEN budget ELSE budget - 1
    /\ now' = now + 1
    /\ turned' = (pc # "idle") /\ passed' = FALSE /\ lastHour' = passed
    /\ lastBeat' = [w \in Workers |-> IF w \in mining THEN now + 1
                                                      ELSE lastBeat[w]]
    /\ LET d == DayOf(now + 1)
           old == DayOf(now)
       IN /\ seen' = Recent(seen, d) \cup {<<d, AddressOf[w]>> : w \in mining}
          /\ whole' = Recent(whole, d) \cup
                 (IF d = old THEN {}
                  ELSE {<<old, AddressOf[w]>> :
                          w \in {v \in mining : startedAt[v] <= DayStart(old)}})
          /\ data' = [e \in Days |-> IF e < d - 1 THEN NoRecord ELSE data[e]]
          /\ served' = {e \in served : e >= d - 2}
    /\ UNCHANGED <<event, mining, startedAt, payment, credited, up, pass,
                   cut>>

(* handleLoginRPC sets StartedAt on every login and beats.                 *)
Login(w) ==
    /\ up /\ w \notin mining /\ Incident
    /\ mining' = mining \cup {w}
    /\ startedAt' = [startedAt EXCEPT ![w] = now]
    /\ lastBeat' = [lastBeat EXCEPT ![w] = now]
    /\ seen' = seen \cup {<<DayOf(now), AddressOf[w]>>}
    /\ UNCHANGED <<event, clock, store, up, pass, whole, served, cut>>

Leave(w) ==
    /\ w \in mining /\ Incident
    /\ mining' = mining \ {w}
    /\ UNCHANGED <<event, clock, startedAt, lastBeat, store, up, pass, history>>

-----------------------------------------------------------------------------
(* The pass: today's record.                                               *)

Month(d) == (d - 1) \div MonthDays
DayOfMonth(d) == ((d - 1) % MonthDays) + 1

(* Whether the event lasts on day d, as the code compares months and days. *)
InEventWindow(d) ==
    /\ Month(event.start) <= Month(d) /\ Month(d) <= Month(event.end)
    /\ IF Month(event.start) = Month(event.end)
       THEN /\ DayOfMonth(event.start) <= DayOfMonth(d)
            /\ DayOfMonth(d) <= DayOfMonth(event.end)
       ELSE \/ DayOfMonth(d) >= DayOfMonth(event.start)
            \/ DayOfMonth(d) <= DayOfMonth(event.end)

Bonus(d) == event.bonus # 0 /\ InEventWindow(d) /\ d = event.bonus

\* The statistics of an address: the workers of it that ever logged in.
WorkersOf(a) == {w \in Workers : AddressOf[w] = a /\ lastBeat[w] # 0}
Earliest(S) == CHOOSE x \in S : \A y \in S : x <= y
Latest(S) == CHOOSE x \in S : \A y \in S : x >= y

(* Each worker lowers the start and raises the beat of its address.        *)
Merge(a, old) ==
    LET starts == {startedAt[w] : w \in WorkersOf(a)}
        beats  == {lastBeat[w] : w \in WorkersOf(a)}
    IN CASE WorkersOf(a) = {} -> old
         [] WorkersOf(a) # {} /\ old = None ->
              [start |-> Earliest(starts), beat |-> Latest(beats), offset |-> 0]
         [] OTHER -> [start  |-> Earliest(starts \cup {old.start}),
                      beat   |-> Latest(beats \cup {old.beat}),
                      offset |-> old.offset]

(* An address silent for longer than the grace today: the offset becomes   *)
(* the length of the silence so far, and replaces that of an earlier one.  *)
Silence(entry, d) ==
    IF /\ entry # None
       /\ entry.beat <= now - Grace /\ entry.beat >= DayStart(d)
       /\ entry.start # 0
    THEN [entry EXCEPT !.offset = now - (entry.beat + Grace)]
    ELSE entry

(* One pass an hour stands for the many that the code makes: another one   *)
(* begins when the hour has turned, or when time has come to its bound.    *)
BeginPass ==
    /\ up /\ pc = "idle"
    /\ ~passed \/ now + 1 \notin Times
    /\ today' = DayOf(now)
    /\ IF InEventWindow(today')
       THEN /\ collected' = [a \in Addresses |->
                   Silence(Merge(a, data[today'][a]), today')]
            /\ pc' = "store" /\ task' = "yesterday"
       ELSE pc' = "draw" /\ task' = "end" /\ collected' = NoRecord
    /\ turned' = FALSE
    /\ UNCHANGED <<event, now, passed, lastHour, miners, store, up, award,
                   budget, history>>

OverwriteEventsData ==
    /\ pc = "store"
    /\ data' = [data EXCEPT ![today] = collected]
    /\ pc' = "draw"
    /\ UNCHANGED <<event, clock, miners, payment, credited, up, task, today,
                   collected, award, budget, history>>

-----------------------------------------------------------------------------
(* The pass: the three draws.                                              *)

(* Mutant: the day that is not over is drawn. *)
Yesterday_Today == DayOf(now)

Yesterday == DayOf(now) - 1

(* Mutant: nothing is added for an address silent since before the day.    *)
DayOffset_NoSilence(entry, d) ==
    entry.offset +
      (IF entry.start > DayStart(d) THEN entry.start - DayStart(d) ELSE 0)

(* The offset of an address on the day drawn for: what it lost by silence, *)
(* by a start after the day began, or all of it if it was silent before.   *)
DayOffset(entry, d) ==
    entry.offset +
      (CASE entry.start > DayStart(d) -> entry.start - DayStart(d)
         [] entry.start <= DayStart(d) /\ entry.beat < DayStart(d)
                -> now - DayStart(d)
         [] OTHER -> 0)

DayWinners(d) ==
    IF d \notin Days THEN {}
    ELSE {a \in Addresses :
            /\ data[d][a] # None /\ data[d][a].beat # 0
            /\ Hours - DayOffset(data[d][a], d) >= Criteria}

HourWinners(t) ==
    {a \in Addresses :
       /\ data[today][a] # None /\ data[today][a].beat # 0
       /\ data[today][a].beat >= t}

(* The clock is read anew by each draw; todaysdate is that of the pass.    *)
Key == IF task = "bonus" THEN HourKey(now - 1) ELSE DayKey(Yesterday)
Winners == IF task = "bonus" THEN HourWinners(now - 1)
                             ELSE DayWinners(Yesterday)

\* Not on the first day of the event, and not without statistics.
FirstDraw == today # event.start /\ collected # NoRecord

(* Mutant: no draw is made for the last day on the day after it. *)
Wanted_NoEnd ==
    CASE task = "yesterday" -> FirstDraw
      [] task = "end"       -> FALSE
      [] task = "bonus"     -> Bonus(today) /\ DayOf(now - 1) = event.bonus

(* Mutant: the bonus is drawn from the second hour on. *)
Wanted_SecondHour ==
    CASE task = "yesterday" -> FirstDraw
      [] task = "end"       -> Yesterday = event.end
      [] task = "bonus"     -> Bonus(today) /\ DayOf(now - 2) = event.bonus

(* Which draw is due.  For the bonus the pass must have begun on the bonus *)
(* day, and the hour before the present one must be an hour of it (its day *)
(* is compared by its number in the month).                                *)
Wanted ==
    CASE task = "yesterday" -> FirstDraw
      [] task = "end"       -> Yesterday = event.end
      [] task = "bonus"     ->
           /\ Bonus(today)
           /\ DayOfMonth(DayOf(now - 1)) = DayOfMonth(event.bonus)

(* Mutant: the record of earlier draws is not consulted. *)
Due_Again == Wanted /\ Winners # {}

\* GetEventsPayment finds nothing, and there is somebody to win.
Due == Wanted /\ Key \notin payment /\ Winners # {}

NextTask ==
    CASE task = "yesterday" -> pc' = "draw" /\ task' = "end"
      [] task = "end"       -> pc' = "draw" /\ task' = "bonus"
      [] task = "bonus"     -> pc' = "idle" /\ task' = "yesterday"

\* When the pass is over the timer is reset.
Pacing ==
    /\ passed' = IF pc' = "idle" THEN ~turned ELSE passed
    /\ turned' = IF pc' = "idle" THEN FALSE ELSE turned
    /\ served' = IF pc' = "idle" /\ today = DayOf(now)
                 THEN served \cup {today} ELSE served

DrawWinner ==
    /\ pc = "draw" /\ Due
    /\ \E a \in Winners : award' = <<Key, a>>
    /\ pc' = "credit"
    /\ UNCHANGED <<event, clock, miners, store, up, task, today, collected,
                   budget, history>>

NothingToDraw ==
    /\ pc = "draw" /\ ~Due
    /\ NextTask /\ Pacing
    /\ UNCHANGED <<event, now, miners, store, up, today, collected, award,
                   budget, lastHour, seen, whole, cut>>

WritePendingPayments ==
    /\ pc = "credit"
    /\ credited' = [credited EXCEPT ![award[1]] = @ + 1]
    /\ pc' = "record"
    /\ UNCHANGED <<event, clock, miners, data, payment, up, task, today,
                   collected, award, budget, history>>

(* Mutant: the winner is kept for the next draw. *)
WriteEventsPayment_KeepInfo ==
    payment' = payment \cup {award[1]} /\ award' = award

WriteEventsPayment ==
    payment' = payment \cup {award[1]} /\ award' = None

RecordAward ==
    /\ pc = "record"
    /\ WriteEventsPayment
    /\ NextTask /\ Pacing
    /\ UNCHANGED <<event, now, miners, data, credited, up, today, collected,
                   budget, lastHour, seen, whole, cut>>

-----------------------------------------------------------------------------
(* The process dies, and with it the connections; some time later it is    *)
(* started again.                                                          *)
Crash ==
    /\ up /\ Incident
    /\ up' = FALSE /\ mining' = {}
    /\ cut' = IF pc = "record" THEN [cut EXCEPT ![award[1]] = @ + 1] ELSE cut
    /\ pc' = "idle" /\ task' = "yesterday" /\ today' = 0
    /\ collected' = NoRecord /\ award' = None
    /\ turned' = FALSE /\ passed' = FALSE
    /\ UNCHANGED <<event, now, startedAt, lastBeat, store, lastHour, seen,
                   whole, served>>

Restart ==
    /\ ~up /\ up' = TRUE
    /\ UNCHANGED <<event, clock, miners, store, pass, budget, history>>

Next ==
    \/ Tick
    \/ \E w \in Workers : Login(w) \/ Leave(w)
    \/ BeginPass
    \/ OverwriteEventsData
    \/ DrawWinner
    \/ NothingToDraw
    \/ WritePendingPayments
    \/ RecordAward
    \/ Crash
    \/ Restart

Spec == Init /\ [][Next]_vars

-----------------------------------------------------------------------------
(* Properties.                                                             *)

(* A key is awarded once, however passes, midnights and restarts fall:     *)
(* what is recorded was credited, what was credited is recorded or about   *)
(* to be, and it is credited again only after a crash between the two      *)
(* commits (events.go:338 and 349, 449 and 460, 530 and 541).              *)
AwardedOnce ==
    \A k \in Keys :
        /\ credited[k] <= 1 + cut[k]
        /\ k \in payment => credited[k] > 0
        /\ credited[k] > cut[k] =>
              k \in payment \/ (pc = "record" /\ award[1] = k)

OneMonth == Month(event.start) = Month(event.end)

(* Nothing is awarded for a day or hour that is not over, or outside of    *)
(* the configured days, although "today" and "yesterday" are taken from    *)
(* different readings of the clock (events.go:72, 253, 371, 475).  The     *)
(* exception: an event over two months, whose window the code opens before *)
(* its first day and closes after its last (events.go:137).                *)
OnlyEventDays ==
    /\ \A d \in Days :
          credited[DayKey(d)] > 0 =>
             d < DayOf(now) /\ (OneMonth => d \in event.start..event.end)
    /\ \A t \in Times :
          credited[HourKey(t)] > 0 => t < now /\ DayOf(t) = event.bonus

(* Every day of the event is drawn: when someone mined the whole of it and *)
(* a pass ran from end to end on the day after, that day has its award     *)
(* when the day after is over (the last one by events.go:377, the others   *)
(* by events.go:266).                                                      *)
EveryDayDrawn ==
    LET d == DayOf(now) - 2
    IN  /\ d \in event.start..event.end
        /\ d + 1 \in served
        /\ \E a \in Addresses : <<d, a>> \in whole
      => DayKey(d) \in payment

(* So is every hour of the bonus day in which someone mined, if the next   *)
(* hour saw a whole pass, but for the last: its draw would be due when the *)
(* bonus day is over (events.go:481, against the comment at 480).          *)
EveryHourDrawn ==
    LET t == now - 2
    IN  /\ t >= Hours /\ DayOf(t) = event.bonus /\ DayOf(t + 1) = event.bonus
        /\ lastHour
        /\ \E w \in Workers : startedAt[w] <= t /\ lastBeat[w] > t
      => HourKey(t) \in payment

(* Whoever wins a day mined on that day: neither statistics of an earlier  *)
(* day, nor a merge of the workers of an address, nor a record written     *)
(* around midnight makes a winner of somebody who was not there            *)
(* (events.go:165-245, 281-321).                                           *)
WinnerWasThere ==
    award # None => <<award[1][1], award[2]>> \in seen
=============================================================================
