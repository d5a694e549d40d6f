---------------------------- MODULE Events_proofs ----------------------------
(***************************************************************************)
(* Proofs about Events: types; a day or an hour is awarded once, only when *)
(* it may be, and to a worker that was there; no day and no hour that may  *)
(* be awarded is left out. For any event, workers and clock, and any       *)
(* number of crashes.                                                      *)
(***************************************************************************)
EXTENDS Events, WellFoundedInduction, TLAPS

USE CalendarAssumption, EventsBoundsAssumption

-----------------------------------------------------------------------------
(* The calendar.                                                           *)

LEMMA DayOfTime ==
    ASSUME NEW t \in Times, t >= Hours
    PROVE  DayOf(t) \in Days
<1>1. t \in Int /\ t <= LastDay * Hours + Hours - 1
    BY DEF Times
<1> DEFINE q == t \div Hours
<1>2. q \in Int /\ q * Hours <= t /\ t < q * Hours + Hours
    BY <1>1
<1> HIDE DEF q
<1>3. q >= 1
  <2>1. SUFFICES ASSUME q + 1 <= 0 \/ q = 0 PROVE FALSE
        BY <1>2
  <2>2. q + 1 <= 0 => (q + 1) * Hours <= 0
        BY <1>2
  <2>3. (q + 1) * Hours = q * Hours + Hours
        BY <1>2
  <2>4. q = 0 => q * Hours = 0
        OBVIOUS
  <2>5. QED
        BY <2>1, <2>2, <2>3, <2>4, <1>1, <1>2
<1>4. q <= LastDay
  <2>1. SUFFICES ASSUME q >= LastDay + 1 PROVE FALSE
        BY <1>2
  <2>2. q * Hours >= (LastDay + 1) * Hours
        BY <2>1, <1>2
  <2>3. (LastDay + 1) * Hours = LastDay * Hours + Hours
        OBVIOUS
  <2>4. QED
        BY <2>2, <2>3, <1>1, <1>2
<1>5. QED
    BY <1>2, <1>3, <1>4 DEF DayOf, Days, q

LEMMA FirstTime == Hours \in Times
<1>1. LastDay * Hours >= Hours
    OBVIOUS
<1>2. QED
    BY <1>1 DEF Times

LEMMA KeysOf ==
    /\ \A d \in Days : DayKey(d) \in Keys
    /\ \A t \in Times : HourKey(t) \in Keys
BY DEF Keys

-----------------------------------------------------------------------------
(* The awards: who has what in hand, apart from the records of the days,   *)
(* on whose contents it does not depend.                                   *)

AwardTypes ==
    /\ event \in Calendars
    /\ now \in Times /\ now >= Hours
    /\ payment \subseteq Keys
    /\ credited \in [Keys -> Nat] /\ cut \in [Keys -> Nat]
    /\ pc \in {"idle", "store", "draw", "credit", "record"}
    /\ task \in {"yesterday", "end", "bonus"}
    /\ award \in (Keys \X Addresses) \cup {None}
    /\ pc \in {"credit", "record"} => award # None

(* Nothing in hand has been recorded, and only what is about to be recorded *)
(* has one credit more than crashes account for.                           *)
InHand ==
    /\ pc = "credit" => award[1] \notin payment
    /\ pc = "record" => credited[award[1]] > cut[award[1]]
    /\ \A k \in Keys : cut[k] <= credited[k]

IInv == AwardTypes /\ InHand /\ AwardedOnce

LEMMA InitInv == Init => IInv
<1> SUFFICES ASSUME Init PROVE IInv
    OBVIOUS
<1>1. AwardTypes
    BY FirstTime DEF Init, AwardTypes
<1>2. InHand /\ AwardedOnce
    BY DEF Init, InHand, AwardedOnce
<1>3. QED
    BY <1>1, <1>2 DEF IInv

(* What is drawn is a day or an hour of the calendar. *)
LEMMA DrawnIsKey ==
    ASSUME AwardTypes, Due, NEW a \in Winners
    PROVE  Key \in Keys /\ a \in Addresses
<1>1. CASE task = "bonus"
  <2>1. now - 1 \in Times
        BY DEF AwardTypes, Times
  <2>2. QED
        BY <1>1, <2>1, KeysOf DEF Key, Winners, HourWinners
<1>2. CASE task # "bonus"
  <2>1. a \in DayWinners(Yesterday)
        BY <1>2 DEF Winners
  <2>2. Yesterday \in Days /\ a \in Addresses
        BY <2>1 DEF DayWinners
  <2>3. QED
        BY <1>2, <2>2, KeysOf DEF Key
<1>3. QED
    BY <1>1, <1>2

LEMMA StepInv == IInv /\ [Next]_vars => IInv'
<1> SUFFICES ASSUME IInv, [Next]_vars PROVE IInv'
    OBVIOUS
<1> USE DEF IInv, AwardTypes, InHand, AwardedOnce, pass, store
<1>1. CASE Tick
    BY <1>1 DEF Tick, Times
<1>2. ASSUME NEW w \in Workers, Login(w) \/ Leave(w) PROVE IInv'
    BY <1>2 DEF Login, Leave, clock, history
<1>3. CASE BeginPass
    BY <1>3 DEF BeginPass, history
<1>4. CASE OverwriteEventsData
    BY <1>4 DEF OverwriteEventsData, clock, history
<1>5. CASE DrawWinner
  <2>1. PICK a \in Winners : award' = <<Key, a>>
        BY <1>5 DEF DrawWinner
  <2>2. Key \in Keys /\ a \in Addresses /\ Key \notin payment
        BY <1>5, DrawnIsKey DEF DrawWinner, Due
  <2>3. QED
        BY <1>5, <2>1, <2>2 DEF DrawWinner, clock, history
<1>6. CASE NothingToDraw
    BY <1>6 DEF NothingToDraw, NextTask
<1>7. CASE WritePendingPayments
  <2>1. award[1] \in Keys /\ award[1] \notin payment
        BY <1>7 DEF WritePendingPayments
  <2>2. credited[award[1]] <= cut[award[1]]
        BY <1>7, <2>1 DEF WritePendingPayments
  <2>3. QED
        BY <1>7, <2>1, <2>2 DEF WritePendingPayments, clock, history
<1>8. CASE RecordAward
  <2>1. award[1] \in Keys /\ credited[award[1]] > 0
        BY <1>8 DEF RecordAward
  <2>2. /\ payment' = payment \cup {award[1]} /\ award' = None
        /\ pc' \in {"idle", "draw"} /\ task' \in {"yesterday", "end", "bonus"}
        BY <1>8 DEF RecordAward, WriteEventsPayment, NextTask
  <2>3. UNCHANGED <<event, now, credited, cut>>
        BY <1>8 DEF RecordAward
  <2>4. QED
        BY <1>8, <2>1, <2>2, <2>3
<1>9. CASE Crash
    BY <1>9 DEF Crash
<1>10. CASE Restart
    BY <1>10 DEF Restart, clock, history
<1>11. CASE UNCHANGED vars
    BY <1>11 DEF vars, clock, history
<1>12. QED
    BY <1>1, <1>2, <1>3, <1>4, <1>5, <1>6, <1>7, <1>8, <1>9, <1>10, <1>11
    DEF Next

(***************************************************************************)
(* A day or an hour is credited once, but for crashes between the two      *)
(* commits of an award (events.go:338-349).                                *)
(***************************************************************************)
THEOREM AwardsAreUnique == Spec => []AwardedOnce
<1>1. IInv => AwardedOnce
    BY DEF IInv
<1>2. QED
    BY InitInv, StepInv, <1>1, PTL DEF Spec

-----------------------------------------------------------------------------
(* Days and hours are told apart by their keys.                            *)

LEMMA Division ==
    ASSUME NEW t \in Int, NEW h \in Nat \ {0}
    PROVE  /\ t \div h \in Int /\ t % h \in 0..(h - 1)
           /\ t = h * (t \div h) + (t % h)
OBVIOUS

(* Two numbers with one quotient and one remainder are the same.           *)
LEMMA SameNumber ==
    ASSUME NEW t \in Int, NEW u \in Int, NEW h \in Nat \ {0},
           t \div h = u \div h, t % h = u % h
    PROVE  t = u
<1>1. t = h * (t \div h) + (t % h) /\ u = h * (u \div h) + (u % h)
    BY Division
<1>2. QED
    BY <1>1

(* The quotient of the number before is the same, or one less.             *)
LEMMA Before ==
    ASSUME NEW t \in Int, NEW h \in Nat \ {0}
    PROVE  (t - 1) \div h \in {t \div h, (t \div h) - 1}
<1> DEFINE q == t \div h
           p == (t - 1) \div h
           r == t % h
           o == (t - 1) % h
<1>1. /\ q \in Int /\ p \in Int /\ r \in 0..(h - 1) /\ o \in 0..(h - 1)
      /\ t = h * q + r /\ t - 1 = h * p + o
    BY Division
<1> HIDE DEF q, p, r, o
<1>2. h * (q - p) = 1 + o - r
  <2>1. h * (q - p) = h * q - h * p
    BY <1>1
  <2>2. QED
    BY <1>1, <2>1
<1>3. q - p <= 1
  <2>1. SUFFICES ASSUME q - p >= 2 PROVE FALSE
    BY <1>1
  <2>2. h * (q - p) >= h * 2
    BY <1>1, <2>1
  <2>3. QED
    BY <1>1, <1>2, <2>2
<1>4. q - p >= 0
  <2>1. SUFFICES ASSUME p - q >= 1 PROVE FALSE
    BY <1>1
  <2>2. h * (p - q) >= h
    BY <1>1, <2>1
  <2>3. h * (p - q) = 0 - h * (q - p)
    BY <1>1
  <2>4. QED
    BY <1>1, <1>2, <2>2, <2>3
<1>5. QED
    BY <1>1, <1>3, <1>4 DEF p, q

(* As months have more than one day, two days running differ in the month. *)
LEMMA NextDayDiffers ==
    ASSUME NEW d \in Int
    PROVE  DayOfMonth(d - 1) # DayOfMonth(d)
<1> DEFINE q == (d - 1) \div MonthDays
           p == (d - 2) \div MonthDays
           r == (d - 1) % MonthDays
           o == (d - 2) % MonthDays
<1>1. /\ q \in Int /\ p \in Int /\ r \in Int /\ o \in Int
      /\ d - 1 = MonthDays * q + r /\ d - 2 = MonthDays * p + o
    BY Division
<1>2. (d - 1) - 1 = d - 2
    OBVIOUS
<1>3. DayOfMonth(d) = r + 1 /\ DayOfMonth(d - 1) = o + 1
    BY <1>2 DEF DayOfMonth
<1> HIDE DEF q, p, r, o
<1>4. SUFFICES ASSUME r = o PROVE FALSE
    BY <1>1, <1>3
<1>5. MonthDays * (q - p) = 1
  <2>1. MonthDays * (q - p) = MonthDays * q - MonthDays * p
    BY <1>1
  <2>2. QED
    BY <1>1, <1>4, <2>1
<1>6. q - p <= 0 => MonthDays * (q - p) <= 0
    BY <1>1
<1>7. q - p >= 1 => MonthDays * (q - p) >= MonthDays
    BY <1>1
<1>8. QED
    BY <1>1, <1>5, <1>6, <1>7

(* In an event of one month, the window is its days. *)
LEMMA WindowOfOneMonth ==
    ASSUME event \in Calendars, OneMonth, NEW d \in Days, InEventWindow(d)
    PROVE  d \in event.start..event.end
<1>1. event.start \in Days /\ event.end \in Days
    OBVIOUS
<1>2. ASSUME NEW e \in Days
      PROVE  /\ Month(e) \in Int /\ DayOfMonth(e) \in Int
             /\ e = MonthDays * Month(e) + DayOfMonth(e)
  <2> DEFINE x == e - 1
             m == x \div MonthDays
             r == x % MonthDays
  <2>1. x \in Int /\ e = x + 1
    BY DEF Days
  <2> HIDE DEF x
  <2>2. m \in Int /\ r \in Int /\ x = MonthDays * m + r
    BY <2>1, Division
  <2>3. Month(e) = m /\ DayOfMonth(e) = r + 1
    BY DEF Month, DayOfMonth, x
  <2> HIDE DEF m, r
  <2>4. MonthDays * m \in Int
    BY <2>2
  <2>5. QED
    BY <2>1, <2>2, <2>3, <2>4
<1>3. /\ Month(d) = Month(event.start) /\ Month(event.end) = Month(event.start)
      /\ DayOfMonth(event.start) <= DayOfMonth(d)
      /\ DayOfMonth(d) <= DayOfMonth(event.end)
  <2>1. /\ Month(event.start) = Month(event.end)
        /\ Month(event.start) <= Month(d) /\ Month(d) <= Month(event.end)
        /\ DayOfMonth(event.start) <= DayOfMonth(d)
        /\ DayOfMonth(d) <= DayOfMonth(event.end)
    BY DEF InEventWindow, OneMonth
  <2>2. Month(event.start) \in Int /\ Month(d) \in Int
    BY <1>1, <1>2
  <2>3. QED
    BY <2>1, <2>2
<1>4. QED
    BY <1>1, <1>2, <1>3 DEF Days

-----------------------------------------------------------------------------
(* What may be awarded: a day that is over and lies in the window of the   *)
(* event, an hour of the bonus day that is over.                           *)

Legal(k) ==
    /\ \A d \in Days : k = DayKey(d) =>
          d < DayOf(now) /\ (OneMonth => d \in event.start..event.end)
    /\ \A t \in Times : k = HourKey(t) => t < now /\ DayOf(t) = event.bonus

(* A pass knows the day it began on, even when the hour has turned; its    *)
(* statistics and the records of days are of days in the window; and what  *)
(* is being awarded, or was credited, may be.                              *)
Began == DayOf(IF turned THEN now - 1 ELSE now)

PassInv ==
    /\ data = [d \in Days |-> data[d]] /\ up \in BOOLEAN
    /\ turned \in BOOLEAN /\ passed \in BOOLEAN
    /\ ~up => pc = "idle"
    /\ pc # "idle" => today = Began /\ (passed => now + 1 \notin Times)
    /\ collected # NoRecord => InEventWindow(today)
    /\ \A d \in Days, a \in Addresses : data[d][a] # None => InEventWindow(d)

AwardInv ==
    /\ award # None => Legal(award[1])
    /\ \A k \in Keys : credited[k] > 0 => Legal(k)

LEMMA InitPass == Init => PassInv /\ AwardInv
<1> SUFFICES ASSUME Init PROVE PassInv /\ AwardInv
    OBVIOUS
<1>1. /\ data = [d \in Days |-> NoRecord] /\ collected = NoRecord
      /\ up = TRUE /\ pc = "idle" /\ turned = FALSE /\ passed = FALSE
    BY DEF Init
<1>2. \A d \in Days, a \in Addresses : data[d][a] = None
    BY <1>1 DEF NoRecord
<1>3. data = [d \in Days |-> data[d]]
    BY <1>1
<1>4. PassInv
    BY <1>1, <1>2, <1>3 DEF PassInv
<1>5. award = None /\ credited = [k \in Keys |-> 0]
    BY DEF Init
<1>6. AwardInv
    BY <1>5 DEF AwardInv
<1>7. QED
    BY <1>4, <1>6

LEMMA StepPass == AwardTypes /\ PassInv /\ [Next]_vars => PassInv'
<1> SUFFICES ASSUME AwardTypes, PassInv, [Next]_vars PROVE PassInv'
    OBVIOUS
<1> DEFINE Windows == \A d \in Days, a \in Addresses :
                         data[d][a] # None => InEventWindow(d)
<1>1. event' = event /\ \A d : InEventWindow(d)' = InEventWindow(d)
  <2>1. event' = event
    BY DEF Next, Tick, Login, Leave, BeginPass, OverwriteEventsData, DrawWinner,
           NothingToDraw, WritePendingPayments, RecordAward, Crash, Restart,
           vars
  <2>2. QED
    BY <2>1 DEF InEventWindow
<1>2. UNCHANGED <<data, collected, today>> => Windows'
        /\ (collected' # NoRecord => InEventWindow(today)')
    BY <1>1 DEF PassInv
<1> USE DEF PassInv, clock, miners, store, pass, history
<1>3. CASE Tick
  <2>1. data' = [e \in Days |-> IF e < DayOf(now + 1) - 1 THEN NoRecord
                                                          ELSE data[e]]
    BY <1>3 DEF Tick
  <2>2. Windows'
    BY <1>1, <2>1 DEF NoRecord
  <2>3. /\ now + 1 \in Times /\ now' = now + 1
        /\ UNCHANGED <<pc, today, up, collected>>
        /\ turned' = (pc # "idle") /\ passed' = FALSE
        /\ ~up \/ passed \/ ~turned
    BY <1>3 DEF Tick
  <2>4. pc' # "idle" => today' = Began'
    BY <2>3 DEF Began, AwardTypes, Times
  <2>5. collected' # NoRecord => InEventWindow(today)'
    BY <1>1, <2>3
  <2>6. QED
    BY <1>1, <2>1, <2>2, <2>3, <2>4, <2>5
<1>4. ASSUME NEW w \in Workers, Login(w) \/ Leave(w) PROVE PassInv'
    BY <1>1, <1>2, <1>4 DEF Login, Leave, Began
<1>5. CASE BeginPass
  <2>1. /\ today' = DayOf(now) /\ turned' = FALSE
        /\ UNCHANGED <<now, passed, data, up>> /\ up
        /\ ~passed \/ now + 1 \notin Times
        /\ collected' = NoRecord \/ InEventWindow(today')
    BY <1>5 DEF BeginPass
  <2>2. QED
    BY <1>1, <2>1 DEF Began
<1>6. CASE OverwriteEventsData
  <2>1. data' = [data EXCEPT ![today] = collected]
    BY <1>6 DEF OverwriteEventsData
  <2>2. Windows'
    BY <1>1, <2>1 DEF NoRecord
  <2>3. QED
    BY <1>1, <1>6, <2>1, <2>2 DEF OverwriteEventsData, Began
<1>7. CASE DrawWinner \/ WritePendingPayments
    BY <1>1, <1>2, <1>7 DEF DrawWinner, WritePendingPayments, Began
<1>8. CASE NothingToDraw \/ RecordAward
  <2>1. /\ UNCHANGED <<now, data, up, today, collected>> /\ Pacing
        /\ pc # "idle" /\ pc' \in {"idle", "draw"}
    <3>1. NextTask /\ pc \in {"draw", "record"}
        BY <1>8 DEF NothingToDraw, RecordAward
    <3>2. pc' \in {"idle", "draw"}
        BY <3>1 DEF NextTask, AwardTypes
    <3>3. QED
        BY <1>8, <3>1, <3>2 DEF NothingToDraw, RecordAward
  <2>2. pc' # "idle" => UNCHANGED <<turned, passed>>
    BY <2>1 DEF Pacing
  <2>3. turned' \in BOOLEAN /\ passed' \in BOOLEAN
    BY <2>1 DEF Pacing
  <2>4. QED
    BY <1>1, <1>2, <2>1, <2>2, <2>3 DEF Began
<1>9. CASE Crash
    BY <1>1, <1>9 DEF Crash
<1>10. CASE Restart
    BY <1>1, <1>2, <1>10 DEF Restart, Began
<1>11. CASE UNCHANGED vars
    BY <1>1, <1>2, <1>11 DEF vars, Began
<1>12. QED
    BY <1>3, <1>4, <1>5, <1>6, <1>7, <1>8, <1>9, <1>10, <1>11 DEF Next

(* What may be awarded may be awarded ever after. *)
LEMMA LegalStays ==
    ASSUME AwardTypes, event' = event, now' \in {now, now + 1}, NEW k, Legal(k)
    PROVE  Legal(k)'
<1>1. now \in Int /\ DayOf(now) \in Int
  <2>1. now \in Int
    BY DEF AwardTypes, Times
  <2>2. QED
    BY <2>1, Division DEF DayOf
<1>2. DayOf(now) <= DayOf(now + 1)
  <2>1. (now + 1) \div Hours \in Int
    BY <1>1, Division
  <2>2. now \div Hours
          \in {(now + 1) \div Hours, ((now + 1) \div Hours) - 1}
    <3> DEFINE n == now + 1
    <3>1. n \in Int /\ now = n - 1
        BY <1>1
    <3> HIDE DEF n
    <3>2. (n - 1) \div Hours \in {n \div Hours, (n \div Hours) - 1}
        BY <3>1, Before
    <3>3. QED
        BY <3>1, <3>2 DEF n
  <2>3. QED
    BY <2>1, <2>2 DEF DayOf
<1>3. \A x : x = now' => DayOf(now) <= DayOf(x) /\ now <= x /\ x \in Int
    BY <1>1, <1>2
<1>4. DayOf(now) <= DayOf(now)' /\ now <= now' /\ now' \in Int
  <2>1. DayOf(now') = DayOf(now)'
    BY DEF DayOf
  <2>2. QED
    BY <1>3, <2>1
<1>5. ASSUME NEW d \in Days, k = DayKey(d)
      PROVE  d < DayOf(now)' /\ (OneMonth' => d \in (event.start..event.end)')
  <2>1. d < DayOf(now) /\ (OneMonth => d \in event.start..event.end)
    BY <1>5 DEF Legal
  <2>2. DayOf(now)' \in Int /\ d \in Int
    <3>1. DayOf(now)' = now' \div Hours
        BY DEF DayOf
    <3>2. QED
        BY <1>4, <3>1, Division DEF Days
  <2>3. d < DayOf(now)'
    BY <1>1, <1>4, <2>1, <2>2
  <2>4. OneMonth' = OneMonth
    BY DEF OneMonth
  <2>5. QED
    BY <2>1, <2>3, <2>4
<1>6. ASSUME NEW t \in Times, k = HourKey(t)
      PROVE  t < now' /\ DayOf(t) = event'.bonus
  <2>1. t < now /\ DayOf(t) = event.bonus
    BY <1>6 DEF Legal
  <2>2. QED
    BY <1>1, <1>4, <2>1 DEF Times
<1>7. QED
    BY <1>5, <1>6 DEF Legal

(* What is drawn may be awarded: a day won by somebody has a record, and   *)
(* so lies in the window; and the hour before the present one lies on the  *)
(* bonus day, as the days next to it have other numbers in the month.      *)
LEMMA DrawnIsLegal ==
    ASSUME AwardTypes, PassInv, pc = "draw", Due
    PROVE  Legal(Key)
<1>1. now \in Int /\ event \in Calendars /\ turned \in BOOLEAN
        /\ today = Began
    BY DEF AwardTypes, PassInv, Times
<1>2. CASE task # "bonus"
  <2>1. PICK a \in Addresses : a \in DayWinners(Yesterday)
    BY <1>2 DEF Due, Winners, DayWinners
  <2>2. Yesterday \in Days /\ InEventWindow(Yesterday)
    BY <2>1 DEF DayWinners, PassInv
  <2>3. Key = <<Yesterday>>
    BY <1>2 DEF Key, DayKey
  <2>4. Yesterday < DayOf(now)
    BY <1>1, Division DEF Yesterday, DayOf
  <2>5. OneMonth => Yesterday \in event.start..event.end
    BY <1>1, <2>2, WindowOfOneMonth
  <2>6. \A d \in Days : Key = DayKey(d) => d = Yesterday
    BY <2>3 DEF DayKey
  <2>7. \A t \in Times : Key # HourKey(t)
    BY <2>3 DEF HourKey
  <2>8. QED
    BY <2>4, <2>5, <2>6, <2>7 DEF Legal
<1>3. CASE task = "bonus"
  <2> DEFINE t == now - 1
  <2>1. /\ today = event.bonus
        /\ DayOfMonth(DayOf(t)) = DayOfMonth(event.bonus)
    BY <1>3 DEF Due, Wanted, Bonus
  <2>2. DayOf(t) \in {DayOf(now), DayOf(now) - 1} /\ DayOf(now) \in Int
    BY <1>1, Before, Division DEF DayOf
  <2>3. today \in {DayOf(now), DayOf(t)}
    BY <1>1 DEF Began
  <2>4. DayOf(t) = event.bonus
    BY <2>1, <2>2, <2>3, NextDayDiffers
  <2>5. \A u \in Times : Key = HourKey(u) => u = t
    <3> SUFFICES ASSUME NEW u \in Times, Key = HourKey(u) PROVE u = t
        OBVIOUS
    <3>1. t \in Int /\ u \in Int
        BY <1>1 DEF Times
    <3>2. HourKey(t) = HourKey(u)
        BY <1>3 DEF Key
    <3>3. t \div Hours = u \div Hours /\ t % Hours = u % Hours
        BY <3>2 DEF HourKey, DayOf
    <3>4. QED
        BY <3>1, <3>3, SameNumber
  <2>6. \A d \in Days : Key # DayKey(d)
    BY <1>3 DEF Key, HourKey, DayKey
  <2>7. t < now
    BY <1>1
  <2>8. QED
    BY <2>4, <2>5, <2>6, <2>7 DEF Legal
<1>4. QED
    BY <1>2, <1>3

LEMMA StepAward ==
    IInv /\ PassInv /\ AwardInv /\ [Next]_vars => AwardInv'
<1> SUFFICES ASSUME IInv, PassInv, AwardInv, [Next]_vars PROVE AwardInv'
    OBVIOUS
<1>1. AwardTypes
    BY DEF IInv
<1>2. event' = event /\ now' \in {now, now + 1}
    BY DEF Next, Tick, Login, Leave, BeginPass, OverwriteEventsData, DrawWinner,
           NothingToDraw, WritePendingPayments, RecordAward, Crash, Restart,
           vars, clock
<1>3. \A k : Legal(k) => Legal(k)'
    BY <1>1, <1>2, LegalStays
<1>4. ASSUME award' \in {award, None}, credited' = credited
      PROVE  AwardInv'
    BY <1>3, <1>4 DEF AwardInv
<1> USE DEF clock, miners, store, pass, history
<1>5. CASE DrawWinner
  <2>1. PICK a \in Winners : award' = <<Key, a>>
    BY <1>5 DEF DrawWinner
  <2>2. Legal(Key)
    BY <1>1, <1>5, DrawnIsLegal DEF DrawWinner
  <2>3. Legal(award'[1])
    BY <2>1, <2>2
  <2>4. UNCHANGED <<event, now, credited>>
    BY <1>5 DEF DrawWinner
  <2>5. \A k : Legal(k)' <=> Legal(k)
    BY <2>4 DEF Legal, OneMonth
  <2>6. award' # None => Legal(award[1])'
    BY <2>3, <2>4 DEF Legal, OneMonth
  <2>7. QED
    BY <2>4, <2>5, <2>6 DEF AwardInv
<1>6. CASE WritePendingPayments
  <2>1. /\ credited' = [credited EXCEPT ![award[1]] = credited[award[1]] + 1]
        /\ UNCHANGED <<event, now, award>> /\ award # None
    BY <1>1, <1>6 DEF WritePendingPayments, AwardTypes
  <2>2. \A k \in Keys : credited'[k] > 0 => credited[k] > 0 \/ k = award[1]
    BY <1>1, <2>1 DEF AwardTypes
  <2>3. Legal(award[1])
    BY <2>1 DEF AwardInv
  <2>4. \A k \in Keys : credited'[k] > 0 => Legal(k)
    BY <2>2, <2>3 DEF AwardInv
  <2>5. Legal(award[1])'
    BY <2>1, <2>3 DEF Legal, OneMonth
  <2>6. QED
    BY <1>3, <2>4, <2>5 DEF AwardInv
<1>7. ASSUME \/ Tick \/ BeginPass \/ OverwriteEventsData \/ NothingToDraw
             \/ RecordAward \/ Crash \/ Restart \/ UNCHANGED vars
             \/ \E w \in Workers : Login(w) \/ Leave(w)
      PROVE  AwardInv'
  <2>1. award' \in {award, None} /\ credited' = credited
    BY <1>7 DEF Tick, BeginPass, OverwriteEventsData, NothingToDraw,
               RecordAward, WriteEventsPayment, Crash, Restart, vars, Login,
               Leave
  <2>2. QED
    BY <1>4, <2>1
<1>8. QED
    BY <1>5, <1>6, <1>7 DEF Next

(***************************************************************************)
(* Nothing is awarded for a day or hour that is not over, or outside of    *)
(* the configured days of an event within a month (events.go:72, 137, 253, *)
(* 371, 475).                                                              *)
(***************************************************************************)
THEOREM AwardsAreForEventDays == Spec => []OnlyEventDays
<1>1. Init => IInv /\ PassInv /\ AwardInv
    BY InitInv, InitPass
<1>2. IInv /\ PassInv /\ AwardInv /\ [Next]_vars
        => (IInv /\ PassInv /\ AwardInv)'
    BY StepInv, StepPass, StepAward DEF IInv
<1>3. IInv /\ AwardInv => OnlyEventDays
    BY KeysOf DEF AwardInv, Legal, OnlyEventDays
<1>4. QED
    BY <1>1, <1>2, <1>3, PTL DEF Spec

-----------------------------------------------------------------------------
(* The earliest and the latest of times that are not without bound.        *)

LEMMA EarliestIs ==
    ASSUME NEW S \in SUBSET Nat, S # {}
    PROVE  Earliest(S) \in S /\ \A y \in S : Earliest(S) <= y
<1> DEFINE R == {p \in Nat \X Nat : p[1] < p[2]}
<1>1. IsWellFoundedOn(R, Nat)
    BY NatLessThanWellFounded DEF OpToRel
<1>2. PICK x \in S : \A y \in S : ~(<<y, x>> \in R)
    <2> HIDE DEF R
    <2> QED
        BY <1>1, WFMin
<1>3. ASSUME NEW y \in S PROVE x <= y
    <2>1. ~(<<y, x>> \in R) /\ <<y, x>> \in Nat \X Nat
        BY <1>2
    <2>2. ~(y < x)
        BY <2>1
    <2> QED
        BY <2>2
<1> QED
    BY <1>3 DEF Earliest

LEMMA LatestIs ==
    ASSUME NEW S \in SUBSET Nat, S # {}, NEW b \in Nat, \A y \in S : y <= b
    PROVE  Latest(S) \in S /\ \A y \in S : y <= Latest(S)
<1> DEFINE T == {b - y : y \in S}
<1>0. \A y \in S : b - y \in Nat
    OBVIOUS
<1>1. T \in SUBSET Nat /\ T # {}
    <2>1. PICK y \in S : TRUE
        OBVIOUS
    <2>2. b - y \in T
        OBVIOUS
    <2> QED
        BY <1>0, <2>2
<1>2. Earliest(T) \in T /\ \A z \in T : Earliest(T) <= z
    BY <1>1, EarliestIs
<1>3. PICK x \in S : Earliest(T) = b - x
    BY <1>2
<1>4. \A y \in S : y <= x
    <2> TAKE y \in S
    <2>1. b - y \in T
        OBVIOUS
    <2>2. b - x <= b - y
        BY <1>2, <1>3, <2>1
    <2> QED
        BY <2>2
<1> QED
    BY <1>4 DEF Latest

(* Days and hours. *)
LEMMA DayBounds ==
    ASSUME NEW t \in Int
    PROVE  /\ DayOf(t) \in Int /\ DayStart(DayOf(t)) \in Int
           /\ DayStart(DayOf(t)) <= t /\ t < DayStart(DayOf(t)) + Hours
<1> DEFINE q == t \div Hours
<1>1. q \in Int /\ q * Hours <= t /\ t < q * Hours + Hours
    OBVIOUS
<1> HIDE DEF q
<1>2. q * Hours \in Int
    BY <1>1
<1> QED
    BY <1>1, <1>2 DEF DayOf, DayStart, q

LEMMA DayStarts ==
    ASSUME NEW d \in Int, NEW e \in Int
    PROVE  /\ DayStart(d) \in Int
           /\ DayStart(d + 1) = DayStart(d) + Hours
           /\ d <= e => DayStart(d) <= DayStart(e)
           /\ d < e => DayStart(d) + Hours <= DayStart(e)
<1>1. (d + 1) * Hours = d * Hours + Hours /\ d * Hours \in Int
    OBVIOUS
<1>2. d <= e => d * Hours <= e * Hours
    OBVIOUS
<1>3. d + 1 <= e => (d + 1) * Hours <= e * Hours
    OBVIOUS
<1> QED
    BY <1>1, <1>2, <1>3 DEF DayStart

LEMMA DayFrom ==
    ASSUME NEW t \in Int, NEW d \in Int
    PROVE  t >= DayStart(d) <=> DayOf(t) >= d
<1>1. /\ DayOf(t) \in Int /\ DayStart(DayOf(t)) \in Int
      /\ DayStart(DayOf(t)) <= t /\ t < DayStart(DayOf(t)) + Hours
    BY DayBounds
<1>2. DayStart(d) \in Int
    BY DayStarts
<1>3. DayOf(t) >= d => DayStart(d) <= DayStart(DayOf(t))
    BY <1>1, DayStarts
<1>4. DayOf(t) < d => DayStart(DayOf(t)) + Hours <= DayStart(d)
    BY <1>1, DayStarts
<1> QED
    BY <1>1, <1>2, <1>3, <1>4

LEMMA DaysGrow ==
    ASSUME NEW t \in Int, NEW u \in Int, t <= u
    PROVE  DayOf(t) <= DayOf(u)
<1>1. DayStart(DayOf(t)) <= u
    BY DayBounds
<1> QED
    BY <1>1, DayBounds, DayFrom

(* The hour turns within a day, or at midnight. *)
LEMMA NextHour ==
    ASSUME NEW t \in Int
    PROVE  \/ DayOf(t + 1) = DayOf(t)
           \/ /\ DayOf(t + 1) = DayOf(t) + 1
              /\ t + 1 = DayStart(DayOf(t + 1))
              /\ t + 1 = DayStart(DayOf(t)) + Hours
<1>1. DayOf(t) <= DayOf(t + 1)
    BY DaysGrow
<1>2. /\ DayStart(DayOf(t)) <= t /\ t < DayStart(DayOf(t)) + Hours
      /\ DayOf(t) \in Int /\ DayOf(t + 1) \in Int
      /\ DayStart(DayOf(t)) \in Int /\ DayStart(DayOf(t + 1)) \in Int
      /\ DayStart(DayOf(t + 1)) <= t + 1
    BY DayBounds
<1>3. CASE DayOf(t + 1) # DayOf(t)
    <2>0. DayOf(t) < DayOf(t + 1)
        BY <1>1, <1>2, <1>3
    <2>1. DayStart(DayOf(t)) + Hours <= DayStart(DayOf(t + 1))
        BY <1>2, <2>0, DayStarts
    <2>2. t + 1 = DayStart(DayOf(t)) + Hours
          /\ t + 1 = DayStart(DayOf(t + 1))
        BY <1>2, <2>1
    <2>3. DayStart(DayOf(t) + 1) = t + 1
        BY <1>2, <2>2, DayStarts
    <2>4. DayOf(t) + 1 < DayOf(t + 1)
            => DayStart(DayOf(t) + 1) + Hours <= DayStart(DayOf(t + 1))
        BY <1>2, DayStarts
    <2> QED
        BY <1>1, <1>2, <1>3, <2>2, <2>3, <2>4
<1> QED
    BY <1>3

-----------------------------------------------------------------------------
(* The statistics of an address.                                           *)

LEMMA MergeIs ==
    ASSUME startedAt \in [Workers -> Nat], lastBeat \in [Workers -> Nat],
           NEW b \in Nat, \A w \in Workers : lastBeat[w] <= b,
           NEW a, NEW old \in Entry \cup {None}
    PROVE  /\ Merge(a, old) \in Entry \cup {None}
           /\ WorkersOf(a) = {} => Merge(a, old) = old
           /\ WorkersOf(a) # {} =>
                /\ Merge(a, old) \in Entry
                /\ \A w \in WorkersOf(a) :
                      /\ Merge(a, old).start <= startedAt[w]
                      /\ lastBeat[w] <= Merge(a, old).beat
                /\ Merge(a, old).offset = IF old = None THEN 0 ELSE old.offset
                /\ \/ \E w \in WorkersOf(a) : Merge(a, old).beat = lastBeat[w]
                   \/ old # None /\ Merge(a, old).beat = old.beat
<1> DEFINE W == WorkersOf(a)
           starts == {startedAt[w] : w \in W}
           beats  == {lastBeat[w] : w \in W}
<1>1. W \subseteq Workers
    BY DEF WorkersOf
<1>2. None \notin Entry
    BY DEF Entry
<1>3. CASE W = {}
    <2>1. Merge(a, old) = old
        BY <1>3 DEF Merge
    <2> QED
        BY <1>3, <2>1
<1>4. CASE W # {} /\ old = None
    <2>1. starts \in SUBSET Nat /\ starts # {}
        BY <1>1, <1>4
    <2>2. beats \in SUBSET Nat /\ beats # {} /\ \A y \in beats : y <= b
        BY <1>1, <1>4
    <2>3. Earliest(starts) \in Nat /\ \A w \in W : Earliest(starts) <= startedAt[w]
        BY <2>1, EarliestIs
    <2>4. /\ Latest(beats) \in Nat /\ \A w \in W : lastBeat[w] <= Latest(beats)
          /\ \E w \in W : Latest(beats) = lastBeat[w]
        BY <2>2, LatestIs
    <2>5. Merge(a, old) = [start |-> Earliest(starts), beat |-> Latest(beats),
                           offset |-> 0]
        BY <1>4 DEF Merge
    <2> HIDE DEF starts, beats, W
    <2>6. Merge(a, old) \in Entry
        BY <2>3, <2>4, <2>5 DEF Entry
    <2> QED
        BY <1>4, <2>3, <2>4, <2>5, <2>6 DEF W
<1>5. CASE W # {} /\ old # None
    <2> DEFINE s == starts \cup {old.start}
               t == beats \cup {old.beat}
    <2>0. old \in Entry /\ old.start \in Nat /\ old.beat \in Nat
            /\ old.offset \in Int
        BY <1>5 DEF Entry
    <2>1. s \in SUBSET Nat /\ s # {}
        BY <1>1, <1>5, <2>0
    <2>2. t \in SUBSET Nat /\ t # {} /\ b + old.beat \in Nat
        BY <1>1, <1>5, <2>0
    <2>3. \A y \in t : y <= b + old.beat
        BY <1>1, <2>0
    <2>4. Earliest(s) \in Nat /\ \A w \in W : Earliest(s) <= startedAt[w]
        BY <2>1, EarliestIs
    <2>5. Latest(t) \in t /\ \A y \in t : y <= Latest(t)
        BY <2>2, <2>3, LatestIs
    <2>6. /\ Latest(t) \in Nat /\ \A w \in W : lastBeat[w] <= Latest(t)
          /\ (\E w \in W : Latest(t) = lastBeat[w]) \/ Latest(t) = old.beat
        BY <2>2, <2>5
    <2>7. Merge(a, old) = [start |-> Earliest(s), beat |-> Latest(t),
                           offset |-> old.offset]
        BY <1>5 DEF Merge
    <2> HIDE DEF s, t, W
    <2>8. Merge(a, old) \in Entry
        BY <2>0, <2>4, <2>6, <2>7 DEF Entry
    <2> QED
        BY <1>5, <2>4, <2>6, <2>7, <2>8 DEF W
<1> QED
    BY <1>3, <1>4, <1>5

(* A silence changes the offset, to what is not negative. *)
LEMMA SilenceIs ==
    ASSUME now \in Nat, NEW e \in Entry \cup {None}, NEW d
    PROVE  /\ Silence(e, d) \in Entry \cup {None}
           /\ Silence(e, d) = None <=> e = None
           /\ e # None =>
                /\ Silence(e, d).start = e.start /\ Silence(e, d).beat = e.beat
                /\ Silence(e, d).offset = e.offset
                     \/ /\ Silence(e, d).offset >= 0
                        /\ e.beat < now /\ e.beat >= DayStart(d)
<1>1. None \notin Entry
    BY DEF Entry
<1>2. ASSUME e # None, e.beat <= now - Grace, e.beat >= DayStart(d),
             Silence(e, d) = [e EXCEPT !.offset = now - (e.beat + Grace)]
      PROVE  /\ Silence(e, d) \in Entry
             /\ Silence(e, d).start = e.start /\ Silence(e, d).beat = e.beat
             /\ Silence(e, d).offset >= 0 /\ e.beat < now
    <2>1. e.beat \in Nat /\ now - (e.beat + Grace) \in Int
        BY <1>2 DEF Entry
    <2> QED
        BY <1>2, <2>1 DEF Entry
<1>3. Silence(e, d) = e \/
      (e # None /\ e.beat <= now - Grace /\ e.beat >= DayStart(d)
        /\ Silence(e, d) = [e EXCEPT !.offset = now - (e.beat + Grace)])
    BY DEF Silence
<1> QED
    BY <1>1, <1>2, <1>3

-----------------------------------------------------------------------------
(* Types.  Statistics are not of the future, so that there is a latest.    *)

NotAhead == \A w \in Workers : lastBeat[w] <= now

LEMMA InitTypes == Init => TypeOK /\ NotAhead
<1> SUFFICES ASSUME Init PROVE TypeOK /\ NotAhead
    OBVIOUS
<1>1. now = Hours /\ Hours \in Times /\ Hours \in Nat
    BY FirstTime DEF Init
<1>2. /\ mining \subseteq Workers
      /\ startedAt \in [Workers -> Nat] /\ lastBeat \in [Workers -> Nat]
      /\ \A w \in Workers : lastBeat[w] <= now
    BY <1>1 DEF Init
<1>3. NoRecord \in Record
    BY DEF NoRecord, Record
<1>4. data \in [Days -> Record] /\ collected \in Record
    BY <1>3 DEF Init
<1>5. 1 \in Days /\ seen \subseteq Days \X Addresses
    BY <1>2 DEF Init, Days, Addresses
<1>6. /\ event \in Calendars /\ payment \subseteq Keys
      /\ credited \in [Keys -> Nat] /\ cut \in [Keys -> Nat]
      /\ up \in BOOLEAN /\ pc = "idle" /\ task = "yesterday" /\ today = 0
      /\ award = None /\ turned = FALSE /\ passed = FALSE /\ lastHour = FALSE
      /\ budget \in Nat /\ whole = {} /\ served = {}
    BY DEF Init
<1>7. /\ pc \in {"credit", "record"} <=> award # None
      /\ today \in Days \cup {0} /\ now >= Hours
      /\ whole \subseteq Days \X Addresses /\ served \subseteq Days
      /\ award \in (Keys \X Addresses) \cup {None}
    BY <1>1, <1>6
<1> QED
    BY <1>1, <1>2, <1>4, <1>5, <1>6, <1>7 DEF TypeOK, NotAhead

(* What a pass collects. *)
LEMMA CollectedIs ==
    ASSUME TypeOK, NotAhead, BeginPass
    PROVE  /\ today' = DayOf(now) /\ DayOf(now) \in Days
           /\ collected' \in Record
           /\ IF InEventWindow(DayOf(now))
              THEN /\ collected' = [a \in Addresses |->
                        Silence(Merge(a, data[DayOf(now)][a]), DayOf(now))]
                   /\ pc' = "store" /\ task' = "yesterday"
              ELSE pc' = "draw" /\ task' = "end" /\ collected' = NoRecord
<1>1. DayOf(now) \in Days /\ today' = DayOf(now)
    BY DayOfTime DEF TypeOK, BeginPass
<1>2. IF InEventWindow(DayOf(now))
      THEN /\ collected' = [a \in Addresses |->
                        Silence(Merge(a, data[DayOf(now)][a]), DayOf(now))]
           /\ pc' = "store" /\ task' = "yesterday"
      ELSE pc' = "draw" /\ task' = "end" /\ collected' = NoRecord
    BY <1>1 DEF BeginPass
<1>3. now \in Nat
    BY DEF TypeOK, Times
<1>4. ASSUME NEW a \in Addresses
      PROVE  Silence(Merge(a, data[DayOf(now)][a]), DayOf(now))
                \in Entry \cup {None}
    <2>1. data[DayOf(now)][a] \in Entry \cup {None}
        BY <1>1 DEF TypeOK, Record
    <2>2. Merge(a, data[DayOf(now)][a]) \in Entry \cup {None}
        BY <1>3, <2>1, MergeIs DEF TypeOK, NotAhead
    <2> QED
        BY <1>3, <2>2, SilenceIs
<1>5. collected' \in Record
    BY <1>2, <1>4 DEF Record, NoRecord
<1> QED
    BY <1>1, <1>2, <1>5

(* What the end of a task does to the pacing of the passes. *)
LEMMA PacingTypes ==
    ASSUME TypeOK, NextTask, Pacing, today' = today, now' = now
    PROVE  /\ pc' \in {"idle", "draw"} /\ task' \in {"yesterday", "end", "bonus"}
           /\ turned' \in BOOLEAN /\ passed' \in BOOLEAN
           /\ served' \subseteq Days
<1>1. pc' \in {"idle", "draw"} /\ task' \in {"yesterday", "end", "bonus"}
    BY DEF TypeOK, NextTask
<1>2. turned' \in BOOLEAN /\ passed' \in BOOLEAN
    BY DEF TypeOK, Pacing
<1>3. today = DayOf(now) => today \in Days
    BY DayOfTime DEF TypeOK
<1> QED
    BY <1>1, <1>2, <1>3 DEF TypeOK, Pacing

LEMMA StepTypes ==
    TypeOK /\ NotAhead /\ PassInv /\ [Next]_vars => (TypeOK /\ NotAhead)'
<1> SUFFICES ASSUME TypeOK, NotAhead, PassInv, [Next]_vars
             PROVE  TypeOK' /\ NotAhead'
    OBVIOUS
<1>0. /\ now \in Nat /\ now + 1 >= now /\ DayOf(now) \in Days
      /\ NoRecord \in Record
      /\ None \notin Keys \X Addresses
      /\ \A w \in Workers : AddressOf[w] \in Addresses
    BY DayOfTime DEF TypeOK, Times, NoRecord, Record, Addresses
<1> USE DEF clock, miners, store, pass, history
<1>1. CASE Tick
  <2>1. now + 1 \in Times /\ now + 1 >= Hours /\ DayOf(now + 1) \in Days
    BY <1>0, <1>1, DayOfTime DEF Tick, TypeOK
  <2>2. /\ lastBeat' \in [Workers -> Nat]
        /\ \A w \in Workers : lastBeat'[w] <= now'
    <3>1. /\ lastBeat' = [w \in Workers |-> IF w \in mining THEN now + 1
                                                           ELSE lastBeat[w]]
          /\ now' = now + 1
        BY <1>1 DEF Tick
    <3>2. lastBeat \in [Workers -> Nat] /\ \A w \in Workers : lastBeat[w] <= now
        BY DEF TypeOK, NotAhead
    <3> QED
        BY <1>0, <3>1, <3>2
  <2>8. /\ turned' \in BOOLEAN /\ passed' \in BOOLEAN /\ lastHour' \in BOOLEAN
    BY <1>0, <1>1 DEF Tick, TypeOK, NotAhead
  <2>3. seen' \subseteq Days \X Addresses
    BY <1>0, <1>1, <2>1 DEF Tick, TypeOK, Recent
  <2>4. whole' \subseteq Days \X Addresses
    BY <1>0, <1>1, <2>1 DEF Tick, TypeOK, Recent
  <2>5. data' \in [Days -> Record] /\ served' \subseteq Days
    BY <1>0, <1>1 DEF Tick, TypeOK
  <2>6. budget' \in Nat
    <3>1. pc # "idle" => budget > 0
        BY <1>1 DEF Tick, TypeOK, PassInv
    <3> QED
        BY <1>1, <3>1 DEF Tick, TypeOK
  <2>7. /\ UNCHANGED <<event, mining, startedAt, payment, credited, up, pass, cut>>
        /\ now' = now + 1
    BY <1>1 DEF Tick
  <2> QED
    BY <2>1, <2>2, <2>3, <2>4, <2>5, <2>6, <2>7, <2>8 DEF TypeOK, NotAhead
<1>2. ASSUME NEW w \in Workers, Login(w) PROVE TypeOK' /\ NotAhead'
  <2>1. /\ mining' \subseteq Workers /\ budget' \in Nat
        /\ startedAt' \in [Workers -> Nat] /\ lastBeat' \in [Workers -> Nat]
        /\ \A u \in Workers : lastBeat'[u] <= now
        /\ seen' \subseteq Days \X Addresses
    BY <1>0, <1>2 DEF Login, TypeOK, NotAhead, Incident
  <2>2. UNCHANGED <<event, clock, store, up, pass, whole, served, cut>>
    BY <1>2 DEF Login
  <2> QED
    BY <2>1, <2>2 DEF TypeOK, NotAhead
<1>3. ASSUME NEW w \in Workers, Leave(w) PROVE TypeOK' /\ NotAhead'
  <2>1. mining' \subseteq Workers /\ budget' \in Nat
    BY <1>3 DEF Leave, TypeOK, Incident
  <2>2. UNCHANGED <<event, clock, startedAt, lastBeat, store, up, pass, history>>
    BY <1>3 DEF Leave
  <2> QED
    BY <2>1, <2>2 DEF TypeOK, NotAhead
<1>4. CASE BeginPass
  <2>1. /\ today' \in Days /\ collected' \in Record
        /\ pc' \in {"store", "draw"} /\ task' \in {"yesterday", "end", "bonus"}
    BY <1>4, CollectedIs
  <2>2. /\ turned' = FALSE /\ up /\ pc = "idle"
        /\ UNCHANGED <<event, now, passed, lastHour, miners, store, up, award,
                       budget, history>>
    BY <1>4 DEF BeginPass
  <2> QED
    BY <2>1, <2>2 DEF TypeOK, NotAhead
<1>5. CASE OverwriteEventsData
  <2>1. data' \in [Days -> Record]
    BY <1>5 DEF OverwriteEventsData, TypeOK
  <2>2. /\ pc = "store" /\ pc' = "draw"
        /\ UNCHANGED <<event, clock, miners, payment, credited, up, task, today,
                       collected, award, budget, history>>
    BY <1>5 DEF OverwriteEventsData
  <2> QED
    BY <2>1, <2>2 DEF TypeOK, NotAhead
<1>6. CASE DrawWinner
  <2>1. PICK a \in Winners : award' = <<Key, a>>
    BY <1>6 DEF DrawWinner
  <2>2. AwardTypes
    BY DEF TypeOK, AwardTypes
  <2>3. award' \in Keys \X Addresses /\ award' # None
    BY <1>0, <1>6, <2>1, <2>2, DrawnIsKey DEF DrawWinner
  <2>4. /\ pc = "draw" /\ pc' = "credit"
        /\ UNCHANGED <<event, clock, miners, store, up, task, today, collected,
                       budget, history>>
    BY <1>6 DEF DrawWinner
  <2> QED
    BY <2>3, <2>4 DEF TypeOK, NotAhead
<1>7. CASE NothingToDraw
  <2>1. /\ NextTask /\ Pacing /\ pc = "draw"
        /\ UNCHANGED <<event, now, miners, store, up, today, collected, award,
                       budget, lastHour, seen, whole, cut>>
    BY <1>7 DEF NothingToDraw
  <2>2. /\ pc' \in {"idle", "draw"} /\ task' \in {"yesterday", "end", "bonus"}
        /\ turned' \in BOOLEAN /\ passed' \in BOOLEAN
        /\ served' \subseteq Days
    BY <2>1, PacingTypes
  <2> QED
    BY <2>1, <2>2 DEF TypeOK, NotAhead
<1>8. CASE WritePendingPayments
  <2>1. award # None /\ award[1] \in Keys
    BY <1>8 DEF WritePendingPayments, TypeOK
  <2>2. credited' \in [Keys -> Nat]
    BY <1>8, <2>1 DEF WritePendingPayments, TypeOK
  <2>3. /\ pc = "credit" /\ pc' = "record"
        /\ UNCHANGED <<event, clock, miners, data, payment, up, task, today,
                       collected, award, budget, history>>
    BY <1>8 DEF WritePendingPayments
  <2> QED
    BY <2>1, <2>2, <2>3 DEF TypeOK, NotAhead
<1>9. CASE RecordAward
  <2>1. /\ NextTask /\ Pacing /\ pc = "record"
        /\ payment' = payment \cup {award[1]} /\ award' = None
        /\ UNCHANGED <<event, now, miners, data, credited, up, today, collected,
                       budget, lastHour, seen, whole, cut>>
    BY <1>9 DEF RecordAward, WriteEventsPayment
  <2>2. /\ pc' \in {"idle", "draw"} /\ task' \in {"yesterday", "end", "bonus"}
        /\ turned' \in BOOLEAN /\ passed' \in BOOLEAN
        /\ served' \subseteq Days
    BY <2>1, PacingTypes
  <2>3. payment' \subseteq Keys
    BY <2>1 DEF TypeOK
  <2> QED
    BY <2>1, <2>2, <2>3 DEF TypeOK, NotAhead
<1>10. CASE Crash
  <2>1. cut' \in [Keys -> Nat] /\ budget' \in Nat /\ mining' \subseteq Workers
    BY <1>10 DEF Crash, TypeOK, Incident
  <2>2. /\ up' = FALSE /\ pc' = "idle" /\ task' = "yesterday" /\ today' = 0
        /\ collected' = NoRecord /\ award' = None
        /\ turned' = FALSE /\ passed' = FALSE
        /\ UNCHANGED <<event, now, startedAt, lastBeat, store, lastHour, seen,
                       whole, served>>
    BY <1>10 DEF Crash
  <2> QED
    BY <1>0, <2>1, <2>2 DEF TypeOK, NotAhead
<1>11. CASE Restart
  <2>1. /\ up' = TRUE
        /\ UNCHANGED <<event, clock, miners, store, pass, budget, history>>
    BY <1>11 DEF Restart
  <2> QED
    BY <2>1 DEF TypeOK, NotAhead
<1>12. CASE UNCHANGED vars
    BY <1>12 DEF vars, TypeOK, NotAhead
<1> QED
    BY <1>1, <1>2, <1>3, <1>4, <1>5, <1>6, <1>7, <1>8, <1>9, <1>10, <1>11,
       <1>12 DEF Next

(***************************************************************************)
(* Types, and with them that a record holds for every address times that   *)
(* exist, and that something is in hand exactly from a draw to its record. *)
(***************************************************************************)
THEOREM TypeCorrect == Spec => []TypeOK
<1>1. Init => TypeOK /\ NotAhead /\ PassInv
    BY InitTypes, InitPass
<1>2. TypeOK => AwardTypes
    BY DEF TypeOK, AwardTypes
<1>3. TypeOK /\ NotAhead /\ PassInv /\ [Next]_vars
        => (TypeOK /\ NotAhead /\ PassInv)'
    BY <1>2, StepTypes, StepPass
<1> QED
    BY <1>1, <1>3, PTL DEF Spec

(* What every further invariant rests on. *)
BaseInv == TypeOK /\ NotAhead /\ PassInv

LEMMA InitBase == Init => BaseInv
BY InitTypes, InitPass DEF BaseInv

LEMMA StepBase == BaseInv /\ [Next]_vars => BaseInv'
<1>1. TypeOK => AwardTypes
    BY DEF TypeOK, AwardTypes
<1> QED
    BY <1>1, StepTypes, StepPass DEF BaseInv

(* The time, its day, and that of the pass. *)
LEMMA Today ==
    ASSUME BaseInv
    PROVE  /\ now \in Nat /\ now >= Hours
           /\ DayOf(now) \in Days /\ DayOf(now) \in Int
           /\ pc # "idle" => /\ today = Began
                             /\ today \in {DayOf(now), DayOf(now) - 1}
           /\ today \in Int
<1>1. now \in Nat /\ now >= Hours /\ DayOf(now) \in Days /\ DayOf(now) \in Int
    BY DayOfTime DEF BaseInv, TypeOK, Times, Days
<1>2. DayOf(now - 1) \in {DayOf(now), DayOf(now) - 1}
    BY <1>1, Before DEF DayOf
<1>3. pc # "idle" => today = Began
    BY DEF BaseInv, PassInv
<1>4. Began \in {DayOf(now), DayOf(now) - 1}
    BY <1>2 DEF Began
<1>5. today \in Int
    BY DEF BaseInv, TypeOK, Days
<1> QED
    BY <1>1, <1>3, <1>4, <1>5

(* How the clock moves: no day is skipped, and a pass that the hour finds  *)
(* under way has begun in it.                                              *)
LEMMA Clock ==
    ASSUME BaseInv, [Next]_vars
    PROVE  /\ event' = event
           /\ now' \in Nat /\ DayOf(now') \in Int /\ DayOf(now)' = DayOf(now')
           /\ DayOf(now') \in {DayOf(now), DayOf(now) + 1}
           /\ DayOf(now') \in Days
           /\ ~Tick => now' = now
           /\ Tick => /\ now' = now + 1
                      /\ pc # "idle" => /\ ~turned /\ ~passed
                                        /\ today = DayOf(now) /\ turned'
<1>0. Tick => event' = event
    BY DEF Tick
<1>1. event' = event /\ (~Tick => now' = now)
    <2>1. CASE Tick
        BY <1>0, <2>1
    <2>2. CASE ~Tick
        BY <2>2 DEF Next, Login, Leave, BeginPass, OverwriteEventsData,
               DrawWinner, NothingToDraw, WritePendingPayments, RecordAward,
               Crash, Restart, vars, clock
    <2> QED
        BY <2>1, <2>2
<1>2. Tick => now' = now + 1
    BY DEF Tick
<1>3. Tick /\ pc # "idle" => ~passed /\ ~turned /\ turned'
    BY DEF Tick, BaseInv, PassInv
<1>4. now \in Nat /\ DayOf(now) \in Int /\ (pc # "idle" => today = Began)
    BY Today
<1>5. now' \in Nat /\ DayOf(now)' = DayOf(now')
    BY <1>1, <1>2, <1>4 DEF DayOf
<1>6. DayOf(now') \in Int
    BY <1>5, DayBounds
<1>7. DayOf(now') \in {DayOf(now), DayOf(now) + 1}
    BY <1>1, <1>2, <1>4, NextHour
<1>8. now' \in Times /\ now' >= Hours
    BY <1>1, <1>2, <1>4 DEF Tick, BaseInv, TypeOK
<1>9. DayOf(now') \in Days
    BY <1>8, DayOfTime
<1> QED
    BY <1>1, <1>2, <1>3, <1>4, <1>5, <1>6, <1>7, <1>9 DEF Began

-----------------------------------------------------------------------------
(* Who was there.  A worker that mines is fresh; the day it was last heard *)
(* of is one its address mined on; and so is the day of a record's beat,   *)
(* if the beat is of the record's day, as long as the day can be awarded.  *)

BeatsSeen ==
    /\ \A w \in Workers :
          /\ startedAt[w] <= lastBeat[w]
          /\ lastBeat[w] # 0 /\ DayOf(lastBeat[w]) >= DayOf(now) - 2
                => <<DayOf(lastBeat[w]), AddressOf[w]>> \in seen
    /\ \A w \in mining : lastBeat[w] = now
    /\ ~up => mining = {}
    /\ ~(passed /\ turned)

EntrySeen(e, d, a) ==
    e # None =>
      /\ e.start <= e.beat /\ DayOf(e.beat) <= d /\ e.offset >= 0
      /\ DayOf(e.beat) = d /\ d >= DayOf(now) - 2 => <<d, a>> \in seen

RecordsSeen ==
    /\ \A d \in Days, a \in Addresses :
          /\ EntrySeen(data[d][a], d, a)
          /\ data[d][a] # None => d \in {DayOf(now), DayOf(now) - 1}
    /\ pc = "store" => \A a \in Addresses : EntrySeen(collected[a], today, a)

(* The key in hand is of a day which is not forgotten during the pass. *)
AwardSeen ==
    award # None =>
      /\ award[1][1] \in Int /\ award[1][1] >= today - 1
      /\ <<award[1][1], award[2]>> \in seen

(* What was seen of the last two days stays so. *)
LEMMA SeenStays ==
    ASSUME BaseInv, [Next]_vars, NEW d \in Int, NEW a,
           d >= DayOf(now)' - 2, <<d, a>> \in seen
    PROVE  <<d, a>> \in seen'
<1>1. CASE Tick
    <2>1. seen' = Recent(seen, DayOf(now + 1))
                    \cup {<<DayOf(now + 1), AddressOf[w]>> : w \in mining}
        BY <1>1 DEF Tick
    <2>2. d >= DayOf(now + 1) - 2
        BY <1>1, Clock
    <2> QED
        BY <2>1, <2>2 DEF Recent
<1>2. CASE ~Tick
    BY <1>2 DEF Next, Login, Leave, BeginPass, OverwriteEventsData, DrawWinner,
           NothingToDraw, WritePendingPayments, RecordAward, Crash, Restart,
           vars, history
<1> QED
    BY <1>1, <1>2

LEMMA InitSeen == Init => BeatsSeen /\ RecordsSeen /\ AwardSeen
<1> SUFFICES ASSUME Init PROVE BeatsSeen /\ RecordsSeen /\ AwardSeen
    OBVIOUS
<1>1. \A w \in Workers :
         /\ startedAt[w] = lastBeat[w]
         /\ lastBeat[w] = IF w \in mining THEN now ELSE 0
    BY DEF Init
<1>2. DayOf(now) = 1
    <2>1. now \in Int /\ now = DayStart(1) /\ DayStart(2) = now + Hours
        BY DEF Init, DayStart
    <2>2. DayOf(now) >= 1 /\ ~(DayOf(now) >= 2) /\ DayOf(now) \in Int
        BY <2>1, DayFrom, DayBounds
    <2> QED
        BY <2>2
<1>3. \A w \in mining : <<1, AddressOf[w]>> \in seen
    BY DEF Init
<1>4. /\ up = TRUE /\ pc = "idle" /\ award = None /\ passed = FALSE
      /\ data = [d \in Days |-> NoRecord]
      /\ mining \subseteq Workers
    BY DEF Init
<1>5. BeatsSeen
    <2>1. \A w \in Workers : startedAt[w] <= lastBeat[w]
        <3>1. now \in Nat
            BY DEF Init
        <3> QED
            BY <1>1, <3>1
    <2> QED
        BY <1>1, <1>2, <1>3, <1>4, <2>1 DEF BeatsSeen
<1>6. RecordsSeen
    BY <1>4 DEF RecordsSeen, EntrySeen, NoRecord
<1> QED
    BY <1>4, <1>5, <1>6 DEF AwardSeen

LEMMA StepBeats == BaseInv /\ BeatsSeen /\ [Next]_vars => BeatsSeen'
<1> SUFFICES ASSUME BaseInv, BeatsSeen, [Next]_vars PROVE BeatsSeen'
    OBVIOUS
<1> USE DEF clock, miners, store, pass, history
<1>1. /\ now \in Nat /\ DayOf(now) \in Int
      /\ startedAt \in [Workers -> Nat] /\ lastBeat \in [Workers -> Nat]
      /\ mining \subseteq Workers /\ \A w \in Workers : lastBeat[w] <= now
      /\ turned \in BOOLEAN /\ passed \in BOOLEAN
    BY Today DEF BaseInv, TypeOK, NotAhead
<1>2. ASSUME UNCHANGED <<startedAt, lastBeat>>, now' = now,
             mining' \subseteq mining, ~up' => mining' = {},
             ~(passed' /\ turned'), seen \subseteq seen'
      PROVE  BeatsSeen'
    <2>1. DayOf(now)' = DayOf(now) /\ \A w : DayOf(lastBeat[w])' = DayOf(lastBeat[w])
        BY <1>2 DEF DayOf
    <2> QED
        BY <1>2, <2>1 DEF BeatsSeen
<1>3. CASE Tick
    <2> DEFINE D == DayOf(now + 1)
    <2>1. /\ now' = now + 1 /\ DayOf(now)' = D /\ D \in Int
          /\ \A t : DayOf(t)' = DayOf(t')
        BY <1>3, Clock DEF DayOf
    <2>2. /\ lastBeat' = [w \in Workers |-> IF w \in mining THEN now + 1
                                                           ELSE lastBeat[w]]
          /\ seen' = Recent(seen, D) \cup {<<D, AddressOf[w]>> : w \in mining}
          /\ UNCHANGED <<startedAt, mining, up>> /\ passed' = FALSE
        BY <1>3 DEF Tick
    <2>3. ASSUME NEW w \in Workers, w \in mining
          PROVE  /\ startedAt'[w] <= lastBeat'[w] /\ lastBeat'[w] = now'
                 /\ <<D, AddressOf[w]>> \in seen' /\ DayOf(lastBeat'[w]) = D
        <3>1. lastBeat'[w] = now + 1 /\ startedAt[w] <= lastBeat[w]
            BY <2>2, <2>3 DEF BeatsSeen
        <3> QED
            BY <1>1, <2>1, <2>2, <2>3, <3>1
    <2>4. ASSUME NEW w \in Workers, w \notin mining
          PROVE  /\ startedAt'[w] <= lastBeat'[w]
                 /\ lastBeat'[w] # 0 /\ DayOf(lastBeat'[w]) >= D - 2
                      => <<DayOf(lastBeat'[w]), AddressOf[w]>> \in seen'
        <3>1. lastBeat'[w] = lastBeat[w]
            BY <2>2, <2>4
        <3>2. DayOf(lastBeat[w]) \in Int /\ D >= DayOf(now)
            BY <1>1, <2>1, <1>3, DayBounds, Clock
        <3>3. /\ startedAt[w] <= lastBeat[w]
              /\ lastBeat[w] # 0 /\ DayOf(lastBeat[w]) >= DayOf(now) - 2
                   => <<DayOf(lastBeat[w]), AddressOf[w]>> \in seen
            BY DEF BeatsSeen
        <3> HIDE DEF D
        <3> QED
            BY <1>1, <2>1, <2>2, <3>1, <3>2, <3>3 DEF Recent
    <2> HIDE DEF D
    <2> QED
        BY <1>1, <2>1, <2>2, <2>3, <2>4 DEF BeatsSeen
<1>4. ASSUME NEW w \in Workers, Login(w) PROVE BeatsSeen'
    <2>1. /\ now' = now /\ UNCHANGED <<up, passed, turned>> /\ up
          /\ mining' = mining \cup {w}
          /\ startedAt' = [startedAt EXCEPT ![w] = now]
          /\ lastBeat' = [lastBeat EXCEPT ![w] = now]
          /\ seen' = seen \cup {<<DayOf(now), AddressOf[w]>>}
        BY <1>4 DEF Login
    <2>2. \A t : DayOf(t)' = DayOf(t')
        BY DEF DayOf
    <2>3. \A u \in Workers : u # w => /\ startedAt'[u] = startedAt[u]
                                      /\ lastBeat'[u] = lastBeat[u]
        BY <1>1, <2>1
    <2>4. startedAt'[w] = now /\ lastBeat'[w] = now
        BY <1>1, <2>1
    <2> QED
        BY <1>1, <2>1, <2>2, <2>3, <2>4 DEF BeatsSeen
<1>5. ASSUME NEW w \in Workers, Leave(w) PROVE BeatsSeen'
    BY <1>2, <1>5 DEF Leave, BeatsSeen
<1>6. CASE NothingToDraw \/ RecordAward
    <2>1. /\ Pacing /\ UNCHANGED <<startedAt, lastBeat, now, mining, up, seen>>
        BY <1>6 DEF NothingToDraw, RecordAward
    <2>2. ~(passed' /\ turned')
        BY <1>1, <2>1 DEF Pacing, BeatsSeen
    <2> QED
        BY <1>2, <2>1, <2>2 DEF BeatsSeen
<1>7. CASE \/ BeginPass \/ OverwriteEventsData \/ DrawWinner
           \/ WritePendingPayments \/ Crash \/ Restart \/ UNCHANGED vars
    <2>1. /\ UNCHANGED <<startedAt, lastBeat, now, seen>>
          /\ mining' \in {mining, {}} /\ (~up' => ~up \/ mining' = {})
          /\ turned' = FALSE \/ UNCHANGED <<passed, turned>>
        BY <1>7 DEF BeginPass, OverwriteEventsData, DrawWinner,
                   WritePendingPayments, Crash, Restart, vars
    <2>2. mining' \subseteq mining /\ (~up' => mining' = {})
          /\ ~(passed' /\ turned') /\ seen \subseteq seen'
        BY <2>1 DEF BeatsSeen
    <2> QED
        BY <1>2, <2>1, <2>2
<1> QED
    BY <1>3, <1>4, <1>5, <1>6, <1>7 DEF Next


(* The same of an entry after a step. *)
EntryThen(e, d, a) ==
    e # None =>
      /\ e.start <= e.beat /\ DayOf(e.beat) <= d /\ e.offset >= 0
      /\ DayOf(e.beat) = d /\ d >= DayOf(now') - 2 => <<d, a>> \in seen'

(* An entry may grow old, but never says more than was seen. *)
LEMMA EntryStays ==
    ASSUME BaseInv, [Next]_vars, NEW e, NEW d \in Int, NEW a, EntrySeen(e, d, a)
    PROVE  EntryThen(e, d, a)
<1>1. /\ DayOf(now') \in Int /\ DayOf(now') = DayOf(now)'
      /\ DayOf(now') >= DayOf(now) /\ DayOf(now) \in Int
    BY Clock, Today
<1>2. SUFFICES ASSUME DayOf(e.beat) = d, d >= DayOf(now') - 2, e # None
               PROVE  <<d, a>> \in seen'
    BY DEF EntrySeen, EntryThen
<1>3. d >= DayOf(now) - 2
    BY <1>1, <1>2
<1>4. <<d, a>> \in seen
    BY <1>2, <1>3 DEF EntrySeen
<1> QED
    BY <1>1, <1>2, <1>4, SeenStays

(* What a pass collects was seen today. *)
LEMMA CollectedSeen ==
    ASSUME BaseInv, BeatsSeen, RecordsSeen, BeginPass, NEW a \in Addresses
    PROVE  EntrySeen(collected'[a], DayOf(now), a)
<1> DEFINE D == DayOf(now)
           old == data[D][a]
           new == Merge(a, old)
<1>1. D \in Days /\ D \in Int /\ now \in Nat
    BY Today
<1>2. /\ startedAt \in [Workers -> Nat] /\ lastBeat \in [Workers -> Nat]
      /\ \A w \in Workers : lastBeat[w] <= now
      /\ old \in Entry \cup {None} /\ None \notin Entry
    BY <1>1 DEF BaseInv, TypeOK, NotAhead, Record, Entry
<1>3. EntrySeen(old, D, a)
    BY <1>1 DEF RecordsSeen
<1>4. /\ new \in Entry \cup {None}
      /\ WorkersOf(a) = {} => new = old
      /\ WorkersOf(a) # {} =>
           /\ new \in Entry
           /\ \A w \in WorkersOf(a) : /\ new.start <= startedAt[w]
                                      /\ lastBeat[w] <= new.beat
           /\ new.offset = IF old = None THEN 0 ELSE old.offset
           /\ \/ \E w \in WorkersOf(a) : new.beat = lastBeat[w]
              \/ old # None /\ new.beat = old.beat
    BY <1>1, <1>2, MergeIs
<1>6. IF InEventWindow(D) THEN collected'[a] = Silence(new, D)
                          ELSE collected'[a] = None
    BY CollectedIs DEF BaseInv, NoRecord
<1> HIDE DEF new, old
<1>5. EntrySeen(new, D, a)
    <2>1. CASE WorkersOf(a) = {}
        BY <1>3, <1>4, <2>1
    <2>2. CASE WorkersOf(a) # {}
        <3>1. PICK v \in WorkersOf(a) : TRUE
            BY <2>2
        <3>2. \A w \in WorkersOf(a) :
                 /\ startedAt[w] \in Nat /\ lastBeat[w] \in Nat
                 /\ startedAt[w] <= lastBeat[w] /\ lastBeat[w] <= now
                 /\ DayOf(lastBeat[w]) >= D - 2
                       => <<DayOf(lastBeat[w]), a>> \in seen
            BY <1>2 DEF WorkersOf, BeatsSeen
        <3>0. startedAt[v] \in Nat /\ lastBeat[v] \in Nat
                /\ startedAt[v] <= lastBeat[v]
            BY <3>1, <3>2
        <3>3. new.start \in Nat /\ new.beat \in Nat /\ new.offset \in Int
            BY <1>4, <2>2 DEF Entry
        <3>4. new.start <= new.beat
            <4>1. new.start <= startedAt[v] /\ lastBeat[v] <= new.beat
                BY <1>4, <2>2, <3>1
            <4> QED
                BY <3>0, <3>3, <4>1
        <3>5. new.offset >= 0
            BY <1>3, <1>4, <2>2 DEF EntrySeen
        <3>6. CASE \E w \in WorkersOf(a) : new.beat = lastBeat[w]
            <4>1. PICK w \in WorkersOf(a) : new.beat = lastBeat[w]
                BY <3>6
            <4>0. new.beat \in Int /\ now \in Int /\ new.beat <= now
                <5>1. lastBeat[w] \in Nat /\ lastBeat[w] <= now
                    BY <3>2
                <5> QED
                    BY <1>1, <4>1, <5>1
            <4>2. DayOf(new.beat) <= D
                BY <4>0, DaysGrow
            <4>3. DayOf(new.beat) = D => <<D, a>> \in seen
                BY <1>1, <3>2, <4>1
            <4> QED
                BY <3>4, <3>5, <4>2, <4>3 DEF EntrySeen
        <3>7. CASE old # None /\ new.beat = old.beat
            BY <1>3, <3>4, <3>5, <3>7 DEF EntrySeen
        <3> QED
            BY <1>4, <2>2, <3>6, <3>7
    <2> QED
        BY <2>1, <2>2
<1>7. Silence(new, D) = None \/ 
        /\ new # None
        /\ Silence(new, D).start = new.start /\ Silence(new, D).beat = new.beat
        /\ Silence(new, D).offset = new.offset \/ Silence(new, D).offset >= 0
    BY <1>1, <1>4, SilenceIs
<1> HIDE DEF D
<1>8. EntrySeen(Silence(new, D), D, a)
    BY <1>5, <1>7 DEF EntrySeen
<1> QED
    BY <1>6, <1>8 DEF EntrySeen, D

LEMMA StepRecords ==
    BaseInv /\ BeatsSeen /\ RecordsSeen /\ [Next]_vars => RecordsSeen'
<1> SUFFICES ASSUME BaseInv, BeatsSeen, RecordsSeen, [Next]_vars
             PROVE  RecordsSeen'
    OBVIOUS
<1> USE DEF clock, miners, store, pass, history
<1>1. /\ today \in Int /\ DayOf(now) \in Days /\ DayOf(now) \in Int
      /\ pc # "idle" => today \in {DayOf(now), DayOf(now) - 1}
      /\ \A d \in Days : d \in Int
      /\ data \in [Days -> Record]
    BY Today DEF BaseInv, TypeOK, Days
<1>2. ASSUME \A d \in Days, a \in Addresses :
                /\ EntryThen(data'[d][a], d, a)
                /\ data'[d][a] # None => d \in {DayOf(now'), DayOf(now') - 1},
             pc' = "store" =>
                \A a \in Addresses : EntryThen(collected'[a], today', a)
      PROVE  RecordsSeen'
    BY <1>2 DEF RecordsSeen, EntrySeen, EntryThen, DayOf
<1>3. \A d \in Days, a \in Addresses : EntryThen(data[d][a], d, a)
    BY <1>1, EntryStays DEF RecordsSeen
<1>4. pc = "store" => \A a \in Addresses : EntryThen(collected[a], today, a)
    BY <1>1, EntryStays DEF RecordsSeen
<1>5. CASE Tick
    <2>1. /\ data' = [e \in Days |-> IF e < DayOf(now + 1) - 1 THEN NoRecord
                                                             ELSE data[e]]
          /\ now' = now + 1 /\ UNCHANGED <<pc, today, collected>>
        BY <1>5 DEF Tick
    <2>2. DayOf(now') \in {DayOf(now), DayOf(now) + 1}
        BY Clock
    <2>3. ASSUME NEW d \in Days, NEW a \in Addresses
          PROVE  /\ EntryThen(data'[d][a], d, a)
                 /\ data'[d][a] # None => d \in {DayOf(now'), DayOf(now') - 1}
        <3>1. CASE d < DayOf(now') - 1
            <4>1. data'[d][a] = None
                BY <2>1, <3>1 DEF NoRecord
            <4> QED
                BY <4>1 DEF EntryThen
        <3>2. CASE ~(d < DayOf(now') - 1)
            <4>1. data'[d][a] = data[d][a]
                BY <2>1, <3>2
            <4>2. data[d][a] # None => d \in {DayOf(now), DayOf(now) - 1}
                BY DEF RecordsSeen
            <4> QED
                BY <1>1, <1>3, <2>2, <3>2, <4>1, <4>2
        <3> QED
            BY <3>1, <3>2
    <2> QED
        BY <1>2, <1>4, <2>1, <2>3
<1>6. ASSUME ~Tick, data' = data
      PROVE  \A d \in Days, a \in Addresses :
                /\ EntryThen(data'[d][a], d, a)
                /\ data'[d][a] # None => d \in {DayOf(now'), DayOf(now') - 1}
    BY <1>3, <1>6, Clock DEF RecordsSeen
<1>7. CASE BeginPass /\ ~Tick
    <2>1. data' = data /\ today' = DayOf(now)
        BY <1>7, CollectedIs DEF BeginPass, BaseInv
    <2>2. \A a \in Addresses : EntrySeen(collected'[a], today', a)
        BY <1>7, <2>1, CollectedSeen
    <2>3. \A a \in Addresses : EntryThen(collected'[a], today', a)
        BY <1>1, <2>1, <2>2, EntryStays
    <2> QED
        BY <1>2, <1>6, <1>7, <2>1, <2>3
<1>8. CASE OverwriteEventsData /\ ~Tick
    <2>1. /\ data' = [data EXCEPT ![today] = collected] /\ pc = "store"
          /\ pc' = "draw" /\ now' = now
        BY <1>8 DEF OverwriteEventsData
    <2>2. ASSUME NEW d \in Days, NEW a \in Addresses
          PROVE  /\ EntryThen(data'[d][a], d, a)
                 /\ data'[d][a] # None => d \in {DayOf(now'), DayOf(now') - 1}
        <3>1. data'[d] = IF d = today THEN collected ELSE data[d]
            BY <1>1, <2>1
        <3>2. data[d][a] # None => d \in {DayOf(now), DayOf(now) - 1}
            BY DEF RecordsSeen
        <3> QED
            BY <1>1, <1>3, <1>4, <2>1, <3>1, <3>2
    <2> QED
        BY <1>2, <2>1, <2>2
<1>9. CASE ~Tick /\ (NothingToDraw \/ RecordAward)
    <2>1. data' = data /\ pc' \in {"idle", "draw"}
        <3>1. NextTask /\ task \in {"yesterday", "end", "bonus"}
            BY <1>9 DEF NothingToDraw, RecordAward, BaseInv, TypeOK
        <3> QED
            BY <1>9, <3>1 DEF NothingToDraw, RecordAward, NextTask
    <2> QED
        BY <1>2, <1>6, <1>9, <2>1
<1>10. CASE ~Tick /\ (DrawWinner \/ WritePendingPayments \/ Crash)
    <2>1. data' = data /\ pc' \in {"credit", "record", "idle"}
        BY <1>10 DEF DrawWinner, WritePendingPayments, Crash
    <2> QED
        BY <1>2, <1>6, <1>10, <2>1
<1>11. CASE ~Tick /\ (\/ Restart \/ UNCHANGED vars
                      \/ \E w \in Workers : Login(w) \/ Leave(w))
    <2>1. UNCHANGED <<data, pc, today, collected>>
        BY <1>11 DEF Restart, vars, Login, Leave
    <2> QED
        BY <1>2, <1>4, <1>6, <1>11, <2>1
<1> QED
    BY <1>5, <1>7, <1>8, <1>9, <1>10, <1>11 DEF Next

(* Whoever may win was there. *)
LEMMA WinnersSeen ==
    ASSUME BaseInv, RecordsSeen, pc = "draw", Due, NEW a \in Winners
    PROVE  /\ Key[1] \in Int /\ Key[1] >= today - 1
           /\ <<Key[1], a>> \in seen
<1> DEFINE D == DayOf(now)
<1>1. /\ now \in Nat /\ now >= Hours /\ D \in Days /\ D \in Int
      /\ today = Began /\ today \in {D, D - 1}
    BY Today
<1>2. CASE task # "bonus"
    <2> DEFINE d == D - 1
               e == data[d][a]
    <2>1. /\ Yesterday = d /\ Key = <<d>> /\ d \in Days /\ a \in Addresses
          /\ e # None /\ Hours - DayOffset(e, d) >= Criteria
        BY <1>2 DEF Key, DayKey, Winners, DayWinners, Yesterday
    <2>2. e \in Entry
        BY <2>1 DEF BaseInv, TypeOK, Record
    <2>3. /\ e.start \in Nat /\ e.beat \in Nat /\ e.offset \in Int
          /\ e.start <= e.beat /\ DayOf(e.beat) <= d /\ e.offset >= 0
          /\ DayOf(e.beat) = d /\ d >= D - 2 => <<d, a>> \in seen
        BY <2>1, <2>2 DEF RecordsSeen, EntrySeen, Entry
    <2>4. /\ d \in Int /\ DayStart(d) \in Int
          /\ now >= DayStart(d) + Hours
        <3>1. DayStart(D) <= now /\ DayStart(D) = DayStart(d) + Hours
            BY <1>1, DayBounds, DayStarts
        <3> QED
            BY <1>1, <3>1, DayStarts
    <2> HIDE DEF e, d
    <2>5. e.beat >= DayStart(d)
        <3>1. SUFFICES ASSUME e.beat < DayStart(d) PROVE FALSE
            BY <2>3, <2>4
        <3>2. e.start <= DayStart(d) /\ ~(e.start > DayStart(d))
            BY <2>3, <2>4, <3>1
        <3>3. DayOffset(e, d) = e.offset + (now - DayStart(d))
            BY <3>1, <3>2 DEF DayOffset
        <3> QED
            BY <1>1, <2>1, <2>3, <2>4, <3>3
    <2>6. DayOf(e.beat) = d
        <3>0. e.beat \in Int
            BY <2>3
        <3>1. DayOf(e.beat) \in Int
            BY <3>0, DayBounds
        <3>2. DayOf(e.beat) >= d
            BY <2>4, <2>5, <3>0, DayFrom
        <3> QED
            BY <2>3, <2>4, <3>1, <3>2
    <2> QED
        BY <1>1, <2>1, <2>3, <2>4, <2>6 DEF d
<1>3. CASE task = "bonus"
    <2> DEFINE t == now - 1
               e == data[today][a]
    <2>1. /\ Key = <<DayOf(t), t % Hours>> /\ a \in Addresses
          /\ e # None /\ e.beat >= t
          /\ today = event.bonus /\ event.bonus # 0
        BY <1>3 DEF Key, HourKey, Winners, HourWinners, Due, Wanted, Bonus
    <2>2. DayOf(t) = today
        <3>1. Legal(Key)
            BY DrawnIsLegal DEF BaseInv, TypeOK, AwardTypes
        <3>2. t \in Times /\ Key = HourKey(t)
            BY <1>1, <1>3 DEF Key, BaseInv, TypeOK, Times
        <3> QED
            BY <2>1, <3>1, <3>2 DEF Legal
    <2>3. today \in Days
        <3>1. event.bonus \in Days \cup {0}
            BY DEF BaseInv, TypeOK
        <3> QED
            BY <2>1, <3>1
    <2>4. /\ DayOf(e.beat) <= today
          /\ DayOf(e.beat) = today /\ today >= D - 2 => <<today, a>> \in seen
        BY <2>1, <2>3 DEF RecordsSeen, EntrySeen
    <2>5. e.beat \in Int /\ t \in Int
        <3>1. e \in Entry
            BY <2>1, <2>3 DEF BaseInv, TypeOK, Record
        <3> QED
            BY <1>1, <3>1 DEF Entry
    <2>6. DayOf(e.beat) >= today /\ DayOf(e.beat) \in Int /\ today \in Int
        <3>1. t <= e.beat
            BY <2>1, <2>5
        <3>2. DayOf(t) <= DayOf(e.beat)
            BY <2>5, <3>1, DaysGrow
        <3>3. DayOf(e.beat) \in Int /\ DayOf(t) \in Int
            BY <2>5, DayBounds
        <3> QED
            BY <2>2, <3>2, <3>3
    <2> QED
        BY <1>1, <2>1, <2>2, <2>4, <2>6
<1> QED
    BY <1>2, <1>3


LEMMA StepAwardSeen ==
    BaseInv /\ RecordsSeen /\ AwardSeen /\ [Next]_vars => AwardSeen'
<1> SUFFICES ASSUME BaseInv, RecordsSeen, AwardSeen, [Next]_vars
             PROVE  AwardSeen'
    OBVIOUS
<1> USE DEF clock, miners, store, pass, history
<1>1. /\ today \in Int /\ DayOf(now) \in Int
      /\ pc # "idle" => today \in {DayOf(now), DayOf(now) - 1}
      /\ pc \in {"credit", "record"} <=> award # None
      /\ DayOf(now') = DayOf(now)' /\ DayOf(now') \in Int
    BY Today, Clock DEF BaseInv, TypeOK
<1>2. ASSUME UNCHANGED <<award, today, now>> PROVE AwardSeen'
    <2>1. DayOf(now)' = DayOf(now)
        BY <1>2 DEF DayOf
    <2>2. award # None => award[1][1] >= DayOf(now)' - 2
        BY <1>1, <2>1 DEF AwardSeen
    <2>3. award # None => <<award[1][1], award[2]>> \in seen'
        BY <2>2, SeenStays DEF AwardSeen
    <2> QED
        BY <1>2, <2>3 DEF AwardSeen
<1>3. CASE Tick
    <2>1. UNCHANGED <<award, today>>
        BY <1>3 DEF Tick
    <2>2. /\ pc # "idle" => today = DayOf(now)
          /\ DayOf(now') \in {DayOf(now), DayOf(now) + 1}
        BY <1>3, Clock
    <2>3. award # None => award[1][1] >= DayOf(now)' - 2
        BY <1>1, <2>2 DEF AwardSeen
    <2>4. award # None => <<award[1][1], award[2]>> \in seen'
        BY <2>3, SeenStays DEF AwardSeen
    <2> QED
        BY <2>1, <2>4 DEF AwardSeen
<1>4. CASE DrawWinner
    <2>1. PICK a \in Winners : award' = <<Key, a>>
        BY <1>4 DEF DrawWinner
    <2>2. pc = "draw" /\ Due /\ UNCHANGED <<now, today, seen>>
        BY <1>4 DEF DrawWinner
    <2>3. /\ Key[1] \in Int /\ Key[1] >= today - 1
          /\ <<Key[1], a>> \in seen
        BY <2>2, WinnersSeen
    <2>4. award'[1] = Key /\ award'[2] = a
        BY <2>1
    <2> HIDE DEF Key
    <2> QED
        BY <2>2, <2>3, <2>4 DEF AwardSeen
<1>5. CASE RecordAward \/ Crash \/ BeginPass
    <2>1. award' = None
        BY <1>1, <1>5 DEF RecordAward, WriteEventsPayment, Crash, BeginPass
    <2> QED
        BY <2>1 DEF AwardSeen
<1>6. CASE \/ OverwriteEventsData \/ NothingToDraw \/ WritePendingPayments
           \/ Restart \/ UNCHANGED vars
           \/ \E w \in Workers : Login(w) \/ Leave(w)
    <2>1. UNCHANGED <<award, today, now>>
        BY <1>6 DEF OverwriteEventsData, NothingToDraw, WritePendingPayments,
                   Restart, vars, Login, Leave
    <2> QED
        BY <1>2, <2>1
<1> QED
    BY <1>3, <1>4, <1>5, <1>6 DEF Next

(***************************************************************************)
(* Whoever wins a day or an hour mined on that day, whatever workers share *)
(* an address, and however long a pass goes on after midnight: statistics  *)
(* are merged into the record of the day they were collected on, and count *)
(* only with a beat of that day (events.go:165-245, 281-321).              *)
(***************************************************************************)
THEOREM WinnersWereThere == Spec => []WinnerWasThere
<1> DEFINE Inv == BaseInv /\ BeatsSeen /\ RecordsSeen /\ AwardSeen
<1>1. Init => Inv
    BY InitBase, InitSeen
<1>2. Inv /\ [Next]_vars => Inv'
    BY StepBase, StepBeats, StepRecords, StepAwardSeen
<1>3. Inv => WinnerWasThere
    BY DEF AwardSeen, WinnerWasThere
<1> HIDE DEF Inv
<1> QED
    BY <1>1, <1>2, <1>3, PTL DEF Spec

-----------------------------------------------------------------------------
(* The hours of a bonus day.  A worker that mined the hour before and is   *)
(* still heard of in this one is in what a pass begun in this hour has     *)
(* collected, then in the record, and so there is a winner; when the pass  *)
(* is over, the hour before is recorded as drawn.                          *)

BonusHour ==
    /\ now > Hours /\ InEventWindow(event.bonus)
    /\ DayOf(now) = event.bonus /\ DayOf(now - 1) = event.bonus

Mined(w) == startedAt[w] < now /\ lastBeat[w] = now

Fresh(e) == e # None /\ e.beat >= now

HourOf(w) ==
    /\ pc = "store" /\ ~turned => Fresh(collected[AddressOf[w]])
    /\ pc \in {"draw", "credit", "record"} /\ ~turned
          => Fresh(data[today][AddressOf[w]])
    /\ passed => HourKey(now - 1) \in payment

HoursInv ==
    /\ BonusHour => \A w \in Workers : Mined(w) => HourOf(w)
    /\ BonusHour /\ award # None /\ ~turned /\ task = "bonus"
          => award[1] = HourKey(now - 1)

(* The same of the hour before this one. *)
HourBefore == InEventWindow(event.bonus) => EveryHourDrawn

LEMMA InitHours == Init => HoursInv /\ HourBefore
<1> SUFFICES ASSUME Init PROVE HoursInv /\ HourBefore
    OBVIOUS
<1>1. now = Hours /\ Hours \in Nat
    BY DEF Init
<1> QED
    BY <1>1 DEF HoursInv, BonusHour, HourBefore, EveryHourDrawn

(* Within an hour: who mined the hour before and is heard of was so before *)
(* the step; logging in anew only takes somebody out.                      *)
LEMMA WithinHour ==
    ASSUME BaseInv, [Next]_vars, ~Tick
    PROVE  /\ now' = now /\ event' = event /\ payment \subseteq payment'
           /\ BonusHour' = BonusHour
           /\ HourKey(now - 1)' = HourKey(now - 1)
           /\ \A w \in Workers :
                 \/ startedAt'[w] = startedAt[w] /\ lastBeat'[w] = lastBeat[w]
                 \/ startedAt'[w] = now
           /\ lastHour' = lastHour
<1>1. now' = now /\ event' = event
    BY Clock
<1>2. BonusHour' = BonusHour /\ HourKey(now - 1)' = HourKey(now - 1)
    BY <1>1 DEF BonusHour, InEventWindow, HourKey, DayOf
<1>3. ASSUME NEW v \in Workers, Login(v)
      PROVE  \A w \in Workers :
                 \/ startedAt'[w] = startedAt[w] /\ lastBeat'[w] = lastBeat[w]
                 \/ startedAt'[w] = now
    BY <1>3 DEF Login, BaseInv, TypeOK
<1>4. ASSUME NEW v \in Workers, Login(v)
      PROVE  payment' = payment /\ lastHour' = lastHour
    BY <1>4 DEF Login, store, clock
<1>5. (~ \E v \in Workers : Login(v))
        => UNCHANGED <<startedAt, lastBeat>> /\ payment \subseteq payment'
             /\ lastHour' = lastHour
    BY DEF Next, Leave, BeginPass, OverwriteEventsData, DrawWinner,
           NothingToDraw, WritePendingPayments, RecordAward, Crash, Restart,
           vars, clock, miners, store, WriteEventsPayment
<1> QED
    BY <1>1, <1>2, <1>3, <1>4, <1>5

LEMMA StepHourBefore ==
    BaseInv /\ BeatsSeen /\ HoursInv /\ HourBefore /\ [Next]_vars => HourBefore'
<1> SUFFICES ASSUME BaseInv, BeatsSeen, HoursInv, HourBefore, [Next]_vars,
                    InEventWindow(event.bonus)'
             PROVE  EveryHourDrawn'
    BY DEF HourBefore
<1>1. /\ now \in Nat /\ event' = event
      /\ startedAt \in [Workers -> Nat] /\ lastBeat \in [Workers -> Nat]
      /\ \A w \in Workers : lastBeat[w] <= now
    BY Today, Clock DEF BaseInv, TypeOK, NotAhead
<1>2. InEventWindow(event.bonus)
    BY <1>1 DEF InEventWindow
<1>3. CASE Tick
    <2>1. /\ now' = now + 1 /\ lastHour' = passed /\ payment' = payment
          /\ startedAt' = startedAt
          /\ lastBeat' = [w \in Workers |-> IF w \in mining THEN now + 1
                                                           ELSE lastBeat[w]]
        BY <1>3 DEF Tick
    <2>2. now' - 2 = now - 1 /\ (now' - 2) + 1 = now
        BY <1>1, <2>1
    <2>3. SUFFICES ASSUME now - 1 >= Hours, passed,
                          DayOf(now - 1) = event.bonus,
                          DayOf(now) = event.bonus,
                          NEW w \in Workers,
                          startedAt'[w] <= now - 1, lastBeat'[w] > now - 1
                   PROVE  HourKey(now - 1) \in payment
        BY <1>1, <2>1, <2>2 DEF EveryHourDrawn, DayOf, HourKey
    <2>4. BonusHour
        BY <1>1, <1>2, <2>3 DEF BonusHour
    <2>5. Mined(w)
        BY <1>1, <2>1, <2>3 DEF Mined, BeatsSeen
    <2> QED
        BY <2>3, <2>4, <2>5 DEF HoursInv, HourOf
<1>4. CASE ~Tick
    <2>1. EveryHourDrawn
        BY <1>2 DEF HourBefore
    <2>2. /\ now' = now /\ payment \subseteq payment' /\ lastHour' = lastHour
          /\ \A w \in Workers :
                 \/ startedAt'[w] = startedAt[w] /\ lastBeat'[w] = lastBeat[w]
                 \/ startedAt'[w] = now
        BY <1>4, WithinHour
    <2>3. SUFFICES ASSUME now - 2 >= Hours, lastHour,
                          DayOf(now - 2) = event.bonus,
                          DayOf((now - 2) + 1) = event.bonus,
                          NEW w \in Workers,
                          startedAt'[w] <= now - 2, lastBeat'[w] > now - 2
                   PROVE  HourKey(now - 2) \in payment
        BY <1>1, <2>2 DEF EveryHourDrawn, DayOf, HourKey
    <2>4. startedAt[w] <= now - 2 /\ lastBeat[w] > now - 2
        BY <1>1, <2>2, <2>3
    <2> QED
        BY <2>1, <2>3, <2>4 DEF EveryHourDrawn
<1> QED
    BY <1>3, <1>4

LEMMA StepHours ==
    BaseInv /\ BeatsSeen /\ HoursInv /\ [Next]_vars => HoursInv'
<1> SUFFICES ASSUME BaseInv, BeatsSeen, HoursInv, [Next]_vars PROVE HoursInv'
    OBVIOUS
<1> USE DEF clock, miners, store, pass, history
<1>1. /\ now \in Nat /\ now >= Hours /\ DayOf(now) \in Days
      /\ startedAt \in [Workers -> Nat] /\ lastBeat \in [Workers -> Nat]
      /\ \A w \in Workers : lastBeat[w] <= now /\ AddressOf[w] \in Addresses
      /\ pc \in {"credit", "record"} <=> award # None
      /\ data \in [Days -> Record]
      /\ pc # "idle" => today = Began
    BY Today DEF BaseInv, TypeOK, NotAhead, Addresses
<1>2. CASE Tick
    <2>1. passed' = FALSE /\ pc' = pc /\ award' = award
            /\ (pc # "idle" => turned')
        BY <1>2, Clock DEF Tick
    <2> QED
        BY <1>1, <2>1 DEF HoursInv, HourOf
<1>3. SUFFICES ASSUME ~Tick, BonusHour
               PROVE  /\ \A w \in Workers : Mined(w)' => HourOf(w)'
                      /\ award' # None /\ ~turned' /\ task' = "bonus"
                            => award'[1] = HourKey(now - 1)
    BY <1>2, WithinHour DEF HoursInv
<1>4. /\ now' = now /\ payment \subseteq payment'
      /\ HourKey(now - 1)' = HourKey(now - 1)
      /\ \A w \in Workers : Mined(w)' => Mined(w)
    <2>1. /\ now' = now /\ payment \subseteq payment'
          /\ HourKey(now - 1)' = HourKey(now - 1)
          /\ \A w \in Workers :
                 \/ startedAt'[w] = startedAt[w] /\ lastBeat'[w] = lastBeat[w]
                 \/ startedAt'[w] = now
        BY <1>3, WithinHour
    <2>2. \A w \in Workers : Mined(w)' => Mined(w)
        BY <1>1, <2>1 DEF Mined
    <2> QED
        BY <2>1, <2>2
<1>5. /\ event.bonus = DayOf(now) /\ (~turned /\ pc # "idle" => today = DayOf(now))
      /\ InEventWindow(DayOf(now)) /\ event.bonus # 0
    BY <1>1, <1>3 DEF BonusHour, Began, Days
<1>6. \A w \in Workers : Mined(w)' => HourOf(w)
    BY <1>3, <1>4 DEF HoursInv
<1>7. ASSUME UNCHANGED <<turned, data, today, passed>>,
             pc' = "store" => pc = "store" /\ collected' = collected,
             pc' \in {"draw", "credit", "record"}
                => pc \in {"draw", "credit", "record"}
      PROVE  \A w \in Workers : Mined(w)' => HourOf(w)'
    BY <1>4, <1>6, <1>7 DEF HourOf, Fresh
<1>8. ASSUME award' = None \/ UNCHANGED <<award, turned, task>>
      PROVE  award' # None /\ ~turned' /\ task' = "bonus"
                => award'[1] = HourKey(now - 1)
    BY <1>3, <1>8 DEF HoursInv
<1>9. CASE BeginPass
    <2> DEFINE D == DayOf(now)
    <2>1. /\ turned' = FALSE /\ UNCHANGED <<passed, award>> /\ pc = "idle"
          /\ pc' = "store"
          /\ collected' = [a \in Addresses |-> Silence(Merge(a, data[D][a]), D)]
        BY <1>5, <1>9, CollectedIs DEF BeginPass, BaseInv
    <2>2. ASSUME NEW w \in Workers, Mined(w)
          PROVE  Fresh(collected'[AddressOf[w]])
        <3> DEFINE a == AddressOf[w]
                   old == data[D][a]
        <3>1. a \in Addresses /\ old \in Entry \cup {None}
            BY <1>1 DEF Record
        <3>2. lastBeat[w] = now /\ w \in WorkersOf(a) /\ now # 0
            BY <1>1, <2>2 DEF Mined, WorkersOf
        <3>3. /\ Merge(a, old) \in Entry /\ now <= Merge(a, old).beat
            BY <1>1, <3>1, <3>2, MergeIs
        <3>4. Merge(a, old) # None
            BY <3>3 DEF Entry
        <3>5. /\ Silence(Merge(a, old), D) # None
              /\ now <= Silence(Merge(a, old), D).beat
            BY <1>1, <3>3, <3>4, SilenceIs
        <3> QED
            BY <2>1, <3>1, <3>3, <3>5 DEF Fresh
    <2>3. ASSUME NEW w \in Workers, Mined(w)' PROVE HourOf(w)'
        <3>1. Fresh(collected'[AddressOf[w]]) /\ HourOf(w)
            BY <1>4, <1>6, <2>2, <2>3
        <3> QED
            BY <1>4, <2>1, <3>1 DEF HourOf, Fresh
    <2> QED
        BY <1>1, <1>8, <2>1, <2>3
<1>10. CASE OverwriteEventsData
    <2>1. /\ pc = "store" /\ pc' = "draw"
          /\ UNCHANGED <<turned, passed, award, task, today>>
          /\ data' = [data EXCEPT ![today] = collected]
        BY <1>10 DEF OverwriteEventsData
    <2>2. ASSUME NEW w \in Workers, Mined(w)' PROVE HourOf(w)'
        <3>1. HourOf(w)
            BY <1>6, <2>2
        <3>2. ~turned => data'[today] = collected
            BY <1>1, <1>5, <2>1
        <3> QED
            BY <1>4, <2>1, <3>1, <3>2 DEF HourOf, Fresh
    <2> QED
        BY <1>8, <2>1, <2>2
<1>11. CASE DrawWinner
    <2>1. PICK a \in Winners : award' = <<Key, a>>
        BY <1>11 DEF DrawWinner
    <2>2. /\ pc = "draw" /\ pc' = "credit"
          /\ UNCHANGED <<turned, data, today, passed, task>>
        BY <1>11 DEF DrawWinner
    <2>3. task' = "bonus" => award'[1] = HourKey(now - 1)
        BY <2>1, <2>2 DEF Key
    <2> QED
        BY <1>7, <2>2, <2>3
<1>12. CASE NothingToDraw
    <2>1. /\ pc = "draw" /\ ~Due /\ NextTask /\ Pacing
          /\ award = None /\ award' = None
          /\ UNCHANGED <<data, today, payment>>
          /\ task \in {"yesterday", "end", "bonus"}
        BY <1>1, <1>12 DEF NothingToDraw, BaseInv, TypeOK
    <2>2. CASE task # "bonus"
        <3>1. pc' = "draw" /\ UNCHANGED <<turned, passed>>
            BY <2>1, <2>2 DEF NextTask, Pacing
        <3> QED
            BY <1>7, <1>8, <2>1, <3>1
    <2>3. CASE task = "bonus"
        <3>1. pc' = "idle" /\ (passed' => ~turned)
            BY <2>1, <2>3 DEF NextTask, Pacing
        <3>2. ASSUME NEW w \in Workers, Mined(w)', ~turned
              PROVE  HourKey(now - 1) \in payment
            <4> DEFINE a == AddressOf[w]
            <4>1. a \in Addresses /\ Fresh(data[today][a])
                BY <1>1, <1>6, <2>1, <3>2 DEF HourOf
            <4>2. today \in Days
                BY <1>1, <1>5, <2>1, <3>2
            <4>3. data[today][a] \in Entry
                BY <1>1, <4>1, <4>2 DEF Record, Fresh
            <4>4. a \in Winners
                BY <1>1, <2>3, <4>1, <4>3
                DEF Winners, HourWinners, Fresh, Entry
            <4>5. Wanted
                <5>1. Bonus(today)
                    BY <1>5, <2>1, <3>2 DEF Bonus
                <5>2. DayOf(now - 1) = event.bonus
                    BY <1>3 DEF BonusHour
                <5> QED
                    BY <2>3, <5>1, <5>2 DEF Wanted
            <4> QED
                BY <2>1, <2>3, <4>4, <4>5 DEF Due, Key
        <3>3. ASSUME NEW w \in Workers, Mined(w)' PROVE HourOf(w)'
            BY <1>4, <3>1, <3>2, <3>3 DEF HourOf
        <3> QED
            BY <1>8, <2>1, <3>3
    <2> QED
        BY <2>2, <2>3
<1>13. CASE WritePendingPayments
    <2>1. /\ pc = "credit" /\ pc' = "record"
          /\ UNCHANGED <<turned, data, today, passed, task, award>>
        BY <1>13 DEF WritePendingPayments
    <2> QED
        BY <1>7, <1>8, <2>1
<1>14. CASE RecordAward
    <2>1. /\ pc = "record" /\ NextTask /\ Pacing /\ award # None
          /\ payment' = payment \cup {award[1]} /\ award' = None
          /\ UNCHANGED <<data, today>>
          /\ task \in {"yesterday", "end", "bonus"}
        BY <1>1, <1>14 DEF RecordAward, WriteEventsPayment, BaseInv, TypeOK
    <2>2. CASE task # "bonus"
        <3>1. pc' = "draw" /\ UNCHANGED <<turned, passed>>
            BY <2>1, <2>2 DEF NextTask, Pacing
        <3> QED
            BY <1>7, <1>8, <2>1, <3>1
    <2>3. CASE task = "bonus"
        <3>1. pc' = "idle" /\ (passed' => ~turned)
            BY <2>1, <2>3 DEF NextTask, Pacing
        <3>2. ~turned => award[1] = HourKey(now - 1)
            BY <1>3, <2>1, <2>3 DEF HoursInv
        <3>3. ASSUME NEW w \in Workers PROVE HourOf(w)'
            BY <1>4, <2>1, <3>1, <3>2 DEF HourOf
        <3> QED
            BY <1>8, <2>1, <3>3
    <2> QED
        BY <2>2, <2>3
<1>15. CASE Crash
    <2>1. pc' = "idle" /\ passed' = FALSE /\ award' = None
        BY <1>15 DEF Crash
    <2>2. \A w \in Workers : HourOf(w)'
        BY <2>1 DEF HourOf
    <2> QED
        BY <1>8, <2>1, <2>2
<1>16. CASE Restart \/ UNCHANGED vars \/ \E w \in Workers : Login(w) \/ Leave(w)
    <2>1. UNCHANGED <<pc, turned, collected, data, today, passed, award, task>>
        BY <1>16 DEF Restart, vars, Login, Leave
    <2> QED
        BY <1>7, <1>8, <2>1
<1> QED
    BY <1>3, <1>9, <1>10, <1>11, <1>12, <1>13, <1>14, <1>15, <1>16 DEF Next

(***************************************************************************)
(* Every hour of a bonus day in the event's window has its award when the  *)
(* next hour, still of that day, is over, if somebody mined the hour and a *)
(* pass ran from end to end in the next (events.go:475-541).               *)
(***************************************************************************)
THEOREM EveryBonusHourIsDrawn ==
    Spec => [](InEventWindow(event.bonus) => EveryHourDrawn)
<1> DEFINE Inv == BaseInv /\ BeatsSeen /\ HoursInv /\ HourBefore
<1>1. Init => Inv
    BY InitBase, InitSeen, InitHours
<1>2. Inv /\ [Next]_vars => Inv'
    BY StepBase, StepBeats, StepHours, StepHourBefore
<1>3. Inv => (InEventWindow(event.bonus) => EveryHourDrawn)
    BY DEF HourBefore
<1> HIDE DEF Inv
<1> QED
    BY <1>1, <1>2, <1>3, PTL DEF Spec


-----------------------------------------------------------------------------
(* The days.  A worker that has mined since before a day began has a       *)
(* record without any offset at the end of the day: the first pass begun   *)
(* after the first hour sees it, is over an hour later at the latest, and  *)
(* what an earlier pass leaves behind comes before that.                   *)

BeganAt == IF turned THEN now - 1 ELSE now

Stands(w) == w \in mining /\ startedAt[w] <= DayStart(DayOf(now))

(* No offset is kept of a day for whom it cannot have begun silent. *)
Unbroken(a) ==
    /\ data[DayOf(now)][a] # None => data[DayOf(now)][a].offset = 0
    /\ pc = "store" /\ today = DayOf(now) /\ collected[a] # None
          => collected[a].offset = 0

StandsFor(a) == \E w \in Workers : AddressOf[w] = a /\ Stands(w)

UnbrokenInv ==
    \A a \in Addresses :
        now = DayStart(DayOf(now)) \/ StandsFor(a) => Unbroken(a)

Full(e, d) ==
    /\ e # None /\ e.offset = 0
    /\ e.start <= DayStart(d) /\ e.beat >= DayStart(d)

RecordFull(a) ==
    LET D == DayOf(now)
    IN  /\ pc = "store" /\ BeganAt > DayStart(D) => Full(collected[a], D)
        /\ pc \in {"draw", "credit", "record"} /\ BeganAt > DayStart(D)
              => Full(data[D][a], D)
        /\ passed /\ now > DayStart(D) => Full(data[D][a], D)
        /\ now > DayStart(D) + 1
              => Full(data[D][a], D) \/ (pc = "store" /\ turned)

FullInv ==
    InEventWindow(DayOf(now)) =>
        \A a \in Addresses : StandsFor(a) => RecordFull(a)

(* The day before: its record stays full, whatever is written after        *)
(* midnight by a pass begun before it.                                     *)
YesterdayInv ==
    LET d == DayOf(now) - 1
    IN  InEventWindow(d) =>
          \A a \in Addresses : <<d, a>> \in whole =>
              /\ Full(data[d][a], d)
              /\ pc = "store" /\ today = d => Full(collected[a], d)

(* What is known of the days before is of days that are over. *)
HistoryInv ==
    /\ \A d \in Days, a \in Addresses : <<d, a>> \in whole =>
          /\ d < DayOf(now)
          /\ \E w \in Workers : AddressOf[w] = a /\ lastBeat[w] # 0
    /\ \A d \in served : d <= DayOf(now)

(* Who stands after a step did so before it, unless a day begins. *)
LEMMA StandsBefore ==
    ASSUME BaseInv, [Next]_vars, NEW a \in Addresses, StandsFor(a)',
           DayOf(now') = DayOf(now)
    PROVE  now = DayStart(DayOf(now)) \/ StandsFor(a)
<1>1. /\ now \in Nat /\ DayOf(now)' = DayOf(now) /\ DayOf(now) \in Int
      /\ startedAt \in [Workers -> Nat]
      /\ DayStart(DayOf(now)) \in Int /\ DayStart(DayOf(now)) <= now
    BY Today, Clock, DayBounds DEF BaseInv, TypeOK
<1>2. PICK w \in Workers :
         /\ AddressOf[w] = a /\ w \in mining'
         /\ startedAt'[w] <= DayStart(DayOf(now))
    BY <1>1 DEF StandsFor, Stands, DayStart
<1>3. ASSUME NEW v \in Workers, Login(v)
      PROVE  \/ w \in mining /\ startedAt'[w] = startedAt[w]
             \/ startedAt'[w] = now
    <2>1. /\ mining' = mining \cup {v}
          /\ startedAt' = [startedAt EXCEPT ![v] = now]
        BY <1>3 DEF Login
    <2> QED
        BY <1>1, <1>2, <2>1
<1>4. (~ \E v \in Workers : Login(v))
        => startedAt' = startedAt /\ mining' \subseteq mining
    BY DEF Next, Tick, Leave, BeginPass, OverwriteEventsData, DrawWinner,
           NothingToDraw, WritePendingPayments, RecordAward, Crash, Restart,
           vars, miners
<1>5. \/ w \in mining /\ startedAt'[w] = startedAt[w]
      \/ startedAt'[w] = now
    BY <1>2, <1>3, <1>4
<1>6. startedAt'[w] = now => now = DayStart(DayOf(now))
    BY <1>1, <1>2
<1> QED
    BY <1>2, <1>5, <1>6 DEF StandsFor, Stands

LEMMA InitDays == Init => UnbrokenInv /\ FullInv /\ YesterdayInv /\ HistoryInv
<1> SUFFICES ASSUME Init
             PROVE  UnbrokenInv /\ FullInv /\ YesterdayInv /\ HistoryInv
    OBVIOUS
<1>1. /\ data = [d \in Days |-> NoRecord] /\ pc = "idle" /\ passed = FALSE
      /\ whole = {} /\ served = {} /\ now = Hours /\ turned = FALSE
    BY DEF Init
<1>2. DayOf(now) \in Days
    BY <1>1, FirstTime, DayOfTime
<1>3. UnbrokenInv
    BY <1>1, <1>2 DEF UnbrokenInv, Unbroken, NoRecord
<1>4. FullInv
    <2>1. DayStart(DayOf(now)) <= now /\ DayOf(now) \in Int
        BY <1>1, DayBounds
    <2>2. DayStart(1) <= DayStart(DayOf(now)) /\ DayStart(1) = now
        BY <1>1, <1>2, DayStarts DEF DayStart, Days
    <2>3. ~(now > DayStart(DayOf(now)) + 1)
        BY <1>1, <2>1, <2>2, DayStarts
    <2> QED
        BY <1>1, <2>3 DEF FullInv, RecordFull
<1> QED
    BY <1>1, <1>3, <1>4 DEF YesterdayInv, HistoryInv

(* What a pass collects of an address that stands: it is fresh, so that    *)
(* there is no silence, and began no later than the day.                   *)
LEMMA CollectedFull ==
    ASSUME BaseInv, BeatsSeen, UnbrokenInv, BeginPass, NEW a \in Addresses,
           InEventWindow(DayOf(now))
    PROVE  /\ now = DayStart(DayOf(now)) \/ StandsFor(a)
                => collected'[a] = None \/ collected'[a].offset = 0
           /\ StandsFor(a) => Full(collected'[a], DayOf(now))
           /\ (\E w \in Workers : AddressOf[w] = a /\ lastBeat[w] # 0)
                => collected'[a] # None
<1> DEFINE D == DayOf(now)
           old == data[D][a]
           new == Merge(a, old)
<1>1. /\ D \in Days /\ D \in Int /\ now \in Nat /\ now >= Hours
      /\ startedAt \in [Workers -> Nat] /\ lastBeat \in [Workers -> Nat]
      /\ \A w \in Workers : lastBeat[w] <= now
      /\ data \in [Days -> Record] /\ None \notin Entry
    BY Today DEF BaseInv, TypeOK, NotAhead, Entry
<1>2. /\ DayStart(D) \in Int /\ DayStart(D) <= now
    BY <1>1, DayBounds
<1>3. old \in Entry \cup {None}
    BY <1>1 DEF Record
<1>4. /\ new \in Entry \cup {None}
      /\ WorkersOf(a) = {} => new = old
      /\ WorkersOf(a) # {} =>
           /\ new \in Entry
           /\ \A w \in WorkersOf(a) : /\ new.start <= startedAt[w]
                                      /\ lastBeat[w] <= new.beat
           /\ new.offset = IF old = None THEN 0 ELSE old.offset
    BY <1>1, <1>3, MergeIs
<1>5. collected'[a] = Silence(new, D)
    BY CollectedIs DEF BaseInv
<1>6. /\ Silence(new, D) = None <=> new = None
      /\ new # None =>
           /\ Silence(new, D).start = new.start /\ Silence(new, D).beat = new.beat
           /\ \/ Silence(new, D).offset = new.offset
              \/ new.beat < now /\ new.beat >= DayStart(D)
    BY <1>1, <1>4, SilenceIs
<1>7. now = DayStart(D) \/ StandsFor(a) => old = None \/ old.offset = 0
    BY DEF UnbrokenInv, Unbroken
<1>8. ASSUME NEW w \in Workers, AddressOf[w] = a, Stands(w)
      PROVE  /\ w \in WorkersOf(a) /\ lastBeat[w] = now
             /\ startedAt[w] <= DayStart(D)
    BY <1>1, <1>8 DEF Stands, WorkersOf, BeatsSeen
<1> HIDE DEF new, old, D
<1>9. now = DayStart(D) \/ StandsFor(a) => new = None \/ new.offset = 0
    BY <1>4, <1>7
<1>10. StandsFor(a) => /\ new # None /\ new.beat >= now
                       /\ new.start <= DayStart(D)
    <2>1. SUFFICES ASSUME StandsFor(a)
                   PROVE  new # None /\ new.beat >= now /\ new.start <= DayStart(D)
        OBVIOUS
    <2>2. PICK w \in Workers : AddressOf[w] = a /\ Stands(w)
        BY <2>1 DEF StandsFor
    <2>3. /\ w \in WorkersOf(a) /\ lastBeat[w] = now
          /\ startedAt[w] <= DayStart(D) /\ startedAt[w] \in Nat
        BY <1>1, <1>8, <2>2
    <2>4. new \in Entry /\ new.start <= startedAt[w] /\ new.beat >= now
        BY <1>4, <2>3
    <2>5. new.start \in Nat
        BY <2>4 DEF Entry
    <2> QED
        BY <1>1, <1>2, <2>3, <2>4, <2>5
<1>11. new # None => new.beat \in Nat
    BY <1>4 DEF Entry
<1>12. now = DayStart(D) \/ StandsFor(a)
         => Silence(new, D) = None \/ Silence(new, D).offset = 0
    BY <1>1, <1>2, <1>6, <1>9, <1>10, <1>11
<1>13. StandsFor(a) => Full(Silence(new, D), D)
    BY <1>1, <1>2, <1>6, <1>10, <1>11, <1>12 DEF Full
<1>14. (\E w \in Workers : AddressOf[w] = a /\ lastBeat[w] # 0)
          => Silence(new, D) # None
    <2>1. (\E w \in Workers : AddressOf[w] = a /\ lastBeat[w] # 0)
             => WorkersOf(a) # {}
        BY DEF WorkersOf
    <2> QED
        BY <1>1, <1>4, <1>6, <2>1
<1> QED
    BY <1>5, <1>12, <1>13, <1>14 DEF D

(* Within a day, the records change only when a pass is stored. *)
LEMMA RecordsStay ==
    ASSUME BaseInv, [Next]_vars
    PROVE  /\ ~Tick /\ ~OverwriteEventsData => data' = data
           /\ ~Tick /\ ~BeginPass /\ pc' = "store"
                => pc = "store" /\ UNCHANGED <<today, collected>>
           /\ Tick =>
                /\ \A d \in Days : d >= DayOf(now') - 1 => data'[d] = data[d]
                /\ UNCHANGED <<pc, today, collected>>
<1> USE DEF clock, miners, store, pass, history
<1>1. Tick => /\ \A d \in Days : d >= DayOf(now') - 1 => data'[d] = data[d]
              /\ UNCHANGED <<pc, today, collected>>
    <2>1. SUFFICES ASSUME Tick, NEW d \in Days, d >= DayOf(now') - 1
                   PROVE  data'[d] = data[d] /\ UNCHANGED <<pc, today, collected>>
        BY DEF Tick
    <2>2. /\ data' = [e \in Days |-> IF e < DayOf(now + 1) - 1 THEN NoRecord
                                                             ELSE data[e]]
          /\ now' = now + 1 /\ UNCHANGED <<pc, today, collected>>
        BY <2>1 DEF Tick
    <2>3. DayOf(now') \in Int /\ d \in Int
        BY Clock DEF Days
    <2>4. ~(d < DayOf(now + 1) - 1)
        BY <2>1, <2>2, <2>3
    <2> QED
        BY <2>2, <2>4
<1>2. ~Tick /\ ~OverwriteEventsData => data' = data
    BY DEF Next, Login, Leave, BeginPass, DrawWinner, NothingToDraw,
           WritePendingPayments, RecordAward, Crash, Restart, vars
<1>3. ASSUME NextTask PROVE pc' # "store"
    BY <1>3 DEF NextTask, BaseInv, TypeOK
<1>4. ASSUME ~Tick, ~BeginPass, pc' = "store"
      PROVE  pc = "store" /\ UNCHANGED <<today, collected>>
    <2>1. ~NothingToDraw /\ ~RecordAward
        BY <1>3, <1>4 DEF NothingToDraw, RecordAward
    <2>2. ~OverwriteEventsData /\ ~DrawWinner /\ ~WritePendingPayments /\ ~Crash
        BY <1>4 DEF OverwriteEventsData, DrawWinner, WritePendingPayments, Crash
    <2> QED
        BY <1>4, <2>1, <2>2 DEF Next, Login, Leave, Restart, vars
<1> QED
    BY <1>1, <1>2, <1>4

LEMMA StepUnbroken ==
    BaseInv /\ BeatsSeen /\ RecordsSeen /\ UnbrokenInv /\ [Next]_vars
        => UnbrokenInv'
<1> SUFFICES ASSUME BaseInv, BeatsSeen, RecordsSeen, UnbrokenInv, [Next]_vars
             PROVE  UnbrokenInv'
    OBVIOUS
<1>1. /\ now \in Nat /\ DayOf(now) \in Days /\ DayOf(now) \in Int
      /\ pc # "idle" => today \in {DayOf(now), DayOf(now) - 1}
      /\ data \in [Days -> Record]
      /\ DayOf(now') = DayOf(now)' /\ now' \in Nat
      /\ DayStart(DayOf(now)) \in Int /\ DayStart(DayOf(now)) <= now
    BY Today, Clock, DayBounds DEF BaseInv, TypeOK
<1>2. DayOf(now') \in Days
    BY Clock
<1>3. CASE Tick /\ DayOf(now') # DayOf(now)
    <2>1. /\ DayOf(now') = DayOf(now) + 1
          /\ data'[DayOf(now')] = data[DayOf(now')]
          /\ pc' = pc /\ today' = today
        BY <1>1, <1>2, <1>3, Clock, RecordsStay
    <2>2. \A a \in Addresses : data[DayOf(now')][a] = None
        BY <1>1, <1>2, <2>1 DEF RecordsSeen
    <2>3. pc' = "store" => today' # DayOf(now')
        BY <1>1, <2>1
    <2> QED
        BY <1>1, <2>1, <2>2, <2>3 DEF UnbrokenInv, Unbroken
<1>4. CASE DayOf(now') = DayOf(now)
    <2> DEFINE D == DayOf(now)
               Held(a) == now = DayStart(D) \/ StandsFor(a)
    <2>1. SUFFICES
            ASSUME NEW a \in Addresses, Held(a)
            PROVE  /\ data'[D][a] # None => data'[D][a].offset = 0
                   /\ pc' = "store" /\ today' = D /\ collected'[a] # None
                          => collected'[a].offset = 0
        <3>1. now' = DayStart(D) => now = DayStart(D)
            <4>1. ~Tick => now' = now
                BY Clock
            <4>2. Tick => now' = now + 1
                BY Clock
            <4> QED
                BY <1>1, <4>1, <4>2
        <3>2. \A a \in Addresses : StandsFor(a)' => Held(a)
            BY <1>4, StandsBefore
        <3>3. DayStart(DayOf(now))' = DayStart(D)
            BY <1>1, <1>4 DEF DayStart
        <3> QED
            BY <1>1, <1>4, <3>1, <3>2, <3>3 DEF UnbrokenInv, Unbroken
    <2>2. /\ data[D][a] # None => data[D][a].offset = 0
          /\ pc = "store" /\ today = D /\ collected[a] # None
                => collected[a].offset = 0
        BY <2>1 DEF UnbrokenInv, Unbroken
    <2>3. CASE Tick
        <3>1. data'[D] = data[D] /\ UNCHANGED <<pc, today, collected>>
            BY <1>1, <1>4, <2>3, RecordsStay
        <3> QED
            BY <2>2, <3>1
    <2>4. CASE BeginPass /\ ~Tick
        <3>1. data' = data
            BY <2>4 DEF BeginPass, store
        <3>2. pc' = "store" => InEventWindow(D)
            BY <2>4, CollectedIs DEF BaseInv
        <3>3. InEventWindow(D) => collected'[a] = None \/ collected'[a].offset = 0
            BY <2>1, <2>4, CollectedFull
        <3> QED
            BY <2>2, <3>1, <3>2, <3>3
    <2>5. CASE OverwriteEventsData
        <3>1. /\ pc = "store" /\ pc' = "draw"
              /\ data' = [data EXCEPT ![today] = collected]
            BY <2>5 DEF OverwriteEventsData
        <3>2. data'[D] = IF D = today THEN collected ELSE data[D]
            BY <1>1, <3>1
        <3> QED
            BY <2>2, <3>1, <3>2
    <2>6. CASE ~Tick /\ ~BeginPass /\ ~OverwriteEventsData
        <3>1. /\ data' = data
              /\ pc' = "store" => pc = "store" /\ UNCHANGED <<today, collected>>
            BY <2>6, RecordsStay
        <3> QED
            BY <2>2, <3>1
    <2> QED
        BY <2>3, <2>4, <2>5, <2>6
<1>5. ~Tick => DayOf(now') = DayOf(now)
    BY Clock
<1> QED
    BY <1>3, <1>4, <1>5

LEMMA StepHistory == BaseInv /\ HistoryInv /\ [Next]_vars => HistoryInv'
<1> SUFFICES ASSUME BaseInv, HistoryInv, [Next]_vars PROVE HistoryInv'
    OBVIOUS
<1> USE DEF clock, miners, store, pass, history
<1>1. /\ now \in Nat /\ now >= Hours /\ DayOf(now) \in Int
      /\ DayOf(now)' = DayOf(now') /\ DayOf(now') \in Int
      /\ DayOf(now) <= DayOf(now')
      /\ lastBeat \in [Workers -> Nat] /\ \A d \in Days : d \in Int
      /\ mining \subseteq Workers /\ served \subseteq Days
    <2>1. \A d \in Days : d \in Int
        BY DEF Days
    <2>2. /\ lastBeat \in [Workers -> Nat]
          /\ mining \subseteq Workers /\ served \subseteq Days
        BY DEF BaseInv, TypeOK
    <2> QED
        BY <2>1, <2>2, Today, Clock
<1>2. ASSUME NEW w \in Workers, lastBeat[w] # 0 PROVE lastBeat'[w] # 0
    <2>1. ASSUME NEW v \in Workers, Login(v) PROVE lastBeat'[w] # 0
        BY <1>1, <1>2, <2>1 DEF Login
    <2>2. CASE Tick
        BY <1>1, <1>2, <2>2 DEF Tick
    <2>3. ~Tick /\ (~ \E v \in Workers : Login(v)) => lastBeat' = lastBeat
        BY DEF Next, Leave, BeginPass, OverwriteEventsData, DrawWinner,
               NothingToDraw, WritePendingPayments, RecordAward, Crash, Restart,
               vars
    <2> QED
        BY <1>2, <2>1, <2>2, <2>3
<1>3. CASE Tick
    <2>1. /\ whole' \subseteq whole \cup
               (IF DayOf(now') = DayOf(now) THEN {}
                ELSE {<<DayOf(now), AddressOf[w]>> :
                        w \in {v \in mining : startedAt[v] <= DayStart(DayOf(now))}})
          /\ served' \subseteq served /\ now' = now + 1
          /\ lastBeat' = [w \in Workers |-> IF w \in mining THEN now + 1
                                                           ELSE lastBeat[w]]
        BY <1>3 DEF Tick, Recent
    <2>2. DayOf(now') # DayOf(now) => DayOf(now) < DayOf(now')
        BY <1>1
    <2>3. \A w \in mining : lastBeat'[w] # 0
        BY <1>1, <2>1
    <2>4. ASSUME NEW d \in Days, NEW a \in Addresses, <<d, a>> \in whole'
          PROVE  /\ d < DayOf(now')
                 /\ \E w \in Workers : AddressOf[w] = a /\ lastBeat'[w] # 0
        <3>1. CASE <<d, a>> \in whole
            BY <1>1, <1>2, <3>1 DEF HistoryInv
        <3>2. CASE <<d, a>> \notin whole
            <4>1. /\ d = DayOf(now) /\ d < DayOf(now')
                  /\ \E w \in mining : AddressOf[w] = a
                BY <2>1, <2>2, <2>4, <3>2
            <4> QED
                BY <1>1, <2>3, <4>1
        <3> QED
            BY <3>1, <3>2
    <2>5. \A d \in served' : d <= DayOf(now')
        BY <1>1, <2>1 DEF HistoryInv
    <2> QED
        BY <1>1, <2>4, <2>5 DEF HistoryInv
<1>4. CASE ~Tick
    <2>1. DayOf(now') = DayOf(now)
        BY <1>4, Clock
    <2>2. whole' = whole /\ served' \subseteq served \cup {DayOf(now)}
        BY <1>4 DEF Next, Login, Leave, BeginPass, OverwriteEventsData,
               DrawWinner, NothingToDraw, WritePendingPayments, RecordAward,
               Pacing, Crash, Restart, vars
    <2> QED
        BY <1>1, <1>2, <2>1, <2>2 DEF HistoryInv
<1> QED
    BY <1>3, <1>4


LEMMA StepFull ==
    BaseInv /\ BeatsSeen /\ UnbrokenInv /\ FullInv /\ [Next]_vars => FullInv'
<1> SUFFICES ASSUME BaseInv, BeatsSeen, UnbrokenInv, FullInv, [Next]_vars
             PROVE  FullInv'
    OBVIOUS
<1> DEFINE D == DayOf(now)
           S == DayStart(D)
<1> USE DEF clock, miners, store, pass, history
<1>1. /\ now \in Nat /\ D \in Days /\ D \in Int /\ D' = DayOf(now')
      /\ DayOf(now') \in Int
      /\ pc # "idle" => today = Began /\ today \in {D, D - 1}
      /\ data \in [Days -> Record] /\ turned \in BOOLEAN /\ passed \in BOOLEAN
      /\ S \in Int /\ S <= now /\ event' = event
      /\ ~(passed /\ turned)
    BY Today, Clock, DayBounds DEF BaseInv, TypeOK, BeatsSeen
<1>2. BeganAt > S /\ pc # "idle" => today = D
    <2>1. BeganAt \in Int /\ (BeganAt > S => DayOf(BeganAt) >= D)
        BY <1>1, DayFrom DEF BeganAt
    <2>2. Began = DayOf(BeganAt)
        BY DEF Began, BeganAt
    <2> QED
        BY <1>1, <2>1, <2>2
<1>3. CASE Tick /\ DayOf(now') # D
    <2>1. now' = DayStart(DayOf(now')) /\ passed' = FALSE /\ now' \in Nat
        <3>1. now' = now + 1
            BY <1>3, Clock
        <3> QED
            BY <1>1, <1>3, <3>1, NextHour DEF Tick
    <2>2. DayStart(DayOf(now))' = now' /\ ~(BeganAt' > now')
        <3>1. DayStart(DayOf(now))' = DayStart(DayOf(now'))
            BY <1>1 DEF DayStart
        <3>2. now' \in Nat /\ turned' \in BOOLEAN
            BY <1>3, <2>1 DEF Tick
        <3>3. ~(BeganAt' > now')
            <4>1. BeganAt' = now' - 1 \/ BeganAt' = now'
                BY DEF BeganAt
            <4>2. \A t \in Nat : ~(t - 1 > t) /\ ~(t > t)
                OBVIOUS
            <4> QED
                BY <3>2, <4>1, <4>2
        <3>4. DayStart(DayOf(now')) = now'
            BY <2>1
        <3> QED
            BY <3>1, <3>3, <3>4
    <2>3. \A a : RecordFull(a)'
        BY <2>1, <2>2 DEF RecordFull
    <2> QED
        BY <2>3 DEF FullInv
<1>4. CASE Tick /\ DayOf(now') = D
    <2>1. /\ now' = now + 1 /\ passed' = FALSE /\ UNCHANGED <<mining, startedAt>>
          /\ pc # "idle" => ~turned /\ turned'
          /\ ~up \/ passed \/ pc # "idle"
        BY <1>4, Clock DEF Tick
    <2>2. data'[D] = data[D] /\ UNCHANGED <<pc, today, collected>>
        BY <1>1, <1>4, RecordsStay
    <2>3. D' = D /\ S' = S
        BY <1>1, <1>4 DEF DayStart
    <2>4. SUFFICES ASSUME InEventWindow(D), NEW a \in Addresses, StandsFor(a)
                   PROVE  RecordFull(a)'
        BY <1>1, <2>1, <2>3 DEF FullInv, InEventWindow, StandsFor, Stands
    <2>5. RecordFull(a) /\ up
        BY <2>4 DEF FullInv, StandsFor, Stands, BeatsSeen
    <2>6. pc # "idle" => BeganAt = now /\ BeganAt' = now
        BY <1>1, <2>1 DEF BeganAt
    <2>7. \A e : Full(e, D)' <=> Full(e, D)
        BY <2>3 DEF Full, DayStart
    <2>8. /\ pc' = "store" /\ BeganAt' > S => Full(collected'[a], D)
          /\ pc' \in {"draw", "credit", "record"} /\ BeganAt' > S
                => Full(data'[D][a], D)
        BY <2>2, <2>5, <2>6 DEF RecordFull
    <2>9. now' > S + 1 => Full(data'[D][a], D) \/ (pc' = "store" /\ turned')
        <3>1. SUFFICES ASSUME now > S, ~(pc = "store")
                       PROVE  Full(data[D][a], D)
            BY <1>1, <2>1, <2>2
        <3>2. pc \in {"idle", "draw", "credit", "record"}
            BY <3>1 DEF BaseInv, TypeOK
        <3> QED
            BY <2>1, <2>5, <2>6, <3>1, <3>2 DEF RecordFull
    <2> QED
        BY <2>1, <2>3, <2>8, <2>9 DEF RecordFull, Full
<1>5. CASE ~Tick
    <2>1. now' = now /\ DayOf(now') = D /\ D' = D /\ S' = S
        BY <1>1, <1>5, Clock DEF DayStart
    <2>2. turned' \in BOOLEAN /\ BeganAt' \in Int /\ BeganAt' <= now
        <3>1. BaseInv'
            BY StepBase
        <3> QED
            BY <1>1, <2>1, <3>1 DEF BaseInv, TypeOK, BeganAt
    <2>3. SUFFICES ASSUME InEventWindow(D), NEW a \in Addresses, StandsFor(a)',
                          now > S
                   PROVE  RecordFull(a)'
        BY <1>1, <2>1, <2>2 DEF FullInv, InEventWindow, RecordFull
    <2>4. StandsFor(a)
        BY <1>1, <2>1, <2>3, StandsBefore
    <2>5. RecordFull(a)
        BY <2>3, <2>4 DEF FullInv
    <2> DEFINE Goal ==
            /\ pc' = "store" /\ BeganAt' > S => Full(collected'[a], D)
            /\ pc' \in {"draw", "credit", "record"} /\ BeganAt' > S
                  => Full(data'[D][a], D)
            /\ passed' => Full(data'[D][a], D)
            /\ now > S + 1
                  => Full(data'[D][a], D) \/ (pc' = "store" /\ turned')
    <2>6. SUFFICES Goal
        BY <2>1 DEF RecordFull, Full
    <2> HIDE DEF S
    <2>7. /\ pc = "store" /\ BeganAt > S => Full(collected[a], D)
          /\ pc \in {"draw", "credit", "record"} /\ BeganAt > S
                => Full(data[D][a], D)
          /\ passed => Full(data[D][a], D)
          /\ now > S + 1 => Full(data[D][a], D) \/ (pc = "store" /\ turned)
        BY <2>3, <2>5 DEF RecordFull, S
    <2>8. ASSUME UNCHANGED <<pc, turned, passed, collected, data>>
          PROVE  Goal
        <3>1. BeganAt' = BeganAt
            BY <2>1, <2>8 DEF BeganAt
        <3> QED
            BY <2>7, <2>8, <3>1
    <2>9. CASE BeginPass
        <3>1. /\ pc = "idle" /\ UNCHANGED <<data, passed>> /\ pc' = "store"
              /\ Full(collected'[a], D)
            BY <2>3, <2>4, <2>9, CollectedFull, CollectedIs
            DEF BeginPass, BaseInv
        <3> QED
            BY <2>7, <3>1
    <2>10. CASE OverwriteEventsData
        <3>1. /\ pc = "store" /\ pc' = "draw" /\ UNCHANGED <<turned, passed>>
              /\ data' = [data EXCEPT ![today] = collected]
            BY <2>10 DEF OverwriteEventsData
        <3>2. data'[D] = IF D = today THEN collected ELSE data[D]
            BY <1>1, <3>1
        <3>3. BeganAt' = BeganAt
            BY <2>1, <3>1 DEF BeganAt
        <3>4. BeganAt > S => Full(data'[D][a], D)
            BY <1>2, <2>7, <3>1, <3>2 DEF S
        <3>5. (passed => BeganAt > S) /\ (now > S + 1 => BeganAt > S)
            BY <1>1, <2>3 DEF BeganAt, S
        <3> QED
            BY <3>1, <3>3, <3>4, <3>5
    <2>11. CASE DrawWinner \/ WritePendingPayments
        <3>1. /\ pc \in {"draw", "credit"} /\ pc' \in {"credit", "record"}
              /\ UNCHANGED <<turned, passed, data>>
            BY <2>11 DEF DrawWinner, WritePendingPayments
        <3>2. BeganAt' = BeganAt
            BY <2>1, <3>1 DEF BeganAt
        <3> QED
            BY <2>7, <3>1, <3>2
    <2>12. CASE NothingToDraw \/ RecordAward
        <3>1. /\ pc \in {"draw", "record"} /\ data' = data
              /\ pc' \in {"idle", "draw"} /\ Pacing
            <4>1. NextTask /\ Pacing /\ data' = data /\ pc \in {"draw", "record"}
                BY <2>12 DEF NothingToDraw, RecordAward
            <4> QED
                BY <4>1 DEF NextTask, BaseInv, TypeOK
        <3>2. CASE pc' = "draw"
            <4>1. UNCHANGED <<turned, passed>> /\ BeganAt' = BeganAt
                BY <2>1, <3>1, <3>2 DEF Pacing, BeganAt
            <4> QED
                BY <2>7, <3>1, <3>2, <4>1
        <3>3. CASE pc' = "idle"
            <4>1. passed' => ~turned /\ BeganAt = now
                BY <3>1, <3>3 DEF Pacing, BeganAt
            <4>2. passed' => BeganAt > S
                BY <2>3, <4>1 DEF S
            <4> QED
                BY <2>7, <3>1, <3>3, <4>2
        <3> QED
            BY <3>1, <3>2, <3>3
    <2>13. ~Crash
        BY <2>3 DEF Crash, StandsFor, Stands
    <2>14. CASE Restart \/ UNCHANGED vars
                  \/ \E w \in Workers : Login(w) \/ Leave(w)
        <3>1. UNCHANGED <<pc, turned, passed, collected, data>>
            BY <2>14 DEF Restart, vars, Login, Leave
        <3> QED
            BY <2>8, <3>1
    <2> QED
        BY <1>5, <2>9, <2>10, <2>11, <2>12, <2>13, <2>14 DEF Next
<1> QED
    BY <1>3, <1>4, <1>5

LEMMA StepYesterday ==
    /\ BaseInv /\ BeatsSeen /\ FullInv /\ HistoryInv /\ YesterdayInv
    /\ [Next]_vars
    => YesterdayInv'
<1> SUFFICES ASSUME BaseInv, BeatsSeen, FullInv, HistoryInv, YesterdayInv,
                    [Next]_vars
             PROVE  YesterdayInv'
    OBVIOUS
<1> DEFINE D == DayOf(now)
           S == DayStart(D)
           d == DayOf(now') - 1
<1> USE DEF clock, miners, store, pass, history
<1>1. /\ now \in Nat /\ D \in Days /\ D \in Int /\ D' = DayOf(now')
      /\ DayOf(now') \in {D, D + 1} /\ d \in Int
      /\ pc # "idle" => today \in {D, D - 1}
      /\ data \in [Days -> Record]
      /\ whole \subseteq Days \X Addresses
      /\ S \in Int /\ event' = event /\ mining \subseteq Workers
    BY Today, Clock, DayBounds DEF BaseInv, TypeOK
<1>2. SUFFICES ASSUME InEventWindow(d), NEW a \in Addresses, <<d, a>> \in whole'
               PROVE  /\ Full(data'[d][a], d)
                      /\ pc' = "store" /\ today' = d => Full(collected'[a], d)
    BY <1>1 DEF YesterdayInv, InEventWindow, Full, DayStart
<1>3. CASE Tick /\ DayOf(now') # D
    <2>1. /\ d = D /\ d \in Days /\ now = S + Hours - 1 /\ now > S + 1
        <3>1. now' = now + 1
            BY <1>3, Clock
        <3> QED
            BY <1>1, <1>3, <3>1, NextHour
    <2>2. /\ data'[d] = data[d] /\ UNCHANGED <<pc, today, collected>>
          /\ pc # "idle" => ~turned
        BY <1>1, <1>3, <2>1, RecordsStay, Clock
    <2>3. <<d, a>> \notin whole
        BY <1>1, <2>1 DEF HistoryInv
    <2>4. StandsFor(a)
        <3>1. whole' = Recent(whole, DayOf(now + 1)) \cup
                 (IF DayOf(now + 1) = D THEN {}
                  ELSE {<<D, AddressOf[w]>> :
                          w \in {v \in mining : startedAt[v] <= S}})
            BY <1>3 DEF Tick
        <3>2. \E w \in mining : startedAt[w] <= S /\ AddressOf[w] = a
            BY <1>2, <2>3, <3>1 DEF Recent
        <3> QED
            BY <1>1, <3>2 DEF StandsFor, Stands
    <2>5. RecordFull(a)
        BY <1>2, <2>1, <2>4 DEF FullInv
    <2>6. Full(data[d][a], d)
        BY <2>1, <2>2, <2>5 DEF RecordFull
    <2>7. pc = "store" => Full(collected[a], d)
        BY <1>1, <2>1, <2>2, <2>5 DEF RecordFull, BeganAt
    <2> QED
        BY <2>2, <2>6, <2>7
<1>4. CASE DayOf(now') = D
    <2>1. d = D - 1
        BY <1>4
    <2>2. <<d, a>> \in whole
        <3>1. CASE Tick
            <4>1. now' = now + 1
                BY <3>1, Clock
            <4>2. whole' = Recent(whole, DayOf(now + 1)) \cup
                     (IF DayOf(now + 1) = D THEN {}
                      ELSE {<<D, AddressOf[w]>> :
                              w \in {v \in mining : startedAt[v] <= S}})
                BY <3>1 DEF Tick
            <4> QED
                BY <1>2, <1>4, <4>1, <4>2 DEF Recent
        <3>2. CASE ~Tick
            <4>1. whole' = whole
                BY <3>2 DEF Next, Login, Leave, BeginPass, OverwriteEventsData,
                       DrawWinner, NothingToDraw, WritePendingPayments,
                       RecordAward, Crash, Restart, vars
            <4> QED
                BY <1>2, <4>1
        <3> QED
            BY <3>1, <3>2
    <2>3. /\ d \in Days /\ Full(data[d][a], d)
          /\ pc = "store" /\ today = d => Full(collected[a], d)
        BY <1>1, <1>2, <2>1, <2>2 DEF YesterdayInv
    <2>4. CASE Tick
        <3>1. data'[d] = data[d] /\ UNCHANGED <<pc, today, collected>>
            BY <1>1, <2>3, <2>4, RecordsStay
        <3> QED
            BY <2>3, <3>1
    <2>5. CASE BeginPass /\ ~Tick
        <3>1. data' = data /\ today' = D
            BY <2>5, CollectedIs DEF BeginPass, BaseInv
        <3> QED
            BY <1>1, <2>1, <2>3, <3>1
    <2>6. CASE OverwriteEventsData
        <3>1. /\ pc = "store" /\ pc' = "draw"
              /\ data' = [data EXCEPT ![today] = collected]
            BY <2>6 DEF OverwriteEventsData
        <3>2. data'[d] = IF d = today THEN collected ELSE data[d]
            BY <1>1, <2>3, <3>1
        <3> QED
            BY <2>3, <3>1, <3>2
    <2>7. CASE ~Tick /\ ~BeginPass /\ ~OverwriteEventsData
        <3>1. /\ data' = data
              /\ pc' = "store" => pc = "store" /\ UNCHANGED <<today, collected>>
            BY <2>7, RecordsStay
        <3> QED
            BY <2>3, <3>1
    <2> QED
        BY <2>4, <2>5, <2>6, <2>7
<1>5. ~Tick => DayOf(now') = D
    BY Clock
<1> QED
    BY <1>3, <1>4, <1>5

(* A full record of a day wins it. *)
LEMMA FullWins ==
    ASSUME BaseInv, NEW d \in Days, NEW a \in Addresses, Full(data[d][a], d)
    PROVE  a \in DayWinners(d)
<1> DEFINE e == data[d][a]
<1>1. e # None /\ e.offset = 0 /\ e.start <= DayStart(d) /\ e.beat >= DayStart(d)
    BY DEF Full
<1>2. e \in Entry
    BY <1>1 DEF BaseInv, TypeOK, Record
<1>3. e.start \in Nat /\ e.beat \in Nat
    BY <1>2 DEF Entry
<1>4. DayStart(d) \in Int /\ DayStart(d) >= Hours
    <2>1. DayStart(1) = Hours
        BY DEF DayStart
    <2>2. d \in Int /\ 1 <= d
        BY DEF Days
    <2> QED
        BY <2>1, <2>2, DayStarts
<1> HIDE DEF e
<1>5. e.beat # 0
    BY <1>1, <1>3, <1>4
<1>6. ~(e.start > DayStart(d)) /\ ~(e.beat < DayStart(d))
    BY <1>1, <1>3, <1>4
<1>7. DayOffset(e, d) = 0
    BY <1>1, <1>6 DEF DayOffset
<1>8. Hours - DayOffset(e, d) >= Criteria
    BY <1>7
<1> QED
    BY <1>1, <1>5, <1>8 DEF DayWinners, e

(* The code compares months and days of a month, which covers the days of  *)
(* an event unless it lasts over three months or more.                     *)
TwoMonths == Month(event.end) <= Month(event.start) + 1

LEMMA WindowOfTwoMonths ==
    ASSUME event \in Calendars, TwoMonths,
           NEW d \in Days, d \in event.start..event.end
    PROVE  InEventWindow(d)
<1>1. event.start \in Days /\ event.end \in Days
    OBVIOUS
<1>2. ASSUME NEW e \in Days
      PROVE  /\ Month(e) \in Int /\ DayOfMonth(e) \in 1..MonthDays
             /\ e = MonthDays * Month(e) + DayOfMonth(e)
             /\ MonthDays * Month(e) \in Int
  <2> DEFINE x == e - 1
             m == x \div MonthDays
             r == x % MonthDays
  <2>1. x \in Int /\ e = x + 1
    BY DEF Days
  <2> HIDE DEF x
  <2>2. m \in Int /\ r \in 0..(MonthDays - 1) /\ x = MonthDays * m + r
    BY <2>1, Division
  <2>3. Month(e) = m /\ DayOfMonth(e) = r + 1
    BY DEF Month, DayOfMonth, x
  <2> HIDE DEF m, r
  <2>4. MonthDays * m \in Int
    BY <2>2
  <2>5. QED
    BY <2>1, <2>2, <2>3, <2>4
<1>3. ASSUME NEW e \in Days, NEW f \in Days, e <= f
      PROVE  /\ Month(e) <= Month(f)
             /\ Month(e) = Month(f) => DayOfMonth(e) <= DayOfMonth(f)
  <2> DEFINE m == Month(e)
             k == Month(f)
  <2>1. /\ m \in Int /\ DayOfMonth(e) \in 1..MonthDays
        /\ e = MonthDays * m + DayOfMonth(e) /\ MonthDays * m \in Int
        /\ k \in Int /\ DayOfMonth(f) \in 1..MonthDays
        /\ f = MonthDays * k + DayOfMonth(f) /\ MonthDays * k \in Int
    BY <1>2
  <2> HIDE DEF m, k
  <2>2. m >= k + 1 => MonthDays * m >= MonthDays * (k + 1)
    BY <2>1
  <2>3. MonthDays * (k + 1) = MonthDays * k + MonthDays
    BY <2>1
  <2>4. ~(m >= k + 1)
    BY <1>3, <2>1, <2>2, <2>3
  <2>5. m <= k /\ (m = k => DayOfMonth(e) <= DayOfMonth(f))
    BY <1>3, <2>1, <2>4
  <2> QED
    BY <2>5 DEF m, k
<1>4. event.start <= d /\ d <= event.end
    BY <1>1 DEF Days
<1>5. /\ Month(event.start) <= Month(d)
      /\ Month(event.start) = Month(d)
            => DayOfMonth(event.start) <= DayOfMonth(d)
      /\ Month(d) <= Month(event.end)
      /\ Month(d) = Month(event.end) => DayOfMonth(d) <= DayOfMonth(event.end)
    BY <1>1, <1>3, <1>4
<1>6. /\ Month(d) \in Int /\ Month(event.start) \in Int
      /\ Month(event.end) \in Int
      /\ Month(event.end) <= Month(event.start) + 1
    BY <1>1, <1>2 DEF TwoMonths
<1>7. Month(d) = Month(event.start) \/ Month(d) = Month(event.end)
    BY <1>5, <1>6
<1>8. \A m, k \in Int : m >= k <=> k <= m
    OBVIOUS
<1>9. DayOfMonth(d) \in Int /\ DayOfMonth(event.start) \in Int
    <2>1. \A e \in Days : DayOfMonth(e) \in 1..MonthDays
        BY <1>2
    <2>2. \A x \in 1..MonthDays : x \in Int
        OBVIOUS
    <2> QED
        BY <1>1, <2>1, <2>2
<1>10. CASE Month(event.start) = Month(event.end)
    BY <1>5, <1>6, <1>7, <1>10 DEF InEventWindow
<1>11. CASE Month(event.start) # Month(event.end)
    <2>1. \/ DayOfMonth(d) >= DayOfMonth(event.start)
          \/ DayOfMonth(d) <= DayOfMonth(event.end)
        BY <1>5, <1>7, <1>8, <1>9
    <2> QED
        BY <1>5, <1>11, <2>1 DEF InEventWindow
<1> QED
    BY <1>10, <1>11

(* The draws of a pass on the day it began: what is to be drawn after a    *)
(* task is drawn, and what is in hand is the day before.                   *)
Drawn(d) ==
    d \in event.start..event.end /\ (\E a \in Addresses : <<d, a>> \in whole)
        => DayKey(d) \in payment

DrawsOf(d) ==
    /\ task # "yesterday" /\ d # event.end => Drawn(d)
    /\ task = "bonus" => Drawn(d)
    /\ award # None /\ task # "bonus" => award[1] = DayKey(d)
    /\ InEventWindow(today) =>
         \A a \in Addresses : <<d, a>> \in whole => collected[a] # None

PassDraws(d) == pc # "idle" /\ today = d + 1 /\ today = DayOf(now) => DrawsOf(d)

DrawsInv ==
    TwoMonths => \A d \in Int : /\ PassDraws(d)
                                /\ d + 1 \in served => Drawn(d)

LEMMA InitDraws == Init => DrawsInv
<1>1. Init => pc = "idle" /\ served = {}
    BY DEF Init
<1> QED
    BY <1>1 DEF DrawsInv, PassDraws

(* What has been mined of a day that is over stays, payments are kept, and *)
(* days are served one pass at a time.                                     *)
LEMMA HistoryStays ==
    ASSUME BaseInv, [Next]_vars
    PROVE  /\ payment \subseteq payment'
           /\ \A d \in Int, a \in Addresses : d < DayOf(now) /\ <<d, a>> \in whole'
                => <<d, a>> \in whole
           /\ ~NothingToDraw /\ ~RecordAward => served' \subseteq served
<1>1. payment \subseteq payment'
    BY DEF Next, Tick, Login, Leave, BeginPass, OverwriteEventsData, DrawWinner,
           NothingToDraw, WritePendingPayments, RecordAward, Crash, Restart,
           vars, store, WriteEventsPayment
<1>2. CASE Tick
    <2>1. /\ whole' = Recent(whole, DayOf(now + 1)) \cup
                 (IF DayOf(now + 1) = DayOf(now) THEN {}
                  ELSE {<<DayOf(now), AddressOf[w]>> :
                          w \in {v \in mining :
                                   startedAt[v] <= DayStart(DayOf(now))}})
          /\ served' \subseteq served
        BY <1>2 DEF Tick
    <2>2. DayOf(now) \in Int
        BY Today
    <2> QED
        BY <1>1, <2>1, <2>2 DEF Recent
<1>3. ~Tick => whole' = whole
    BY DEF Next, Login, Leave, BeginPass, OverwriteEventsData, DrawWinner,
           NothingToDraw, WritePendingPayments, RecordAward, Crash, Restart,
           vars, history
<1>4. ~Tick /\ ~NothingToDraw /\ ~RecordAward => served' = served
    BY DEF Next, Login, Leave, BeginPass, OverwriteEventsData, DrawWinner,
           WritePendingPayments, Crash, Restart, vars, history
<1> QED
    BY <1>1, <1>2, <1>3, <1>4

(* When nothing is to be drawn for the day before, it has been drawn.      *)
LEMMA NothingLeft ==
    ASSUME BaseInv, YesterdayInv, TwoMonths, pc = "draw", ~Due,
           NEW d \in Int, today = d + 1, today = DayOf(now), DrawsOf(d)
    PROVE  /\ task = "yesterday" /\ d # event.end => Drawn(d)
           /\ task = "end" => Drawn(d)
<1>1. /\ now \in Nat /\ today \in Days /\ DayOf(now) - 1 = d
      /\ event \in Calendars /\ event.start \in Days /\ event.end \in Days
      /\ whole \subseteq Days \X Addresses
      /\ Yesterday = d
    BY Today DEF BaseInv, TypeOK, Yesterday
<1>2. ASSUME d \in event.start..event.end, NEW a \in Addresses,
             <<d, a>> \in whole
      PROVE  d \in Days /\ a \in DayWinners(Yesterday)
    <2>1. d \in Days
        BY <1>1, <1>2
    <2>2. InEventWindow(d)
        BY <1>1, <1>2, <2>1, WindowOfTwoMonths
    <2>3. Full(data[d][a], d)
        BY <1>1, <1>2, <2>2 DEF YesterdayInv
    <2> QED
        BY <1>1, <2>1, <2>3, FullWins
<1>3. ASSUME d \in event.start..event.end, NEW a \in Addresses,
             <<d, a>> \in whole, Wanted, task # "bonus"
      PROVE  DayKey(d) \in payment
    <2>1. Key = DayKey(d) /\ Winners # {}
        BY <1>1, <1>2, <1>3 DEF Key, Winners
    <2> QED
        BY <1>3, <2>1 DEF Due
<1>4. CASE task = "yesterday" /\ d # event.end
    <2>1. ASSUME d \in event.start..event.end, NEW a \in Addresses,
                 <<d, a>> \in whole
          PROVE  Wanted
        <3>1. today \in event.start..event.end /\ today # event.start
            BY <1>1, <1>4, <2>1 DEF Days
        <3>2. InEventWindow(today)
            BY <1>1, <3>1, WindowOfTwoMonths
        <3>3. collected[a] # None
            BY <2>1, <3>2 DEF DrawsOf
        <3>4. collected # NoRecord
            BY <2>1, <3>3 DEF NoRecord
        <3> QED
            BY <1>4, <3>1, <3>4 DEF Wanted, FirstDraw
    <2> QED
        BY <1>3, <1>4, <2>1 DEF Drawn
<1>5. CASE task = "end"
    <2>1. d # event.end => Drawn(d)
        BY <1>5 DEF DrawsOf
    <2>2. d = event.end => Wanted
        BY <1>1, <1>5 DEF Wanted
    <2> QED
        BY <1>3, <1>5, <2>1, <2>2 DEF Drawn
<1> QED
    BY <1>4, <1>5

LEMMA StepDraws ==
    /\ BaseInv /\ YesterdayInv /\ HistoryInv /\ UnbrokenInv /\ BeatsSeen
    /\ DrawsInv /\ [Next]_vars
    => DrawsInv'
<1> SUFFICES ASSUME BaseInv, YesterdayInv, HistoryInv, UnbrokenInv, BeatsSeen,
                    DrawsInv, [Next]_vars, TwoMonths', NEW d \in Int
             PROVE  PassDraws(d)' /\ (d + 1 \in served' => Drawn(d)')
    BY DEF DrawsInv
<1>0. TwoMonths
    <2>1. event' = event
        BY Clock
    <2> QED
        BY <2>1 DEF TwoMonths
<1> USE <1>0
<1> DEFINE D == DayOf(now)
<1> USE DEF clock, miners, store, pass, history
<1>1. /\ PassDraws(d) /\ (d + 1 \in served => Drawn(d))
      /\ D \in Days /\ D \in Int /\ event' = event /\ event \in Calendars
      /\ DayOf(now') \in Int /\ DayOf(now)' = DayOf(now') /\ D <= DayOf(now')
      /\ \A e \in served : e <= D
      /\ pc \in {"credit", "record"} <=> award # None
      /\ task \in {"yesterday", "end", "bonus"}
      /\ whole \subseteq Days \X Addresses
    BY Today, Clock DEF DrawsInv, BaseInv, TypeOK, HistoryInv
<1>2. /\ payment \subseteq payment'
      /\ \A a \in Addresses : d < D /\ <<d, a>> \in whole' => <<d, a>> \in whole
      /\ ~NothingToDraw /\ ~RecordAward => served' \subseteq served
    BY HistoryStays
<1>3. d < D /\ Drawn(d) => Drawn(d)'
    BY <1>1, <1>2 DEF Drawn
<1>4. d + 1 \in served => Drawn(d)'
    BY <1>1, <1>3
<1>5. ASSUME today' = d + 1, today' = DayOf(now')
      PROVE  Tick /\ pc # "idle" => DayOf(now') = D
    BY <1>1, <1>5, Clock DEF Tick
<1>6. ASSUME UNCHANGED <<task, today, award, collected>>, pc # "idle",
             today = d + 1, today = D
      PROVE  DrawsOf(d)'
    <2>1. DrawsOf(d) /\ d < D
        BY <1>1, <1>6 DEF PassDraws
    <2>2. InEventWindow(today)' => InEventWindow(today)
        BY <1>1, <1>6 DEF InEventWindow
    <2> QED
        BY <1>1, <1>2, <1>3, <1>6, <2>1, <2>2 DEF DrawsOf
<1>7. ASSUME served' \subseteq served PROVE d + 1 \in served' => Drawn(d)'
    BY <1>4, <1>7
<1>8. CASE Tick
    <2>1. UNCHANGED <<pc, task, today, award, collected>>
            /\ served' \subseteq served
        BY <1>8 DEF Tick
    <2>2. PassDraws(d)'
        BY <1>1, <1>5, <1>6, <1>8, <2>1 DEF PassDraws
    <2> QED
        BY <1>7, <2>1, <2>2
<1>9. ASSUME ~Tick, served' \subseteq served,
             pc' # "idle" => pc # "idle" /\ UNCHANGED <<task, today, award,
                                                        collected>>
      PROVE  PassDraws(d)' /\ (d + 1 \in served' => Drawn(d)')
    <2>1. DayOf(now') = D
        BY <1>9, Clock
    <2> QED
        BY <1>1, <1>6, <1>7, <1>9, <2>1 DEF PassDraws
<1>10. CASE BeginPass /\ ~Tick
    <2>1. /\ today' = D /\ award' = None /\ whole' = whole /\ served' = served
          /\ IF InEventWindow(D) THEN task' = "yesterday" ELSE task' = "end"
          /\ DayOf(now') = D
        BY <1>1, <1>10, CollectedIs, Clock DEF BeginPass, BaseInv
    <2>2. SUFFICES ASSUME D = d + 1 PROVE DrawsOf(d)'
        BY <1>1, <1>7, <2>1 DEF PassDraws
    <2>3. ~InEventWindow(D) /\ d # event.end => Drawn(d)'
        <3>1. SUFFICES ASSUME d # event.end, d \in event.start..event.end
                       PROVE  InEventWindow(D)
            BY <1>1 DEF Drawn
        <3>2. D \in event.start..event.end
            BY <1>1, <2>2, <3>1 DEF Days
        <3> QED
            BY <1>1, <3>2, WindowOfTwoMonths
    <2>4. InEventWindow(D) =>
            \A a \in Addresses : <<d, a>> \in whole => collected'[a] # None
        <3>1. SUFFICES ASSUME InEventWindow(D), NEW a \in Addresses,
                              <<d, a>> \in whole
                       PROVE  collected'[a] # None
            OBVIOUS
        <3>2. \E w \in Workers : AddressOf[w] = a /\ lastBeat[w] # 0
            BY <1>1, <3>1 DEF HistoryInv
        <3> QED
            BY <1>10, <3>1, <3>2, CollectedFull
    <2>5. InEventWindow(today)' => InEventWindow(D)
        BY <1>1, <2>1 DEF InEventWindow
    <2> QED
        BY <1>1, <2>1, <2>3, <2>4, <2>5 DEF DrawsOf
<1>11. CASE DrawWinner /\ ~Tick
    <2>1. PICK a \in Winners : award' = <<Key, a>>
        BY <1>11 DEF DrawWinner
    <2>2. /\ pc = "draw" /\ UNCHANGED <<task, today, collected, now, whole>>
          /\ served' = served /\ DayOf(now') = D
        BY <1>11, Clock DEF DrawWinner
    <2>3. SUFFICES ASSUME today = d + 1, today = D PROVE DrawsOf(d)'
        BY <1>1, <1>7, <2>2 DEF PassDraws
    <2>4. DrawsOf(d) /\ d < D
        BY <1>1, <2>2, <2>3 DEF PassDraws
    <2>5. task # "bonus" => award'[1] = DayKey(d)
        BY <1>1, <2>1, <2>3 DEF Key, Yesterday
    <2>6. InEventWindow(today)' => InEventWindow(today)
        BY <1>1, <2>2 DEF InEventWindow
    <2> QED
        BY <1>1, <1>2, <1>3, <2>2, <2>4, <2>5, <2>6 DEF DrawsOf
<1>12. CASE NothingToDraw /\ ~Tick
    <2>1. /\ pc = "draw" /\ ~Due /\ NextTask /\ Pacing
          /\ UNCHANGED <<today, collected, award, whole, payment>>
          /\ award = None /\ DayOf(now') = D
        BY <1>1, <1>12, Clock DEF NothingToDraw
    <2>2. ASSUME today = d + 1, today = D
          PROVE  /\ DrawsOf(d) /\ d < D
                 /\ task = "yesterday" /\ d # event.end => Drawn(d)'
                 /\ task \in {"end", "bonus"} => Drawn(d)'
        <3>1. DrawsOf(d) /\ d < D
            BY <1>1, <2>1, <2>2 DEF PassDraws
        <3>2. /\ task = "yesterday" /\ d # event.end => Drawn(d)
              /\ task = "end" => Drawn(d)
            BY <2>1, <2>2, <3>1, NothingLeft
        <3>3. task = "bonus" => Drawn(d)
            BY <3>1 DEF DrawsOf
        <3> QED
            BY <1>3, <3>1, <3>2, <3>3
    <2>3. PassDraws(d)'
        <3>1. SUFFICES ASSUME pc' # "idle", today = d + 1, today = D
                       PROVE  DrawsOf(d)'
            BY <1>1, <2>1 DEF PassDraws
        <3>2. \/ task = "yesterday" /\ task' = "end"
              \/ task = "end" /\ task' = "bonus"
            BY <1>1, <2>1, <3>1 DEF NextTask
        <3>3. InEventWindow(today)' => InEventWindow(today)
            BY <1>1, <2>1 DEF InEventWindow
        <3> QED
            BY <1>1, <2>1, <2>2, <3>1, <3>2, <3>3 DEF DrawsOf
    <2>4. d + 1 \in served' => Drawn(d)'
        <3>1. \/ served' = served
              \/ pc' = "idle" /\ today = D /\ served' = served \cup {today}
            BY <2>1 DEF Pacing
        <3>2. pc' = "idle" => task = "bonus"
            BY <1>1, <2>1 DEF NextTask
        <3> QED
            BY <1>4, <2>2, <3>1, <3>2
    <2> QED
        BY <2>3, <2>4
<1>13. CASE RecordAward /\ ~Tick
    <2>1. /\ pc = "record" /\ NextTask /\ Pacing
          /\ UNCHANGED <<today, collected, whole>>
          /\ payment' = payment \cup {award[1]} /\ award' = None
          /\ award # None /\ DayOf(now') = D
        BY <1>1, <1>13, Clock DEF RecordAward, WriteEventsPayment
    <2>2. ASSUME today = d + 1, today = D
          PROVE  DrawsOf(d) /\ Drawn(d)'
        <3>1. DrawsOf(d) /\ d < D
            BY <1>1, <2>1, <2>2 DEF PassDraws
        <3>2. task # "bonus" => DayKey(d) \in payment'
            BY <2>1, <3>1 DEF DrawsOf
        <3>3. task = "bonus" => Drawn(d)'
            BY <1>3, <3>1 DEF DrawsOf
        <3> QED
            BY <3>1, <3>2, <3>3 DEF Drawn, DayKey
    <2>3. PassDraws(d)'
        <3>1. SUFFICES ASSUME today = d + 1, today = D PROVE DrawsOf(d)'
            BY <1>1, <2>1 DEF PassDraws
        <3>2. InEventWindow(today)' => InEventWindow(today)
            BY <1>1, <2>1 DEF InEventWindow
        <3> QED
            BY <1>1, <2>1, <2>2, <3>1, <3>2 DEF DrawsOf
    <2>4. d + 1 \in served' => Drawn(d)'
        <3>1. \/ served' = served
              \/ today = D /\ served' = served \cup {today}
            BY <2>1 DEF Pacing
        <3> QED
            BY <1>4, <2>2, <3>1
    <2> QED
        BY <2>3, <2>4
<1>14. CASE ~Tick /\ ~BeginPass /\ ~DrawWinner /\ ~NothingToDraw /\ ~RecordAward
    <2>1. pc' # "idle" => pc # "idle" /\ UNCHANGED <<task, today, award,
                                                     collected>>
        BY <1>14 DEF Next, Login, Leave, OverwriteEventsData,
               WritePendingPayments, Crash, Restart, vars
    <2> QED
        BY <1>2, <1>9, <1>14, <2>1
<1> QED
    BY <1>8, <1>10, <1>11, <1>12, <1>13, <1>14

(***************************************************************************)
(* In an event over at most two months, every day that somebody mined from *)
(* before it to its end has its award when the day after is over, if a     *)
(* pass ran from end to end on the day after (events.go:253-349, 371-460). *)
(***************************************************************************)
THEOREM EveryDayIsDrawn == Spec => [](TwoMonths => EveryDayDrawn)
<1> DEFINE Inv == /\ BaseInv /\ BeatsSeen /\ RecordsSeen
                  /\ UnbrokenInv /\ FullInv /\ YesterdayInv /\ HistoryInv
                  /\ DrawsInv
<1>1. Init => Inv
    BY InitBase, InitSeen, InitDays, InitDraws
<1>2. Inv /\ [Next]_vars => Inv'
    BY StepBase, StepBeats, StepRecords, StepUnbroken, StepFull, StepYesterday,
       StepHistory, StepDraws
<1>3. Inv => (TwoMonths => EveryDayDrawn)
    <2>1. SUFFICES ASSUME Inv, TwoMonths PROVE EveryDayDrawn
        OBVIOUS
    <2>2. DayOf(now) - 2 \in Int
        BY <2>1, Today
    <2> QED
        BY <2>1, <2>2 DEF DrawsInv, Drawn, EveryDayDrawn
<1> HIDE DEF Inv
<1> QED
    BY <1>1, <1>2, <1>3, PTL DEF Spec

=============================================================================
