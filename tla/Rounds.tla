------------------------------- MODULE Rounds -------------------------------
(***************************************************************************)
(* The rounds of the pool: how the shares that miners keep by the second   *)
(* (stratum/miner.go) are gathered in the open round and, when a pool      *)
(* block is found, become the shares the block is paid by (storage.go,     *)
(* UpdatePoolRoundStats).                                                  *)
(*                                                                         *)
(* A share is stamped with the second in which it came and added to its    *)
(* miner's map some steps later, without any flag.  An update reads the    *)
(* stored round, adds what the maps hold for the seconds of its window and *)
(* stores the round back.  It runs on a timer (also before rewards are     *)
(* calculated, and at shutdown) and in the session of whoever found a      *)
(* block, one at a time under Writing.                                     *)
(*                                                                         *)
(* Abstractions.  Every share has difficulty 1.  The code's RoundShares    *)
(* has a number per miner; here it is kept apart by second, so that one    *)
(* can see which shares it stands for.  Solo miners take no part.  Seconds *)
(* expire from the maps long after the round has passed them, so they stay *)
(* here.  That Writing is not really exclusive is in GravStore.            *)
(***************************************************************************)
EXTENDS Integers

CONSTANTS
    Miners,      \* miners, each with one session, none solo
    Timer,       \* the goroutine of minerStatsTimer
    None,
    MaxTime,     \* bound: seconds
    MaxHeight,   \* bound: heights the pool finds blocks at
    MaxEvents    \* bound: shares that find no block, further blocks at or below
                 \*   the highest height, crashes, blocks that turn out orphans

ASSUME ProcsAssumption ==
    Timer \notin Miners /\ None \notin Miners \cup {Timer}
ASSUME BoundsAssumption ==
    MaxTime \in Nat \ {0} /\ MaxHeight \in Nat /\ MaxEvents \in Nat

VARIABLES
    clock,      \* the second it is
    height,     \* the highest height of a block the node accepted
    shares,     \* m.Shares of every miner, in memory
    stored,     \* store: m.Shares in "miners:stats"
    found,      \* store: "block:blocksFoundByHeight"
    blocks,     \* store: timestamp of the pool block at a height, or 0
    behind,     \* store: those of other blocks of that height, found before
    round,      \* store: "pool:currentround"
    rounds,     \* store: "miners:round" by height
    written,    \* store: the heights it has one for
    pc,         \* sessions: "idle", "share", "found" or "wait"
    stamp,      \* sessions: the second of their share or block
    mine,       \* sessions: the height of their block
    writer,     \* who holds Writing for an update, or None
    stage,      \* where the update is
    cur,        \* its currentPoolRoundStats
    reference,  \* the height of its referenceBlock, or 0
    nextRound,  \* its nextRound
    todo,       \* the miners whose shares it has not looked at
    earned,     \* history: shares added to the maps
    late,       \* history: those added to, or lost from, passed seconds
    settled,    \* history: shares of the rounds closed so far
    reopened,   \* history: seconds that a closed round left open again
    skipped,    \* history: seconds before the first round was opened
    first,      \* history: height of the block that round began with, or 0
    budget      \* history: events that may still happen

session == <<pc, stamp, mine>>
store   == <<stored, found, blocks, behind, round, rounds, written>>
update  == <<writer, stage, cur, reference, nextRound, todo>>
history == <<earned, late, settled, reopened, skipped, first, budget>>
vars    == <<clock, height, shares, session, store, update, history>>

Times   == 1..MaxTime
Heights == 1..MaxHeight
Tallies == [Miners -> [Times -> Nat]]
Nothing == [m \in Miners |-> [t \in Times |-> 0]]
PoolRounds == [start : Int, ts : Int, last : Nat, tally : Tallies]

\* GetPoolRoundStats has nothing to return.
NoRound == [start |-> -1, ts |-> -1, last |-> 0, tally |-> Nothing]

TypeOK ==
    /\ clock \in Times /\ height \in 0..MaxHeight
    /\ shares \in Tallies /\ stored \in Tallies
    /\ found \subseteq Heights /\ blocks \in [Heights -> 0..MaxTime]
    /\ behind \in [Heights -> SUBSET (0..MaxTime)]
    /\ round \in PoolRounds
    /\ rounds \in [Heights -> Tallies] /\ written \subseteq Heights
    /\ pc \in [Miners -> {"idle", "share", "found", "wait"}]
    /\ stamp \in [Miners -> 0..MaxTime] /\ mine \in [Miners -> 0..MaxHeight]
    /\ writer \in Miners \cup {Timer, None}
    /\ stage \in {"idle", "stats", "block", "read", "scan", "close", "store"}
    /\ (writer = None) = (stage = "idle")
    /\ cur \in PoolRounds /\ reference \in 0..MaxHeight /\ nextRound \in BOOLEAN
    /\ todo \subseteq Miners
    /\ earned \in Tallies /\ settled \in Tallies
    /\ late \in [Miners -> [Times -> Int]]
    /\ reopened \subseteq Times /\ skipped \subseteq Times
    /\ first \in 0..MaxHeight
    /\ budget \in Nat

Init ==
    /\ clock = 1 /\ height = 0
    /\ shares = Nothing /\ stored = Nothing
    /\ found = {} /\ blocks = [h \in Heights |-> 0]
    /\ behind = [h \in Heights |-> {}]
    /\ round = NoRound
    /\ rounds = [h \in Heights |-> Nothing] /\ written = {}
    /\ pc = [m \in Miners |-> "idle"]
    /\ stamp = [m \in Miners |-> 0] /\ mine = [m \in Miners |-> 0]
    /\ writer = None /\ stage = "idle"
    /\ cur = NoRound /\ reference = 0 /\ nextRound = FALSE /\ todo = {}
    /\ earned = Nothing /\ late = Nothing /\ settled = Nothing
    /\ reopened = {} /\ skipped = {} /\ first = 0
    /\ budget = MaxEvents

Plus(f, g) == [m \in Miners |-> [t \in Times |-> f[m][t] + g[m][t]]]

(* The session of m is done with its share or block. *)
Return(m) ==
    /\ pc' = [pc EXCEPT ![m] = "idle"]
    /\ stamp' = [stamp EXCEPT ![m] = 0]
    /\ mine' = [mine EXCEPT ![m] = 0]

Event == budget > 0 /\ budget' = budget - 1

-----------------------------------------------------------------------------
(* Shares and blocks, in the sessions of the miners.                       *)

Tick ==
    /\ clock < MaxTime
    /\ clock' = clock + 1
    /\ UNCHANGED <<height, shares, session, store, update, history>>

(* storeShare takes the time, and then reads the store before it gets to   *)
(* the map.                                                                *)
StampShare(m) ==
    /\ pc[m] = "idle"
    /\ Event
    /\ pc' = [pc EXCEPT ![m] = "share"]
    /\ stamp' = [stamp EXCEPT ![m] = clock]
    /\ UNCHANGED <<clock, height, shares, mine, store, update, earned, late,
                   settled, reopened, skipped, first>>

(* No update to come will look at second t of m again. *)
Passed(m, t) ==
    \/ t <= round.ts
    \/ stage \in {"scan", "close", "store"} /\ t <= cur.ts /\ m \notin todo

OneMore(f, m, t) == [f EXCEPT ![m][t] = @ + 1]

AddShare(m) ==
    /\ shares' = OneMore(shares, m, stamp[m])
    /\ earned' = OneMore(earned, m, stamp[m])
    /\ late' = IF Passed(m, stamp[m]) THEN OneMore(late, m, stamp[m]) ELSE late
    /\ UNCHANGED <<clock, height, store, update, settled, reopened, skipped,
                   first, budget>>

StoreShare(m) ==
    /\ pc[m] = "share"
    /\ AddShare(m)
    /\ Return(m)

(* The node accepts the block of m, which takes its timestamp now.  Its    *)
(* height is that of the template it was made from (miner.go:426): a new   *)
(* one, or, as the node's chain is a graph of blocks, one where the pool   *)
(* or another session has found a block before.                            *)
FindBlock(m, h) ==
    /\ pc[m] = "idle"
    /\ h <= height + 1
    /\ \/ h > height /\ height' = h /\ UNCHANGED budget
       \/ h <= height /\ UNCHANGED height /\ Event
    /\ pc' = [pc EXCEPT ![m] = "found"]
    /\ stamp' = [stamp EXCEPT ![m] = clock]
    /\ mine' = [mine EXCEPT ![m] = h]
    /\ UNCHANGED <<clock, shares, store, update, earned, late, settled,
                   reopened, skipped, first>>

(* The share that found the block. *)
StoreFinderShare(m) ==
    /\ pc[m] = "found"
    /\ AddShare(m)
    /\ pc' = [pc EXCEPT ![m] = "wait"]
    /\ UNCHANGED <<stamp, mine>>

-----------------------------------------------------------------------------
(* An update, by the timer or by a session that has found a block.         *)

BeginUpdate(p) ==
    /\ writer = None
    /\ p # Timer => pc[p] = "wait"
    /\ writer' = p /\ stage' = "stats"
    /\ UNCHANGED <<clock, height, shares, session, store, cur, reference,
                   nextRound, todo, history>>

WriteMinerStats ==
    /\ stage = "stats"
    /\ stage' = IF writer = Timer THEN "read" ELSE "block"
    /\ stored' = shares
    /\ UNCHANGED <<clock, height, shares, session, found, blocks, behind, round,
                   rounds, written, writer, cur, reference, nextRound, todo,
                   history>>

(* WriteBlocks: the height, then the block.  What a crash between the two  *)
(* leaves is what orphaning the block leaves.  A block already found at    *)
(* the height is overwritten, if it is still a candidate, or comes after   *)
(* this one in the search for the reference.                               *)
WriteCandidate ==
    /\ stage = "block"
    /\ stage' = "read"
    /\ LET h == mine[writer] IN
       /\ found' = found \cup {h}
       /\ blocks' = [blocks EXCEPT ![h] = stamp[writer]]
       /\ behind' = [behind EXCEPT ![h] =
                        IF h \in found THEN @ \cup {blocks[h]} ELSE @]
    /\ UNCHANGED <<clock, height, shares, session, stored, round, rounds,
                   written, writer, cur, reference, nextRound, todo, history>>

\* The highest pool block found, if it is in the store and not an orphan.
referenceBlock ==
    IF \E h \in found : blocks[h] > 0 /\ \A g \in found : g <= h
    THEN CHOOSE h \in found : \A g \in found : g <= h
    ELSE 0

(* Mutant: only the session that finds a block closes the round. *)
ClosesRound_FoundOnly(ref) == ref # 0 /\ writer # Timer

(* The round is to be closed: a block is newer or higher than the round    *)
(* knows, or this is its finder's session.                                 *)
ClosesRound(ref) ==
    /\ ref # 0
    /\ \/ round # NoRound
             /\ (round.start < blocks[ref] \/ round.last < ref)
       \/ writer # Timer

(* The window of the update: from where the stored round ended, up to the  *)
(* block that closes it or to now.                                         *)
Window(ref) ==
    IF round = NoRound
    THEN [start |-> IF ref = 0 THEN 0 ELSE blocks[ref], ts |-> clock,
          last |-> ref, tally |-> Nothing]
    ELSE [start |-> round.ts,
          ts    |-> IF ClosesRound(ref) THEN blocks[ref] ELSE clock,
          last  |-> IF ref = 0 THEN 0
                    ELSE IF ClosesRound(ref) THEN ref ELSE round.last,
          tally |-> round.tally]

ReadRound ==
    /\ stage = "read"
    /\ stage' = "scan"
    /\ reference' = referenceBlock
    /\ nextRound' = ClosesRound(referenceBlock)
    /\ cur' = Window(referenceBlock)
    /\ todo' = Miners
    /\ UNCHANGED <<clock, height, shares, session, store, writer, history>>

(* Mutant: the second the last window ended with is in this one as well. *)
InWindow_Inclusive(t) == cur.start <= t /\ t <= cur.ts

InWindow(t) == cur.start < t /\ t <= cur.ts

ScanMiner(m) ==
    /\ stage = "scan"
    /\ m \in todo
    /\ todo' = todo \ {m}
    /\ cur' = [cur EXCEPT !.tally[m] =
                 [t \in Times |-> cur.tally[m][t] + IF InWindow(t)
                                                    THEN shares[m][t] ELSE 0]]
    /\ UNCHANGED <<clock, height, shares, session, store, writer, stage,
                   reference, nextRound, history>>

ScanDone ==
    /\ stage = "scan" /\ todo = {}
    /\ stage' = IF nextRound THEN "close" ELSE "store"
    /\ UNCHANGED <<clock, height, shares, session, store, writer, cur,
                   reference, nextRound, todo, history>>

WriteRoundShares ==
    /\ stage = "close"
    /\ stage' = "store"
    /\ rounds' = [rounds EXCEPT ![reference] = cur.tally]
    /\ written' = written \cup {reference}
    /\ UNCHANGED <<clock, height, shares, session, stored, found, blocks,
                   behind, round, writer, cur, reference, nextRound, todo,
                   history>>

(* Mutant: the next round begins now, and not at the block. *)
Opened_Now ==
    IF nextRound
    THEN [start |-> clock, ts |-> clock, last |-> cur.last, tally |-> Nothing]
    ELSE cur

(* What is stored: the window that was counted, or an empty round that     *)
(* begins at the block.                                                    *)
Opened ==
    IF nextRound
    THEN [start |-> blocks[reference], ts |-> blocks[reference],
          last |-> cur.last, tally |-> Nothing]
    ELSE cur

(* Mutant: Writing is not given back. *)
EndUpdate_KeepWriting ==
    /\ UNCHANGED writer
    /\ stage' = "idle"
    /\ IF writer = Timer THEN UNCHANGED session ELSE Return(writer)
    /\ cur' = NoRound /\ reference' = 0 /\ nextRound' = FALSE

EndUpdate ==
    /\ writer' = None
    /\ stage' = "idle"
    /\ IF writer = Timer THEN UNCHANGED session ELSE Return(writer)
    /\ cur' = NoRound /\ reference' = 0 /\ nextRound' = FALSE

OverwritePoolRoundStats ==
    /\ stage = "store"
    /\ round' = Opened
    /\ EndUpdate
    /\ settled' = IF nextRound THEN Plus(settled, cur.tally) ELSE settled
    /\ reopened' = reopened \cup {t \in Times :
           Opened.ts < t /\ (t <= cur.start \/ t <= cur.ts)}
    /\ skipped' = skipped \cup {t \in Times : round = NoRound /\ t <= cur.start}
    /\ first' = IF round = NoRound /\ ~nextRound THEN reference ELSE first
    /\ UNCHANGED <<clock, height, shares, stored, found, blocks, behind, rounds,
                   written, todo, earned, late, budget>>

-----------------------------------------------------------------------------
(* Faults.                                                                 *)

(* The unlocker finds the block at h to be no block of the chain, or files *)
(* it after another one of that height: none of the height is left, or one *)
(* found before.                                                           *)
OrphanBlock(h) ==
    /\ Event
    /\ writer = None
    /\ blocks[h] > 0
    /\ \E t \in behind[h] \cup {0} : blocks' = [blocks EXCEPT ![h] = t]
    /\ UNCHANGED <<clock, height, shares, session, stored, found, behind, round,
                   rounds, written, update, earned, late, settled, reopened,
                   skipped, first>>

(* The process stops and starts again.  The miners of S log in again       *)
(* before the first update and begin with an empty map; the others are     *)
(* brought back from the store by that update.                             *)
Crash(S) ==
    /\ Event
    /\ shares' = [m \in Miners |-> IF m \in S THEN Nothing[m] ELSE stored[m]]
    /\ late' = [m \in Miners |-> [t \in Times |->
                  IF t > round.ts
                  THEN late[m][t] + (shares[m][t] - shares'[m][t])
                  ELSE late[m][t]]]
    /\ pc' = [m \in Miners |-> "idle"]
    /\ stamp' = [m \in Miners |-> 0] /\ mine' = [m \in Miners |-> 0]
    /\ writer' = None /\ stage' = "idle"
    /\ cur' = NoRound /\ reference' = 0 /\ nextRound' = FALSE /\ todo' = {}
    /\ UNCHANGED <<clock, height, store, earned, settled, reopened, skipped,
                   first>>

Session(m) == StoreShare(m) \/ StoreFinderShare(m)

Update ==
    \/ \E p \in Miners \cup {Timer} : BeginUpdate(p)
    \/ WriteMinerStats
    \/ WriteCandidate
    \/ ReadRound
    \/ \E m \in Miners : ScanMiner(m)
    \/ ScanDone
    \/ WriteRoundShares
    \/ OverwritePoolRoundStats

Next ==
    \/ Tick
    \/ \E m \in Miners : StampShare(m) \/ Session(m)
    \/ \E m \in Miners, h \in Heights : FindBlock(m, h)
    \/ Update
    \/ \E h \in Heights : OrphanBlock(h)
    \/ \E S \in SUBSET Miners : Crash(S)

(* The timer fires again and again, and an update once begun goes on; who  *)
(* gets Writing next is anybody's guess.                                   *)
Fairness == WF_vars(Update)

Spec == Init /\ [][Next]_vars /\ Fairness

-----------------------------------------------------------------------------
(* Properties.                                                             *)

(* No share is counted in two rounds, or twice in one, whatever is added   *)
(* while an update runs, stops or is repeated after a crash (windows of    *)
(* storage.go:1444-1492).  The exception: an update that ran while the     *)
(* finder of a block waited for Writing, or that had no stored round to go *)
(* on from, has counted seconds after the block; they are counted again in *)
(* the next round.                                                         *)
CountedAtMostOnce ==
    \A m \in Miners : \A t \in Times \ reopened :
        settled[m][t] + round.tally[m][t] <= earned[m][t]

(* Every share of the seconds the stored round has passed is counted, but  *)
(* for those that were added to a second already passed or were lost with  *)
(* the memory of the process: blocks, orphans and crashed updates make no  *)
(* gap between the windows.  The exception: when a block is found before   *)
(* the pool has ever stored a round, the first one begins with the block.  *)
CountedAtLeastOnce ==
    \A m \in Miners : \A t \in Times \ skipped :
        t <= round.ts =>
            settled[m][t] + round.tally[m][t] + late[m][t] >= earned[m][t]

(* A closed round stays what it was: another update does not replace the   *)
(* shares a block is to be paid by.                                        *)
RoundKept ==
    [][\A h \in written : round.last >= h => rounds'[h] = rounds[h]]_vars

(* The highest pool block gets its round, even if the pool stopped between *)
(* storing the block and storing the round (storage.go:1446), and however  *)
(* many blocks there are of its height.  The exception: the block the      *)
(* first stored round begins with is never given one, since nothing about  *)
(* it is new to that round.                                                *)
EventuallyClosed ==
    \A h \in Heights :
        h \in found /\ blocks[h] > 0
      ~> \/ h \in written \cup {first}
         \/ blocks[h] = 0
         \/ \E g \in found : g > h
=============================================================================
