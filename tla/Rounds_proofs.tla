---------------------------- MODULE Rounds_proofs ----------------------------
(***************************************************************************)
(* Proofs about Rounds: no share is counted twice, and none is left out; a *)
(* stored round is replaced only by a finder that was overtaken or where   *)
(* two blocks were found at one height; and every update leaves the blocks *)
(* it can see with their rounds, for any number of miners, blocks,         *)
(* seconds, shares and faults.                                             *)
(***************************************************************************)
EXTENDS Rounds, TLAPS

USE ProcsAssumption, BoundsAssumption

-----------------------------------------------------------------------------
(* Who updates, and with what in hand.                                     *)

(* A session knows the time of its share and the height of its block. *)
Sessions ==
    \A m \in Miners :
        /\ pc[m] # "idle" => stamp[m] \in 1..clock
        /\ pc[m] \in {"found", "wait"} => mine[m] \in Heights

(* Writing is held by the timer or by a session that waited for it. *)
WriterWaits ==
    /\ writer \in Miners => pc[writer] = "wait"
    /\ stage = "block" => writer \in Miners

(* An update that closes the round has a block to close it with, which is  *)
(* not of the future.                                                      *)
ClosingBlock ==
    /\ \A h \in Heights : blocks[h] <= clock /\ \A t \in behind[h] : t <= clock
    /\ stage = "close" => nextRound
    /\ stage \in {"scan", "close", "store"} /\ nextRound =>
           /\ reference \in Heights
           /\ blocks[reference] > 0
           /\ blocks[reference] <= cur.ts
           /\ round # NoRound => cur.ts = blocks[reference]

Control == Sessions /\ WriterWaits /\ ClosingBlock

LEMMA ReferenceBlock ==
    ASSUME TypeOK
    PROVE  /\ referenceBlock \in 0..MaxHeight
           /\ referenceBlock # 0 =>
                  referenceBlock \in Heights /\ blocks[referenceBlock] > 0
<1>1. CASE \E h \in found : blocks[h] > 0 /\ \A g \in found : g <= h
  <2>1. PICK h \in found : blocks[h] > 0 /\ \A g \in found : g <= h
        BY <1>1
  <2> DEFINE top == CHOOSE k \in found : \A g \in found : g <= k
  <2>2. top \in found /\ \A g \in found : g <= top
        BY <2>1
  <2> HIDE DEF top
  <2>3. top = h
    <3>1. h \in Int /\ top \in Int
          BY <2>1, <2>2 DEF TypeOK, Heights
    <3>2. h <= top /\ top <= h
          BY <2>1, <2>2
    <3>3. QED
          BY <3>1, <3>2
  <2>4. h \in Heights /\ h \in 0..MaxHeight
        BY <2>1 DEF TypeOK, Heights
  <2>5. referenceBlock = h
        BY <1>1, <2>3 DEF referenceBlock, top
  <2>6. QED
        BY <2>1, <2>4, <2>5
<1>2. CASE ~ \E h \in found : blocks[h] > 0 /\ \A g \in found : g <= h
      BY <1>2 DEF referenceBlock
<1>3. QED
      BY <1>1, <1>2

LEMMA NothingType == Nothing \in Tallies /\ NoRound \in PoolRounds
BY DEF Nothing, Tallies, NoRound, PoolRounds

LEMMA InitControl == Init => TypeOK /\ Control
<1> SUFFICES ASSUME Init PROVE TypeOK /\ Control
    OBVIOUS
<1>1. /\ clock \in Times /\ height \in 0..MaxHeight
      /\ blocks \in [Heights -> 0..MaxTime]
      /\ rounds \in [Heights -> Tallies]
      /\ late \in [Miners -> [Times -> Int]]
    BY NothingType DEF Init, Times, Nothing
<1>2. /\ (writer = None) = (stage = "idle")
      /\ pc \in [Miners -> {"idle", "share", "found", "wait"}]
      /\ stamp \in [Miners -> 0..MaxTime] /\ mine \in [Miners -> 0..MaxHeight]
    BY DEF Init
<1>3. TypeOK
    BY <1>1, <1>2, NothingType DEF Init, TypeOK
<1>4. Control
    BY DEF Init, Control, Sessions, WriterWaits, ClosingBlock
<1>5. QED
    BY <1>3, <1>4

(* What adding a share does, second by second. *)
LEMMA OneMoreAt ==
    ASSUME NEW f \in [Miners -> [Times -> Int]], NEW m \in Miners,
           NEW t \in Times
    PROVE  /\ OneMore(f, m, t) \in [Miners -> [Times -> Int]]
           /\ f \in Tallies => OneMore(f, m, t) \in Tallies
           /\ \A x \in Miners : \A s \in Times :
                OneMore(f, m, t)[x][s]
                  = f[x][s] + IF x = m /\ s = t THEN 1 ELSE 0
<1> DEFINE g == [f[m] EXCEPT ![t] = f[m][t] + 1]
<1>1. f[m] \in [Times -> Int] /\ f[m][t] \in Int
    OBVIOUS
<1>2. g \in [Times -> Int] /\ \A s \in Times :
        g[s] = f[m][s] + IF s = t THEN 1 ELSE 0
    BY <1>1
<1>3. f \in Tallies => g \in [Times -> Nat]
    BY <1>1 DEF Tallies
<1>4. OneMore(f, m, t) = [f EXCEPT ![m] = g]
    BY DEF OneMore
<1> HIDE DEF g
<1>5. \A x \in Miners : OneMore(f, m, t)[x] = IF x = m THEN g ELSE f[x]
    BY <1>4
<1>6. \A x \in Miners : \A s \in Times :
        OneMore(f, m, t)[x][s] = f[x][s] + IF x = m /\ s = t THEN 1 ELSE 0
  <2> SUFFICES ASSUME NEW x \in Miners, NEW s \in Times
               PROVE  OneMore(f, m, t)[x][s]
                        = f[x][s] + IF x = m /\ s = t THEN 1 ELSE 0
      OBVIOUS
  <2>1. f[x] \in [Times -> Int] /\ f[x][s] \in Int
      OBVIOUS
  <2>2. CASE x = m
      BY <1>2, <1>5, <2>2
  <2>3. CASE x # m
      BY <1>5, <2>1, <2>3
  <2>4. QED
      BY <2>2, <2>3
<1>7. OneMore(f, m, t) \in [Miners -> [Times -> Int]]
    BY <1>2, <1>4
<1>8. f \in Tallies => OneMore(f, m, t) \in Tallies
    BY <1>3, <1>4 DEF Tallies
<1>9. QED
    BY <1>6, <1>7, <1>8

-----------------------------------------------------------------------------
(* Type correctness.                                                       *)

LEMMA SharesAdded ==
    ASSUME TypeOK, Sessions, NEW m \in Miners, pc[m] # "idle", AddShare(m)
    PROVE  /\ stamp[m] \in Times
           /\ shares' \in Tallies /\ earned' \in Tallies
           /\ late' \in [Miners -> [Times -> Int]]
<1>1. stamp[m] \in Times
    BY DEF Sessions, TypeOK, Times
<1>2. /\ Tallies \subseteq [Miners -> [Times -> Int]]
    BY DEF Tallies
<1>3. QED
    BY <1>1, <1>2, OneMoreAt DEF AddShare, TypeOK

(* What an update reads is a round again. *)
LEMMA WindowType ==
    ASSUME TypeOK
    PROVE  /\ Window(referenceBlock) \in PoolRounds
           /\ ClosesRound(referenceBlock) \in BOOLEAN
<1>1. referenceBlock \in Nat
    BY ReferenceBlock, BoundsAssumption
<1>2. referenceBlock # 0 => blocks[referenceBlock] \in Int
    BY ReferenceBlock DEF TypeOK
<1>3. clock \in Int
    BY DEF TypeOK, Times
<1>4. round.last \in Nat /\ round.ts \in Int /\ round.tally \in Tallies
    BY DEF TypeOK, PoolRounds
<1>5. ClosesRound(referenceBlock) => referenceBlock # 0
    BY DEF ClosesRound
<1>6. ASSUME round = NoRound PROVE Window(referenceBlock) \in PoolRounds
  <2>1. Nothing \in Tallies
    BY NothingType
  <2>2. (IF referenceBlock = 0 THEN 0 ELSE blocks[referenceBlock]) \in Int
    BY <1>2
  <2>3. Window(referenceBlock) =
          [start |-> IF referenceBlock = 0 THEN 0 ELSE blocks[referenceBlock],
           ts |-> clock, last |-> referenceBlock, tally |-> Nothing]
    BY <1>6 DEF Window
  <2>4. QED
    BY <1>1, <1>3, <2>1, <2>2, <2>3 DEF PoolRounds
<1>7. ASSUME round # NoRound PROVE Window(referenceBlock) \in PoolRounds
  <2> DEFINE end  == IF ClosesRound(referenceBlock)
                     THEN blocks[referenceBlock] ELSE clock
             last == IF referenceBlock = 0 THEN 0
                     ELSE IF ClosesRound(referenceBlock) THEN referenceBlock
                     ELSE round.last
  <2>1. end \in Int /\ last \in Nat
    BY <1>1, <1>2, <1>3, <1>4, <1>5
  <2>2. Window(referenceBlock) =
          [start |-> round.ts, ts |-> end, last |-> last, tally |-> round.tally]
    BY <1>7 DEF Window
  <2> HIDE DEF end, last
  <2>3. QED
    BY <1>4, <2>1, <2>2 DEF PoolRounds
<1>8. ClosesRound(referenceBlock) \in BOOLEAN
    BY DEF ClosesRound
<1>9. QED
    BY <1>6, <1>7, <1>8

(* The scan of a miner adds what its map holds for the window, and leaves  *)
(* the rest of the round alone.                                            *)
LEMMA ScanAt ==
    ASSUME TypeOK, NEW m \in Miners, ScanMiner(m)
    PROVE  /\ cur' \in PoolRounds
           /\ cur'.start = cur.start /\ cur'.ts = cur.ts /\ cur'.last = cur.last
           /\ \A x \in Miners : \A t \in Times :
                cur'.tally[x][t] = cur.tally[x][t] +
                   IF x = m /\ InWindow(t) THEN shares[x][t] ELSE 0
<1> DEFINE row == [t \in Times |-> cur.tally[m][t] +
                                     IF InWindow(t) THEN shares[m][t] ELSE 0]
<1>1. /\ cur.tally \in [Miners -> [Times -> Nat]]
      /\ shares \in [Miners -> [Times -> Nat]]
    BY DEF TypeOK, PoolRounds, Tallies
<1>2. row \in [Times -> Nat]
  <2>1. \A t \in Times : cur.tally[m][t] \in Nat /\ shares[m][t] \in Nat
    BY <1>1
  <2>2. QED
    BY <2>1
<1>3. cur' = [cur EXCEPT !.tally = [cur.tally EXCEPT ![m] = row]]
    BY DEF ScanMiner
<1> HIDE DEF row
<1>4. /\ cur'.start = cur.start /\ cur'.ts = cur.ts /\ cur'.last = cur.last
      /\ cur'.tally = [cur.tally EXCEPT ![m] = row]
      /\ cur' \in [start : Int, ts : Int, last : Nat,
                    tally : {[cur.tally EXCEPT ![m] = row]}]
    BY <1>3 DEF TypeOK, PoolRounds
<1>5. cur' \in PoolRounds
    BY <1>1, <1>2, <1>4 DEF PoolRounds, Tallies
<1>6. ASSUME NEW x \in Miners, NEW t \in Times
      PROVE  cur'.tally[x][t] = cur.tally[x][t] +
                   IF x = m /\ InWindow(t) THEN shares[x][t] ELSE 0
  <2>1. CASE x = m
    BY <1>1, <1>4, <2>1 DEF row
  <2>2. CASE x # m
    <3>1. cur'.tally[x] = cur.tally[x] /\ cur.tally[x][t] \in Nat
        BY <1>1, <1>4, <2>2
    <3>2. QED
        BY <2>2, <3>1
  <2>3. QED
    BY <2>1, <2>2
<1>7. QED
    BY <1>4, <1>5, <1>6

LEMMA PlusAt ==
    ASSUME NEW f \in Tallies, NEW g \in Tallies
    PROVE  /\ Plus(f, g) \in Tallies
           /\ \A x \in Miners : \A t \in Times :
                Plus(f, g)[x][t] = f[x][t] + g[x][t]
BY DEF Plus, Tallies

LEMMA ReturnType ==
    ASSUME TypeOK, NEW m \in Miners, Return(m)
    PROVE  /\ pc' \in [Miners -> {"idle", "share", "found", "wait"}]
           /\ stamp' \in [Miners -> 0..MaxTime]
           /\ mine' \in [Miners -> 0..MaxHeight]
<1>1. 0 \in 0..MaxTime /\ 0 \in 0..MaxHeight
    OBVIOUS
<1>2. QED
    BY <1>1 DEF Return, TypeOK

LEMMA NextType == TypeOK /\ Control /\ [Next]_vars => TypeOK'
<1> SUFFICES ASSUME TypeOK, Control, [Next]_vars PROVE TypeOK'
    OBVIOUS
<1> USE DEF session, store, update, history
<1>1. CASE Tick
    BY <1>1 DEF Tick, TypeOK, Times
<1>2. ASSUME NEW m \in Miners, StampShare(m) PROVE TypeOK'
  <2>1. stamp' \in [Miners -> 0..MaxTime]
        /\ pc' \in [Miners -> {"idle", "share", "found", "wait"}]
    BY <1>2 DEF StampShare, TypeOK, Times
  <2>2. budget' \in Nat
    BY <1>2 DEF StampShare, Event, TypeOK
  <2>3. QED
    BY <1>2, <2>1, <2>2 DEF StampShare, TypeOK
<1>3. ASSUME NEW m \in Miners, NEW h \in Heights, FindBlock(m, h)
      PROVE  TypeOK'
  <2>1. height' \in 0..MaxHeight /\ budget' \in Nat
    <3>1. height' \in {height, h} /\ h \in 0..MaxHeight
      BY <1>3 DEF FindBlock, Heights
    <3>2. budget' = budget \/ Event
      BY <1>3 DEF FindBlock
    <3>3. QED
      BY <3>1, <3>2 DEF Event, TypeOK
  <2>2. clock \in 0..MaxTime /\ h \in 0..MaxHeight
    BY DEF TypeOK, Times, Heights
  <2>3. /\ pc' \in [Miners -> {"idle", "share", "found", "wait"}]
        /\ stamp' \in [Miners -> 0..MaxTime]
        /\ mine' \in [Miners -> 0..MaxHeight]
    BY <1>3, <2>2 DEF FindBlock, TypeOK
  <2>4. QED
    BY <1>3, <2>1, <2>3 DEF FindBlock, TypeOK
<1>4. ASSUME NEW m \in Miners, Session(m) PROVE TypeOK'
  <2>1. AddShare(m) /\ pc[m] # "idle"
    BY <1>4 DEF Session, StoreShare, StoreFinderShare
  <2>2. /\ pc' \in [Miners -> {"idle", "share", "found", "wait"}]
        /\ stamp' \in [Miners -> 0..MaxTime] /\ mine' \in [Miners -> 0..MaxHeight]
    <3>1. CASE StoreShare(m)
      <4>1. Return(m)
        BY <3>1 DEF StoreShare
      <4>2. QED
        BY <4>1, ReturnType
    <3>2. CASE StoreFinderShare(m)
      BY <3>2 DEF StoreFinderShare, TypeOK
    <3>3. QED
      BY <1>4, <3>1, <3>2 DEF Session
  <2>3. QED
    BY <2>1, <2>2, SharesAdded DEF AddShare, TypeOK, Control
<1>5. ASSUME NEW p \in Miners \cup {Timer}, BeginUpdate(p) PROVE TypeOK'
    BY <1>5 DEF BeginUpdate, TypeOK
<1>6. CASE WriteMinerStats
    BY <1>6 DEF WriteMinerStats, TypeOK
<1>7. CASE WriteCandidate
  <2>1. /\ writer \in Miners /\ mine[writer] \in Heights
        /\ stamp[writer] \in 0..MaxTime
    BY <1>7 DEF WriteCandidate, Control, WriterWaits, Sessions, TypeOK
  <2>2. found' \subseteq Heights /\ blocks' \in [Heights -> 0..MaxTime]
    BY <1>7, <2>1 DEF WriteCandidate, TypeOK
  <2>3. behind' \in [Heights -> SUBSET (0..MaxTime)]
    BY <1>7, <2>1 DEF WriteCandidate, TypeOK
  <2>4. QED
    BY <1>7, <2>2, <2>3 DEF WriteCandidate, TypeOK
<1>8. CASE ReadRound
    BY <1>8, ReferenceBlock, WindowType DEF ReadRound, TypeOK
<1>9. ASSUME NEW m \in Miners, ScanMiner(m) PROVE TypeOK'
    BY <1>9, ScanAt DEF ScanMiner, TypeOK
<1>10. CASE ScanDone
    BY <1>10 DEF ScanDone, TypeOK
<1>11. CASE WriteRoundShares
  <2>1. reference \in Heights
    BY <1>11 DEF WriteRoundShares, Control, ClosingBlock
  <2>2. cur.tally \in Tallies
    BY DEF TypeOK, PoolRounds
  <2>3. QED
    BY <1>11, <2>1, <2>2 DEF WriteRoundShares, TypeOK
<1>12. CASE OverwritePoolRoundStats
  <2>1. Opened \in PoolRounds
    <3>1. CASE nextRound
      <4>1. blocks[reference] \in Int /\ cur.last \in Nat
        BY <1>12, <3>1 DEF OverwritePoolRoundStats, Control, ClosingBlock,
                           TypeOK, PoolRounds
      <4>2. QED
        BY <3>1, <4>1, NothingType DEF Opened, PoolRounds
    <3>2. QED
        BY <3>1 DEF Opened, TypeOK
  <2>2. settled' \in Tallies
    BY <1>12, PlusAt DEF OverwritePoolRoundStats, TypeOK, PoolRounds
  <2>3. /\ pc' \in [Miners -> {"idle", "share", "found", "wait"}]
        /\ stamp' \in [Miners -> 0..MaxTime] /\ mine' \in [Miners -> 0..MaxHeight]
    <3>1. CASE writer = Timer
      BY <1>12, <3>1 DEF OverwritePoolRoundStats, EndUpdate, TypeOK
    <3>2. CASE writer # Timer
      <4>1. writer \in Miners
        BY <1>12, <3>2 DEF OverwritePoolRoundStats, TypeOK
      <4>2. Return(writer)
        BY <1>12, <3>2 DEF OverwritePoolRoundStats, EndUpdate
      <4>3. QED
        BY <4>1, <4>2, ReturnType
    <3>3. QED
      BY <3>1, <3>2
  <2>4. /\ reopened' \subseteq Times /\ skipped' \subseteq Times
        /\ first' \in 0..MaxHeight
    BY <1>12 DEF OverwritePoolRoundStats, TypeOK
  <2>5. QED
    <3>1. NoRound \in PoolRounds /\ 0 \in 0..MaxHeight
      BY NothingType
    <3>2. /\ writer' = None /\ stage' = "idle"
          /\ cur' = NoRound /\ reference' = 0 /\ nextRound' = FALSE
          /\ round' = Opened
      BY <1>12 DEF OverwritePoolRoundStats, EndUpdate
    <3>3. QED
      BY <1>12, <2>1, <2>2, <2>3, <2>4, <3>1, <3>2
         DEF OverwritePoolRoundStats, TypeOK
<1>13. ASSUME NEW h \in Heights, OrphanBlock(h) PROVE TypeOK'
  <2>1. blocks' \in [Heights -> 0..MaxTime]
    BY <1>13 DEF OrphanBlock, TypeOK
  <2>2. budget' \in Nat
    BY <1>13 DEF OrphanBlock, Event, TypeOK
  <2>3. QED
    BY <1>13, <2>1, <2>2 DEF OrphanBlock, TypeOK
<1>14. ASSUME NEW S \in SUBSET Miners, Crash(S) PROVE TypeOK'
  <2>1. shares' \in Tallies
    BY <1>14, NothingType DEF Crash, TypeOK, Tallies
  <2>2. late' \in [Miners -> [Times -> Int]]
    <3>1. \A m \in Miners : \A t \in Times :
            shares[m][t] \in Int /\ shares'[m][t] \in Int /\ late[m][t] \in Int
        BY <2>1 DEF TypeOK, Tallies
    <3>2. QED
        BY <1>14, <3>1 DEF Crash
  <2>3. QED
    <3>1. NoRound \in PoolRounds /\ 0 \in 0..MaxHeight
      BY NothingType
    <3>2. budget' \in Nat
      BY <1>14 DEF Crash, Event, TypeOK
    <3>3. /\ pc' \in [Miners -> {"idle", "share", "found", "wait"}]
          /\ stamp' \in [Miners -> 0..MaxTime]
          /\ mine' \in [Miners -> 0..MaxHeight]
      BY <1>14 DEF Crash
    <3>4. QED
      BY <1>14, <2>1, <2>2, <3>1, <3>2, <3>3 DEF Crash, TypeOK
<1>15. CASE UNCHANGED vars
    BY <1>15 DEF vars, TypeOK
<1>16. QED
    BY <1>1, <1>2, <1>3, <1>4, <1>5, <1>6, <1>7, <1>8, <1>9, <1>10, <1>11,
       <1>12, <1>13, <1>14, <1>15 DEF Next, Update

LEMMA NextControl == TypeOK /\ Control /\ [Next]_vars => Control'
<1> SUFFICES ASSUME TypeOK, Control, [Next]_vars PROVE Control'
    OBVIOUS
<1> USE DEF session, store, update, history, Control
<1>0. clock \in Nat /\ clock <= MaxTime /\ \A h \in Heights : blocks[h] \in Nat
    BY DEF TypeOK, Times
<1>1. CASE Tick
    BY <1>0, <1>1 DEF Tick, Sessions, WriterWaits, ClosingBlock, TypeOK
<1>2. ASSUME NEW m \in Miners, StampShare(m) PROVE Control'
    BY <1>0, <1>2
       DEF StampShare, Sessions, WriterWaits, ClosingBlock, TypeOK, Times
<1>3. ASSUME NEW m \in Miners, NEW h \in Heights, FindBlock(m, h)
      PROVE  Control'
  <2>1. Sessions'
    BY <1>0, <1>3 DEF FindBlock, Sessions, TypeOK, Times
  <2>2. WriterWaits'
    BY <1>3 DEF FindBlock, WriterWaits, TypeOK
  <2>3. ClosingBlock'
    <3>1. ClosingBlock /\ UNCHANGED <<clock, blocks, behind, stage, nextRound,
                                     reference, cur, round>>
      BY <1>3 DEF FindBlock
    <3>2. QED
      BY ONLY <3>1 DEF ClosingBlock
  <2>4. QED
    BY <2>1, <2>2, <2>3
<1>4. ASSUME NEW m \in Miners, Session(m) PROVE Control'
  <2>1. /\ pc[m] \in {"share", "found"}
        /\ UNCHANGED <<clock, height, blocks, behind, writer, stage, nextRound,
                       reference, cur, round>>
        /\ \/ Return(m)
           \/ /\ pc[m] = "found" /\ pc' = [pc EXCEPT ![m] = "wait"]
              /\ UNCHANGED <<stamp, mine>>
    BY <1>4 DEF Session, StoreShare, StoreFinderShare, AddShare
  <2>2. Sessions'
    BY <2>1 DEF Return, Sessions, TypeOK
  <2>3. WriterWaits'
    BY <2>1 DEF Return, WriterWaits, TypeOK
  <2>4. ClosingBlock'
    <3>1. ClosingBlock /\ UNCHANGED <<clock, blocks, behind, stage, nextRound,
                                     reference, cur, round>>
      BY <2>1
    <3>2. QED
      BY ONLY <3>1 DEF ClosingBlock
  <2>5. QED
    BY <2>2, <2>3, <2>4
<1>5. ASSUME NEW p \in Miners \cup {Timer}, BeginUpdate(p) PROVE Control'
    BY <1>5 DEF BeginUpdate, Sessions, WriterWaits, ClosingBlock, TypeOK
<1>6. CASE WriteMinerStats
    BY <1>6 DEF WriteMinerStats, Sessions, WriterWaits, ClosingBlock, TypeOK
<1>7. CASE WriteCandidate
  <2>1. /\ writer \in Miners /\ stamp[writer] <= clock /\ stage' = "read"
        /\ UNCHANGED <<clock, session, writer, nextRound, round>>
    BY <1>7 DEF WriteCandidate, WriterWaits, Sessions
  <2>2. Sessions' /\ WriterWaits'
    BY <1>7, <2>1 DEF WriteCandidate, Sessions, WriterWaits
  <2>3. ASSUME NEW h \in Heights
        PROVE  blocks'[h] <= clock /\ \A t \in behind'[h] : t <= clock
    BY <1>7, <2>1 DEF WriteCandidate, ClosingBlock, TypeOK
  <2>4. QED
    BY <2>1, <2>2, <2>3 DEF ClosingBlock
<1>8. CASE ReadRound
  <2>1. ClosesRound(referenceBlock) =>
          referenceBlock \in Heights /\ blocks[referenceBlock] > 0
    BY ReferenceBlock DEF ClosesRound
  <2>2. round # NoRound /\ ClosesRound(referenceBlock) =>
          Window(referenceBlock).ts = blocks[referenceBlock]
    BY DEF Window
  <2>3. round = NoRound => Window(referenceBlock).ts = clock
    BY DEF Window
  <2>4. QED
    BY <1>0, <1>8, <2>1, <2>2, <2>3
       DEF ReadRound, Sessions, WriterWaits, ClosingBlock
<1>9. ASSUME NEW m \in Miners, ScanMiner(m) PROVE Control'
    BY <1>9, ScanAt DEF ScanMiner, Sessions, WriterWaits, ClosingBlock
<1>10. CASE ScanDone
    BY <1>10 DEF ScanDone, Sessions, WriterWaits, ClosingBlock
<1>11. CASE WriteRoundShares
    BY <1>11 DEF WriteRoundShares, Sessions, WriterWaits, ClosingBlock
<1>12. CASE OverwritePoolRoundStats
    BY <1>12 DEF OverwritePoolRoundStats, EndUpdate, Return, Sessions,
                 WriterWaits, ClosingBlock, TypeOK
<1>13. ASSUME NEW h \in Heights, OrphanBlock(h) PROVE Control'
  <2>1. PICK t \in behind[h] \cup {0} : blocks' = [blocks EXCEPT ![h] = t]
    BY <1>13 DEF OrphanBlock
  <2>2. /\ stage = "idle" /\ t <= clock
        /\ UNCHANGED <<clock, session, writer, stage, behind>>
    BY <1>0, <1>13 DEF OrphanBlock, ClosingBlock, TypeOK
  <2>3. QED
    BY <2>1, <2>2 DEF Sessions, WriterWaits, ClosingBlock, TypeOK
<1>14. ASSUME NEW S \in SUBSET Miners, Crash(S) PROVE Control'
    BY <1>14 DEF Crash, Sessions, WriterWaits, ClosingBlock
<1>15. CASE UNCHANGED vars
    BY <1>15 DEF vars, Sessions, WriterWaits, ClosingBlock
<1>16. QED
    BY <1>1, <1>2, <1>3, <1>4, <1>5, <1>6, <1>7, <1>8, <1>9, <1>10, <1>11,
       <1>12, <1>13, <1>14, <1>15 DEF Next, Update

LEMMA TypeAndControl == Spec => [](TypeOK /\ Control)
BY InitControl, NextType, NextControl, PTL DEF Spec

(* Every variable has its type.  Among the rest, Writing is held exactly   *)
(* while an update runs (Writing = 1 and = 0 around it, stratum.go:245-248 *)
(* and miner.go:473-487).                                                  *)
THEOREM TypeCorrect == Spec => []TypeOK
BY TypeAndControl, PTL

-----------------------------------------------------------------------------
(* No share is counted twice.                                              *)

Updating == stage \in {"scan", "close", "store"}

EarnedBounds ==
    \A m \in Miners : \A t \in Times :
        shares[m][t] <= earned[m][t] /\ stored[m][t] <= earned[m][t]

(* Nothing is counted of the seconds the stored round has not reached. *)
OpenAhead ==
    \A m \in Miners : \A t \in Times \ reopened :
        t > round.ts => settled[m][t] = 0 /\ round.tally[m][t] = 0

(* An update has, for the miners it has looked at, the shares of its window *)
(* beside those of the stored round; the window begins where that ended.    *)
WindowCounted ==
    /\ Updating => round.ts <= cur.start
    /\ Updating /\ round # NoRound => cur.start = round.ts
    /\ stage \in {"close", "store"} => todo = {}
    /\ Updating =>
         \A m \in Miners : \A t \in Times :
            /\ round.tally[m][t] <= cur.tally[m][t]
            /\ cur.tally[m][t] <= round.tally[m][t] + earned[m][t]
            /\ m \in todo \/ ~InWindow(t) => cur.tally[m][t] = round.tally[m][t]

Once == EarnedBounds /\ CountedAtMostOnce /\ OpenAhead /\ WindowCounted

(* The tallies hold natural numbers. *)
LEMMA Numbers ==
    ASSUME TypeOK, NEW m \in Miners, NEW t \in Times
    PROVE  /\ shares[m][t] \in Nat /\ stored[m][t] \in Nat
           /\ earned[m][t] \in Nat /\ settled[m][t] \in Nat
           /\ late[m][t] \in Int
           /\ round.tally[m][t] \in Nat /\ cur.tally[m][t] \in Nat
           /\ round.ts \in Int /\ cur.start \in Int /\ cur.ts \in Int
           /\ t \in Int
<1>1. t \in Int
    BY DEF Times
<1>2. /\ round.tally \in Tallies /\ cur.tally \in Tallies
      /\ round.ts \in Int /\ cur.start \in Int /\ cur.ts \in Int
    BY DEF TypeOK, PoolRounds
<1>3. \A f \in Tallies : f[m][t] \in Nat
    BY DEF Tallies
<1>4. QED
    BY <1>1, <1>2, <1>3 DEF TypeOK

LEMMA NumbersNext ==
    ASSUME TypeOK', NEW m \in Miners, NEW t \in Times
    PROVE  /\ shares'[m][t] \in Nat /\ earned'[m][t] \in Nat
           /\ settled'[m][t] \in Nat /\ late'[m][t] \in Int
           /\ round'.tally[m][t] \in Nat /\ cur'.tally[m][t] \in Nat
<1>1. round'.tally \in Tallies /\ cur'.tally \in Tallies
    BY DEF TypeOK, PoolRounds
<1>2. \A f \in Tallies : f[m][t] \in Nat
    BY DEF Tallies
<1>3. QED
    BY <1>1, <1>2 DEF TypeOK

LEMMA NothingAt ==
    ASSUME NEW m \in Miners, NEW t \in Times
    PROVE  Nothing[m][t] = 0 /\ NoRound.tally[m][t] = 0
BY DEF Nothing, NoRound

LEMMA InitOnce == Init => Once
<1> SUFFICES ASSUME Init PROVE Once
    OBVIOUS
<1>1. \A m \in Miners : \A t \in Times :
        Nothing[m][t] = 0 /\ NoRound.tally[m][t] = 0
    BY NothingAt
<1>2. EarnedBounds /\ CountedAtMostOnce /\ OpenAhead /\ WindowCounted
    BY <1>1 DEF Init, EarnedBounds, CountedAtMostOnce, OpenAhead, WindowCounted,
                Updating
<1>3. QED
    BY <1>2 DEF Once

(* What an update starts from. *)
LEMMA WindowStart ==
    ASSUME TypeOK, Control, ReadRound
    PROVE  /\ round.ts <= cur'.start
           /\ round # NoRound => cur'.start = round.ts
           /\ \A m \in Miners : \A t \in Times :
                cur'.tally[m][t] = round.tally[m][t]
<1>1. cur' = Window(referenceBlock)
    BY DEF ReadRound
<1>2. CASE round = NoRound
  <2>1. cur'.tally = round.tally /\ round.ts = -1
    BY <1>1, <1>2 DEF Window, NoRound
  <2>2. cur'.start = IF referenceBlock = 0 THEN 0 ELSE blocks[referenceBlock]
    BY <1>1, <1>2 DEF Window
  <2>3. cur'.start \in Nat
    BY <2>2, ReferenceBlock DEF TypeOK
  <2>4. QED
    BY <1>2, <2>1, <2>3
<1>3. CASE round # NoRound
    BY <1>1, <1>3 DEF Window, TypeOK, PoolRounds
<1>4. QED
    BY <1>2, <1>3

(* Whether the round closes or not, what is settled and open together is   *)
(* what was settled and what the update has counted.                       *)
LEMMA RoundStored ==
    ASSUME TypeOK, Control, OverwritePoolRoundStats
    PROVE  /\ \A m \in Miners : \A t \in Times :
                settled'[m][t] + round'.tally[m][t]
                  = settled[m][t] + cur.tally[m][t]
           /\ round'.ts = Opened.ts /\ Opened.ts \in Int
           /\ Opened.ts <= cur.ts
<1>1. round' = Opened
    BY DEF OverwritePoolRoundStats
<1>2. settled \in Tallies /\ cur.tally \in Tallies /\ cur.ts \in Int
    BY DEF TypeOK, PoolRounds
<1>3. CASE nextRound
  <2>1. round'.tally = Nothing /\ settled' = Plus(settled, cur.tally)
    BY <1>1, <1>3 DEF Opened, OverwritePoolRoundStats
  <2>2. \A m \in Miners : \A t \in Times :
            /\ settled'[m][t] = settled[m][t] + cur.tally[m][t]
            /\ round'.tally[m][t] = 0
    BY <1>2, <2>1, PlusAt, NothingAt
  <2>3. reference \in Heights /\ blocks[reference] <= cur.ts
    BY <1>3 DEF OverwritePoolRoundStats, Control, ClosingBlock
  <2>4. Opened.ts = blocks[reference] /\ blocks[reference] \in Int
    BY <1>3, <2>3 DEF Opened, TypeOK
  <2>5. QED
    BY <1>1, <2>2, <2>3, <2>4, Numbers
<1>4. CASE ~nextRound
  <2>1. round' = cur /\ settled' = settled /\ Opened = cur
    BY <1>1, <1>4 DEF Opened, OverwritePoolRoundStats
  <2>2. QED
    BY <1>2, <2>1
<1>5. QED
    BY <1>3, <1>4

(* What a share adds to the maps, it adds to the shares earned. *)
LEMMA SessionAdds ==
    ASSUME TypeOK, Control, NEW m \in Miners, Session(m)
    PROVE  /\ AddShare(m) /\ stamp[m] \in Times
           /\ UNCHANGED <<store, update, settled, reopened, skipped>>
           /\ \A x \in Miners : \A t \in Times :
                LET one == IF x = m /\ t = stamp[m] THEN 1 ELSE 0 IN
                /\ shares'[x][t] = shares[x][t] + one
                /\ earned'[x][t] = earned[x][t] + one
                /\ late'[x][t] =
                     late[x][t] + IF Passed(m, stamp[m]) THEN one ELSE 0
<1>1. AddShare(m) /\ pc[m] # "idle"
    BY DEF Session, StoreShare, StoreFinderShare
<1>2. stamp[m] \in Times
    BY <1>1, SharesAdded DEF Control
<1>3. Tallies \subseteq [Miners -> [Times -> Int]]
    BY DEF Tallies
<1>4. /\ shares \in [Miners -> [Times -> Int]]
      /\ earned \in [Miners -> [Times -> Int]]
      /\ late \in [Miners -> [Times -> Int]]
    BY <1>3 DEF TypeOK
<1>5. UNCHANGED <<store, update, settled, reopened, skipped>>
    BY <1>1 DEF AddShare
<1>6. ASSUME NEW x \in Miners, NEW t \in Times
      PROVE  LET one == IF x = m /\ t = stamp[m] THEN 1 ELSE 0 IN
             /\ shares'[x][t] = shares[x][t] + one
             /\ earned'[x][t] = earned[x][t] + one
             /\ late'[x][t] = late[x][t] + IF Passed(m, stamp[m]) THEN one ELSE 0
  <2>1. \A f \in [Miners -> [Times -> Int]] :
          OneMore(f, m, stamp[m])[x][t]
            = f[x][t] + IF x = m /\ t = stamp[m] THEN 1 ELSE 0
    BY <1>2, OneMoreAt
  <2>2. /\ shares' = OneMore(shares, m, stamp[m])
        /\ earned' = OneMore(earned, m, stamp[m])
        /\ late' = IF Passed(m, stamp[m])
                   THEN OneMore(late, m, stamp[m]) ELSE late
    BY <1>1 DEF AddShare
  <2>3. /\ shares'[x][t] = shares[x][t] + IF x = m /\ t = stamp[m] THEN 1 ELSE 0
        /\ earned'[x][t] = earned[x][t] + IF x = m /\ t = stamp[m] THEN 1 ELSE 0
    BY <1>4, <2>1, <2>2
  <2>4. CASE Passed(m, stamp[m])
    <3>1. late'[x][t] = late[x][t] + IF x = m /\ t = stamp[m] THEN 1 ELSE 0
      BY <1>4, <2>1, <2>2, <2>4
    <3>2. QED
      BY <2>3, <2>4, <3>1
  <2>5. CASE ~Passed(m, stamp[m])
    <3>1. late'[x][t] = late[x][t] /\ late[x][t] \in Int
      BY <1>4, <2>2, <2>5
    <3>2. QED
      BY <2>3, <2>5, <3>1
  <2>6. QED
    BY <2>4, <2>5
<1>7. QED
    BY <1>1, <1>2, <1>5, <1>6

LEMMA NextOnce == TypeOK /\ Control /\ Once /\ [Next]_vars => Once'
<1> SUFFICES ASSUME TypeOK, Control, Once, [Next]_vars PROVE Once'
    OBVIOUS
<1> USE DEF Once, Updating, session, store, update, history
<1>t. TypeOK'
    BY NextType
<1>1. CASE Tick
    BY <1>1 DEF Tick, EarnedBounds, CountedAtMostOnce, OpenAhead, WindowCounted,
                InWindow
<1>2. ASSUME NEW m \in Miners, StampShare(m) PROVE Once'
    BY <1>2 DEF StampShare, EarnedBounds, CountedAtMostOnce, OpenAhead,
                WindowCounted, InWindow
<1>3. ASSUME NEW m \in Miners, NEW h \in Heights, FindBlock(m, h)
      PROVE  Once'
    BY <1>3 DEF FindBlock, EarnedBounds, CountedAtMostOnce, OpenAhead,
                WindowCounted, InWindow
<1>4. ASSUME NEW m \in Miners, Session(m) PROVE Once'
  <2>1. UNCHANGED <<stored, round, stage, cur, todo, settled, reopened>>
    BY <1>4, SessionAdds
  <2>2. ASSUME NEW x \in Miners, NEW t \in Times
        PROVE  /\ earned[x][t] <= earned'[x][t]
               /\ shares'[x][t] - shares[x][t] = earned'[x][t] - earned[x][t]
               /\ shares'[x][t] <= earned'[x][t] /\ stored[x][t] <= earned'[x][t]
    BY <1>4, SessionAdds, Numbers DEF EarnedBounds
  <2>3. EarnedBounds'
    BY <2>1, <2>2 DEF EarnedBounds
  <2>4. CountedAtMostOnce' /\ OpenAhead'
    <3>1. ASSUME NEW x \in Miners, NEW t \in Times \ reopened
          PROVE  settled[x][t] + round.tally[x][t] <= earned'[x][t]
      BY <1>t, <2>2, Numbers, NumbersNext DEF CountedAtMostOnce
    <3>2. QED
      BY <2>1, <3>1 DEF CountedAtMostOnce, OpenAhead
  <2>5. WindowCounted'
    <3>1. ASSUME NEW x \in Miners, NEW t \in Times, Updating
          PROVE  cur.tally[x][t] <= round.tally[x][t] + earned'[x][t]
      BY <1>t, <2>2, <3>1, Numbers, NumbersNext DEF WindowCounted
    <3>2. QED
      BY <2>1, <3>1 DEF WindowCounted, InWindow
  <2>6. QED
    BY <2>3, <2>4, <2>5
<1>5. ASSUME NEW p \in Miners \cup {Timer}, BeginUpdate(p) PROVE Once'
    BY <1>5 DEF BeginUpdate, EarnedBounds, CountedAtMostOnce, OpenAhead,
                WindowCounted
<1>6. CASE WriteMinerStats
    BY <1>6 DEF WriteMinerStats, EarnedBounds, CountedAtMostOnce, OpenAhead,
                WindowCounted
<1>7. CASE WriteCandidate
    BY <1>7 DEF WriteCandidate, EarnedBounds, CountedAtMostOnce, OpenAhead,
                WindowCounted
<1>8. CASE ReadRound
  <2>1. WindowCounted'
    BY <1>8, WindowStart, Numbers DEF ReadRound, WindowCounted
  <2>2. QED
    BY <1>8, <2>1 DEF ReadRound, EarnedBounds, CountedAtMostOnce, OpenAhead
<1>9. ASSUME NEW m \in Miners, ScanMiner(m) PROVE Once'
  <2>1. /\ UNCHANGED <<shares, stored, round, stage, earned, settled, reopened>>
        /\ todo' = todo \ {m} /\ m \in todo /\ stage = "scan"
    BY <1>9 DEF ScanMiner
  <2>2. \A t \in Times : InWindow(t)' = InWindow(t)
    BY <1>9, ScanAt DEF InWindow
  <2>3. ASSUME NEW x \in Miners, NEW t \in Times
        PROVE  /\ round.tally[x][t] <= cur'.tally[x][t]
               /\ cur'.tally[x][t] <= round.tally[x][t] + earned[x][t]
               /\ x \in todo' \/ ~InWindow(t) =>
                    cur'.tally[x][t] = round.tally[x][t]
    <3>1. cur'.tally[x][t] =
            cur.tally[x][t] + IF x = m /\ InWindow(t) THEN shares[x][t] ELSE 0
      BY <1>9, ScanAt
    <3>2. shares[x][t] <= earned[x][t]
      BY DEF EarnedBounds
    <3>3. /\ round.tally[x][t] <= cur.tally[x][t]
          /\ cur.tally[x][t] <= round.tally[x][t] + earned[x][t]
          /\ x \in todo \/ ~InWindow(t) => cur.tally[x][t] = round.tally[x][t]
      BY <2>1 DEF WindowCounted
    <3>4. QED
      BY <2>1, <3>1, <3>2, <3>3, Numbers
  <2>4. WindowCounted'
    BY <1>9, <2>1, <2>2, <2>3, ScanAt DEF WindowCounted
  <2>5. QED
    BY <2>1, <2>4 DEF EarnedBounds, CountedAtMostOnce, OpenAhead
<1>10. CASE ScanDone
    BY <1>10 DEF ScanDone, EarnedBounds, CountedAtMostOnce, OpenAhead,
                 WindowCounted, InWindow
<1>11. CASE WriteRoundShares
    BY <1>11 DEF WriteRoundShares, EarnedBounds, CountedAtMostOnce, OpenAhead,
                 WindowCounted, InWindow
<1>12. CASE OverwritePoolRoundStats
  <2>1. /\ UNCHANGED <<shares, stored, earned>> /\ stage' = "idle"
        /\ stage = "store"
        /\ reopened' = reopened \cup {t \in Times :
               Opened.ts < t /\ (t <= cur.start \/ t <= cur.ts)}
    BY <1>12 DEF OverwritePoolRoundStats, EndUpdate
  <2>2. EarnedBounds' /\ WindowCounted'
    BY <2>1 DEF EarnedBounds, WindowCounted
  <2>3. ASSUME NEW m \in Miners, NEW t \in Times \ reopened
        PROVE  /\ settled[m][t] + cur.tally[m][t] <= earned[m][t]
               /\ t > cur.start /\ t > cur.ts =>
                    settled[m][t] = 0 /\ cur.tally[m][t] = 0
    <3>1. /\ cur.tally[m][t] <= round.tally[m][t] + earned[m][t]
          /\ ~InWindow(t) => cur.tally[m][t] = round.tally[m][t]
          /\ round.ts <= cur.start
      BY <2>1 DEF WindowCounted
    <3>2. settled[m][t] + round.tally[m][t] <= earned[m][t]
      BY DEF CountedAtMostOnce
    <3>3. t > round.ts => settled[m][t] = 0 /\ round.tally[m][t] = 0
      BY DEF OpenAhead
    <3>4. QED
      BY <3>1, <3>2, <3>3, Numbers DEF InWindow
  <2>4. CountedAtMostOnce'
    BY <1>12, <2>1, <2>3, RoundStored DEF CountedAtMostOnce
  <2>5. OpenAhead'
    <3>1. ASSUME NEW m \in Miners, NEW t \in Times \ reopened', t > round'.ts
          PROVE  settled'[m][t] = 0 /\ round'.tally[m][t] = 0
      <4>1. t \notin reopened /\ t > cur.start /\ t > cur.ts
        BY <1>12, <2>1, <3>1, RoundStored, Numbers
      <4>2. settled'[m][t] + round'.tally[m][t] = 0
        BY <1>12, <2>3, <4>1, RoundStored
      <4>3. QED
        BY <1>t, <4>2, NumbersNext
    <3>2. QED
      BY <3>1 DEF OpenAhead
  <2>6. QED
    BY <2>2, <2>4, <2>5
<1>13. ASSUME NEW h \in Heights, OrphanBlock(h) PROVE Once'
    BY <1>13 DEF OrphanBlock, EarnedBounds, CountedAtMostOnce, OpenAhead,
                 WindowCounted, InWindow
<1>14. ASSUME NEW S \in SUBSET Miners, Crash(S) PROVE Once'
  <2>1. UNCHANGED <<stored, round, earned, settled, reopened>> /\ stage' = "idle"
    BY <1>14 DEF Crash
  <2>2. \A m \in Miners : \A t \in Times :
          shares'[m][t] = 0 \/ shares'[m][t] = stored[m][t]
    BY <1>14, NothingAt DEF Crash
  <2>3. EarnedBounds'
    BY <2>1, <2>2, Numbers DEF EarnedBounds
  <2>4. QED
    BY <2>1, <2>3 DEF CountedAtMostOnce, OpenAhead, WindowCounted
<1>15. CASE UNCHANGED vars
    BY <1>15 DEF vars, EarnedBounds, CountedAtMostOnce, OpenAhead,
                 WindowCounted, InWindow
<1>16. QED
    BY <1>1, <1>2, <1>3, <1>4, <1>5, <1>6, <1>7, <1>8, <1>9, <1>10, <1>11,
       <1>12, <1>13, <1>14, <1>15 DEF Next, Update

(* No share is counted in two rounds, or twice in one (the windows of      *)
(* UpdatePoolRoundStats, storage.go:1444-1492), but in seconds that a      *)
(* round closed by an earlier block has opened again.                      *)
THEOREM NoShareTwice == Spec => []CountedAtMostOnce
<1>1. Once => CountedAtMostOnce
    BY DEF Once
<1>2. QED
    BY <1>1, InitControl, NextType, NextControl, InitOnce, NextOnce, PTL
       DEF Spec

-----------------------------------------------------------------------------
(* No share is left out.                                                   *)

(* What is not counted yet of the seconds ahead is in the maps. *)
HeldAhead ==
    \A m \in Miners : \A t \in Times \ skipped :
        t > round.ts =>
            settled[m][t] + round.tally[m][t] + late[m][t] + shares[m][t]
              >= earned[m][t]

(* An update that has looked at a miner has all its shares, up to the end  *)
(* of the window.                                                          *)
ScannedComplete ==
    Updating =>
        \A m \in Miners \ todo : \A t \in Times \ skipped :
            t <= cur.ts /\ (round = NoRound => t > cur.start) =>
                settled[m][t] + cur.tally[m][t] + late[m][t] >= earned[m][t]

Complete == HeldAhead /\ ScannedComplete /\ CountedAtLeastOnce

LEMMA InitComplete == Init => Complete
<1> SUFFICES ASSUME Init PROVE Complete
    OBVIOUS
<1>1. \A m \in Miners : \A t \in Times :
        Nothing[m][t] = 0 /\ NoRound.tally[m][t] = 0
    BY NothingAt
<1>2. QED
    BY <1>1 DEF Init, Complete, HeldAhead, ScannedComplete, CountedAtLeastOnce,
                Updating

LEMMA NextComplete ==
    TypeOK /\ Control /\ Once /\ Complete /\ [Next]_vars => Complete'
<1> SUFFICES ASSUME TypeOK, Control, Once, Complete, [Next]_vars
             PROVE  Complete'
    OBVIOUS
<1> USE DEF Complete, Updating, session, store, update, history
<1>t. TypeOK'
    BY NextType
<1>1. CASE Tick
    BY <1>1 DEF Tick, HeldAhead, ScannedComplete, CountedAtLeastOnce
<1>2. ASSUME NEW m \in Miners, StampShare(m) PROVE Complete'
    BY <1>2 DEF StampShare, HeldAhead, ScannedComplete, CountedAtLeastOnce
<1>3. ASSUME NEW m \in Miners, NEW h \in Heights, FindBlock(m, h)
      PROVE  Complete'
    BY <1>3 DEF FindBlock, HeldAhead, ScannedComplete, CountedAtLeastOnce
<1>4. ASSUME NEW m \in Miners, Session(m) PROVE Complete'
  <2>1. UNCHANGED <<round, stage, cur, todo, settled, skipped>>
    BY <1>4, SessionAdds
  <2>2. ASSUME NEW x \in Miners, NEW t \in Times
        PROVE  /\ late'[x][t] + shares'[x][t] - earned'[x][t]
                    >= late[x][t] + shares[x][t] - earned[x][t]
               /\ Passed(x, t) => late'[x][t] - earned'[x][t]
                                    = late[x][t] - earned[x][t]
    <3>1. LET one == IF x = m /\ t = stamp[m] THEN 1 ELSE 0 IN
          /\ shares'[x][t] = shares[x][t] + one
          /\ earned'[x][t] = earned[x][t] + one
          /\ late'[x][t] = late[x][t] + IF Passed(m, stamp[m]) THEN one ELSE 0
      BY <1>4, SessionAdds
    <3>2. CASE x = m /\ t = stamp[m]
      BY <3>1, <3>2, Numbers
    <3>3. CASE ~(x = m /\ t = stamp[m])
      BY <3>1, <3>3, Numbers
    <3>4. QED
      BY <3>2, <3>3
  <2>3. HeldAhead'
    BY <1>t, <2>1, <2>2, Numbers, NumbersNext DEF HeldAhead
  <2>4. ScannedComplete'
    <3>1. ASSUME NEW x \in Miners \ todo, NEW t \in Times \ skipped,
                 Updating, t <= cur.ts, round = NoRound => t > cur.start
          PROVE  settled[x][t] + cur.tally[x][t] + late'[x][t] >= earned'[x][t]
      <4>1. Passed(x, t)
        BY <3>1 DEF Passed
      <4>2. QED
        BY <1>t, <2>2, <3>1, <4>1, Numbers, NumbersNext DEF ScannedComplete
    <3>2. QED
      BY <2>1, <3>1 DEF ScannedComplete
  <2>5. CountedAtLeastOnce'
    <3>1. ASSUME NEW x \in Miners, NEW t \in Times \ skipped, t <= round.ts
          PROVE  settled[x][t] + round.tally[x][t] + late'[x][t] >= earned'[x][t]
      <4>1. Passed(x, t)
        BY <3>1 DEF Passed
      <4>2. QED
        BY <1>t, <2>2, <3>1, <4>1, Numbers, NumbersNext DEF CountedAtLeastOnce
    <3>2. QED
      BY <2>1, <3>1 DEF CountedAtLeastOnce
  <2>6. QED
    BY <2>3, <2>4, <2>5
<1>5. ASSUME NEW p \in Miners \cup {Timer}, BeginUpdate(p) PROVE Complete'
    BY <1>5 DEF BeginUpdate, HeldAhead, ScannedComplete, CountedAtLeastOnce
<1>6. CASE WriteMinerStats
    BY <1>6 DEF WriteMinerStats, HeldAhead, ScannedComplete, CountedAtLeastOnce
<1>7. CASE WriteCandidate
    BY <1>7 DEF WriteCandidate, HeldAhead, ScannedComplete, CountedAtLeastOnce
<1>8. CASE ReadRound
    BY <1>8 DEF ReadRound, HeldAhead, ScannedComplete, CountedAtLeastOnce
<1>9. ASSUME NEW m \in Miners, ScanMiner(m) PROVE Complete'
  <2>1. /\ UNCHANGED <<shares, round, stage, earned, late, settled, skipped>>
        /\ todo' = todo \ {m} /\ m \in todo /\ stage = "scan"
        /\ cur'.start = cur.start /\ cur'.ts = cur.ts
    BY <1>9, ScanAt DEF ScanMiner
  <2>2. ASSUME NEW x \in Miners \ todo', NEW t \in Times \ skipped,
               t <= cur.ts, round = NoRound => t > cur.start
        PROVE  settled[x][t] + cur'.tally[x][t] + late[x][t] >= earned[x][t]
    <3>1. cur'.tally[x][t] =
            cur.tally[x][t] + IF x = m /\ InWindow(t) THEN shares[x][t] ELSE 0
      BY <1>9, ScanAt
    <3>2. CASE x # m
      BY <2>1, <2>2, <3>1, <3>2, Numbers DEF ScannedComplete
    <3>3. CASE x = m
      <4>1. /\ cur.tally[x][t] = round.tally[x][t] /\ round.ts <= cur.start
            /\ round # NoRound => cur.start = round.ts
        BY <2>1, <3>3 DEF Once, WindowCounted
      <4>2. CASE InWindow(t)
        <5>1. t > round.ts
          BY <4>1, <4>2, Numbers DEF InWindow
        <5>2. QED
          BY <3>1, <3>3, <4>1, <4>2, <5>1, Numbers DEF HeldAhead
      <4>3. CASE ~InWindow(t)
        <5>1. t <= round.ts
          BY <2>2, <4>1, <4>3, Numbers DEF InWindow
        <5>2. QED
          BY <3>1, <4>1, <4>3, <5>1, Numbers DEF CountedAtLeastOnce
      <4>4. QED
        BY <4>2, <4>3
    <3>4. QED
      BY <3>2, <3>3
  <2>3. ScannedComplete'
    BY <2>1, <2>2 DEF ScannedComplete
  <2>4. QED
    BY <2>1, <2>3 DEF HeldAhead, CountedAtLeastOnce
<1>10. CASE ScanDone
    BY <1>10 DEF ScanDone, HeldAhead, ScannedComplete, CountedAtLeastOnce
<1>11. CASE WriteRoundShares
    BY <1>11 DEF WriteRoundShares, HeldAhead, ScannedComplete,
                 CountedAtLeastOnce
<1>12. CASE OverwritePoolRoundStats
  <2>1. /\ UNCHANGED <<shares, earned, late>> /\ stage' = "idle"
        /\ stage = "store" /\ todo = {}
        /\ skipped' =
              skipped \cup {t \in Times : round = NoRound /\ t <= cur.start}
    BY <1>12 DEF OverwritePoolRoundStats, EndUpdate, Once, WindowCounted
  <2>2. ASSUME NEW m \in Miners, NEW t \in Times \ skipped', t <= cur.ts
        PROVE  settled'[m][t] + round'.tally[m][t] + late[m][t] >= earned[m][t]
    <3>1. t \notin skipped /\ (round = NoRound => t > cur.start)
      BY <2>1, Numbers
    <3>2. settled[m][t] + cur.tally[m][t] + late[m][t] >= earned[m][t]
      BY <2>1, <2>2, <3>1 DEF ScannedComplete
    <3>3. QED
      BY <1>12, <3>2, RoundStored
  <2>3. ASSUME NEW m \in Miners, NEW t \in Times \ skipped', t > cur.ts
        PROVE  settled'[m][t] + round'.tally[m][t] + late[m][t] + shares[m][t]
                 >= earned[m][t]
    <3>1. t \notin skipped /\ round.tally[m][t] <= cur.tally[m][t]
      BY <2>1 DEF Once, WindowCounted
    <3>2. settled[m][t] + round.tally[m][t] + late[m][t] + shares[m][t]
            >= earned[m][t]
      BY <3>1, Numbers DEF HeldAhead, CountedAtLeastOnce
    <3>3. settled'[m][t] + round'.tally[m][t] = settled[m][t] + cur.tally[m][t]
      BY <1>12, RoundStored
    <3>4. QED
      BY <3>1, <3>2, <3>3, Numbers
  <2>4. CountedAtLeastOnce'
    <3>1. ASSUME NEW m \in Miners, NEW t \in Times \ skipped', t <= round'.ts
          PROVE  settled'[m][t] + round'.tally[m][t] + late[m][t] >= earned[m][t]
      <4>1. t <= cur.ts
        BY <1>12, <3>1, RoundStored, Numbers
      <4>2. QED
        BY <2>2, <4>1
    <3>2. QED
      BY <2>1, <3>1 DEF CountedAtLeastOnce
  <2>5. HeldAhead'
    <3>1. ASSUME NEW m \in Miners, NEW t \in Times \ skipped'
          PROVE  settled'[m][t] + round'.tally[m][t] + late[m][t] + shares[m][t]
                   >= earned[m][t]
      BY <1>t, <2>2, <2>3, Numbers, NumbersNext
    <3>2. QED
      BY <2>1, <3>1 DEF HeldAhead
  <2>6. ScannedComplete'
    BY <2>1 DEF ScannedComplete
  <2>7. QED
    BY <2>4, <2>5, <2>6
<1>13. ASSUME NEW h \in Heights, OrphanBlock(h) PROVE Complete'
    BY <1>13 DEF OrphanBlock, HeldAhead, ScannedComplete, CountedAtLeastOnce
<1>14. ASSUME NEW S \in SUBSET Miners, Crash(S) PROVE Complete'
  <2>1. UNCHANGED <<round, earned, settled, skipped>> /\ stage' = "idle"
    BY <1>14 DEF Crash
  <2>2. ASSUME NEW m \in Miners, NEW t \in Times
        PROVE  late'[m][t] = IF t > round.ts
                             THEN late[m][t] + (shares[m][t] - shares'[m][t])
                             ELSE late[m][t]
    BY <1>14 DEF Crash
  <2>3. HeldAhead'
    BY <1>t, <2>1, <2>2, Numbers, NumbersNext DEF HeldAhead
  <2>4. CountedAtLeastOnce'
    BY <2>1, <2>2, Numbers DEF CountedAtLeastOnce
  <2>5. QED
    BY <2>1, <2>3, <2>4 DEF ScannedComplete
<1>15. CASE UNCHANGED vars
    BY <1>15 DEF vars, HeldAhead, ScannedComplete, CountedAtLeastOnce
<1>16. QED
    BY <1>1, <1>2, <1>3, <1>4, <1>5, <1>6, <1>7, <1>8, <1>9, <1>10, <1>11,
       <1>12, <1>13, <1>14, <1>15 DEF Next, Update

(* Every share of the seconds that the stored round has passed is counted  *)
(* (the windows of UpdatePoolRoundStats join, storage.go:1444-1475), but   *)
(* for those added too late or lost with the memory of the process, and    *)
(* those from before the first stored round.                               *)
THEOREM NoShareLeftOut == Spec => []CountedAtLeastOnce
<1>1. Complete => CountedAtLeastOnce
    BY DEF Complete
<1>2. QED
    BY <1>1, InitControl, NextType, NextControl, InitOnce, NextOnce,
       InitComplete, NextComplete, PTL DEF Spec

-----------------------------------------------------------------------------
(* What replaces a closed round.                                           *)

(* Rounds are written of blocks that were found, and the block of a finder *)
(* who updates the round is one of them.  Before that finder has closed    *)
(* the round, its height has one only if it has had another block.         *)
BlocksFound ==
    /\ written \subseteq found
    /\ \A h \in Heights \ found : behind[h] = {}
    /\ writer \in Miners /\ stage \in {"read", "scan", "close", "store"} =>
           /\ mine[writer] \in found
           /\ mine[writer] \in written /\ stage # "store" =>
                  behind[mine[writer]] # {}

(* What an update has decided stays true until it ends: nobody else writes *)
(* blocks or rounds meanwhile.                                             *)
Decided ==
    Updating =>
        /\ reference = referenceBlock
        /\ nextRound = ClosesRound(reference)
        /\ cur.last = Window(reference).last
        /\ round = NoRound /\ reference # 0 => cur.start = blocks[reference]
        /\ round # NoRound => cur.start = round.ts
        /\ cur.ts <= clock
        /\ ~nextRound => cur.start <= cur.ts

(* The stored round begins no earlier than the block before it, if that is *)
(* the only one of its height.                                             *)
RoundBegun ==
    round # NoRound =>
        /\ round.ts <= clock /\ round.start <= round.ts
        /\ round.last # 0 =>
               /\ round.last \in found
               /\ behind[round.last] = {} => blocks[round.last] <= round.start

InTurn == BlocksFound /\ Decided /\ RoundBegun

LEMMA InitInTurn == Init => InTurn
BY DEF Init, InTurn, BlocksFound, Decided, RoundBegun, Updating

(* The reference is the highest block, and one that was found. *)
LEMMA ReferenceIsTop ==
    ASSUME TypeOK, referenceBlock # 0
    PROVE  /\ referenceBlock \in found
           /\ \A g \in found : g <= referenceBlock
<1>1. \E h \in found : \A g \in found : g <= h
    BY DEF referenceBlock
<1> QED
    BY <1>1 DEF referenceBlock

(* Steps that leave blocks, rounds and updates alone. *)
LEMMA DecidedStays ==
    ASSUME TypeOK, Decided, RoundBegun, clock' \in Int, clock <= clock',
           UNCHANGED <<found, blocks, behind, round, reference, nextRound>>,
           Updating' => Updating /\ writer' = writer,
           cur'.last = cur.last, cur'.start = cur.start, cur'.ts = cur.ts
    PROVE  Decided' /\ RoundBegun'
<1>1. RoundBegun'
    BY DEF RoundBegun, TypeOK, PoolRounds, Times
<1>2. referenceBlock' = referenceBlock
    BY DEF referenceBlock
<1>3. Updating' =>
          /\ ClosesRound(reference)' = ClosesRound(reference)
          /\ Window(reference)'.last = Window(reference).last
    BY DEF ClosesRound, Window
<1>4. Decided'
    BY <1>2, <1>3 DEF Decided, TypeOK, PoolRounds, Times
<1> QED
    BY <1>1, <1>4

LEMMA ReadDecides ==
    ASSUME TypeOK, Control, RoundBegun, ReadRound
    PROVE  Decided'
<1> DEFINE ref == referenceBlock
<1>1. /\ reference' = ref /\ nextRound' = ClosesRound(ref)
      /\ cur' = Window(ref)
      /\ UNCHANGED <<clock, found, blocks, round, writer>>
    BY DEF ReadRound, store
<1>2. /\ referenceBlock' = ref
      /\ \A r : /\ ClosesRound(r)' = ClosesRound(r)
               /\ Window(r)'.last = Window(r).last
    BY <1>1 DEF referenceBlock, ClosesRound, Window
<1>3. /\ clock \in Nat /\ round.ts \in Int
      /\ ref # 0 => /\ ref \in Heights /\ blocks[ref] \in Nat
                    /\ blocks[ref] <= clock
    BY ReferenceBlock DEF TypeOK, Times, PoolRounds, Control, ClosingBlock
<1>4. ClosesRound(ref) => ref # 0
    BY DEF ClosesRound
<1> HIDE DEF ref
<1>5. CASE round = NoRound
  <2>1. /\ Window(ref).start = IF ref = 0 THEN 0 ELSE blocks[ref]
        /\ Window(ref).ts = clock
      BY <1>5 DEF Window
  <2> QED
      BY <1>1, <1>2, <1>3, <1>5, <2>1 DEF Decided
<1>6. CASE round # NoRound
  <2>1. /\ Window(ref).start = round.ts
        /\ Window(ref).ts = IF ClosesRound(ref) THEN blocks[ref] ELSE clock
      BY <1>6 DEF Window
  <2>2. round.ts <= clock
      BY <1>6 DEF RoundBegun
  <2> QED
      BY <1>1, <1>2, <1>3, <1>4, <1>6, <2>1, <2>2 DEF Decided
<1> QED
    BY <1>5, <1>6

LEMMA StoredBegins ==
    ASSUME TypeOK, Control, Decided, RoundBegun, OverwritePoolRoundStats
    PROVE  RoundBegun'
<1>1. /\ round' = Opened /\ UNCHANGED <<clock, found, blocks, behind>>
      /\ Updating
    BY DEF OverwritePoolRoundStats, Updating
<1>2. /\ reference = referenceBlock /\ nextRound = ClosesRound(reference)
      /\ cur.last = Window(reference).last
      /\ cur.ts \in Int /\ cur.start \in Int /\ round.start \in Int
      /\ round.ts \in Int /\ clock \in Int
    BY <1>1 DEF Decided, TypeOK, PoolRounds, Times
<1>3. reference # 0 =>
          /\ reference \in Heights /\ reference \in found
          /\ blocks[reference] \in Nat /\ blocks[reference] <= clock
    BY <1>2, ReferenceBlock, ReferenceIsTop DEF TypeOK, Control, ClosingBlock
<1>4. CASE nextRound
  <2>1. reference # 0 /\ cur.last = reference
    <3>1. reference # 0
        BY <1>2, <1>4 DEF ClosesRound
    <3>2. Window(reference).last = reference
        BY <1>2, <1>4, <3>1 DEF Window
    <3> QED
        BY <1>2, <3>1, <3>2
  <2>2. /\ round'.start = blocks[reference] /\ round'.ts = blocks[reference]
        /\ round'.last = reference
      BY <1>1, <1>4, <2>1 DEF Opened
  <2> QED
      BY <1>1, <1>2, <1>3, <2>1, <2>2 DEF RoundBegun
<1>5. CASE ~nextRound
  <2>1. round' = cur
      BY <1>1, <1>5 DEF Opened
  <2>2. cur.start <= cur.ts /\ cur.ts <= clock
      BY <1>1, <1>5 DEF Decided
  <2>3. cur.last # 0 =>
            /\ cur.last \in found
            /\ behind[cur.last] = {} => blocks[cur.last] <= cur.start
    <3>1. CASE round = NoRound
      <4>1. cur.last = reference
          BY <1>2, <3>1 DEF Window
      <4>2. reference # 0 => cur.start = blocks[reference]
          BY <1>1, <3>1 DEF Decided
      <4> QED
          BY <1>2, <1>3, <4>1, <4>2
    <3>2. CASE round # NoRound
      <4>1. cur.last = IF reference = 0 THEN 0 ELSE round.last
          BY <1>2, <1>5, <3>2 DEF Window
      <4>2. cur.start = round.ts /\ round.start <= round.ts
          BY <1>1, <3>2 DEF Decided, RoundBegun
      <4>3. round.last # 0 =>
                /\ round.last \in found
                /\ behind[round.last] = {} => blocks[round.last] <= round.start
          BY <3>2 DEF RoundBegun
      <4>4. round.last # 0 => blocks[round.last] \in Int
          BY <4>3 DEF TypeOK
      <4> QED
          BY <1>2, <4>1, <4>2, <4>3, <4>4
    <3> QED
        BY <3>1, <3>2
  <2> QED
      BY <1>1, <2>1, <2>2, <2>3 DEF RoundBegun
<1> QED
    BY <1>4, <1>5

LEMMA NextInTurn ==
    TypeOK /\ Control /\ InTurn /\ [Next]_vars => InTurn'
<1> SUFFICES ASSUME TypeOK, Control, InTurn, [Next]_vars PROVE InTurn'
    OBVIOUS
<1> USE DEF session, store, update, history
<1>0. BlocksFound /\ Decided /\ RoundBegun /\ clock \in Int
    BY DEF InTurn, TypeOK, Times
<1>a. ASSUME UNCHANGED <<found, blocks, behind, round, reference, nextRound,
                         clock, writer, cur>>,
             Updating' => Updating
      PROVE  Decided' /\ RoundBegun'
    BY <1>0, <1>a, DecidedStays
<1>b. ASSUME UNCHANGED <<found, behind, written, writer, stage>>,
             writer \in Miners => mine'[writer] = mine[writer]
      PROVE  BlocksFound'
    BY <1>0, <1>b DEF BlocksFound
<1>1. CASE Tick
  <2>1. UNCHANGED <<mine, found, blocks, behind, written, writer, stage,
                    round, reference, nextRound, cur>>
        /\ clock' \in Int /\ clock <= clock'
      BY <1>0, <1>1 DEF Tick
  <2>2. Decided' /\ RoundBegun'
      BY <1>0, <2>1, DecidedStays DEF Updating
  <2> QED
      BY <1>b, <2>1, <2>2 DEF InTurn
<1>2. ASSUME NEW m \in Miners, StampShare(m) PROVE InTurn'
    BY <1>a, <1>b, <1>2 DEF StampShare, InTurn, Updating
<1>3. ASSUME NEW m \in Miners, NEW h \in Heights, FindBlock(m, h)
      PROVE  InTurn'
  <2>1. /\ UNCHANGED <<found, blocks, behind, written, writer, stage, round,
                       reference, nextRound, cur, clock>>
        /\ pc[m] = "idle" /\ \A k \in Miners \ {m} : mine'[k] = mine[k]
      BY <1>3 DEF FindBlock, TypeOK
  <2>2. writer # m
      BY <2>1 DEF Control, WriterWaits
  <2> QED
      BY <1>a, <1>b, <2>1, <2>2 DEF InTurn, Updating
<1>4. ASSUME NEW m \in Miners, Session(m) PROVE InTurn'
  <2>1. /\ UNCHANGED <<found, blocks, behind, written, writer, stage, round,
                       reference, nextRound, cur, clock>>
        /\ pc[m] # "wait" /\ \A k \in Miners \ {m} : mine'[k] = mine[k]
      BY <1>4 DEF Session, StoreShare, StoreFinderShare, AddShare, Return,
                  TypeOK
  <2>2. writer # m
      BY <2>1 DEF Control, WriterWaits
  <2> QED
      BY <1>a, <1>b, <2>1, <2>2 DEF InTurn, Updating
<1>5. ASSUME NEW p \in Miners \cup {Timer}, BeginUpdate(p) PROVE InTurn'
  <2>1. /\ UNCHANGED <<found, blocks, behind, written, round, reference,
                       nextRound, cur, clock>>
        /\ stage' = "stats"
      BY <1>5 DEF BeginUpdate
  <2>2. BlocksFound'
      BY <1>0, <2>1 DEF BlocksFound
  <2>3. Decided' /\ RoundBegun'
      BY <1>0, <2>1, DecidedStays DEF Updating
  <2> QED
      BY <2>2, <2>3 DEF InTurn
<1>6. CASE WriteMinerStats
  <2>1. /\ UNCHANGED <<mine, found, blocks, behind, written, round,
                       reference, nextRound, cur, clock, writer>>
        /\ stage = "stats"
        /\ stage' = IF writer = Timer THEN "read" ELSE "block"
      BY <1>6 DEF WriteMinerStats
  <2>2. BlocksFound'
      BY <1>0, <2>1, ProcsAssumption DEF BlocksFound
  <2> QED
      BY <1>a, <2>1, <2>2 DEF InTurn, Updating
<1>7. CASE WriteCandidate
  <2> DEFINE h == mine[writer]
  <2>1. /\ UNCHANGED <<mine, written, round, reference, nextRound, cur, clock,
                       writer>>
        /\ stage = "block" /\ stage' = "read"
        /\ found' = found \cup {h}
        /\ blocks' = [blocks EXCEPT ![h] = stamp[writer]]
        /\ behind' = [behind EXCEPT ![h] =
                         IF h \in found THEN @ \cup {blocks[h]} ELSE @]
      BY <1>7 DEF WriteCandidate
  <2>2. writer \in Miners /\ h \in Heights
      BY <2>1 DEF Control, WriterWaits, Sessions
  <2>3. /\ h \in found => behind'[h] # {}
        /\ \A g \in Heights \ {h} : /\ behind'[g] = behind[g]
                                     /\ blocks'[g] = blocks[g]
      BY <2>1, <2>2 DEF TypeOK
  <2> HIDE DEF h
  <2>4. BlocksFound'
    <3>1. written' \subseteq found' /\ mine'[writer'] \in found'
        BY <1>0, <2>1 DEF BlocksFound, h
    <3>2. \A g \in Heights \ found' : behind'[g] = {}
        BY <1>0, <2>1, <2>3 DEF BlocksFound
    <3>3. h \in written => behind'[h] # {}
        BY <1>0, <2>3 DEF BlocksFound
    <3> QED
        BY <2>1, <3>1, <3>2, <3>3 DEF BlocksFound, h
  <2>5. RoundBegun'
    <3>1. ASSUME round # NoRound, round.last # 0, behind'[round.last] = {}
          PROVE  blocks'[round.last] <= round.start
      <4>1. round.last \in found /\ round.last \in Heights
          BY <1>0, <3>1 DEF RoundBegun, TypeOK
      <4>2. round.last # h
          BY <2>3, <3>1, <4>1
      <4> QED
          BY <1>0, <2>3, <3>1, <4>1, <4>2 DEF RoundBegun
    <3> QED
        BY <1>0, <2>1, <3>1 DEF RoundBegun
  <2>6. Decided'
      BY <2>1 DEF Decided, Updating
  <2> QED
      BY <2>4, <2>5, <2>6 DEF InTurn
<1>8. CASE ReadRound
  <2>1. /\ UNCHANGED <<mine, found, blocks, behind, written, round, writer,
                       clock>>
        /\ stage = "read" /\ stage' = "scan"
      BY <1>8 DEF ReadRound
  <2>2. BlocksFound'
      BY <1>0, <2>1 DEF BlocksFound
  <2>3. RoundBegun'
      BY <1>0, <2>1 DEF RoundBegun
  <2>4. Decided'
      BY <1>0, <1>8, ReadDecides
  <2> QED
      BY <2>2, <2>3, <2>4 DEF InTurn
<1>9. ASSUME NEW m \in Miners, ScanMiner(m) PROVE InTurn'
  <2>1. UNCHANGED <<mine, found, blocks, behind, written, writer, stage,
                    round, reference, nextRound, clock>>
      BY <1>9 DEF ScanMiner
  <2>2. cur'.start = cur.start /\ cur'.ts = cur.ts /\ cur'.last = cur.last
      BY <1>9, ScanAt
  <2>3. Decided' /\ RoundBegun'
      BY <1>0, <2>1, <2>2, DecidedStays DEF Updating
  <2> QED
      BY <1>b, <2>1, <2>3 DEF InTurn
<1>10. CASE ScanDone
  <2>1. /\ UNCHANGED <<mine, found, blocks, behind, written, writer, round,
                       reference, nextRound, cur, clock>>
        /\ stage = "scan" /\ stage' \in {"close", "store"}
      BY <1>10 DEF ScanDone
  <2>2. BlocksFound'
      BY <1>0, <2>1 DEF BlocksFound
  <2> QED
      BY <1>a, <2>1, <2>2 DEF InTurn, Updating
<1>11. CASE WriteRoundShares
  <2>1. /\ UNCHANGED <<mine, found, blocks, behind, writer, round, reference,
                       nextRound, cur, clock>>
        /\ stage = "close" /\ stage' = "store"
        /\ written' = written \cup {reference}
      BY <1>11 DEF WriteRoundShares
  <2>2. reference \in found
    <3>1. reference = referenceBlock /\ reference # 0
        BY <1>0, <2>1, BoundsAssumption
           DEF Decided, Updating, Control, ClosingBlock, Heights
    <3> QED
        BY <3>1, ReferenceIsTop
  <2>3. BlocksFound'
      BY <1>0, <2>1, <2>2 DEF BlocksFound
  <2> QED
      BY <1>a, <2>1, <2>3 DEF InTurn, Updating
<1>12. CASE OverwritePoolRoundStats
  <2>1. /\ UNCHANGED <<found, behind, written>>
        /\ writer' = None /\ stage' = "idle"
      BY <1>12 DEF OverwritePoolRoundStats, EndUpdate
  <2>2. BlocksFound'
      BY <1>0, <2>1 DEF BlocksFound
  <2>3. RoundBegun'
      BY <1>0, <1>12, StoredBegins
  <2>4. Decided'
      BY <2>1 DEF Decided, Updating
  <2> QED
      BY <2>2, <2>3, <2>4 DEF InTurn
<1>13. ASSUME NEW h \in Heights, OrphanBlock(h) PROVE InTurn'
  <2>1. /\ UNCHANGED <<found, behind, written, round, writer, stage, clock>>
        /\ stage = "idle"
        /\ \E t \in behind[h] \cup {0} : blocks' = [blocks EXCEPT ![h] = t]
      BY <1>13 DEF OrphanBlock, TypeOK
  <2>2. BlocksFound'
      BY <1>0, <2>1 DEF BlocksFound
  <2>3. RoundBegun'
    <3>1. ASSUME NEW g \in Heights, behind[g] = {}
          PROVE  /\ blocks[g] \in Nat /\ blocks'[g] \in Nat
                 /\ blocks'[g] <= blocks[g]
        BY <2>1, <3>1 DEF TypeOK
    <3>2. found \subseteq Heights /\ round.start \in Int
        BY DEF TypeOK, PoolRounds
    <3> QED
        BY <1>0, <2>1, <3>1, <3>2 DEF RoundBegun
  <2>4. Decided'
      BY <2>1 DEF Decided, Updating
  <2> QED
      BY <2>2, <2>3, <2>4 DEF InTurn
<1>14. ASSUME NEW S \in SUBSET Miners, Crash(S) PROVE InTurn'
  <2>1. /\ UNCHANGED <<found, blocks, behind, written, round, clock>>
        /\ writer' = None /\ stage' = "idle"
      BY <1>14 DEF Crash
  <2>2. BlocksFound'
      BY <1>0, <2>1 DEF BlocksFound
  <2>3. RoundBegun'
      BY <1>0, <2>1 DEF RoundBegun
  <2>4. Decided'
      BY <2>1 DEF Decided, Updating
  <2> QED
      BY <2>2, <2>3, <2>4 DEF InTurn
<1>15. CASE UNCHANGED vars
    BY <1>a, <1>b, <1>15 DEF vars, InTurn, Updating
<1>16. QED
    BY <1>1, <1>2, <1>3, <1>4, <1>5, <1>6, <1>7, <1>8, <1>9, <1>10, <1>11,
       <1>12, <1>13, <1>14, <1>15 DEF Next, Update

LEMMA SpecInTurn == Spec => [](TypeOK /\ Control /\ InTurn)
<1>1. Init => TypeOK /\ Control /\ InTurn
    BY InitControl, InitInTurn
<1>2. (TypeOK /\ Control /\ InTurn) /\ [Next]_vars
          => (TypeOK /\ Control /\ InTurn)'
    BY NextType, NextControl, NextInTurn
<1> QED
    BY <1>1, <1>2, PTL DEF Spec

(* What may happen to the round of a block that has one. *)
ReplacedOnlyIfOvertaken ==
    [][\A h \in written : round.last >= h /\ rounds'[h] # rounds[h] =>
           \/ writer \in Miners /\ mine[writer] < h
           \/ behind[h] # {}]_vars

(* Only WriteRoundShares writes rounds. *)
LEMMA RoundsWritten ==
    ASSUME Next, rounds' # rounds
    PROVE  WriteRoundShares
BY DEF Next, Tick, StampShare, FindBlock, Session, StoreShare, StoreFinderShare,
       AddShare, Update, BeginUpdate, WriteMinerStats, WriteCandidate, ReadRound,
       ScanMiner, ScanDone, OverwritePoolRoundStats, OrphanBlock, Crash, store

LEMMA OvertakenStep ==
    ASSUME TypeOK, Control, InTurn, Next, NEW h \in written,
           round.last >= h, rounds'[h] # rounds[h], behind[h] = {}
    PROVE  writer \in Miners /\ mine[writer] < h
<1>1. /\ stage = "close" /\ rounds' = [rounds EXCEPT ![reference] = cur.tally]
      /\ nextRound
    BY RoundsWritten DEF WriteRoundShares, Control, ClosingBlock
<1>2. h \in Heights /\ h \in found
    BY DEF TypeOK, InTurn, BlocksFound
<1>3. h = reference
    BY <1>1, <1>2 DEF TypeOK
<1>4. reference = referenceBlock /\ ClosesRound(reference)
    BY <1>1 DEF InTurn, Decided, Updating
<1>5. \A g \in found : g <= h
    BY <1>2, <1>3, <1>4, ReferenceIsTop DEF Heights
<1>6. round # NoRound /\ round.last # 0
    BY <1>2 DEF NoRound, Heights
<1>7. round.last = h /\ blocks[h] <= round.start
  <2>1. round.last \in found
      BY <1>6 DEF InTurn, RoundBegun
  <2>2. round.last \in Int /\ h \in Int
      BY <1>2 DEF TypeOK, PoolRounds, Heights
  <2>3. round.last = h
      BY <1>5, <2>1, <2>2
  <2> QED
      BY <1>6, <2>3 DEF InTurn, RoundBegun
<1>8. writer # Timer
  <2>1. blocks[h] \in Int /\ round.start \in Int /\ h \in Int
      BY <1>2 DEF TypeOK, PoolRounds, Heights
  <2> QED
      BY <1>3, <1>4, <1>7, <2>1 DEF ClosesRound
<1>9. writer \in Miners
    BY <1>1, <1>8 DEF TypeOK
<1>10. mine[writer] \in found /\ mine[writer] # h
    BY <1>1, <1>9 DEF InTurn, BlocksFound
<1>11. mine[writer] \in Int /\ h \in Int /\ mine[writer] <= h
    BY <1>2, <1>5, <1>9, <1>10 DEF TypeOK, Heights
<1> QED
    BY <1>9, <1>10, <1>11

(* The round a block is paid by is replaced in two cases only: where the   *)
(* pool has found more than one block of that height, whose rounds are one *)
(* key of the store (storage.go:1507); or by the update of a finder whose  *)
(* block is below it, who waited for Writing while that block's round was  *)
(* closed, and now takes it for the reference (storage.go:1416-1478).      *)
(* Neither the timer, a restart, an orphan, nor the finder of a higher     *)
(* block ever does; the pool that finds one block at a time, each of a     *)
(* height of its own, keeps its rounds.                                    *)
THEOREM ReplacedByTheOvertaken == Spec => ReplacedOnlyIfOvertaken
<1> DEFINE Kept == \A h \in written :
               round.last >= h /\ rounds'[h] # rounds[h] =>
                   \/ writer \in Miners /\ mine[writer] < h
                   \/ behind[h] # {}
<1>1. TypeOK /\ Control /\ InTurn /\ [Next]_vars => [Kept]_vars
    BY OvertakenStep
<1> QED
    BY <1>1, SpecInTurn, PTL DEF Spec, ReplacedOnlyIfOvertaken

-----------------------------------------------------------------------------
(* An update leaves no block behind.                                       *)

(* A height has its round, or is the one the first round began with. *)
Given(h) == h \in written \cup {first}
GivenNext(h) == h \in written' \cup {first'}

Closed ==
    /\ round # NoRound /\ round.last # 0 => Given(round.last)
    /\ stage = "store" /\ nextRound => reference \in written

LEMMA ClosedStays ==
    ASSUME Closed, UNCHANGED <<round, written, first>>,
           stage' = "store" /\ nextRound' =>
               stage = "store" /\ nextRound /\ reference' = reference
    PROVE  Closed'
BY DEF Closed, Given

(* The stored round is of the highest block, and that has been given one. *)
LEMMA StoredIsGiven ==
    ASSUME TypeOK, Control, InTurn, Closed, OverwritePoolRoundStats
    PROVE  /\ round'.last # 0 => GivenNext(round'.last)
           /\ referenceBlock # 0 => GivenNext(referenceBlock)
<1>1. /\ stage = "store" /\ round' = Opened /\ UNCHANGED written
      /\ first' = IF round = NoRound /\ ~nextRound THEN reference ELSE first
    BY DEF OverwritePoolRoundStats
<1>2. /\ reference = referenceBlock /\ nextRound = ClosesRound(reference)
      /\ cur.last = Window(reference).last
    BY <1>1 DEF InTurn, Decided, Updating
<1>3. reference # 0 => reference \in Heights /\ reference \in found
    BY <1>2, ReferenceBlock, ReferenceIsTop
<1>4. CASE nextRound
  <2>1. reference # 0 /\ reference \in written
      BY <1>1, <1>2, <1>4 DEF ClosesRound, Closed
  <2>2. cur.last = reference
      BY <1>2, <1>4, <2>1 DEF Window
  <2>3. round'.last = reference
      BY <1>1, <1>4, <2>2 DEF Opened
  <2> QED
      BY <1>1, <1>2, <2>1, <2>3 DEF GivenNext
<1>5. CASE ~nextRound
  <2>1. round'.last = cur.last
      BY <1>1, <1>5 DEF Opened
  <2>2. CASE round = NoRound
    <3>1. cur.last = reference
        BY <1>2, <2>2 DEF Window
    <3>2. GivenNext(reference)
        BY <1>1, <1>5, <2>2 DEF GivenNext
    <3> QED
        BY <1>2, <2>1, <3>1, <3>2
  <2>3. CASE round # NoRound
    <3>1. cur.last = IF reference = 0 THEN 0 ELSE round.last
        BY <1>2, <1>5, <2>3 DEF Window
    <3>2. round.last # 0 => Given(round.last) /\ round.last \in found
        BY <2>3 DEF Closed, InTurn, RoundBegun
    <3>3. round.last # 0 => GivenNext(round.last)
        BY <1>1, <2>3, <3>2 DEF Given, GivenNext
    <3>4. ASSUME reference # 0 PROVE round.last = reference
      <4>1. ~(round.last < reference)
          BY <1>2, <1>5, <2>3, <3>4 DEF ClosesRound
      <4>2. round.last \in Int /\ reference \in Int
          BY DEF TypeOK, PoolRounds
      <4>3. round.last \in found
          BY <1>3, <3>2, <3>4, <4>1 DEF Heights
      <4>4. round.last <= reference
          BY <1>2, <3>4, <4>3, ReferenceIsTop
      <4> QED
          BY <4>1, <4>2, <4>4
    <3> QED
        BY <1>2, <2>1, <3>1, <3>3, <3>4
  <2> QED
      BY <2>2, <2>3
<1> QED
    BY <1>4, <1>5

LEMMA NextClosed ==
    TypeOK /\ Control /\ InTurn /\ Closed /\ [Next]_vars => Closed'
<1> SUFFICES ASSUME TypeOK, Control, InTurn, Closed, [Next]_vars PROVE Closed'
    OBVIOUS
<1> USE DEF session, store, update, history
<1>1. CASE WriteRoundShares
  <2>1. /\ UNCHANGED <<round, first, reference>>
        /\ written' = written \cup {reference}
      BY <1>1 DEF WriteRoundShares
  <2> QED
      BY <2>1 DEF Closed, Given
<1>2. CASE OverwritePoolRoundStats
  <2>1. stage' = "idle"
      BY <1>2 DEF OverwritePoolRoundStats, EndUpdate
  <2> QED
      BY <1>2, <2>1, StoredIsGiven DEF Closed, Given, GivenNext
<1>3. CASE \/ Tick \/ WriteMinerStats \/ WriteCandidate \/ ReadRound
           \/ ScanDone \/ UNCHANGED vars
    BY <1>3, ClosedStays DEF Tick, WriteMinerStats, WriteCandidate, ReadRound,
                             ScanDone, vars
<1>4. ASSUME NEW m \in Miners, StampShare(m) \/ Session(m) \/ ScanMiner(m)
      PROVE  Closed'
    BY <1>4, ClosedStays DEF StampShare, Session, StoreShare,
                             StoreFinderShare, AddShare, ScanMiner
<1>5. ASSUME NEW m \in Miners, NEW h \in Heights, FindBlock(m, h)
      PROVE  Closed'
    BY <1>5, ClosedStays DEF FindBlock
<1>6. ASSUME NEW h \in Heights, OrphanBlock(h) PROVE Closed'
    BY <1>6, ClosedStays DEF OrphanBlock
<1>7. ASSUME NEW p \in Miners \cup {Timer}, BeginUpdate(p) PROVE Closed'
    BY <1>7, ClosedStays DEF BeginUpdate
<1>8. ASSUME NEW S \in SUBSET Miners, Crash(S) PROVE Closed'
    BY <1>8, ClosedStays DEF Crash
<1> QED
    BY <1>1, <1>2, <1>3, <1>4, <1>5, <1>6, <1>7, <1>8 DEF Next, Update

LEMMA SpecClosed == Spec => [](TypeOK /\ Control /\ InTurn /\ Closed)
<1>1. Init => Closed
    BY DEF Init, Closed
<1> QED
    BY <1>1, SpecInTurn, NextClosed, PTL DEF Spec

NoneLeftBehind ==
    [][OverwritePoolRoundStats /\ referenceBlock # 0 =>
           GivenNext(referenceBlock)]_vars

(* Every update that comes to its end leaves the highest block found with  *)
(* its round, whoever ran it and however many were cut before it: what     *)
(* EventuallyClosed owes to the code, the rest of it being that updates go *)
(* on (storage.go:1416-1478).                                              *)
THEOREM UpdatesLeaveNoneBehind == Spec => NoneLeftBehind
<1>1. TypeOK /\ Control /\ InTurn /\ Closed =>
          [OverwritePoolRoundStats /\ referenceBlock # 0 =>
               GivenNext(referenceBlock)]_vars
    BY StoredIsGiven
<1> QED
    BY <1>1, SpecClosed, PTL DEF NoneLeftBehind
=============================================================================
