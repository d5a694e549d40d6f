-------------------------- MODULE Unlocker_proofs ---------------------------
(***************************************************************************)
(* Proofs about Unlocker, for every set of blocks and assignment of        *)
(* heights, distinct or not, and every number of faults.                   *)
(***************************************************************************)
EXTENDS Unlocker, TLAPS

USE BlocksAssumption, BoundsAssumption DEF Fault

-----------------------------------------------------------------------------
(* Type correctness.                                                       *)

LEMMA HeightsOfBlocks == \A b \in Blocks : HeightOf[b] \in Heights
BY DEF Heights

LEMMA InitType == Init => TypeOK
BY DEF Init, TypeOK, Slot, States

LEMMA NextType == TypeOK /\ [Next]_vars => TypeOK'
<1> SUFFICES ASSUME TypeOK, [Next]_vars PROVE TypeOK'
    OBVIOUS
<1> USE HeightsOfBlocks
        DEF TypeOK, node, store, miner, result, unlocker, history, Slot, States
<1>1. CASE ChainGrows
    BY <1>1 DEF ChainGrows
<1>2. ASSUME NEW b \in Blocks, Reorganise(b) \/ FindBlock(b)
      PROVE  TypeOK'
    BY <1>2 DEF Reorganise, FindBlock
<1>3. CASE WriteBlocksFoundByHeightArr
    BY <1>3 DEF WriteBlocksFoundByHeightArr
<1>4. CASE WriteCandidate
    BY <1>4 DEF WriteCandidate
<1>5. ASSUME NEW S \in SUBSET Logins, WriteRoundShares(S)
      PROVE  TypeOK'
    BY <1>5 DEF WriteRoundShares
<1>6. GetBlocksFound(candidate) \subseteq Blocks
        /\ GetBlocksFound(immature) \subseteq Blocks
    BY DEF GetBlocksFound
<1>7. CASE ReadCandidates \/ SelectImmature
    BY <1>6, <1>7 DEF ReadCandidates, SelectImmature
<1>8. ASSUME NEW b \in Blocks, AskCandidate(b) \/ AskImmature(b)
      PROVE  TypeOK'
    BY <1>8 DEF AskCandidate, AskImmature, Ask, unlockCandidatesGrav
<1>9. ASSUME CandidatesAsked \/ OrphansStored \/ NothingToKeep
             \/ ImmaturesAsked \/ ReorphansStored \/ NothingToMature
      PROVE  TypeOK'
    BY <1>9 DEF CandidatesAsked, OrphansStored, NothingToKeep, ImmaturesAsked,
                ReorphansStored, NothingToMature, Goto
<1>10. ASSUME NEW b \in Blocks, StoreOrphan(b) \/ StoreReorphan(b)
       PROVE  TypeOK'
    BY <1>10 DEF StoreOrphan, StoreReorphan, WriteOrphaned
<1>11. CASE KeepBlock
    BY <1>11 DEF KeepBlock, WriteImmatureBlock
<1>12. CASE GetInfo
    BY <1>12 DEF GetInfo
<1>13. ASSUME MatureBlock
       PROVE  TypeOK'
  <2>1. hit \in Blocks
    BY <1>13 DEF MatureBlock
  <2>2. calculateRewardsGrav(hit) \subseteq Logins
    BY <2>1 DEF calculateRewardsGrav
  <2>3. matured' \in [Blocks -> Nat] /\ immature' \in Slot
    BY <1>13, <2>1 DEF MatureBlock, WriteMaturedBlocks
  <2>4. toCredit' \subseteq Logins /\ paid' \in [Blocks -> SUBSET Logins]
    BY <1>13, <2>1, <2>2 DEF MatureBlock
  <2>5. QED
    BY <1>13, <2>3, <2>4 DEF MatureBlock
<1>14. ASSUME NEW l \in Logins, CreditMiner(l)
       PROVE  TypeOK'
  <2>1. credits' = [credits EXCEPT ![hit][l] = credits[hit][l] + 1]
    BY <1>14 DEF CreditMiner
  <2>2. hit \in Blocks
    BY <1>14 DEF CreditMiner
  <2>3. credits[hit] \in [Logins -> Nat] /\ credits[hit][l] + 1 \in Nat
    BY <2>2
  <2>4. [credits[hit] EXCEPT ![l] = credits[hit][l] + 1] \in [Logins -> Nat]
    BY <2>3
  <2>5. credits' \in [Blocks -> [Logins -> Nat]]
    BY <2>1, <2>2, <2>4
  <2>6. QED
    BY <1>14, <2>5 DEF CreditMiner
<1>15. CASE CreditsDone
    BY <1>15 DEF CreditsDone
<1>16. ASSUME NEW S \in SUBSET Logins, Crash(S)
       PROVE  TypeOK'
  <2>1. [round EXCEPT ![HeightOf[finding]] = S] \in [Heights -> SUBSET Logins]
    OBVIOUS
  <2>2. round' \in [Heights -> SUBSET Logins]
    BY <1>16, <2>1 DEF Crash
  <2>3. cut' \subseteq Blocks
    BY <1>16 DEF Crash
  <2>4. QED
    BY <1>16, <2>2, <2>3 DEF Crash
<1>17. CASE UNCHANGED vars
    BY <1>17 DEF vars
<1>18. QED
    BY <1>1, <1>2, <1>3, <1>4, <1>5, <1>7, <1>8, <1>9, <1>10, <1>11, <1>12,
       <1>13, <1>14, <1>15, <1>16, <1>17
       DEF Next, Miner, UnlockCandidates, UnlockAndCredit

(* The unlocker keeps every variable in its type. *)
THEOREM TypeCorrect == Spec => []TypeOK
BY InitType, NextType, PTL DEF Spec

-----------------------------------------------------------------------------
(* The inductive invariant.                                                *)

(* A block stands in the slot of its own height. *)
SlotsPlaced ==
    \A h \in Heights :
        /\ candidate[h] # None => HeightOf[candidate[h]] = h
        /\ immature[h] # None => HeightOf[immature[h]] = h

(* A block the session has not stored yet is nowhere, so that storing it   *)
(* cannot bring back a block that has moved on.                            *)
Fresh(b) ==
    /\ candidate[HeightOf[b]] # b /\ immature[HeightOf[b]] # b
    /\ matured[b] = 0
    /\ b \notin list /\ hit # b

FreshUntilStored ==
    /\ finding # None => finding \in found
    /\ \A b \in Blocks :
          b \notin found \/ (finding = b /\ stage < 2) => Fresh(b)

(* The blocks a pass has in its hands. *)
InHand(b) == b \in list \/ hit = b

(* What the first pass read may have been replaced since, but not have     *)
(* moved on: nobody else moves blocks on.                                  *)
CandidatesInHand ==
    pc \in {"candidates", "orphan", "keep"} =>
        \A b \in Blocks :
            InHand(b) => matured[b] = 0 /\ immature[HeightOf[b]] # b

(* What the second pass read is still immature, and deep enough.           *)
ImmaturesInHand ==
    pc \in {"immatures", "reorphan", "mature"} =>
        \A b \in Blocks :
            InHand(b) => /\ matured[b] = 0 /\ immature[HeightOf[b]] = b
                         /\ DeepEnough(b)

(* The payees still to be credited have not been. *)
Crediting ==
    pc = "credit" =>
        /\ hit \in Blocks
        /\ matured[hit] = 1
        /\ toCredit \subseteq paid[hit]
        /\ \A l \in toCredit : credits[hit][l] = 0

MaturedOnce == \A b \in Blocks : matured[b] <= 1

IInv ==
    /\ TypeOK
    /\ seenHeight <= chainHeight
    /\ SlotsPlaced
    /\ FreshUntilStored
    /\ CandidatesInHand
    /\ ImmaturesInHand
    /\ Crediting
    /\ MaturedOnce
    /\ OnePlace
    /\ CreditedAtMostOnce
    /\ CreditsComplete
    /\ MaturedIsDeep

(* A step, by what it may disturb. *)
Elsewhere ==  \* the node, and what the miner stores beside the blocks
    \/ ChainGrows
    \/ \E b \in Blocks : Reorganise(b) \/ FindBlock(b)
    \/ WriteBlocksFoundByHeightArr
    \/ \E S \in SUBSET Logins : WriteRoundShares(S)

Walk ==       \* the unlocker, from one stage of its passes to the next
    \/ CandidatesAsked \/ OrphansStored \/ NothingToKeep
    \/ GetInfo
    \/ ImmaturesAsked \/ ReorphansStored \/ NothingToMature

Steps ==
    \/ Elsewhere
    \/ Walk
    \/ WriteCandidate
    \/ ReadCandidates \/ SelectImmature
    \/ \E b \in Blocks : AskCandidate(b) \/ AskImmature(b)
    \/ \E b \in Blocks : StoreOrphan(b) \/ StoreReorphan(b)
    \/ KeepBlock
    \/ MatureBlock
    \/ \E l \in Logins : CreditMiner(l)
    \/ CreditsDone
    \/ \E S \in SUBSET Logins : Crash(S)
    \/ UNCHANGED vars

LEMMA ZeroOrOne == \A n \in Nat : n <= 1 => n = 0 \/ n = 1
OBVIOUS

LEMMA StepCases == [Next]_vars => Steps
BY DEF Next, Miner, UnlockCandidates, UnlockAndCredit, Steps, Elsewhere, Walk

LEMMA InitIInv == Init => IInv
BY InitType, HeightsOfBlocks
   DEF Init, IInv, SlotsPlaced, FreshUntilStored, Fresh, CandidatesInHand,
       ImmaturesInHand, Crediting, MaturedOnce, OnePlace, CreditedAtMostOnce,
       CreditsComplete, MaturedIsDeep

LEMMA NextSlotsPlaced ==
    IInv /\ TypeOK' /\ [Next]_vars => SlotsPlaced'
<1> SUFFICES ASSUME IInv, TypeOK', [Next]_vars PROVE SlotsPlaced'
    OBVIOUS
<1> USE HeightsOfBlocks
        DEF IInv, TypeOK, Slot, States, node, store, miner, result, unlocker,
            history, SlotsPlaced
<1>1. CASE WriteCandidate
    BY <1>1 DEF WriteCandidate
<1>2. CASE \E b \in Blocks : StoreOrphan(b) \/ StoreReorphan(b)
    BY <1>2 DEF StoreOrphan, StoreReorphan, WriteOrphaned
<1>3. CASE KeepBlock
    BY <1>3 DEF KeepBlock, WriteImmatureBlock
<1>4. CASE MatureBlock
    BY <1>4 DEF MatureBlock, WriteMaturedBlocks
<1>5. ASSUME \/ Elsewhere
             \/ Walk
             \/ ReadCandidates \/ SelectImmature
             \/ (\E b \in Blocks : AskCandidate(b) \/ AskImmature(b))
             \/ (\E l \in Logins : CreditMiner(l))
             \/ CreditsDone
             \/ (\E S \in SUBSET Logins : Crash(S))
             \/ UNCHANGED vars
      PROVE  SlotsPlaced'
    BY <1>5 DEF Elsewhere, ChainGrows, Reorganise, FindBlock,
               WriteBlocksFoundByHeightArr, WriteRoundShares, Walk,
               CandidatesAsked, OrphansStored, NothingToKeep, GetInfo,
               ImmaturesAsked, ReorphansStored, NothingToMature, Goto,
               ReadCandidates, SelectImmature, GetBlocksFound, AskCandidate,
               AskImmature, Ask, unlockCandidatesGrav, CreditMiner,
               CreditsDone, Crash, vars
<1>6. QED
    BY StepCases, <1>1, <1>2, <1>3, <1>4, <1>5
       DEF Steps

LEMMA NextFreshUntilStored ==
    IInv /\ TypeOK' /\ [Next]_vars => FreshUntilStored'
<1> SUFFICES ASSUME IInv, TypeOK', [Next]_vars PROVE FreshUntilStored'
    OBVIOUS
<1> USE HeightsOfBlocks
        DEF IInv, TypeOK, Slot, States, node, store, miner, result, unlocker,
            history, FreshUntilStored, Fresh
<1>1. CASE Elsewhere
    BY <1>1 DEF Elsewhere, ChainGrows, Reorganise, FindBlock,
               WriteBlocksFoundByHeightArr, WriteRoundShares
<1>2. CASE WriteCandidate
    BY <1>2 DEF WriteCandidate
<1>3. CASE ReadCandidates \/ SelectImmature
    BY <1>3 DEF ReadCandidates, SelectImmature, GetBlocksFound, SlotsPlaced
<1>4. CASE \E b \in Blocks : AskCandidate(b) \/ AskImmature(b)
    BY <1>4 DEF AskCandidate, AskImmature, Ask, unlockCandidatesGrav
<1>5. CASE \E b \in Blocks : StoreOrphan(b) \/ StoreReorphan(b)
    BY <1>5 DEF StoreOrphan, StoreReorphan, WriteOrphaned
<1>6. CASE KeepBlock
    BY <1>6 DEF KeepBlock, WriteImmatureBlock
<1>7. CASE MatureBlock
    BY <1>7 DEF MatureBlock, WriteMaturedBlocks
<1>8. CASE \E S \in SUBSET Logins : Crash(S)
    BY <1>8 DEF Crash
<1>9. ASSUME \/ Walk
             \/ (\E l \in Logins : CreditMiner(l))
             \/ CreditsDone
             \/ UNCHANGED vars
      PROVE  FreshUntilStored'
    BY <1>9 DEF Walk, CandidatesAsked, OrphansStored, NothingToKeep, GetInfo,
               ImmaturesAsked, ReorphansStored, NothingToMature, Goto,
               CreditMiner, CreditsDone, vars
<1>10. QED
    BY StepCases, <1>1, <1>2, <1>3, <1>4, <1>5, <1>6, <1>7, <1>8, <1>9
       DEF Steps

LEMMA NextCandidatesInHand ==
    IInv /\ TypeOK' /\ [Next]_vars => CandidatesInHand'
<1> SUFFICES ASSUME IInv, TypeOK', [Next]_vars PROVE CandidatesInHand'
    OBVIOUS
<1> USE HeightsOfBlocks
        DEF IInv, TypeOK, Slot, States, node, store, miner, result, unlocker,
            history, CandidatesInHand, InHand
<1>1. CASE Walk
    BY <1>1 DEF Walk, CandidatesAsked, OrphansStored, NothingToKeep, GetInfo,
               ImmaturesAsked, ReorphansStored, NothingToMature, Goto
<1>2. CASE ReadCandidates \/ SelectImmature
    BY <1>2 DEF ReadCandidates, SelectImmature, GetBlocksFound, SlotsPlaced,
               OnePlace
<1>3. CASE \E b \in Blocks : AskCandidate(b) \/ AskImmature(b)
    BY <1>3 DEF AskCandidate, AskImmature, Ask, unlockCandidatesGrav
<1>4. CASE KeepBlock
    BY <1>4 DEF KeepBlock, WriteImmatureBlock
<1>5. CASE MatureBlock
    BY <1>5 DEF MatureBlock, WriteMaturedBlocks
<1>6. CASE \E S \in SUBSET Logins : Crash(S)
    BY <1>6 DEF Crash
<1>7. ASSUME \/ Elsewhere
             \/ WriteCandidate
             \/ (\E b \in Blocks : StoreOrphan(b) \/ StoreReorphan(b))
             \/ (\E l \in Logins : CreditMiner(l))
             \/ CreditsDone
             \/ UNCHANGED vars
      PROVE  CandidatesInHand'
    BY <1>7 DEF Elsewhere, ChainGrows, Reorganise, FindBlock,
               WriteBlocksFoundByHeightArr, WriteRoundShares, WriteCandidate,
               StoreOrphan, StoreReorphan, WriteOrphaned, CreditMiner,
               CreditsDone, vars
<1>8. QED
    BY StepCases, <1>1, <1>2, <1>3, <1>4, <1>5, <1>6, <1>7
       DEF Steps

LEMMA NextImmaturesInHand ==
    IInv /\ TypeOK' /\ [Next]_vars => ImmaturesInHand'
<1> SUFFICES ASSUME IInv, TypeOK', [Next]_vars PROVE ImmaturesInHand'
    OBVIOUS
<1> USE HeightsOfBlocks
        DEF IInv, TypeOK, Slot, States, node, store, miner, result, unlocker,
            history, ImmaturesInHand, InHand, DeepEnough
<1>1. CASE Elsewhere
    BY <1>1 DEF Elsewhere, ChainGrows, Reorganise, FindBlock,
               WriteBlocksFoundByHeightArr, WriteRoundShares
<1>2. CASE Walk
    BY <1>2 DEF Walk, CandidatesAsked, OrphansStored, NothingToKeep, GetInfo,
               ImmaturesAsked, ReorphansStored, NothingToMature, Goto
<1>3. CASE ReadCandidates \/ SelectImmature
    BY <1>3 DEF ReadCandidates, SelectImmature, GetBlocksFound, SlotsPlaced,
               OnePlace
<1>4. CASE \E b \in Blocks : AskCandidate(b) \/ AskImmature(b)
    BY <1>4 DEF AskCandidate, AskImmature, Ask, unlockCandidatesGrav
<1>5. CASE KeepBlock
    BY <1>5 DEF KeepBlock, WriteImmatureBlock
<1>6. CASE MatureBlock
    BY <1>6 DEF MatureBlock, WriteMaturedBlocks
<1>7. CASE \E S \in SUBSET Logins : Crash(S)
    BY <1>7 DEF Crash
<1>8. ASSUME \/ WriteCandidate
             \/ (\E b \in Blocks : StoreOrphan(b) \/ StoreReorphan(b))
             \/ (\E l \in Logins : CreditMiner(l))
             \/ CreditsDone
             \/ UNCHANGED vars
      PROVE  ImmaturesInHand'
    BY <1>8 DEF WriteCandidate, StoreOrphan, StoreReorphan, WriteOrphaned,
               CreditMiner, CreditsDone, vars
<1>9. QED
    BY StepCases, <1>1, <1>2, <1>3, <1>4, <1>5, <1>6, <1>7, <1>8
       DEF Steps

LEMMA NextCrediting ==
    IInv /\ TypeOK' /\ [Next]_vars => Crediting'
<1> SUFFICES ASSUME IInv, TypeOK', [Next]_vars PROVE Crediting'
    OBVIOUS
<1> USE HeightsOfBlocks
        DEF IInv, TypeOK, Slot, States, node, store, miner, result, unlocker,
            history, Crediting
<1>1. CASE Walk
    BY <1>1 DEF Walk, CandidatesAsked, OrphansStored, NothingToKeep, GetInfo,
               ImmaturesAsked, ReorphansStored, NothingToMature, Goto
<1>2. CASE \E b \in Blocks : AskCandidate(b) \/ AskImmature(b)
    BY <1>2 DEF AskCandidate, AskImmature, Ask, unlockCandidatesGrav
<1>3. CASE MatureBlock
  <2>1. hit \in Blocks /\ hit' = hit /\ credits' = credits
    BY <1>3 DEF MatureBlock
  <2>2. matured[hit] = 0
    BY <1>3, <2>1 DEF MatureBlock, ImmaturesInHand, InHand
  <2>3. \A l \in Logins : credits[hit][l] = 0
    <3> TAKE l \in Logins
    <3>1. credits[hit] \in [Logins -> Nat]
      BY <2>1
    <3>2. credits[hit][l] \in Nat /\ credits[hit][l] <= 1
      BY <2>1, <3>1 DEF CreditedAtMostOnce
    <3>3. credits[hit][l] # 1
      BY <2>1, <2>2 DEF CreditedAtMostOnce
    <3>4. QED
      BY <3>2, <3>3, ZeroOrOne
  <2>4. matured'[hit] = 1
    BY <1>3, <2>1, <2>2 DEF MatureBlock, WriteMaturedBlocks
  <2>5. toCredit' = paid'[hit]
    BY <1>3, <2>1 DEF MatureBlock
  <2>6. QED
    BY <2>1, <2>3, <2>4, <2>5
<1>4. ASSUME NEW l \in Logins, CreditMiner(l)
      PROVE  Crediting'
    BY <1>4 DEF CreditMiner
<1>5. ASSUME \/ Elsewhere
             \/ WriteCandidate
             \/ ReadCandidates \/ SelectImmature
             \/ (\E b \in Blocks : StoreOrphan(b) \/ StoreReorphan(b))
             \/ KeepBlock
             \/ CreditsDone
             \/ (\E S \in SUBSET Logins : Crash(S))
             \/ UNCHANGED vars
      PROVE  Crediting'
    BY <1>5 DEF Elsewhere, ChainGrows, Reorganise, FindBlock,
               WriteBlocksFoundByHeightArr, WriteRoundShares, WriteCandidate,
               ReadCandidates, SelectImmature, GetBlocksFound, StoreOrphan,
               StoreReorphan, WriteOrphaned, KeepBlock, WriteImmatureBlock,
               CreditsDone, Crash, vars
<1>6. QED
    BY StepCases, <1>1, <1>2, <1>3, <1>4, <1>5
       DEF Steps

LEMMA NextMaturedOnce ==
    IInv /\ TypeOK' /\ [Next]_vars => MaturedOnce'
<1> SUFFICES ASSUME IInv, TypeOK', [Next]_vars PROVE MaturedOnce'
    OBVIOUS
<1> USE HeightsOfBlocks
        DEF IInv, TypeOK, Slot, States, node, store, miner, result, unlocker,
            history, MaturedOnce
<1>1. CASE MatureBlock
    BY <1>1 DEF MatureBlock, WriteMaturedBlocks, ImmaturesInHand, InHand
<1>2. ASSUME \/ Elsewhere
             \/ Walk
             \/ WriteCandidate
             \/ ReadCandidates \/ SelectImmature
             \/ (\E b \in Blocks : AskCandidate(b) \/ AskImmature(b))
             \/ (\E b \in Blocks : StoreOrphan(b) \/ StoreReorphan(b))
             \/ KeepBlock
             \/ (\E l \in Logins : CreditMiner(l))
             \/ CreditsDone
             \/ (\E S \in SUBSET Logins : Crash(S))
             \/ UNCHANGED vars
      PROVE  MaturedOnce'
    BY <1>2 DEF Elsewhere, ChainGrows, Reorganise, FindBlock,
               WriteBlocksFoundByHeightArr, WriteRoundShares, Walk,
               CandidatesAsked, OrphansStored, NothingToKeep, GetInfo,
               ImmaturesAsked, ReorphansStored, NothingToMature, Goto,
               WriteCandidate, ReadCandidates, SelectImmature, GetBlocksFound,
               AskCandidate, AskImmature, Ask, unlockCandidatesGrav,
               StoreOrphan, StoreReorphan, WriteOrphaned, KeepBlock,
               WriteImmatureBlock, CreditMiner, CreditsDone, Crash, vars
<1>3. QED
    BY StepCases, <1>1, <1>2
       DEF Steps

LEMMA NextOnePlace ==
    IInv /\ TypeOK' /\ [Next]_vars => OnePlace'
<1> SUFFICES ASSUME IInv, TypeOK', [Next]_vars PROVE OnePlace'
    OBVIOUS
<1> USE HeightsOfBlocks
        DEF IInv, TypeOK, Slot, States, node, store, miner, result, unlocker,
            history, OnePlace
<1>1. CASE WriteCandidate
    BY <1>1 DEF WriteCandidate, FreshUntilStored, Fresh
<1>2. CASE \E b \in Blocks : StoreOrphan(b) \/ StoreReorphan(b)
    BY <1>2 DEF StoreOrphan, StoreReorphan, WriteOrphaned
<1>3. CASE KeepBlock
    BY <1>3 DEF KeepBlock, WriteImmatureBlock, CandidatesInHand, InHand
<1>4. CASE MatureBlock
    BY <1>4 DEF MatureBlock, WriteMaturedBlocks, ImmaturesInHand, InHand
<1>5. ASSUME \/ Elsewhere
             \/ Walk
             \/ ReadCandidates \/ SelectImmature
             \/ (\E b \in Blocks : AskCandidate(b) \/ AskImmature(b))
             \/ (\E l \in Logins : CreditMiner(l))
             \/ CreditsDone
             \/ (\E S \in SUBSET Logins : Crash(S))
             \/ UNCHANGED vars
      PROVE  OnePlace'
    BY <1>5 DEF Elsewhere, ChainGrows, Reorganise, FindBlock,
               WriteBlocksFoundByHeightArr, WriteRoundShares, Walk,
               CandidatesAsked, OrphansStored, NothingToKeep, GetInfo,
               ImmaturesAsked, ReorphansStored, NothingToMature, Goto,
               ReadCandidates, SelectImmature, GetBlocksFound, AskCandidate,
               AskImmature, Ask, unlockCandidatesGrav, CreditMiner,
               CreditsDone, Crash, vars
<1>6. QED
    BY StepCases, <1>1, <1>2, <1>3, <1>4, <1>5
       DEF Steps

LEMMA NextCreditedAtMostOnce ==
    IInv /\ TypeOK' /\ [Next]_vars => CreditedAtMostOnce'
<1> SUFFICES ASSUME IInv, TypeOK', [Next]_vars PROVE CreditedAtMostOnce'
    OBVIOUS
<1> USE HeightsOfBlocks
        DEF IInv, TypeOK, Slot, States, node, store, miner, result, unlocker,
            history, CreditedAtMostOnce
<1>1. CASE MatureBlock
    BY <1>1 DEF MatureBlock, WriteMaturedBlocks, ImmaturesInHand, InHand
<1>2. ASSUME NEW l \in Logins, CreditMiner(l)
      PROVE  CreditedAtMostOnce'
    BY <1>2 DEF CreditMiner, Crediting
<1>3. ASSUME \/ Elsewhere
             \/ Walk
             \/ WriteCandidate
             \/ ReadCandidates \/ SelectImmature
             \/ (\E b \in Blocks : AskCandidate(b) \/ AskImmature(b))
             \/ (\E b \in Blocks : StoreOrphan(b) \/ StoreReorphan(b))
             \/ KeepBlock
             \/ CreditsDone
             \/ (\E S \in SUBSET Logins : Crash(S))
             \/ UNCHANGED vars
      PROVE  CreditedAtMostOnce'
    BY <1>3 DEF Elsewhere, ChainGrows, Reorganise, FindBlock,
               WriteBlocksFoundByHeightArr, WriteRoundShares, Walk,
               CandidatesAsked, OrphansStored, NothingToKeep, GetInfo,
               ImmaturesAsked, ReorphansStored, NothingToMature, Goto,
               WriteCandidate, ReadCandidates, SelectImmature, GetBlocksFound,
               AskCandidate, AskImmature, Ask, unlockCandidatesGrav,
               StoreOrphan, StoreReorphan, WriteOrphaned, KeepBlock,
               WriteImmatureBlock, CreditsDone, Crash, vars
<1>4. QED
    BY StepCases, <1>1, <1>2, <1>3
       DEF Steps

LEMMA NextCreditsComplete ==
    IInv /\ TypeOK' /\ [Next]_vars => CreditsComplete'
<1> SUFFICES ASSUME IInv, TypeOK', [Next]_vars PROVE CreditsComplete'
    OBVIOUS
<1> USE HeightsOfBlocks
        DEF IInv, TypeOK, Slot, States, node, store, miner, result, unlocker,
            history, CreditsComplete
<1>1. CASE Walk
    BY <1>1 DEF Walk, CandidatesAsked, OrphansStored, NothingToKeep, GetInfo,
               ImmaturesAsked, ReorphansStored, NothingToMature, Goto
<1>2. CASE \E b \in Blocks : AskCandidate(b) \/ AskImmature(b)
    BY <1>2 DEF AskCandidate, AskImmature, Ask, unlockCandidatesGrav
<1>3. CASE MatureBlock
    BY <1>3 DEF MatureBlock, WriteMaturedBlocks, ImmaturesInHand, InHand,
               MaturedOnce
<1>4. ASSUME NEW l \in Logins, CreditMiner(l)
      PROVE  CreditsComplete'
    BY <1>4 DEF CreditMiner, Crediting
<1>5. CASE CreditsDone
    BY <1>5 DEF CreditsDone
<1>6. CASE \E S \in SUBSET Logins : Crash(S)
    BY <1>6 DEF Crash
<1>7. ASSUME \/ Elsewhere
             \/ WriteCandidate
             \/ ReadCandidates \/ SelectImmature
             \/ (\E b \in Blocks : StoreOrphan(b) \/ StoreReorphan(b))
             \/ KeepBlock
             \/ UNCHANGED vars
      PROVE  CreditsComplete'
    BY <1>7 DEF Elsewhere, ChainGrows, Reorganise, FindBlock,
               WriteBlocksFoundByHeightArr, WriteRoundShares, WriteCandidate,
               ReadCandidates, SelectImmature, GetBlocksFound, StoreOrphan,
               StoreReorphan, WriteOrphaned, KeepBlock, WriteImmatureBlock,
               vars
<1>8. QED
    BY StepCases, <1>1, <1>2, <1>3, <1>4, <1>5, <1>6, <1>7
       DEF Steps

LEMMA NextMaturedIsDeep ==
    IInv /\ TypeOK' /\ [Next]_vars => MaturedIsDeep'
<1> SUFFICES ASSUME IInv, TypeOK', [Next]_vars PROVE MaturedIsDeep'
    OBVIOUS
<1> USE HeightsOfBlocks
        DEF IInv, TypeOK, Slot, States, node, store, miner, result, unlocker,
            history, MaturedIsDeep
<1>1. CASE Elsewhere
    BY <1>1 DEF Elsewhere, ChainGrows, Reorganise, FindBlock,
               WriteBlocksFoundByHeightArr, WriteRoundShares
<1>2. CASE MatureBlock
    BY <1>2 DEF MatureBlock, WriteMaturedBlocks, ImmaturesInHand, InHand,
               DeepEnough
<1>3. ASSUME \/ Walk
             \/ WriteCandidate
             \/ ReadCandidates \/ SelectImmature
             \/ (\E b \in Blocks : AskCandidate(b) \/ AskImmature(b))
             \/ (\E b \in Blocks : StoreOrphan(b) \/ StoreReorphan(b))
             \/ KeepBlock
             \/ (\E l \in Logins : CreditMiner(l))
             \/ CreditsDone
             \/ (\E S \in SUBSET Logins : Crash(S))
             \/ UNCHANGED vars
      PROVE  MaturedIsDeep'
    BY <1>3 DEF Walk, CandidatesAsked, OrphansStored, NothingToKeep, GetInfo,
               ImmaturesAsked, ReorphansStored, NothingToMature, Goto,
               WriteCandidate, ReadCandidates, SelectImmature, GetBlocksFound,
               AskCandidate, AskImmature, Ask, unlockCandidatesGrav,
               StoreOrphan, StoreReorphan, WriteOrphaned, KeepBlock,
               WriteImmatureBlock, CreditMiner, CreditsDone, Crash, vars
<1>4. QED
    BY StepCases, <1>1, <1>2, <1>3
       DEF Steps

LEMMA NextIInv == IInv /\ [Next]_vars => IInv'
<1> SUFFICES ASSUME IInv, [Next]_vars PROVE IInv'
    OBVIOUS
<1>1. TypeOK'
    BY NextType DEF IInv
<1>2. (seenHeight <= chainHeight)'
  <2> USE DEF IInv, TypeOK, node, store, miner, result, unlocker, history
  <2>1. CASE Elsewhere
    BY <2>1 DEF Elsewhere, ChainGrows, Reorganise, FindBlock,
                WriteBlocksFoundByHeightArr, WriteRoundShares
  <2>2. CASE GetInfo
    BY <2>2 DEF GetInfo
  <2>3. CASE \E S \in SUBSET Logins : Crash(S)
    BY <2>3 DEF Crash
  <2>4. CASE UNCHANGED <<chainHeight, seenHeight>>
    BY <2>4
  <2>5. QED
    BY StepCases, <2>1, <2>2, <2>3, <2>4
       DEF Steps, Walk, CandidatesAsked, OrphansStored, NothingToKeep,
           ImmaturesAsked, ReorphansStored, NothingToMature, Goto,
           WriteCandidate, ReadCandidates, SelectImmature, AskCandidate,
           AskImmature, Ask, StoreOrphan, StoreReorphan, WriteOrphaned,
           KeepBlock, MatureBlock, CreditMiner, CreditsDone, vars
<1>3. QED
    BY <1>1, <1>2, NextSlotsPlaced, NextFreshUntilStored,
       NextCandidatesInHand, NextImmaturesInHand, NextCrediting,
       NextMaturedOnce, NextOnePlace, NextCreditedAtMostOnce,
       NextCreditsComplete, NextMaturedIsDeep DEF IInv

LEMMA Invariance == Spec => []IInv
BY InitIInv, NextIInv, PTL DEF Spec

-----------------------------------------------------------------------------
(* What follows from it.                                                   *)

(* No login is credited twice for a block, or before the block is matured, *)
(* whatever crashes, reorganisations and blocks of one height there are:   *)
(* the passes of unlocker.go never take a matured block up again.          *)
THEOREM NoDoubleCredit == Spec => []CreditedAtMostOnce
<1>1. IInv => CreditedAtMostOnce
    BY DEF IInv
<1>2. QED
    BY <1>1, Invariance, PTL

(* A crash between WriteMaturedBlocks and the last WritePendingPayments is *)
(* the only way to a matured block that has not credited all its payees.   *)
THEOREM OnlyCrashesCutCredits == Spec => []CreditsComplete
<1>1. IInv => CreditsComplete
    BY DEF IInv
<1>2. QED
    BY <1>1, Invariance, PTL

(* No block is matured before the chain is Depth blocks above it.          *)
THEOREM NothingMaturesEarly == Spec => []MaturedIsDeep
<1>1. IInv => MaturedIsDeep
    BY DEF IInv
<1>2. QED
    BY <1>1, Invariance, PTL

(* A block is never both candidate and immature, or either once matured,   *)
(* although candidates are stored and moved on by different goroutines.    *)
THEOREM BlocksStandInOnePlace == Spec => []OnePlace
<1>1. IInv => OnePlace
    BY DEF IInv
<1>2. QED
    BY <1>1, Invariance, PTL

(* Only a block at the same height takes the place of a block. *)
LEMMA StaysTracked ==
    ASSUME IInv, TypeOK', [Next]_vars, NEW b \in Blocks, OwnHeight(b),
           Tracked(b)
    PROVE  Tracked(b)'
<1> USE HeightsOfBlocks
        DEF IInv, TypeOK, Slot, node, store, miner, result, unlocker, history,
            OwnHeight, Tracked
<1>1. CASE WriteCandidate
    BY <1>1 DEF WriteCandidate
<1>2. CASE \E c \in Blocks : StoreOrphan(c) \/ StoreReorphan(c)
    BY <1>2 DEF StoreOrphan, StoreReorphan, WriteOrphaned
<1>3. CASE KeepBlock
    BY <1>3 DEF KeepBlock, WriteImmatureBlock
<1>4. CASE MatureBlock
    BY <1>4 DEF MatureBlock, WriteMaturedBlocks
<1>5. ASSUME \/ Elsewhere
             \/ Walk
             \/ ReadCandidates \/ SelectImmature
             \/ (\E c \in Blocks : AskCandidate(c) \/ AskImmature(c))
             \/ (\E l \in Logins : CreditMiner(l))
             \/ CreditsDone
             \/ (\E S \in SUBSET Logins : Crash(S))
             \/ UNCHANGED vars
      PROVE  Tracked(b)'
  <2>1. UNCHANGED <<candidate, immature, orphaned, matured>>
    BY <1>5 DEF Elsewhere, ChainGrows, Reorganise, FindBlock,
               WriteBlocksFoundByHeightArr, WriteRoundShares, Walk,
               CandidatesAsked, OrphansStored, NothingToKeep, GetInfo,
               ImmaturesAsked, ReorphansStored, NothingToMature, Goto,
               ReadCandidates, SelectImmature, AskCandidate, AskImmature, Ask,
               unlockCandidatesGrav, CreditMiner, CreditsDone, Crash, vars
  <2>2. QED
    BY <2>1
<1>6. QED
    BY StepCases, <1>1, <1>2, <1>3, <1>4, <1>5 DEF Steps

(* A block at a height of its own is never lost track of, whatever step of *)
(* whichever pass a crash interrupts and whatever the node answers.        *)
THEOREM NoBlockLost == Spec => BlockTracked
<1>1. IInv /\ TypeOK' /\ [Next]_vars =>
          \A b \in Blocks : OwnHeight(b) /\ Tracked(b) => Tracked(b)'
    BY StaysTracked
<1>2. IInv => TypeOK
    BY DEF IInv
<1>3. QED
    BY <1>1, <1>2, Invariance, PTL DEF Spec, BlockTracked

-----------------------------------------------------------------------------
(* The unlocker implements Rewards.                                        *)

(* Only what has been matured is cut short, and it is not paid out again. *)
CutForGood ==
    /\ \A b \in cut : matured[b] > 0
    /\ pc = "credit" => hit \notin cut

LEMMA NextCutForGood ==
    IInv /\ TypeOK' /\ CutForGood /\ [Next]_vars => CutForGood'
<1> SUFFICES ASSUME IInv, TypeOK', CutForGood, [Next]_vars PROVE CutForGood'
    OBVIOUS
<1> USE DEF IInv, TypeOK, node, store, miner, result, unlocker, history,
            CutForGood
<1>1. CASE MatureBlock
    BY <1>1 DEF MatureBlock, WriteMaturedBlocks, ImmaturesInHand, InHand
<1>2. CASE \E S \in SUBSET Logins : Crash(S)
    BY <1>2 DEF Crash, Crediting
<1>3. ASSUME \/ Elsewhere
             \/ Walk
             \/ WriteCandidate
             \/ ReadCandidates \/ SelectImmature
             \/ (\E b \in Blocks : AskCandidate(b) \/ AskImmature(b))
             \/ (\E b \in Blocks : StoreOrphan(b) \/ StoreReorphan(b))
             \/ KeepBlock
             \/ (\E l \in Logins : CreditMiner(l))
             \/ CreditsDone
             \/ UNCHANGED vars
      PROVE  CutForGood'
    BY <1>3 DEF Elsewhere, ChainGrows, Reorganise, FindBlock,
               WriteBlocksFoundByHeightArr, WriteRoundShares, Walk,
               CandidatesAsked, OrphansStored, NothingToKeep, GetInfo,
               ImmaturesAsked, ReorphansStored, NothingToMature, Goto,
               WriteCandidate, ReadCandidates, SelectImmature, AskCandidate,
               AskImmature, Ask, unlockCandidatesGrav, StoreOrphan,
               StoreReorphan, WriteOrphaned, KeepBlock, CreditMiner,
               CreditsDone, vars
<1>4. QED
    BY StepCases, <1>1, <1>2, <1>3 DEF Steps

StatusBar == [b \in Blocks |-> StatusOf(b)]

(* A step that leaves payouts alone. *)
LEMMA Stutter ==
    ASSUME matured' = matured, cut' = cut, paid' = paid, credits' = credits,
           (pc = "credit") <=> (pc' = "credit"),
           (pc = "credit") => (hit' = hit)
    PROVE  UNCHANGED R!vars
<1>1. \A b \in Blocks : StatusOf(b)' = StatusOf(b)
    BY DEF StatusOf
<1>2. QED
    BY <1>1 DEF R!vars

LEMMA SimulateMature ==
    ASSUME IInv, TypeOK', CutForGood, MatureBlock
    PROVE  R!Next
<1> USE DEF IInv, TypeOK
<1>1. hit \in Blocks /\ hit' = hit /\ pc = "mature" /\ pc' = "credit"
    BY DEF MatureBlock, result
<1>2. matured[hit] = 0 /\ matured' = [matured EXCEPT ![hit] = 1]
  <2>1. matured[hit] = 0
    BY <1>1 DEF ImmaturesInHand, InHand
  <2>2. matured' = [matured EXCEPT ![hit] = matured[hit] + 1]
    BY DEF MatureBlock, WriteMaturedBlocks
  <2>3. QED
    BY <2>1, <2>2
<1>3. /\ cut' = cut /\ credits' = credits
      /\ paid' = [paid EXCEPT ![hit] = paid'[hit]]
    BY <1>1 DEF MatureBlock
<1>4. paid'[hit] \in (SUBSET Logins) \ {{}}
    BY <1>1 DEF MatureBlock, calculateRewardsGrav
<1>5. \A b \in Blocks : StatusBar[b] # "paying"
    BY <1>1 DEF StatusBar, StatusOf
<1>6. StatusBar[hit] = "open"
    BY <1>1, <1>2 DEF StatusBar, StatusOf
<1>7. \A b \in Blocks \ {hit} : StatusOf(b)' = StatusOf(b)
    BY <1>1, <1>2, <1>3 DEF StatusOf
<1>8. StatusOf(hit)' = "paying"
    BY <1>1, <1>2 DEF StatusOf
<1>9. StatusBar' = [StatusBar EXCEPT ![hit] = "paying"]
    BY <1>1, <1>7, <1>8 DEF StatusBar
<1>10. R!Settle(hit, paid'[hit])
    BY <1>3, <1>5, <1>6, <1>9 DEF R!Settle, StatusBar
<1>11. QED
    BY <1>1, <1>4, <1>10 DEF R!Next

LEMMA SimulateCredit ==
    ASSUME IInv, TypeOK', NEW l \in Logins, CreditMiner(l)
    PROVE  R!Next
<1> USE DEF IInv, TypeOK
<1>1. /\ hit \in Blocks /\ l \in paid[hit] /\ credits[hit][l] = 0
      /\ matured[hit] = 1 /\ pc = "credit"
    BY DEF CreditMiner, Crediting
<1>2. credits' = [credits EXCEPT ![hit][l] = 1]
    BY <1>1 DEF CreditMiner
<1>3. StatusBar[hit] = "paying"
    BY <1>1 DEF StatusBar, StatusOf
<1>4. StatusBar' = StatusBar /\ paid' = paid
    BY DEF CreditMiner, StatusBar, StatusOf, result, history
<1>5. R!Credit(hit, l)
    BY <1>1, <1>2, <1>3, <1>4 DEF R!Credit, StatusBar
<1>6. QED
    BY <1>1, <1>5 DEF R!Next

(* The payout of hit ends: everyone has been credited, or it is cut short. *)
LEMMA SimulateEnd ==
    ASSUME IInv, CutForGood, pc = "credit", pc' # "credit",
           matured' = matured, paid' = paid, credits' = credits,
           cut' = IF toCredit # {} THEN cut \cup {hit} ELSE cut
    PROVE  R!Next
<1>1. hit \in Blocks /\ matured[hit] = 1 /\ hit \notin cut
    BY DEF IInv, Crediting, CutForGood
<1>2. StatusBar[hit] = "paying"
    BY <1>1 DEF StatusBar, StatusOf
<1>3. \A b \in Blocks \ {hit} : StatusOf(b)' = StatusOf(b)
    BY <1>1 DEF StatusOf
<1>4. CASE toCredit = {}
  <2>1. \A b \in Blocks : b = hit => StatusOf(b)' = "paid"
    BY <1>1, <1>4 DEF StatusOf
  <2>2. StatusBar' = [StatusBar EXCEPT ![hit] = "paid"]
    BY <1>1, <1>3, <2>1 DEF StatusBar
  <2>3. \A l \in paid[hit] : credits[hit][l] = 1
    BY <1>1, <1>4 DEF IInv, CreditsComplete
  <2>4. R!Finish(hit)
    BY <1>2, <2>2, <2>3 DEF R!Finish, R!Paid, StatusBar
  <2>5. QED
    BY <1>1, <2>4 DEF R!Next
<1>5. CASE toCredit # {}
  <2>1. \A b \in Blocks : b = hit => StatusOf(b)' = "cut"
    BY <1>1, <1>5 DEF StatusOf
  <2>2. StatusBar' = [StatusBar EXCEPT ![hit] = "cut"]
    BY <1>1, <1>3, <2>1 DEF StatusBar
  <2>3. PICK l \in toCredit : l \in paid[hit] /\ credits[hit][l] = 0
    BY <1>5 DEF IInv, Crediting
  <2>4. ~R!Paid(hit)
    BY <2>3 DEF R!Paid
  <2>5. R!CutShort(hit)
    BY <1>2, <2>2, <2>4 DEF R!CutShort, StatusBar
  <2>6. QED
    BY <1>1, <2>5 DEF R!Next
<1>6. QED
    BY <1>4, <1>5

LEMMA Simulation ==
    IInv /\ TypeOK' /\ CutForGood /\ [Next]_vars => [R!Next]_(R!vars)
<1> SUFFICES ASSUME IInv, TypeOK', CutForGood, [Next]_vars
             PROVE  R!Next \/ UNCHANGED R!vars
    OBVIOUS
<1> USE DEF node, store, miner, result, unlocker, history
<1>1. CASE MatureBlock
    BY <1>1, SimulateMature
<1>2. CASE \E l \in Logins : CreditMiner(l)
    BY <1>2, SimulateCredit
<1>3. CASE CreditsDone
    BY <1>3, SimulateEnd DEF CreditsDone
<1>4. ASSUME NEW S \in SUBSET Logins, Crash(S)
      PROVE  R!Next \/ UNCHANGED R!vars
  <2>1. CASE pc = "credit"
    BY <1>4, <2>1, SimulateEnd DEF Crash
  <2>2. CASE pc # "credit"
    BY <1>4, <2>2, Stutter DEF Crash, IInv, TypeOK
  <2>3. QED
    BY <2>1, <2>2
<1>5. ASSUME \/ Elsewhere
             \/ Walk
             \/ WriteCandidate
             \/ ReadCandidates \/ SelectImmature
             \/ (\E b \in Blocks : AskCandidate(b) \/ AskImmature(b))
             \/ (\E b \in Blocks : StoreOrphan(b) \/ StoreReorphan(b))
             \/ KeepBlock
             \/ UNCHANGED vars
      PROVE  UNCHANGED R!vars
  <2>1. /\ matured' = matured /\ cut' = cut /\ paid' = paid
        /\ credits' = credits
        /\ (pc = "credit") <=> (pc' = "credit")
        /\ (pc = "credit") => (hit' = hit)
    BY <1>5 DEF Elsewhere, ChainGrows, Reorganise, FindBlock,
               WriteBlocksFoundByHeightArr, WriteRoundShares, Walk,
               CandidatesAsked, OrphansStored, NothingToKeep, GetInfo,
               ImmaturesAsked, ReorphansStored, NothingToMature, Goto,
               WriteCandidate, ReadCandidates, SelectImmature, AskCandidate,
               AskImmature, Ask, unlockCandidatesGrav, StoreOrphan,
               StoreReorphan, WriteOrphaned, KeepBlock, vars
  <2>2. QED
    BY <2>1, Stutter
<1>6. QED
    BY StepCases, <1>1, <1>2, <1>3, <1>4, <1>5 DEF Steps

(* Every behaviour of the unlocker, with its crashes and reorganisations,  *)
(* is one of Rewards: payees are settled once, payouts do not overlap and  *)
(* are not taken up again (unlocker.go:212-258).                           *)
THEOREM UnlockerImplementsRewards == Spec => ImplementsRewards
<1>1. Init => R!Init
    BY DEF Init, R!Init, StatusOf
<1>2. Init => CutForGood
    BY DEF Init, CutForGood
<1>3. IInv => TypeOK
    BY DEF IInv
<1>4. QED
    BY <1>1, <1>2, <1>3, InitIInv, NextIInv, NextCutForGood, Simulation, PTL
       DEF Spec, ImplementsRewards, R!Spec
=============================================================================
