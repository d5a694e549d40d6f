------------------------------ MODULE Unlocker ------------------------------
(***************************************************************************)
(* The life of a found block: stored as a candidate by the miner's session *)
(* (stratum/miner.go), moved by the block unlocker (stratum/unlocker.go)   *)
(* to orphaned, or to immature and then matured, and credited to the       *)
(* payees of its round.  The unlocker is one goroutine; it runs its two    *)
(* passes once per interval, each on the blocks it read at the beginning.  *)
(*                                                                         *)
(* Every store commit is a step of its own, so that a crash may fall       *)
(* between two of them; commits of the miner and the unlocker exclude each *)
(* other through Graviton_backend.Writing, while the unlocker's reads do   *)
(* not wait for it.  (GravStore shows what that flag is worth.)            *)
(*                                                                         *)
(* Abstractions.  A block is its identity; the store keeps one block per   *)
(* height and state.  The node is external: it has the block asked for,    *)
(* has another one, or gives no usable answer.  Rewards are amounts of     *)
(* another module: here a payee is credited, or not.  The order in which   *)
(* Go ranges over the height map is any order.                             *)
(***************************************************************************)
EXTENDS Integers, FiniteSets

CONSTANTS
    Blocks,     \* the blocks the pool may find
    HeightOf,   \* their heights: one per block, not always distinct
    Solo,       \* the blocks found by solo miners
    Logins,     \* the miners
    FinderOf,   \* who found a block
    None,       \* no block
    Depth,      \* UnlockerConfig.Depth
    MaxHeight,  \* bound: height of the node's chain
    MaxFaults   \* bound: crashes, reorganisations, answers that do not come

ASSUME BlocksAssumption ==
    /\ HeightOf \in [Blocks -> Nat] /\ FinderOf \in [Blocks -> Logins]
    /\ Solo \subseteq Blocks
    /\ None \notin Blocks
ASSUME BoundsAssumption ==
    Depth \in Nat /\ MaxHeight \in Nat /\ MaxFaults \in Nat

Heights == {HeightOf[b] : b \in Blocks}

VARIABLES
    chainHeight,  \* node: height of its chain
    lost,         \* node: blocks it no longer has
    heights,      \* store: keys of "block:blocksFoundByHeight"
    candidate,    \* store: "block:candidate:<height>"
    immature,     \* store: "block:immature:<height>"
    orphaned,     \* store: "block:orphaned:<height>"
    matured,      \* store: "block:matured", how often a block is in the list
    round,        \* store: "miners:round:<height>", logins with shares
    credits,      \* store: credits of a login for a block
    finding,      \* miner: the block being stored, or None
    stage,        \* miner: commits of the block already made
    found,        \* history: blocks found so far
    pc,           \* unlocker: where in its two passes
    seenHeight,   \* unlocker: height the node reported
    list,         \* unlocker: blocks of the pass not asked about yet
    orphans,      \* unlocker: result.orphanedBlocks
    hit,          \* unlocker: result.maturedBlocks, one block or None
    toCredit,     \* unlocker: logins of the round not credited yet
    paid,         \* history: the logins a matured block is paid to
    cut,          \* history: blocks whose credits a crash has cut short
    faultsLeft    \* history: budget of faults

node     == <<chainHeight, lost>>
store    == <<heights, candidate, immature, orphaned, matured, round, credits>>
miner    == <<finding, stage, found>>
result   == <<orphans, hit>>
unlocker == <<pc, seenHeight, list, result, toCredit>>
history  == <<paid, cut, faultsLeft>>
vars     == <<node, store, miner, unlocker, history>>

Slot == [Heights -> Blocks \cup {None}]
States == {"idle", "candidates", "orphan", "keep", "height", "select",
           "immatures", "reorphan", "mature", "credit"}

TypeOK ==
    /\ chainHeight \in Nat /\ lost \subseteq Blocks
    /\ heights \subseteq Heights
    /\ candidate \in Slot /\ immature \in Slot /\ orphaned \in Slot
    /\ matured \in [Blocks -> Nat]
    /\ round \in [Heights -> SUBSET Logins]
    /\ credits \in [Blocks -> [Logins -> Nat]]
    /\ finding \in Blocks \cup {None} /\ stage \in 0..2
    /\ found \subseteq Blocks
    /\ pc \in States
    /\ seenHeight \in Nat
    /\ list \subseteq Blocks /\ orphans \subseteq Blocks
    /\ hit \in Blocks \cup {None}
    /\ toCredit \subseteq Logins
    /\ toCredit # {} => pc = "credit" /\ hit # None
    /\ paid \in [Blocks -> SUBSET Logins]
    /\ cut \subseteq Blocks
    /\ faultsLeft \in Nat

Init ==
    /\ chainHeight = 0 /\ lost = {}
    /\ heights = {}
    /\ candidate = [h \in Heights |-> None]
    /\ immature = [h \in Heights |-> None]
    /\ orphaned = [h \in Heights |-> None]
    /\ matured = [b \in Blocks |-> 0]
    /\ round = [h \in Heights |-> {}]
    /\ credits = [b \in Blocks |-> [l \in Logins |-> 0]]
    /\ finding = None /\ stage = 0 /\ found = {}
    /\ pc = "idle" /\ seenHeight = 0 /\ list = {}
    /\ orphans = {} /\ hit = None /\ toCredit = {}
    /\ paid = [b \in Blocks |-> {}]
    /\ cut = {} /\ faultsLeft = MaxFaults

\* A fault happens; it uses up the budget by one.
Fault == faultsLeft > 0 /\ faultsLeft' = faultsLeft - 1

\* Graviton_backend.Writing is 0: the miner is not in its critical section.
NotWriting == finding = None

-----------------------------------------------------------------------------
(* The node.                                                               *)

ChainGrows ==
    /\ chainHeight < MaxHeight
    /\ chainHeight' = chainHeight + 1
    /\ UNCHANGED <<lost, store, miner, unlocker, history>>

(* A reorganisation drops a found block, or brings it back.                *)
Reorganise(b) ==
    /\ b \in found /\ Fault
    /\ lost' = IF b \in lost THEN lost \ {b} ELSE lost \cup {b}
    /\ UNCHANGED <<chainHeight, store, miner, unlocker, paid, cut>>

-----------------------------------------------------------------------------
(* The miner's session, from an accepted block to its round.               *)

(* The node has accepted b; the session takes Writing.  A second block at  *)
(* a height may still be accepted while the chain is at that height.       *)
FindBlock(b) ==
    /\ NotWriting
    /\ b \notin found
    /\ HeightOf[b] \in {chainHeight, chainHeight + 1}
    /\ HeightOf[b] <= MaxHeight
    /\ chainHeight' = HeightOf[b]
    /\ finding' = b /\ stage' = 0
    /\ found' = found \cup {b}
    /\ UNCHANGED <<lost, store, unlocker, history>>

WriteBlocksFoundByHeightArr ==
    /\ finding # None /\ stage = 0
    /\ heights' = heights \cup {HeightOf[finding]}
    /\ stage' = 1
    /\ UNCHANGED <<node, candidate, immature, orphaned, matured, round, credits,
                   finding, found, unlocker, history>>

(* The candidate replaces one already stored for its height.  A solo block *)
(* has no round to close, so the session gives Writing back.               *)
WriteCandidate ==
    /\ finding # None /\ stage = 1
    /\ candidate' = [candidate EXCEPT ![HeightOf[finding]] = finding]
    /\ finding' = IF finding \in Solo THEN None ELSE finding
    /\ stage' = IF finding \in Solo THEN 0 ELSE 2
    /\ UNCHANGED <<node, heights, immature, orphaned, matured, round, credits,
                   found, unlocker, history>>

(* UpdatePoolRoundStats closes the round; S are the miners with shares.    *)
WriteRoundShares(S) ==
    /\ finding # None /\ stage = 2
    /\ round' = [round EXCEPT ![HeightOf[finding]] = S]
    /\ finding' = None /\ stage' = 0
    /\ UNCHANGED <<node, heights, candidate, immature, orphaned, matured,
                   credits, found, unlocker, history>>

-----------------------------------------------------------------------------
(* The unlocker: what both passes share.                                   *)

(* The blocks of one kind, read without waiting for Writing. *)
GetBlocksFound(slot) == {slot[h] : h \in heights} \ {None}

(* Mutant: a lost block ends the pass as a matching one does. *)
unlockCandidatesGrav_BreakOnOrphan(b, next) ==
    /\ b \in list
    /\ list' = {}
    /\ \/ b \notin lost /\ hit' = b /\ UNCHANGED <<pc, orphans, faultsLeft>>
       \/ b \in lost /\ orphans' = orphans \cup {b}
            /\ UNCHANGED <<pc, hit, faultsLeft>>

(* One block of the pass: the first one the node has ends the loop; one it *)
(* does not have is an orphan; no answer abandons the pass and what it has *)
(* collected, and the unlocker goes on with next.                          *)
unlockCandidatesGrav(b, next) ==
    /\ b \in list
    /\ \/ b \notin lost /\ list' = {} /\ hit' = b
            /\ UNCHANGED <<pc, orphans, faultsLeft>>
       \/ b \in lost /\ list' = list \ {b} /\ orphans' = orphans \cup {b}
            /\ UNCHANGED <<pc, hit, faultsLeft>>
       \/ Fault /\ list' = {} /\ orphans' = {} /\ hit' = None /\ pc' = next

Ask(b, next) ==
    /\ unlockCandidatesGrav(b, next)
    /\ UNCHANGED <<node, store, miner, seenHeight, toCredit, paid, cut>>

Goto(from, to) ==
    /\ pc = from
    /\ pc' = to
    /\ UNCHANGED <<node, store, miner, seenHeight, list, result, toCredit,
                   history>>

(* WriteOrphanedBlocks, one block: the orphan is stored and whatever       *)
(* candidate stands at its height removed.  When there is none, because    *)
(* the block was already immature, the store either ignores that or makes  *)
(* it an error that leaves the loop without a commit.                      *)
WriteOrphaned(b) ==
    /\ b \in orphans
    /\ NotWriting
    /\ \/ /\ orphaned' = [orphaned EXCEPT ![HeightOf[b]] = b]
          /\ candidate' = [candidate EXCEPT ![HeightOf[b]] = None]
          /\ orphans' = orphans \ {b}
       \/ /\ candidate[HeightOf[b]] = None
          /\ orphans' = {}
          /\ UNCHANGED <<orphaned, candidate>>
    /\ UNCHANGED <<node, heights, immature, matured, round, credits, miner, pc,
                   seenHeight, list, hit, toCredit, history>>

-----------------------------------------------------------------------------
(* The unlocker: unlockPendingBlocks, from candidate to immature.          *)

ReadCandidates ==
    /\ pc = "idle"
    /\ list' = GetBlocksFound(candidate)
    /\ orphans' = {} /\ hit' = None
    /\ pc' = "candidates"
    /\ UNCHANGED <<node, store, miner, seenHeight, toCredit, history>>

AskCandidate(b) == pc = "candidates" /\ Ask(b, "height")
CandidatesAsked == list = {} /\ Goto("candidates", "orphan")
StoreOrphan(b)  == pc = "orphan" /\ WriteOrphaned(b)
OrphansStored   == orphans = {} /\ Goto("orphan", "keep")
NothingToKeep   == hit = None /\ Goto("keep", "height")

(* Mutant: the candidate is not removed. *)
WriteImmatureBlock_KeepCandidate ==
    /\ immature' = [immature EXCEPT ![HeightOf[hit]] = hit]
    /\ candidate' = candidate

(* Mutant: the candidate is removed but the immature block is not stored. *)
WriteImmatureBlock_OnlyRemove ==
    /\ candidate' = [candidate EXCEPT ![HeightOf[hit]] = None]
    /\ immature' = immature

(* The immature block is stored and the candidate of its height removed.   *)
WriteImmatureBlock ==
    /\ immature' = [immature EXCEPT ![HeightOf[hit]] = hit]
    /\ candidate' = [candidate EXCEPT ![HeightOf[hit]] = None]

KeepBlock ==
    /\ pc = "keep" /\ hit # None
    /\ NotWriting
    /\ WriteImmatureBlock
    /\ hit' = None /\ pc' = "height"
    /\ UNCHANGED <<node, heights, orphaned, matured, round, credits, miner,
                   seenHeight, list, orphans, toCredit, history>>

-----------------------------------------------------------------------------
(* The unlocker: unlockAndCreditMiners, from immature to credited.         *)

(* Without the height of the chain there is no second pass. *)
GetInfo ==
    /\ pc = "height"
    /\ \/ pc' = "select" /\ seenHeight' = chainHeight /\ UNCHANGED faultsLeft
       \/ Fault /\ pc' = "idle" /\ UNCHANGED seenHeight
    /\ UNCHANGED <<node, store, miner, list, result, toCredit, paid, cut>>

(* Mutant: the sign of the depth is wrong. *)
DeepEnough_WrongSign(b) == HeightOf[b] <= seenHeight + Depth

DeepEnough(b) == HeightOf[b] <= seenHeight - Depth

SelectImmature ==
    /\ pc = "select"
    /\ list' = {b \in GetBlocksFound(immature) : DeepEnough(b)}
    /\ orphans' = {} /\ hit' = None
    /\ pc' = "immatures"
    /\ UNCHANGED <<node, store, miner, seenHeight, toCredit, history>>

AskImmature(b)  == pc = "immatures" /\ Ask(b, "idle")
ImmaturesAsked  == list = {} /\ Goto("immatures", "reorphan")
StoreReorphan(b) == pc = "reorphan" /\ WriteOrphaned(b)
ReorphansStored == orphans = {} /\ Goto("reorphan", "mature")
NothingToMature == hit = None /\ Goto("mature", "idle")

(* Who is paid for b: its finder if it is a solo block or no shares are    *)
(* stored for its round, else everyone with shares.                        *)
calculateRewardsGrav(b) ==
    IF b \in Solo \/ round[HeightOf[b]] = {}
    THEN {FinderOf[b]}
    ELSE round[HeightOf[b]]

(* Mutant: the immature block is not removed. *)
WriteMaturedBlocks_KeepImmature ==
    /\ matured' = [matured EXCEPT ![hit] = @ + 1]
    /\ immature' = immature

(* The block joins the matured ones and leaves the immature ones. *)
WriteMaturedBlocks ==
    /\ matured' = [matured EXCEPT ![hit] = @ + 1]
    /\ immature' = [immature EXCEPT ![HeightOf[hit]] = None]

(* The rewards are calculated, and the block is stored as matured before   *)
(* any of them is credited.                                                *)
MatureBlock ==
    /\ pc = "mature" /\ hit # None
    /\ NotWriting
    /\ WriteMaturedBlocks
    /\ toCredit' = calculateRewardsGrav(hit)
    /\ paid' = [paid EXCEPT ![hit] = toCredit']
    /\ pc' = "credit"
    /\ UNCHANGED <<node, heights, candidate, orphaned, round, credits, miner,
                   seenHeight, list, result, cut, faultsLeft>>

(* WritePendingPayments for one of the payees. *)
CreditMiner(l) ==
    /\ pc = "credit" /\ l \in toCredit
    /\ NotWriting
    /\ credits' = [credits EXCEPT ![hit][l] = @ + 1]
    /\ toCredit' = toCredit \ {l}
    /\ UNCHANGED <<node, heights, candidate, immature, orphaned, matured, round,
                   miner, pc, seenHeight, list, result, history>>

(* Mutant: the pass ends after the first payee. *)
CreditsDone_First ==
    /\ pc = "credit" /\ credits[hit] # [l \in Logins |-> 0]
    /\ pc' = "idle" /\ hit' = None /\ toCredit' = {}
    /\ UNCHANGED <<node, store, miner, seenHeight, list, orphans, history>>

(* Mutant: the pass is over at once, with the payees left to whoever is    *)
(* next.                                                                   *)
CreditsDone_Detached ==
    /\ pc = "credit"
    /\ pc' = "idle" /\ hit' = None
    /\ UNCHANGED <<node, store, miner, seenHeight, list, orphans, toCredit,
                   history>>

CreditsDone ==
    /\ pc = "credit" /\ toCredit = {}
    /\ pc' = "idle" /\ hit' = None /\ toCredit' = {}
    /\ UNCHANGED <<node, store, miner, seenHeight, list, orphans, history>>

-----------------------------------------------------------------------------
(* A crash loses what is in memory.  A round that was being closed is      *)
(* closed with some shares S by the first UpdatePoolRoundStats after the   *)
(* restart, which comes before anything reads it.                          *)
Crash(S) ==
    /\ Fault
    /\ round' = IF stage = 2 THEN [round EXCEPT ![HeightOf[finding]] = S]
                             ELSE round
    /\ finding' = None /\ stage' = 0
    /\ cut' = IF toCredit # {} THEN cut \cup {hit} ELSE cut
    /\ pc' = "idle" /\ list' = {} /\ orphans' = {} /\ hit' = None
    /\ toCredit' = {} /\ seenHeight' = 0
    /\ UNCHANGED <<node, heights, candidate, immature, orphaned, matured,
                   credits, found, paid>>

Miner ==
    \/ WriteBlocksFoundByHeightArr
    \/ WriteCandidate
    \/ \E S \in SUBSET Logins : WriteRoundShares(S)

UnlockCandidates ==
    \/ ReadCandidates
    \/ \E b \in Blocks : AskCandidate(b)
    \/ CandidatesAsked
    \/ \E b \in Blocks : StoreOrphan(b)
    \/ OrphansStored
    \/ NothingToKeep
    \/ KeepBlock

UnlockAndCredit ==
    \/ GetInfo
    \/ SelectImmature
    \/ \E b \in Blocks : AskImmature(b)
    \/ ImmaturesAsked
    \/ \E b \in Blocks : StoreReorphan(b)
    \/ ReorphansStored
    \/ NothingToMature
    \/ MatureBlock
    \/ \E l \in Logins : CreditMiner(l)
    \/ CreditsDone

Next ==
    \/ ChainGrows
    \/ \E b \in Blocks : Reorganise(b)
    \/ \E b \in Blocks : FindBlock(b)
    \/ Miner
    \/ UnlockCandidates
    \/ UnlockAndCredit
    \/ \E S \in SUBSET Logins : Crash(S)

(* The chain goes on, a session finishes what it stores, and the unlocker's *)
(* timer is reset after every pair of passes.                              *)
Fairness ==
    /\ WF_vars(ChainGrows)
    /\ WF_vars(Miner)
    /\ WF_vars(UnlockCandidates \/ UnlockAndCredit)

Spec == Init /\ [][Next]_vars /\ Fairness

-----------------------------------------------------------------------------
(* Properties.                                                             *)

(* However passes, reorganisations and crashes interleave, no login is     *)
(* credited twice for one block, and none before the block is stored as    *)
(* matured (unlocker.go:227 before unlocker.go:252).                       *)
CreditedAtMostOnce ==
    \A b \in Blocks : \A l \in Logins :
        /\ credits[b][l] <= 1
        /\ credits[b][l] = 1 => matured[b] = 1 /\ l \in paid[b]

(* A matured block has credited every payee of its round, is crediting     *)
(* them now, or was interrupted by a crash: nothing else loses a reward.   *)
CreditsComplete ==
    \A b \in Blocks :
        matured[b] > 0 =>
            \/ \A l \in paid[b] : credits[b][l] = 1
            \/ pc = "credit" /\ hit = b
                  /\ \A l \in paid[b] \ toCredit : credits[b][l] = 1
            \/ b \in cut

(* No block is matured before the node's chain is Depth above it, although *)
(* the height was read before the blocks were and the node asked after.    *)
MaturedIsDeep ==
    \A b \in Blocks : matured[b] > 0 => chainHeight >= HeightOf[b] + Depth

(* A block at a height of its own is never lost track of: once stored, it  *)
(* is a candidate, immature, orphaned or matured in every state, whatever  *)
(* step of whichever pass a crash interrupts.                              *)
OwnHeight(b) == \A c \in Blocks \ {b} : HeightOf[c] # HeightOf[b]

Tracked(b) ==
    \/ candidate[HeightOf[b]] = b \/ immature[HeightOf[b]] = b
    \/ orphaned[HeightOf[b]] = b \/ matured[b] > 0

BlockTracked ==
    [][\A b \in Blocks : OwnHeight(b) /\ Tracked(b) => Tracked(b)']_vars

(* A block that is on its way to a reward is in one place only: not both   *)
(* candidate and immature, nor either of them once matured, so that no     *)
(* pass can take it up a second time.                                      *)
OnePlace ==
    \A b \in Blocks :
        /\ ~(candidate[HeightOf[b]] = b /\ immature[HeightOf[b]] = b)
        /\ matured[b] > 0 => candidate[HeightOf[b]] # b
                              /\ immature[HeightOf[b]] # b

(* A candidate or immature block that the node keeps is eventually matured *)
(* once the node answers, although every pass moves one block at most, may *)
(* go through the blocks in any order, and asks about lost immature blocks *)
(* again and again.                                                        *)
EventuallyMatured ==
    \A b \in Blocks :
        /\ candidate[HeightOf[b]] = b \/ immature[HeightOf[b]] = b
        /\ OwnHeight(b) /\ b \notin lost
        /\ HeightOf[b] + Depth <= MaxHeight
      ~> matured[b] > 0 \/ b \in lost \/ orphaned[HeightOf[b]] = b

-----------------------------------------------------------------------------
(* The unlocker implements Rewards.                                        *)

StatusOf(b) ==
    IF matured[b] = 0 THEN "open"
    ELSE IF pc = "credit" /\ hit = b THEN "paying"
    ELSE IF b \in cut THEN "cut" ELSE "paid"

R == INSTANCE Rewards
        WITH status <- [b \in Blocks |-> StatusOf(b)], payees <- paid

(* Passes, retries and crashes implement the promise about rewards: they   *)
(* settle who is paid for a block once, pay out one block after the other, *)
(* credit nobody twice and take up no payout again (unlocker.go:212-258).  *)
ImplementsRewards == R!Spec
=============================================================================
