# A verification project for dero-golang-pool

TLA+ modules about the mining pool in `src/`, the TLC configurations that check
them, and proofs checked by TLAPS.  Line numbers refer to the files of `src/`.

## 1. The system

The pool is one Go process.  Miners talk to it over TCP, it talks to a node
(`rpc/rpc.go`) and to a wallet over JSON-RPC, and it keeps everything durable in
one tree of an embedded key-value store, Graviton.

| component | state | operations | shares with |
|---|---|---|---|
| payouts processor, `stratum/payments.go` | a timer; during an interval: its copy of the pending list, two lists of payees, the destinations of the transaction being built | `process` once per interval: scan, payment-ID transactions, batches, a debit and a record per payee | store (`payments:*`), wallet |
| block unlocker, `stratum/unlocker.go` | a timer; during a pass: the blocks read, orphans, one matching block, rewards | `unlockPendingBlocks`, `unlockAndCreditMiners`, reward calculation | store (`block:*`, `miners:round:*`, `payments:pending`), node |
| store, `stratum/storage.go` | the handle `DB`, the flags `migrating` and `Writing`, folders `pooldb`, `_bak`, `_bak2` | some thirty reads and writes, each following one protocol; `SwapGravDB` | everybody |
| share processing, `stratum/miner.go`, `blocks.go` | a miner's shares by second, counters, trust; a session's jobs; the block template | `processShare`, `storeShare`, `getJob`, `calcVarDiff` | store, node, miners map |
| round statistics, `storage.go:1385` | the open round: a window of timestamps and shares per miner | `UpdatePoolRoundStats`, on a timer, when a block is found and before rewards are calculated | miners map, blocks |
| stratum server, `stratum/stratum.go`, `handlers.go` | the map of sessions behind `sessionsMu`, the current upstream, timers, `failsCount` | login, job, submit, broadcasts, retargets, upstream checks, polls | miners, node |
| node client, `rpc/rpc.go` | failure and success counters, a sick flag | JSON-RPC calls, `markSick`, `markAlive` | stratum server |
| events, `stratum/events.go` | a record per day of who mined since when, awards made | a pass every few seconds: the day's record, the draw for yesterday, for the last day, for an hour | store (`payments:pending`, `eventsdata`, `eventspayment`) |
| charts, API, website, miners map, utilities, configuration | samples, statistics for display, static files | | store, as readers mostly |

How they interact.  There are no messages inside the process: goroutines share
the store, the miners map and a few integers.  A store operation loads the
latest snapshot of the tree, works on it, and commits the tree as a whole.  Most
writers take the integer `Graviton_backend.Writing` around the operation (`for
Writing == 1 { sleep }; Writing = 1; ...; Writing = 0`); readers and
`OverwritePendingPayments` do not.  Money flows: `miner.go` stores a found block
as a candidate and closes its round; the unlocker moves it to immature, to
matured, and credits `payments:pending`; the payer sends what is pending and
moves it to `payments:processed`.

What is hard.  Reads that are acted upon after other goroutines have written
(the payer's list, snapshots, the height of the chain); flags tested in one step
and set in another; a step of several that fails or is cut by a crash; a wallet
that transfers but does not answer; a node that reorganises or does not answer;
keys by height, which several blocks share; a lock held across a channel that may
be full; one timer for two goroutines; midnight in the middle of a pass.  `hazards` in `PROJECT.json` lists
them line by line with the properties that watch them.

What makes each component correct.

* Payouts: nobody is sent more than was credited; a debit deletes what was paid
  and only that; transfers and records agree; every payee is served eventually.
* Unlocker: every block is credited once at most and completely, when it is deep
  enough; no block is lost track of; a block the node keeps is paid eventually.
* Store: an acknowledged write stays; a migration excludes everyone else and
  ends; a crash leaves something to recover from.
* Rounds: every share counts in one round, and the round is paid in proportion,
  to half a unit per login.
* Sessions: the client works on the pool's template at the target the pool checks;
  a share is credited once, with the target it was asked for; no loop over the
  sessions and no handler waits for ever.
* Upstreams: the pool works with the first node that is alive, and is sick exactly
  when none is.
* Events: every day and hour is awarded once, when it is over, to somebody who
  mined then.

## 2. Modules

| module | models | status |
|---|---|---|
| `Payouts` | the payer, a concurrent store writer, the wallet | complete |
| `Payouts_proofs` | seven theorems about `Payouts` | complete |
| `Unlocker` | blocks from candidate to credited, the miner's commits, the node | complete; the amounts are in `Amounts` |
| `Rewards` | what is promised about the reward of a block: abstract, implemented by `Unlocker` | complete |
| `Unlocker_proofs` | seven theorems about `Unlocker`, the refinement among them | complete |
| `GravStore` | the protocol of store operations, `SwapGravDB`, the folders | complete |
| `GravStore_proofs` | three theorems about `GravStore` | complete |
| `Rounds` | shares by the second, the round's updates, finders of blocks, restarts | complete but for difficulties |
| `Rounds_proofs` | five theorems about `Rounds` | complete |
| `Amounts` | the fee and the rounded parts of a closed round; extends `Rounds` | complete |
| `Amounts_proofs` | three theorems: rounding, order, and the sum of a round's parts | complete |
| `Upstreams` | the nodes, the counters of their clients, upstream checks, polls | complete |
| `Sessions` | connections, the map of sessions and its lock, broadcasts and retargets | complete |
| `Server` | the two together: the shared timer, loops while the pool is not sick | complete |
| `Server_proofs` | two theorems about `Server` | complete |
| `Jobs` | one session: templates, jobs, retargets, shares and their verdicts | complete but for hashes and amounts |
| `Jobs_proofs` | three theorems about `Jobs` | complete |
| `Events` | the pass of the random reward events | complete |
| `Events_proofs` | six theorems about `Events` | complete |
| `MC*` | constants for TLC | |

### Payouts

`pc` follows `process`: `scan` is the loop at 127, `payid` the loop at 266,
`plain` and `send` the loop at 345 before and in its `if` at 359.  `snap` are the
amounts read at 126, `payPending` the copy that is pruned, `dests`
`currPayout.Destinations`, `toDebit` and `toRecord` the payees of an accepted
transaction between its answer and their commits.  A transaction is one action
with three outcomes: accepted, rejected, and transferred without an answer
(285).  Each commit is an action.  `writing`, `base` and `gain` are another
goroutine between the snapshot and the commit of its write: `WritePendingPayments`
for an amount above 0, a write to any other key for 0, since a commit replaces
the whole tree.  `OverwritePendingPayments` may fall between the two, because it
does not look at `Writing`; this is one of the `Faults` an instance may switch on,
with `reject`, `balance`, `noanswer` and `crash`.  `sent` belongs to the wallet.
`credited`, `excess` and `lost` are history: what each login was ever credited; per
cause, what was sent or restored to it beyond that; and what an overwrite for another
payee deleted of its entry without a transfer, because the copy of 126 is older than
the credit (399, what `payouts_overwrite` shows).  `ExcessAccounted` is an equation
between them: what is credited is sent, pending or lost, and every surplus has one of
the three causes.  `EventuallyPaid` takes an entry above the threshold for served only
when the wallet sends something to its login, or when an overwrite deletes some of
that login's money: that the entry is gone is not enough.

The list is a function from login to amount, because `WritePendingPayments`
keeps one entry per address; its order, which `removePendingPayments` changes, is
arbitrary.  `json.Marshal` cannot fail on these types, so the error branches
behind it are not modelled.

### Unlocker

`pc` follows the two passes in the order of the source; `list`, `orphans` and
`hit` are the blocks not asked about, `orphanedBlocks` and the one member
`maturedBlocks` can have, since the loop at 294 ends with the first match.
`finding` and `stage` are the session of the miner who found a block, between its
three commits (heights, candidate, round); while it holds `Writing` the unlocker
does not commit.  `WriteBlocks` returns without a commit when Graviton refuses to
delete a key that is not there: `WriteOrphaned` has both outcomes.  A block that
is found orphaned when already immature stays immature (storage.go:289), as in
the code.  Before the rewards are calculated the code writes miner and round
statistics; that commit touches no state of this module and belongs to
`MatureBlock`.  Who is paid is modelled here; how much, in `Amounts`.

`ImplementsRewards` maps the unlocker to `Rewards`: a block is open until it is
matured, paying while it is the one in hand, then paid, or cut when a crash
interrupted its credits; the payees are `paid`, the set fixed when the block matured.
Everything else the unlocker and the node do is a stutter of `Rewards`.  So a block
that came back after a reorganisation, was replaced, or was asked about in two
passes is still settled once, and a payout a crash cut is never taken up again.

### GravStore

An operation is `load`, `check` (the loop around `migrating`), `version`,
perhaps the six steps of `SwapGravDB` and `reload`, and `apply`.  The contents of a
store are the set of updates it shows.  A folder holds a store or nothing; a
handle refers to the store it was opened on, even when that is renamed.  Errors the code
ignores are modelled by what follows from ignoring them: a failed rename leaves
both folders, a commit to a closed store does nothing, and a method called on a
snapshot that was not loaded panics, which restarts the process.  Testing
`Writing` and setting it are two steps.

What is assumed of Graviton is only this: a snapshot does not change, a commit
replaces the tree and counts the version up, a closed store serves nothing.

### Rounds

Shares are kept by the second in the maps of the miners; the round is gathered
from them.  A session stamps a share (`StampShare`) and adds it to the map later
(`StoreShare`), without `Writing`; one that finds a block stamps both, adds the
share (`StoreFinderShare`) and waits for `Writing`.  An update (`BeginUpdate` to
`OverwritePoolRoundStats`) is run by the timer, which here also stands for the
unlocker (unlocker.go:361-369) and the shutdown (stratum.go:598-606), or by a
finder, which stores its block in between.  It copies the maps to the store, reads the round and the highest pool
block (`ReadRound`), looks at each miner at its own moment (`ScanMiner`), and stores
the closed round and the next one in two commits.  A miner's copy is taken in one
step: a share that comes between its copy and the commit is lost by a crash as one
that comes after it.  The time of a finder's share and of its block are one reading
of the clock.

A block has the height of the template it was made from (miner.go:426), so that two
sessions may have a block of one height accepted, or one below another (`FindBlock`;
a second block at a height, or below the highest, is an event of the budget).  The
second candidate takes the place of the first in `blocks` or hides it in the search
for the reference (storage.go:276, 1416-1439); `behind` holds the timestamps that may
come out again when the later one is filed away.  `first` is history: the height of
the block the first stored round began with.

What the code promises of the shares is stated with histories: `earned` counts
what was added to the maps, `settled` what went into closed rounds, `late` what
came too late for its second or was lost by a crash.  Three cases are excepted by
name.  `reopened`: when a block is older than the round's last update, because its
finder waited for `Writing`, the next round begins at the block again and counts
those seconds twice.  `skipped`: when a block is found before any round was ever
stored, the first round begins with it, and it gets no round.  `late`: a share added
to a second the round has passed counts nowhere.

### Amounts

The code divides with exact fractions (`big.Rat`) and rounds each login's part on
its own, a half up (`FloatString(0)`, unlocker.go:424), before it adds up the logins
of an address; integers do the same here, the fee as `Fee` parts of `FeeUnit`.  The
sum of the rewards may therefore exceed the profit: with nothing to lose to a fee,
two equal logins get three units each of five.  `PaidInProportion` says how far,
for the rounds that `Rounds` really closes.  Two things follow from the code at
unlocker.go:389 and 401 and are in `Unlocker` as who is paid: a solo block, and one
without shares, is credited to its finder whole, without the fee of README.md:248.

### Upstreams, Sessions, Server

A request to a node is one step: sent, answered, refused or failed, and counted.
`Post` is a request for a template or for information, by a refresh, a poll or a
check; it fails, with or without being counted, when the node is down, and polls
(stratum.go:262-290) may be answered late.  `RequestFails` is every other request
through the same client: a block submitted, the hash of a block looked up, the
wallet's balance and transfers (payments.go:55, 137, 270).  `doPost` marks the client
sick when it has no answer, one it cannot read or an error of JSON-RPC
(rpc.go:236-259), so that such a request counts against the client of a node that is
up.  An upstream check goes through the nodes one by one (`checking`).  Nodes fail and
come back at any moment.

A connection is `open`, `joining` (its handler wants `sessionsMu` to register),
`member`, `leaving` or `gone`.  A loop waits for the lock, and then for every
session puts a number into its channel (`HasSlot`, `Spawn`) and starts a goroutine;
the goroutine pushes (`Push`), and its failure needs the lock for writing.
`sessionsMu` is Go's: a waiting writer holds up new readers, and after a writer the
readers it held up go first (`admitted`).  The goroutine of a retarget that finds
the difficulty unchanged frees no place (handlers.go:271-294), which is why
`jammed` exists: with more such sessions than places the loop stands for ever, with
the lock for reading, and takes with it every login, every departure, and the
timer of the upstream checks.  The liveness properties except this and nothing else.

`Server` joins them: upstream checks and retargets receive from one timer
(stratum.go:211-231) and take turns; loops begin only while the pool is not sick.

### Jobs

One session, with an honest client: a share is a nonce whose hash meets the target
of the job it works on, and it may be sent again.  `Fetchers` fetch templates, and
answers overtake each other; `base`, `offer` and `newDiff` are a retarget between the
lines it runs on (handlers.go:262-294); `own`, `setDiff` and `share` a handler in
`processShare`.  A job is made in one step and sent in another, and what is on its
way to the connection may arrive in any order.  `overlap` is set when a job is made while
another is on its way; it stays until the next job made alone.  `calcVarDiff` is any
change of difficulty.  A refresh asks the node (`Ask`), compares the answer with the
template the pool then has (`Fetched`) and stores it (`Store`), in three steps, so that
another refresh may store between them.  `answering` is whether the node answers
without an error: when it does not, a refresh is over (blocks.go:42-46), and a block
submitted is rejected (miner.go:390-404).

What the properties except is what the code does.  Overlapping jobs leave a client
with stale work until the next job.  With VarDiff disabled a retarget still changes
the difficulty of a session, though its targets stay at the endpoint's (`Drifted`;
handlers.go:272 and miner.go:170-173 against README.md:223), so that a share
is judged by one number and was made for another.  A share that is a block of a
template the node has replaced at the same height is rejected as "Bad hash", and so is
one whose submission fails for any other reason, a timeout or an error of the node or
of HTTP, though the job be current and the node at that very template: the share is
not credited (miner.go:390-404).
Trust is earned by accepted shares; the trusted path never revokes it.

### Events

A day has `Hours` hours; a pass reads the clock anew before each of its draws, and
the hour may turn in the middle of it, once.  `BeginPass` takes the statistics of
all workers, `Merge` joins the workers of an address, `OverwriteEventsData` stores
the day's record, and `FirstDraw`, `NextTask`, `DrawWinner`, `WritePendingPayments`
and `WriteEventsPayment` go through the draws: for yesterday, for the last day, for
the hour.  A draw is two commits.  Any candidate may win.  `served`, `whole`, `seen`
and `lastHour` are history: days with a whole pass, who mined the whole of a day, who
mined on it at all, and whether the hour before saw a whole pass.

Exceptions the properties name or imply: the last hour of the bonus day is never drawn, because
it is due when the bonus day is over (events.go:481 against the comment at 480);
the window of an event over two months opens before its first day and closes after its
last (events.go:137 against README.md:316-317); a silence overwrites the offset it should
add to, so that `MinerPercentCriteria` (README.md:320) is not enforced for several gaps;
and a day is not drawn any more when the pool was down all of the next one.  Of the
winner of an hour, `WinnerWasThere` says that it mined on that day, not in that hour.

## 3. Runs

| run | instance | properties |
|---|---|---|
| `payouts_faults` | one plain and one payment-ID login, amounts 0..2, up to 3 per login, two faults of any kind | `TypeOK`, `ExcessAccounted`, `WalletMatchesRecords`, `OverwriteNeverAdds` |
| `payouts_live` | a plain, two integrated, a payment-ID and an invalid login, batches of two, a rejection or low balance | `NeverOverpay`, `BatchIsSendable`, `EventuallyPaid` |
| `payouts_payment_ids` | two payment-ID logins | violates `PaymentIDOneAtATime` |
| `payouts_overwrite` | two logins, no fault | violates `OverwriteDeletesOnlyPaid` |
| `unlocker` | two blocks at height 1 and a solo block at 2, two faults: crashes, reorganisations, node errors | `TypeOK`, `CreditedAtMostOnce`, `CreditsComplete`, `MaturedIsDeep`, `OnePlace`, `BlockTracked`, `EventuallyMatured`, `ImplementsRewards` |
| `store` | a guarded writer and a reader, four operations, a migration at every version, a crash | `TypeOK`, `NothingLostAlone`, `Recoverable`, `OperationsEnd` |
| `store_kept` | a guarded writer and a reader | violates `NothingLost` |
| `rounds` | two miners, blocks of two heights in two seconds, and a share, a further block at a height, a crash or an orphan beside them | `TypeOK`, `CountedAtMostOnce`, `CountedAtLeastOnce`, `PaidInProportion`, `EventuallyClosed` |
| `rounds_kept` | two miners, two blocks, no fault | violates `RoundKept` |
| `events` | two workers of one address, days of three hours, months of three days, an event within a month and one over two, three incidents (logins, departures, crashes, hours that turn in a pass) | `TypeOK`, `AwardedOnce`, `OnlyEventDays`, `EveryDayDrawn`, `EveryHourDrawn`, `WinnerWasThere` |
| `server` | two nodes, a channel of one place, two incidents; two connections, or none and requests that fail at a live node | `TypeOK`, `OnlyCrowdsJam`, `LoopsEnd`, `SessionsServed`, `WorkFromFirstAlive`, `SicknessFollowsNodes` |
| `jobs` | three templates, two of one height, two difficulties, two valid jobs, a nonce, five job ids, four incidents | `TypeOK`, `WorkIsCurrent`, `FairVerdicts`, `TemplateCatchesUp` |

Bounds.  Two logins are enough for one to be paid while the other is credited;
three amounts distinguish nothing, at the threshold and above; a credit of 1
after one of 2 makes a stale copy differ from the list.  With `MaxAddresses` 2
and two integrated payees a batch closes for each of its three reasons, in every
order of the list.  Three blocks, two of them at one height, make one block replace another in
the store, one pass find a lost one and a matching one in both orders, and a
second pass go on where the first one ended.  Two faults allow a crash after a
reorganisation, or a block that is lost and found.  Four writes with a migration
before all but the first make both backups exist and a rename fail.  Two finders
of blocks in two seconds make a block older, as old and newer than the round, in
either order of their updates, at two heights or one; that the first two invariants of `rounds` depend on no
bound is proved.  Every division of up to three shares between two logins, at one
address or two, meets profits of 1.8 and 4.5, whose parts are of many fractions.  In `events`
days of three hours have a first, an inner and a last hour, and five days have one
before and two after each event.  Two sessions are more than one place, and one is
not, so that both sides of `OnlyCrowdsJam` occur; failing requests disturb the upstream
and connections the loops, and the two are let happen apart (`MCNext`); two nodes have a first alive and a
backup; two failures are a count that is reached and one that is not.  Two valid jobs
with three made at once make a client work on a job the session has forgotten; two
templates of one height are replaced without the height's telling, and one above
makes shares stale.

What the violations show.

* `payouts_payment_ids`: `currPayout.Destinations` is not emptied between
  payment-ID transactions, so each pays all the earlier payees again, under
  another payment ID (payments.go:268 against the comment at 265).
* `payouts_overwrite`: a credit made while the wallet was sending is deleted with
  the entry that was paid (payments.go:399 against storage.go:761).
* `store_kept`: a writer that waits reloads its snapshot and only then tests
  `migrating` again.  If it loads the new store before it is filled, and the
  migration ends before the test, it commits one key to an empty tree
  (storage.go:657-663 against storage.go:150 and README.md:144).

* `rounds_kept`: the finder of block 1 waits for `Writing` while the finder of block 2
  stores and closes.  Then the update of block 1 takes block 2 as its reference,
  the highest there is (storage.go:1416), closes its round again, with what came
  since (storage.go:1478), and none for block 1, whose reward then goes to its finder
  alone (unlocker.go:399-401 against the proportional scheme of README.md:22).

The exceptions the properties of `events`, `server` and `jobs` name are also what the
code does; they are listed with their modules above, without runs of their own.

Fairness.  The payer's and the unlocker's timers are reset after every round of
work and their goroutines never block on each other, so their steps are weakly
fair; so is the completion of a write that holds `Writing`, and every operation
of `GravStore` once begun.  The chain grows.  Nothing makes a miner earn, a fault
happen or an operation begin.  Nothing is claimed about a goroutine that wants
`Writing`: polling every 10 ms it may lose every race.  In `Rounds` updates go on
(the timer is reset after each), and whose turn is next is left open.  Faults are finitely many:
`EventuallyPaid` and `EventuallyMatured` hold once they have stopped.  That matters, because
one entry the wallet cannot pay stops the ones behind it (payments.go:146) and
any node error abandons a pass (unlocker.go:300).  `EventuallyMatured` and
`BlockTracked` are stated for blocks alone at their height, because another block there
replaces them (storage.go:276).  `store` and `store_kept` check
no deadlock, because an instance runs out of operations; the cfg says so.
In `Server` timers fire, requests end by their timeouts, and every goroutine that can
run does (`WF` of each); incidents are finitely many, but requests may fail at a live
node for ever: `WorkFromFirstAlive` excepts only behaviours in which those to the first
live node never cease to.  In `Jobs` refreshes keep coming and go on once begun;
`TemplateCatchesUp` asks for a node that answers from some time on.  `Events` states
safety only.

## 4. Proofs

For every value of the constants allowed by the named assumptions.

`Payouts_proofs`.  `TypeCorrect`; `OverpaymentIsAccounted`, `NoOverpayment`,
`TransfersAreRecorded` and `BatchesAreSendable`, each `Spec => []P`;
`OverwritesOnlyLose` and `IntervalsPayEveryone`, action properties.
`ExcessAccounted` is not inductive: that a transfer of `snap[l]` is covered depends
on where the payer is.  The invariant has the equation (`Conserved`) and adds that the
copy `payPending` still holds `snap[l]` for everyone the interval has yet to pay
(`CopyIsSnapshot`), that this copy is nowhere above `pending`, and `pending` nowhere
above what a writer has loaded (`CopyBehind`; credits only make `pending` grow, and an
overwrite makes it equal to the copy), and that a payee is in one stage of the interval
at a time (`StagesDisjoint`).  `NoOverpayment` assumes that rejections and low balances are the only faults and that at most one
login has a payment ID, and shows that then every `excess` stays 0.
`BatchesAreSendable` follows the batch as it is filled: it is closed as soon as it is
full or holds an integrated address in the middle.
`IntervalsPayEveryone` is what `EventuallyPaid` owes to the code, the rest of it being
that intervals end: when one does, every entry it read that is payable was paid and
debited, whatever was credited, overwritten or cut short meanwhile.  It assumes that
the balance is never short, and speaks of a payee with a payment ID only when no
transaction can fail, since a failure ends that loop.  The invariant: such a payee is
on one of the payer's lists or its entry is gone (`StillToPay`), and the loops empty
their lists before the payer goes on (`NothingCollected`).  A low balance is left out
because it ends the interval (payments.go:146), as `EventuallyPaid` grants too.

`Unlocker_proofs`.  `TypeCorrect`; `NoDoubleCredit`, `OnlyCrashesCutCredits`,
`NothingMaturesEarly` and `BlocksStandInOnePlace`, for blocks at distinct heights or
not.  The point of the invariant `IInv` is what the unlocker may rely on about
blocks it read some steps ago: a candidate in its hands has not moved on though it
may have been replaced (`CandidatesInHand`), an immature one is still immature,
not matured, and deep enough for the height read (`ImmaturesInHand`), and a block
still to be stored is nowhere (`FreshUntilStored`), so that storing a candidate
never revives a matured block.  While credits are made, the payees left have none
(`Crediting`).  One lemma per conjunct, one step per action that can disturb it.
`NoBlockLost` is the action property `BlockTracked`: with nobody else at its height,
a block leaves one place only for another.  `UnlockerImplementsRewards` maps every
step to a step or stutter of `Rewards`; it needs that a cut block is matured and not
in hand again (`CutForGood`), which with `Crediting` decides between finishing and
cutting short.

`Rounds_proofs`.  `TypeCorrect`, `NoShareTwice` and `NoShareLeftOut`.  `Control` says
what an update has in hand: its block is not of the future and closes its window.
`Once` adds that nothing of the seconds ahead of the stored round is counted
(`OpenAhead`) and that an update has counted exactly its window on top of the
stored round (`WindowCounted`); `Complete`, that what is ahead is still in the maps
(`HeldAhead`) and that an update misses nothing of the miners it has looked at
(`ScannedComplete`).  A crash in the middle needs no case of its own: the window is
of the stored round until the new one replaces it.
`ReplacedByTheOvertaken` and `UpdatesLeaveNoneBehind` are action properties beside
those the runs check; TLC was asked first, on instances of their own.  The
first bounds what `rounds_kept` shows: a round written for a block up to the stored
round's is rewritten for two reasons only.  Its finder was overtaken: the update is that
of a finder whose block is below it.  Or the pool has found another block of its height,
whose update closes the height again, with what came since (storage.go:1507).  Neither
the timer, a restart, an orphan nor the finder of a higher block rewrites it.  The second
is the safety half of `EventuallyClosed`: an update that ends leaves the highest block
found with its round, an orphan, or the one the first round began with.  Both rest on
`InTurn`: rounds are of blocks that were found, and the block of a finder who updates has
one before its update is done only if its height has had another (`BlocksFound`); what an
update has decided stays true until it ends (`Decided`); and the stored round begins at
its block, or later, unless its height has several (`RoundBegun`).

`GravStore_proofs`.  `TypeCorrect`, `MigrationIsRecoverable` and
`MigrationLosesNothing`.  `Safe` holds while no operations have overlapped and no
migration was cut: one operation is under way (`Alone`), its snapshot is what the
store shows and a migration's copy has all that was acknowledged (`InHand`), the
store in the folder is the open one and has everything except while the copy is in
the goroutine's hands (`InFolder`), and the folder or its backup always has it
(`Survives`).  Renames that fail are steps of `RenameFolder` like any other.

`Amounts_proofs`.  `RoundedToNearest`, for all numbers; `MoreSharesPayMore`, the order
of two logins; and `RoundsPaidInProportion`, that the parts of every round `Rounds`
closes add up to the profit to half a unit a login.  The sums are folds over sets.
`AllSubsets` replaces an induction theorem the provers cannot instantiate: if a set of
subsets of a finite set is not all of them, it leaves out a smallest one.  With it the
recursive function a fold is defined by is shown to exist (`AddsExists`) and to be the
only one (`AddsAgree`), so that `Total` may be taken apart at any element
(`TotalWith`), over two disjoint sets (`TotalUnion`), or sorted by address
(`TotalSorted`, which is `rewards[address] += ...`, unlocker.go:432).  `NearTotal`
adds the half units up.

`Server_proofs`.  `TypeCorrect`, which includes that an RPC client is sick exactly
from the limit of failures to the limit of successes and that checks and retargets
exclude each other; and `OnlyCrowdsJamRetargets`, from `Crowd`: the places a retarget
has lost and the sessions it has yet to reach are of different sessions, because the
lock it holds for reading keeps the map as it is.

`Jobs_proofs`.  `TypeCorrect`, `WorkStaysCurrent` and `VerdictsAreFair`.  The
invariant says that an id stands for one job, on its way in one place only
(`Distinct`); that without overlap one goroutine makes or sends a job (`OneAtATime`)
and makes it of the pool's template and the session's difficulty (`UpToDate`); that
a nonce which was credited is known (`Counted`); and that a share of the client's
job is judged by the template and difficulty the pool has, unless a job is on its
way that will replace it (`Judged`).

`Events_proofs`.  `AwardsAreUnique`, from what a pass has in hand (`InHand`): nothing
drawn is recorded yet, and only what is about to be recorded has one credit more than
crashes account for.  `AwardsAreForEventDays`, for any calendar: a pass knows the day
it began on, even when the hour has turned (`PassInv`), and all that is awarded is
legal (`AwardInv`); the calendar's division needs months of more than one day, named
in `CalendarAssumption`.
`TypeCorrect` needs that no beat is of the future (`NotAhead`); the least start and the
latest beat of an address exist because `<` is well founded on the numbers
(`EarliestIs`, `LatestIs`, `MergeIs`).  `WinnersWereThere` follows a worker's beats
(`BeatsSeen`) into the records of the last two days (`RecordsSeen`) and into the award
(`AwardSeen`).
`EveryBonusHourIsDrawn` and `EveryDayIsDrawn` say that nothing that could be drawn is
left out.  For an hour: who mined it and is heard of in the next is in what a pass of
the next collects, then in the record, then among the winners (`HoursInv`).  For a
day: who has mined since before it has a record with no offset as long as the day
lasts (`UnbrokenInv`), and by its end one that wins (`FullInv`, `FullWins`), which a
pass begun before midnight does not spoil (`YesterdayInv`); so a whole pass on the day
after has drawn it (`DrawsInv`).  That takes days of at least three hours, since a
pass begun in the first hour of a day does not yet see it whole, and a criterion of
no more hours than a day has: both are in `CalendarAssumption`.  Each states its scope.
The bonus day must be in the window of the event: the code draws its hours only then
(events.go:111-153).  And `TwoMonths`: the code compares months and days of the month
(events.go:120-145), which covers all days of an event within a month or over two, but
leaves out days in the middle of an event over three or more.  (Over a year's end it
leaves out all of them, events.go:117; the model's event is within one year.)  `events`
checks the two properties without these premises, on instances that meet them.
These proofs found a mistake in the model: the cases of `Merge` overlapped where an
address has no record yet, which TLC, taking the first that applies, does not show.

Model-checked only: all liveness, which is beyond this prover: `EventuallyPaid`,
`EventuallyMatured`, `OperationsEnd`, `EventuallyClosed`, `LoopsEnd`,
`SessionsServed`, `WorkFromFirstAlive`, `SicknessFollowsNodes`, `TemplateCatchesUp`.
Every invariant and action property of the runs that hold has its theorem, `NeverOverpay`
under the faults its theorem names.

## 5. Order of work, and what is not modelled

The project was built in the order of what goes wrong most expensively: `Payouts`,
`Unlocker`, `GravStore`, `Rounds`, then `Events`, the server in three modules, `Jobs`,
`Rewards` with the refinement, `Amounts`, and the proofs.  What a next step would add:

1. An abstract ledger (earned, owed, paid) with `Unlocker` and `Payouts` together
   shown to implement it between the named faults.  Each side of it is proved now:
   `Rewards` on one, `WalletMatchesRecords` and `ExcessAccounted` on the other.
2. `storeShare` with donations, joined with `Rounds`: what is donated is taken from
   the miner (miner.go:521).
3. The hours of `Events` with several addresses and gaps, for `MinerPercentCriteria`.

Not modelled, and why.

* Charts (`charts.go`): samples of bounded number for display; nobody reads them to
  decide anything.
* API (`api.go`): collects statistics and serves them; it writes only its own snapshot.
  To the store it is one more reader, and `GravStore` has one.
* Miners map (`mmap.go`): sharded maps behind locks, generated from a template.  The
  fields of a miner, the shares by second among them, are written without a lock all
  the same; what of that matters to rounds is the step between `StampShare` and
  `StoreShare`.  So is a session's `TimestampArr`, by the handler (miner.go:562) and a
  retarget (miner.go:101): Go may stop the process there, which is a crash of the kind
  the other modules have anyway.
* Configuration and start, utilities, website: run once, stateless, or static files.
* Within modelled files: parsing of requests and logins, hash functions, the averages
  of `calcVarDiff` (in `Jobs` any change of difficulty), deadlines of connections,
  donations and solo shares in `storeShare`, log files and printed totals, registrations
  and the configuration and chart keys of the store.  `cs.lastBlockHeight` is compared
  but never assigned, so that it decides nothing.
