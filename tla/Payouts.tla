------------------------------ MODULE Payouts ------------------------------
(***************************************************************************)
(* The payouts processor (stratum/payments.go) and the two ledger keys of  *)
(* the store it works on: "payments:pending" and "payments:processed".     *)
(*                                                                         *)
(* One goroutine, the payer, reads the pending list once per interval,     *)
(* selects the payees above the threshold, sends payment-ID payees one     *)
(* transaction each and the others in batches, and after each accepted     *)
(* transaction debits its payees by OVERWRITING the pending list with its  *)
(* own pruned copy.  Meanwhile another goroutine, the writer (unlocker,    *)
(* events, share statistics, charts), may be between the read and the      *)
(* commit of a store operation of its own.                                 *)
(*                                                                         *)
(* Abstractions.  Amounts are naturals.  The pending list is a function    *)
(* from login to amount, 0 standing for no entry: WritePendingPayments     *)
(* keeps one entry per address, and an entry of amount 0 never reaches the *)
(* threshold.  The order of the list, which removePendingPayments          *)
(* scrambles, is any order.  The wallet is external: it accepts a          *)
(* transaction, rejects it, or transfers the money and gives no answer.    *)
(* A failure of json.Marshal on these types cannot happen and is left out. *)
(***************************************************************************)
EXTENDS Integers, FiniteSets

CONSTANTS
    Logins,         \* addresses (with their payment ID) that can be credited
    PidLogins,      \* those that carry a payment ID
    Integrated,     \* those whose address is an integrated address
    Invalid,        \* those that fail the address validation
    MaxAddresses,   \* PaymentsConfig.MaxAddresses
    Threshold,      \* PaymentsConfig.Threshold
    CreditAmounts,  \* amounts a store write may add to a login (0: another key)
    MaxCredit,      \* bound: total ever credited to one login
    Faults,         \* the faults of this instance
    MaxFaults       \* bound: faults in a behaviour

(* "reject"   the wallet refuses a transaction, the debit loop is broken   *)
(* "balance"  GetBalance fails or the balance is too low for a payee       *)
(* "noanswer" the transfer happens but no transaction hash comes back      *)
(* "crash"    the pool process stops and is started again                  *)
(* "overlap"  OverwritePendingPayments commits inside another write        *)
FaultKinds == {"reject", "balance", "noanswer", "crash", "overlap"}

ASSUME LoginsAssumption ==
    /\ PidLogins \subseteq Logins
    /\ Integrated \subseteq Logins \ PidLogins
    /\ Invalid \subseteq Logins
ASSUME NumbersAssumption ==
    /\ MaxAddresses \in Nat /\ Threshold \in Nat
    /\ CreditAmounts \subseteq Nat
    /\ MaxCredit \in Nat /\ MaxFaults \in Nat
ASSUME FaultsAssumption == Faults \subseteq FaultKinds

VARIABLES
    pending,     \* store: "payments:pending", amount owed per login
    processed,   \* store: "payments:processed", total recorded per login
    writing,     \* Graviton_backend.Writing, held by the writer
    base,        \* the writer's loaded copy of the pending list
    gain,        \* what the writer will add to that copy
    pc,          \* payer: "idle", "scan", "payid", "plain" or "send"
    todo,        \* payer: entries the scan loop has not reached
    snap,        \* payer: amounts as read when the interval started
    payPending,  \* payer: its pruned copy of the pending list
    payIDList,   \* payer: payees of the payment-ID loop still to send
    payoutList,  \* payer: payees of the batch loop still to add
    dests,       \* payer: currPayout.Destinations
    toDebit,     \* payer: payees of the accepted transaction not yet debited
    toRecord,    \* payer: payee debited but not yet written as processed
    sent,        \* wallet: total transferred per login
    credited,    \* history: total ever credited per login
    excess,      \* history: transfers and credits no debit answers for
    lost,        \* history: credits deleted without having been paid
    faultsLeft   \* history: budget of faults

store   == <<pending, processed>>
writer  == <<writing, base, gain>>
lists   == <<todo, snap, payIDList, payoutList>>
payer   == <<pc, lists, payPending, dests, toDebit, toRecord>>
history == <<credited, excess, lost, faultsLeft>>
vars    == <<store, writer, payer, sent, history>>

Zero == [l \in Logins |-> 0]
Causes == {"noanswer", "accumulated", "revived", "unrecorded"}

TypeOK ==
    /\ pending \in [Logins -> Nat] /\ processed \in [Logins -> Nat]
    /\ writing \in {0, 1}
    /\ base \in [Logins -> Nat] /\ gain \in [Logins -> Nat]
    /\ pc \in {"idle", "scan", "payid", "plain", "send"}
    /\ snap \in [Logins -> Nat] /\ payPending \in [Logins -> Nat]
    /\ todo \subseteq Logins
    /\ payIDList \subseteq PidLogins /\ payoutList \subseteq Logins \ PidLogins
    /\ dests \subseteq Logins /\ toDebit \subseteq Logins
    /\ toRecord \subseteq Logins
    /\ sent \in [Logins -> Nat] /\ credited \in [Logins -> Nat]
    /\ excess \in [Causes -> [Logins -> Nat]] /\ lost \in [Logins -> Nat]
    /\ faultsLeft \in Nat

Init ==
    /\ pending = Zero /\ processed = Zero
    /\ writing = 0 /\ base = Zero /\ gain = Zero
    /\ pc = "idle" /\ snap = Zero /\ payPending = Zero
    /\ todo = {} /\ payIDList = {} /\ payoutList = {}
    /\ dests = {} /\ toDebit = {} /\ toRecord = {}
    /\ sent = Zero /\ credited = Zero
    /\ excess = [c \in Causes |-> Zero] /\ lost = Zero
    /\ faultsLeft = MaxFaults

-----------------------------------------------------------------------------
(* Helpers.                                                                *)

\* f with the amounts of g added for the logins of S.
AddFor(f, g, S) == [l \in Logins |-> IF l \in S THEN f[l] + g[l] ELSE f[l]]

Monus(m, n) == IF m > n THEN m - n ELSE 0

\* A fault of kind f may happen now; it uses up the budget by one.
MayFault(f) == f \in Faults /\ faultsLeft > 0
UseFault    == faultsLeft' = faultsLeft - 1

Debiting == toDebit # {} \/ toRecord # {}

-----------------------------------------------------------------------------
(* The writer.                                                             *)

(* Another goroutine loads the tree under Writing, to add n to the pending *)
(* entry of l, or (n = 0) to write some other key of the same tree.        *)
WriteBegin(l, n) ==
    /\ writing = 0
    /\ credited[l] + n <= MaxCredit
    /\ writing' = 1
    /\ base' = pending
    /\ gain' = [Zero EXCEPT ![l] = n]
    /\ UNCHANGED <<store, payer, sent, history>>

(* Mutant: the entry is replaced where it should be added to. *)
CommittedEntries_Replaced ==
    [l \in Logins |-> IF gain[l] > 0 THEN gain[l] ELSE base[l]]

(* The pending list the writer commits: its copy plus the new amount.      *)
CommittedEntries == [l \in Logins |-> base[l] + gain[l]]

(* The commit replaces the whole tree, thus also the pending list, by the  *)
(* writer's copy: a debit that came in between is undone.                  *)
WriteCommit ==
    /\ writing = 1
    /\ writing' = 0
    /\ pending' = CommittedEntries
    /\ credited' = AddFor(credited, gain, Logins)
    /\ excess' = [excess EXCEPT !["revived"] =
                    [l \in Logins |-> @[l] + Monus(base[l], pending[l])]]
    /\ base' = Zero /\ gain' = Zero
    /\ UNCHANGED <<processed, payer, sent, lost, faultsLeft>>

-----------------------------------------------------------------------------
(* The payer: the scan of the pending list.                                *)

ReadPending ==
    /\ pc = "idle"
    /\ pc' = "scan"
    /\ snap' = pending /\ payPending' = pending
    /\ todo' = {l \in Logins : pending[l] > 0}
    /\ payIDList' = {} /\ payoutList' = {} /\ dests' = {}
    /\ UNCHANGED <<store, writer, toDebit, toRecord, sent, history>>

reachedThreshold(amount) == Threshold < amount

(* Mutant: the loop is left where it should go on with the next entry. *)
Skip_Break(l) ==
    /\ l \in todo
    /\ ~reachedThreshold(snap[l]) \/ l \in Invalid
    /\ todo' = {}
    /\ UNCHANGED <<payIDList, payoutList, faultsLeft>>

(* An entry at or below the threshold, or whose address is not valid.      *)
Skip(l) ==
    /\ l \in todo
    /\ ~reachedThreshold(snap[l]) \/ l \in Invalid
    /\ todo' = todo \ {l}
    /\ UNCHANGED <<payIDList, payoutList, faultsLeft>>

(* Mutant: a payment-ID payee is put on the list of the batches as well. *)
Select_BothLists(l) ==
    /\ l \in todo
    /\ reachedThreshold(snap[l]) /\ l \notin Invalid
    /\ todo' = todo \ {l}
    /\ payIDList'  = IF l \in PidLogins THEN payIDList \cup {l} ELSE payIDList
    /\ payoutList' = payoutList \cup {l}
    /\ UNCHANGED faultsLeft

(* A payee of one of the two lists, with the amount read.                  *)
Select(l) ==
    /\ l \in todo
    /\ reachedThreshold(snap[l]) /\ l \notin Invalid
    /\ todo' = todo \ {l}
    /\ payIDList'  = IF l \in PidLogins THEN payIDList \cup {l} ELSE payIDList
    /\ payoutList' = IF l \in PidLogins THEN payoutList ELSE payoutList \cup {l}
    /\ UNCHANGED faultsLeft

(* The wallet does not answer or has too little for this payee: the loop   *)
(* ends here, whatever the entries that follow ask for.                    *)
OutOfBalance(l) ==
    /\ MayFault("balance") /\ UseFault
    /\ l \in todo /\ reachedThreshold(snap[l])
    /\ todo' = {}
    /\ UNCHANGED <<payIDList, payoutList>>

ScanEntry(l) ==
    /\ pc = "scan"
    /\ Skip(l) \/ Select(l) \/ OutOfBalance(l)
    /\ UNCHANGED <<store, writer, pc, snap, payPending, dests, toDebit,
                   toRecord, sent, credited, excess, lost>>

ScanDone ==
    /\ pc = "scan" /\ todo = {}
    /\ pc' = "payid"
    /\ UNCHANGED <<store, writer, lists, payPending, dests, toDebit, toRecord,
                   sent, history>>

-----------------------------------------------------------------------------
(* The payer: sending.                                                     *)

(* The wallet transfers to all the destinations D of the transaction and   *)
(* the answer carries its hash; the payees S of them are to be debited.    *)
Accepted(D, S) ==
    /\ sent' = AddFor(sent, snap, D)
    /\ toDebit' = S
    /\ excess' = [excess EXCEPT !["accumulated"] = AddFor(@, snap, D \ S)]
    /\ UNCHANGED faultsLeft

(* The transfer happens, but the caller gets an error or no hash.          *)
Unanswered(D, S) ==
    /\ MayFault("noanswer") /\ UseFault
    /\ sent' = AddFor(sent, snap, D)
    /\ excess' = [excess EXCEPT !["noanswer"] = AddFor(@, snap, S),
                                !["accumulated"] = AddFor(@, snap, D \ S)]
    /\ UNCHANGED toDebit

Rejected ==
    /\ MayFault("reject") /\ UseFault
    /\ UNCHANGED <<sent, toDebit, excess>>

(* One payment-ID payee.  The destination is appended to the list of the   *)
(* earlier ones: the loop never resets it.  Every failure breaks the loop. *)
SendPaymentID(l) ==
    /\ pc = "payid" /\ ~Debiting
    /\ l \in payIDList
    /\ dests' = dests \cup {l}
    /\ \/ Accepted(dests \cup {l}, {l}) /\ payIDList' = payIDList \ {l}
       \/ Unanswered(dests \cup {l}, {l}) /\ payIDList' = {}
       \/ Rejected /\ payIDList' = {}
    /\ UNCHANGED <<store, writer, pc, todo, snap, payoutList, payPending,
                   toRecord, credited, lost>>

PaymentIDsDone ==
    /\ pc = "payid" /\ ~Debiting /\ payIDList = {}
    /\ pc' = "plain" /\ dests' = {}
    /\ UNCHANGED <<store, writer, lists, payPending, toDebit, toRecord, sent,
                   history>>

(* Mutant: an integrated address does not close the batch. *)
BatchComplete_NoIntegrated(batch, rest) ==
    Cardinality(batch) >= MaxAddresses \/ rest = {}

(* When the collected destinations are sent: the batch is full, it is the  *)
(* last one, or it holds an integrated address.                            *)
BatchComplete(batch, rest) ==
    \/ Cardinality(batch) >= MaxAddresses
    \/ rest = {}
    \/ batch \cap Integrated # {}

AddDestination(l) ==
    /\ pc = "plain" /\ ~Debiting
    /\ l \in payoutList
    /\ dests' = dests \cup {l}
    /\ payoutList' = payoutList \ {l}
    /\ pc' = IF BatchComplete(dests', payoutList') THEN "send" ELSE "plain"
    /\ UNCHANGED <<store, writer, todo, snap, payIDList, payPending, toDebit,
                   toRecord, sent, history>>

(* One batch.  Every failure leaves the loop and ends the interval.        *)
SendBatch ==
    /\ pc = "send"
    /\ dests' = {}
    /\ \/ Accepted(dests, dests) /\ pc' = "plain"
       \/ Unanswered(dests, dests) /\ pc' = "idle"
       \/ Rejected /\ pc' = "idle"
    /\ UNCHANGED <<store, writer, lists, payPending, toRecord, credited, lost>>

IntervalDone ==
    /\ pc = "plain" /\ ~Debiting /\ payoutList = {}
    /\ pc' = "idle"
    /\ UNCHANGED <<store, writer, lists, payPending, dests, toDebit, toRecord,
                   sent, history>>

-----------------------------------------------------------------------------
(* The payer: debiting the payees of an accepted transaction.              *)

(* Mutant: the entry of the payee stays in the list. *)
removePendingPayments_Keep(list, l) == list

removePendingPayments(list, l) == [list EXCEPT ![l] = 0]

(* The pending list becomes the payer's pruned copy of it, without waiting *)
(* for Writing: the commit may fall between the read and the commit of the *)
(* writer.  What others were credited since the list was read, and the     *)
(* payee beyond the amount paid, is deleted with it.                       *)
OverwritePendingPayments(l) ==
    /\ l \in toDebit /\ toRecord = {}
    /\ \/ writing = 0 /\ UNCHANGED faultsLeft
       \/ writing = 1 /\ MayFault("overlap") /\ UseFault
    /\ payPending' = removePendingPayments(payPending, l)
    /\ pending' = payPending'
    /\ toDebit' = toDebit \ {l}
    /\ toRecord' = {l}
    /\ lost' = [m \in Logins |-> lost[m] +
                   Monus(pending[m], pending'[m] + AddFor(Zero, snap, {l})[m])]
    /\ UNCHANGED <<processed, writer, pc, lists, dests, sent, credited, excess>>

(* Mutant: the amount recorded is looked up after its entry was removed. *)
WriteProcessedPayments_Removed(l) ==
    /\ l \in toRecord
    /\ writing = 0
    /\ processed' = [processed EXCEPT ![l] = @ + payPending[l]]
    /\ toRecord' = {}
    /\ UNCHANGED <<pending, writer, pc, lists, payPending, dests, toDebit, sent,
                   history>>

(* The payment is appended to the processed ones, under Writing.           *)
WriteProcessedPayments(l) ==
    /\ l \in toRecord
    /\ writing = 0
    /\ processed' = [processed EXCEPT ![l] = @ + snap[l]]
    /\ toRecord' = {}
    /\ UNCHANGED <<pending, writer, pc, lists, payPending, dests, toDebit, sent,
                   history>>

-----------------------------------------------------------------------------
(* A crash loses what the payer and the writer hold in memory; the restart *)
(* processes payouts at once, as every interval does.                      *)
Crash ==
    /\ MayFault("crash") /\ UseFault
    /\ writing' = 0 /\ base' = Zero /\ gain' = Zero
    /\ pc' = "idle" /\ snap' = Zero /\ payPending' = Zero
    /\ todo' = {} /\ payIDList' = {} /\ payoutList' = {} /\ dests' = {}
    /\ toDebit' = {} /\ toRecord' = {}
    /\ excess' = [excess EXCEPT !["noanswer"] = AddFor(@, snap, toDebit),
                                !["unrecorded"] = AddFor(@, snap, toRecord)]
    /\ UNCHANGED <<store, sent, credited, lost>>

Payer ==
    \/ ReadPending
    \/ \E l \in Logins : ScanEntry(l)
    \/ ScanDone
    \/ \E l \in Logins : SendPaymentID(l)
    \/ PaymentIDsDone
    \/ \E l \in Logins : AddDestination(l)
    \/ SendBatch
    \/ IntervalDone
    \/ \E l \in Logins : OverwritePendingPayments(l)
    \/ \E l \in Logins : WriteProcessedPayments(l)

Next ==
    \/ \E l \in Logins, n \in CreditAmounts : WriteBegin(l, n)
    \/ WriteCommit
    \/ Payer
    \/ Crash

(* The payer's timer fires again after every interval, and a write that    *)
(* holds Writing ends; nothing makes anyone earn a credit, or fail.        *)
Fairness == WF_vars(Payer) /\ WF_vars(WriteCommit)

Spec == Init /\ [][Next]_vars /\ Fairness

-----------------------------------------------------------------------------
(* Properties.                                                             *)

(* What was transferred to l and not debited yet.                          *)
InFlight(l) == IF l \in toDebit THEN snap[l] ELSE 0

(* Money is conserved: what a login was sent, is owed, and had deleted     *)
(* unpaid is what it was credited, with what is in flight and the three    *)
(* causes the code has for paying twice: a transfer whose answer never     *)
(* came (payments.go:285), payment-ID destinations that pile up            *)
(* (payments.go:268), and a debit undone by a write that had already       *)
(* loaded the list (payments.go:305).  Stale copies of the pending list    *)
(* never create money in any other way.                                    *)
ExcessAccounted ==
    \A l \in Logins :
        sent[l] + pending[l] + lost[l] = credited[l] + InFlight(l)
            + excess["noanswer"][l] + excess["accumulated"][l]
            + excess["revived"][l]

(* Without those causes nobody is ever sent more than was credited to them *)
(* however the intervals, the credits and the lost updates interleave.     *)
NeverOverpay ==
    \A l \in Logins : sent[l] <= credited[l]

(* Every transfer is in "payments:processed", about to be, or explained by *)
(* a missing answer, an accumulated destination or a crash before the      *)
(* record was written.                                                     *)
WalletMatchesRecords ==
    \A l \in Logins :
        sent[l] = processed[l]
            + (IF l \in toDebit \cup toRecord THEN snap[l] ELSE 0)
            + excess["noanswer"][l] + excess["accumulated"][l]
            + excess["unrecorded"][l]

(* The wallet takes no transaction with two integrated addresses, nor more *)
(* than MaxAddresses of them (payments.go:349 and 358).                    *)
BatchIsSendable ==
    pc = "send" => /\ Cardinality(dests \cap Integrated) <= 1
                   /\ Cardinality(dests) <= IF MaxAddresses = 0 THEN 1
                                            ELSE MaxAddresses

(* A transaction with a payment ID pays the one payee the ID belongs to    *)
(* ("one at a time", payments.go:265).                                     *)
PaymentIDOneAtATime ==
    pc = "payid" /\ toDebit # {} => dests = toDebit

(* Overwriting the pending list deletes the entry of the payee whose       *)
(* payment has been processed and no other amount (storage.go:761).        *)
OverwriteDeletesOnlyPaid ==
    [][\A l \in Logins : OverwritePendingPayments(l) =>
          \A m \in Logins \ {l} : pending'[m] = pending[m]]_vars

(* The payer's stale copy may lose credits but never brings any back: no   *)
(* overwrite increases what a login is owed.                               *)
OverwriteNeverAdds ==
    [][Payer => \A m \in Logins : pending'[m] <= pending[m]]_vars

(* A valid payee owed more than the threshold, and not just being debited, *)
(* is eventually sent a transfer, once faults stop ending scans and loops  *)
(* before its turn, wherever its entry stands in the list and whatever     *)
(* else is credited; unless what it is owed is deleted by the debit of     *)
(* another payee from a copy read before the credit (payments.go:126 and   *)
(* 305), which pays nothing.                                               *)
EventuallyPaid ==
    \A l \in Logins \ Invalid, k \in 0..MaxCredit :
        pending[l] > Threshold /\ l \notin toDebit /\ sent[l] + lost[l] = k
            ~> sent[l] + lost[l] > k
=============================================================================
