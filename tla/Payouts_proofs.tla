-------------------------- MODULE Payouts_proofs ---------------------------
(***************************************************************************)
(* Proofs about Payouts, for every set of logins, every threshold, batch   *)
(* size, credit and fault of the constants.                                *)
(***************************************************************************)
EXTENDS Payouts, FiniteSetTheorems, TLAPS

USE LoginsAssumption, NumbersAssumption, FaultsAssumption

-----------------------------------------------------------------------------
(* The inductive invariant.                                                *)

(* What l may have been sent, be owed or have lost: its credits, what is in     *)
(* flight, and the excess that has a known cause.                          *)
Allowed(l) ==
    credited[l] + InFlight(l) + excess["noanswer"][l]
        + excess["accumulated"][l] + excess["revived"][l]

(* What l was sent, is still owed, or lost to an overwrite.                *)
Conserved == \A l \in Logins : sent[l] + pending[l] + lost[l] = Allowed(l)

(* The payer's copy is never ahead of the store, nor the store of what a   *)
(* writer has loaded.                                                      *)
CopyBehind ==
    /\ pc # "idle" => \A m \in Logins : payPending[m] <= pending[m]
    /\ writing = 1 => \A m \in Logins : pending[m] <= base[m]

(* Payees that are still to be debited are in the payer's copy with the    *)
(* amount that was read.                                                   *)
Undebited ==
    todo \cup payIDList \cup payoutList \cup toDebit
        \cup (IF pc \in {"plain", "send"} THEN dests ELSE {})
CopyIsSnapshot == pc # "idle" => \A l \in Undebited : payPending[l] = snap[l]

(* A payee is in one stage of the interval only. *)
StagesDisjoint ==
    /\ todo \cap (payIDList \cup payoutList) = {}
    /\ toDebit \cap (payIDList \cup payoutList) = {}
    /\ toDebit \cap toRecord = {}
    /\ \A l, m \in toRecord : l = m
    /\ pc \in {"plain", "send"} =>
         dests \cap (payIDList \cup payoutList \cup toDebit) = {}
    /\ pc \in {"idle", "scan", "send"} => toDebit = {} /\ toRecord = {}
    /\ pc \in {"payid", "plain", "send"} => todo = {}
    /\ pc \in {"plain", "send"} /\ toDebit # {} => dests = {}
    /\ pc = "scan" => dests = {}
    /\ pc = "payid" => dests \subseteq PidLogins \ payIDList

IInv == Conserved /\ CopyBehind /\ CopyIsSnapshot /\ StagesDisjoint

-----------------------------------------------------------------------------
(* Type correctness.                                                       *)

LEMMA AddForType ==
    ASSUME NEW f \in [Logins -> Nat], NEW g \in [Logins -> Nat], NEW S
    PROVE  AddFor(f, g, S) \in [Logins -> Nat]
BY DEF AddFor

(* What an unanswered transaction adds to each cause of excess. *)
LEMMA UnansweredExcess ==
    ASSUME excess \in [Causes -> [Logins -> Nat]], NEW D, NEW S,
           Unanswered(D, S)
    PROVE  /\ excess' = [c \in Causes |->
                 IF c = "accumulated"
                 THEN AddFor(excess["accumulated"], snap, D \ S)
                 ELSE IF c = "noanswer"
                      THEN AddFor(excess["noanswer"], snap, S)
                      ELSE excess[c]]
           /\ excess'["noanswer"] = AddFor(excess["noanswer"], snap, S)
           /\ excess'["accumulated"] =
                AddFor(excess["accumulated"], snap, D \ S)
           /\ excess'["revived"] = excess["revived"]
           /\ excess'["unrecorded"] = excess["unrecorded"]
BY DEF Unanswered, Causes

LEMMA InitType == Init => TypeOK
BY DEF Init, TypeOK, Zero

(* Every variable keeps its type, in every step of the payer and the       *)
(* writer and in a crash.                                                  *)
LEMMA NextType == TypeOK /\ [Next]_vars => TypeOK'
<1> SUFFICES ASSUME TypeOK, [Next]_vars PROVE TypeOK'
    OBVIOUS
<1> USE DEF TypeOK, store, writer, lists, payer, history
<1>1. ASSUME NEW l \in Logins, NEW n \in CreditAmounts, WriteBegin(l, n)
      PROVE  TypeOK'
    BY <1>1 DEF WriteBegin, Zero
<1>2. CASE WriteCommit
    <2>1. pending' \in [Logins -> Nat]
        BY <1>2 DEF WriteCommit, CommittedEntries
    <2>2. credited' \in [Logins -> Nat]
        BY <1>2, AddForType DEF WriteCommit
    <2>3. [l \in Logins |-> excess["revived"][l] + Monus(base[l], pending[l])]
            \in [Logins -> Nat]
        <3>1. ASSUME NEW l \in Logins
              PROVE  excess["revived"][l] + Monus(base[l], pending[l]) \in Nat
            <4>1. base[l] \in Nat /\ pending[l] \in Nat
                    /\ excess["revived"][l] \in Nat
                BY DEF Causes
            <4>2. QED
                BY <4>1 DEF Monus
        <3>2. QED
            BY <3>1
    <2>4. excess' \in [Causes -> [Logins -> Nat]]
        BY <1>2, <2>3 DEF WriteCommit, Causes
    <2>5. QED
        BY <1>2, <2>1, <2>2, <2>4 DEF WriteCommit, Zero
<1>3. CASE ReadPending
    BY <1>3 DEF ReadPending
<1>4. ASSUME NEW l \in Logins, ScanEntry(l)
      PROVE  TypeOK'
    BY <1>4 DEF ScanEntry, Skip, Select, OutOfBalance, MayFault, UseFault
<1>5. CASE ScanDone
    BY <1>5 DEF ScanDone
<1>6. ASSUME NEW D \in SUBSET Logins, NEW S \in SUBSET Logins,
             Accepted(D, S) \/ Unanswered(D, S) \/ Rejected
      PROVE  /\ sent' \in [Logins -> Nat]
             /\ toDebit' \subseteq Logins
             /\ excess' \in [Causes -> [Logins -> Nat]]
             /\ faultsLeft' \in Nat
    <2>1. AddFor(sent, snap, D) \in [Logins -> Nat]
        BY AddForType
    <2>2. AddFor(excess["accumulated"], snap, D \ S) \in [Logins -> Nat]
        BY AddForType DEF Causes
    <2>3. AddFor(excess["noanswer"], snap, S) \in [Logins -> Nat]
        BY AddForType DEF Causes
    <2>4. CASE Accepted(D, S)
        BY <2>1, <2>2, <2>4 DEF Accepted, Causes
    <2>5. CASE Unanswered(D, S)
        <3>1. excess' \in [Causes -> [Logins -> Nat]]
            BY <2>2, <2>3, <2>5, UnansweredExcess
        <3>2. QED
            <4>1. faultsLeft' \in Nat
                BY <2>5 DEF Unanswered, MayFault, UseFault
            <4>2. sent' \in [Logins -> Nat] /\ UNCHANGED toDebit
                BY <2>1, <2>5 DEF Unanswered
            <4>3. QED
                BY <3>1, <4>1, <4>2
    <2>6. CASE Rejected
        BY <2>6 DEF Rejected, MayFault, UseFault
    <2>7. QED
        BY <1>6, <2>4, <2>5, <2>6
<1>7. ASSUME NEW l \in Logins, SendPaymentID(l)
      PROVE  TypeOK'
    <2>1. dests \cup {l} \in SUBSET Logins /\ {l} \in SUBSET Logins
        OBVIOUS
    <2>2. Accepted(dests \cup {l}, {l}) \/ Unanswered(dests \cup {l}, {l})
            \/ Rejected
        BY <1>7 DEF SendPaymentID
    <2>3. /\ sent' \in [Logins -> Nat] /\ toDebit' \subseteq Logins
          /\ excess' \in [Causes -> [Logins -> Nat]] /\ faultsLeft' \in Nat
        BY <1>6, <2>1, <2>2
    <2>4. QED
        BY <1>7, <2>3 DEF SendPaymentID
<1>8. CASE PaymentIDsDone
    BY <1>8 DEF PaymentIDsDone
<1>9. ASSUME NEW l \in Logins, AddDestination(l)
      PROVE  TypeOK'
    BY <1>9 DEF AddDestination
<1>10. CASE SendBatch
    <2>1. Accepted(dests, dests) \/ Unanswered(dests, dests) \/ Rejected
        BY <1>10 DEF SendBatch
    <2>2. /\ sent' \in [Logins -> Nat] /\ toDebit' \subseteq Logins
          /\ excess' \in [Causes -> [Logins -> Nat]] /\ faultsLeft' \in Nat
        BY <1>6, <2>1
    <2>3. QED
        BY <1>10, <2>2 DEF SendBatch
<1>11. CASE IntervalDone
    BY <1>11 DEF IntervalDone
<1>12. ASSUME NEW l \in Logins, OverwritePendingPayments(l)
       PROVE  TypeOK'
    <2>1. pending' \in [Logins -> Nat] /\ payPending' \in [Logins -> Nat]
        BY <1>12 DEF OverwritePendingPayments, removePendingPayments
    <2>2. lost' \in [Logins -> Nat]
        <3>1. ASSUME NEW m \in Logins
              PROVE  lost[m] + Monus(pending[m], pending'[m]
                                + AddFor(Zero, snap, {l})[m]) \in Nat
            <4>1. AddFor(Zero, snap, {l}) \in [Logins -> Nat]
                BY AddForType DEF Zero
            <4>2. /\ lost[m] \in Nat /\ pending[m] \in Nat
                  /\ pending'[m] \in Nat
                  /\ AddFor(Zero, snap, {l})[m] \in Nat
                BY <2>1, <4>1
            <4>3. QED
                BY <4>2 DEF Monus
        <3>2. QED
            BY <1>12, <3>1 DEF OverwritePendingPayments
    <2>3. faultsLeft' \in Nat
        BY <1>12 DEF OverwritePendingPayments, MayFault, UseFault
    <2>4. QED
        BY <1>12, <2>1, <2>2, <2>3 DEF OverwritePendingPayments
<1>13. ASSUME NEW l \in Logins, WriteProcessedPayments(l)
       PROVE  TypeOK'
    BY <1>13 DEF WriteProcessedPayments
<1>14. CASE Crash
    <2>1. AddFor(excess["noanswer"], snap, toDebit) \in [Logins -> Nat]
        BY AddForType DEF Causes
    <2>2. AddFor(excess["unrecorded"], snap, toRecord) \in [Logins -> Nat]
        BY AddForType DEF Causes
    <2>3. excess' \in [Causes -> [Logins -> Nat]]
        BY <1>14, <2>1, <2>2 DEF Crash, Causes
    <2>4. QED
        BY <1>14, <2>3 DEF Crash, MayFault, UseFault, Zero
<1>15. CASE UNCHANGED vars
    BY <1>15 DEF vars
<1>16. QED
    BY <1>1, <1>2, <1>3, <1>4, <1>5, <1>7, <1>8, <1>9, <1>10, <1>11, <1>12,
       <1>13, <1>14, <1>15 DEF Next, Payer

(* The payouts processor keeps every variable in its type: amounts are     *)
(* never negative and payees never leave the list they belong to.          *)
THEOREM TypeCorrect == Spec => []TypeOK
BY InitType, NextType, PTL DEF Spec

-----------------------------------------------------------------------------
(* The invariant is inductive.  The disjointness of the stages and the     *)
(* agreement of the copy with the snapshot do not depend on the amounts,   *)
(* so they come first.                                                     *)

LEMMA InitInv == Init => IInv
BY DEF Init, IInv, Conserved, CopyBehind, CopyIsSnapshot, StagesDisjoint,
       Allowed, InFlight, Zero, Causes, TypeOK

LEMMA NextStages ==
    TypeOK /\ StagesDisjoint /\ [Next]_vars => StagesDisjoint'
<1> SUFFICES ASSUME TypeOK, StagesDisjoint, [Next]_vars PROVE StagesDisjoint'
    OBVIOUS
<1> USE DEF TypeOK, StagesDisjoint, store, writer, lists, payer, history
<1>1. ASSUME NEW l \in Logins, NEW n \in CreditAmounts, WriteBegin(l, n)
      PROVE  StagesDisjoint'
    BY <1>1 DEF WriteBegin
<1>2. CASE WriteCommit
    BY <1>2 DEF WriteCommit
<1>3. CASE ReadPending
    BY <1>3 DEF ReadPending
<1>4. ASSUME NEW l \in Logins, ScanEntry(l)
      PROVE  StagesDisjoint'
    BY <1>4 DEF ScanEntry, Skip, Select, OutOfBalance, MayFault, UseFault
<1>5. CASE ScanDone
    BY <1>5 DEF ScanDone
<1>6. ASSUME NEW l \in Logins, SendPaymentID(l)
      PROVE  StagesDisjoint'
    BY <1>6 DEF SendPaymentID, Debiting, Accepted, Unanswered, Rejected
<1>7. CASE PaymentIDsDone
    BY <1>7 DEF PaymentIDsDone, Debiting
<1>8. ASSUME NEW l \in Logins, AddDestination(l)
      PROVE  StagesDisjoint'
    BY <1>8 DEF AddDestination, Debiting
<1>9. CASE SendBatch
    BY <1>9 DEF SendBatch, Accepted, Unanswered, Rejected
<1>10. CASE IntervalDone
    BY <1>10 DEF IntervalDone, Debiting
<1>11. ASSUME NEW l \in Logins, OverwritePendingPayments(l)
       PROVE  StagesDisjoint'
    BY <1>11 DEF OverwritePendingPayments
<1>12. ASSUME NEW l \in Logins, WriteProcessedPayments(l)
       PROVE  StagesDisjoint'
    BY <1>12 DEF WriteProcessedPayments
<1>13. CASE Crash
    BY <1>13 DEF Crash
<1>14. CASE UNCHANGED vars
    BY <1>14 DEF vars
<1>15. QED
    BY <1>1, <1>2, <1>3, <1>4, <1>5, <1>6, <1>7, <1>8, <1>9, <1>10, <1>11,
       <1>12, <1>13, <1>14 DEF Next, Payer

LEMMA NextCopy ==
    TypeOK /\ StagesDisjoint /\ CopyIsSnapshot /\ [Next]_vars
        => CopyIsSnapshot'
<1> SUFFICES ASSUME TypeOK, StagesDisjoint, CopyIsSnapshot, [Next]_vars
             PROVE  CopyIsSnapshot'
    OBVIOUS
<1> USE DEF TypeOK, StagesDisjoint, CopyIsSnapshot, Undebited, store, writer,
            lists, payer, history
<1>1. ASSUME NEW l \in Logins, NEW n \in CreditAmounts, WriteBegin(l, n)
      PROVE  CopyIsSnapshot'
    BY <1>1 DEF WriteBegin
<1>2. CASE WriteCommit
    BY <1>2 DEF WriteCommit
<1>3. CASE ReadPending
    BY <1>3 DEF ReadPending
<1>4. ASSUME NEW l \in Logins, ScanEntry(l)
      PROVE  CopyIsSnapshot'
    BY <1>4 DEF ScanEntry, Skip, Select, OutOfBalance, MayFault, UseFault
<1>5. CASE ScanDone
    BY <1>5 DEF ScanDone
<1>6. ASSUME NEW l \in Logins, SendPaymentID(l)
      PROVE  CopyIsSnapshot'
    BY <1>6 DEF SendPaymentID, Debiting, Accepted, Unanswered, Rejected
<1>7. CASE PaymentIDsDone
    BY <1>7 DEF PaymentIDsDone
<1>8. ASSUME NEW l \in Logins, AddDestination(l)
      PROVE  CopyIsSnapshot'
    BY <1>8 DEF AddDestination
<1>9. CASE SendBatch
    BY <1>9 DEF SendBatch, Accepted, Unanswered, Rejected
<1>10. CASE IntervalDone
    BY <1>10 DEF IntervalDone
<1>11. ASSUME NEW l \in Logins, OverwritePendingPayments(l)
       PROVE  CopyIsSnapshot'
    BY <1>11 DEF OverwritePendingPayments, removePendingPayments
<1>12. ASSUME NEW l \in Logins, WriteProcessedPayments(l)
       PROVE  CopyIsSnapshot'
    BY <1>12 DEF WriteProcessedPayments
<1>13. CASE Crash
    BY <1>13 DEF Crash
<1>14. CASE UNCHANGED vars
    BY <1>14 DEF vars
<1>15. QED
    BY <1>1, <1>2, <1>3, <1>4, <1>5, <1>6, <1>7, <1>8, <1>9, <1>10, <1>11,
       <1>12, <1>13, <1>14 DEF Next, Payer

LEMMA NextCopyBehind ==
    TypeOK /\ StagesDisjoint /\ CopyBehind /\ [Next]_vars => CopyBehind'
<1> SUFFICES ASSUME TypeOK, StagesDisjoint, CopyBehind, [Next]_vars
             PROVE  CopyBehind'
    OBVIOUS
<1> USE DEF TypeOK, CopyBehind, store, writer, lists, payer, history
<1>1. ASSUME UNCHANGED <<writer, pending, payPending>>,
             pc # "idle" \/ pc' = "idle"
      PROVE  CopyBehind'
    BY <1>1
<1>2. ASSUME NEW l \in Logins, NEW n \in CreditAmounts, WriteBegin(l, n)
      PROVE  CopyBehind'
    BY <1>2 DEF WriteBegin
<1>3. CASE WriteCommit
    BY <1>3 DEF WriteCommit, CommittedEntries
<1>4. CASE ReadPending
    BY <1>4 DEF ReadPending
<1>5. ASSUME NEW l \in Logins, ScanEntry(l)
      PROVE  CopyBehind'
    BY <1>1, <1>5 DEF ScanEntry
<1>6. CASE ScanDone
    BY <1>1, <1>6 DEF ScanDone
<1>7. ASSUME NEW l \in Logins, SendPaymentID(l)
      PROVE  CopyBehind'
    BY <1>1, <1>7 DEF SendPaymentID
<1>8. CASE PaymentIDsDone
    BY <1>1, <1>8 DEF PaymentIDsDone
<1>9. ASSUME NEW l \in Logins, AddDestination(l)
      PROVE  CopyBehind'
    BY <1>1, <1>9 DEF AddDestination
<1>10. CASE SendBatch
    BY <1>1, <1>10 DEF SendBatch
<1>11. CASE IntervalDone
    BY <1>1, <1>11 DEF IntervalDone
<1>12. ASSUME NEW l \in Logins, OverwritePendingPayments(l)
       PROVE  CopyBehind'
    BY <1>12 DEF OverwritePendingPayments, removePendingPayments,
                 StagesDisjoint
<1>13. ASSUME NEW l \in Logins, WriteProcessedPayments(l)
       PROVE  CopyBehind'
    BY <1>1, <1>13 DEF WriteProcessedPayments
<1>14. CASE Crash
    BY <1>14 DEF Crash
<1>15. CASE UNCHANGED vars
    BY <1>1, <1>15 DEF vars
<1>16. QED
    BY <1>2, <1>3, <1>4, <1>5, <1>6, <1>7, <1>8, <1>9, <1>10, <1>11, <1>12,
       <1>13, <1>14, <1>15 DEF Next, Payer

-----------------------------------------------------------------------------
(* Money.                                                                  *)

(* The terms of the balance are naturals. *)
LEMMA AllowedType ==
    ASSUME TypeOK, NEW m \in Logins
    PROVE  /\ InFlight(m) \in Nat
           /\ sent[m] \in Nat /\ pending[m] \in Nat /\ payPending[m] \in Nat
           /\ credited[m] \in Nat /\ snap[m] \in Nat /\ lost[m] \in Nat
           /\ base[m] \in Nat /\ gain[m] \in Nat /\ processed[m] \in Nat
           /\ \A c \in Causes : excess[c][m] \in Nat
           /\ Allowed(m) \in Nat
BY DEF TypeOK, InFlight, Allowed, Causes

(* What a transaction transfers to m is allowed by what the payer notes    *)
(* about it: the payees of S are in flight or unanswered, the others of D  *)
(* were accumulated.                                                       *)
LEMMA TransferIsCovered ==
    ASSUME TypeOK, toDebit = {}, NEW D \in SUBSET Logins, NEW S \in SUBSET D,
           Accepted(D, S) \/ Unanswered(D, S) \/ Rejected,
           UNCHANGED <<snap, credited>>, NEW m \in Logins
    PROVE  sent'[m] + Allowed(m) = sent[m] + Allowed(m)'
<1> DEFINE moved == IF m \in D THEN snap[m] ELSE 0
<1>1. /\ sent[m] \in Nat /\ snap[m] \in Nat /\ credited[m] \in Nat
      /\ excess["noanswer"][m] \in Nat /\ excess["accumulated"][m] \in Nat
      /\ excess["revived"][m] \in Nat
    BY AllowedType DEF Causes
<1>2. InFlight(m) = 0
    BY DEF InFlight
<1>3. CASE Accepted(D, S)
    <2>1. sent'[m] = sent[m] + moved
        BY <1>1, <1>3 DEF Accepted, AddFor
    <2>2. InFlight(m)' = IF m \in S THEN snap[m] ELSE 0
        BY <1>3 DEF Accepted, InFlight
    <2>3. /\ excess'["accumulated"][m] = excess["accumulated"][m]
                + (IF m \in D \ S THEN snap[m] ELSE 0)
          /\ excess'["noanswer"][m] = excess["noanswer"][m]
          /\ excess'["revived"][m] = excess["revived"][m]
        BY <1>1, <1>3 DEF Accepted, AddFor, TypeOK, Causes
    <2>4. QED
        BY <1>1, <1>2, <2>1, <2>2, <2>3 DEF Allowed
<1>4. CASE Unanswered(D, S)
    <2>1. sent'[m] = sent[m] + moved
        BY <1>1, <1>4 DEF Unanswered, AddFor
    <2>2. InFlight(m)' = 0
        BY <1>4 DEF Unanswered, InFlight
    <2>3. /\ excess'["accumulated"][m] = excess["accumulated"][m]
                + (IF m \in D \ S THEN snap[m] ELSE 0)
          /\ excess'["noanswer"][m] = excess["noanswer"][m]
                + (IF m \in S THEN snap[m] ELSE 0)
          /\ excess'["revived"][m] = excess["revived"][m]
        <3>1. /\ excess'["noanswer"] = AddFor(excess["noanswer"], snap, S)
              /\ excess'["accumulated"] =
                    AddFor(excess["accumulated"], snap, D \ S)
              /\ excess'["revived"] = excess["revived"]
            BY <1>4, UnansweredExcess DEF TypeOK
        <3>2. QED
            BY <1>1, <3>1 DEF AddFor
    <2>4. QED
        BY <1>1, <1>2, <2>1, <2>2, <2>3 DEF Allowed
<1>5. CASE Rejected
    BY <1>1, <1>2, <1>5 DEF Rejected, Allowed, InFlight
<1>6. QED
    BY <1>3, <1>4, <1>5

LEMMA NextConserved ==
    TypeOK /\ IInv /\ [Next]_vars => Conserved'
<1> SUFFICES ASSUME TypeOK, IInv, [Next]_vars
             PROVE  Conserved'
    OBVIOUS
<1> USE DEF IInv, store, writer, lists, payer, history
<1>t. TypeOK'
    BY NextType
<1>1. ASSUME UNCHANGED <<pending, sent, credited, excess, lost, snap>>,
             UNCHANGED toDebit
      PROVE  Conserved'
    BY <1>1 DEF Conserved, Allowed, InFlight
<1>2. ASSUME NEW l \in Logins, NEW n \in CreditAmounts, WriteBegin(l, n)
      PROVE  Conserved'
    BY <1>2 DEF WriteBegin, Conserved, Allowed, InFlight
<1>3. CASE WriteCommit
    <2>1. ASSUME NEW m \in Logins
          PROVE  /\ pending'[m] = base[m] + gain[m]
                 /\ sent'[m] = sent[m] /\ lost'[m] = lost[m]
                 /\ Allowed(m)' = Allowed(m) + gain[m]
                                    + Monus(base[m], pending[m])
        <3>1. credited'[m] = credited[m] + gain[m]
            BY <1>3 DEF WriteCommit, AddFor
        <3>2. /\ excess'["revived"][m] =
                    excess["revived"][m] + Monus(base[m], pending[m])
              /\ excess'["noanswer"][m] = excess["noanswer"][m]
              /\ excess'["accumulated"][m] = excess["accumulated"][m]
            BY <1>3 DEF WriteCommit, TypeOK, Causes
        <3>3. InFlight(m)' = InFlight(m)
            BY <1>3 DEF WriteCommit, InFlight
        <3>4. Monus(base[m], pending[m]) \in Nat
            BY AllowedType DEF Monus
        <3>5. Allowed(m)' = Allowed(m) + gain[m] + Monus(base[m], pending[m])
            <4>1. /\ credited[m] \in Nat /\ gain[m] \in Nat
                  /\ InFlight(m) \in Nat /\ excess["revived"][m] \in Nat
                  /\ excess["noanswer"][m] \in Nat
                  /\ excess["accumulated"][m] \in Nat
                BY AllowedType DEF Causes
            <4>2. QED
                BY <3>1, <3>2, <3>3, <3>4, <4>1 DEF Allowed
        <3>6. QED
            BY <1>3, <3>5 DEF WriteCommit, CommittedEntries
    <2>2. ASSUME NEW m \in Logins
          PROVE  sent'[m] + pending'[m] + lost'[m] = Allowed(m)'
        <3>1. sent[m] + pending[m] + lost[m] = Allowed(m)
            BY DEF Conserved
        <3>2. pending[m] <= base[m]
            BY <1>3 DEF WriteCommit, CopyBehind
        <3>3. QED
            BY <2>1, <3>1, <3>2, AllowedType DEF Monus
    <2>3. QED
        BY <1>3, <2>2 DEF Conserved
<1>4. CASE ReadPending
    BY <1>4 DEF ReadPending, Conserved, Allowed, InFlight,
                StagesDisjoint
<1>5. ASSUME NEW l \in Logins, ScanEntry(l)
      PROVE  Conserved'
    BY <1>1, <1>5 DEF ScanEntry, Skip, Select, OutOfBalance
<1>6. CASE ScanDone
    BY <1>1, <1>6 DEF ScanDone
<1>7. ASSUME NEW D \in SUBSET Logins, NEW S \in SUBSET D, toDebit = {},
             Accepted(D, S) \/ Unanswered(D, S) \/ Rejected,
             UNCHANGED <<snap, credited, pending, lost>>
      PROVE  Conserved'
    <2>1. ASSUME NEW m \in Logins
          PROVE  sent'[m] + pending'[m] + lost'[m] = Allowed(m)'
        <3>1. sent'[m] + Allowed(m) = sent[m] + Allowed(m)'
            BY <1>7, TransferIsCovered
        <3>2. sent[m] + pending[m] + lost[m] = Allowed(m)
            BY DEF Conserved
        <3>3. Allowed(m)' \in Nat /\ sent'[m] \in Nat
            BY <1>t DEF TypeOK, Allowed, InFlight, Causes
        <3>4. QED
            BY <1>7, <3>1, <3>2, <3>3, AllowedType
    <2>2. QED
        BY <2>1 DEF Conserved
<1>8. ASSUME NEW l \in Logins, SendPaymentID(l)
      PROVE  Conserved'
    <2>1. dests \cup {l} \in SUBSET Logins /\ {l} \in SUBSET (dests \cup {l})
        BY DEF TypeOK
    <2>2. /\ toDebit = {}
          /\ Accepted(dests \cup {l}, {l}) \/ Unanswered(dests \cup {l}, {l})
                \/ Rejected
          /\ UNCHANGED <<snap, credited, pending, lost>>
        BY <1>8 DEF SendPaymentID, Debiting
    <2>3. QED
        BY <1>7, <2>1, <2>2
<1>9. CASE PaymentIDsDone
    BY <1>1, <1>9 DEF PaymentIDsDone
<1>10. ASSUME NEW l \in Logins, AddDestination(l)
       PROVE  Conserved'
    BY <1>1, <1>10 DEF AddDestination
<1>11. CASE SendBatch
    <2>1. dests \in SUBSET Logins /\ dests \in SUBSET dests
        BY DEF TypeOK
    <2>2. /\ toDebit = {}
          /\ Accepted(dests, dests) \/ Unanswered(dests, dests) \/ Rejected
          /\ UNCHANGED <<snap, credited, pending, lost>>
        BY <1>11 DEF SendBatch, StagesDisjoint
    <2>3. QED
        BY <1>7, <2>1, <2>2
<1>12. CASE IntervalDone
    BY <1>1, <1>12 DEF IntervalDone
<1>13. ASSUME NEW l \in Logins, OverwritePendingPayments(l)
       PROVE  Conserved'
    <2>1. /\ pc # "idle" /\ payPending[l] = snap[l] /\ l \in toDebit
          /\ \A m \in Logins : payPending[m] <= pending[m]
        BY <1>13 DEF OverwritePendingPayments, StagesDisjoint, CopyIsSnapshot,
                     Undebited, CopyBehind
    <2>2. ASSUME NEW m \in Logins
          PROVE  sent'[m] + pending'[m] + lost'[m] = Allowed(m)'
        <3>1. sent[m] + pending[m] + lost[m] = Allowed(m)
            BY DEF Conserved
        <3>2. /\ UNCHANGED <<sent, credited, excess, snap>>
              /\ toDebit' = toDebit \ {l}
              /\ pending'[m] = IF m = l THEN 0 ELSE payPending[m]
              /\ lost'[m] = lost[m] + Monus(pending[m], pending'[m]
                                + AddFor(Zero, snap, {l})[m])
            BY <1>13 DEF OverwritePendingPayments, removePendingPayments,
                         TypeOK
        <3>3. AddFor(Zero, snap, {l})[m] = IF m = l THEN snap[l] ELSE 0
            BY AllowedType DEF AddFor, Zero
        <3>4. /\ credited[m] \in Nat /\ excess["revived"][m] \in Nat
              /\ excess["noanswer"][m] \in Nat /\ sent[m] \in Nat
              /\ excess["accumulated"][m] \in Nat /\ snap[m] \in Nat
              /\ pending[m] \in Nat /\ payPending[m] \in Nat
              /\ lost[m] \in Nat
            BY AllowedType DEF Causes
        <3>5. CASE m = l
            <4>1. InFlight(m) = snap[m] /\ InFlight(m)' = 0
                BY <2>1, <3>2, <3>5 DEF InFlight
            <4>2. pending'[m] = 0 /\ snap[m] <= pending[m]
                BY <2>1, <3>2, <3>5
            <4>3. lost'[m] = lost[m] + (pending[m] - snap[m])
                BY <3>2, <3>3, <3>4, <3>5, <4>2 DEF Monus
            <4>4. QED
                BY <3>1, <3>2, <3>4, <4>1, <4>2, <4>3 DEF Allowed
        <3>6. CASE m # l
            <4>1. InFlight(m)' = InFlight(m) /\ InFlight(m) \in Nat
                BY <3>2, <3>6, AllowedType DEF InFlight
            <4>2. pending'[m] = payPending[m] /\ payPending[m] <= pending[m]
                BY <2>1, <3>2, <3>6
            <4>3. lost'[m] = lost[m] + (pending[m] - payPending[m])
                BY <3>2, <3>3, <3>4, <3>6, <4>2 DEF Monus
            <4>4. QED
                BY <3>1, <3>2, <3>4, <4>1, <4>2, <4>3 DEF Allowed
        <3>7. QED
            BY <3>5, <3>6
    <2>3. QED
        BY <2>2 DEF Conserved
<1>14. ASSUME NEW l \in Logins, WriteProcessedPayments(l)
       PROVE  Conserved'
    BY <1>1, <1>14 DEF WriteProcessedPayments
<1>15. CASE Crash
    <2>1. ASSUME NEW m \in Logins
          PROVE  Allowed(m)' = Allowed(m)
        <3>1. InFlight(m)' = 0
            BY <1>15 DEF Crash, InFlight
        <3>2. /\ excess'["noanswer"][m] = excess["noanswer"][m] + InFlight(m)
              /\ excess'["accumulated"][m] = excess["accumulated"][m]
              /\ excess'["revived"][m] = excess["revived"][m]
            BY <1>15, AllowedType DEF Crash, AddFor, InFlight, TypeOK, Causes
        <3>3. /\ credited[m] \in Nat /\ excess["revived"][m] \in Nat
              /\ excess["noanswer"][m] \in Nat /\ InFlight(m) \in Nat
              /\ excess["accumulated"][m] \in Nat
            BY AllowedType DEF Causes
        <3>4. UNCHANGED credited
            BY <1>15 DEF Crash
        <3>5. QED
            BY <3>1, <3>2, <3>3, <3>4 DEF Allowed
    <2>2. QED
        BY <1>15, <2>1 DEF Crash, Conserved
<1>16. CASE UNCHANGED vars
    BY <1>1, <1>16 DEF vars
<1>17. QED
    BY <1>2, <1>3, <1>4, <1>5, <1>6, <1>8, <1>9, <1>10, <1>11, <1>12, <1>13,
       <1>14, <1>15, <1>16 DEF Next, Payer

LEMMA NextInv == TypeOK /\ IInv /\ [Next]_vars => IInv'
BY NextStages, NextCopy, NextCopyBehind, NextConserved DEF IInv

LEMMA Invariance == Spec => [](TypeOK /\ IInv)
BY InitType, NextType, InitInv, NextInv, PTL DEF Spec

(* Whatever the constants and the faults: what a login was sent, is owed   *)
(* and lost to overwrites is what it was credited, but for a missing       *)
(* answer, accumulated payment-ID destinations, or a debit undone by an    *)
(* overlapping write.                                                      *)
THEOREM OverpaymentIsAccounted == Spec => []ExcessAccounted
<1>1. IInv => ExcessAccounted
    BY DEF IInv, Conserved, ExcessAccounted, Allowed
<1>2. QED
    BY <1>1, Invariance, PTL

-----------------------------------------------------------------------------
(* Without the causes of excess.                                           *)

NoExcess ==
    /\ \A m \in Logins :
          /\ excess["noanswer"][m] = 0 /\ excess["accumulated"][m] = 0
          /\ excess["revived"][m] = 0
    /\ writing = 1 => base = pending

LEMMA InitNoExcess == Init => NoExcess
BY DEF Init, NoExcess, Zero, Causes

(* A transaction that pays its own payees only, and is answered. *)
LEMMA TransferWithoutExcess ==
    ASSUME TypeOK, NoExcess, Faults \subseteq {"reject", "balance"},
           NEW D \in SUBSET Logins, Accepted(D, D) \/ Unanswered(D, D) \/ Rejected,
           UNCHANGED <<writer, pending>>
    PROVE  NoExcess'
<1>1. ~Unanswered(D, D)
    BY DEF Unanswered, MayFault
<1>2. CASE Accepted(D, D)
    <2>1. ASSUME NEW m \in Logins
          PROVE  /\ excess'["noanswer"][m] = excess["noanswer"][m]
                 /\ excess'["accumulated"][m] = excess["accumulated"][m]
                 /\ excess'["revived"][m] = excess["revived"][m]
        <3>1. /\ excess'["noanswer"] = excess["noanswer"]
              /\ excess'["revived"] = excess["revived"]
              /\ excess'["accumulated"] =
                    AddFor(excess["accumulated"], snap, D \ D)
            BY <1>2 DEF Accepted, TypeOK, Causes
        <3>2. QED
            BY <3>1 DEF AddFor
    <2>2. QED
        BY <2>1 DEF NoExcess, writer
<1>3. CASE Rejected
    BY <1>3 DEF Rejected, NoExcess, writer
<1>4. QED
    BY <1>1, <1>2, <1>3

LEMMA NextNoExcess ==
    ASSUME Faults \subseteq {"reject", "balance"}, \A l, m \in PidLogins : l = m,
           TypeOK, IInv, NoExcess, [Next]_vars
    PROVE  NoExcess'
<1> USE DEF store, writer, lists, payer, history
<1>1. ASSUME UNCHANGED <<excess, writer, pending>>
      PROVE  NoExcess'
    BY <1>1 DEF NoExcess
<1>2. ASSUME NEW l \in Logins, NEW n \in CreditAmounts, WriteBegin(l, n)
      PROVE  NoExcess'
    BY <1>2 DEF WriteBegin, NoExcess
<1>3. CASE WriteCommit
    <2>1. ASSUME NEW m \in Logins
          PROVE  /\ excess'["noanswer"][m] = excess["noanswer"][m]
                 /\ excess'["accumulated"][m] = excess["accumulated"][m]
                 /\ excess'["revived"][m] = 0
        <3>1. /\ excess'["noanswer"] = excess["noanswer"]
              /\ excess'["accumulated"] = excess["accumulated"]
              /\ excess'["revived"][m] =
                    excess["revived"][m] + Monus(base[m], pending[m])
            BY <1>3 DEF WriteCommit, TypeOK, Causes
        <3>2. Monus(base[m], pending[m]) = 0 /\ excess["revived"][m] = 0
            BY <1>3, AllowedType DEF WriteCommit, NoExcess, Monus
        <3>3. QED
            BY <3>1, <3>2
    <2>2. QED
        BY <1>3, <2>1 DEF WriteCommit, NoExcess
<1>4. CASE ReadPending
    BY <1>1, <1>4 DEF ReadPending
<1>5. ASSUME NEW l \in Logins, ScanEntry(l)
      PROVE  NoExcess'
    BY <1>1, <1>5 DEF ScanEntry
<1>6. CASE ScanDone
    BY <1>1, <1>6 DEF ScanDone
<1>7. ASSUME NEW l \in Logins, SendPaymentID(l)
      PROVE  NoExcess'
    <2>1. dests = {}
        BY <1>7 DEF SendPaymentID, IInv, StagesDisjoint, TypeOK
    <2>2. dests \cup {l} = {l} /\ {l} \in SUBSET Logins
        BY <2>1
    <2>3. Accepted({l}, {l}) \/ Unanswered({l}, {l}) \/ Rejected
        BY <1>7, <2>2 DEF SendPaymentID
    <2>4. UNCHANGED <<writer, pending>>
        BY <1>7 DEF SendPaymentID
    <2>5. QED
        BY <2>2, <2>3, <2>4, TransferWithoutExcess
<1>8. CASE PaymentIDsDone
    BY <1>1, <1>8 DEF PaymentIDsDone
<1>9. ASSUME NEW l \in Logins, AddDestination(l)
      PROVE  NoExcess'
    BY <1>1, <1>9 DEF AddDestination
<1>10. CASE SendBatch
    <2>1. Accepted(dests, dests) \/ Unanswered(dests, dests) \/ Rejected
        BY <1>10 DEF SendBatch
    <2>2. UNCHANGED <<writer, pending>> /\ dests \in SUBSET Logins
        BY <1>10 DEF SendBatch, TypeOK
    <2>3. QED
        BY <2>1, <2>2, TransferWithoutExcess
<1>11. CASE IntervalDone
    BY <1>1, <1>11 DEF IntervalDone
<1>12. ASSUME NEW l \in Logins, OverwritePendingPayments(l)
       PROVE  NoExcess'
    BY <1>12 DEF OverwritePendingPayments, NoExcess, MayFault
<1>13. ASSUME NEW l \in Logins, WriteProcessedPayments(l)
       PROVE  NoExcess'
    BY <1>1, <1>13 DEF WriteProcessedPayments
<1>14. CASE Crash
    BY <1>14 DEF Crash, MayFault
<1>15. CASE UNCHANGED vars
    BY <1>1, <1>15 DEF vars
<1>16. QED
    BY <1>2, <1>3, <1>4, <1>5, <1>6, <1>7, <1>8, <1>9, <1>10, <1>11, <1>12,
       <1>13, <1>14, <1>15 DEF Next, Payer

(* If transactions may only be refused or wait for balance, and at most    *)
(* one login has a payment ID, nobody is ever sent more than they were     *)
(* credited, whatever the stale copies of the pending list overwrite.      *)
THEOREM NoOverpayment ==
    ASSUME Faults \subseteq {"reject", "balance"}, \A l, m \in PidLogins : l = m
    PROVE  Spec => []NeverOverpay
<1>1. Spec => []NoExcess
    <2>1. TypeOK /\ IInv /\ NoExcess /\ [Next]_vars => NoExcess'
        BY NextNoExcess
    <2>2. QED
        BY <2>1, InitNoExcess, Invariance, PTL DEF Spec
<1>2. TypeOK /\ IInv /\ NoExcess => NeverOverpay
    <2>1. ASSUME TypeOK, IInv, NoExcess, NEW l \in Logins
          PROVE  sent[l] <= credited[l]
        <3>1. Allowed(l) = credited[l] + InFlight(l)
            BY <2>1, AllowedType DEF Allowed, NoExcess
        <3>2. CASE l \in toDebit
            <4>1. /\ sent[l] + pending[l] + lost[l] = Allowed(l)
                  /\ payPending[l] <= pending[l]
                  /\ payPending[l] = snap[l] /\ InFlight(l) = snap[l]
                BY <2>1, <3>2 DEF IInv, Conserved, CopyBehind, CopyIsSnapshot,
                                  Undebited, StagesDisjoint, InFlight
            <4>2. QED
                BY <2>1, <3>1, <4>1, AllowedType
        <3>3. CASE l \notin toDebit
            <4>1. /\ sent[l] + pending[l] + lost[l] = Allowed(l)
                  /\ InFlight(l) = 0
                BY <2>1, <3>3 DEF IInv, Conserved, InFlight
            <4>2. QED
                BY <2>1, <3>1, <4>1, AllowedType
        <3>4. QED
            BY <3>2, <3>3
    <2>2. QED
        BY <2>1 DEF NeverOverpay
<1>3. QED
    BY <1>1, <1>2, Invariance, PTL

-----------------------------------------------------------------------------
(* The payer's copy and the store.                                         *)

(* A stale copy loses credits at worst: no step of the payer increases     *)
(* what the store says a login is owed, faults included.                   *)
THEOREM OverwritesOnlyLose == Spec => OverwriteNeverAdds
<1>1. ASSUME TypeOK, IInv, Payer, NEW m \in Logins
      PROVE  pending'[m] <= pending[m]
    <2>1. CASE UNCHANGED pending
        BY <1>1, <2>1 DEF TypeOK
    <2>2. ASSUME NEW l \in Logins, OverwritePendingPayments(l)
          PROVE  pending'[m] <= pending[m]
        BY <1>1, <2>2 DEF OverwritePendingPayments, removePendingPayments,
                          CopyBehind, TypeOK, IInv, StagesDisjoint
    <2>3. UNCHANGED pending \/ \E l \in Logins : OverwritePendingPayments(l)
        BY <1>1 DEF Payer, ReadPending, ScanEntry, ScanDone, SendPaymentID,
                    PaymentIDsDone, AddDestination, SendBatch, IntervalDone,
                    WriteProcessedPayments, store
    <2>4. QED
        BY <2>1, <2>2, <2>3
<1>2. TypeOK /\ IInv =>
        [Payer => \A m \in Logins : pending'[m] <= pending[m]]_vars
    BY <1>1
<1>3. QED
    BY <1>2, Invariance, PTL DEF OverwriteNeverAdds

-----------------------------------------------------------------------------
(* The wallet and the records.                                             *)

(* What the records will still be told of, and what they never will be.    *)
Unwritten(l) ==
    (IF l \in toDebit \cup toRecord THEN snap[l] ELSE 0)
        + excess["noanswer"][l] + excess["accumulated"][l]
        + excess["unrecorded"][l]

LEMMA UnwrittenType ==
    ASSUME TypeOK, NEW m \in Logins
    PROVE  Unwritten(m) \in Nat
BY DEF TypeOK, Unwritten, Causes

(* A transaction adds to the unwritten amounts exactly what it transfers.  *)
LEMMA TransferIsUnwritten ==
    ASSUME TypeOK, toDebit = {}, toRecord = {},
           NEW D \in SUBSET Logins, NEW S \in SUBSET D,
           Accepted(D, S) \/ Unanswered(D, S) \/ Rejected,
           UNCHANGED <<snap, toRecord>>, NEW m \in Logins
    PROVE  sent'[m] + Unwritten(m) = sent[m] + Unwritten(m)'
<1> DEFINE moved == IF m \in D THEN snap[m] ELSE 0
<1>1. /\ sent[m] \in Nat /\ snap[m] \in Nat
      /\ excess["noanswer"][m] \in Nat /\ excess["accumulated"][m] \in Nat
      /\ excess["unrecorded"][m] \in Nat
    BY AllowedType DEF Causes
<1>2. CASE Accepted(D, S)
    <2>1. sent'[m] = sent[m] + moved
        BY <1>1, <1>2 DEF Accepted, AddFor
    <2>2. /\ excess'["noanswer"] = excess["noanswer"]
          /\ excess'["unrecorded"] = excess["unrecorded"]
          /\ excess'["accumulated"] =
                AddFor(excess["accumulated"], snap, D \ S)
        BY <1>2 DEF Accepted, TypeOK, Causes
    <2>3. excess'["accumulated"][m] = excess["accumulated"][m]
                + (IF m \in D \ S THEN snap[m] ELSE 0)
        BY <1>1, <2>2 DEF AddFor
    <2>4. toDebit' = S /\ toRecord' = {} /\ snap' = snap
        BY <1>2 DEF Accepted
    <2>5. QED
        BY <1>1, <2>1, <2>2, <2>3, <2>4 DEF Unwritten
<1>3. CASE Unanswered(D, S)
    <2>1. sent'[m] = sent[m] + moved
        BY <1>1, <1>3 DEF Unanswered, AddFor
    <2>2. /\ excess'["noanswer"] = AddFor(excess["noanswer"], snap, S)
          /\ excess'["unrecorded"] = excess["unrecorded"]
          /\ excess'["accumulated"] =
                AddFor(excess["accumulated"], snap, D \ S)
        BY <1>3, UnansweredExcess DEF TypeOK
    <2>3. /\ excess'["accumulated"][m] = excess["accumulated"][m]
                + (IF m \in D \ S THEN snap[m] ELSE 0)
          /\ excess'["noanswer"][m] = excess["noanswer"][m]
                + (IF m \in S THEN snap[m] ELSE 0)
        BY <1>1, <2>2 DEF AddFor
    <2>4. toDebit' = {} /\ toRecord' = {} /\ snap' = snap
        BY <1>3 DEF Unanswered
    <2>5. QED
        BY <1>1, <2>1, <2>2, <2>3, <2>4 DEF Unwritten
<1>4. CASE Rejected
    BY <1>1, <1>4 DEF Rejected, Unwritten
<1>5. QED
    BY <1>2, <1>3, <1>4

Recorded == \A l \in Logins : sent[l] = processed[l] + Unwritten(l)

LEMMA NextRecorded ==
    TypeOK /\ StagesDisjoint /\ Recorded /\ [Next]_vars => Recorded'
<1> SUFFICES ASSUME TypeOK, StagesDisjoint, Recorded, [Next]_vars
             PROVE  Recorded'
    OBVIOUS
<1> USE DEF store, writer, lists, payer, history
<1>t. TypeOK'
    BY NextType
<1>1. ASSUME UNCHANGED <<sent, processed, excess, toDebit, toRecord, snap>>
      PROVE  Recorded'
    BY <1>1 DEF Recorded, Unwritten
<1>2. ASSUME NEW l \in Logins, NEW n \in CreditAmounts, WriteBegin(l, n)
      PROVE  Recorded'
    BY <1>1, <1>2 DEF WriteBegin
<1>3. CASE WriteCommit
    <2>1. \A c \in Causes : c # "revived" => excess'[c] = excess[c]
        BY <1>3 DEF WriteCommit, TypeOK
    <2>2. /\ excess'["noanswer"] = excess["noanswer"]
          /\ excess'["accumulated"] = excess["accumulated"]
          /\ excess'["unrecorded"] = excess["unrecorded"]
        BY <2>1 DEF Causes
    <2>3. QED
        BY <1>3, <2>2 DEF WriteCommit, Recorded, Unwritten
<1>4. CASE ReadPending
    BY <1>4 DEF ReadPending, StagesDisjoint, Recorded, Unwritten
<1>5. ASSUME NEW l \in Logins, ScanEntry(l)
      PROVE  Recorded'
    BY <1>1, <1>5 DEF ScanEntry
<1>6. CASE ScanDone
    BY <1>1, <1>6 DEF ScanDone
<1>7. ASSUME NEW D \in SUBSET Logins, NEW S \in SUBSET D,
             toDebit = {}, toRecord = {},
             Accepted(D, S) \/ Unanswered(D, S) \/ Rejected,
             UNCHANGED <<snap, toRecord, processed>>
      PROVE  Recorded'
    <2>1. ASSUME NEW m \in Logins
          PROVE  sent'[m] = processed'[m] + Unwritten(m)'
        <3>1. sent'[m] + Unwritten(m) = sent[m] + Unwritten(m)'
            BY <1>7, TransferIsUnwritten
        <3>2. sent[m] = processed[m] + Unwritten(m)
            BY DEF Recorded
        <3>3. Unwritten(m)' \in Nat /\ sent'[m] \in Nat
            BY <1>t DEF TypeOK, Unwritten, Causes
        <3>4. QED
            BY <1>7, <3>1, <3>2, <3>3, AllowedType, UnwrittenType
    <2>2. QED
        BY <2>1 DEF Recorded
<1>8. ASSUME NEW l \in Logins, SendPaymentID(l)
      PROVE  Recorded'
    <2>1. dests \cup {l} \in SUBSET Logins /\ {l} \in SUBSET (dests \cup {l})
        BY DEF TypeOK
    <2>2. /\ toDebit = {} /\ toRecord = {}
          /\ Accepted(dests \cup {l}, {l}) \/ Unanswered(dests \cup {l}, {l})
                \/ Rejected
          /\ UNCHANGED <<snap, toRecord, processed>>
        BY <1>8 DEF SendPaymentID, Debiting
    <2>3. QED
        BY <1>7, <2>1, <2>2
<1>9. CASE PaymentIDsDone
    BY <1>1, <1>9 DEF PaymentIDsDone
<1>10. ASSUME NEW l \in Logins, AddDestination(l)
       PROVE  Recorded'
    BY <1>1, <1>10 DEF AddDestination
<1>11. CASE SendBatch
    <2>1. dests \in SUBSET Logins /\ dests \in SUBSET dests
        BY DEF TypeOK
    <2>2. /\ toDebit = {} /\ toRecord = {}
          /\ Accepted(dests, dests) \/ Unanswered(dests, dests) \/ Rejected
          /\ UNCHANGED <<snap, toRecord, processed>>
        BY <1>11 DEF SendBatch, StagesDisjoint
    <2>3. QED
        BY <1>7, <2>1, <2>2
<1>12. CASE IntervalDone
    BY <1>1, <1>12 DEF IntervalDone
<1>13. ASSUME NEW l \in Logins, OverwritePendingPayments(l)
       PROVE  Recorded'
    BY <1>13 DEF OverwritePendingPayments, Recorded, Unwritten
<1>14. ASSUME NEW l \in Logins, WriteProcessedPayments(l)
       PROVE  Recorded'
    <2>1. toRecord = {l} /\ l \notin toDebit
        BY <1>14 DEF WriteProcessedPayments, StagesDisjoint
    <2>2. ASSUME NEW m \in Logins
          PROVE  sent'[m] = processed'[m] + Unwritten(m)'
        <3>1. sent[m] = processed[m] + Unwritten(m)
            BY DEF Recorded
        <3>2. /\ processed'[m] = IF m = l THEN processed[m] + snap[m]
                                 ELSE processed[m]
              /\ toRecord' = {}
              /\ UNCHANGED <<sent, excess, snap, toDebit>>
            BY <1>14 DEF WriteProcessedPayments, TypeOK
        <3>3. /\ processed[m] \in Nat /\ snap[m] \in Nat
              /\ excess["noanswer"][m] \in Nat
              /\ excess["accumulated"][m] \in Nat
              /\ excess["unrecorded"][m] \in Nat
            BY AllowedType DEF Causes
        <3>4. QED
            BY <2>1, <3>1, <3>2, <3>3 DEF Unwritten
    <2>3. QED
        BY <2>2 DEF Recorded
<1>15. CASE Crash
    <2>1. /\ excess'["noanswer"] = AddFor(excess["noanswer"], snap, toDebit)
          /\ excess'["accumulated"] = excess["accumulated"]
          /\ excess'["unrecorded"] =
                AddFor(excess["unrecorded"], snap, toRecord)
        BY <1>15 DEF Crash, TypeOK, Causes
    <2>2. ASSUME NEW m \in Logins
          PROVE  Unwritten(m)' = Unwritten(m)
        <3>1. /\ snap[m] \in Nat /\ excess["noanswer"][m] \in Nat
              /\ excess["accumulated"][m] \in Nat
              /\ excess["unrecorded"][m] \in Nat
            BY AllowedType DEF Causes
        <3>2. /\ excess'["noanswer"][m] = excess["noanswer"][m]
                    + (IF m \in toDebit THEN snap[m] ELSE 0)
              /\ excess'["unrecorded"][m] = excess["unrecorded"][m]
                    + (IF m \in toRecord THEN snap[m] ELSE 0)
            BY <2>1, <3>1 DEF AddFor
        <3>3. toDebit' = {} /\ toRecord' = {} /\ toDebit \cap toRecord = {}
            BY <1>15 DEF Crash, StagesDisjoint
        <3>4. QED
            BY <2>1, <3>1, <3>2, <3>3 DEF Unwritten
    <2>3. QED
        BY <1>15, <2>2 DEF Crash, Recorded
<1>16. CASE UNCHANGED vars
    BY <1>1, <1>16 DEF vars
<1>17. QED
    BY <1>2, <1>3, <1>4, <1>5, <1>6, <1>8, <1>9, <1>10, <1>11, <1>12, <1>13,
       <1>14, <1>15, <1>16 DEF Next, Payer

(* Every transfer the wallet made is written as processed, about to be, or *)
(* has one of the three known reasons not to be.                           *)
THEOREM TransfersAreRecorded == Spec => []WalletMatchesRecords
<1>1. Init => Recorded
    BY DEF Init, Recorded, Unwritten, Zero, Causes
<1>2. TypeOK /\ IInv /\ Recorded /\ [Next]_vars => Recorded'
    BY NextRecorded DEF IInv
<1>3. TypeOK /\ Recorded => WalletMatchesRecords
    <2>1. ASSUME TypeOK, Recorded, NEW l \in Logins
          PROVE  sent[l] = processed[l]
                    + (IF l \in toDebit \cup toRecord THEN snap[l] ELSE 0)
                    + excess["noanswer"][l] + excess["accumulated"][l]
                    + excess["unrecorded"][l]
        BY <2>1, AllowedType DEF Recorded, Unwritten, Causes
    <2>2. QED
        BY <2>1 DEF WalletMatchesRecords
<1>4. QED
    BY <1>1, <1>2, <1>3, Invariance, PTL DEF Spec

-----------------------------------------------------------------------------
(* Batches.                                                                *)

Limit == IF MaxAddresses = 0 THEN 1 ELSE MaxAddresses

(* A batch that is still being collected would not have been sent: it is   *)
(* not full, and holds no integrated address.                              *)
BatchInv ==
    /\ pc \in {"plain", "send"} =>
          /\ IsFiniteSet(dests)
          /\ Cardinality(dests) <= Limit
          /\ Cardinality(dests \cap Integrated) <= 1
    /\ pc = "plain" =>
          /\ dests \cap Integrated = {}
          /\ dests # {} => Cardinality(dests) < MaxAddresses

LEMMA EmptyBatch ==
    ASSUME pc' = "plain", dests' = {}
    PROVE  BatchInv'
BY FS_EmptySet DEF BatchInv, Limit

LEMMA GrowingBatch ==
    ASSUME BatchInv, NEW l \in Logins, AddDestination(l)
    PROVE  BatchInv'
<1> DEFINE D == dests \cup {l}
<1>1. /\ pc = "plain" /\ dests' = D /\ pc' \in {"plain", "send"}
      /\ pc' = "plain" => ~BatchComplete(D, payoutList')
    BY DEF AddDestination
<1>2. /\ IsFiniteSet(dests) /\ dests \cap Integrated = {}
      /\ dests # {} => Cardinality(dests) < MaxAddresses
    BY <1>1 DEF BatchInv
<1>3. IsFiniteSet(D) /\ Cardinality(D) \in Nat
    BY <1>2, FS_AddElement, FS_CardinalityType
<1>4. IsFiniteSet({l}) /\ Cardinality({l}) = 1
    BY FS_Singleton
<1>5. Cardinality(D) <= Limit
  <2>1. CASE dests = {}
    <3>1. D = {l}
        BY <2>1
    <3>2. Cardinality(D) = 1
        BY <1>4, <3>1
    <3>3. QED
        BY <3>2 DEF Limit
  <2>2. CASE dests # {}
    <3>1. Cardinality(D) <= Cardinality(dests) + 1
        BY <1>2, FS_AddElement, FS_CardinalityType
    <3>2. QED
        BY <1>2, <1>3, <2>2, <3>1, FS_CardinalityType DEF Limit
  <2>3. QED
    BY <2>1, <2>2
<1>6. Cardinality(D \cap Integrated) <= 1
  <2>1. D \cap Integrated \in SUBSET {l}
    BY <1>2
  <2>2. QED
    BY <1>4, <2>1, FS_Subset
<1>7. pc' = "plain" => D \cap Integrated = {}
                       /\ Cardinality(D) < MaxAddresses
    BY <1>1, <1>3 DEF BatchComplete
<1>8. QED
    BY <1>1, <1>3, <1>5, <1>6, <1>7 DEF BatchInv

LEMMA NextBatch == BatchInv /\ [Next]_vars => BatchInv'
<1> SUFFICES ASSUME BatchInv, [Next]_vars PROVE BatchInv'
    OBVIOUS
<1> USE DEF store, writer, lists, payer, history
<1>1. ASSUME NEW l \in Logins, AddDestination(l)
      PROVE  BatchInv'
    BY <1>1, GrowingBatch
<1>2. CASE PaymentIDsDone
    BY <1>2, EmptyBatch DEF PaymentIDsDone
<1>3. CASE SendBatch
    BY <1>3, EmptyBatch DEF SendBatch, BatchInv
<1>4. CASE pc' \notin {"plain", "send"}
    BY <1>4 DEF BatchInv
<1>5. CASE UNCHANGED <<pc, dests>>
    BY <1>5 DEF BatchInv
<1>6. QED
    BY <1>1, <1>2, <1>3, <1>4, <1>5
       DEF Next, Payer, WriteBegin, WriteCommit, ReadPending, ScanEntry,
           ScanDone, SendPaymentID, IntervalDone, OverwritePendingPayments,
           WriteProcessedPayments, Crash, vars

(* No batch has two integrated addresses or more than MaxAddresses, in     *)
(* whatever order the payees stand, and even if MaxAddresses is 0.         *)
THEOREM BatchesAreSendable == Spec => []BatchIsSendable
<1>1. Init => BatchInv
    BY DEF Init, BatchInv
<1>2. BatchInv => BatchIsSendable
    BY DEF BatchInv, BatchIsSendable, Limit
<1>3. QED
    BY <1>1, <1>2, NextBatch, PTL DEF Spec

-----------------------------------------------------------------------------
(* What an interval achieves.                                              *)

(* The payees an interval is to pay: those with a payment ID only if their *)
(* transactions cannot fail, as a failure ends their loop.                 *)
Payable(l) ==
    /\ reachedThreshold(snap[l]) /\ l \notin Invalid
    /\ l \in PidLogins => Faults \cap {"reject", "noanswer"} = {}

(* A payee is still on the payer's way, or its entry is gone from the copy. *)
StillToPay ==
    pc # "idle" =>
        \A l \in Logins : Payable(l) => l \in Undebited \/ payPending[l] = 0

(* What was collected is sent before the lists are done with. *)
NothingCollected ==
    /\ pc \in {"plain", "send"} => payIDList = {}
    /\ pc = "plain" /\ payoutList = {} => dests = {}

LEMMA NextCollected ==
    NothingCollected /\ [Next]_vars => NothingCollected'
<1> SUFFICES ASSUME NothingCollected, [Next]_vars PROVE NothingCollected'
    OBVIOUS
<1> USE DEF store, writer, lists, payer, history
<1>1. CASE pc' \notin {"plain", "send"}
    BY <1>1 DEF NothingCollected
<1>2. CASE UNCHANGED <<pc, payIDList, payoutList, dests>>
    BY <1>2 DEF NothingCollected
<1>3. ASSUME NEW l \in Logins, AddDestination(l) PROVE NothingCollected'
    BY <1>3 DEF AddDestination, BatchComplete, NothingCollected
<1>4. CASE SendBatch
    BY <1>4 DEF SendBatch, NothingCollected
<1>5. CASE PaymentIDsDone
    BY <1>5 DEF PaymentIDsDone, NothingCollected
<1> QED
    BY <1>1, <1>2, <1>3, <1>4, <1>5
       DEF Next, Payer, WriteBegin, WriteCommit, ReadPending, ScanEntry,
           ScanDone, SendPaymentID, IntervalDone, OverwritePendingPayments,
           WriteProcessedPayments, Crash, vars

LEMMA NextToPay ==
    ASSUME "balance" \notin Faults
    PROVE  TypeOK /\ StagesDisjoint /\ StillToPay /\ [Next]_vars => StillToPay'
<1> SUFFICES ASSUME TypeOK, StagesDisjoint, StillToPay, [Next]_vars
             PROVE  StillToPay'
    OBVIOUS
<1> USE DEF store, writer, lists, payer, history
<1>a. ASSUME UNCHANGED <<pc, snap, payPending, todo, payIDList, payoutList,
                         dests, toDebit>>
      PROVE  StillToPay'
    BY <1>a DEF StillToPay, Payable, Undebited
<1>1. ASSUME NEW l \in Logins, NEW n \in CreditAmounts, WriteBegin(l, n)
      PROVE  StillToPay'
    BY <1>a, <1>1 DEF WriteBegin
<1>2. CASE WriteCommit
    BY <1>a, <1>2 DEF WriteCommit
<1>3. CASE ReadPending
    BY <1>3 DEF ReadPending, StillToPay, Undebited, TypeOK
<1>4. ASSUME NEW k \in Logins, ScanEntry(k) PROVE StillToPay'
    BY <1>4 DEF ScanEntry, Skip, Select, OutOfBalance, MayFault, StillToPay,
                Payable, Undebited
<1>5. CASE ScanDone
    BY <1>5 DEF ScanDone, StillToPay, Payable, Undebited
<1>6. ASSUME NEW k \in Logins, SendPaymentID(k) PROVE StillToPay'
  <2>1. /\ pc = "payid" /\ toDebit = {} /\ pc' = pc
        /\ UNCHANGED <<todo, snap, payoutList, payPending>>
      BY <1>6 DEF SendPaymentID, Debiting
  <2>2. CASE payIDList' = payIDList \ {k} /\ toDebit' = {k}
      BY <2>1, <2>2 DEF StillToPay, Payable, Undebited
  <2>3. CASE payIDList' = {} /\ Faults \cap {"reject", "noanswer"} # {}
      BY <2>1, <2>3 DEF StillToPay, Payable, Undebited, TypeOK
  <2> QED
      BY <1>6, <2>2, <2>3
         DEF SendPaymentID, Accepted, Unanswered, Rejected, MayFault
<1>7. CASE PaymentIDsDone
    BY <1>7 DEF PaymentIDsDone, Debiting, StillToPay, Payable, Undebited
<1>8. ASSUME NEW k \in Logins, AddDestination(k) PROVE StillToPay'
    BY <1>8 DEF AddDestination, StillToPay, Payable, Undebited
<1>9. CASE SendBatch
  <2>1. /\ pc = "send" /\ toDebit = {} /\ dests' = {}
        /\ UNCHANGED <<lists, payPending>>
      BY <1>9 DEF SendBatch, StagesDisjoint
  <2>2. CASE pc' = "plain" /\ toDebit' = dests
      BY <2>1, <2>2 DEF StillToPay, Payable, Undebited
  <2>3. CASE pc' = "idle"
      BY <2>3 DEF StillToPay
  <2> QED
      BY <1>9, <2>2, <2>3 DEF SendBatch, Accepted
<1>10. CASE IntervalDone
    BY <1>10 DEF IntervalDone, StillToPay
<1>11. ASSUME NEW k \in Logins, OverwritePendingPayments(k)
       PROVE  StillToPay'
  <2>1. /\ payPending' = [payPending EXCEPT ![k] = 0]
        /\ toDebit' = toDebit \ {k}
        /\ UNCHANGED <<pc, lists, dests>>
      BY <1>11 DEF OverwritePendingPayments, removePendingPayments
  <2>2. \A l \in Logins : payPending'[l] = IF l = k THEN 0 ELSE payPending[l]
      BY <2>1 DEF TypeOK
  <2> QED
      BY <2>1, <2>2 DEF StillToPay, Payable, Undebited
<1>12. ASSUME NEW k \in Logins, WriteProcessedPayments(k)
       PROVE  StillToPay'
    BY <1>a, <1>12 DEF WriteProcessedPayments
<1>13. CASE Crash
    BY <1>13 DEF Crash, StillToPay
<1>14. CASE UNCHANGED vars
    BY <1>a, <1>14 DEF vars
<1> QED
    BY <1>1, <1>2, <1>3, <1>4, <1>5, <1>6, <1>7, <1>8, <1>9, <1>10, <1>11,
       <1>12, <1>13, <1>14 DEF Next, Payer

(* An interval that comes to its end (payments.go:112-499) has paid and    *)
(* debited every payee whose entry it read above the threshold, if the     *)
(* balance was not short; of those with a payment ID, if no transaction    *)
(* can fail.  Neither credits nor crashes nor overwrites make it pass over *)
(* one: what EventuallyPaid owes to the code.                              *)
IntervalPays ==
    [][IntervalDone =>
           \A l \in Logins : Payable(l) => payPending[l] = 0]_vars

THEOREM IntervalsPayEveryone ==
    ASSUME "balance" \notin Faults
    PROVE  Spec => IntervalPays
<1> DEFINE PInv == StillToPay /\ NothingCollected
<1>1. Init => PInv
    BY DEF Init, StillToPay, NothingCollected
<1>2. TypeOK /\ IInv /\ PInv /\ [Next]_vars => PInv'
    BY NextToPay, NextCollected DEF IInv
<1>3. TypeOK /\ IInv /\ PInv =>
          [IntervalDone => \A l \in Logins :
                               Payable(l) => payPending[l] = 0]_vars
  <2> SUFFICES ASSUME TypeOK, IInv, PInv, IntervalDone, NEW l \in Logins,
                      Payable(l)
               PROVE  payPending[l] = 0
      OBVIOUS
  <2>1. /\ pc = "plain" /\ toDebit = {} /\ payoutList = {}
        /\ dests = {} /\ payIDList = {} /\ todo = {}
      BY DEF IntervalDone, Debiting, NothingCollected, IInv, StagesDisjoint
  <2> QED
      BY <2>1 DEF StillToPay, Undebited
<1> HIDE DEF PInv
<1> QED
    BY <1>1, <1>2, <1>3, Invariance, PTL DEF Spec, IntervalPays
=============================================================================
