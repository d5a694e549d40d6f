------------------------------- MODULE Rewards --------------------------------
(***************************************************************************)
(* What the pool promises about the reward of a block, whatever happens in *)
(* between: who is paid is settled once, when the block is final; blocks   *)
(* are paid out one after the other; every payee is credited once; and a   *)
(* payout ends when everyone has been credited, unless it is cut short,    *)
(* and then for good.  Unlocker implements this.                           *)
(***************************************************************************)
EXTENDS Naturals

CONSTANTS Blocks, Logins

VARIABLES
    status,   \* of a block
    payees,   \* who is paid for it
    credits   \* how often a login was credited for it

vars == <<status, payees, credits>>

Init ==
    /\ status = [b \in Blocks |-> "open"]
    /\ payees = [b \in Blocks |-> {}]
    /\ credits = [b \in Blocks |-> [l \in Logins |-> 0]]

Paid(b) == \A l \in payees[b] : credits[b][l] = 1

Settle(b, S) ==
    /\ status[b] = "open" /\ \A c \in Blocks : status[c] # "paying"
    /\ status' = [status EXCEPT ![b] = "paying"]
    /\ payees' = [payees EXCEPT ![b] = S]
    /\ UNCHANGED credits

Credit(b, l) ==
    /\ status[b] = "paying" /\ l \in payees[b] /\ credits[b][l] = 0
    /\ credits' = [credits EXCEPT ![b][l] = 1]
    /\ UNCHANGED <<status, payees>>

Finish(b) ==
    /\ status[b] = "paying" /\ Paid(b)
    /\ status' = [status EXCEPT ![b] = "paid"]
    /\ UNCHANGED <<payees, credits>>

CutShort(b) ==
    /\ status[b] = "paying" /\ ~Paid(b)
    /\ status' = [status EXCEPT ![b] = "cut"]
    /\ UNCHANGED <<payees, credits>>

Next ==
    \E b \in Blocks :
        \/ \E S \in (SUBSET Logins) \ {{}} : Settle(b, S)
        \/ \E l \in Logins : Credit(b, l)
        \/ Finish(b)
        \/ CutShort(b)

Spec == Init /\ [][Next]_vars
=============================================================================
