----------------------------- MODULE MCPayouts ------------------------------
(* Instances of Payouts for TLC: the .cfg files give the logins of each    *)
(* class (plain, payment ID, integrated, invalid) as model values and      *)
(* choose the faults.  No symmetry: there is one login of most classes.    *)
EXTENDS Payouts
=============================================================================
