------------------------------ MODULE MCRounds ------------------------------
(* Instances of Rounds and Amounts for TLC.                                *)
EXTENDS Amounts

CONSTANTS m, n, \* miners
          a, b  \* addresses
=============================================================================
