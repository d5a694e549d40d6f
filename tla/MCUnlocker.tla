---------------------------- MODULE MCUnlocker -----------------------------
(* An instance of Unlocker for TLC.                                        *)
EXTENDS Unlocker, TLC

CONSTANTS x, y, z,  \* blocks
          m, n      \* miners

(* Two blocks found at the same height, and one at a height of its own.    *)
Heights3 == x :> 1 @@ y :> 1 @@ z :> 2
Finders3 == x :> m @@ y :> n @@ z :> m
=============================================================================
