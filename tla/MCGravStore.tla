---------------------------- MODULE MCGravStore -----------------------------
(* Instances of GravStore for TLC.                                         *)
EXTENDS GravStore

CONSTANTS w, v, r  \* goroutines: two that write, one that reads
=============================================================================
