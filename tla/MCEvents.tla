------------------------------ MODULE MCEvents ------------------------------
(* An instance of Events for TLC.                                          *)
EXTENDS Events, TLC

CONSTANTS v, w,  \* workers
          a      \* their address

OneAddress == v :> a @@ w :> a

(* Months of three days: an event at the end of the first of them, with a *)
(* bonus on its last day, and one that goes on into the second.            *)
InAMonth == [start |-> 2, end |-> 3, bonus |-> 3]
OverTwo  == [start |-> 3, end |-> 4, bonus |-> 4]
BothCalendars == {InAMonth, OverTwo}
WorkerSymmetry == Permutations({v, w})
=============================================================================
