------------------------------ MODULE MCServer ------------------------------
(* An instance of Server for TLC. *)
EXTENDS Server

CONSTANTS c1, c2,     \* clients
          refresh,    \* the goroutine that refreshes the template
          retarget    \* the one that retargets

Nobody == [c \in {c1, c2} |-> "gone"]

(* One client has logged in and one may, or nobody ever connects.          *)
Connections == {[Nobody EXCEPT ![c1] = "member", ![c2] = "open"], Nobody}

(* Bound: requests fail at a live node only where nobody is connected; what *)
(* the two disturb, the upstream and the loops, they disturb apart.        *)
MCNext == Serving \/ (client = Nobody /\ Requesting)

MCSpec == Init /\ [][MCNext]_vars /\ Fairness
=============================================================================
