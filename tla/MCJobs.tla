-------------------------------- MODULE MCJobs --------------------------------
(* An instance of Jobs for TLC. *)
EXTENDS Jobs

CONSTANTS timer, self,  \* goroutines that refresh
          p             \* a nonce

\* Two templates of one height, and one above them.
Heights == <<1, 1, 2>>
=============================================================================
