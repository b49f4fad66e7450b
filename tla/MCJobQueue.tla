----------------------------- MODULE MCJobQueue -----------------------------
(* JobQueue for TLC: a job with one attempt, one with two, one process.    *)
EXTENDS JobQueue, TLC
CONSTANTS j1, j2, i1, c1, c2
Attempts == j1 :> 1 @@ j2 :> 2
=============================================================================
