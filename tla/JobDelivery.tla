---------------------------- MODULE JobDelivery ----------------------------
(***************************************************************************)
(* What the backend's job queue promises to the code that enqueues: a job  *)
(* is handed to its handler at least once unless it is dropped, perhaps    *)
(* more often than once, and never again after its success was recorded.   *)
(* JobQueue implements it (one executor process); Refunds and              *)
(* RecurringPayments are built on it.                                      *)
(***************************************************************************)
EXTENDS FiniteSets

CONSTANT Jobs

VARIABLE phase  \* where each job is

DeliveryTypeOK ==
    phase \in [Jobs -> {"absent", "waiting", "running", "done", "dropped"}]

DeliveryInit == phase = [j \in Jobs |-> "absent"]

Move(j, from, to) ==
    /\ phase[j] = from
    /\ phase' = [phase EXCEPT ![j] = to]

Accept(j) == Move(j, "absent", "waiting")
Hand(j) == Move(j, "waiting", "running")
Record(j) == Move(j, "running", "done")
\* The handler failed, or the process died before its answer was recorded.
Return(j) == Move(j, "running", "waiting") \/ Move(j, "running", "dropped")
Drop(j) == Move(j, "waiting", "dropped")
\* Two requests of operators may cross: a dropped job can come back.
Revive(j) == Move(j, "dropped", "waiting")

\* A crash returns the running job and drops what was only remembered.
Crash ==
    phase' \in [Jobs -> {"absent", "waiting", "running", "done", "dropped"}]
    /\ \A j \in Jobs :
         \/ phase'[j] = phase[j]
         \/ phase[j] \in {"waiting", "running"} /\ phase'[j] \in {"waiting", "dropped"}

DeliveryNext ==
    \/ \E j \in Jobs :
         Accept(j) \/ Hand(j) \/ Record(j) \/ Return(j) \/ Drop(j) \/ Revive(j)
    \/ Crash

DeliverySpec == DeliveryInit /\ [][DeliveryNext]_phase
=============================================================================
