--------------------------- MODULE Reconciliation ---------------------------
(***************************************************************************)
(* The reconciliation worker: runs of it read a batch of undecided escrow  *)
(* and payment rows, ask Horizon about each and write what they learnt.    *)
(* A process guards only its manual runs against each other; the cron      *)
(* enqueues a job, and jobs of several ticks and processes may overlap.    *)
(***************************************************************************)
EXTENDS Integers, FiniteSets, FiniteSetsExt, SequencesExt

CONSTANTS
    EscrowRows, PaymentRows,
    Runners,    \* jobs and manual runs that may be going on at once
    ReconBatch

Rows == EscrowRows \cup PaymentRows

ASSUME ReconAssumption == EscrowRows \cap PaymentRows = {} /\ ReconBatch \in Nat \ {0}

VARIABLES
    dbRow,      \* status of each row
    byAge,      \* the rows, as their updated_at orders them
    chain,      \* what the ledger has of the row
    expired,    \* rows whose expires_at has passed
    lane,       \* the two halves of each run
    settledFirst \* rows the ledger settled before any run had an answer for them

reconVars == <<dbRow, byAge, chain, expired, lane, settledFirst>>

Tables == {"escrows", "payments"}
RowsOf(table) == IF table = "escrows" THEN EscrowRows ELSE PaymentRows
NoLane == [todo |-> {}, row |-> {}, seen |-> "none"]
Undecided == {"pending"}  \* also "active" and "processing", which are treated alike

ReconTypeOK ==
    /\ dbRow \in [Rows -> {"pending", "claimed", "expired", "paid", "failed", "irreconcilable"}]
    /\ byAge \in [1..Cardinality(Rows) -> Rows] /\ IsInjective(byAge)
    /\ chain \in [Rows -> {"missing", "funded", "emptied", "merged", "confirmed", "rejected"}]
    /\ expired \subseteq EscrowRows
    /\ \A r \in Runners, t \in Tables :
         /\ lane[r, t].todo \subseteq RowsOf(t) /\ lane[r, t].row \subseteq RowsOf(t)
         /\ Cardinality(lane[r, t].row) <= 1
         /\ lane[r, t].seen \in {"none", "Active", "Claimed", "Expired", "NonExistent", "Confirmed"}
    /\ settledFirst \subseteq Rows

ReconInit ==
    /\ dbRow = [x \in Rows |-> "pending"]
    /\ byAge = SetToSeq(Rows)
    /\ chain = [x \in Rows |-> "missing"] /\ expired = {}
    /\ lane = [l \in Runners \X Tables |-> NoLane]
    /\ settledFirst = {}

-----------------------------------------------------------------------------
(* The ledger: an escrow account is funded, then emptied or merged away; a *)
(* payment is confirmed or rejected. Both settle once.                     *)

HeldBy(x) == {l \in Runners \X Tables : lane[l].row = {x} /\ lane[l].seen # "none"}

Settle(x) ==
    /\ \/ x \in EscrowRows /\ chain[x] = "missing" /\ chain' = [chain EXCEPT ![x] = "funded"]
       \/ /\ x \in EscrowRows /\ chain[x] = "funded"
          /\ \E end \in {"emptied", "merged"} : chain' = [chain EXCEPT ![x] = end]
       \/ /\ x \in PaymentRows /\ chain[x] = "missing"
          /\ \E end \in {"confirmed", "rejected"} : chain' = [chain EXCEPT ![x] = end]
    /\ settledFirst' = IF chain'[x] # "funded" /\ HeldBy(x) = {} /\ dbRow[x] \in Undecided
                       THEN settledFirst \cup {x} ELSE settledFirst
    /\ UNCHANGED <<dbRow, byAge, expired, lane>>

Expire(x) ==
    /\ x \notin expired /\ expired' = expired \cup {x}
    /\ UNCHANGED <<dbRow, byAge, chain, lane, settledFirst>>

-----------------------------------------------------------------------------
(* A run.                                                                  *)

Older(x, y) == \E i, j \in DOMAIN byAge : i < j /\ byAge[i] = x /\ byAge[j] = y

\* The oldest undecided rows of a table.
fetchPending(table) ==
    LET pending == {x \in RowsOf(table) : dbRow[x] \in Undecided}
    IN  {x \in pending : Cardinality({y \in pending : Older(y, x)}) < ReconBatch}

\* runReconciliation works on both tables at the same time.
startLane(r, table) ==
    /\ lane[r, table] = NoLane /\ fetchPending(table) # {}
    /\ lane' = [lane EXCEPT ![<<r, table>>].todo = fetchPending(table)]
    /\ UNCHANGED <<dbRow, byAge, chain, expired, settledFirst>>

\* An emptied account counts as claimed before its date is looked at; an
\* account that was merged away answers like one that never was.
resolveEscrowOnChainState(x) ==
    CASE chain[x] \in {"missing", "merged"} -> "NonExistent"
      [] chain[x] = "emptied" -> "Claimed"
      [] chain[x] = "funded" /\ x \in expired -> "Expired"
      [] OTHER -> "Active"

\* Any transaction that is found confirms the payment.
resolveAnyPayment(x) ==
    IF chain[x] # "missing" THEN "Confirmed" ELSE "NonExistent"

resolvePaymentOnChainState(x) ==
    IF chain[x] = "confirmed" THEN "Confirmed" ELSE "NonExistent"

\* Horizon answers for the next row, or the row is skipped.
askHorizon(r, table) ==
    LET l == lane[r, table]
    IN  /\ l.row = {}
        /\ \E x \in l.todo :
             lane' = [lane EXCEPT ![<<r, table>>] =
                [todo |-> l.todo \ {x}, row |-> {x},
                 seen |-> IF table = "escrows" THEN resolveEscrowOnChainState(x)
                                               ELSE resolvePaymentOnChainState(x)]]
        /\ UNCHANGED <<dbRow, byAge, chain, expired, settledFirst>>

skipRow(r, table) ==
    /\ lane[r, table].row = {}
    /\ \E x \in lane[r, table].todo : lane' = [lane EXCEPT ![<<r, table>>].todo = @ \ {x}]
    /\ UNCHANGED <<dbRow, byAge, chain, expired, settledFirst>>

Decision(table, seen) ==
    CASE seen = "Claimed" -> "claimed"
      [] seen = "Expired" -> "expired"
      [] seen = "Confirmed" -> "paid"
      [] seen = "NonExistent" /\ table = "escrows" -> "irreconcilable"
      [] seen = "NonExistent" /\ table = "payments" -> "failed"

\* The row is written by its id, whatever it says by now; a consistent escrow
\* is not touched at all and keeps its place. A refused write ends the run.
applyTransition(r, table) ==
    LET l == lane[r, table]
        x == CHOOSE y \in Rows : l.row = {y}
    IN  /\ l.row # {}
        /\ \/ /\ l.seen = "Active" /\ UNCHANGED <<dbRow, byAge>>
              /\ lane' = [lane EXCEPT ![<<r, table>>] = [NoLane EXCEPT !.todo = l.todo]]
           \/ /\ l.seen # "Active"
              /\ dbRow' = [dbRow EXCEPT ![x] = Decision(table, l.seen)]
              /\ byAge' = Append(SelectSeq(byAge, LAMBDA y : y # x), x)
              /\ lane' = [lane EXCEPT ![<<r, table>>] = [NoLane EXCEPT !.todo = l.todo]]
        /\ UNCHANGED <<chain, expired, settledFirst>>

\* A failed write throws, and so does a process that dies.
runFails(r, table) ==
    /\ lane[r, table] # NoLane
    /\ lane' = [lane EXCEPT ![<<r, table>>] = NoLane]
    /\ UNCHANGED <<dbRow, byAge, chain, expired, settledFirst>>

ReconNext ==
    \/ \E x \in Rows : Settle(x)
    \/ \E x \in EscrowRows : Expire(x)
    \/ \E r \in Runners, t \in Tables :
         startLane(r, t) \/ askHorizon(r, t) \/ skipRow(r, t) \/ applyTransition(r, t) \/ runFails(r, t)

ReconSpec == ReconInit /\ [][ReconNext]_reconVars

-----------------------------------------------------------------------------
\* A row that settled on the ledger while no run held an answer for it ends,
\* if it ends, as the ledger settled it: overlapping runs never turn a
\* confirmed payment into a failed one, nor an emptied escrow into an expired
\* one, although they write without looking at the row.
SettledFirstIsTold ==
    \A x \in settledFirst : dbRow[x] \notin Undecided =>
        \/ chain[x] = "confirmed" /\ dbRow[x] = "paid"
        \/ chain[x] = "rejected" /\ dbRow[x] = "failed"
        \/ chain[x] = "emptied" /\ dbRow[x] = "claimed"
        \/ chain[x] = "merged" /\ dbRow[x] = "irreconcilable"
=============================================================================
