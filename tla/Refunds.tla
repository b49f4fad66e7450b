------------------------------- MODULE Refunds -------------------------------
(***************************************************************************)
(* Refunds: requests are deduplicated by idempotency key, operators        *)
(* approve or reject them, an approval enqueues a job, and the handler of  *)
(* the job calls the escrow contract's refund and writes what came of it.  *)
(* Jobs are delivered as JobDelivery says; the ledger refunds an escrow at *)
(* most once, and may take a transaction whose answer is lost. A hash is   *)
(* that of the content: the escrow, the sequence number of the one account *)
(* that signs, and what the simulation added. Two refunds of one escrow    *)
(* that are built alike are one transaction.                               *)
(***************************************************************************)
EXTENDS Integers, FiniteSets

CONSTANTS
    Refunds,     \* refund_attempts rows, one per idempotency key
    Entities,    \* escrows that payments, escrow records and links name
    Operators,   \* requests in flight
    RefundJobs,  \* jobs that approvals may enqueue
    Fees,        \* what a simulation may add to a transaction
    MaxSends     \* bound on the sequence number of the account that signs

ASSUME RefundBounds == MaxSends \in Nat

VARIABLES
    refund,    \* refund_attempts
    asking,    \* the request each operator has in flight
    refundOf,  \* the refund a job pays
    refundJob, \* where the queue has it
    run,       \* how far its handler is
    tx,        \* transactions on the network
    escrow,    \* the entity's escrow on the ledger
    sequence   \* transactions of the account that signs which the ledger took

ledgerVars == <<tx, escrow, sequence>>
refundVars == <<refund, asking, refundOf, refundJob, run, ledgerVars>>

RefundQueue == INSTANCE JobDelivery WITH Jobs <- RefundJobs, phase <- refundJob

NoTransaction == <<>>
Transactions == Entities \X (1..MaxSends) \X Fees
Attempt == [status : {"absent", "pending", "submitted", "confirmed", "failed", "rejected"},
            of : Entities, hash : Transactions \cup {NoTransaction}]
Still == [step |-> "none"]
Handling == [step : {"read", "poll", "prepare", "send", "wait", "end"},
             found : BOOLEAN, hash : Transactions \cup {NoTransaction}, tx : Transactions \cup {NoTransaction}]

RefundTypeOK ==
    /\ refund \in [Refunds -> Attempt]
    /\ asking \in [Operators -> {<<>>} \cup ({"insert", "approve", "enqueue", "reject"} \X Refunds)]
    /\ \A j \in RefundJobs : refundJob[j] # "absent" => refundOf[j] \in Refunds
    /\ RefundQueue!DeliveryTypeOK
    /\ \A j \in RefundJobs :
         IF refundJob[j] = "running" THEN run[j] \in Handling ELSE run[j] = Still
    /\ tx \in [Transactions -> {"none", "sent", "success", "failed"}]
    /\ escrow \in [Entities -> {"open", "refunded", "settled"}]
    /\ sequence \in 0..MaxSends

RefundInit ==
    /\ refund \in [Refunds -> {a \in Attempt : a.status = "absent" /\ a.hash = NoTransaction}]
    /\ asking = [o \in Operators |-> <<>>]
    /\ refundOf = [j \in RefundJobs |-> <<>>]
    /\ refundJob = [j \in RefundJobs |-> "absent"]
    /\ run = [j \in RefundJobs |-> Still]
    /\ tx = [t \in Transactions |-> "none"]
    /\ escrow = [e \in Entities |-> "open"]
    /\ sequence = 0

-----------------------------------------------------------------------------
(* Requests. Each looks the row up first and writes it in a later step.    *)

Look(o, step, r) ==
    /\ asking[o] = <<>>
    /\ asking' = [asking EXCEPT ![o] = <<step, r>>]
    /\ UNCHANGED <<refund, refundOf, refundJob, run, ledgerVars>>

\* The key is new and the entity is refundable, as its own table has it: the
\* tables may lag behind the ledger.
initiateRefund(o, r) == refund[r].status = "absent" /\ Look(o, "insert", r)

approveRefund(o, r) == refund[r].status = "pending" /\ Look(o, "approve", r)

rejectRefund(o, r) == refund[r].status = "pending" /\ Look(o, "reject", r)

\* The insert; with a key that exists by now the row of the winner is answered.
insertAttempt(o, r) ==
    /\ asking[o] = <<"insert", r>>
    /\ refund' = IF refund[r].status = "absent" THEN [refund EXCEPT ![r].status = "pending"] ELSE refund
    /\ asking' = [asking EXCEPT ![o] = <<>>]
    /\ UNCHANGED <<refundOf, refundJob, run, ledgerVars>>

writeSubmitted(o, r) ==
    /\ asking[o] = <<"approve", r>>
    /\ refund' = [refund EXCEPT ![r].status = "submitted"]
    /\ asking' = [asking EXCEPT ![o] = <<"enqueue", r>>]
    /\ UNCHANGED <<refundOf, refundJob, run, ledgerVars>>

writeRejected(o, r) ==
    /\ asking[o] = <<"reject", r>>
    /\ refund' = [refund EXCEPT ![r].status = "rejected"]
    /\ asking' = [asking EXCEPT ![o] = <<>>]
    /\ UNCHANGED <<refundOf, refundJob, run, ledgerVars>>

enqueueRefund(o, r) ==
    /\ asking[o] = <<"enqueue", r>>
    /\ \E j \in RefundJobs : RefundQueue!Accept(j) /\ refundOf' = [refundOf EXCEPT ![j] = r]
    /\ asking' = [asking EXCEPT ![o] = <<>>]
    /\ UNCHANGED <<refund, run, ledgerVars>>

\* Any of these steps may fail in the database; the request ends there.
requestFails(o) ==
    /\ asking[o] # <<>>
    /\ asking' = [asking EXCEPT ![o] = <<>>]
    /\ UNCHANGED <<refund, refundOf, refundJob, run, ledgerVars>>

-----------------------------------------------------------------------------
(* The handler.                                                            *)

\* A failed update is logged and forgotten; a hash is written when there is one.
updateRefundStatus(r, status, hash) ==
    \/ refund' = [refund EXCEPT ![r].status = status,
                                ![r].hash = IF hash = NoTransaction THEN @ ELSE hash]
    \/ UNCHANGED refund

Goto(j, step) == run' = [run EXCEPT ![j].step = step] /\ UNCHANGED refundJob

handRefund(j) ==
    /\ RefundQueue!Hand(j)
    /\ run' = [run EXCEPT ![j] = [step |-> "read", found |-> FALSE, hash |-> NoTransaction, tx |-> NoTransaction]]
    /\ UNCHANGED <<refund, asking, refundOf, ledgerVars>>

\* A lookup that fails is taken for a row that does not exist.
readAttempt(j) ==
    /\ run[j].step = "read"
    /\ LET hash == refund[refundOf[j]].hash
       IN  \/ run' = [run EXCEPT ![j].found = TRUE, ![j].hash = hash,
                                 ![j].step = IF hash = NoTransaction THEN "prepare" ELSE "poll"]
           \/ run' = [run EXCEPT ![j].step = "prepare"]
    /\ UNCHANGED <<refund, asking, refundOf, refundJob, ledgerVars>>

\* The handler throws; the refund is written failed, with the transaction if
\* there is one, and once more, without it, when the job is given up.
failRefund(j, hash) ==
    /\ RefundQueue!Return(j) /\ run' = [run EXCEPT ![j] = Still]
    /\ IF run[j].found \/ hash # NoTransaction \/ refundJob'[j] = "dropped"
       THEN updateRefundStatus(refundOf[j], "failed", hash) ELSE UNCHANGED refund

\* A transaction sent by an earlier run: confirmed, failed, or not seen yet.
pollEarlier(j) ==
    /\ run[j].step = "poll"
    /\ \/ /\ tx[run[j].hash] = "success"
          /\ updateRefundStatus(refundOf[j], "confirmed", run[j].hash)
          /\ Goto(j, "end")
       \/ failRefund(j, run[j].hash)
    /\ UNCHANGED <<asking, refundOf, ledgerVars>>

\* The account is read and the call simulated; the simulation fails when the
\* contract would refuse. An endpoint may lag: it answers an older number, of a
\* time at which the escrow may still have been open.
prepareTransaction(j) ==
    /\ run[j].step = "prepare"
    /\ LET e == refund[refundOf[j]].of
       IN  \/ \E n \in 1..MaxSends, fee \in Fees :
                /\ n <= sequence \/ (n = sequence + 1 /\ escrow[e] = "open")
                /\ run' = [run EXCEPT ![j].step = "send", ![j].tx = <<e, n, fee>>]
                /\ UNCHANGED <<refundJob, refund>>
           \/ failRefund(j, NoTransaction)
    /\ UNCHANGED <<asking, refundOf, ledgerVars>>

\* A transaction the network does not know yet enters it while its number is
\* free. The answer counts as accepted also when the network knows it already
\* or asks to try again later; and the call may fail although it entered.
submitTransaction(j) ==
    /\ run[j].step = "send"
    /\ \/ /\ tx[run[j].tx] = "none" /\ run[j].tx[2] > sequence
          /\ tx' = [tx EXCEPT ![run[j].tx] = "sent"]
       \/ UNCHANGED tx
    /\ \/ Goto(j, "wait") /\ UNCHANGED refund
       \/ failRefund(j, NoTransaction)
    /\ UNCHANGED <<asking, refundOf, escrow, sequence>>

\* A transaction that has been accepted counts as one that succeeded.
pollTransactionSent(j) ==
    /\ run[j].step = "wait"
    /\ \/ /\ updateRefundStatus(refundOf[j], "confirmed", run[j].tx)
          /\ Goto(j, "end")
       \/ failRefund(j, run[j].tx)
       \/ failRefund(j, NoTransaction)
    /\ UNCHANGED <<asking, refundOf, ledgerVars>>

\* A transaction that is not seen in time counts as failed, with its hash,
\* also when it lands a moment later; without it when the poll itself throws.
pollTransactionStatus(j) ==
    /\ run[j].step = "wait"
    /\ \/ /\ tx[run[j].tx] = "success"
          /\ updateRefundStatus(refundOf[j], "confirmed", run[j].tx)
          /\ Goto(j, "end")
       \/ failRefund(j, run[j].tx)
       \/ failRefund(j, NoTransaction)
    /\ UNCHANGED <<asking, refundOf, ledgerVars>>

recordRefundJob(j) ==
    /\ run[j].step = "end"
    /\ run' = [run EXCEPT ![j] = Still]
    /\ \/ RefundQueue!Record(j) /\ UNCHANGED refund
       \/ RefundQueue!Return(j) /\ IF refundJob'[j] = "dropped" THEN updateRefundStatus(refundOf[j], "failed", NoTransaction)
                             ELSE UNCHANGED refund
    /\ UNCHANGED <<asking, refundOf, ledgerVars>>

\* A waiting job is given up; an operator brings it back.
giveUpRefund(j) ==
    /\ RefundQueue!Drop(j) /\ updateRefundStatus(refundOf[j], "failed", NoTransaction)
    /\ UNCHANGED <<asking, refundOf, run, ledgerVars>>

retryRefundJob(j) ==
    /\ RefundQueue!Revive(j)
    /\ UNCHANGED <<refund, asking, refundOf, run, ledgerVars>>

RefundCrash ==
    /\ RefundQueue!Crash
    /\ \A j \in RefundJobs : refundJob'[j] # "running"
    /\ run' = [j \in RefundJobs |-> Still]
    /\ asking' = [o \in Operators |-> <<>>]
    /\ UNCHANGED <<refund, refundOf, ledgerVars>>

-----------------------------------------------------------------------------
(* The ledger.                                                             *)

\* The ledger takes one transaction of the account for each number.
Land(t) ==
    /\ tx[t] = "sent" /\ t[2] = sequence + 1
    /\ sequence' = sequence + 1
    /\ IF escrow[t[1]] = "open"
       THEN tx' = [tx EXCEPT ![t] = "success"] /\ escrow' = [escrow EXCEPT ![t[1]] = "refunded"]
       ELSE tx' = [tx EXCEPT ![t] = "failed"] /\ UNCHANGED escrow
    /\ UNCHANGED <<refund, asking, refundOf, refundJob, run>>

\* Recurring payments are signed by the same account.
PayOtherwise ==
    /\ sequence < MaxSends /\ sequence' = sequence + 1
    /\ UNCHANGED <<refund, asking, refundOf, refundJob, run, tx, escrow>>

SettleOtherwise(e) ==
    /\ escrow[e] = "open"
    /\ escrow' = [escrow EXCEPT ![e] = "settled"]
    /\ UNCHANGED <<refund, asking, refundOf, refundJob, run, tx, sequence>>

-----------------------------------------------------------------------------
RefundNext ==
    \/ \E o \in Operators, r \in Refunds :
         \/ initiateRefund(o, r) \/ insertAttempt(o, r)
         \/ approveRefund(o, r) \/ writeSubmitted(o, r) \/ enqueueRefund(o, r)
         \/ rejectRefund(o, r) \/ writeRejected(o, r)
    \/ \E o \in Operators : requestFails(o)
    \/ \E j \in RefundJobs :
         \/ handRefund(j) \/ readAttempt(j) \/ pollEarlier(j) \/ prepareTransaction(j)
         \/ submitTransaction(j) \/ pollTransactionStatus(j) \/ recordRefundJob(j)
         \/ giveUpRefund(j) \/ retryRefundJob(j)
    \/ RefundCrash
    \/ \E t \in Transactions : Land(t)
    \/ PayOtherwise
    \/ \E e \in Entities : SettleOtherwise(e)

RefundSpec == RefundInit /\ [][RefundNext]_refundVars

-----------------------------------------------------------------------------
\* A confirmed refund carries the transaction that refunded its escrow, whatever
\* its jobs, their retries and late answers wrote. Several refunds of one escrow
\* may be shown as confirmed, when their transactions were built alike; they then
\* carry the one hash, and the money went back once.
ConfirmedIsOnLedger ==
    \A r \in Refunds : refund[r].status = "confirmed" =>
        /\ refund[r].hash # NoTransaction
        /\ refund[r].hash[1] = refund[r].of /\ tx[refund[r].hash] = "success"
        /\ escrow[refund[r].of] = "refunded"
        /\ \A q \in Refunds :
             refund[q].status = "confirmed" /\ refund[q].of = refund[r].of =>
               refund[q].hash = refund[r].hash
=============================================================================
