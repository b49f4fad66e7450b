---------------------------- MODULE EscrowClient ----------------------------
(***************************************************************************)
(* The escrow contract as its callers see it. The three deposits that derive *)
(* an escrow_id are meant to be retried: a client that did not see the       *)
(* answer of a call sends it again, and a call whose id is on record answers *)
(* with the commitment of the escrow made earlier and does nothing else.     *)
(* This module adds those answers, which the state machine of Escrow does    *)
(* not show because they change no storage.                                  *)
(***************************************************************************)
EXTENDS Escrow

VARIABLE receipts \* what the last step answered, when it was a deposit: asked and got

clientVars == <<vars, receipts>>

Receipt(id, council, c) == [id |-> id, council |-> council, commitment |-> c]

ClientInit ==
    /\ Init
    /\ receipts = {}

(* A deposit creates its escrow; one that finds the id on record, once its    *)
(* other arguments passed validation, is answered from it.                    *)
Answer(create, id, council) ==
    \/ /\ create
       /\ receipts' = {Receipt(id, council, AmountCommitment(id.owner, id.amount, id.salt))}
    \/ /\ GuardDeposit("Deposit") /\ TimeoutValid(id.timeout)
       /\ id \in DOMAIN escrowIdMap
       /\ receipts' = {Receipt(id, council, escrowIdMap[id])}
       /\ UNCHANGED vars

DepositCall(token, amount, owner, salt, timeout, arbiter) ==
    Answer(Deposit(token, amount, owner, salt, timeout, arbiter),
           EscrowId(token, amount, 0, owner, salt, timeout, arbiter), << >>)

DepositWithArbitersCall(token, amount, owner, salt, timeout, arbiters, threshold) ==
    /\ CouncilValid(arbiters, threshold)
    /\ Answer(DepositWithArbiters(token, amount, owner, salt, timeout, arbiters, threshold),
              EscrowId(token, amount, 0, owner, salt, timeout, NoAddress), arbiters)

DepositPartialCall(token, due, initial, owner, salt, timeout, arbiter) ==
    Answer(DepositPartial(token, due, initial, owner, salt, timeout, arbiter),
           EscrowId(token, due, initial, owner, salt, timeout, arbiter), << >>)

ClientDeposits ==
    \E t \in Token, amount \in Amount, who \in Address, timeout \in Timeouts, s \in Salt :
        \/ \E arb \in Arbiter : DepositCall(t, amount, who, s, timeout, arb)
        \/ \E council \in Councils : \E threshold \in 1..Len(council) :
              DepositWithArbitersCall(t, amount, who, s, timeout, council, threshold)
        \/ \E arb \in Arbiter, initial \in Amount :
              DepositPartialCall(t, amount, initial, who, s, timeout, arb)

CommitmentDeposits ==
    \E t \in Token, amount \in Amount, who \in Address, timeout \in Timeouts,
       c \in Commitments, arb \in Arbiter :
          DepositWithCommitment(who, t, amount, c, timeout, arb)

ClientNext ==
    \/ ClientDeposits
    \/ /\ CommitmentDeposits \/ Settlements \/ Disputes \/ Tick
       /\ receipts' = {}

ClientSpec == ClientInit /\ [][ClientNext]_clientVars

-----------------------------------------------------------------------------
(* Issue #304, "deterministic escrow id over the full creation payload": the  *)
(* commitment a deposit answers with, created or found, names an escrow with  *)
(* the very token, amount, owner, kind of deadline and arbiter that were      *)
(* asked for, and the next retry will be answered from the same record.       *)
ReceiptHonoured ==
    \A r \in receipts :
        /\ r.id \in DOMAIN escrowIdMap
        /\ Exists(r.commitment)
        /\ LET e == escrows[r.commitment]
           IN  /\ e.token = r.id.token /\ e.owner = r.id.owner
               /\ e.amountDue = r.id.amount /\ e.arbiter = r.id.arbiter
               /\ e.expiresAt = 0 <=> r.id.timeout = 0
=============================================================================
