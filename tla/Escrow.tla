------------------------------- MODULE Escrow -------------------------------
(***************************************************************************)
(* The escrow contract: the entry points that escrow/src/lib.rs exports,     *)
(* over the persistent storage of shared/src/storage.rs and the balances     *)
(* that the token contracts keep.                                            *)
(*                                                                          *)
(* A Soroban call is one atomic transaction: it either commits everything    *)
(* or, on any error, nothing. Hence one action per entry point, and a call   *)
(* that returns an error is no step. A deposit that finds its escrow_id      *)
(* already recorded returns the existing commitment and changes nothing:     *)
(* it is no step either (EscrowClient observes what it returns).             *)
(*                                                                          *)
(* config holds what the admin setters of escrow/src/admin.rs write. None    *)
(* of them is exported by lib.rs, so it keeps its default for ever.          *)
(***************************************************************************)
EXTENDS FeeMath, KeyValue, FiniteSetsExt, Sequences

CONSTANTS Address,          \* accounts that call the contract or receive funds
          Contract,         \* the contract's own account
          Token,            \* token contracts
          Salt,             \* salts of at most 512 bytes
          MaxAmount,        \* bound on amounts
          Timeouts,         \* the values of timeout_secs a caller passes, 0 included
          Councils,         \* the arbiter lists a caller passes
          Wallets,          \* initial balances: token -> address -> amount
          Recipients,       \* whom a resolution may be told to pay: nothing checks it,
                            \* and the contract itself may be named
          U64Max,           \* stands for u64::MAX; the clock stays below it
          DefaultDisputeTimeout,
          PlaceholderDecodes, \* see Disputable
          MaxEscrows        \* bound on the number of stored escrow records

MaxArbiters == 10

ASSUME EscrowAssumption ==
    /\ Contract \notin Address
    /\ NoAddress \notin Address \cup {Contract}
    /\ MaxAmount \in Nat /\ U64Max \in Nat \ {0} /\ MaxEscrows \in Nat
    /\ DefaultDisputeTimeout \in Nat \ {0}
    /\ PlaceholderDecodes \in BOOLEAN
    /\ Timeouts \subseteq Nat
    /\ Councils \subseteq Seq(Address)
    /\ Wallets \in [Token -> [Address -> Nat]]
    /\ Recipients \subseteq Address \cup {Contract}

Account == Address \cup {Contract}
Amount  == 1..MaxAmount
Arbiter == Address \cup {NoAddress}

(* A commitment is a hash of (owner, amount, salt) under Keccak-256, or under *)
(* the legacy SHA-256; the hashes are taken as injective.                     *)
Schemes     == {"keccak", "sha256"}
Commitments == [scheme : Schemes, owner : Address, amount : Amount, salt : Salt]

AmountCommitment(owner, amount, salt) ==
    [scheme |-> "keccak", owner |-> owner, amount |-> amount, salt |-> salt]
LegacyOf(c) == [c EXCEPT !.scheme = "sha256"]

(* escrow_id hashes the whole creation payload. deposit_partial uses a domain *)
(* tag of its own and adds the initial payment; 0 stands for the tag of the   *)
(* other deposits.                                                            *)
EscrowIds == [token : Token, amount : Amount, initial : Amount \cup {0}, owner : Address,
              salt : Salt, timeout : Timeouts, arbiter : Arbiter]

(* Mutant: the arbiter is left out of the hash. *)
EscrowIdWithoutArbiter(token, amount, initial, owner, salt, timeout, arbiter) ==
    [token |-> token, amount |-> amount, initial |-> initial, owner |-> owner,
     salt |-> salt, timeout |-> timeout, arbiter |-> NoAddress]

EscrowId(token, amount, initial, owner, salt, timeout, arbiter) ==
    [token |-> token, amount |-> amount, initial |-> initial, owner |-> owner,
     salt |-> salt, timeout |-> timeout, arbiter |-> arbiter]

Terminal == {"Spent", "Refunded"}
Open     == {"Pending", "Disputed"}

EscrowEntry == [token : Token, amountDue : Amount, amountPaid : Nat, owner : Address,
                status : Open \cup Terminal, expiresAt : Nat, arbiter : Arbiter,
                arbiters : Seq(Address), threshold : Nat]

PauseFlags == {"Deposit", "DepositWithCommitment", "Withdrawal", "Refund"}

DefaultConfig == [paused |-> FALSE, pauseFlags |-> {}, emergency |-> FALSE,
                  arbiterRole |-> {}, fees |-> NoFees,
                  disputeTimeout |-> DefaultDisputeTimeout, expiryAction |-> "RefundOwner"]

VARIABLES now,                \* ledger timestamp, seconds
          balance,            \* token -> account -> amount (the token contracts)
          escrows,            \* DataKey::Escrow
          escrowIdMap,        \* DataKey::EscrowIdMap
          commitmentEscrowId, \* DataKey::CommitmentEscrowId
          disputeVotes,       \* DataKey::DisputeVote: TRUE is a vote for the owner
          disputeExpiry,      \* DataKey::DisputeExpiry
          config              \* the singletons the admin setters write

indexVars   == <<escrowIdMap, commitmentEscrowId>>
disputeVars == <<disputeVotes, disputeExpiry>>
vars        == <<now, balance, escrows, indexVars, disputeVars, config>>

Init ==
    /\ now = 0
    /\ balance = [t \in Token |-> [a \in Account |-> IF a = Contract THEN 0 ELSE Wallets[t][a]]]
    /\ escrows = << >>
    /\ escrowIdMap = << >>
    /\ commitmentEscrowId = << >>
    /\ disputeVotes = << >>
    /\ disputeExpiry = << >>
    /\ config = DefaultConfig

-----------------------------------------------------------------------------
(* Guards and helpers. The reentrancy guard is clear between transactions.   *)

GuardDeposit(flag) == ~config.emergency /\ ~config.paused /\ flag \notin config.pauseFlags
GuardPayout(flag)  == ~config.paused /\ flag \notin config.pauseFlags
GuardDispute       == ~config.paused

(* Mutant: the sum leaves the range of u64. *)
UnboundedAdd(a, b) == a + b

(* saturating_add on u64 *)
SaturatingAdd(a, b) == IF a + b > U64Max THEN U64Max ELSE a + b

(* Mutants: the timeout is stored as it came; a saturated expiry is let through. *)
RelativeExpiry(timeout)     == timeout
AnyTimeoutAccepted(timeout) == TRUE

ComputeExpiresAt(timeout) == IF timeout = 0 THEN 0 ELSE SaturatingAdd(now, timeout)
TimeoutValid(timeout)     == ComputeExpiresAt(timeout) # U64Max

(* Mutant: an escrow is still open in the second in which it expires. *)
IsExpiredLate(e) == e.expiresAt # 0 /\ now > e.expiresAt

IsExpired(e) == e.expiresAt # 0 /\ now >= e.expiresAt

Exists(c)    == c \in DOMAIN escrows

(* Mutant: the check that the record exists, without the one of its status. *)
HasAnyStatus(c, status) == Exists(c)

HasStatus(c, status) == Exists(c) /\ escrows[c].status = status

Entry(token, due, paid, owner, timeout, arbiter, arbiters, threshold) ==
    [token |-> token, amountDue |-> due, amountPaid |-> paid, owner |-> owner,
     status |-> "Pending", expiresAt |-> ComputeExpiresAt(timeout),
     arbiter |-> arbiter, arbiters |-> arbiters, threshold |-> threshold]

(* Mutant: the changed entry is not written back. *)
StatusNotSaved(c, status) == UNCHANGED escrows

SetStatus(c, status) == escrows' = [escrows EXCEPT ![c].status = status]

(* A transfer of the token contract; it fails without the funds. *)
Transfer(token, from, to, amount) ==
    /\ balance[token][from] >= amount
    /\ balance' = [balance EXCEPT ![token] =
           [a \in Account |-> balance[token][a] + (IF a = to THEN amount ELSE 0)
                                              - (IF a = from THEN amount ELSE 0)]]

(* fee_router::route_payout out of the contract. *)
RoutePayout(token, recipient, amount, arbiter) ==
    LET b == FeeBreakdown(config.fees, now, token, amount, arbiter # NoAddress)
    IN  /\ RoutePayoutSucceeds(config.fees, now, token, amount)
        /\ balance[token][Contract] >= PaidOut(config.fees, b)
        /\ balance' = [balance EXCEPT ![token] =
               [a \in Account |->
                   balance[token][a] + PaidTo(a, config.fees, b, recipient, arbiter)
                     - (IF a = Contract THEN PaidOut(config.fees, b) ELSE 0)]]

(* The votes of an escrow's own council. *)
CouncilVotes(c) == {c} \X Range(escrows[c].arbiters)

(* Mutant: the votes stay behind. *)
ClearExpiryOnly(c) ==
    /\ disputeExpiry' = Without(disputeExpiry, {c})
    /\ UNCHANGED disputeVotes

ClearDisputeState(c) ==
    /\ disputeExpiry' = Without(disputeExpiry, {c})
    /\ disputeVotes' = Without(disputeVotes, CouncilVotes(c))

-----------------------------------------------------------------------------
(* Deposits. *)

(* What the three deposits that derive an escrow_id have in common once the   *)
(* id is not on record: neither hash of the commitment may be taken; then the *)
(* entry and both index records are written and the payment is pulled in.     *)
CreateIndexed(id, entry) ==
    LET c == AmountCommitment(id.owner, id.amount, id.salt)
    IN  /\ id \notin DOMAIN escrowIdMap
        /\ ~Exists(c) /\ ~Exists(LegacyOf(c))
        /\ Cardinality(DOMAIN escrows) < MaxEscrows
        /\ escrows' = Put(escrows, c, entry)
        /\ escrowIdMap' = Put(escrowIdMap, id, c)
        /\ commitmentEscrowId' = Put(commitmentEscrowId, c, id)
        /\ Transfer(id.token, id.owner, Contract, entry.amountPaid)
        /\ UNCHANGED <<now, disputeVars, config>>

Deposit(token, amount, owner, salt, timeout, arbiter) ==
    /\ GuardDeposit("Deposit")
    /\ amount > 0
    /\ TimeoutValid(timeout)
    /\ CreateIndexed(EscrowId(token, amount, 0, owner, salt, timeout, arbiter),
                     Entry(token, amount, amount, owner, timeout, arbiter, << >>, 0))

CouncilValid(arbiters, threshold) ==
    /\ Len(arbiters) \in 1..MaxArbiters
    /\ threshold \in 1..Len(arbiters)
    /\ \A i, j \in 1..Len(arbiters) : i # j => arbiters[i] # arbiters[j]

(* The id is derived with arbiter = None: the council is not part of it. *)
DepositWithArbiters(token, amount, owner, salt, timeout, arbiters, threshold) ==
    /\ GuardDeposit("Deposit")
    /\ amount > 0
    /\ CouncilValid(arbiters, threshold)
    /\ TimeoutValid(timeout)
    /\ CreateIndexed(EscrowId(token, amount, 0, owner, salt, timeout, NoAddress),
                     Entry(token, amount, amount, owner, timeout, NoAddress,
                           arbiters, threshold))

(* The initial payment is not compared with the amount due. *)
DepositPartial(token, due, initial, owner, salt, timeout, arbiter) ==
    /\ GuardDeposit("Deposit")
    /\ initial > 0 /\ due > 0
    /\ TimeoutValid(timeout)
    /\ CreateIndexed(EscrowId(token, due, initial, owner, salt, timeout, arbiter),
                     Entry(token, due, initial, owner, timeout, arbiter, << >>, 0))

(* The commitment is the caller's: any hash at all, of any preimage. *)
DepositWithCommitment(from, token, amount, c, timeout, arbiter) ==
    /\ GuardDeposit("DepositWithCommitment")
    /\ amount > 0
    /\ TimeoutValid(timeout)
    /\ ~Exists(c)
    /\ Cardinality(DOMAIN escrows) < MaxEscrows
    /\ Transfer(token, from, Contract, amount)
    /\ escrows' = Put(escrows, c, Entry(token, amount, amount, from, timeout, arbiter,
                                        << >>, 0))
    /\ UNCHANGED <<now, indexVars, disputeVars, config>>

(* Anybody may pay into a pending escrow, even after its expiry. *)
PartialPayment(c, payer, payment) ==
    /\ GuardDeposit("Deposit")
    /\ payment > 0
    /\ HasStatus(c, "Pending")
    /\ payment <= escrows[c].amountDue - escrows[c].amountPaid
    /\ Transfer(escrows[c].token, payer, Contract, payment)
    /\ escrows' = [escrows EXCEPT ![c].amountPaid = @ + payment]
    /\ UNCHANGED <<now, indexVars, disputeVars, config>>

-----------------------------------------------------------------------------
(* Settlement. *)

(* The commitment is recomputed from the caller's preimage, the legacy hash   *)
(* only when the current one names no record.                                 *)
OpenedBy(to, amount, salt) ==
    LET c == AmountCommitment(to, amount, salt)
    IN  IF Exists(c) THEN c ELSE LegacyOf(c)

Withdraw(amount, to, salt) ==
    LET c == OpenedBy(to, amount, salt)
    IN  /\ GuardPayout("Withdrawal")
        /\ amount > 0
        /\ HasStatus(c, "Pending")
        /\ ~IsExpired(escrows[c])
        /\ escrows[c].amountDue = amount
        /\ escrows[c].amountPaid >= escrows[c].amountDue
        /\ SetStatus(c, "Spent")
        /\ RoutePayout(escrows[c].token, to, escrows[c].amountPaid, NoAddress)
        /\ UNCHANGED <<now, indexVars, disputeVars, config>>

(* Mutant: what was due is paid back, not what was paid in. *)
RefundAmountDue(c, caller) ==
    /\ GuardPayout("Refund")
    /\ HasStatus(c, "Pending")
    /\ IsExpired(escrows[c])
    /\ caller = escrows[c].owner
    /\ SetStatus(c, "Refunded")
    /\ Transfer(escrows[c].token, Contract, caller, escrows[c].amountDue)
    /\ UNCHANGED <<now, indexVars, disputeVars, config>>

Refund(c, caller) ==
    /\ GuardPayout("Refund")
    /\ HasStatus(c, "Pending")
    /\ IsExpired(escrows[c])
    /\ caller = escrows[c].owner
    /\ SetStatus(c, "Refunded")
    /\ Transfer(escrows[c].token, Contract, caller, escrows[c].amountPaid)
    /\ UNCHANGED <<now, indexVars, disputeVars, config>>

(* Mutant: the id of the escrow is not looked up. *)
NoIdsOf(c) == {}

(* Index records of an escrow, when it has them. *)
IdsOf(c) == {commitmentEscrowId[d] : d \in {c} \cap DOMAIN commitmentEscrowId}

(* The vote of a single arbiter that cleanup drops from a refunded escrow. *)
SingleArbiterVotes(c) ==
    IF escrows[c].status = "Refunded" THEN {c} \X {escrows[c].arbiter} ELSE {}

CleanupEscrow(c) ==
    /\ Exists(c) /\ escrows[c].status \in Terminal
    /\ escrowIdMap' = Without(escrowIdMap, IdsOf(c))
    /\ commitmentEscrowId' = Without(commitmentEscrowId, {c})
    /\ disputeVotes' = Without(disputeVotes, CouncilVotes(c) \cup SingleArbiterVotes(c))
    /\ disputeExpiry' = Without(disputeExpiry, {c})
    /\ escrows' = Without(escrows, {c})
    /\ UNCHANGED <<now, balance, config>>

-----------------------------------------------------------------------------
(* Disputes. *)

HasSingleArbiter(e) == e.arbiter # NoAddress
HasCouncil(e)       == e.threshold > 0 /\ e.arbiters # << >>

(* A dispute over a council's escrow publishes an event with a placeholder    *)
(* address, the letter G and 55 times A, decoded by Address::from_str. A host *)
(* that verifies the checksum of a strkey traps on it (it should end in WHF), *)
(* and the whole call with it; PlaceholderDecodes says whether it does not.   *)
Disputable(e) == HasSingleArbiter(e) \/ (HasCouncil(e) /\ PlaceholderDecodes)

(* Nobody's authorisation is asked for. The dispute timeout and the action on *)
(* expiry are snapshots of the configuration.                                 *)
Dispute(c) ==
    /\ GuardDispute
    /\ HasStatus(c, "Pending")
    /\ Disputable(escrows[c])
    /\ SetStatus(c, "Disputed")
    /\ disputeExpiry' = Put(disputeExpiry, c,
                            [expiresAt |-> SaturatingAdd(now, config.disputeTimeout),
                             action |-> config.expiryAction])
    /\ UNCHANGED <<now, balance, indexVars, disputeVotes, config>>

(* The common end of every resolution: the whole amount back to the owner, or *)
(* out to the recipient through the fee router.                               *)
Settle(c, forOwner, recipient, arbiter) ==
    IF forOwner
    THEN /\ SetStatus(c, "Refunded")
         /\ Transfer(escrows[c].token, Contract, escrows[c].owner, escrows[c].amountPaid)
    ELSE /\ SetStatus(c, "Spent")
         /\ RoutePayout(escrows[c].token, recipient, escrows[c].amountPaid, arbiter)

ResolveDispute(caller, c, forOwner, recipient) ==
    /\ GuardDispute
    /\ HasStatus(c, "Disputed")
    /\ caller \in config.arbiterRole \cup {escrows[c].arbiter}
    /\ Settle(c, forOwner, recipient, caller)
    /\ ClearDisputeState(c)
    /\ UNCHANGED <<now, indexVars, config>>

VoteForDispute(caller, c, forOwner) ==
    /\ GuardDispute
    /\ HasStatus(c, "Disputed")
    /\ escrows[c].threshold # 0
    /\ caller \in Range(escrows[c].arbiters) \cup config.arbiterRole
    /\ <<c, caller>> \notin DOMAIN disputeVotes
    /\ disputeVotes' = Put(disputeVotes, <<c, caller>>, forOwner)
    /\ UNCHANGED <<now, balance, escrows, indexVars, disputeExpiry, config>>

VotesCast(c)         == CouncilVotes(c) \cap DOMAIN disputeVotes
VotesFor(c, outcome) == {v \in VotesCast(c) : disputeVotes[v] = outcome}

(* Anybody may call it and names the recipient; a tie goes to the owner. *)
ResolveDisputeMultiSig(c, recipient) ==
    /\ GuardDispute
    /\ HasStatus(c, "Disputed")
    /\ escrows[c].threshold # 0
    /\ Cardinality(VotesCast(c)) >= escrows[c].threshold
    /\ Settle(c, Cardinality(VotesFor(c, TRUE)) >= Cardinality(VotesFor(c, FALSE)),
              recipient, NoAddress)
    /\ ClearDisputeState(c)
    /\ UNCHANGED <<now, indexVars, config>>

-----------------------------------------------------------------------------
(* The ledger closes with a later timestamp. *)
Tick ==
    /\ now + 1 < U64Max
    /\ now' = now + 1
    /\ UNCHANGED <<balance, escrows, indexVars, disputeVars, config>>

Deposits ==
    \E t \in Token, amount \in Amount, who \in Address, timeout \in Timeouts :
        \/ \E s \in Salt, arb \in Arbiter : Deposit(t, amount, who, s, timeout, arb)
        \/ \E s \in Salt, council \in Councils : \E threshold \in 0..(Len(council) + 1) :
              DepositWithArbiters(t, amount, who, s, timeout, council, threshold)
        \/ \E s \in Salt, arb \in Arbiter, initial \in Amount :
              DepositPartial(t, amount, initial, who, s, timeout, arb)
        \/ \E c \in Commitments, arb \in Arbiter :
              DepositWithCommitment(who, t, amount, c, timeout, arb)

Settlements ==
    \/ \E amount \in Amount, to \in Address, s \in Salt : Withdraw(amount, to, s)
    \/ \E c \in DOMAIN escrows :
        \/ CleanupEscrow(c)
        \/ \E who \in Address, amount \in Amount : PartialPayment(c, who, amount)
        \/ \E who \in Address : Refund(c, who)

Disputes ==
    \E c \in DOMAIN escrows :
        \/ Dispute(c)
        \/ \E who \in Address, forOwner \in BOOLEAN, r \in Recipients :
              ResolveDispute(who, c, forOwner, r)
        \/ \E who \in Address, forOwner \in BOOLEAN : VoteForDispute(who, c, forOwner)
        \/ \E r \in Recipients : ResolveDisputeMultiSig(c, r)

Next == Deposits \/ Settlements \/ Disputes \/ Tick

Spec == Init /\ [][Next]_vars

(* The environment of a deadline: time passes, and the owner of an expired    *)
(* escrow eventually asks for the refund that only the owner may ask for.     *)
Fairness ==
    /\ WF_vars(Tick)
    /\ \A c \in Commitments :
          WF_vars(\E who \in Address : c \in DOMAIN escrows /\ Refund(c, who))

FairSpec == Spec /\ Fairness

-----------------------------------------------------------------------------
(* Properties. *)

TypeOK ==
    /\ now \in 0..(U64Max - 1)
    /\ balance \in [Token -> [Account -> Nat]]
    /\ DOMAIN escrows \subseteq Commitments
    /\ escrows \in [DOMAIN escrows -> EscrowEntry]
    /\ DOMAIN escrowIdMap \subseteq EscrowIds
    /\ escrowIdMap \in [DOMAIN escrowIdMap -> Commitments]
    /\ DOMAIN commitmentEscrowId \subseteq Commitments
    /\ commitmentEscrowId \in [DOMAIN commitmentEscrowId -> EscrowIds]
    /\ DOMAIN disputeVotes \subseteq Commitments \X Address
    /\ disputeVotes \in [DOMAIN disputeVotes -> BOOLEAN]
    /\ DOMAIN disputeExpiry \subseteq Commitments
    /\ disputeExpiry \in [DOMAIN disputeExpiry ->
                             [expiresAt : 0..U64Max, action : {"RefundOwner", "PayArbiter"}]]
    /\ config = DefaultConfig

OpenEscrows(t) ==
    {c \in DOMAIN escrows : escrows[c].status \in Open /\ escrows[c].token = t}

(* INV-01, Conservation of Value, and INV-04, No Double-Settlement            *)
(* (docs/INVARIANTS.md): the contract keeps one pooled balance per token, and *)
(* it always covers what the open escrows of that token are owed together. A  *)
(* settlement that paid twice, too much, or from another escrow's money, or a *)
(* payment that was recorded and not received, would break it. The pool may   *)
(* hold more: a resolution that names the contract itself as the recipient    *)
(* (nothing forbids it) leaves the money there, owed to nobody. Where money   *)
(* of the pool can go otherwise, step by step, is OneEscrowPays.              *)
Solvent ==
    \A t \in Token :
        balance[t][Contract] >= MapThenSumSet(LAMBDA c : escrows[c].amountPaid, OpenEscrows(t))

(* "Bounded cleanup ensures no orphaned mappings remain" (cleanup_escrow):    *)
(* the two index records of an escrow exist together, name each other, and    *)
(* the escrow they lead to was created with the parameters hashed in the id.  *)
IndexExact ==
    /\ \A id \in DOMAIN escrowIdMap :
        LET c == escrowIdMap[id]
        IN  /\ c = AmountCommitment(id.owner, id.amount, id.salt)
            /\ Exists(c)
            /\ c \in DOMAIN commitmentEscrowId /\ commitmentEscrowId[c] = id
            /\ escrows[c].token = id.token /\ escrows[c].owner = id.owner
            /\ escrows[c].amountDue = id.amount /\ escrows[c].arbiter = id.arbiter
    /\ \A c \in DOMAIN commitmentEscrowId :
          /\ commitmentEscrowId[c] \in DOMAIN escrowIdMap
          /\ escrowIdMap[commitmentEscrowId[c]] = c

(* Dispute records live exactly as long as the dispute: an expiry record for  *)
(* every disputed escrow and no other, and votes only on disputed escrows, of *)
(* members of their council. A vote that outlived its dispute would be        *)
(* counted, or would refuse the arbiter's vote, in a later dispute over the   *)
(* same commitment.                                                           *)
DisputeRecordsExact ==
    /\ DOMAIN disputeExpiry = {c \in DOMAIN escrows : escrows[c].status = "Disputed"}
    /\ \A v \in DOMAIN disputeVotes :
          HasStatus(v[1], "Disputed") /\ v[2] \in Range(escrows[v[1]].arbiters)

(* INV-05 and the state diagram of EscrowStatus (shared/src/types.rs): an     *)
(* escrow only moves along Pending -> Spent, Refunded, Disputed and           *)
(* Disputed -> Spent, Refunded; only a settled one disappears; and the terms  *)
(* it was created with never change.                                          *)
Moves == {<<"Pending", "Spent">>, <<"Pending", "Refunded">>, <<"Pending", "Disputed">>,
          <<"Disputed", "Spent">>, <<"Disputed", "Refunded">>}

SameTerms(e, f) ==
    /\ e.token = f.token /\ e.owner = f.owner /\ e.amountDue = f.amountDue
    /\ e.expiresAt = f.expiresAt /\ e.arbiter = f.arbiter
    /\ e.arbiters = f.arbiters /\ e.threshold = f.threshold

Lifecycle ==
    [][\A c \in DOMAIN escrows :
          \/ c \notin DOMAIN escrows' /\ escrows[c].status \in Terminal
          \/ /\ c \in DOMAIN escrows'
             /\ SameTerms(escrows[c], escrows'[c])
             /\ \/ escrows[c].status = escrows'[c].status
                \/ <<escrows[c].status, escrows'[c].status>> \in Moves]_vars

(* INV-06 and the INV-1/INV-2 of escrow.rs: without a dispute an escrow is    *)
(* paid out only before its expiry and only when fully paid, and is refunded  *)
(* only at or after its expiry.                                               *)
TimeLocked ==
    [][\A c \in DOMAIN escrows \cap DOMAIN escrows' :
          LET e == escrows[c]
          IN  e.status = "Pending" =>
                 /\ escrows'[c].status = "Spent" =>
                       (e.expiresAt = 0 \/ now < e.expiresAt) /\ e.amountDue <= e.amountPaid
                 /\ escrows'[c].status = "Refunded" => e.expiresAt \in 1..now]_vars

(* INV-01 one step at a time: the contract's balance of a token only moves    *)
(* together with what one single escrow of that token is owed, and by exactly *)
(* as much; no other escrow is touched. The one exception is a disputed       *)
(* escrow resolved in favour of the contract itself: it is spent and nobody   *)
(* is paid. With the empty initial state this is the induction behind         *)
(* Solvent, for any number of escrows.                                        *)
Owed(t, c) ==
    IF c \in OpenEscrows(t) THEN escrows[c].amountPaid ELSE 0

(* The money of c stays where it is and c is owed it no more. *)
KeptByContract(c) ==
    /\ balance' = balance
    /\ HasStatus(c, "Disputed") /\ HasStatus(c, "Spent")'

OneEscrowPays ==
    [][\A t \in Token :
          \/ /\ balance'[t][Contract] = balance[t][Contract]
             /\ \A d \in Commitments : Owed(t, d)' = Owed(t, d)
          \/ \E c \in Commitments :
                /\ \/ balance'[t][Contract] - balance[t][Contract] = Owed(t, c)' - Owed(t, c)
                   \/ KeptByContract(c)
                /\ \A d \in Commitments \ {c} : Owed(t, d)' = Owed(t, d)]_vars

(* A deadline is a promise: every pending escrow with a timeout is settled,   *)
(* refunded or taken into a dispute. The guard of compute_expires_at against  *)
(* a saturated expiry is what makes the deadline reachable.                   *)
DeadlineReleases ==
    \A c \in Commitments :
        (HasStatus(c, "Pending") /\ escrows[c].expiresAt # 0) ~> ~HasStatus(c, "Pending")
=============================================================================
