---------------------------- MODULE EscrowProofs ----------------------------
(***************************************************************************)
(* Proofs about Escrow, its client and its refinement of EscrowVault, for    *)
(* every set of accounts, tokens and salts, every bound and every clock.     *)
(***************************************************************************)
EXTENDS EscrowClient, EscrowRefinement, SumProofs, TLAPS

-----------------------------------------------------------------------------
(* Payouts under the configuration nobody can change: no fee is taken, and    *)
(* the whole amount reaches the recipient.                                    *)
LEMMA DefaultPayout ==
    ASSUME NEW amount \in Nat, NEW token, NEW hasArbiter \in BOOLEAN, NEW t \in Nat
    PROVE  FeeBreakdown(NoFees, t, token, amount, hasArbiter)
             = [net |-> amount, total |-> 0, arbiter |-> 0, platform |-> 0, collector |-> 0]
  <1>1. CalculateFeeForToken(NoFees, t, token, amount) = 0
    BY DEF CalculateFeeForToken, CalculateFee, QuoteFresh, NoFees, BpsDenominator
  <1>2. RoutedSplit(NoFees, token, 0, hasArbiter) = Split(0, 0, 0)
    BY DEF RoutedSplit, NominalSplit, NoFees, Split
  <1>. QED BY <1>1, <1>2 DEF FeeBreakdown, Split

(* A payout of the contract is then an ordinary transfer. *)
LEMMA PayoutIsTransfer ==
    ASSUME TypeOK, NEW token \in Token, NEW recipient \in Account, NEW amount \in Nat,
           NEW arbiter \in Arbiter, RoutePayout(token, recipient, amount, arbiter)
    PROVE  Transfer(token, Contract, recipient, amount)
  <1> DEFINE b == FeeBreakdown(config.fees, now, token, amount, arbiter # NoAddress)
  <1>1. config.fees = NoFees /\ now \in Nat
    BY DEF TypeOK, DefaultConfig
  <1>2. b = [net |-> amount, total |-> 0, arbiter |-> 0, platform |-> 0, collector |-> 0]
    BY <1>1, DefaultPayout
  <1>3. ActiveCollector(NoFees) = NoAddress
    BY DEF ActiveCollector, NoFees
  <1>4. PaidOut(NoFees, b) = amount
    BY <1>2, <1>3 DEF PaidOut, Positive
  <1>5. \A a \in Account : PaidTo(a, NoFees, b, recipient, arbiter)
                             = IF a = recipient THEN amount ELSE 0
    <2>1. NoAddress \notin Account
      BY EscrowAssumption DEF Account
    <2>. QED BY <1>2, <1>3, <2>1 DEF PaidTo, Positive, NoFees
  <1>6. balance[token][Contract] >= amount
    BY <1>1, <1>4 DEF RoutePayout
  <1>7. [a \in Account |-> balance[token][a] + PaidTo(a, NoFees, b, recipient, arbiter)
                             - (IF a = Contract THEN amount ELSE 0)]
          = [a \in Account |-> balance[token][a] + (IF a = recipient THEN amount ELSE 0)
                                 - (IF a = Contract THEN amount ELSE 0)]
    BY <1>5
  <1>. HIDE DEF b
  <1>8. balance' = [balance EXCEPT ![token] =
                       [a \in Account |-> balance[token][a]
                                            + PaidTo(a, NoFees, b, recipient, arbiter)
                                            - (IF a = Contract THEN amount ELSE 0)]]
    BY <1>1, <1>4 DEF RoutePayout, b
  <1>. QED BY <1>6, <1>7, <1>8 DEF Transfer

(* What a transfer between two accounts does to every balance. *)
LEMMA TransferFacts ==
    ASSUME balance \in [Token -> [Account -> Nat]],
           NEW token \in Token, NEW from \in Account, NEW to \in Account,
           NEW amount \in Nat, Transfer(token, from, to, amount)
    PROVE  /\ balance' \in [Token -> [Account -> Nat]]
           /\ balance[token][from] >= amount
           /\ from # to => /\ balance'[token][from] = balance[token][from] - amount
                           /\ balance'[token][to] = balance[token][to] + amount
           /\ \A t \in Token, a \in Account :
                 (t # token \/ a \notin {from, to}) => balance'[t][a] = balance[t][a]
  <1> DEFINE row == [a \in Account |-> balance[token][a] + (IF a = to THEN amount ELSE 0)
                                                       - (IF a = from THEN amount ELSE 0)]
  <1>1. balance[token] \in [Account -> Nat] /\ balance[token][from] >= amount
    BY DEF Transfer
  <1>2. /\ row \in [Account -> Nat]
        /\ from # to => /\ row[from] = balance[token][from] - amount
                        /\ row[to] = balance[token][to] + amount
        /\ \A a \in Account \ {from, to} : row[a] = balance[token][a]
    <2>1. \A a \in Account : /\ row[a] \in Nat
                             /\ from # to => /\ a = from => row[a] = balance[token][a] - amount
                                             /\ a = to => row[a] = balance[token][a] + amount
                             /\ a \notin {from, to} => row[a] = balance[token][a]
      BY <1>1
    <2>. QED BY <2>1
  <1>3. balance' = [balance EXCEPT ![token] = row]
    BY DEF Transfer
  <1>. HIDE DEF row
  <1>. QED BY <1>1, <1>2, <1>3

(* Nothing changes when an account pays itself. *)
LEMMA SelfTransfer ==
    ASSUME balance \in [Token -> [Account -> Nat]],
           NEW token \in Token, NEW a \in Account, NEW amount \in Nat,
           Transfer(token, a, a, amount)
    PROVE  balance' = balance
  <1> DEFINE row == [b \in Account |-> balance[token][b] + (IF b = a THEN amount ELSE 0)
                                                       - (IF b = a THEN amount ELSE 0)]
  <1>1. row = balance[token]
    <2>1. balance[token] \in [Account -> Nat]
      OBVIOUS
    <2>2. \A b \in Account : row[b] = balance[token][b]
      BY <2>1
    <2>. QED BY <2>1, <2>2
  <1>2. balance' = [balance EXCEPT ![token] = row]
    BY DEF Transfer
  <1>. HIDE DEF row
  <1>. QED BY <1>1, <1>2

(* Whoever a resolution names has an account with the token contract. *)
LEMMA RecipientIsAccount == Recipients \subseteq Account
  BY EscrowAssumption DEF Account

-----------------------------------------------------------------------------
(* Type correctness. *)

(* A new record is well typed, whichever deposit makes it. *)
LEMMA EntryType ==
    ASSUME now \in Nat, NEW token \in Token, NEW due \in Amount, NEW paid \in Nat,
           NEW owner \in Address, NEW timeout \in Timeouts, NEW arbiter \in Arbiter,
           NEW arbiters \in Seq(Address), NEW threshold \in Nat
    PROVE  Entry(token, due, paid, owner, timeout, arbiter, arbiters, threshold) \in EscrowEntry
  <1>1. ComputeExpiresAt(timeout) \in Nat
    <2>1. timeout \in Nat
      BY EscrowAssumption
    <2>2. SaturatingAdd(now, timeout) \in Nat
      BY <2>1, EscrowAssumption DEF SaturatingAdd
    <2>. QED BY <2>2 DEF ComputeExpiresAt
  <1>. QED BY <1>1 DEF Entry, EscrowEntry, Open

(* A new status keeps the store typed. *)
LEMMA SetStatusType ==
    ASSUME TypeOK, NEW c \in DOMAIN escrows, NEW status \in Open \cup Terminal,
           SetStatus(c, status)
    PROVE  /\ DOMAIN escrows' = DOMAIN escrows
           /\ escrows' \in [DOMAIN escrows -> EscrowEntry]
  <1>1. escrows \in [DOMAIN escrows -> EscrowEntry]
    BY DEF TypeOK
  <1>2. [escrows[c] EXCEPT !.status = status] \in EscrowEntry
    BY <1>1 DEF EscrowEntry
  <1>3. escrows' = [escrows EXCEPT ![c] = [escrows[c] EXCEPT !.status = status]]
    BY DEF SetStatus
  <1>. QED BY <1>1, <1>2, <1>3

(* The fields of a stored record, one by one. *)
LEMMA EscrowFields ==
    ASSUME TypeOK, NEW c \in DOMAIN escrows
    PROVE  /\ c \in Commitments /\ escrows[c] \in EscrowEntry
           /\ escrows[c].token \in Token /\ escrows[c].amountDue \in Amount
           /\ escrows[c].amountPaid \in Nat /\ escrows[c].owner \in Address
           /\ escrows[c].status \in Open \cup Terminal /\ escrows[c].expiresAt \in Nat
           /\ escrows[c].arbiter \in Arbiter /\ escrows[c].arbiters \in Seq(Address)
           /\ escrows[c].threshold \in Nat
  BY DEF TypeOK, EscrowEntry

(* The common part of the three indexed deposits keeps every store typed. *)
LEMMA CreateIndexedType ==
    ASSUME TypeOK, NEW id \in EscrowIds, NEW entry \in EscrowEntry, CreateIndexed(id, entry)
    PROVE  TypeOK'
  <1> DEFINE c == AmountCommitment(id.owner, id.amount, id.salt)
  <1>1. c \in Commitments
    BY DEF AmountCommitment, Commitments, Schemes, EscrowIds
  <1>2. /\ DOMAIN escrows' \subseteq Commitments
        /\ escrows' \in [DOMAIN escrows' -> EscrowEntry]
    <2>1. /\ DOMAIN escrows \subseteq Commitments
          /\ escrows \in [DOMAIN escrows -> EscrowEntry]
          /\ escrows' = Put(escrows, c, entry)
      BY DEF TypeOK, CreateIndexed
    <2>. QED BY <1>1, <2>1 DEF Put
  <1>3. /\ DOMAIN escrowIdMap' \subseteq EscrowIds
        /\ escrowIdMap' \in [DOMAIN escrowIdMap' -> Commitments]
    <2>1. /\ DOMAIN escrowIdMap \subseteq EscrowIds
          /\ escrowIdMap \in [DOMAIN escrowIdMap -> Commitments]
          /\ escrowIdMap' = Put(escrowIdMap, id, c)
      BY DEF TypeOK, CreateIndexed
    <2>. QED BY <1>1, <2>1 DEF Put
  <1>4. /\ DOMAIN commitmentEscrowId' \subseteq Commitments
        /\ commitmentEscrowId' \in [DOMAIN commitmentEscrowId' -> EscrowIds]
    <2>1. /\ DOMAIN commitmentEscrowId \subseteq Commitments
          /\ commitmentEscrowId \in [DOMAIN commitmentEscrowId -> EscrowIds]
          /\ commitmentEscrowId' = Put(commitmentEscrowId, c, id)
      BY DEF TypeOK, CreateIndexed
    <2>. QED BY <1>1, <2>1 DEF Put
  <1>5. balance' \in [Token -> [Account -> Nat]]
    <2>1. /\ Transfer(id.token, id.owner, Contract, entry.amountPaid)
          /\ id.token \in Token /\ id.owner \in Account /\ Contract \in Account
          /\ id.owner # Contract /\ entry.amountPaid \in Nat
      BY EscrowAssumption DEF CreateIndexed, EscrowIds, EscrowEntry, Account
    <2>. QED BY <2>1, TransferFacts DEF TypeOK
  <1>. QED BY <1>2, <1>3, <1>4, <1>5 DEF CreateIndexed, TypeOK, disputeVars

(* The deposits: three of them are instances of CreateIndexed, with an entry  *)
(* that has the terms its id was derived from; the fourth writes no index.    *)
Fresh(entry) ==
    /\ entry.status = "Pending" /\ entry.amountPaid \in Amount
    /\ entry.expiresAt \in 0..(U64Max - 1)
    /\ entry.expiresAt = 0 \/ entry.expiresAt >= now

Fits(id, entry) ==
    /\ Fresh(entry)
    /\ entry.token = id.token /\ entry.owner = id.owner /\ entry.amountDue = id.amount
    /\ entry.arbiter = id.arbiter /\ entry.status = "Pending"
    /\ entry.expiresAt = 0 <=> id.timeout = 0

CreateBare(c, entry) ==
    /\ ~Exists(c) /\ entry.status = "Pending" /\ Fresh(entry)
    /\ escrows' = Put(escrows, c, entry)
    /\ Transfer(entry.token, entry.owner, Contract, entry.amountPaid)
    /\ UNCHANGED <<now, indexVars, disputeVars, config>>

(* The deadline of a new record is none, or not before now, and in the range   *)
(* of the clock: that is what the guard against a saturated sum is for.       *)
LEMMA EntryFresh ==
    ASSUME TypeOK, NEW token, NEW due, NEW paid \in Amount, NEW owner,
           NEW timeout \in Timeouts, TimeoutValid(timeout), NEW arbiter, NEW arbiters,
           NEW threshold
    PROVE  LET e == Entry(token, due, paid, owner, timeout, arbiter, arbiters, threshold)
           IN  Fresh(e) /\ (e.expiresAt = 0 <=> timeout = 0)
  <1>1. timeout \in Nat /\ now \in Nat /\ now < U64Max /\ U64Max \in Nat
    BY EscrowAssumption DEF TypeOK
  <1>2. /\ ComputeExpiresAt(timeout) \in 0..(U64Max - 1)
        /\ ComputeExpiresAt(timeout) = 0 \/ ComputeExpiresAt(timeout) >= now
        /\ ComputeExpiresAt(timeout) = 0 <=> timeout = 0
    BY <1>1 DEF TimeoutValid, ComputeExpiresAt, SaturatingAdd
  <1>. QED BY <1>2 DEF Entry, Fresh

(* Every deposit is one of the two: with index records or without. *)
LEMMA DepositsKinds ==
    ASSUME TypeOK, Deposits
    PROVE  \/ \E id \in EscrowIds, entry \in EscrowEntry :
                CreateIndexed(id, entry) /\ Fits(id, entry)
           \/ \E c \in Commitments, entry \in EscrowEntry : CreateBare(c, entry)
  <1> DEFINE Goal == \/ \E id \in EscrowIds, entry \in EscrowEntry :
                            CreateIndexed(id, entry) /\ Fits(id, entry)
                     \/ \E c \in Commitments, entry \in EscrowEntry : CreateBare(c, entry)
  <1>1. PICK t \in Token, amount \in Amount, who \in Address, timeout \in Timeouts :
            \/ \E s \in Salt, arb \in Arbiter : Deposit(t, amount, who, s, timeout, arb)
            \/ \E s \in Salt, council \in Councils : \E threshold \in 0..(Len(council) + 1) :
                  DepositWithArbiters(t, amount, who, s, timeout, council, threshold)
            \/ \E s \in Salt, arb \in Arbiter, initial \in Amount :
                  DepositPartial(t, amount, initial, who, s, timeout, arb)
            \/ \E c \in Commitments, arb \in Arbiter :
                  DepositWithCommitment(who, t, amount, c, timeout, arb)
    BY DEF Deposits
  <1>2. now \in Nat /\ Amount \subseteq Nat /\ << >> \in Seq(Address) /\ NoAddress \in Arbiter
    BY DEF TypeOK, Amount, Arbiter
  <1>3. ASSUME NEW s \in Salt, NEW arb \in Arbiter, Deposit(t, amount, who, s, timeout, arb)
        PROVE  Goal
    <2> DEFINE id    == EscrowId(t, amount, 0, who, s, timeout, arb)
               entry == Entry(t, amount, amount, who, timeout, arb, << >>, 0)
    <2>1. id \in EscrowIds /\ Fits(id, entry)
      BY <1>3, EntryFresh DEF EscrowId, EscrowIds, Entry, Fits, Deposit
    <2>2. entry \in EscrowEntry
      BY <1>2, EntryType
    <2>3. CreateIndexed(id, entry)
      BY <1>3 DEF Deposit
    <2>. HIDE DEF id, entry
    <2>. QED BY <2>1, <2>2, <2>3
  <1>4. ASSUME NEW s \in Salt, NEW council \in Councils,
               NEW threshold \in 0..(Len(council) + 1),
               DepositWithArbiters(t, amount, who, s, timeout, council, threshold)
        PROVE  Goal
    <2> DEFINE id    == EscrowId(t, amount, 0, who, s, timeout, NoAddress)
               entry == Entry(t, amount, amount, who, timeout, NoAddress, council, threshold)
    <2>1. id \in EscrowIds /\ Fits(id, entry)
      BY <1>2, <1>4, EntryFresh DEF EscrowId, EscrowIds, Entry, Fits, DepositWithArbiters
    <2>2. entry \in EscrowEntry
      <3>1. council \in Seq(Address) /\ threshold \in Nat
        BY EscrowAssumption
      <3>. QED BY <1>2, <3>1, EntryType
    <2>3. CreateIndexed(id, entry)
      BY <1>4 DEF DepositWithArbiters
    <2>. HIDE DEF id, entry
    <2>. QED BY <2>1, <2>2, <2>3
  <1>5. ASSUME NEW s \in Salt, NEW arb \in Arbiter, NEW initial \in Amount,
               DepositPartial(t, amount, initial, who, s, timeout, arb)
        PROVE  Goal
    <2> DEFINE id    == EscrowId(t, amount, initial, who, s, timeout, arb)
               entry == Entry(t, amount, initial, who, timeout, arb, << >>, 0)
    <2>1. id \in EscrowIds /\ Fits(id, entry)
      BY <1>5, EntryFresh DEF EscrowId, EscrowIds, Entry, Fits, DepositPartial
    <2>2. entry \in EscrowEntry
      BY <1>2, EntryType
    <2>3. CreateIndexed(id, entry)
      BY <1>5 DEF DepositPartial
    <2>. HIDE DEF id, entry
    <2>. QED BY <2>1, <2>2, <2>3
  <1>6. ASSUME NEW c \in Commitments, NEW arb \in Arbiter,
               DepositWithCommitment(who, t, amount, c, timeout, arb)
        PROVE  Goal
    <2> DEFINE entry == Entry(t, amount, amount, who, timeout, arb, << >>, 0)
    <2>1. entry \in EscrowEntry
      BY <1>2, EntryType
    <2>2. CreateBare(c, entry)
      BY <1>6, EntryFresh DEF DepositWithCommitment, CreateBare, Entry
    <2>. HIDE DEF entry
    <2>. QED BY <2>1, <2>2
  <1>. QED BY <1>1, <1>3, <1>4, <1>5, <1>6

(* Deposits keep the type invariant. *)
LEMMA DepositsType ==
    ASSUME TypeOK, Deposits
    PROVE  TypeOK'
  <1>1. ASSUME NEW c \in Commitments, NEW entry \in EscrowEntry, CreateBare(c, entry)
        PROVE  TypeOK'
    <2>1. /\ DOMAIN escrows' \subseteq Commitments
          /\ escrows' \in [DOMAIN escrows' -> EscrowEntry]
      <3>1. /\ DOMAIN escrows \subseteq Commitments
            /\ escrows \in [DOMAIN escrows -> EscrowEntry]
            /\ escrows' = Put(escrows, c, entry)
        BY <1>1 DEF TypeOK, CreateBare
      <3>. QED BY <3>1 DEF Put
    <2>2. balance' \in [Token -> [Account -> Nat]]
      <3>1. /\ Transfer(entry.token, entry.owner, Contract, entry.amountPaid)
            /\ entry.token \in Token /\ entry.amountPaid \in Nat
            /\ entry.owner \in Account /\ Contract \in Account /\ entry.owner # Contract
        BY <1>1, EscrowAssumption DEF CreateBare, EscrowEntry, Account
      <3>. QED BY <3>1, TransferFacts DEF TypeOK
    <2>. QED BY <1>1, <2>1, <2>2 DEF CreateBare, TypeOK, indexVars, disputeVars
  <1>. QED BY <1>1, DepositsKinds, CreateIndexedType

-----------------------------------------------------------------------------
(* Every settlement, by whichever entry point, is the same state change: one  *)
(* escrow turns terminal and all it holds goes to one account.                *)
PaysOut(c, to, status) ==
    /\ SetStatus(c, status)
    /\ Transfer(escrows[c].token, Contract, to, escrows[c].amountPaid)

(* A withdrawal is such a payout, to the account named in the commitment. *)
LEMMA WithdrawPaysOut ==
    ASSUME TypeOK, NEW amount, NEW to \in Address, NEW s, Withdraw(amount, to, s)
    PROVE  /\ HasStatus(OpenedBy(to, amount, s), "Pending")
           /\ PaysOut(OpenedBy(to, amount, s), to, "Spent")
  <1> DEFINE c == OpenedBy(to, amount, s)
  <1>1. /\ HasStatus(c, "Pending") /\ SetStatus(c, "Spent")
        /\ RoutePayout(escrows[c].token, to, escrows[c].amountPaid, NoAddress)
    BY DEF Withdraw
  <1>2. escrows[c].token \in Token /\ escrows[c].amountPaid \in Nat /\ NoAddress \in Arbiter
    BY <1>1, EscrowFields DEF HasStatus, Exists, Arbiter
  <1>. HIDE DEF c
  <1>3. Transfer(escrows[c].token, Contract, to, escrows[c].amountPaid)
    BY <1>1, <1>2, PayoutIsTransfer DEF Account
  <1>. QED BY <1>1, <1>3 DEF PaysOut, c

(* So is a resolution, to the owner or to the recipient it names. *)
LEMMA SettlePaysOut ==
    ASSUME TypeOK, NEW c \in DOMAIN escrows, NEW forOwner,
           NEW recipient \in Account, NEW arbiter \in Arbiter,
           Settle(c, forOwner, recipient, arbiter)
    PROVE  \E to \in {recipient, escrows[c].owner}, status \in Terminal :
              PaysOut(c, to, status) /\ (to = Contract => status = "Spent")
  <1>0. escrows[c].owner # Contract
    BY EscrowFields, EscrowAssumption
  <1>1. escrows[c].token \in Token /\ escrows[c].amountPaid \in Nat /\ escrows[c].owner \in Address
    BY EscrowFields DEF Account
  <1>2. CASE forOwner
    <2>1. PaysOut(c, escrows[c].owner, "Refunded")
      BY <1>2 DEF Settle, PaysOut
    <2>. QED BY <1>0, <1>1, <2>1 DEF Terminal
  <1>3. CASE ~forOwner
    <2>1. SetStatus(c, "Spent") /\ RoutePayout(escrows[c].token, recipient, escrows[c].amountPaid, arbiter)
      BY <1>3 DEF Settle
    <2>2. Transfer(escrows[c].token, Contract, recipient, escrows[c].amountPaid)
      BY <1>1, <2>1, PayoutIsTransfer
    <2>3. PaysOut(c, recipient, "Spent")
      BY <2>1, <2>2 DEF PaysOut
    <2>. QED BY <2>3 DEF Terminal
  <1>. QED BY <1>2, <1>3

(* A payout keeps the records and the balances typed. *)
LEMMA PaysOutType ==
    ASSUME TypeOK, NEW c \in DOMAIN escrows, NEW to \in Account, NEW status \in Terminal,
           PaysOut(c, to, status)
    PROVE  /\ DOMAIN escrows' \subseteq Commitments
           /\ escrows' \in [DOMAIN escrows' -> EscrowEntry]
           /\ balance' \in [Token -> [Account -> Nat]]
  <1>1. /\ DOMAIN escrows' = DOMAIN escrows
        /\ escrows' \in [DOMAIN escrows -> EscrowEntry]
    BY SetStatusType DEF PaysOut, Terminal
  <1>2. /\ escrows[c].token \in Token /\ escrows[c].amountPaid \in Nat
        /\ Contract \in Account
        /\ Transfer(escrows[c].token, Contract, to, escrows[c].amountPaid)
    BY EscrowFields DEF Account, PaysOut
  <1>3. balance' \in [Token -> [Account -> Nat]]
    BY <1>2, TransferFacts DEF TypeOK
  <1>. QED BY <1>1, <1>3 DEF TypeOK

(* Clearing the records of a dispute keeps their stores typed. *)
LEMMA ClearDisputeType ==
    ASSUME TypeOK, NEW c, ClearDisputeState(c)
    PROVE  /\ DOMAIN disputeVotes' \subseteq Commitments \X Address
           /\ disputeVotes' \in [DOMAIN disputeVotes' -> BOOLEAN]
           /\ DOMAIN disputeExpiry' \subseteq Commitments
           /\ disputeExpiry' \in [DOMAIN disputeExpiry' ->
                      [expiresAt : 0..U64Max, action : {"RefundOwner", "PayArbiter"}]]
  BY DEF TypeOK, ClearDisputeState, Without, Restrict

(* Settlements keep the type invariant. *)
LEMMA SettlementsType ==
    ASSUME TypeOK, Settlements
    PROVE  TypeOK'
  <1>1. ASSUME NEW amount \in Amount, NEW to \in Address, NEW s \in Salt,
               Withdraw(amount, to, s)
        PROVE  TypeOK'
    <2> DEFINE c == OpenedBy(to, amount, s)
    <2>1. c \in DOMAIN escrows /\ PaysOut(c, to, "Spent") /\ "Spent" \in Terminal
      BY <1>1, WithdrawPaysOut DEF HasStatus, Exists, Terminal
    <2>. HIDE DEF c
    <2>2. /\ DOMAIN escrows' \subseteq Commitments
          /\ escrows' \in [DOMAIN escrows' -> EscrowEntry]
          /\ balance' \in [Token -> [Account -> Nat]]
      BY <2>1, PaysOutType DEF Account
    <2>. QED BY <1>1, <2>2 DEF Withdraw, TypeOK, indexVars, disputeVars
  <1>2. ASSUME NEW c \in DOMAIN escrows, CleanupEscrow(c)
        PROVE  TypeOK'
    <2>1. /\ DOMAIN escrows' \subseteq Commitments
          /\ escrows' \in [DOMAIN escrows' -> EscrowEntry]
      BY <1>2 DEF CleanupEscrow, TypeOK, Without, Restrict
    <2>2. /\ DOMAIN escrowIdMap' \subseteq EscrowIds
          /\ escrowIdMap' \in [DOMAIN escrowIdMap' -> Commitments]
          /\ DOMAIN commitmentEscrowId' \subseteq Commitments
          /\ commitmentEscrowId' \in [DOMAIN commitmentEscrowId' -> EscrowIds]
      BY <1>2 DEF CleanupEscrow, TypeOK, Without, Restrict
    <2>3. /\ DOMAIN disputeVotes' \subseteq Commitments \X Address
          /\ disputeVotes' \in [DOMAIN disputeVotes' -> BOOLEAN]
          /\ DOMAIN disputeExpiry' \subseteq Commitments
          /\ disputeExpiry' \in [DOMAIN disputeExpiry' ->
                     [expiresAt : 0..U64Max, action : {"RefundOwner", "PayArbiter"}]]
      BY <1>2 DEF CleanupEscrow, TypeOK, Without, Restrict
    <2>. QED BY <1>2, <2>1, <2>2, <2>3 DEF CleanupEscrow, TypeOK
  <1>3. ASSUME NEW c \in DOMAIN escrows, NEW who \in Address, NEW amount \in Amount,
               PartialPayment(c, who, amount)
        PROVE  TypeOK'
    <2>1. /\ escrows[c].token \in Token /\ amount \in Nat
          /\ who \in Account /\ Contract \in Account /\ who # Contract
          /\ Transfer(escrows[c].token, who, Contract, amount)
      BY <1>3, EscrowAssumption, EscrowFields DEF PartialPayment, Account, Amount
    <2>2. balance' \in [Token -> [Account -> Nat]]
      BY <2>1, TransferFacts DEF TypeOK
    <2>3. escrows' = [escrows EXCEPT ![c] = [escrows[c] EXCEPT !.amountPaid = @ + amount]]
      BY <1>3 DEF PartialPayment
    <2>4. [escrows[c] EXCEPT !.amountPaid = @ + amount] \in EscrowEntry
      <3>1. escrows[c] \in EscrowEntry /\ escrows[c].amountPaid + amount \in Nat
        BY <2>1, EscrowFields
      <3>. QED BY <3>1 DEF EscrowEntry
    <2>5. /\ DOMAIN escrows' \subseteq Commitments
          /\ escrows' \in [DOMAIN escrows' -> EscrowEntry]
      BY <2>3, <2>4 DEF TypeOK
    <2>. QED BY <1>3, <2>2, <2>5 DEF PartialPayment, TypeOK, indexVars, disputeVars
  <1>4. ASSUME NEW c \in DOMAIN escrows, NEW who \in Address, Refund(c, who)
        PROVE  TypeOK'
    <2>1. PaysOut(c, who, "Refunded") /\ "Refunded" \in Terminal
      BY <1>4 DEF Refund, PaysOut, Terminal
    <2>2. /\ DOMAIN escrows' \subseteq Commitments
          /\ escrows' \in [DOMAIN escrows' -> EscrowEntry]
          /\ balance' \in [Token -> [Account -> Nat]]
      BY <2>1, PaysOutType DEF Account
    <2>. QED BY <1>4, <2>2 DEF Refund, TypeOK, indexVars, disputeVars
  <1>. QED BY <1>1, <1>2, <1>3, <1>4 DEF Settlements

(* Both resolutions, told apart only by who decides. *)
LEMMA ResolutionType ==
    ASSUME TypeOK, NEW c \in DOMAIN escrows, NEW forOwner,
           NEW recipient \in Account, NEW arbiter \in Arbiter,
           Settle(c, forOwner, recipient, arbiter), ClearDisputeState(c),
           UNCHANGED <<now, indexVars, config>>
    PROVE  TypeOK'
  <1>1. PICK to \in {recipient, escrows[c].owner}, status \in Terminal : PaysOut(c, to, status)
    BY SettlePaysOut
  <1>3. to \in Account
    BY <1>1, EscrowFields DEF Account
  <1>2. /\ DOMAIN escrows' \subseteq Commitments
        /\ escrows' \in [DOMAIN escrows' -> EscrowEntry]
        /\ balance' \in [Token -> [Account -> Nat]]
    BY <1>1, <1>3, PaysOutType
  <1>. QED BY <1>2, ClearDisputeType DEF TypeOK, indexVars

(* The steps of a dispute keep the type invariant. *)
LEMMA DisputesType ==
    ASSUME TypeOK, Disputes
    PROVE  TypeOK'
  <1>1. PICK c \in DOMAIN escrows :
            \/ Dispute(c)
            \/ \E who \in Address, forOwner \in BOOLEAN, r \in Recipients :
                  ResolveDispute(who, c, forOwner, r)
            \/ \E who \in Address, forOwner \in BOOLEAN : VoteForDispute(who, c, forOwner)
            \/ \E r \in Recipients : ResolveDisputeMultiSig(c, r)
    BY DEF Disputes
  <1>2. CASE Dispute(c)
    <2>1. /\ DOMAIN escrows' \subseteq Commitments
          /\ escrows' \in [DOMAIN escrows' -> EscrowEntry]
      BY <1>2, SetStatusType DEF Dispute, Open, TypeOK
    <2> DEFINE expiry == [expiresAt |-> SaturatingAdd(now, config.disputeTimeout),
                          action |-> config.expiryAction]
    <2>2. expiry \in [expiresAt : 0..U64Max, action : {"RefundOwner", "PayArbiter"}]
      BY EscrowAssumption DEF TypeOK, DefaultConfig, SaturatingAdd
    <2>3. disputeExpiry' = Put(disputeExpiry, c, expiry) /\ c \in Commitments
      BY <1>2, EscrowFields DEF Dispute
    <2>. HIDE DEF expiry
    <2>4. /\ DOMAIN disputeExpiry' \subseteq Commitments
          /\ disputeExpiry' \in [DOMAIN disputeExpiry' ->
                     [expiresAt : 0..U64Max, action : {"RefundOwner", "PayArbiter"}]]
      BY <2>2, <2>3 DEF TypeOK, Put
    <2>. QED BY <1>2, <2>1, <2>4 DEF Dispute, TypeOK, indexVars
  <1>3. ASSUME NEW who \in Address, NEW forOwner \in BOOLEAN, NEW r \in Recipients,
               ResolveDispute(who, c, forOwner, r)
        PROVE  TypeOK'
    <2>1. who \in Arbiter
      BY DEF Arbiter
    <2>. QED BY <1>3, <2>1, RecipientIsAccount, ResolutionType DEF ResolveDispute
  <1>4. ASSUME NEW who \in Address, NEW forOwner \in BOOLEAN, VoteForDispute(who, c, forOwner)
        PROVE  TypeOK'
    <2>1. disputeVotes' = Put(disputeVotes, <<c, who>>, forOwner) /\ c \in Commitments
      BY <1>4, EscrowFields DEF VoteForDispute
    <2>2. /\ DOMAIN disputeVotes' \subseteq Commitments \X Address
          /\ disputeVotes' \in [DOMAIN disputeVotes' -> BOOLEAN]
      BY <2>1 DEF TypeOK, Put
    <2>. QED BY <1>4, <2>2 DEF VoteForDispute, TypeOK, indexVars
  <1>5. ASSUME NEW r \in Recipients, ResolveDisputeMultiSig(c, r)
        PROVE  TypeOK'
    <2> DEFINE verdict == Cardinality(VotesFor(c, TRUE)) >= Cardinality(VotesFor(c, FALSE))
    <2>1. /\ NoAddress \in Arbiter
          /\ Settle(c, verdict, r, NoAddress) /\ ClearDisputeState(c)
          /\ UNCHANGED <<now, indexVars, config>>
      BY <1>5 DEF ResolveDisputeMultiSig, Arbiter
    <2>. HIDE DEF verdict
    <2>. QED BY <2>1, RecipientIsAccount, ResolutionType
  <1>. QED BY <1>1, <1>2, <1>3, <1>4, <1>5

-----------------------------------------------------------------------------
(* The indices and the dispute records. *)

(* Which of the entry points create, drop or keep escrow records. *)
RecordsKept ==
    /\ DOMAIN escrows' = DOMAIN escrows
    /\ \A c \in DOMAIN escrows : SameTerms(escrows[c], escrows'[c])

(* Writing a status back changes nothing else. *)
LEMMA SetStatusKeeps ==
    ASSUME TypeOK, NEW c \in DOMAIN escrows, NEW status, SetStatus(c, status)
    PROVE  /\ RecordsKept
           /\ escrows'[c].status = status
           /\ \A d \in DOMAIN escrows \ {c} : escrows'[d] = escrows[d]
           /\ escrows'[c].amountPaid = escrows[c].amountPaid
  <1>1. escrows \in [DOMAIN escrows -> EscrowEntry]
    BY DEF TypeOK
  <1>2. escrows' = [escrows EXCEPT ![c] = [escrows[c] EXCEPT !.status = status]]
    BY DEF SetStatus
  <1>. QED BY <1>1, <1>2 DEF RecordsKept, SameTerms, EscrowEntry

(* A partial payment changes one amount and nothing else. *)
LEMMA PartialPaymentKeeps ==
    ASSUME TypeOK, NEW c \in DOMAIN escrows, NEW who \in Address, NEW amount \in Amount,
           PartialPayment(c, who, amount)
    PROVE  /\ RecordsKept
           /\ escrows'[c].status = escrows[c].status
           /\ \A d \in DOMAIN escrows \ {c} : escrows'[d] = escrows[d]
           /\ escrows'[c].amountPaid = escrows[c].amountPaid + amount
  <1>1. escrows \in [DOMAIN escrows -> EscrowEntry]
    BY DEF TypeOK
  <1>2. escrows' = [escrows EXCEPT ![c] = [escrows[c] EXCEPT !.amountPaid = @ + amount]]
    BY DEF PartialPayment
  <1>. QED BY <1>1, <1>2 DEF RecordsKept, SameTerms, EscrowEntry

(* What a step of each kind does to the records, for the invariants below. *)
LEMMA SettlementsKinds ==
    ASSUME TypeOK, Settlements
    PROVE  \/ \E c \in DOMAIN escrows : CleanupEscrow(c)
           \/ /\ UNCHANGED <<indexVars, disputeVars>>
              /\ \E c \in DOMAIN escrows :
                    /\ escrows[c].status = "Pending"
                    /\ escrows'[c].status # "Disputed"
                    /\ RecordsKept
                    /\ \A d \in DOMAIN escrows \ {c} : escrows'[d] = escrows[d]
  <1>1. ASSUME NEW amount \in Amount, NEW to \in Address, NEW s \in Salt,
               Withdraw(amount, to, s)
        PROVE  /\ UNCHANGED <<indexVars, disputeVars>>
               /\ \E c \in DOMAIN escrows :
                     /\ escrows[c].status = "Pending"
                     /\ escrows'[c].status # "Disputed"
                     /\ RecordsKept
                     /\ \A d \in DOMAIN escrows \ {c} : escrows'[d] = escrows[d]
    <2> DEFINE c == OpenedBy(to, amount, s)
    <2>1. c \in DOMAIN escrows /\ escrows[c].status = "Pending" /\ SetStatus(c, "Spent")
          /\ UNCHANGED <<indexVars, disputeVars>>
      BY <1>1 DEF Withdraw, HasStatus, Exists
    <2>. HIDE DEF c
    <2>. QED BY <2>1, SetStatusKeeps
  <1>2. ASSUME NEW c \in DOMAIN escrows, NEW who \in Address, NEW amount \in Amount,
               PartialPayment(c, who, amount)
        PROVE  /\ UNCHANGED <<indexVars, disputeVars>>
               /\ escrows[c].status = "Pending" /\ escrows'[c].status # "Disputed"
               /\ RecordsKept
               /\ \A d \in DOMAIN escrows \ {c} : escrows'[d] = escrows[d]
    BY <1>2, PartialPaymentKeeps DEF PartialPayment, HasStatus
  <1>3. ASSUME NEW c \in DOMAIN escrows, NEW who \in Address, Refund(c, who)
        PROVE  /\ UNCHANGED <<indexVars, disputeVars>>
               /\ escrows[c].status = "Pending" /\ escrows'[c].status # "Disputed"
               /\ RecordsKept
               /\ \A d \in DOMAIN escrows \ {c} : escrows'[d] = escrows[d]
    BY <1>3, SetStatusKeeps DEF Refund, HasStatus
  <1>. QED BY <1>1, <1>2, <1>3 DEF Settlements

(* A resolution by an arbiter or a council. *)
Resolves(c) ==
    /\ escrows[c].status = "Disputed" /\ escrows'[c].status \in Terminal
    /\ ClearDisputeState(c)
    /\ RecordsKept
    /\ \A d \in DOMAIN escrows \ {c} : escrows'[d] = escrows[d]

(* A step of a dispute opens it, adds a vote or resolves it; none touches an  *)
(* index.                                                                     *)
LEMMA DisputesKinds ==
    ASSUME TypeOK, Disputes
    PROVE  /\ UNCHANGED indexVars
           /\ \E c \in DOMAIN escrows :
                 \/ Dispute(c)
                 \/ \E who \in Address, forOwner \in BOOLEAN : VoteForDispute(who, c, forOwner)
                 \/ Resolves(c)
  <1>1. ASSUME NEW c \in DOMAIN escrows, NEW forOwner, NEW r \in Recipients,
               NEW arbiter \in Arbiter, HasStatus(c, "Disputed"),
               Settle(c, forOwner, r, arbiter), ClearDisputeState(c)
        PROVE  Resolves(c)
    <2>1. PICK to \in {r, escrows[c].owner}, status \in Terminal : PaysOut(c, to, status)
      BY <1>1, RecipientIsAccount, SettlePaysOut
    <2>. QED BY <1>1, <2>1, SetStatusKeeps DEF PaysOut, Resolves, HasStatus
  <1>2. ASSUME NEW c \in DOMAIN escrows, NEW who \in Address, NEW forOwner \in BOOLEAN,
               NEW r \in Recipients, ResolveDispute(who, c, forOwner, r)
        PROVE  Resolves(c) /\ UNCHANGED indexVars
    BY <1>1, <1>2 DEF ResolveDispute, Arbiter
  <1>3. ASSUME NEW c \in DOMAIN escrows, NEW r \in Recipients, ResolveDisputeMultiSig(c, r)
        PROVE  Resolves(c) /\ UNCHANGED indexVars
    BY <1>1, <1>3 DEF ResolveDisputeMultiSig, Arbiter
  <1>. QED BY <1>2, <1>3 DEF Disputes, Dispute, VoteForDispute

(* Keeping the records and the indices keeps the indices exact. *)
LEMMA KeptIndexExact ==
    ASSUME IndexExact, RecordsKept, UNCHANGED indexVars
    PROVE  IndexExact'
  BY DEF IndexExact, RecordsKept, indexVars, SameTerms, Exists

(* A deposit writes both index records or none, over a free commitment. *)
LEMMA DepositsIndexExact ==
    ASSUME TypeOK, IndexExact, Deposits
    PROVE  IndexExact'
  <1>1. ASSUME NEW c \in Commitments, NEW entry \in EscrowEntry, CreateBare(c, entry)
        PROVE  IndexExact'
    BY <1>1 DEF CreateBare, IndexExact, indexVars, Exists, Put
  <1>2. ASSUME NEW id \in EscrowIds, NEW entry \in EscrowEntry,
               CreateIndexed(id, entry), Fits(id, entry)
        PROVE  IndexExact'
    <2> DEFINE c == AmountCommitment(id.owner, id.amount, id.salt)
    <2>1. /\ id \notin DOMAIN escrowIdMap /\ c \notin DOMAIN escrows
          /\ escrows' = Put(escrows, c, entry)
          /\ escrowIdMap' = Put(escrowIdMap, id, c)
          /\ commitmentEscrowId' = Put(commitmentEscrowId, c, id)
      BY <1>2 DEF CreateIndexed, Exists
    <2>2. c \notin DOMAIN commitmentEscrowId
      BY <2>1 DEF IndexExact, Exists
    <2>. HIDE DEF c
    <2>3. ASSUME NEW i \in DOMAIN escrowIdMap'
          PROVE  LET d == escrowIdMap'[i]
                 IN  /\ d = AmountCommitment(i.owner, i.amount, i.salt)
                     /\ d \in DOMAIN escrows'
                     /\ d \in DOMAIN commitmentEscrowId' /\ commitmentEscrowId'[d] = i
                     /\ escrows'[d].token = i.token /\ escrows'[d].owner = i.owner
                     /\ escrows'[d].amountDue = i.amount /\ escrows'[d].arbiter = i.arbiter
      <3>1. CASE i = id
        BY <1>2, <2>1, <3>1 DEF Put, Fits, c
      <3>2. CASE i \in DOMAIN escrowIdMap
        <4>1. escrowIdMap'[i] = escrowIdMap[i] /\ escrowIdMap[i] \in DOMAIN escrows
          BY <2>1, <3>2 DEF Put, IndexExact, Exists
        <4>2. escrowIdMap[i] # c
          BY <2>1, <4>1
        <4>. QED BY <2>1, <3>2, <4>1, <4>2 DEF Put, IndexExact, Exists
      <3>. QED BY <2>1, <2>3, <3>1, <3>2 DEF Put
    <2>4. ASSUME NEW d \in DOMAIN commitmentEscrowId'
          PROVE  /\ commitmentEscrowId'[d] \in DOMAIN escrowIdMap'
                 /\ escrowIdMap'[commitmentEscrowId'[d]] = d
      <3>1. CASE d = c
        BY <2>1, <3>1 DEF Put
      <3>2. CASE d \in DOMAIN commitmentEscrowId
        BY <2>1, <2>2, <3>2 DEF Put, IndexExact
      <3>. QED BY <2>1, <2>4, <3>1, <3>2 DEF Put
    <2>. QED BY <2>3, <2>4 DEF IndexExact, Exists
  <1>. QED BY <1>1, <1>2, DepositsKinds

(* Cleanup drops both index records of the escrow it drops. *)
LEMMA CleanupIndexExact ==
    ASSUME TypeOK, IndexExact, NEW c \in DOMAIN escrows, CleanupEscrow(c)
    PROVE  IndexExact'
  <1>1. /\ escrows' = Without(escrows, {c})
        /\ escrowIdMap' = Without(escrowIdMap, IdsOf(c))
        /\ commitmentEscrowId' = Without(commitmentEscrowId, {c})
    BY DEF CleanupEscrow
  <1>2. \A i \in DOMAIN escrowIdMap : i \notin IdsOf(c) => escrowIdMap[i] # c
    BY DEF IdsOf, IndexExact
  <1>3. \A d \in DOMAIN commitmentEscrowId : d # c => commitmentEscrowId[d] \notin IdsOf(c)
    BY DEF IdsOf, IndexExact
  <1>4. /\ DOMAIN escrowIdMap' = DOMAIN escrowIdMap \ IdsOf(c)
        /\ \A i \in DOMAIN escrowIdMap' : escrowIdMap'[i] = escrowIdMap[i]
        /\ DOMAIN commitmentEscrowId' = DOMAIN commitmentEscrowId \ {c}
        /\ \A d \in DOMAIN commitmentEscrowId' : commitmentEscrowId'[d] = commitmentEscrowId[d]
        /\ DOMAIN escrows' = DOMAIN escrows \ {c}
        /\ \A d \in DOMAIN escrows' : escrows'[d] = escrows[d]
    BY <1>1 DEF Without, Restrict
  <1>. QED BY <1>2, <1>3, <1>4 DEF IndexExact, Exists

(* Deposits leave the dispute records alone and add a pending escrow. *)
LEMMA DepositsDisputeRecords ==
    ASSUME TypeOK, DisputeRecordsExact, Deposits
    PROVE  DisputeRecordsExact'
  <1>1. PICK c \in Commitments, entry \in EscrowEntry :
            /\ c \notin DOMAIN escrows /\ entry.status = "Pending"
            /\ escrows' = Put(escrows, c, entry)
            /\ UNCHANGED disputeVars
    <2>1. ASSUME NEW id \in EscrowIds, NEW entry \in EscrowEntry,
                 CreateIndexed(id, entry), Fits(id, entry)
          PROVE  \E c \in Commitments : /\ c \notin DOMAIN escrows /\ entry.status = "Pending"
                                        /\ escrows' = Put(escrows, c, entry)
                                        /\ UNCHANGED disputeVars
      <3> DEFINE c == AmountCommitment(id.owner, id.amount, id.salt)
      <3>1. c \in Commitments
        BY DEF AmountCommitment, Commitments, Schemes, EscrowIds
      <3>2. /\ c \notin DOMAIN escrows /\ entry.status = "Pending"
            /\ escrows' = Put(escrows, c, entry) /\ UNCHANGED disputeVars
        BY <2>1 DEF CreateIndexed, Exists, Fits
      <3>. HIDE DEF c
      <3>. QED BY <3>1, <3>2
    <2>. QED BY <2>1, DepositsKinds DEF CreateBare, Exists
  <1>. QED BY <1>1 DEF DisputeRecordsExact, HasStatus, Exists, disputeVars, Put

(* Settlements and cleanup keep the dispute records exact. *)
LEMMA SettlementsDisputeRecords ==
    ASSUME TypeOK, DisputeRecordsExact, Settlements
    PROVE  DisputeRecordsExact'
  <1>1. ASSUME NEW c \in DOMAIN escrows, CleanupEscrow(c)
        PROVE  DisputeRecordsExact'
    <2>1. escrows[c].status # "Disputed" /\ escrows' = Without(escrows, {c})
      BY <1>1 DEF CleanupEscrow, Terminal
    <2>2. c \notin DOMAIN disputeExpiry /\ \A v \in DOMAIN disputeVotes : v[1] # c
      BY <2>1 DEF DisputeRecordsExact, HasStatus
    <2>3. /\ DOMAIN disputeExpiry' = DOMAIN disputeExpiry
          /\ DOMAIN disputeVotes' \subseteq DOMAIN disputeVotes
      BY <1>1, <2>2 DEF CleanupEscrow, Without, Restrict
    <2>4. /\ DOMAIN escrows' = DOMAIN escrows \ {c}
          /\ \A d \in DOMAIN escrows' : escrows'[d] = escrows[d]
      BY <2>1 DEF Without, Restrict
    <2>5. DOMAIN disputeExpiry' = {d \in DOMAIN escrows' : escrows'[d].status = "Disputed"}
      <3>1. DOMAIN disputeExpiry = {d \in DOMAIN escrows : escrows[d].status = "Disputed"}
        BY DEF DisputeRecordsExact
      <3>2. ASSUME NEW d
            PROVE  d \in DOMAIN disputeExpiry' <=>
                       d \in DOMAIN escrows' /\ escrows'[d].status = "Disputed"
        <4>1. CASE d = c
          BY <2>2, <2>3, <2>4, <4>1
        <4>2. CASE d # c
          BY <2>3, <2>4, <3>1, <4>2
        <4>. QED BY <4>1, <4>2
      <3>. QED BY <3>2
    <2>6. ASSUME NEW v \in DOMAIN disputeVotes'
          PROVE  HasStatus(v[1], "Disputed")' /\ v[2] \in Range(escrows'[v[1]].arbiters)
      <3>1. /\ HasStatus(v[1], "Disputed") /\ v[2] \in Range(escrows[v[1]].arbiters)
            /\ v[1] # c
        BY <2>2, <2>3 DEF DisputeRecordsExact
      <3>. QED BY <2>4, <3>1 DEF HasStatus, Exists
    <2>. QED BY <2>5, <2>6 DEF DisputeRecordsExact
  <1>2. ASSUME UNCHANGED disputeVars, NEW c \in DOMAIN escrows,
               escrows[c].status = "Pending", escrows'[c].status # "Disputed", RecordsKept,
               \A d \in DOMAIN escrows \ {c} : escrows'[d] = escrows[d]
        PROVE  DisputeRecordsExact'
    <2>1. /\ disputeVotes' = disputeVotes /\ disputeExpiry' = disputeExpiry
          /\ DOMAIN escrows' = DOMAIN escrows
          /\ \A d \in DOMAIN escrows : /\ escrows'[d].status = "Disputed" <=>
                                              escrows[d].status = "Disputed"
                                       /\ escrows'[d].arbiters = escrows[d].arbiters
      BY <1>2 DEF RecordsKept, SameTerms, disputeVars
    <2>2. DOMAIN disputeExpiry' = {d \in DOMAIN escrows' : escrows'[d].status = "Disputed"}
      BY <2>1 DEF DisputeRecordsExact
    <2>3. ASSUME NEW v \in DOMAIN disputeVotes'
          PROVE  HasStatus(v[1], "Disputed")' /\ v[2] \in Range(escrows'[v[1]].arbiters)
      <3>1. HasStatus(v[1], "Disputed") /\ v[2] \in Range(escrows[v[1]].arbiters)
        BY <2>1 DEF DisputeRecordsExact
      <3>. QED BY <2>1, <3>1 DEF HasStatus, Exists
    <2>. QED BY <2>2, <2>3 DEF DisputeRecordsExact
  <1>. QED BY <1>1, <1>2, SettlementsKinds

(* So does a step of a dispute. *)
LEMMA DisputesDisputeRecords ==
    ASSUME TypeOK, DisputeRecordsExact, Disputes
    PROVE  DisputeRecordsExact'
  <1>1. ASSUME NEW c \in DOMAIN escrows, Dispute(c)
        PROVE  DisputeRecordsExact'
    <2>1. /\ RecordsKept /\ escrows'[c].status = "Disputed"
          /\ \A d \in DOMAIN escrows \ {c} : escrows'[d] = escrows[d]
      BY <1>1, SetStatusKeeps DEF Dispute
    <2>2. DOMAIN disputeExpiry' = DOMAIN disputeExpiry \cup {c} /\ disputeVotes' = disputeVotes
      BY <1>1 DEF Dispute, Put
    <2>3. DOMAIN disputeExpiry' = {d \in DOMAIN escrows' : escrows'[d].status = "Disputed"}
      BY <2>1, <2>2 DEF DisputeRecordsExact, RecordsKept
    <2>4. escrows[c].status = "Pending"
      BY <1>1 DEF Dispute, HasStatus
    <2>5. ASSUME NEW v \in DOMAIN disputeVotes'
          PROVE  HasStatus(v[1], "Disputed")' /\ v[2] \in Range(escrows'[v[1]].arbiters)
      <3>1. HasStatus(v[1], "Disputed") /\ v[2] \in Range(escrows[v[1]].arbiters)
        BY <2>2 DEF DisputeRecordsExact
      <3>. QED BY <2>1, <2>4, <3>1 DEF HasStatus, Exists, RecordsKept
    <2>. QED BY <2>3, <2>5 DEF DisputeRecordsExact
  <1>2. ASSUME NEW c \in DOMAIN escrows, NEW who \in Address, NEW forOwner \in BOOLEAN,
               VoteForDispute(who, c, forOwner)
        PROVE  DisputeRecordsExact'
    <2>1. /\ HasStatus(c, "Disputed") /\ who \in Range(escrows[c].arbiters)
          /\ UNCHANGED <<escrows, disputeExpiry>>
          /\ DOMAIN disputeVotes' = DOMAIN disputeVotes \cup {<<c, who>>}
      BY <1>2 DEF VoteForDispute, TypeOK, DefaultConfig, Put
    <2>. QED BY <2>1 DEF DisputeRecordsExact, HasStatus, Exists
  <1>3. ASSUME NEW c \in DOMAIN escrows, Resolves(c)
        PROVE  DisputeRecordsExact'
    <2>1. /\ escrows'[c].status # "Disputed" /\ RecordsKept
          /\ \A d \in DOMAIN escrows \ {c} : escrows'[d] = escrows[d]
      BY <1>3 DEF Resolves, Terminal
    <2>2. /\ DOMAIN disputeExpiry' = DOMAIN disputeExpiry \ {c}
          /\ DOMAIN disputeVotes' = DOMAIN disputeVotes \ ({c} \X Range(escrows[c].arbiters))
      BY <1>3 DEF Resolves, ClearDisputeState, CouncilVotes, Without, Restrict
    <2>3. ASSUME NEW v \in DOMAIN disputeVotes'
          PROVE  /\ v[1] # c /\ v[1] \in DOMAIN escrows
                 /\ escrows[v[1]].status = "Disputed" /\ v[2] \in Range(escrows[v[1]].arbiters)
      <3>1. v \in Commitments \X Address /\ v \in DOMAIN disputeVotes
        BY <2>2, <2>3 DEF TypeOK
      <3>2. HasStatus(v[1], "Disputed") /\ v[2] \in Range(escrows[v[1]].arbiters)
        BY <3>1 DEF DisputeRecordsExact
      <3>3. v[1] # c
        BY <2>2, <2>3, <3>1, <3>2
      <3>. QED BY <3>2, <3>3 DEF HasStatus, Exists
    <2>4. DOMAIN disputeExpiry' = {d \in DOMAIN escrows' : escrows'[d].status = "Disputed"}
      BY <2>1, <2>2 DEF DisputeRecordsExact, RecordsKept
    <2>. QED BY <2>1, <2>3, <2>4 DEF DisputeRecordsExact, HasStatus, Exists, RecordsKept, SameTerms
  <1>. QED BY <1>1, <1>2, <1>3, DisputesKinds

(* The inductive invariant: each of the three needs the ones before it. *)
IndInv == TypeOK /\ IndexExact /\ DisputeRecordsExact

(* Every step keeps the inductive invariant. *)
LEMMA IndInvInductive == IndInv /\ [Next]_vars => IndInv'
  <1> SUFFICES ASSUME IndInv, [Next]_vars PROVE IndInv'
    OBVIOUS
  <1>1. CASE Deposits
    BY <1>1, DepositsType, DepositsIndexExact, DepositsDisputeRecords DEF IndInv
  <1>2. CASE Settlements
    <2>1. IndexExact'
      BY <1>2, SettlementsKinds, CleanupIndexExact, KeptIndexExact DEF IndInv
    <2>. QED BY <1>2, <2>1, SettlementsType, SettlementsDisputeRecords DEF IndInv
  <1>3. CASE Disputes
    <2>1. RecordsKept /\ UNCHANGED indexVars
      <3>1. ASSUME NEW c \in DOMAIN escrows, NEW who \in Address, NEW forOwner \in BOOLEAN,
                   VoteForDispute(who, c, forOwner)
            PROVE  RecordsKept
        BY <3>1 DEF VoteForDispute, RecordsKept, SameTerms
      <3>2. ASSUME NEW c \in DOMAIN escrows, Dispute(c)
            PROVE  RecordsKept
        BY <3>2, SetStatusKeeps DEF Dispute, IndInv
      <3>. QED BY <1>3, <3>1, <3>2, DisputesKinds DEF IndInv, Resolves
    <2>. QED BY <1>3, <2>1, KeptIndexExact, DisputesType, DisputesDisputeRecords DEF IndInv
  <1>4. CASE Tick
    BY <1>4, EscrowAssumption DEF Tick, IndInv, TypeOK, IndexExact, DisputeRecordsExact, HasStatus, Exists,
                indexVars, disputeVars
  <1>5. CASE UNCHANGED vars
    BY <1>5 DEF vars, IndInv, TypeOK, IndexExact, DisputeRecordsExact, HasStatus, Exists,
                indexVars, disputeVars
  <1>. QED BY <1>1, <1>2, <1>3, <1>4, <1>5 DEF Next

LEMMA IndInvInitially == Init => IndInv
  BY EscrowAssumption DEF Init, IndInv, TypeOK, DefaultConfig, Account, IndexExact, DisputeRecordsExact

(* The inductive invariant holds in every reachable state. *)
LEMMA IndInvAlways == Spec => []IndInv
  BY IndInvInitially, IndInvInductive, PTL DEF Spec

(* The type invariant of the contract's storage and of the token balances. In *)
(* particular no entry point ever overdraws an account: every balance stays a *)
(* natural number.                                                            *)
THEOREM TypeCorrect == Spec => []TypeOK
  BY IndInvAlways, PTL DEF IndInv

(* "Bounded cleanup ensures no orphaned mappings remain": the deduplication    *)
(* map and its reverse index agree with each other and with the escrow        *)
(* records after any sequence of deposits, settlements and cleanups.          *)
THEOREM IndicesStayExact == Spec => []IndexExact
  BY IndInvAlways, PTL DEF IndInv

(* No vote and no expiry record outlives its dispute, whatever is disputed,   *)
(* voted on, resolved, cleaned up and created again.                          *)
THEOREM DisputeRecordsStayExact == Spec => []DisputeRecordsExact
  BY IndInvAlways, PTL DEF IndInv

-----------------------------------------------------------------------------
(* Conservation, step by step. *)

PaysStep ==
    \A t \in Token :
        \/ /\ balance'[t][Contract] = balance[t][Contract]
           /\ \A d \in Commitments : Owed(t, d)' = Owed(t, d)
        \/ \E c \in Commitments :
              /\ \/ balance'[t][Contract] - balance[t][Contract] = Owed(t, c)' - Owed(t, c)
                 \/ KeptByContract(c)
              /\ \A d \in Commitments \ {c} : Owed(t, d)' = Owed(t, d)

(* A step that touches one escrow, and the contract's balance of its token by  *)
(* what this escrow is owed.                                                  *)
LEMMA OneMoves ==
    ASSUME NEW c \in Commitments, NEW token \in Token,
           \A d \in Commitments \ {c} : d \in DOMAIN escrows <=> d \in DOMAIN escrows',
           \A d \in DOMAIN escrows \ {c} : escrows'[d] = escrows[d],
           c \in DOMAIN escrows => escrows[c].token = token,
           c \in DOMAIN escrows' => escrows'[c].token = token,
           \A t \in Token \ {token} : balance'[t][Contract] = balance[t][Contract],
           balance'[token][Contract] - balance[token][Contract]
               = Owed(token, c)' - Owed(token, c)
    PROVE  PaysStep
  <1>1. \A t \in Token, d \in Commitments \ {c} : Owed(t, d)' = Owed(t, d)
    BY DEF Owed, OpenEscrows
  <1>2. \A t \in Token \ {token} : Owed(t, c)' = Owed(t, c)
    BY DEF Owed, OpenEscrows
  <1>. QED BY <1>1, <1>2 DEF PaysStep

(* A step that leaves the contract's balances and all open escrows alone. *)
LEMMA NoneMoves ==
    ASSUME \A t \in Token : balance'[t][Contract] = balance[t][Contract],
           \A t \in Token, d \in Commitments : Owed(t, d)' = Owed(t, d)
    PROVE  PaysStep
  BY DEF PaysStep

(* A deposit: the contract gains what the new escrow is owed. *)
LEMMA CreatePays ==
    ASSUME TypeOK, NEW c \in Commitments, NEW entry \in EscrowEntry, ~Exists(c),
           entry.status = "Pending", escrows' = Put(escrows, c, entry),
           Transfer(entry.token, entry.owner, Contract, entry.amountPaid)
    PROVE  PaysStep
  <1>1. /\ entry.token \in Token /\ entry.amountPaid \in Nat
        /\ entry.owner \in Account /\ Contract \in Account /\ entry.owner # Contract
    BY EscrowAssumption DEF EscrowEntry, Account
  <1>2. /\ balance'[entry.token][Contract] = balance[entry.token][Contract] + entry.amountPaid
        /\ \A t \in Token \ {entry.token} : balance'[t][Contract] = balance[t][Contract]
        /\ balance[entry.token][Contract] \in Nat
    BY <1>1, TransferFacts DEF TypeOK
  <1>3. /\ DOMAIN escrows' = DOMAIN escrows \cup {c} /\ escrows'[c] = entry
        /\ c \notin DOMAIN escrows /\ \A d \in DOMAIN escrows : escrows'[d] = escrows[d]
    BY DEF Put, Exists
  <1>4. Owed(entry.token, c) = 0 /\ Owed(entry.token, c)' = entry.amountPaid
    BY <1>3 DEF Owed, OpenEscrows, Open
  <1>. QED BY <1>1, <1>2, <1>3, <1>4, OneMoves

(* A settlement: the contract loses what the settled escrow was owed. *)
LEMMA PaysOutPays ==
    ASSUME TypeOK, NEW c \in DOMAIN escrows, escrows[c].status \in Open,
           NEW to \in Address, NEW status \in Terminal, PaysOut(c, to, status)
    PROVE  PaysStep
  <1>1. PICK token \in Token : token = escrows[c].token
    BY EscrowFields
  <1>2. /\ escrows[c].amountPaid \in Nat /\ c \in Commitments
        /\ to \in Account /\ Contract \in Account /\ to # Contract
        /\ Transfer(token, Contract, to, escrows[c].amountPaid)
    BY <1>1, EscrowAssumption, EscrowFields DEF Account, PaysOut
  <1>3. /\ balance'[token][Contract] = balance[token][Contract] - escrows[c].amountPaid
        /\ \A t \in Token \ {token} : balance'[t][Contract] = balance[t][Contract]
        /\ balance[token][Contract] \in Nat
    BY <1>2, TransferFacts DEF TypeOK
  <1>4. /\ DOMAIN escrows' = DOMAIN escrows /\ escrows'[c].token = token
        /\ escrows'[c].status \notin Open
        /\ \A d \in DOMAIN escrows \ {c} : escrows'[d] = escrows[d]
    BY <1>1, SetStatusKeeps DEF PaysOut, RecordsKept, SameTerms, Open, Terminal
  <1>5. Owed(token, c) = escrows[c].amountPaid /\ Owed(token, c)' = 0
    BY <1>1, <1>4 DEF Owed, OpenEscrows
  <1>. QED BY <1>1, <1>2, <1>3, <1>4, <1>5, OneMoves

(* A resolution for the contract itself: the escrow is owed nothing any more,  *)
(* and no balance changes.                                                    *)
LEMMA KeptPays ==
    ASSUME TypeOK, NEW c \in DOMAIN escrows, escrows[c].status = "Disputed",
           PaysOut(c, Contract, "Spent")
    PROVE  PaysStep
  <1>1. balance' = balance
    BY SelfTransfer, EscrowFields DEF PaysOut, TypeOK, Account
  <1>2. /\ DOMAIN escrows' = DOMAIN escrows /\ escrows'[c].status = "Spent"
        /\ \A d \in DOMAIN escrows \ {c} : escrows'[d] = escrows[d]
    BY SetStatusKeeps DEF PaysOut, RecordsKept, Terminal
  <1>3. KeptByContract(c)
    BY <1>1, <1>2 DEF KeptByContract, HasStatus, Exists
  <1>4. \A t \in Token, d \in Commitments \ {c} : Owed(t, d)' = Owed(t, d)
    BY <1>2 DEF Owed, OpenEscrows
  <1>. QED BY <1>3, <1>4, EscrowFields DEF PaysStep

(* A partial payment: the contract gains what the escrow is owed more. *)
LEMMA PartialPaymentPays ==
    ASSUME TypeOK, NEW c \in DOMAIN escrows, NEW who \in Address, NEW amount \in Amount,
           PartialPayment(c, who, amount)
    PROVE  PaysStep
  <1>1. PICK token \in Token : token = escrows[c].token
    BY EscrowFields
  <1>2. /\ escrows[c].amountPaid \in Nat /\ c \in Commitments /\ amount \in Nat
        /\ who \in Account /\ Contract \in Account /\ who # Contract
        /\ Transfer(token, who, Contract, amount) /\ escrows[c].status = "Pending"
    BY <1>1, EscrowAssumption, EscrowFields DEF Account, Amount, PartialPayment, HasStatus
  <1>3. /\ balance'[token][Contract] = balance[token][Contract] + amount
        /\ \A t \in Token \ {token} : balance'[t][Contract] = balance[t][Contract]
        /\ balance[token][Contract] \in Nat
    BY <1>2, TransferFacts DEF TypeOK
  <1>4. /\ DOMAIN escrows' = DOMAIN escrows /\ escrows'[c].token = token
        /\ escrows'[c].status = "Pending"
        /\ escrows'[c].amountPaid = escrows[c].amountPaid + amount
        /\ \A d \in DOMAIN escrows \ {c} : escrows'[d] = escrows[d]
    BY <1>1, <1>2, PartialPaymentKeeps DEF RecordsKept, SameTerms
  <1>5. Owed(token, c) = escrows[c].amountPaid /\ Owed(token, c)' = escrows[c].amountPaid + amount
    BY <1>1, <1>2, <1>4 DEF Owed, OpenEscrows, Open
  <1>6. balance'[token][Contract] - balance[token][Contract]
          = Owed(token, c)' - Owed(token, c)
    BY <1>2, <1>3, <1>5
  <1>. QED BY <1>1, <1>2, <1>3, <1>4, <1>6, OneMoves

(* No money moves when a dispute is opened or voted on, when a record is       *)
(* cleaned up and when time passes.                                           *)
LEMMA BookkeepingPays ==
    ASSUME TypeOK, NEW c \in DOMAIN escrows,
           \/ Dispute(c) \/ CleanupEscrow(c)
           \/ \E who \in Address, forOwner \in BOOLEAN : VoteForDispute(who, c, forOwner)
    PROVE  PaysStep
  <1>1. CASE Dispute(c)
    <2>1. /\ balance' = balance /\ DOMAIN escrows' = DOMAIN escrows
          /\ escrows[c].status \in Open /\ escrows'[c].status \in Open
          /\ SameTerms(escrows[c], escrows'[c])
          /\ escrows'[c].amountPaid = escrows[c].amountPaid
          /\ \A d \in DOMAIN escrows \ {c} : escrows'[d] = escrows[d]
      BY <1>1, SetStatusKeeps DEF Dispute, HasStatus, Open, RecordsKept
    <2>2. \A t \in Token, d \in Commitments : Owed(t, d)' = Owed(t, d)
      <3> SUFFICES ASSUME NEW t \in Token, NEW d \in Commitments
                   PROVE  Owed(t, d)' = Owed(t, d)
        OBVIOUS
      <3>1. CASE d = c
        BY <2>1, <3>1 DEF Owed, OpenEscrows, SameTerms
      <3>2. CASE d # c
        BY <2>1, <3>2 DEF Owed, OpenEscrows
      <3>. QED BY <3>1, <3>2
    <2>. QED BY <2>1, <2>2, NoneMoves
  <1>2. CASE CleanupEscrow(c)
    <2>1. /\ balance' = balance /\ DOMAIN escrows' = DOMAIN escrows \ {c}
          /\ escrows[c].status \notin Open
          /\ \A d \in DOMAIN escrows \ {c} : escrows'[d] = escrows[d]
      BY <1>2 DEF CleanupEscrow, Without, Restrict, Open, Terminal
    <2>. QED BY <2>1, NoneMoves DEF Owed, OpenEscrows
  <1>3. CASE \E who \in Address, forOwner \in BOOLEAN : VoteForDispute(who, c, forOwner)
    <2>1. balance' = balance /\ escrows' = escrows
      BY <1>3 DEF VoteForDispute
    <2>. QED BY <2>1, NoneMoves DEF Owed, OpenEscrows
  <1>. QED BY <1>1, <1>2, <1>3

(* Deposits move the pool by what one escrow is owed. *)
LEMMA DepositsPay ==
    ASSUME TypeOK, Deposits
    PROVE  PaysStep
  <1>1. ASSUME NEW id \in EscrowIds, NEW entry \in EscrowEntry,
               CreateIndexed(id, entry), Fits(id, entry)
        PROVE  PaysStep
    <2> DEFINE c == AmountCommitment(id.owner, id.amount, id.salt)
    <2>1. c \in Commitments
      BY DEF AmountCommitment, Commitments, Schemes, EscrowIds
    <2>2. /\ ~Exists(c) /\ entry.status = "Pending" /\ escrows' = Put(escrows, c, entry)
          /\ Transfer(entry.token, entry.owner, Contract, entry.amountPaid)
      BY <1>1 DEF CreateIndexed, Fits
    <2>. HIDE DEF c
    <2>. QED BY <2>1, <2>2, CreatePays
  <1>. QED BY <1>1, DepositsKinds, CreatePays DEF CreateBare

(* So do settlements and partial payments; cleanup moves nothing. *)
LEMMA SettlementsPay ==
    ASSUME TypeOK, Settlements
    PROVE  PaysStep
  <1>1. ASSUME NEW amount \in Amount, NEW to \in Address, NEW s \in Salt,
               Withdraw(amount, to, s)
        PROVE  PaysStep
    <2>1. PICK c \in DOMAIN escrows : escrows[c].status = "Pending" /\ PaysOut(c, to, "Spent")
      BY <1>1, WithdrawPaysOut DEF HasStatus, Exists
    <2>. QED BY <2>1, PaysOutPays DEF Open, Terminal
  <1>2. ASSUME NEW c \in DOMAIN escrows, NEW who \in Address, Refund(c, who)
        PROVE  PaysStep
    <2>1. PaysOut(c, who, "Refunded") /\ escrows[c].status = "Pending"
      BY <1>2 DEF Refund, PaysOut, HasStatus
    <2>. QED BY <2>1, PaysOutPays DEF Open, Terminal
  <1>. QED BY <1>1, <1>2, PartialPaymentPays, BookkeepingPays DEF Settlements

(* So do resolutions, those included that name the contract as the recipient. *)
LEMMA DisputesPay ==
    ASSUME TypeOK, Disputes
    PROVE  PaysStep
  <1>1. ASSUME NEW c \in DOMAIN escrows, NEW forOwner, NEW r \in Recipients,
               NEW arbiter \in Arbiter, HasStatus(c, "Disputed"),
               Settle(c, forOwner, r, arbiter)
        PROVE  PaysStep
    <2>1. PICK to \in {r, escrows[c].owner}, status \in Terminal :
              PaysOut(c, to, status) /\ (to = Contract => status = "Spent")
      BY <1>1, RecipientIsAccount, SettlePaysOut
    <2>2. escrows[c].status = "Disputed"
      BY <1>1 DEF HasStatus
    <2>3. CASE to = Contract
      BY <2>1, <2>2, <2>3, KeptPays
    <2>4. CASE to # Contract
      <3>1. to \in Address
        BY <2>1, <2>4, EscrowAssumption, EscrowFields
      <3>. QED BY <2>1, <2>2, <3>1, PaysOutPays DEF Open
    <2>. QED BY <2>3, <2>4
  <1>2. ASSUME NEW c \in DOMAIN escrows, NEW who \in Address, NEW forOwner \in BOOLEAN,
               NEW r \in Recipients, ResolveDispute(who, c, forOwner, r)
        PROVE  PaysStep
    BY <1>1, <1>2 DEF ResolveDispute, Arbiter
  <1>3. ASSUME NEW c \in DOMAIN escrows, NEW r \in Recipients, ResolveDisputeMultiSig(c, r)
        PROVE  PaysStep
    BY <1>1, <1>3 DEF ResolveDisputeMultiSig, Arbiter
  <1>. QED BY <1>2, <1>3, BookkeepingPays DEF Disputes

(* Every step of the contract moves the pool by what one escrow is owed. *)
LEMMA NextPays ==
    ASSUME TypeOK, [Next]_vars
    PROVE  PaysStep
  <1>1. CASE Tick
    BY <1>1, NoneMoves DEF Tick, Owed, OpenEscrows
  <1>2. CASE UNCHANGED vars
    BY <1>2, NoneMoves DEF vars, Owed, OpenEscrows
  <1>. QED BY <1>1, <1>2, DepositsPay, SettlementsPay, DisputesPay DEF Next

(* Conservation of value, one step at a time, for any number of escrows and   *)
(* tokens and whoever resolutions name: the contract's pooled balance moves   *)
(* only by what one escrow is owed more or less, or, when a disputed escrow is *)
(* awarded to the contract itself, does not move.                             *)
THEOREM OnlyOneEscrowPays == Spec => OneEscrowPays
  <1>1. IndInv /\ [Next]_vars => [PaysStep]_vars
    BY NextPays DEF IndInv
  <1>2. OneEscrowPays <=> [][PaysStep]_vars
    BY DEF OneEscrowPays, PaysStep
  <1>. QED BY <1>1, <1>2, IndInvAlways, PTL DEF Spec

-----------------------------------------------------------------------------
(* Conservation, as a state of the ledger. *)

(* What the escrows on record are owed in a token, one by one. *)
OwedIn(t) == [c \in Commitments |-> Owed(t, c)]

OwedTotal(t) == SumOf(OwedIn(t), DOMAIN escrows)

(* The pool is a sum over all the records of the contract. *)
Pooled == \A t \in Token : balance[t][Contract] >= OwedTotal(t)

(* The sum in Solvent runs over the open escrows of a token only, and in any   *)
(* order; the others are owed nothing.                                        *)
LEMMA PaidIsOwed ==
    ASSUME TypeOK, IsFiniteSet(DOMAIN escrows), NEW t \in Token
    PROVE  MapThenSumSet(LAMBDA c : escrows[c].amountPaid, OpenEscrows(t)) = OwedTotal(t)
  <1> DEFINE open == OpenEscrows(t)
             owed == OwedIn(t)
             paid == [c \in open |-> escrows[c].amountPaid]
             step(s, g) == IF s = {} THEN 0
                           ELSE escrows[CHOOSE x \in s : TRUE].amountPaid
                                  + g[s \ {CHOOSE x \in s : TRUE}]
  <1>1. IsFiniteSet(open) /\ open \subseteq DOMAIN escrows
    BY FS_Subset DEF OpenEscrows
  <1>2. ASSUME NEW g
        PROVE  g = [s \in SUBSET open |-> step(s, g)] <=> Iterates(paid, open, g)
    <2>1. \A s \in SUBSET open :
             step(s, g) = IF s = {} THEN 0 ELSE paid[First(s)] + g[s \ {First(s)}]
      BY FirstIsMember DEF First
    <2>. HIDE DEF step, paid
    <2>. QED BY <2>1 DEF Iterates
  <1>3. \E g : g = [s \in SUBSET open |-> step(s, g)]
    <2>. HIDE DEF step, paid
    <2>. QED BY <1>1, <1>2, IterationExists
  <1> DEFINE sum == CHOOSE g : g = [s \in SUBSET open |-> step(s, g)]
  <1>4. Iterates(paid, open, sum)
    <2>. HIDE DEF step, paid
    <2>. QED BY <1>2, <1>3
  <1>5. MapThenSumSet(LAMBDA c : escrows[c].amountPaid, open) = sum[open]
    BY DEF MapThenSumSet, MapThenFoldSet
  <1>6. sum[open] = SumOf(paid, open)
    <2>. HIDE DEF sum, paid
    <2>. QED BY <1>1, <1>4, IterationIsSum
  <1>7. SumOf(paid, open) = SumOf(owed, open)
    <2>1. \A c \in open : paid[c] = owed[c]
      BY EscrowFields DEF OwedIn, Owed, OpenEscrows
    <2>. HIDE DEF paid, open, owed
    <2>. QED BY <1>1, <2>1, SumSame
  <1>8. OwedTotal(t) = SumOf(owed, open)
    <2>1. /\ \A c \in DOMAIN escrows : owed[c] \in Int
          /\ \A c \in DOMAIN escrows \ open : owed[c] = 0
      BY EscrowFields DEF OwedIn, Owed, OpenEscrows
    <2>. HIDE DEF open
    <2>. QED BY <1>1, <2>1, SumZeroes DEF OwedTotal
  <1>. HIDE DEF sum, paid, owed
  <1>. QED BY <1>5, <1>6, <1>7, <1>8

LEMMA PooledIsSolvent ==
    ASSUME TypeOK, IsFiniteSet(DOMAIN escrows)
    PROVE  Solvent <=> Pooled
  BY PaidIsOwed DEF Solvent, Pooled

(* A record more or less at a time: the store stays finite. *)
LEMMA StoreStaysFinite ==
    ASSUME TypeOK, IsFiniteSet(DOMAIN escrows), [Next]_vars
    PROVE  IsFiniteSet(DOMAIN escrows')
  <1>1. CASE Deposits
    <2>1. PICK c, entry : escrows' = Put(escrows, c, entry)
      BY <1>1, DepositsKinds DEF CreateIndexed, CreateBare
    <2>2. DOMAIN escrows' = DOMAIN escrows \cup {c}
      BY <2>1 DEF Put
    <2>. QED BY <2>2, FS_AddElement
  <1>2. CASE Settlements \/ Disputes \/ Tick \/ UNCHANGED vars
    <2>1. DOMAIN escrows' \subseteq DOMAIN escrows
      <3>1. CASE Settlements
        BY <3>1, SettlementsKinds DEF RecordsKept, CleanupEscrow, Without, Restrict
      <3>2. CASE Disputes
        BY <3>2, DisputesKinds, SetStatusKeeps
           DEF RecordsKept, Resolves, Dispute, HasStatus, VoteForDispute
      <3>. QED BY <1>2, <3>1, <3>2 DEF Tick, vars
    <2>. QED BY <2>1, FS_Subset
  <1>. QED BY <1>1, <1>2 DEF Next

LEMMA PooledStep ==
    ASSUME TypeOK, TypeOK', IsFiniteSet(DOMAIN escrows), IsFiniteSet(DOMAIN escrows'),
           PaysStep, Pooled
    PROVE  Pooled'
  <1> SUFFICES ASSUME NEW t \in Token
               PROVE  balance'[t][Contract] >= OwedTotal(t)'
    BY DEF Pooled
  <1> DEFINE all == DOMAIN escrows \cup DOMAIN escrows'
             before == OwedIn(t)
             after  == OwedIn(t)'
  <1>1. IsFiniteSet(all) /\ all \subseteq Commitments
    BY FS_Union DEF TypeOK
  <1>2. /\ \A c \in Commitments : before[c] = Owed(t, c) /\ after[c] = Owed(t, c)'
        /\ \A c \in Commitments \ DOMAIN escrows : before[c] = 0
        /\ \A c \in Commitments \ DOMAIN escrows' : after[c] = 0
    BY DEF OwedIn, Owed, OpenEscrows
  <1>3. \A c \in Commitments : before[c] \in Int /\ after[c] \in Int
    BY EscrowFields DEF OwedIn, Owed, OpenEscrows, TypeOK, EscrowEntry
  <1>4. balance[t][Contract] \in Int /\ balance'[t][Contract] \in Int
    BY DEF TypeOK, Account
  <1>. HIDE DEF all, before, after
  <1>5. OwedTotal(t) = SumOf(before, all) /\ OwedTotal(t)' = SumOf(after, all)
    BY <1>1, <1>2, <1>3, SumZeroes DEF OwedTotal, all, before, after
  <1>6. balance[t][Contract] >= SumOf(before, all)
    BY <1>5 DEF Pooled
  <1>7. CASE \A c \in all : before[c] = after[c]
    <2>1. SumOf(before, all) = SumOf(after, all)
      BY <1>1, <1>7, SumSame
    <2>2. balance'[t][Contract] = balance[t][Contract]
      <3>1. \A c \in Commitments : after[c] = before[c]
        BY <1>2, <1>7 DEF all
      <3>2. \/ balance'[t][Contract] = balance[t][Contract]
            \/ \E c \in Commitments :
                  balance'[t][Contract] - balance[t][Contract] = after[c] - before[c]
        BY <1>2 DEF PaysStep, KeptByContract
      <3>. QED BY <1>3, <1>4, <3>1, <3>2
    <2>. QED BY <1>5, <1>6, <2>1, <2>2
  <1>8. CASE \E c \in all : before[c] # after[c]
    <2>1. PICK c \in all : before[c] # after[c]
      BY <1>8
    <2>2. /\ \/ balance'[t][Contract] - balance[t][Contract] = after[c] - before[c]
             \/ KeptByContract(c)
          /\ \A d \in all \ {c} : before[d] = after[d]
      BY <1>1, <1>2, <2>1 DEF PaysStep
    <2>3. balance'[t][Contract] - balance[t][Contract] >= after[c] - before[c]
      <3>1. CASE KeptByContract(c)
        <4>1. Owed(t, c)' = 0 /\ balance'[t][Contract] = balance[t][Contract]
          BY <3>1 DEF KeptByContract, HasStatus, Owed, OpenEscrows, Open
        <4>2. Owed(t, c) \in Nat
          BY EscrowFields DEF Owed, OpenEscrows
        <4>. QED BY <1>1, <1>2, <1>4, <4>1, <4>2
      <3>. QED BY <1>1, <1>3, <1>4, <2>1, <2>2, <3>1
    <2>4. SumOf(after, all) = SumOf(before, all) + (after[c] - before[c])
      BY <1>1, <1>3, <2>1, <2>2, SumOneChange
    <2>5. SumOf(before, all) \in Int
      BY <1>1, <1>3, SumType
    <2>. QED BY <1>1, <1>3, <1>4, <1>5, <1>6, <2>1, <2>3, <2>4, <2>5
  <1>. QED BY <1>7, <1>8

(* Conservation of value and no double settlement: whatever is deposited, paid  *)
(* in parts, withdrawn, refunded, disputed, resolved and cleaned up, in any     *)
(* order and for any number of escrows, the contract's balance of a token is    *)
(* enough for what its open escrows of that token are owed together.            *)
THEOREM PoolIsSolvent == Spec => []Solvent
  <1> DEFINE Inv == IsFiniteSet(DOMAIN escrows) /\ Pooled
  <1>1. Init => Inv
    <2> SUFFICES ASSUME Init PROVE Inv
      OBVIOUS
    <2>1. DOMAIN escrows = {} /\ IsFiniteSet({})
      BY FS_EmptySet DEF Init
    <2>2. \A t \in Token : OwedTotal(t) = 0
      BY <2>1, SumEmpty DEF OwedTotal
    <2>. QED BY <2>1, <2>2 DEF Init, Pooled, Account
  <1>2. IndInv /\ IndInv' /\ Inv /\ [Next]_vars => Inv'
    BY StoreStaysFinite, NextPays, PooledStep DEF IndInv
  <1>3. IndInv /\ Inv => Solvent
    BY PooledIsSolvent DEF IndInv
  <1>. QED BY <1>1, <1>2, <1>3, IndInvAlways, PTL DEF Spec

-----------------------------------------------------------------------------
(* The life of a record. *)

(* Deposits add a record and keep the others. *)
LEMMA DepositsKeepRecords ==
    ASSUME TypeOK, Deposits
    PROVE  \A c \in DOMAIN escrows : c \in DOMAIN escrows' /\ escrows'[c] = escrows[c]
  <1>1. PICK d, entry : escrows' = Put(escrows, d, entry) /\ ~Exists(d)
    BY DepositsKinds DEF CreateIndexed, CreateBare
  <1>. QED BY <1>1 DEF Put, Exists

LifecycleStep ==
    \A c \in DOMAIN escrows :
        \/ c \notin DOMAIN escrows' /\ escrows[c].status \in Terminal
        \/ /\ c \in DOMAIN escrows'
           /\ SameTerms(escrows[c], escrows'[c])
           /\ \/ escrows[c].status = escrows'[c].status
              \/ <<escrows[c].status, escrows'[c].status>> \in Moves

LEMMA NextLifecycle ==
    ASSUME TypeOK, TypeOK', [Next]_vars
    PROVE  LifecycleStep
  <1> SUFFICES ASSUME NEW c \in DOMAIN escrows
               PROVE  \/ c \notin DOMAIN escrows' /\ escrows[c].status \in Terminal
                      \/ /\ c \in DOMAIN escrows'
                         /\ SameTerms(escrows[c], escrows'[c])
                         /\ \/ escrows[c].status = escrows'[c].status
                            \/ <<escrows[c].status, escrows'[c].status>> \in Moves
    BY DEF LifecycleStep
  <1>1. CASE escrows' = escrows \/ Deposits
    BY <1>1, DepositsKeepRecords DEF SameTerms
  <1>2. CASE Settlements
    <2>1. CASE \E d \in DOMAIN escrows : CleanupEscrow(d)
      BY <2>1 DEF CleanupEscrow, Without, Restrict, SameTerms
    <2>2. ASSUME NEW d \in DOMAIN escrows, escrows[d].status = "Pending",
                 escrows'[d].status # "Disputed", RecordsKept,
                 \A x \in DOMAIN escrows \ {d} : escrows'[x] = escrows[x]
          PROVE  /\ c \in DOMAIN escrows' /\ SameTerms(escrows[c], escrows'[c])
                 /\ \/ escrows[c].status = escrows'[c].status
                    \/ <<escrows[c].status, escrows'[c].status>> \in Moves
      <3>1. escrows'[d].status \in {"Pending", "Spent", "Refunded"}
        BY <2>2 DEF TypeOK, EscrowEntry, Open, Terminal, RecordsKept
      <3>. QED BY <2>2, <3>1 DEF RecordsKept, Moves
    <2>. QED BY <1>2, <2>1, <2>2, SettlementsKinds
  <1>3. CASE Disputes
    <2>1. ASSUME NEW d \in DOMAIN escrows, Dispute(d) \/ Resolves(d)
          PROVE  /\ c \in DOMAIN escrows' /\ SameTerms(escrows[c], escrows'[c])
                 /\ \/ escrows[c].status = escrows'[c].status
                    \/ <<escrows[c].status, escrows'[c].status>> \in Moves
      BY <2>1, SetStatusKeeps DEF Dispute, HasStatus, Resolves, RecordsKept, Moves, Terminal
    <2>. QED BY <1>3, <2>1, DisputesKinds DEF VoteForDispute, SameTerms
  <1>. QED BY <1>1, <1>2, <1>3 DEF Next, Tick, vars

(* The state diagram of EscrowStatus, for every sequence of calls: a settled   *)
(* escrow is never settled again or disputed, an open one never disappears,    *)
(* and nobody changes the terms of an escrow.                                  *)
THEOREM LifecycleHolds == Spec => Lifecycle
  <1>1. IndInv /\ IndInv' /\ [Next]_vars => [LifecycleStep]_vars
    BY NextLifecycle DEF IndInv
  <1>2. Lifecycle <=> [][LifecycleStep]_vars
    BY DEF Lifecycle, LifecycleStep
  <1>. QED BY <1>1, <1>2, IndInvAlways, PTL DEF Spec

TimeLockStep ==
    \A c \in DOMAIN escrows \cap DOMAIN escrows' :
        LET e == escrows[c]
        IN  e.status = "Pending" =>
               /\ escrows'[c].status = "Spent" =>
                     (e.expiresAt = 0 \/ now < e.expiresAt) /\ e.amountDue <= e.amountPaid
               /\ escrows'[c].status = "Refunded" => e.expiresAt \in 1..now

LEMMA NextTimeLock ==
    ASSUME TypeOK, [Next]_vars
    PROVE  TimeLockStep
  <1> SUFFICES ASSUME NEW c \in DOMAIN escrows, c \in DOMAIN escrows',
                      escrows[c].status = "Pending",
                      escrows'[c].status \in Terminal
               PROVE  /\ escrows'[c].status = "Spent" =>
                            /\ escrows[c].expiresAt = 0 \/ now < escrows[c].expiresAt
                            /\ escrows[c].amountDue <= escrows[c].amountPaid
                      /\ escrows'[c].status = "Refunded" => escrows[c].expiresAt \in 1..now
    BY DEF TimeLockStep, Terminal
  <1>1. /\ now \in Nat /\ escrows[c].expiresAt \in Nat
        /\ escrows[c].amountDue \in Nat /\ escrows[c].amountPaid \in Nat
    BY EscrowFields DEF TypeOK, Amount
  <1>2. escrows'[c] # escrows[c]
    BY DEF Terminal
  <1>3. ASSUME NEW amount \in Amount, NEW to \in Address, NEW s \in Salt,
               Withdraw(amount, to, s)
        PROVE  /\ escrows'[c].status = "Spent"
               /\ escrows[c].expiresAt = 0 \/ now < escrows[c].expiresAt
               /\ escrows[c].amountDue <= escrows[c].amountPaid
    <2> DEFINE d == OpenedBy(to, amount, s)
    <2>1. /\ HasStatus(d, "Pending") /\ ~IsExpired(escrows[d]) /\ SetStatus(d, "Spent")
          /\ escrows[d].amountPaid >= escrows[d].amountDue
      BY <1>3 DEF Withdraw
    <2>. HIDE DEF d
    <2>2. c = d
      BY <1>2, <2>1, SetStatusKeeps DEF HasStatus, Exists
    <2>. QED BY <1>1, <2>1, <2>2, SetStatusKeeps DEF IsExpired
  <1>4. ASSUME NEW d \in DOMAIN escrows, NEW who \in Address, Refund(d, who)
        PROVE  escrows'[c].status = "Refunded" /\ escrows[c].expiresAt \in 1..now
    <2>1. c = d
      BY <1>2, <1>4, SetStatusKeeps DEF Refund
    <2>. QED BY <1>1, <1>4, <2>1, SetStatusKeeps DEF Refund, IsExpired
  <1>5. ASSUME NEW d \in DOMAIN escrows, NEW who \in Address, NEW amount \in Amount,
               PartialPayment(d, who, amount)
        PROVE  FALSE
    BY <1>5, PartialPaymentKeeps DEF Terminal
  <1>6. ASSUME NEW d \in DOMAIN escrows, CleanupEscrow(d) PROVE FALSE
    BY <1>2, <1>6 DEF CleanupEscrow, Without, Restrict
  <1>7. CASE Disputes
    BY <1>2, <1>7, DisputesKinds, SetStatusKeeps
       DEF Dispute, HasStatus, Resolves, VoteForDispute, Terminal
  <1>8. CASE Deposits
    BY <1>2, <1>8, DepositsKeepRecords
  <1>. QED BY <1>2, <1>3, <1>4, <1>5, <1>6, <1>7, <1>8 DEF Next, Settlements, Tick, vars

(* The deadline is exact in both directions, at every clock: before it only    *)
(* the one withdrawal of a fully paid escrow, at and after it only the refund.  *)
THEOREM TimeLockHolds == Spec => TimeLocked
  <1>1. IndInv /\ [Next]_vars => [TimeLockStep]_vars
    BY NextTimeLock DEF IndInv
  <1>2. TimeLocked <=> [][TimeLockStep]_vars
    BY DEF TimeLocked, TimeLockStep
  <1>. QED BY <1>1, <1>2, IndInvAlways, PTL DEF Spec

-----------------------------------------------------------------------------
(* The answers of the deposits. *)

(* An id and the record it leads to agree on whether there is a deadline. *)
DeadlinesExact ==
    \A id \in DOMAIN escrowIdMap : escrows[escrowIdMap[id]].expiresAt = 0 <=> id.timeout = 0

LEMMA DeadlinesInductive ==
    ASSUME IndInv, DeadlinesExact, [Next]_vars
    PROVE  DeadlinesExact'
  <1>1. CASE Deposits
    <2>1. ASSUME NEW id \in EscrowIds, NEW entry \in EscrowEntry,
                 CreateIndexed(id, entry), Fits(id, entry)
          PROVE  DeadlinesExact'
      <3>1. PICK c : /\ ~Exists(c) /\ escrows' = Put(escrows, c, entry)
                     /\ escrowIdMap' = Put(escrowIdMap, id, c)
        BY <2>1 DEF CreateIndexed
      <3>. QED BY <2>1, <3>1 DEF Put, Fits, IndInv, IndexExact, Exists, DeadlinesExact
    <2>2. ASSUME NEW c \in Commitments, NEW entry \in EscrowEntry, CreateBare(c, entry)
          PROVE  DeadlinesExact'
      BY <2>2 DEF CreateBare, Put, IndInv, IndexExact, Exists, DeadlinesExact, indexVars
    <2>. QED BY <1>1, <2>1, <2>2, DepositsKinds DEF IndInv
  <1>2. ASSUME RecordsKept, UNCHANGED indexVars
        PROVE  DeadlinesExact'
    BY <1>2 DEF RecordsKept, SameTerms, indexVars, IndInv, IndexExact, Exists, DeadlinesExact
  <1>3. ASSUME NEW c \in DOMAIN escrows, CleanupEscrow(c)
        PROVE  DeadlinesExact'
    <2>1. \A i \in DOMAIN escrowIdMap : i \notin IdsOf(c) => escrowIdMap[i] # c
      BY DEF IdsOf, IndInv, IndexExact
    <2>. QED BY <1>3, <2>1
             DEF CleanupEscrow, Without, Restrict, IndInv, IndexExact, Exists, DeadlinesExact
  <1>4. CASE Settlements
    BY <1>2, <1>3, <1>4, SettlementsKinds DEF IndInv
  <1>5. CASE Disputes
    BY <1>2, <1>5, DisputesKinds, SetStatusKeeps
       DEF IndInv, Dispute, HasStatus, Resolves, VoteForDispute, RecordsKept, SameTerms
  <1>6. CASE Tick \/ UNCHANGED vars
    BY <1>2, <1>6 DEF Tick, vars, RecordsKept, SameTerms
  <1>. QED BY <1>1, <1>4, <1>5, <1>6 DEF Next

(* A call of a client is a step of the contract, or none. *)
LEMMA ClientNextIsNext == ClientNext => [Next]_vars
  <1>1. ClientDeposits => Deposits \/ UNCHANGED vars
    BY DEF ClientDeposits, DepositCall, DepositWithArbitersCall, DepositPartialCall, Answer, Deposits
  <1>2. CommitmentDeposits => Deposits
    BY DEF CommitmentDeposits, Deposits
  <1>. QED BY <1>1, <1>2 DEF ClientNext, Next

(* The answer to a deposit is read from an index that is exact. *)
LEMMA AnswerHonoured ==
    ASSUME IndexExact', DeadlinesExact', IndexExact,
           NEW create, NEW id, NEW council, Answer(create, id, council),
           create => /\ id \in DOMAIN escrowIdMap'
                     /\ escrowIdMap'[id] = AmountCommitment(id.owner, id.amount, id.salt)
    PROVE  ReceiptHonoured'
  <1>1. /\ id \in DOMAIN escrowIdMap'
        /\ receipts' = {Receipt(id, council, escrowIdMap'[id])}
    BY DEF Answer, vars, indexVars
  <1>. QED BY <1>1 DEF ReceiptHonoured, Receipt, IndexExact, DeadlinesExact, Exists

LEMMA CreateIndexedIsFound ==
    ASSUME NEW id, NEW entry, CreateIndexed(id, entry)
    PROVE  /\ id \in DOMAIN escrowIdMap'
           /\ escrowIdMap'[id] = AmountCommitment(id.owner, id.amount, id.salt)
  BY DEF CreateIndexed, Put

LEMMA ClientStepHonoured ==
    ASSUME IndInv, IndInv', DeadlinesExact', [ClientNext]_clientVars, ReceiptHonoured
    PROVE  ReceiptHonoured'
  <1> USE DEF IndInv
  <1>1. ASSUME NEW t \in Token, NEW amount \in Amount, NEW who \in Address,
               NEW timeout \in Timeouts, NEW s \in Salt, NEW arb \in Arbiter,
               DepositCall(t, amount, who, s, timeout, arb)
        PROVE  ReceiptHonoured'
    BY <1>1, AnswerHonoured, CreateIndexedIsFound DEF DepositCall, Deposit
  <1>2. ASSUME NEW t \in Token, NEW amount \in Amount, NEW who \in Address,
               NEW timeout \in Timeouts, NEW s \in Salt, NEW council \in Councils,
               NEW threshold \in 1..Len(council),
               DepositWithArbitersCall(t, amount, who, s, timeout, council, threshold)
        PROVE  ReceiptHonoured'
    BY <1>2, AnswerHonoured, CreateIndexedIsFound
       DEF DepositWithArbitersCall, DepositWithArbiters
  <1>3. ASSUME NEW t \in Token, NEW amount \in Amount, NEW who \in Address,
               NEW timeout \in Timeouts, NEW s \in Salt, NEW arb \in Arbiter,
               NEW initial \in Amount,
               DepositPartialCall(t, amount, initial, who, s, timeout, arb)
        PROVE  ReceiptHonoured'
    BY <1>3, AnswerHonoured, CreateIndexedIsFound DEF DepositPartialCall, DepositPartial
  <1>4. CASE receipts' = {}
    BY <1>4 DEF ReceiptHonoured
  <1>5. CASE UNCHANGED clientVars
    BY <1>5 DEF clientVars, vars, indexVars, ReceiptHonoured, Exists
  <1>. QED BY <1>1, <1>2, <1>3, <1>4, <1>5 DEF ClientNext, ClientDeposits

(* Retries are safe: whatever happened between the calls, settlement and       *)
(* cleanup included, a deposit is answered with an escrow of the very terms    *)
(* that were asked for.                                                        *)
THEOREM ReceiptsAreHonoured == ClientSpec => []ReceiptHonoured
  <1> DEFINE Inv == IndInv /\ DeadlinesExact /\ ReceiptHonoured
  <1>1. ClientInit => Inv
    <2>1. Init => IndInv
      BY IndInvInitially
    <2>2. ClientInit => DeadlinesExact /\ ReceiptHonoured
      BY DEF ClientInit, Init, DeadlinesExact, ReceiptHonoured
    <2>. QED BY <2>1, <2>2 DEF ClientInit
  <1>2. Inv /\ [ClientNext]_clientVars => Inv'
    <2> SUFFICES ASSUME Inv, [ClientNext]_clientVars PROVE Inv'
      OBVIOUS
    <2>1. [Next]_vars
      BY ClientNextIsNext DEF clientVars
    <2>2. IndInv' /\ DeadlinesExact'
      BY <2>1, IndInvInductive, DeadlinesInductive
    <2>. QED BY <2>2, ClientStepHonoured
  <1>. QED BY <1>1, <1>2, PTL DEF ClientSpec

-----------------------------------------------------------------------------
(* The contract implements EscrowVault, step by step. *)

Wallet == [t \in Token |-> [a \in Address |-> balance[t][a]]]
Pots   == [c \in Live |-> PotOf(escrows[c])]

(* One entry of a table of balances changes. *)
LEMMA OneEntry ==
    ASSUME NEW V, NEW f \in [Token -> [Address -> V]], NEW g \in [Token -> [Address -> V]],
           NEW token \in Token, NEW who \in Address, NEW amount \in V,
           g[token][who] = amount,
           \A t \in Token, a \in Address : (t # token \/ a # who) => g[t][a] = f[t][a]
    PROVE  g = [f EXCEPT ![token][who] = amount]
  <1>1. g[token] = [f[token] EXCEPT ![who] = amount]
    OBVIOUS
  <1>2. \A t \in Token \ {token} : g[t] = f[t]
    OBVIOUS
  <1>. QED BY <1>1, <1>2

LEMMA WalletType ==
    ASSUME balance \in [Token -> [Account -> Nat]]
    PROVE  Wallet \in [Token -> [Address -> Nat]]
  BY DEF Wallet, Account

(* A payment into the contract debits one wallet. *)
LEMMA PaymentDebits ==
    ASSUME TypeOK, NEW token \in Token, NEW from \in Address, NEW amount \in Nat,
           Transfer(token, from, Contract, amount)
    PROVE  Vault!Debit(token, from, amount)
  <1>1. /\ from \in Account /\ Contract \in Account /\ from # Contract
        /\ \A a \in Address : a \in Account /\ a # Contract
        /\ balance \in [Token -> [Account -> Nat]]
    BY EscrowAssumption DEF Account, TypeOK
  <1>2. /\ balance[token][from] >= amount
        /\ balance'[token][from] = balance[token][from] - amount
        /\ \A t \in Token, a \in Address :
              (t # token \/ a # from) => balance'[t][a] = balance[t][a]
        /\ balance' \in [Token -> [Account -> Nat]]
    BY <1>1, TransferFacts
  <1>3. Wallet' = [Wallet EXCEPT ![token][from] = Wallet[token][from] - amount]
    <2>1. /\ Wallet'[token][from] = Wallet[token][from] - amount
          /\ \A t \in Token, a \in Address :
                (t # token \/ a # from) => Wallet'[t][a] = Wallet[t][a]
      BY <1>2 DEF Wallet
    <2>2. Wallet \in [Token -> [Address -> Nat]] /\ Wallet' \in [Token -> [Address -> Nat]]
      BY <1>1, <1>2, WalletType DEF Wallet, Account
    <2>3. Wallet'[token][from] \in Nat
      BY <2>2
    <2>. QED BY <2>1, <2>2, <2>3, OneEntry
  <1>. QED BY <1>2, <1>3 DEF Vault!Debit, Wallet

(* A payout fills one wallet and takes the pot away. *)
LEMMA PayoutEmpties ==
    ASSUME TypeOK, NEW c \in DOMAIN escrows, escrows[c].status \in Open,
           NEW to \in Address, NEW status \in Terminal, PaysOut(c, to, status), now' = now
    PROVE  Vault!Empty(c, to)
  <1>1. PICK token \in Token : token = escrows[c].token
    BY EscrowFields
  <1>2. /\ to \in Account /\ Contract \in Account /\ to # Contract
        /\ \A a \in Address : a \in Account /\ a # Contract
        /\ balance \in [Token -> [Account -> Nat]] /\ escrows[c].amountPaid \in Nat
        /\ Transfer(token, Contract, to, escrows[c].amountPaid)
    BY <1>1, EscrowAssumption, EscrowFields DEF Account, TypeOK, PaysOut
  <1>3. /\ balance'[token][to] = balance[token][to] + escrows[c].amountPaid
        /\ \A t \in Token, a \in Address :
              (t # token \/ a # to) => balance'[t][a] = balance[t][a]
        /\ balance' \in [Token -> [Account -> Nat]]
    BY <1>2, TransferFacts
  <1>4. Wallet' = [Wallet EXCEPT ![token][to] = Wallet[token][to] + escrows[c].amountPaid]
    <2>1. /\ Wallet'[token][to] = Wallet[token][to] + escrows[c].amountPaid
          /\ \A t \in Token, a \in Address :
                (t # token \/ a # to) => Wallet'[t][a] = Wallet[t][a]
      BY <1>3 DEF Wallet
    <2>2. Wallet \in [Token -> [Address -> Nat]] /\ Wallet' \in [Token -> [Address -> Nat]]
      BY <1>2, <1>3, WalletType DEF Wallet, Account
    <2>3. Wallet'[token][to] \in Nat
      BY <2>2
    <2>. QED BY <2>1, <2>2, <2>3, OneEntry
  <1>5. /\ DOMAIN escrows' = DOMAIN escrows /\ escrows'[c].status \notin Open
        /\ \A d \in DOMAIN escrows \ {c} : escrows'[d] = escrows[d]
    BY SetStatusKeeps DEF PaysOut, RecordsKept, Open, Terminal
  <1>6. Live' = Live \ {c} /\ c \in Live
    BY <1>5 DEF Live
  <1>7. Pots' = [d \in Live \ {c} |-> PotOf(escrows[d])]
    BY <1>5, <1>6 DEF Pots, Live
  <1>8. Pots[c].token = token /\ Pots[c].held = escrows[c].amountPaid
    BY <1>1, <1>6 DEF Pots, PotOf
  <1>9. Pots' = [d \in DOMAIN Pots \ {c} |-> Pots[d]]
    BY <1>7 DEF Pots
  <1>. QED BY <1>4, <1>8, <1>9
           DEF Vault!Empty, Vault!Without, Vault!Restrict, Wallet, Pots

(* A deposit opens a pot. *)
LEMMA CreateOpens ==
    ASSUME TypeOK, NEW c \in Commitments, NEW entry \in EscrowEntry, ~Exists(c),
           Fresh(entry), escrows' = Put(escrows, c, entry), now' = now,
           Transfer(entry.token, entry.owner, Contract, entry.amountPaid)
    PROVE  Vault!Open(c, PotOf(entry)) /\ PotOf(entry) \in Vault!NewPots
  <1>1. /\ entry.token \in Token /\ entry.owner \in Address /\ entry.amountDue \in Amount
        /\ entry.amountPaid \in Amount /\ entry.amountPaid \in Nat
        /\ entry.expiresAt \in 0..(U64Max - 1) /\ entry.status = "Pending"
        /\ entry.expiresAt = 0 \/ entry.expiresAt >= now
    BY DEF EscrowEntry, Fresh, Amount
  <1>2. PotOf(entry) \in Vault!NewPots
    BY <1>1 DEF PotOf, Vault!NewPots, Vault!Amount, Amount, HasSingleArbiter, HasCouncil
  <1>3. Vault!Debit(entry.token, entry.owner, entry.amountPaid)
    BY <1>1, PaymentDebits
  <1>4. /\ DOMAIN escrows' = DOMAIN escrows \cup {c} /\ escrows'[c] = entry
        /\ c \notin DOMAIN escrows /\ \A d \in DOMAIN escrows : escrows'[d] = escrows[d]
    BY DEF Put, Exists
  <1>5. Live' = Live \cup {c} /\ c \notin Live
    BY <1>1, <1>4 DEF Live, Open
  <1>6. Pots' = [d \in Live \cup {c} |-> IF d = c THEN PotOf(entry) ELSE Pots[d]]
    BY <1>4, <1>5 DEF Pots, Live
  <1>7. ~Vault!Live(c) /\ Pots' = Vault!Put(Pots, c, PotOf(entry))
    BY <1>5, <1>6 DEF Pots, Vault!Live, Vault!Put
  <1>8. PotOf(entry).deadline = 0 \/ PotOf(entry).deadline >= now
    BY <1>1 DEF PotOf
  <1>9. Vault!Debit(PotOf(entry).token, PotOf(entry).depositor, PotOf(entry).held)
    BY <1>3 DEF PotOf
  <1>. QED BY <1>2, <1>7, <1>8, <1>9 DEF Vault!Open, Pots

(* A payment in parts tops it up. *)
LEMMA PaymentTopsUp ==
    ASSUME TypeOK, NEW c \in DOMAIN escrows, NEW who \in Address, NEW amount \in Amount,
           PartialPayment(c, who, amount)
    PROVE  Vault!TopUp(c, who, amount)
  <1>1. /\ escrows[c].token \in Token /\ escrows[c].amountPaid \in Nat
        /\ escrows[c].amountDue \in Nat /\ amount \in Nat /\ now' = now
        /\ escrows[c].status = "Pending"
        /\ amount <= escrows[c].amountDue - escrows[c].amountPaid
        /\ Transfer(escrows[c].token, who, Contract, amount)
    BY EscrowFields DEF PartialPayment, HasStatus, Amount
  <1>2. Vault!Debit(escrows[c].token, who, amount)
    BY <1>1, PaymentDebits
  <1>3. /\ DOMAIN escrows' = DOMAIN escrows
        /\ escrows' = [escrows EXCEPT ![c] = [escrows[c] EXCEPT !.amountPaid = @ + amount]]
        /\ escrows[c] \in EscrowEntry
    BY EscrowFields DEF PartialPayment
  <1>4. Live' = Live /\ c \in Live
    BY <1>1, PartialPaymentKeeps DEF Live, Open, RecordsKept
  <1>5. /\ Pots[c] = PotOf(escrows[c]) /\ Pots'[c] = PotOf(escrows'[c])
        /\ \A d \in Live \ {c} : Pots'[d] = Pots[d]
        /\ DOMAIN Pots = Live /\ DOMAIN Pots' = Live
        /\ Pots = [d \in Live |-> Pots[d]] /\ Pots' = [d \in Live |-> Pots'[d]]
    BY <1>3, <1>4, PartialPaymentKeeps DEF Pots, Live
  <1>6. Pots'[c] = [Pots[c] EXCEPT !.held = Pots[c].held + amount]
    BY <1>3, <1>5 DEF PotOf, HasSingleArbiter, HasCouncil, EscrowEntry
  <1>7. Pots' = [Pots EXCEPT ![c] = [Pots[c] EXCEPT !.held = Pots[c].held + amount]]
    <2>. HIDE DEF Pots
    <2>. QED BY <1>4, <1>5, <1>6
  <1>8. /\ ~Pots[c].locked /\ Pots[c].held + amount <= Pots[c].due
        /\ Pots[c].token = escrows[c].token
    <2>1. /\ Pots[c].held = escrows[c].amountPaid /\ Pots[c].due = escrows[c].amountDue
          /\ Pots[c].token = escrows[c].token
      BY <1>5 DEF PotOf
    <2>2. Pots[c].locked = (escrows[c].status = "Disputed")
      BY <1>5 DEF PotOf
    <2>3. escrows[c].status # "Disputed"
      BY <1>1
    <2>4. ~Pots[c].locked
      BY <2>2, <2>3, Zenon
    <2>5. Pots[c].held + amount <= Pots[c].due
      BY <1>1, <2>1
    <2>. QED BY <2>1, <2>4, <2>5, Zenon
  <1>9. Vault!Live(c)
    BY <1>4 DEF Vault!Live
  <1>. QED BY <1>1, <1>2, <1>7, <1>8, <1>9 DEF Vault!TopUp, Pots

(* A dispute locks it. *)
LEMMA DisputeLocks ==
    ASSUME TypeOK, NEW c \in DOMAIN escrows, Dispute(c)
    PROVE  Vault!Lock(c)
  <1>1. /\ escrows[c].status = "Pending" /\ Disputable(escrows[c]) /\ now' = now
        /\ balance' = balance
        /\ escrows' = [escrows EXCEPT ![c] = [escrows[c] EXCEPT !.status = "Disputed"]]
        /\ escrows[c] \in EscrowEntry
    BY EscrowFields DEF Dispute, HasStatus, SetStatus
  <1>2. Live' = Live /\ c \in Live
    BY <1>1 DEF Live, Open, EscrowEntry
  <1>3. /\ Pots[c] = PotOf(escrows[c]) /\ Pots'[c] = PotOf(escrows'[c])
        /\ \A d \in Live \ {c} : Pots'[d] = Pots[d]
        /\ DOMAIN Pots = Live
        /\ Pots = [d \in Live |-> Pots[d]] /\ Pots' = [d \in Live |-> Pots'[d]]
    BY <1>1, <1>2 DEF Pots, Live
  <1>4. Pots'[c] = [Pots[c] EXCEPT !.locked = TRUE]
    <2>1. escrows'[c] = [escrows[c] EXCEPT !.status = "Disputed"]
      BY <1>1
    <2>2. /\ escrows'[c].token = escrows[c].token /\ escrows'[c].owner = escrows[c].owner
          /\ escrows'[c].amountDue = escrows[c].amountDue
          /\ escrows'[c].amountPaid = escrows[c].amountPaid
          /\ escrows'[c].expiresAt = escrows[c].expiresAt
          /\ escrows'[c].arbiter = escrows[c].arbiter
          /\ escrows'[c].arbiters = escrows[c].arbiters
          /\ escrows'[c].threshold = escrows[c].threshold
          /\ escrows'[c].status = "Disputed"
      BY <1>1, <2>1 DEF EscrowEntry
    <2>3. PotOf(escrows'[c]) = [PotOf(escrows[c]) EXCEPT !.locked = TRUE]
      <3> DEFINE judged == HasSingleArbiter(escrows[c]) \/ HasCouncil(escrows[c])
                 locked == escrows[c].status = "Disputed"
                 yes    == TRUE
      <3>1. (HasSingleArbiter(escrows'[c]) \/ HasCouncil(escrows'[c])) = judged
        BY <2>2 DEF HasSingleArbiter, HasCouncil
      <3>2. (escrows'[c].status = "Disputed") = TRUE
        BY <2>2
      <3>. HIDE DEF judged, yes
      <3>3. PotOf(escrows'[c]) = [token |-> escrows[c].token, depositor |-> escrows[c].owner,
                                  due |-> escrows[c].amountDue, held |-> escrows[c].amountPaid,
                                  deadline |-> escrows[c].expiresAt, judged |-> judged,
                                  locked |-> yes]
        BY <2>2, <3>1, <3>2, Zenon DEF PotOf, yes
      <3>4. PotOf(escrows[c]) = [token |-> escrows[c].token, depositor |-> escrows[c].owner,
                                 due |-> escrows[c].amountDue, held |-> escrows[c].amountPaid,
                                 deadline |-> escrows[c].expiresAt, judged |-> judged,
                                 locked |-> locked]
        BY Zenon DEF PotOf, judged, locked
      <3>. HIDE DEF locked, yes
      <3>5. PotOf(escrows'[c]) = [PotOf(escrows[c]) EXCEPT !.locked = yes]
        BY <3>3, <3>4
      <3>. QED BY <3>5, Zenon DEF yes
    <2>. HIDE DEF Pots
    <2>. QED BY <1>3, <2>3
  <1>5. Pots' = [Pots EXCEPT ![c] = [Pots[c] EXCEPT !.locked = TRUE]]
    <2>. HIDE DEF Pots
    <2>. QED BY <1>2, <1>3, <1>4
  <1>6. Vault!Live(c) /\ ~Pots[c].locked /\ Pots[c].judged
    BY <1>1, <1>2, <1>3 DEF Vault!Live, PotOf, Pots, Disputable
  <1>. QED BY <1>1, <1>5, <1>6 DEF Vault!Lock, Pots

(* A withdrawal is the claim of the account in the commitment, a refund the    *)
(* depositor's, and a resolution an award.                                     *)
LEMMA WithdrawClaims ==
    ASSUME TypeOK, NEW amount \in Amount, NEW to \in Address, NEW s \in Salt,
           Withdraw(amount, to, s)
    PROVE  \E c \in Commitments : Vault!Claim(c)
  <1>1. PICK c \in DOMAIN escrows : c = OpenedBy(to, amount, s)
    BY DEF Withdraw, HasStatus, Exists
  <1>2. /\ escrows[c].status = "Pending" /\ PaysOut(c, to, "Spent") /\ ~IsExpired(escrows[c])
        /\ escrows[c].amountPaid >= escrows[c].amountDue /\ now' = now
    <2>1. /\ HasStatus(OpenedBy(to, amount, s), "Pending")
          /\ SetStatus(OpenedBy(to, amount, s), "Spent")
          /\ Transfer(escrows[OpenedBy(to, amount, s)].token, Contract, to,
                      escrows[OpenedBy(to, amount, s)].amountPaid)
      BY WithdrawPaysOut DEF PaysOut
    <2>. QED BY <1>1, <2>1 DEF Withdraw, PaysOut, SetStatus, HasStatus
  <1>3. c.owner = to /\ c \in Commitments
    BY <1>1, EscrowFields DEF OpenedBy, AmountCommitment, LegacyOf
  <1>4. Vault!Empty(c, c.owner)
    BY <1>2, <1>3, PayoutEmpties DEF Open, Terminal
  <1>5. c \in Live
    BY <1>2 DEF Live, Open
  <1>6. Vault!Claim(c)
    BY <1>2, <1>4, <1>5 DEF Vault!Claim, Vault!Live, Vault!Closed, PotOf, IsExpired
  <1>. QED BY <1>3, <1>6

LEMMA RefundReclaims ==
    ASSUME TypeOK, NEW c \in DOMAIN escrows, NEW who \in Address, Refund(c, who)
    PROVE  Vault!Reclaim(c)
  <1>1. /\ escrows[c].status = "Pending" /\ PaysOut(c, who, "Refunded") /\ now' = now
        /\ IsExpired(escrows[c]) /\ who = escrows[c].owner
    BY DEF Refund, PaysOut, HasStatus
  <1>2. Vault!Empty(c, who)
    BY <1>1, PayoutEmpties DEF Open, Terminal
  <1>3. c \in Live
    BY <1>1 DEF Live, Open
  <1>4. Pots[c].depositor = who /\ Pots[c].deadline = escrows[c].expiresAt /\ ~Pots[c].locked
    BY <1>1, <1>3 DEF Pots, PotOf
  <1>5. Vault!Empty(c, Pots[c].depositor)
    BY <1>2, <1>4 DEF Vault!Empty, Pots
  <1>. QED BY <1>1, <1>3, <1>4, <1>5
           DEF Vault!Reclaim, Vault!Live, Vault!Closed, IsExpired, Pots

(* A resolution for the contract itself takes the pot away and pays no wallet. *)
LEMMA KeptForfeits ==
    ASSUME TypeOK, NEW c \in DOMAIN escrows, escrows[c].status = "Disputed",
           PaysOut(c, Contract, "Spent"), now' = now
    PROVE  Vault!Forfeit(c)
  <1>1. balance' = balance
    BY SelfTransfer, EscrowFields DEF PaysOut, TypeOK, Account
  <1>2. /\ DOMAIN escrows' = DOMAIN escrows /\ escrows'[c].status \notin Open
        /\ \A d \in DOMAIN escrows \ {c} : escrows'[d] = escrows[d]
    BY SetStatusKeeps DEF PaysOut, RecordsKept, Open, Terminal
  <1>3. Live' = Live \ {c} /\ c \in Live
    BY <1>2 DEF Live, Open
  <1>4. Pots' = [d \in DOMAIN Pots \ {c} |-> Pots[d]]
    BY <1>2, <1>3 DEF Pots, Live
  <1>5. Pots[c].locked /\ DOMAIN Pots = Live
    BY <1>3 DEF Pots, PotOf
  <1>. QED BY <1>1, <1>3, <1>4, <1>5
           DEF Vault!Forfeit, Vault!Live, Vault!Without, Vault!Restrict, Wallet, Pots

LEMMA SettleAwards ==
    ASSUME TypeOK, NEW c \in DOMAIN escrows,
           HasStatus(c, "Disputed"), NEW forOwner, NEW r \in Recipients,
           NEW arbiter \in Arbiter, Settle(c, forOwner, r, arbiter), now' = now
    PROVE  Vault!Forfeit(c) \/ \E a \in Address : Vault!Award(c, a)
  <1>1. PICK to \in {r, escrows[c].owner}, status \in Terminal :
            PaysOut(c, to, status) /\ (to = Contract => status = "Spent")
    BY RecipientIsAccount, SettlePaysOut
  <1>2. escrows[c].status = "Disputed" /\ c \in Live
    BY DEF HasStatus, Live, Open
  <1>3. CASE to = Contract
    BY <1>1, <1>2, <1>3, KeptForfeits
  <1>4. CASE to # Contract
    <2>1. to \in Address
      BY <1>1, <1>4, EscrowAssumption, EscrowFields
    <2>2. Vault!Empty(c, to)
      BY <1>1, <1>2, <2>1, PayoutEmpties DEF Open
    <2>3. Vault!Award(c, to)
      BY <1>2, <2>2 DEF Vault!Award, Vault!Live, PotOf
    <2>. QED BY <2>1, <2>3
  <1>. QED BY <1>3, <1>4

(* Votes and cleanups are invisible to the vault. *)
LEMMA BookkeepingStutters ==
    ASSUME TypeOK, NEW c \in DOMAIN escrows,
           \/ CleanupEscrow(c)
           \/ \E who \in Address, forOwner \in BOOLEAN : VoteForDispute(who, c, forOwner)
    PROVE  UNCHANGED <<now, Wallet, Pots>>
  <1>1. CASE CleanupEscrow(c)
    <2>1. /\ now' = now /\ balance' = balance /\ DOMAIN escrows' = DOMAIN escrows \ {c}
          /\ escrows[c].status \notin Open
          /\ \A d \in DOMAIN escrows \ {c} : escrows'[d] = escrows[d]
      BY <1>1 DEF CleanupEscrow, Without, Restrict, Open, Terminal
    <2>2. Live' = Live
      BY <2>1 DEF Live
    <2>3. Pots' = Pots
      BY <2>1, <2>2 DEF Pots, Live
    <2>. QED BY <2>1, <2>3 DEF Wallet
  <1>2. CASE \E who \in Address, forOwner \in BOOLEAN : VoteForDispute(who, c, forOwner)
    BY <1>2 DEF VoteForDispute, Wallet, Pots, Live
  <1>. QED BY <1>1, <1>2

LEMMA StepsImplement ==
    ASSUME TypeOK, [Next]_vars
    PROVE  [Vault!Next]_(Vault!vars)
  <1>1. CASE Deposits
    <2>1. ASSUME NEW id \in EscrowIds, NEW entry \in EscrowEntry,
                 CreateIndexed(id, entry), Fits(id, entry)
          PROVE  Vault!Next
      <3> DEFINE c == AmountCommitment(id.owner, id.amount, id.salt)
      <3>1. c \in Commitments
        BY DEF AmountCommitment, Commitments, Schemes, EscrowIds
      <3>2. /\ ~Exists(c) /\ escrows' = Put(escrows, c, entry) /\ now' = now
            /\ Transfer(entry.token, entry.owner, Contract, entry.amountPaid)
            /\ Fresh(entry)
        BY <2>1 DEF CreateIndexed, Fits
      <3>. HIDE DEF c
      <3>. QED BY <3>1, <3>2, CreateOpens DEF Vault!Next
    <2>2. ASSUME NEW c \in Commitments, NEW entry \in EscrowEntry, CreateBare(c, entry)
          PROVE  Vault!Next
      BY <2>2, CreateOpens DEF CreateBare, Vault!Next
    <2>. QED BY <1>1, <2>1, <2>2, DepositsKinds
  <1>2. CASE Settlements
    <2>1. ASSUME NEW c \in DOMAIN escrows, NEW who \in Address, NEW amount \in Amount,
                 PartialPayment(c, who, amount)
          PROVE  Vault!Next
      BY <2>1, PaymentTopsUp, EscrowFields DEF Vault!Next, Vault!Amount, Amount
    <2>2. ASSUME NEW c \in DOMAIN escrows, NEW who \in Address, Refund(c, who)
          PROVE  Vault!Next
      BY <2>2, RefundReclaims, EscrowFields DEF Vault!Next
    <2>3. ASSUME NEW c \in DOMAIN escrows, CleanupEscrow(c)
          PROVE  UNCHANGED Vault!vars
      BY <2>3, BookkeepingStutters DEF Vault!vars, Wallet, Pots
    <2>4. (\E amount \in Amount, to \in Address, s \in Salt : Withdraw(amount, to, s))
             => Vault!Next
      BY WithdrawClaims DEF Vault!Next
    <2>. QED BY <1>2, <2>1, <2>2, <2>3, <2>4 DEF Settlements
  <1>3. CASE Disputes
    <2>1. ASSUME NEW c \in DOMAIN escrows, Dispute(c)
          PROVE  Vault!Next
      BY <2>1, DisputeLocks, EscrowFields DEF Vault!Next
    <2>2. ASSUME NEW c \in DOMAIN escrows, NEW who \in Address, NEW forOwner \in BOOLEAN,
                 NEW r \in Recipients, ResolveDispute(who, c, forOwner, r)
          PROVE  Vault!Next
      BY <2>2, SettleAwards, EscrowFields DEF Vault!Next, ResolveDispute, Arbiter
    <2>3. ASSUME NEW c \in DOMAIN escrows, NEW r \in Recipients, ResolveDisputeMultiSig(c, r)
          PROVE  Vault!Next
      BY <2>3, SettleAwards, EscrowFields DEF Vault!Next, ResolveDisputeMultiSig, Arbiter
    <2>4. ASSUME NEW c \in DOMAIN escrows, NEW who \in Address, NEW forOwner \in BOOLEAN,
                 VoteForDispute(who, c, forOwner)
          PROVE  UNCHANGED Vault!vars
      BY <2>4, BookkeepingStutters DEF Vault!vars, Wallet, Pots
    <2>. QED BY <1>3, <2>1, <2>2, <2>3, <2>4 DEF Disputes
  <1>4. CASE Tick
    <2>1. now < U64Max - 1 /\ now' = now + 1 /\ UNCHANGED <<Wallet, Pots>>
      BY <1>4, EscrowAssumption DEF Tick, TypeOK, Wallet, Pots, Live
    <2>2. Vault!Tick
      BY <2>1 DEF Vault!Tick, Wallet, Pots
    <2>. QED BY <2>2 DEF Vault!Next
  <1>5. CASE UNCHANGED vars
    BY <1>5 DEF vars, Vault!vars, Live
  <1>. QED BY <1>1, <1>2, <1>3, <1>4, <1>5 DEF Next

LEMMA ImplementsInitially == Init => Vault!Init
  <1> SUFFICES ASSUME Init PROVE Vault!Init
    OBVIOUS
  <1>1. Wallet = Wallets
    <2>1. \A t \in Token, a \in Address : balance[t][a] = Wallets[t][a]
      BY EscrowAssumption DEF Init, Account
    <2>. QED BY <2>1, EscrowAssumption DEF Wallet
  <1>2. Pots = << >>
    BY DEF Init, Pots, Live
  <1>. QED BY <1>1, <1>2 DEF Init, Vault!Init, Wallet, Pots

(* The escrow contract implements the vault: however its records, indices and  *)
(* votes are kept, all anybody sees of the money is whole pots that are opened, *)
(* topped up, claimed before the deadline, reclaimed from it on, or locked and  *)
(* awarded, or forfeited to the contract when a resolution says so.             *)
THEOREM EscrowIsVault == Spec => ImplementsVault
  <1>1. TypeOK /\ [Next]_vars => [Vault!Next]_(Vault!vars)
    BY StepsImplement
  <1>. QED BY <1>1, ImplementsInitially, TypeCorrect, PTL DEF Spec, ImplementsVault, Vault!Spec
=============================================================================
