----------------------------- MODULE FeeRouter -----------------------------
(***************************************************************************)
(* The fee component on its own: the configuration that admin entry points  *)
(* write, and route_payout, which turns a settled amount into transfers out  *)
(* of the contract's pooled token balance (escrow/src/fee_router.rs).        *)
(*                                                                          *)
(* Every call is one atomic Soroban transaction, hence one action. A call    *)
(* that returns an error rolls back and is therefore no step at all. The     *)
(* oracle is an external contract: its quote changes on its own.             *)
(***************************************************************************)
EXTENDS OperationLimits, KeyValue, FiniteSets

CONSTANTS Address,          \* user, platform and collector accounts
          Token,            \* token contracts
          Contract,         \* the escrow contract's own account
          PerAssetInputs,   \* per-asset configurations an admin may submit
          BpsInputs,        \* global fee_bps an admin may submit
          OracleInputs,     \* oracle configurations an admin may submit
          Quotes,           \* quotes the oracle may give
          SaltSizes,        \* lengths of salts, in bytes
          MaxAmount,        \* bound on the amount of one payout
          Float,            \* what the contract holds of each token initially
          MaxRotations,     \* bound on the collector index
          MaxNow            \* bound on the ledger clock

FeeRatio == [numerator : Nat, denominator : Nat]

PerAssetConfig == [feeBps : Nat, arbiterBps : Nat, arbiterFee : FeeRatio,
                   platformFee : FeeRatio, collectorFee : FeeRatio]

ASSUME FeeRouterAssumption ==
    /\ Contract \notin Address /\ NoAddress \notin Address \cup {Contract}
    /\ MaxAmount \in Nat /\ Float \in Nat /\ MaxRotations \in Nat /\ MaxNow \in Nat
    /\ IsFiniteSet(Address) /\ BpsInputs \subseteq Nat /\ SaltSizes \subseteq Nat
    /\ \A cfg \in PerAssetInputs : cfg \in PerAssetConfig
    /\ \A o \in OracleInputs : o \in [usdFeeMicros : Int, staleThreshold : Nat]
    /\ \A q \in Quotes : q \in [price : Nat \ {0}, timestamp : Nat]

Holder == Address \cup {Contract}

VARIABLES fees,     \* the fee configuration (see FeeMath)
          balance,  \* balances kept by the token contracts: token -> account -> amount
          time,     \* ledger timestamp
          last      \* the payout of the last call and the FeeBreakdown it returned

feeVars == <<fees, balance, time, last>>

NoPayout == [token |-> NoAddress, recipient |-> NoAddress, amount |-> 0, net |-> 0,
             total |-> 0, arbiter |-> 0, platform |-> 0, collector |-> 0]

FeeInit ==
    /\ fees = NoFees
    /\ balance = [t \in Token |-> [a \in Holder |-> IF a = Contract THEN Float ELSE 0]]
    /\ time = 0
    /\ last = NoPayout

(* A call that pays nothing out. *)
PaysNothing == last' = NoPayout /\ UNCHANGED balance

-----------------------------------------------------------------------------
(* Admin setters. *)

SetFeeConfig(bps) ==
    /\ fees' = [fees EXCEPT !.bps = bps]
    /\ PaysNothing /\ UNCHANGED time

SetPerAssetFee(token, cfg) ==
    /\ PerAssetValid(cfg)
    /\ fees' = [fees EXCEPT !.perAsset = Put(fees.perAsset, token, cfg)]
    /\ PaysNothing /\ UNCHANGED time

SetOracleFeeConfig(oracle) ==
    /\ fees' = [fees EXCEPT !.oracle = oracle]
    /\ PaysNothing /\ UNCHANGED time

SetPlatformWallet(wallet) ==
    /\ fees' = [fees EXCEPT !.platformWallet = wallet]
    /\ PaysNothing /\ UNCHANGED time

RotateCollector(collector) ==
    LET next == fees.collectorIndex + 1
    IN  /\ next <= MaxRotations
        /\ fees' = [fees EXCEPT !.collectorIndex = next,
                                !.collectorAt = Put(fees.collectorAt, next, collector)]
        /\ PaysNothing /\ UNCHANGED time

-----------------------------------------------------------------------------
(* Payouts. The recipient is whoever a withdrawal or a resolution names, the  *)
(* contract itself included.                                                  *)

RoutePayout(token, recipient, amount, arbiter) ==
    LET b == FeeBreakdown(fees, time, token, amount, arbiter # NoAddress)
    IN  /\ RoutePayoutSucceeds(fees, time, token, amount)
        /\ PaidOut(fees, b) <= balance[token][Contract]
        /\ balance' = [balance EXCEPT ![token] =
                [a \in Holder |-> @[a] + PaidTo(a, fees, b, recipient, arbiter)
                                     - (IF a = Contract THEN PaidOut(fees, b) ELSE 0)]]
        /\ last' = [token |-> token, recipient |-> recipient, amount |-> amount,
                    net |-> b.net, total |-> b.total, arbiter |-> b.arbiter,
                    platform |-> b.platform, collector |-> b.collector]
        /\ UNCHANGED <<fees, time>>

-----------------------------------------------------------------------------
(* The environment: the oracle's answer and the ledger clock. *)

OracleMoves(quote) ==
    /\ fees' = [fees EXCEPT !.quote = quote]
    /\ PaysNothing /\ UNCHANGED time

LedgerCloses ==
    /\ time < MaxNow
    /\ time' = time + 1
    /\ PaysNothing /\ UNCHANGED fees

FeeNext ==
    \/ \E bps \in BpsInputs : SetFeeConfig(bps)
    \/ \E t \in Token, cfg \in PerAssetInputs : SetPerAssetFee(t, cfg)
    \/ \E o \in OracleInputs : SetOracleFeeConfig(o)
    \/ \E w \in Address : SetPlatformWallet(w)
    \/ \E c \in Address : RotateCollector(c)
    \/ \E t \in Token, r \in Holder, amount \in 1..MaxAmount, arb \in Address \cup {NoAddress} :
          RoutePayout(t, r, amount, arb)
    \/ \E q \in Quotes \cup {NoQuote} : OracleMoves(q)
    \/ LedgerCloses

FeeSpec == FeeInit /\ [][FeeNext]_feeVars

-----------------------------------------------------------------------------
(* The oracle's configuration carries a negative fee; its setter checks none. *)
NegativeOracleFee == fees.oracle # NoOracle /\ fees.oracle.usdFeeMicros < 0

(* INV-10 (docs/INVARIANTS.md): whatever mixture of per-asset, oracle and     *)
(* global configuration was in force, a payout never takes more than its      *)
(* gross amount in fees; and it takes a negative fee, paying the recipient    *)
(* more than the gross amount, only where a fresh quote was priced with a     *)
(* negative oracle fee.                                                       *)
FeeCeiling ==
    /\ last.total <= last.amount
    /\ last.total < 0 => /\ NegativeOracleFee /\ QuoteFresh(fees, time)
                         /\ last.token \notin DOMAIN fees.perAsset

(* The parts of a payout that the contract keeps: the collector's share when  *)
(* there is no collector, and the net amount of a payout to itself.           *)
Retained(p) ==
    (IF ActiveCollector(fees) = NoAddress THEN Positive(p.collector) ELSE 0)
  + (IF p.recipient = Contract THEN p.net ELSE 0)

(* INV-01, INV-03: a payout takes exactly its gross amount out of the         *)
(* contract, less what the contract is documented to keep: the rounding of    *)
(* three shares leaves no dust, and no share of a missing arbiter or platform *)
(* wallet is dropped or paid twice. Only a negative fee takes more out, by    *)
(* as much as it is.                                                          *)
PayoutIsWhole ==
    [][last' # NoPayout =>
          balance[last'.token][Contract] - balance'[last'.token][Contract]
              = last'.amount + Positive(-last'.total) - Retained(last')]_feeVars

(* A configuration no payout of the token gets through: the ratios claim more *)
(* than the whole fee together, or the global basis points more than the      *)
(* amount. No setter refuses either.                                          *)
Part(r)  == IF r.numerator = 0 THEN 1 ELSE r.denominator

RatiosFit(cfg) ==
    LET a == cfg.arbiterFee  p == cfg.platformFee  c == cfg.collectorFee
    IN  a.numerator * (Part(p) * Part(c)) + p.numerator * (Part(a) * Part(c))
            + c.numerator * (Part(a) * Part(p)) <= Part(a) * (Part(p) * Part(c))

Misconfigured(t) ==
    IF t \in DOMAIN fees.perAsset THEN ~RatiosFit(fees.perAsset[t])
                                  ELSE fees.bps > BpsDenominator

(* What was deposited can be withdrawn, as far as fees are concerned: under   *)
(* the configuration of the day, whatever it was at the deposit, the resource *)
(* envelope admits the withdrawal of every escrow that it admitted, and       *)
(* route_payout accepts the amount. The exception is a misconfiguration, one  *)
(* of the two above and no other: within them the checks of the setters       *)
(* suffice, for every amount and rounding. A withdrawal refused for good      *)
(* locks an escrow without a deadline for ever.                               *)
NothingStranded ==
    \A t \in Token, salt \in SaltSizes, arbiters \in 0..MaxArbiterCount :
        DepositAdmitted(salt, arbiters) =>
            /\ WithdrawAdmitted(salt, RecipientCount(fees, t))
            /\ \/ \A amount \in 1..MaxAmount : RoutePayoutSucceeds(fees, time, t, amount)
               \/ Misconfigured(t)
=============================================================================
