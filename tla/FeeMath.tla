------------------------------ MODULE FeeMath ------------------------------
(***************************************************************************)
(* The arithmetic of the fee router: how a settled amount is divided        *)
(* between the recipient, the arbiter, the platform wallet and the fee      *)
(* collector (escrow/src/fee.rs and escrow/src/fee_router.rs), and which    *)
(* configurations the admin setters of escrow/src/admin.rs accept.          *)
(*                                                                          *)
(* Everything here is a function of one record, the fee configuration that  *)
(* the contract keeps in its storage:                                       *)
(*                                                                          *)
(*   bps            the global FeeConfig.fee_bps                            *)
(*   perAsset       PerAssetFee: token -> per-asset configuration           *)
(*   oracle         OracleFeeConfig, or NoOracle                            *)
(*   quote          what oracle::fetch_price returns at the moment          *)
(*   platformWallet the PlatformWallet singleton, or NoAddress              *)
(*   collectorIndex, collectorAt                                            *)
(*                  FeeCollectorIndex and FeeCollector(index)               *)
(***************************************************************************)
EXTENDS Integers, Functions

CONSTANTS NoAddress, \* "None" for an optional address
          NoOracle,  \* no OracleFeeConfig is stored
          NoQuote    \* the oracle call failed or returned a price <= 0

BpsDenominator == 10000

NoFees == [bps            |-> 0,
           perAsset       |-> << >>,
           oracle         |-> NoOracle,
           quote          |-> NoQuote,
           platformWallet |-> NoAddress,
           collectorIndex |-> 0,
           collectorAt    |-> << >>]

-----------------------------------------------------------------------------
(* Ratios and their validation (shared/src/types.rs). *)

RatioValid(r) ==
    r.numerator = 0 \/ (r.denominator # 0 /\ r.numerator <= r.denominator)

(* The part of an amount a ratio stands for; the caller has checked that the *)
(* ratio is valid.                                                           *)
ApplyFeeRatio(amount, r) ==
    IF amount <= 0 \/ r.numerator = 0
    THEN 0
    ELSE (amount * r.numerator) \div r.denominator

UsesExplicitDistribution(cfg) ==
    cfg.arbiterFee.numerator > 0 \/ cfg.platformFee.numerator > 0
                                 \/ cfg.collectorFee.numerator > 0

(* Mutant: the basis points of the fee are not bounded. *)
PerAssetValidAnyBps(cfg) ==
    /\ cfg.arbiterBps <= BpsDenominator
    /\ RatioValid(cfg.arbiterFee)
    /\ RatioValid(cfg.platformFee)
    /\ RatioValid(cfg.collectorFee)

(* What set_per_asset_fee accepts: every bound is checked on its own, and    *)
(* nothing relates the three ratios to each other.                           *)
PerAssetValid(cfg) ==
    /\ cfg.feeBps <= BpsDenominator
    /\ cfg.arbiterBps <= BpsDenominator
    /\ RatioValid(cfg.arbiterFee)
    /\ RatioValid(cfg.platformFee)
    /\ RatioValid(cfg.collectorFee)

-----------------------------------------------------------------------------
(* The total fee. *)

(* A quote is used only when it is young enough (saturating subtraction: a   *)
(* timestamp in the future counts as age 0).                                 *)
QuoteFresh(fees, now) ==
    /\ fees.oracle # NoOracle
    /\ fees.quote # NoQuote
    /\ now - fees.quote.timestamp <= fees.oracle.staleThreshold

(* Rust's division truncates toward zero; usd_fee_micros is not validated and *)
(* may be negative.                                                           *)
TruncatedQuotient(a, b) == IF a >= 0 THEN a \div b ELSE -((-a) \div b)

CalculateFee(fees, now, amount) ==
    IF QuoteFresh(fees, now)
    THEN LET fee == TruncatedQuotient(fees.oracle.usdFeeMicros * 1000000, fees.quote.price)
         IN  IF fee > amount THEN amount ELSE fee
    ELSE (amount * fees.bps) \div BpsDenominator

(* A per-asset entry wins over the oracle and over the global basis points. *)
CalculateFeeForToken(fees, now, token, amount) ==
    IF token \in DOMAIN fees.perAsset
    THEN (amount * fees.perAsset[token].feeBps) \div BpsDenominator
    ELSE CalculateFee(fees, now, amount)

-----------------------------------------------------------------------------
(* The split of the total fee. *)

(* The collector at the current rotation index, or else the platform wallet. *)
ActiveCollector(fees) ==
    IF fees.collectorIndex \in DOMAIN fees.collectorAt
    THEN fees.collectorAt[fees.collectorIndex]
    ELSE fees.platformWallet

Split(arbiterFee, platformFee, collectorFee) ==
    [arbiter |-> arbiterFee, platform |-> platformFee, collector |-> collectorFee]

(* The three ratios, rounded down each; the share of an absent arbiter goes   *)
(* to the collector.                                                          *)
DistributedSplit(cfg, total, hasArbiter) ==
    LET arbiterShare == ApplyFeeRatio(total, cfg.arbiterFee)
        collectorFee == ApplyFeeRatio(total, cfg.collectorFee)
    IN  Split(IF hasArbiter THEN arbiterShare ELSE 0,
              ApplyFeeRatio(total, cfg.platformFee),
              IF hasArbiter THEN collectorFee ELSE collectorFee + arbiterShare)

(* Mutant: what rounding leaves over belongs to nobody. *)
ExplicitSplitWithDust(cfg, total, hasArbiter) == DistributedSplit(cfg, total, hasArbiter)

(* What rounding leaves over goes to the collector as well. *)
ExplicitSplit(cfg, total, hasArbiter) ==
    LET s == DistributedSplit(cfg, total, hasArbiter)
    IN  [s EXCEPT !.collector = @ + (total - (s.arbiter + s.platform + s.collector))]

(* The shares that the explicit ratios claim; route_payout fails with         *)
(* InvalidFeeConfiguration when they exceed the fee.                          *)
ClaimedShares(cfg, total) ==
    ApplyFeeRatio(total, cfg.arbiterFee) + ApplyFeeRatio(total, cfg.platformFee)
        + ApplyFeeRatio(total, cfg.collectorFee)

(* Legacy basis points: the arbiter's part, the rest to the collector. *)
LegacySplit(cfg, total, hasArbiter) ==
    LET arbiterFee == IF hasArbiter THEN (total * cfg.arbiterBps) \div BpsDenominator
                                    ELSE 0
    IN  Split(arbiterFee, 0, total - arbiterFee)

NominalSplit(fees, token, total, hasArbiter) ==
    IF token \notin DOMAIN fees.perAsset
    THEN Split(0, 0, total)
    ELSE IF UsesExplicitDistribution(fees.perAsset[token])
         THEN ExplicitSplit(fees.perAsset[token], total, hasArbiter)
         ELSE LegacySplit(fees.perAsset[token], total, hasArbiter)

(* Without a platform wallet the platform's share joins the collector's. *)
RoutedSplit(fees, token, total, hasArbiter) ==
    LET s == NominalSplit(fees, token, total, hasArbiter)
    IN  IF fees.platformWallet = NoAddress
        THEN Split(s.arbiter, 0, s.collector + s.platform)
        ELSE s

(* Mutant: the fee is not bounded by the amount. *)
RoutePayoutAnyFee(fees, now, token, amount) ==
    (token \in DOMAIN fees.perAsset /\ UsesExplicitDistribution(fees.perAsset[token]))
        => ClaimedShares(fees.perAsset[token], CalculateFeeForToken(fees, now, token, amount))
               <= CalculateFeeForToken(fees, now, token, amount)

(* route_payout goes through: the explicit shares fit into the fee, and the   *)
(* net payout is an amount the token contract transfers (it refuses a         *)
(* negative one).                                                             *)
RoutePayoutSucceeds(fees, now, token, amount) ==
    LET total == CalculateFeeForToken(fees, now, token, amount)
    IN  /\ total <= amount
        /\ (token \in DOMAIN fees.perAsset /\ UsesExplicitDistribution(fees.perAsset[token]))
              => ClaimedShares(fees.perAsset[token], total) <= total

(* FeeBreakdown: what route_payout returns. *)
FeeBreakdown(fees, now, token, amount, hasArbiter) ==
    LET total == CalculateFeeForToken(fees, now, token, amount)
        s     == RoutedSplit(fees, token, total, hasArbiter)
    IN  [net |-> amount - total, total |-> total,
         arbiter |-> s.arbiter, platform |-> s.platform, collector |-> s.collector]

(* transfer_if_positive. *)
Positive(x) == IF x > 0 THEN x ELSE 0

(* What account a receives of a payout: the shares of everyone it is, added   *)
(* up. A share with no recipient stays in the contract.                       *)
PaidTo(a, fees, b, recipient, arbiter) ==
    (IF a = recipient THEN b.net ELSE 0)
  + (IF a = arbiter THEN Positive(b.arbiter) ELSE 0)
  + (IF a = fees.platformWallet THEN Positive(b.platform) ELSE 0)
  + (IF a = ActiveCollector(fees) THEN Positive(b.collector) ELSE 0)

(* What leaves the contract with a payout. *)
PaidOut(fees, b) ==
    b.net + Positive(b.arbiter) + Positive(b.platform)
  + (IF ActiveCollector(fees) = NoAddress THEN 0 ELSE Positive(b.collector))
=============================================================================
