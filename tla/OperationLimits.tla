-------------------------- MODULE OperationLimits --------------------------
(***************************************************************************)
(* The resource envelope of the escrow contract (escrow/src/escrow.rs): a    *)
(* deposit or a withdrawal is refused when its estimated cost exceeds fixed  *)
(* limits. A withdrawal that is refused for good locks its escrow, and the   *)
(* estimate of a withdrawal depends on the fee configuration of its day.     *)
(*                                                                          *)
(* Lengths and counts are u32 and costs u64: the estimates below stay far    *)
(* under 2^64 for every u32, so that the saturating operations never do.     *)
(***************************************************************************)
EXTENDS FeeMath

MaxOperationSaltBytes == 512
MaxArbiterCount       == 10
MaxFeeRecipients      == 3

(* A cost: base + per salt byte + per participant. *)
Cost(base, perByte, perHead, saltBytes, heads) ==
    base + perByte * saltBytes + perHead * heads

DepositAdmitted(saltBytes, arbiters) ==
    /\ saltBytes <= MaxOperationSaltBytes /\ arbiters <= MaxArbiterCount
    /\ Cost(465139, 32, 20000, saltBytes, arbiters) <= 700000
    /\ Cost(72430, 8, 4096, saltBytes, arbiters) <= 120000

WithdrawAdmitted(saltBytes, recipients) ==
    /\ saltBytes <= MaxOperationSaltBytes /\ recipients <= MaxFeeRecipients
    /\ Cost(452582, 32, 15000, saltBytes, recipients) <= 620000
    /\ Cost(68096, 8, 4096, saltBytes, recipients) <= 96000

HasFees(fees, token) ==
    IF token \in DOMAIN fees.perAsset
    THEN fees.perAsset[token].feeBps > 0
    ELSE fees.bps > 0 \/ fees.oracle # NoOracle

(* Who a withdrawal of a token may pay: the recipient, and when any fee is    *)
(* configured the platform wallet and the collector.                          *)
RecipientCount(fees, token) ==
    1 + (IF HasFees(fees, token) /\ fees.platformWallet # NoAddress THEN 1 ELSE 0)
      + (IF HasFees(fees, token) /\ ActiveCollector(fees) # NoAddress THEN 1 ELSE 0)
=============================================================================
