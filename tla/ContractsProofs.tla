--------------------------- MODULE ContractsProofs ---------------------------
(***************************************************************************)
(* Theorems about the fee router, as a component of its own, and about the   *)
(* stealth contract: fees stay within the amount they are taken from, a      *)
(* payout leaves no dust, only a misconfiguration stops a withdrawal, and    *)
(* what the stealth contract holds is what its entries say.              *)
(***************************************************************************)
EXTENDS FeeRouter, Stealth, SumProofs, TLAPS

-----------------------------------------------------------------------------
(* Arithmetic.                                                              *)

LEMMA Quotient ==
    ASSUME NEW a \in Int, NEW b \in Nat, b > 0
    PROVE  a \div b \in Int /\ (a >= 0 => a \div b >= 0)
  OBVIOUS

LEMMA Product ==
    ASSUME NEW a \in Int, NEW b \in Int
    PROVE  a * b \in Int /\ (a >= 0 /\ b >= 0 => a * b >= 0)
  OBVIOUS

LEMMA FloorBelow ==
    ASSUME NEW a \in Nat, NEW d \in Nat, d > 0
    PROVE  a \div d \in Nat /\ d * (a \div d) <= a
  OBVIOUS

LEMMA Monotone ==
    ASSUME NEW x \in Int, NEW y \in Int, NEW k \in Nat, x <= y
    PROVE  k * x <= k * y
  OBVIOUS

LEMMA Cancel ==
    ASSUME NEW x \in Int, NEW y \in Int, NEW k \in Nat, k > 0, k * x <= k * y
    PROVE  x <= y
  <1> SUFFICES ASSUME x >= y + 1 PROVE FALSE
    OBVIOUS
  <1>1. k * (y + 1) <= k * x
    BY Monotone
  <1>2. k * (y + 1) = k * y + k
    OBVIOUS
  <1>3. PICK p \in Int, q \in Int : p = k * x /\ q = k * y
    BY Product
  <1>. QED BY <1>1, <1>2, <1>3

(* A fraction of a total is at most the total. *)
LEMMA Fraction ==
    ASSUME NEW total \in Nat, NEW n \in Nat, NEW d \in Nat, d > 0, n <= d
    PROVE  (total * n) \div d \in Nat /\ (total * n) \div d <= total
  <1>1. PICK a \in Nat : a = total * n
    BY Product
  <1>2. PICK q : q = a \div d
    OBVIOUS
  <1>3. q \in Nat /\ d * q <= a
    BY <1>2, FloorBelow
  <1>4. a <= d * total
    <2>1. total * n <= total * d
      BY Monotone
    <2>. QED BY <1>1, <2>1
  <1>5. PICK x \in Int, y \in Int : x = d * q /\ y = d * total
    BY <1>3, Product
  <1>6. d * q <= d * total
    BY <1>3, <1>4, <1>5
  <1>7. q <= total
    BY <1>3, <1>6, Cancel
  <1>. QED BY <1>1, <1>2, <1>3, <1>7

(* Three fractions that make up at most the whole, each rounded down. *)
LEMMA ThreeFractions ==
    ASSUME NEW t \in Nat,
           NEW n1 \in Nat, NEW d1 \in Nat \ {0}, NEW f1 \in Nat, d1 * f1 <= t * n1,
           NEW n2 \in Nat, NEW d2 \in Nat \ {0}, NEW f2 \in Nat, d2 * f2 <= t * n2,
           NEW n3 \in Nat, NEW d3 \in Nat \ {0}, NEW f3 \in Nat, d3 * f3 <= t * n3,
           n1 * (d2 * d3) + n2 * (d1 * d3) + n3 * (d1 * d2) <= d1 * (d2 * d3)
    PROVE  f1 + f2 + f3 <= t
  <1>1. PICK k1 \in Nat, k2 \in Nat, k3 \in Nat, d \in Nat :
           /\ k1 = d2 * d3 /\ k2 = d1 * d3 /\ k3 = d1 * d2 /\ d = d1 * (d2 * d3)
           /\ d = d1 * k1 /\ d = d2 * k2 /\ d = d3 * k3 /\ d > 0
    <2>1. /\ d2 * d3 \in Nat /\ d1 * d3 \in Nat /\ d1 * d2 \in Nat
          /\ d2 * d3 > 0
      OBVIOUS
    <2>2. d1 * (d2 * d3) \in Nat /\ d1 * (d2 * d3) > 0
      <3>1. PICK k \in Nat : k = d2 * d3 /\ k > 0
        BY <2>1
      <3>2. d1 * k \in Nat /\ d1 * k > 0
        BY <3>1
      <3>. QED BY <3>1, <3>2
    <2>3. d1 * (d2 * d3) = d2 * (d1 * d3) /\ d1 * (d2 * d3) = d3 * (d1 * d2)
      OBVIOUS
    <2>. QED BY <2>1, <2>2, <2>3
  <1>2. d * f1 <= t * (n1 * k1)
    <2>1. k1 * (d1 * f1) <= k1 * (t * n1)
      BY <1>1, Product, Monotone
    <2>2. k1 * (d1 * f1) = d * f1
      <3>1. k1 * (d1 * f1) = (d1 * k1) * f1
        BY <1>1
      <3>. QED BY <1>1, <3>1
    <2>3. k1 * (t * n1) = t * (n1 * k1)
      BY <1>1
    <2>. QED BY <2>1, <2>2, <2>3
  <1>3. d * f2 <= t * (n2 * k2)
    <2>1. k2 * (d2 * f2) <= k2 * (t * n2)
      BY <1>1, Product, Monotone
    <2>2. k2 * (d2 * f2) = d * f2
      <3>1. k2 * (d2 * f2) = (d2 * k2) * f2
        BY <1>1
      <3>. QED BY <1>1, <3>1
    <2>3. k2 * (t * n2) = t * (n2 * k2)
      BY <1>1
    <2>. QED BY <2>1, <2>2, <2>3
  <1>4. d * f3 <= t * (n3 * k3)
    <2>1. k3 * (d3 * f3) <= k3 * (t * n3)
      BY <1>1, Product, Monotone
    <2>2. k3 * (d3 * f3) = d * f3
      <3>1. k3 * (d3 * f3) = (d3 * k3) * f3
        BY <1>1
      <3>. QED BY <1>1, <3>1
    <2>3. k3 * (t * n3) = t * (n3 * k3)
      BY <1>1
    <2>. QED BY <2>1, <2>2, <2>3
  <1>5. PICK m1 \in Nat, m2 \in Nat, m3 \in Nat :
           m1 = n1 * k1 /\ m2 = n2 * k2 /\ m3 = n3 * k3 /\ m1 + m2 + m3 <= d
    BY <1>1, Product
  <1>6. t * (m1 + m2 + m3) <= t * d
    BY <1>5, Monotone
  <1>7. t * (m1 + m2 + m3) = t * m1 + t * m2 + t * m3
    BY <1>5
  <1>8. d * (f1 + f2 + f3) = d * f1 + d * f2 + d * f3
    OBVIOUS
  <1>9. PICK e1 \in Int, e2 \in Int, e3 \in Int, r1 \in Int, r2 \in Int, r3 \in Int, w \in Int :
           /\ e1 = d * f1 /\ e2 = d * f2 /\ e3 = d * f3
           /\ r1 = t * m1 /\ r2 = t * m2 /\ r3 = t * m3 /\ w = t * d
    BY <1>5, Product
  <1>10. d * (f1 + f2 + f3) <= d * t
    <2>1. e1 + e2 + e3 <= w
      BY <1>2, <1>3, <1>4, <1>5, <1>6, <1>7, <1>9
    <2>2. t * d = d * t
      OBVIOUS
    <2>. QED BY <1>8, <1>9, <2>1, <2>2
  <1>. QED BY <1>1, <1>10, Cancel

-----------------------------------------------------------------------------
(* The fee configuration.                                                  *)

StoredConfig == {cfg \in PerAssetConfig : PerAssetValid(cfg)}

(* Every configuration the setters and the oracle can bring about. *)
Fees ==
    [bps            : Nat,
     perAsset       : UNION {[S -> StoredConfig] : S \in SUBSET Token},
     oracle         : OracleInputs \cup {NoOracle},
     quote          : Quotes \cup {NoQuote},
     platformWallet : Address \cup {NoAddress},
     collectorIndex : Nat,
     collectorAt    : UNION {[S -> Address] : S \in SUBSET Nat}]

FeeTypes ==
    /\ fees \in Fees
    /\ balance \in [Token -> [Holder -> Int]]
    /\ time \in Nat

LEMMA PutTyped ==
    ASSUME NEW K, NEW V, NEW store, store \in UNION {[S -> V] : S \in SUBSET K},
           NEW key \in K, NEW value \in V
    PROVE  Put(store, key, value) \in UNION {[S -> V] : S \in SUBSET K}
  <1>1. PICK S \in SUBSET K : store \in [S -> V]
    OBVIOUS
  <1>2. Put(store, key, value) \in [S \cup {key} -> V]
    BY <1>1 DEF Put
  <1>3. S \cup {key} \in SUBSET K
    OBVIOUS
  <1>. QED BY <1>2, <1>3

(* The fee is a number: with a per-asset entry a part of the amount, and       *)
(* negative only by a fresh quote and an oracle's fee that is.                *)
LEMMA FeeIsNumber ==
    ASSUME NEW cfg \in Fees, NEW now \in Nat, NEW token \in Token, NEW amount \in Nat
    PROVE  /\ CalculateFeeForToken(cfg, now, token, amount) \in Int
           /\ CalculateFeeForToken(cfg, now, token, amount) < 0 =>
                 /\ token \notin DOMAIN cfg.perAsset /\ QuoteFresh(cfg, now)
                 /\ cfg.oracle.usdFeeMicros < 0
           /\ CalculateFeeForToken(cfg, now, token, amount) <= amount
                 \/ (token \notin DOMAIN cfg.perAsset /\ cfg.bps > BpsDenominator)
  <1>1. CASE token \in DOMAIN cfg.perAsset
    <2>1. PICK bps \in Nat : bps = cfg.perAsset[token].feeBps /\ bps <= 10000
      BY <1>1 DEF Fees, StoredConfig, PerAssetConfig, PerAssetValid, BpsDenominator
    <2>2. (amount * bps) \div 10000 \in Nat /\ (amount * bps) \div 10000 <= amount
      BY <2>1, Fraction
    <2>. QED BY <1>1, <2>1, <2>2 DEF CalculateFeeForToken, BpsDenominator
  <1>2. CASE token \notin DOMAIN cfg.perAsset /\ QuoteFresh(cfg, now)
    <2>1. cfg.oracle \in OracleInputs /\ cfg.quote \in Quotes
      BY <1>2 DEF QuoteFresh, Fees
    <2>2. PICK usd \in Int : usd = cfg.oracle.usdFeeMicros
      BY <2>1, FeeRouterAssumption
    <2>3. PICK price \in Nat \ {0} : price = cfg.quote.price
      BY <2>1, FeeRouterAssumption
    <2>4. PICK micros \in Int : micros = usd * 1000000
      BY Product
    <2>5. usd >= 0 => micros >= 0
      BY <2>4
    <2>6. price > 0 /\ -micros \in Int
      OBVIOUS
    <2>7. PICK fee : fee = TruncatedQuotient(micros, price)
      OBVIOUS
    <2>8. fee \in Int /\ (micros >= 0 => fee >= 0)
      <3>1. CASE micros >= 0
        BY <2>6, <2>7, <3>1, Quotient DEF TruncatedQuotient
      <3>2. CASE ~(micros >= 0)
        <4>1. (-micros) \div price \in Int
          BY <2>6, Quotient
        <4>. QED BY <2>7, <3>2, <4>1 DEF TruncatedQuotient
      <3>. QED BY <3>1, <3>2
    <2>9. CalculateFeeForToken(cfg, now, token, amount) = IF fee > amount THEN amount ELSE fee
      BY <1>2, <2>2, <2>3, <2>4, <2>7 DEF CalculateFeeForToken, CalculateFee
    <2>. QED BY <1>2, <2>2, <2>5, <2>8, <2>9
  <1>3. CASE token \notin DOMAIN cfg.perAsset /\ ~QuoteFresh(cfg, now)
    <2>1. PICK bps \in Nat : bps = cfg.bps
      BY DEF Fees
    <2>2. (amount * bps) \div 10000 \in Int /\ (amount * bps) \div 10000 >= 0
      <3>1. amount * bps \in Int /\ amount * bps >= 0
        BY Product
      <3>. QED BY <3>1, Quotient
    <2>3. bps <= 10000 => (amount * bps) \div 10000 <= amount
      BY Fraction
    <2>. QED BY <1>3, <2>1, <2>2, <2>3 DEF CalculateFeeForToken, CalculateFee, BpsDenominator
  <1>. QED BY <1>1, <1>2, <1>3

(* A ratio that is valid takes a part of the fee. *)
LEMMA RatioTakes ==
    ASSUME NEW total \in Nat, NEW r \in FeeRatio, RatioValid(r)
    PROVE  /\ ApplyFeeRatio(total, r) \in Nat
           /\ Part(r) \in Nat \ {0} /\ r.numerator \in Nat
           /\ Part(r) * ApplyFeeRatio(total, r) <= total * r.numerator
  <1>1. r.numerator \in Nat /\ r.denominator \in Nat
    BY DEF FeeRatio
  <1>2. CASE r.numerator = 0
    BY <1>1, <1>2 DEF ApplyFeeRatio, Part
  <1>3. CASE r.numerator # 0
    <2>1. PICK n \in Nat, d \in Nat \ {0} : n = r.numerator /\ d = r.denominator
      BY <1>1, <1>3 DEF RatioValid
    <2>2. PICK a \in Nat : a = total * n
      BY Product
    <2>3. a \div d \in Nat /\ d * (a \div d) <= a
      BY FloorBelow
    <2>4. CASE total = 0
      BY <1>1, <1>3, <2>1, <2>4 DEF ApplyFeeRatio, Part
    <2>5. CASE total # 0
      BY <1>3, <2>1, <2>2, <2>3, <2>5 DEF ApplyFeeRatio, Part
    <2>. QED BY <2>4, <2>5
  <1>. QED BY <1>2, <1>3

LEMMA StoredRatios ==
    ASSUME NEW c \in StoredConfig
    PROVE  /\ c.arbiterFee \in FeeRatio /\ c.platformFee \in FeeRatio /\ c.collectorFee \in FeeRatio
           /\ RatioValid(c.arbiterFee) /\ RatioValid(c.platformFee) /\ RatioValid(c.collectorFee)
           /\ c.arbiterBps \in Nat /\ c.arbiterBps <= 10000
  BY DEF StoredConfig, PerAssetConfig, PerAssetValid, BpsDenominator

(* The three ratios of a stored configuration, one by one. *)
LEMMA SharesTaken ==
    ASSUME NEW c \in StoredConfig, NEW total \in Nat, NEW r,
           r \in {c.arbiterFee, c.platformFee, c.collectorFee}
    PROVE  /\ ApplyFeeRatio(total, r) \in Nat /\ Part(r) \in Nat \ {0} /\ r.numerator \in Nat
           /\ Part(r) * ApplyFeeRatio(total, r) <= total * r.numerator
  <1>1. r \in FeeRatio /\ RatioValid(r)
    BY StoredRatios
  <1>. QED BY <1>1, RatioTakes

(* The ratios of a configuration that fits claim at most the whole fee. *)
LEMMA FittingRatios ==
    ASSUME NEW c \in StoredConfig, NEW total \in Nat, RatiosFit(c)
    PROVE  ClaimedShares(c, total) <= total
  <1>1. PICK f1 \in Nat, f2 \in Nat, f3 \in Nat :
           /\ f1 = ApplyFeeRatio(total, c.arbiterFee) /\ f2 = ApplyFeeRatio(total, c.platformFee)
           /\ f3 = ApplyFeeRatio(total, c.collectorFee)
    BY SharesTaken
  <1>2. PICK d1 \in Nat \ {0}, d2 \in Nat \ {0}, d3 \in Nat \ {0} :
           d1 = Part(c.arbiterFee) /\ d2 = Part(c.platformFee) /\ d3 = Part(c.collectorFee)
    BY SharesTaken
  <1>3. PICK n1 \in Nat, n2 \in Nat, n3 \in Nat :
           /\ n1 = c.arbiterFee.numerator /\ n2 = c.platformFee.numerator
           /\ n3 = c.collectorFee.numerator
    BY SharesTaken
  <1>4. d1 * f1 <= total * n1 /\ d2 * f2 <= total * n2 /\ d3 * f3 <= total * n3
    BY <1>1, <1>2, <1>3, SharesTaken
  <1>5. n1 * (d2 * d3) + n2 * (d1 * d3) + n3 * (d1 * d2) <= d1 * (d2 * d3)
    BY <1>2, <1>3 DEF RatiosFit
  <1>6. f1 + f2 + f3 <= total
    BY <1>4, <1>5, ThreeFractions
  <1>. QED BY <1>1, <1>6 DEF ClaimedShares

(* The shares make up the fee. They are all natural numbers when the fee is   *)
(* one, and a share that nobody can be paid is not formed.                    *)
SharesWhole(s, total) ==
    /\ s.arbiter \in Int /\ s.platform \in Int /\ s.collector \in Int
    /\ s.arbiter + s.platform + s.collector = total
    /\ total >= 0 => s.arbiter >= 0 /\ s.platform >= 0 /\ s.collector >= 0
    /\ total < 0 => s.arbiter = 0 /\ s.platform = 0

LEMMA SharesFormed ==
    ASSUME NEW cfg \in Fees, NEW token \in Token, NEW total \in Int, NEW present \in BOOLEAN,
           token \in DOMAIN cfg.perAsset => total >= 0,
           (token \in DOMAIN cfg.perAsset /\ UsesExplicitDistribution(cfg.perAsset[token]))
              => ClaimedShares(cfg.perAsset[token], total) <= total,
           NEW s, s = RoutedSplit(cfg, token, total, present)
    PROVE  /\ SharesWhole(s, total)
           /\ ~present => s.arbiter = 0
           /\ cfg.platformWallet = NoAddress => s.platform = 0
  <1>1. PICK nominal : nominal = NominalSplit(cfg, token, total, present)
    OBVIOUS
  <1>2. /\ SharesWhole(nominal, total)
        /\ ~present => nominal.arbiter = 0
    <2>1. CASE token \notin DOMAIN cfg.perAsset
      BY <1>1, <2>1 DEF NominalSplit, Split, SharesWhole
    <2>2. CASE token \in DOMAIN cfg.perAsset
      <3>1. PICK c \in StoredConfig : c = cfg.perAsset[token]
        BY <2>2 DEF Fees
      <3>2. total \in Nat
        BY <2>2
      <3>3. CASE UsesExplicitDistribution(c)
        <4>1. nominal = ExplicitSplit(c, total, present)
          BY <1>1, <2>2, <3>1, <3>3 DEF NominalSplit
        <4>2. PICK a \in Nat, p \in Nat, k \in Nat :
                 /\ a = ApplyFeeRatio(total, c.arbiterFee) /\ p = ApplyFeeRatio(total, c.platformFee)
                 /\ k = ApplyFeeRatio(total, c.collectorFee)
          BY <3>2, SharesTaken
        <4>3. a + p + k <= total
          BY <2>2, <3>1, <3>3, <4>2 DEF ClaimedShares
        <4>4. PICK x \in Nat, y \in Nat : /\ x = (IF present THEN a ELSE 0)
                                          /\ y = (IF present THEN k ELSE k + a) /\ x + p + y = a + p + k
          OBVIOUS
        <4>5. nominal = [arbiter |-> x, platform |-> p, collector |-> y + (total - (x + p + y))]
          BY <4>1, <4>2, <4>4 DEF ExplicitSplit, DistributedSplit, Split
        <4>. QED BY <3>2, <4>3, <4>4, <4>5 DEF SharesWhole
      <3>4. CASE ~UsesExplicitDistribution(c)
        <4>1. nominal = LegacySplit(c, total, present)
          BY <1>1, <2>2, <3>1, <3>4 DEF NominalSplit
        <4>2. PICK a \in Nat : a = (total * c.arbiterBps) \div 10000 /\ a <= total
          BY <3>2, StoredRatios, Fraction
        <4>. QED BY <3>2, <4>1, <4>2 DEF LegacySplit, Split, BpsDenominator, SharesWhole
      <3>. QED BY <3>3, <3>4
    <2>. QED BY <2>1, <2>2
  <1>. QED BY <1>1, <1>2 DEF RoutedSplit, Split, SharesWhole

LEMMA FeeTypesInitially == FeeInit => FeeTypes
  <1> SUFFICES ASSUME FeeInit PROVE FeeTypes
    OBVIOUS
  <1>1. << >> \in [{} -> StoredConfig] /\ << >> \in [{} -> Address]
    OBVIOUS
  <1>2. /\ << >> \in UNION {[S -> StoredConfig] : S \in SUBSET Token}
        /\ << >> \in UNION {[S -> Address] : S \in SUBSET Nat}
    BY <1>1
  <1>3. NoFees \in Fees
    BY <1>2 DEF NoFees, Fees
  <1>4. balance \in [Token -> [Holder -> Int]]
    BY FeeRouterAssumption DEF FeeInit, Holder
  <1>. QED BY <1>3, <1>4 DEF FeeInit, FeeTypes

LEMMA FeesReplaced ==
    ASSUME NEW cfg \in Fees
    PROVE  /\ \A v \in Nat : [cfg EXCEPT !.bps = v] \in Fees
           /\ \A v \in UNION {[S -> StoredConfig] : S \in SUBSET Token} : [cfg EXCEPT !.perAsset = v] \in Fees
           /\ \A v \in OracleInputs : [cfg EXCEPT !.oracle = v] \in Fees
           /\ \A v \in Quotes \cup {NoQuote} : [cfg EXCEPT !.quote = v] \in Fees
           /\ \A v \in Address : [cfg EXCEPT !.platformWallet = v] \in Fees
           /\ \A i \in Nat : \A v \in UNION {[S -> Address] : S \in SUBSET Nat} :
                 [cfg EXCEPT !.collectorIndex = i, !.collectorAt = v] \in Fees
  BY DEF Fees

LEMMA SettersKeepTypes ==
    ASSUME FeeTypes,
           \/ \E bps \in BpsInputs : SetFeeConfig(bps)
           \/ \E t \in Token, cfg \in PerAssetInputs : SetPerAssetFee(t, cfg)
           \/ \E o \in OracleInputs : SetOracleFeeConfig(o)
           \/ \E w \in Address : SetPlatformWallet(w)
           \/ \E c \in Address : RotateCollector(c)
           \/ \E q \in Quotes \cup {NoQuote} : OracleMoves(q)
    PROVE  FeeTypes' /\ PaysNothing
  <1>0. fees \in Fees
    BY DEF FeeTypes
  <1>1. ASSUME NEW t \in Token, NEW cfg \in PerAssetInputs, SetPerAssetFee(t, cfg)
        PROVE  fees' \in Fees
    <2>1. cfg \in StoredConfig
      BY <1>1, FeeRouterAssumption DEF SetPerAssetFee, StoredConfig
    <2>2. fees.perAsset \in UNION {[S -> StoredConfig] : S \in SUBSET Token}
      BY <1>0 DEF Fees
    <2>3. Put(fees.perAsset, t, cfg) \in UNION {[S -> StoredConfig] : S \in SUBSET Token}
      BY <2>1, <2>2, PutTyped
    <2>. QED BY <1>0, <1>1, <2>3, FeesReplaced DEF SetPerAssetFee
  <1>2. ASSUME NEW c \in Address, RotateCollector(c)
        PROVE  fees' \in Fees
    <2>1. PICK next \in Nat : next = fees.collectorIndex + 1
      BY <1>0 DEF Fees
    <2>2. fees.collectorAt \in UNION {[S -> Address] : S \in SUBSET Nat}
      BY <1>0 DEF Fees
    <2>3. Put(fees.collectorAt, next, c) \in UNION {[S -> Address] : S \in SUBSET Nat}
      BY <2>2, PutTyped
    <2>. QED BY <1>0, <1>2, <2>1, <2>3, FeesReplaced DEF RotateCollector
  <1>3. fees' \in Fees
    <2>1. \A bps \in BpsInputs : SetFeeConfig(bps) => fees' \in Fees
      BY <1>0, FeesReplaced, FeeRouterAssumption DEF SetFeeConfig
    <2>2. \A o \in OracleInputs : SetOracleFeeConfig(o) => fees' \in Fees
      BY <1>0, FeesReplaced DEF SetOracleFeeConfig
    <2>3. \A w \in Address : SetPlatformWallet(w) => fees' \in Fees
      BY <1>0, FeesReplaced DEF SetPlatformWallet
    <2>4. \A q \in Quotes \cup {NoQuote} : OracleMoves(q) => fees' \in Fees
      BY <1>0, FeesReplaced DEF OracleMoves
    <2>. QED BY <1>1, <1>2, <2>1, <2>2, <2>3, <2>4
  <1>4. PaysNothing /\ UNCHANGED time
    BY DEF SetFeeConfig, SetPerAssetFee, SetOracleFeeConfig, SetPlatformWallet, RotateCollector, OracleMoves
  <1>. QED BY <1>3, <1>4 DEF FeeTypes, PaysNothing

-----------------------------------------------------------------------------
(* Payouts.                                                                *)

LEMMA PaidToNumber ==
    ASSUME NEW cfg \in Fees, NEW b, NEW a, NEW recipient, NEW arbiter,
           b.net \in Int, b.arbiter \in Int, b.platform \in Int, b.collector \in Int
    PROVE  PaidTo(a, cfg, b, recipient, arbiter) \in Int /\ PaidOut(cfg, b) \in Int
  <1>1. PICK n \in Int, x \in Int, y \in Int, z \in Int :
           n = b.net /\ x = Positive(b.arbiter) /\ y = Positive(b.platform) /\ z = Positive(b.collector)
    BY DEF Positive
  <1>. QED BY <1>1 DEF PaidTo, PaidOut

(* The wallets and the arbiter are not the contract: only the recipient may be. *)
LEMMA OthersAreNotTheContract ==
    ASSUME NEW cfg \in Fees, NEW arbiter \in Address \cup {NoAddress}
    PROVE  /\ ActiveCollector(cfg) # Contract /\ cfg.platformWallet # Contract
           /\ arbiter # Contract
  BY FeeRouterAssumption DEF ActiveCollector, Fees

(* What the contract loses in a payout is what the shares add up to. *)
LEMMA PayoutAddsUp ==
    ASSUME NEW cfg \in Fees, NEW b, NEW recipient, NEW arbiter \in Address \cup {NoAddress},
           NEW amount \in Nat, b.total \in Int, b.net = amount - b.total, SharesWhole(b, b.total)
    PROVE  PaidOut(cfg, b) - PaidTo(Contract, cfg, b, recipient, arbiter)
             = amount + Positive(-b.total)
                 - ((IF ActiveCollector(cfg) = NoAddress THEN Positive(b.collector) ELSE 0)
                     + (IF recipient = Contract THEN b.net ELSE 0))
  <1>1. PICK n \in Int, t \in Int, a \in Int, p \in Int, c \in Int :
           n = b.net /\ t = b.total /\ a = b.arbiter /\ p = b.platform /\ c = b.collector
    BY DEF SharesWhole
  <1>2. PICK x \in Int, y \in Int, z \in Int, m \in Int :
           x = Positive(a) /\ y = Positive(p) /\ z = Positive(c) /\ m = Positive(-t)
    BY <1>1 DEF Positive
  <1>3. n + x + y + z = amount + m
    <2>0. /\ n = amount - t /\ a + p + c = t
          /\ t >= 0 => a >= 0 /\ p >= 0 /\ c >= 0
          /\ t < 0 => a = 0 /\ p = 0
      BY <1>1 DEF SharesWhole
    <2>1. CASE t >= 0
      BY <1>2, <2>0, <2>1 DEF Positive
    <2>2. CASE t < 0
      BY <1>2, <2>0, <2>2 DEF Positive
    <2>. QED BY <2>1, <2>2
  <1>4. PICK q \in Int, r \in Int : /\ q = (IF ActiveCollector(cfg) = NoAddress THEN z ELSE 0)
                                    /\ r = (IF recipient = Contract THEN n ELSE 0)
    BY <1>1, <1>2
  <1>5. PaidTo(Contract, cfg, b, recipient, arbiter) = r
    <2>1. Contract # arbiter /\ Contract # cfg.platformWallet /\ Contract # ActiveCollector(cfg)
      BY OthersAreNotTheContract
    <2>2. PaidTo(Contract, cfg, b, recipient, arbiter)
            = (IF Contract = recipient THEN b.net ELSE 0) + 0 + 0 + 0
      BY <2>1 DEF PaidTo
    <2>3. r = IF Contract = recipient THEN b.net ELSE 0
      BY <1>1, <1>4
    <2>. QED BY <2>2, <2>3
  <1>6. PaidOut(cfg, b) = n + x + y + z - q
    BY <1>1, <1>2, <1>4 DEF PaidOut
  <1>7. /\ Positive(-b.total) = m
        /\ (IF ActiveCollector(cfg) = NoAddress THEN Positive(b.collector) ELSE 0) = q
        /\ (IF recipient = Contract THEN b.net ELSE 0) = r
    BY <1>1, <1>2, <1>4
  <1>8. (n + x + y + z - q) - r = amount + m - (q + r)
    BY <1>3
  <1>. QED BY <1>5, <1>6, <1>7, <1>8

Payouts == \E t \in Token, r \in Holder, amount \in 1..MaxAmount, arb \in Address \cup {NoAddress} :
               RoutePayout(t, r, amount, arb)

(* A payout, whole. *)
LEMMA PayoutStep ==
    ASSUME FeeTypes, NEW t \in Token, NEW r \in Holder, NEW amount \in 1..MaxAmount,
           NEW arb \in Address \cup {NoAddress}, RoutePayout(t, r, amount, arb)
    PROVE  /\ balance' \in [Token -> [Holder -> Int]] /\ UNCHANGED <<fees, time>>
           /\ last'.token = t /\ last'.amount = amount
           /\ last'.total = CalculateFeeForToken(fees, time, t, amount) /\ last'.total <= amount
           /\ balance[t][Contract] - balance'[t][Contract]
                = last'.amount + Positive(-last'.total) - Retained(last')
  <1>0. fees \in Fees /\ time \in Nat /\ balance \in [Token -> [Holder -> Int]]
        /\ amount \in Nat
    BY FeeRouterAssumption DEF FeeTypes
  <1>1. PICK cfg \in Fees, now \in Nat : cfg = fees /\ now = time
    BY <1>0
  <1>2. PICK total \in Int : total = CalculateFeeForToken(cfg, now, t, amount)
    BY <1>0, FeeIsNumber
  <1>3. t \in DOMAIN cfg.perAsset => total >= 0
    BY <1>0, <1>2, FeeIsNumber
  <1>4. PICK present \in BOOLEAN : present = (arb # NoAddress)
    OBVIOUS
  <1>5. PICK s : s = RoutedSplit(cfg, t, total, present)
    OBVIOUS
  <1>6. PICK b : b = FeeBreakdown(cfg, now, t, amount, present)
    OBVIOUS
  <1>7. /\ b.net = amount - total /\ b.total = total /\ b.arbiter = s.arbiter
        /\ b.platform = s.platform /\ b.collector = s.collector
    BY <1>2, <1>5, <1>6 DEF FeeBreakdown
  <1>8. /\ total <= amount
        /\ (t \in DOMAIN cfg.perAsset /\ UsesExplicitDistribution(cfg.perAsset[t]))
              => ClaimedShares(cfg.perAsset[t], total) <= total
    BY <1>1, <1>2 DEF RoutePayout, RoutePayoutSucceeds
  <1>9. SharesWhole(b, b.total)
    BY <1>3, <1>5, <1>7, <1>8, SharesFormed DEF SharesWhole
  <1>10. PICK before \in [Holder -> Int] : before = balance[t]
    BY <1>0
  <1>11. PICK after : after = [a \in Holder |-> before[a] + PaidTo(a, cfg, b, r, arb)
                                 - (IF a = Contract THEN PaidOut(cfg, b) ELSE 0)]
    OBVIOUS
  <1>12. /\ balance' = [balance EXCEPT ![t] = after]
         /\ UNCHANGED <<fees, time>>
         /\ last' = [token |-> t, recipient |-> r, amount |-> amount, net |-> b.net,
                     total |-> b.total, arbiter |-> b.arbiter, platform |-> b.platform,
                     collector |-> b.collector]
    BY <1>1, <1>4, <1>6, <1>10, <1>11 DEF RoutePayout
  <1>13. \A a \in Holder : PaidTo(a, cfg, b, r, arb) \in Int /\ PaidOut(cfg, b) \in Int
    <2>1. b.net \in Int /\ b.arbiter \in Int /\ b.platform \in Int /\ b.collector \in Int
      BY <1>0, <1>7, <1>9 DEF SharesWhole
    <2>. QED BY <2>1, PaidToNumber
  <1>14. after \in [Holder -> Int]
    <2>1. \A a \in Holder : after[a] \in Int
      BY <1>11, <1>13
    <2>2. DOMAIN after = Holder /\ after = [a \in Holder |-> after[a]]
      BY <1>11
    <2>. QED BY <2>1, <2>2
  <1>15. balance' \in [Token -> [Holder -> Int]] /\ balance'[t] = after
    BY <1>0, <1>12, <1>14
  <1>16. Contract \in Holder
    BY DEF Holder
  <1>17. PICK x \in Int, y \in Int : x = PaidTo(Contract, cfg, b, r, arb) /\ y = PaidOut(cfg, b)
    BY <1>13, <1>16
  <1>18. before[Contract] - after[Contract] = y - x
    BY <1>10, <1>11, <1>16, <1>17
  <1>19. y - x = amount + Positive(-b.total)
           - ((IF ActiveCollector(cfg) = NoAddress THEN Positive(b.collector) ELSE 0)
               + (IF r = Contract THEN b.net ELSE 0))
    BY <1>0, <1>2, <1>7, <1>9, <1>17, PayoutAddsUp
  <1>20. Retained(last') = (IF ActiveCollector(cfg) = NoAddress THEN Positive(b.collector) ELSE 0)
               + (IF r = Contract THEN b.net ELSE 0)
    BY <1>1, <1>12 DEF Retained
  <1>21. balance[t][Contract] - balance'[t][Contract]
           = last'.amount + Positive(-last'.total) - Retained(last')
    BY <1>10, <1>12, <1>15, <1>18, <1>19, <1>20
  <1>. QED BY <1>1, <1>2, <1>7, <1>8, <1>12, <1>15, <1>21

LEMMA FeeTypesKept ==
    ASSUME FeeTypes, [FeeNext]_feeVars
    PROVE  FeeTypes'
  <1>1. CASE Payouts
    BY <1>1, PayoutStep DEF Payouts, FeeTypes
  <1>2. CASE LedgerCloses \/ UNCHANGED feeVars
    BY <1>2 DEF LedgerCloses, PaysNothing, feeVars, FeeTypes
  <1>. QED BY <1>1, <1>2, SettersKeepTypes DEF FeeNext, Payouts

LEMMA FeeTypesAlways == FeeSpec => []FeeTypes
  BY FeeTypesInitially, FeeTypesKept, PTL DEF FeeSpec

(* INV-01, INV-03: the contract loses the gross amount of a payout, whatever   *)
(* rounding leaves over and whoever is missing; it keeps what nobody collects  *)
(* or what it was paid itself, and loses more only by a negative fee.          *)
THEOREM PayoutsAreWhole == FeeSpec => PayoutIsWhole
  <1> DEFINE Whole ==
         last' # NoPayout =>
            balance[last'.token][Contract] - balance'[last'.token][Contract]
                = last'.amount + Positive(-last'.total) - Retained(last')
  <1>1. FeeTypes /\ [FeeNext]_feeVars => [Whole]_feeVars
    <2> SUFFICES ASSUME FeeTypes, FeeNext PROVE Whole
      OBVIOUS
    <2>1. CASE Payouts
      BY <2>1, PayoutStep DEF Payouts
    <2>2. CASE LedgerCloses
      BY <2>2 DEF LedgerCloses, PaysNothing
    <2>. QED BY <2>1, <2>2, SettersKeepTypes DEF FeeNext, Payouts, PaysNothing
  <1>2. PayoutIsWhole <=> [][Whole]_feeVars
    BY DEF PayoutIsWhole
  <1>. QED BY <1>1, <1>2, FeeTypesAlways, PTL DEF FeeSpec

(* INV-10: whatever configuration was in force, the fee taken from a payout is *)
(* at most the amount, and negative only where a fresh quote was priced with a *)
(* negative oracle fee, which its setter does not refuse.                      *)
THEOREM FeesStayInside == FeeSpec => []FeeCeiling
  <1>1. FeeInit => FeeCeiling
    BY DEF FeeInit, NoPayout, FeeCeiling
  <1>2. FeeTypes /\ FeeCeiling /\ [FeeNext]_feeVars => FeeCeiling'
    <2> SUFFICES ASSUME FeeTypes, FeeCeiling, [FeeNext]_feeVars PROVE FeeCeiling'
      OBVIOUS
    <2>1. CASE Payouts
      <3>1. PICK t \in Token, r \in Holder, amount \in 1..MaxAmount, arb \in Address \cup {NoAddress} :
               RoutePayout(t, r, amount, arb)
        BY <2>1 DEF Payouts
      <3>2. fees \in Fees /\ time \in Nat /\ amount \in Nat
        BY FeeRouterAssumption DEF FeeTypes
      <3>3. last'.total < 0 => /\ t \notin DOMAIN fees.perAsset /\ QuoteFresh(fees, time)
                               /\ fees.oracle.usdFeeMicros < 0
        BY <3>1, <3>2, FeeIsNumber, PayoutStep
      <3>4. /\ last'.total <= last'.amount /\ last'.token = t
            /\ fees' = fees /\ time' = time
        BY <3>1, PayoutStep
      <3>. QED BY <3>3, <3>4 DEF FeeCeiling, NegativeOracleFee, QuoteFresh
    <2>2. CASE PaysNothing
      BY <2>2 DEF PaysNothing, NoPayout, FeeCeiling
    <2>3. CASE UNCHANGED feeVars
      BY <2>3 DEF feeVars, FeeCeiling, NegativeOracleFee, QuoteFresh
    <2>. QED BY <2>1, <2>2, <2>3, SettersKeepTypes DEF FeeNext, Payouts, LedgerCloses
  <1>. QED BY <1>1, <1>2, FeeTypesAlways, PTL DEF FeeSpec

-----------------------------------------------------------------------------
(* Withdrawals.                                                            *)

LEMMA RecipientsBounded ==
    ASSUME NEW cfg, NEW t
    PROVE  RecipientCount(cfg, t) \in 1..3
  BY DEF RecipientCount

(* What was deposited can be withdrawn, whatever fees are configured by then,  *)
(* for every salt, amount and rounding, unless the ratios of the token claim   *)
(* more than the whole or the global basis points exceed 10000.                *)
THEOREM NothingIsStranded == FeeSpec => []NothingStranded
  <1>1. FeeTypes => NothingStranded
    <2> SUFFICES ASSUME FeeTypes, NEW t \in Token, NEW salt \in SaltSizes, NEW arbiters \in 0..10,
                        salt <= 512
                 PROVE  /\ WithdrawAdmitted(salt, RecipientCount(fees, t))
                        /\ \/ \A amount \in 1..MaxAmount : RoutePayoutSucceeds(fees, time, t, amount)
                           \/ Misconfigured(t)
      BY DEF NothingStranded, DepositAdmitted, MaxArbiterCount, MaxOperationSaltBytes
    <2>1. WithdrawAdmitted(salt, RecipientCount(fees, t))
      <3>1. salt \in Nat
        BY FeeRouterAssumption
      <3>2. PICK n \in 1..3 : n = RecipientCount(fees, t)
        BY RecipientsBounded
      <3>3. WithdrawAdmitted(salt, n)
        BY <3>1 DEF WithdrawAdmitted, Cost, MaxFeeRecipients, MaxOperationSaltBytes
      <3>. QED BY <3>2, <3>3
    <2>2. ASSUME ~Misconfigured(t), NEW amount \in 1..MaxAmount
          PROVE  RoutePayoutSucceeds(fees, time, t, amount)
      <3>2. amount \in Nat
        BY FeeRouterAssumption
      <3>0. PICK cfg \in Fees, now \in Nat : cfg = fees /\ now = time
        BY DEF FeeTypes
      <3>1. PICK total \in Int : /\ cfg = fees /\ now = time
                                /\ total = CalculateFeeForToken(cfg, now, t, amount)
        BY <3>0, <3>2, FeeIsNumber
      <3>3. total <= amount
        BY <2>2, <3>1, <3>2, FeeIsNumber DEF Misconfigured
      <3>4. ASSUME t \in DOMAIN cfg.perAsset
            PROVE  ClaimedShares(cfg.perAsset[t], total) <= total
        <4>1. total \in Nat
          <5>0. PICK f \in Int : f = CalculateFeeForToken(cfg, now, t, amount)
            BY <3>2, FeeIsNumber
          <5>2. f < 0 => t \notin DOMAIN cfg.perAsset
            BY <3>2, <5>0, FeeIsNumber
          <5>3. f = total
            BY <3>1, <5>0
          <5>1. f >= 0
            BY <3>4, <5>2
          <5>. QED BY <5>1, <5>3
        <4>2. PICK c \in StoredConfig : c = cfg.perAsset[t]
          BY <3>4 DEF Fees
        <4>3. RatiosFit(c)
          BY <2>2, <3>1, <3>4, <4>2 DEF Misconfigured
        <4>. QED BY <4>1, <4>2, <4>3, FittingRatios
      <3>. QED BY <3>1, <3>3, <3>4 DEF RoutePayoutSucceeds
    <2>. QED BY <2>1, <2>2
  <1>. QED BY <1>1, FeeTypesAlways, PTL

-----------------------------------------------------------------------------
(* The stealth contract.                                                   *)

(* What the entries of a store hold of a coin, one by one and together. *)
HeldIn(store, coin) == [s \in DOMAIN store |-> IF store[s].token = coin THEN store[s].paid ELSE 0]

Held(store, coin) == SumOf(HeldIn(store, coin), DOMAIN store)

(* A store the contract can have. *)
Store(store) ==
    /\ IsFiniteSet(DOMAIN store)
    /\ \A s \in DOMAIN store : store[s].token \in Coins /\ store[s].paid \in Int
    /\ store = [s \in DOMAIN store |-> store[s]]

LEMMA HeldIsInt ==
    ASSUME NEW store, Store(store), NEW coin
    PROVE  Held(store, coin) \in Int /\ \A s \in DOMAIN store : HeldIn(store, coin)[s] \in Int
  <1>1. \A s \in DOMAIN store : HeldIn(store, coin)[s] \in Int
    BY DEF HeldIn, Store
  <1>. QED BY <1>1, SumType DEF Held, Store

LEMMA PutHolds ==
    ASSUME NEW store, Store(store), NEW key, key \notin DOMAIN store,
           NEW entry, entry.token \in Coins, entry.paid \in Int, NEW coin,
           NEW after, after = Put(store, key, entry)
    PROVE  /\ Store(after)
           /\ Held(after, coin) = Held(store, coin) + (IF entry.token = coin THEN entry.paid ELSE 0)
  <1>1. /\ DOMAIN after = DOMAIN store \cup {key} /\ after[key] = entry
        /\ \A s \in DOMAIN store : after[s] = store[s]
        /\ after = [s \in DOMAIN after |-> after[s]]
    BY DEF Put
  <1>2. Store(after)
    BY <1>1, FS_AddElement DEF Store
  <1>3. PICK w : w = HeldIn(after, coin)
    OBVIOUS
  <1>4. \A s \in DOMAIN store \cup {key} : w[s] \in Int
    BY <1>1, <1>2, <1>3, HeldIsInt
  <1>5. \A s \in DOMAIN store : w[s] = HeldIn(store, coin)[s]
    BY <1>1, <1>3 DEF HeldIn
  <1>6. w[key] = IF entry.token = coin THEN entry.paid ELSE 0
    BY <1>1, <1>3 DEF HeldIn
  <1>7. SumOf(w, DOMAIN store \cup {key}) = SumOf(w, DOMAIN store) + w[key]
    BY <1>4, SumAdd DEF Store
  <1>8. SumOf(w, DOMAIN store) = Held(store, coin)
    BY <1>5, SumSame DEF Held, Store
  <1>. QED BY <1>1, <1>2, <1>3, <1>6, <1>7, <1>8 DEF Held

LEMMA WithoutHolds ==
    ASSUME NEW store, Store(store), NEW key \in DOMAIN store, NEW coin,
           NEW after, after = Without(store, {key})
    PROVE  /\ Store(after)
           /\ Held(after, coin) = Held(store, coin) - (IF store[key].token = coin THEN store[key].paid ELSE 0)
  <1>1. /\ DOMAIN after = DOMAIN store \ {key}
        /\ \A s \in DOMAIN after : after[s] = store[s]
        /\ after = [s \in DOMAIN after |-> after[s]]
    BY DEF Without, Restrict
  <1>2. Store(after)
    <2>1. IsFiniteSet(DOMAIN after)
      BY <1>1, FS_RemoveElement DEF Store
    <2>. QED BY <1>1, <2>1 DEF Store
  <1>3. PICK w : w = HeldIn(store, coin)
    OBVIOUS
  <1>4. \A s \in DOMAIN store : w[s] \in Int
    BY <1>3, HeldIsInt
  <1>5. \A s \in DOMAIN after : w[s] = HeldIn(after, coin)[s]
    BY <1>1, <1>3 DEF HeldIn
  <1>6. w[key] = IF store[key].token = coin THEN store[key].paid ELSE 0
    BY <1>3 DEF HeldIn
  <1>7. SumOf(w, DOMAIN store) = w[key] + SumOf(w, DOMAIN store \ {key})
    BY <1>4, SumWithout DEF Store
  <1>8. SumOf(w, DOMAIN after) = Held(after, coin) /\ IsFiniteSet(DOMAIN after)
    <2>1. IsFiniteSet(DOMAIN after)
      BY <1>2 DEF Store
    <2>2. SumOf(w, DOMAIN after) = SumOf(HeldIn(after, coin), DOMAIN after)
      BY <1>5, <2>1, SumSame
    <2>. QED BY <2>1, <2>2 DEF Held
  <1>9. Held(after, coin) \in Int /\ w[key] \in Int
    BY <1>2, <1>4, HeldIsInt
  <1>. QED BY <1>1, <1>2, <1>3, <1>6, <1>7, <1>8, <1>9 DEF Held

(* The sum of StealthSolvent runs over the entries of one coin, in any order. *)
LEMMA HeldIsSum ==
    ASSUME Store(entries), NEW c
    PROVE  MapThenSumSet(LAMBDA s : entries[s].paid, {s \in DOMAIN entries : entries[s].token = c})
              = Held(entries, c)
  <1> DEFINE own == {s \in DOMAIN entries : entries[s].token = c}
             held == HeldIn(entries, c)
             paid == [s \in own |-> entries[s].paid]
             step(r, g) == IF r = {} THEN 0
                           ELSE entries[CHOOSE x \in r : TRUE].paid + g[r \ {CHOOSE x \in r : TRUE}]
  <1>1. IsFiniteSet(own) /\ own \subseteq DOMAIN entries
    BY FS_Subset DEF Store
  <1>2. ASSUME NEW g
        PROVE  g = [r \in SUBSET own |-> step(r, g)] <=> Iterates(paid, own, g)
    <2>1. \A r \in SUBSET own :
             step(r, g) = IF r = {} THEN 0 ELSE paid[First(r)] + g[r \ {First(r)}]
      BY FirstIsMember DEF First
    <2>. HIDE DEF step, paid
    <2>. QED BY <2>1 DEF Iterates
  <1>3. \E g : g = [r \in SUBSET own |-> step(r, g)]
    <2>. HIDE DEF step, paid
    <2>. QED BY <1>1, <1>2, IterationExists
  <1> DEFINE sum == CHOOSE g : g = [r \in SUBSET own |-> step(r, g)]
  <1>4. Iterates(paid, own, sum)
    <2>. HIDE DEF step, paid
    <2>. QED BY <1>2, <1>3
  <1>5. MapThenSumSet(LAMBDA s : entries[s].paid, own) = sum[own]
    BY DEF MapThenSumSet, MapThenFoldSet
  <1>6. sum[own] = SumOf(paid, own)
    <2>. HIDE DEF sum, paid
    <2>. QED BY <1>1, <1>4, IterationIsSum
  <1>7. SumOf(paid, own) = SumOf(held, own)
    <2>1. \A s \in own : paid[s] = held[s]
      BY DEF HeldIn
    <2>. HIDE DEF paid, own, held
    <2>. QED BY <1>1, <2>1, SumSame
  <1>8. Held(entries, c) = SumOf(held, own)
    <2>1. /\ \A s \in DOMAIN entries : held[s] \in Int
          /\ \A s \in DOMAIN entries \ own : held[s] = 0
      BY DEF HeldIn, Store
    <2>2. IsFiniteSet(DOMAIN entries)
      BY DEF Store
    <2>. HIDE DEF own
    <2>. QED BY <1>1, <2>1, <2>2, SumZeroes DEF Held
  <1>. HIDE DEF sum, paid, held
  <1>. QED BY <1>5, <1>6, <1>7, <1>8

Purses == [Coins -> [Wallets \cup {StealthAccount} -> Int]]

StealthInv ==
    /\ Store(entries) /\ purse \in Purses
    /\ \A c \in Coins : purse[c][StealthAccount] = Held(entries, c)

(* A payment between a wallet and the contract. *)
LEMMA PayMoves ==
    ASSUME purse \in Purses, NEW coin \in Coins, NEW amount \in Int,
           NEW from, NEW to, Pay(coin, from, to, amount), from # to,
           {from, to} \subseteq Wallets \cup {StealthAccount}
    PROVE  /\ purse' \in Purses
           /\ from = StealthAccount => \A c \in Coins :
                purse'[c][StealthAccount] = purse[c][StealthAccount] - (IF c = coin THEN amount ELSE 0)
           /\ to = StealthAccount => \A c \in Coins :
                purse'[c][StealthAccount] = purse[c][StealthAccount] + (IF c = coin THEN amount ELSE 0)
  <1> DEFINE all == Wallets \cup {StealthAccount}
  <1>1. PICK before : before = purse[coin]
    OBVIOUS
  <1>2. before \in [all -> Int] /\ DOMAIN before = all
    BY <1>1 DEF Purses
  <1>3. PICK after : after = [w \in all |->
                    CASE w = from -> before[w] - amount
                      [] w = to -> before[w] + amount
                      [] OTHER -> before[w]]
    OBVIOUS
  <1>4. purse' = [purse EXCEPT ![coin] = after]
    BY <1>1, <1>2, <1>3 DEF Pay
  <1>5. /\ \A w \in all : after[w] = IF w = from THEN before[w] - amount
                                     ELSE IF w = to THEN before[w] + amount ELSE before[w]
        /\ DOMAIN after = all /\ after = [w \in all |-> after[w]]
    BY <1>3
  <1>6. after \in [all -> Int]
    <2>1. \A w \in all : after[w] \in Int
      <3> SUFFICES ASSUME NEW w \in all PROVE after[w] \in Int
        OBVIOUS
      <3>1. before[w] \in Int
        BY <1>2
      <3>2. before[w] - amount \in Int /\ before[w] + amount \in Int
        BY <3>1
      <3>. QED BY <1>5, <3>1, <3>2
    <2>. HIDE DEF all
    <2>. QED BY <1>5, <2>1
  <1>7. purse' \in Purses
    BY <1>4, <1>6 DEF Purses
  <1>8. \A c \in Coins : purse'[c] = IF c = coin THEN after ELSE purse[c]
    BY <1>4 DEF Purses
  <1>9. \A c \in Coins : purse[c][StealthAccount] \in Int
    BY DEF Purses
  <1>10. StealthAccount \in all /\ before[StealthAccount] \in Int
    BY <1>2
  <1>11. from = StealthAccount => after[StealthAccount] = before[StealthAccount] - amount
    BY <1>5, <1>10
  <1>12. to = StealthAccount => after[StealthAccount] = before[StealthAccount] + amount
    BY <1>5, <1>10
  <1>. HIDE DEF all
  <1>13. ASSUME from = StealthAccount, NEW c \in Coins
         PROVE  purse'[c][StealthAccount] = purse[c][StealthAccount] - (IF c = coin THEN amount ELSE 0)
    BY <1>1, <1>8, <1>9, <1>11, <1>13
  <1>14. ASSUME to = StealthAccount, NEW c \in Coins
         PROVE  purse'[c][StealthAccount] = purse[c][StealthAccount] + (IF c = coin THEN amount ELSE 0)
    BY <1>1, <1>8, <1>9, <1>12, <1>14
  <1>. QED BY <1>7, <1>13, <1>14

LEMMA StealthInitially == StealthInit => StealthInv
  <1> SUFFICES ASSUME StealthInit PROVE StealthInv
    OBVIOUS
  <1>1. DOMAIN entries = {} /\ IsFiniteSet({}) /\ entries = [s \in {} |-> entries[s]]
    BY FS_EmptySet DEF StealthInit
  <1>2. Store(entries)
    BY <1>1 DEF Store
  <1>3. \A c \in Coins : Held(entries, c) = 0
    BY <1>1, SumEmpty DEF Held
  <1>4. purse \in Purses /\ \A c \in Coins : purse[c][StealthAccount] = 0
    BY StealthAssumption DEF StealthInit, Purses
  <1>. QED BY <1>2, <1>3, <1>4 DEF StealthInv

LEMMA DepositKeepsHeld ==
    ASSUME StealthInv, NEW sender \in Wallets, NEW coin \in Coins, NEW due \in 1..Purse, NEW paid \in 1..Purse,
           NEW eph, NEW spend, NEW address, NEW timeout,
           RegisterEphemeralKey(sender, coin, due, paid, eph, spend, address, timeout)
    PROVE  StealthInv'
  <1>1. PICK entry : entry = [token |-> coin, due |-> due, paid |-> paid, expires |-> ComputeExpiresAt(timeout)]
    OBVIOUS
  <1>2. entry.token = coin /\ entry.paid = paid /\ paid \in Int
    BY <1>1, StealthAssumption
  <1>3. PICK store, after : store = entries /\ after = entries'
    OBVIOUS
  <1>4. after = Put(store, address, entry) /\ address \notin DOMAIN store /\ Store(store)
    BY <1>1, <1>3 DEF RegisterEphemeralKey, StealthInv
  <1>5. Store(after) /\ \A c \in Coins : Held(after, c) = Held(store, c) + (IF coin = c THEN paid ELSE 0)
    BY <1>2, <1>4, PutHolds
  <1>6. /\ purse' \in Purses
        /\ \A c \in Coins :
             purse'[c][StealthAccount] = purse[c][StealthAccount] + (IF c = coin THEN paid ELSE 0)
    <2>1. Pay(coin, sender, StealthAccount, paid) /\ sender # StealthAccount
      BY StealthAssumption DEF RegisterEphemeralKey
    <2>. QED BY <1>2, <2>1, PayMoves DEF StealthInv
  <1>7. \A c \in Coins : purse[c][StealthAccount] = Held(store, c)
    BY <1>3 DEF StealthInv
  <1>8. \A c \in Coins : purse'[c][StealthAccount] = Held(after, c)
    BY <1>5, <1>6, <1>7
  <1>9. Store(entries') /\ \A c \in Coins : purse'[c][StealthAccount] = Held(entries', c)
    BY <1>3, <1>5, <1>8
  <1>. QED BY <1>6, <1>9 DEF StealthInv, Store, Held, HeldIn

LEMMA WithdrawKeepsHeld ==
    ASSUME StealthInv, NEW recipient \in Wallets, NEW eph, NEW spend, NEW address,
           StealthWithdraw(recipient, eph, spend, address)
    PROVE  StealthInv'
  <1>1. PICK store, after : store = entries /\ after = entries'
    OBVIOUS
  <1>2. after = Without(store, {address}) /\ address \in DOMAIN store /\ Store(store)
    BY <1>1 DEF StealthWithdraw, RemoveStealthEscrow, StealthInv
  <1>3. PICK coin \in Coins, paid \in Int : coin = store[address].token /\ paid = store[address].paid
    BY <1>2 DEF Store
  <1>4. Store(after) /\ \A c \in Coins : Held(after, c) = Held(store, c) - (IF coin = c THEN paid ELSE 0)
    BY <1>2, <1>3, WithoutHolds
  <1>5. /\ purse' \in Purses
        /\ \A c \in Coins :
             purse'[c][StealthAccount] = purse[c][StealthAccount] - (IF c = coin THEN paid ELSE 0)
    <2>1. Pay(coin, StealthAccount, recipient, paid) /\ recipient # StealthAccount
      BY <1>1, <1>3, StealthAssumption DEF StealthWithdraw
    <2>. QED BY <2>1, PayMoves DEF StealthInv
  <1>6. \A c \in Coins : purse[c][StealthAccount] = Held(store, c)
    BY <1>1 DEF StealthInv
  <1>7. \A c \in Coins : purse'[c][StealthAccount] = Held(after, c)
    BY <1>4, <1>5, <1>6
  <1>8. Store(entries') /\ \A c \in Coins : purse'[c][StealthAccount] = Held(entries', c)
    BY <1>1, <1>4, <1>7
  <1>. QED BY <1>5, <1>8 DEF StealthInv, Store, Held, HeldIn

(* Whatever was deposited, withdrawn and deposited again under one address, by *)
(* any number of wallets, the contract holds of every token exactly what the   *)
(* entries on record say.                                                      *)
THEOREM StealthIsSolvent == StealthSpec => []StealthSolvent
  <1>1. StealthInv /\ [StealthNext]_stealthVars => StealthInv'
    <2> SUFFICES ASSUME StealthInv, [StealthNext]_stealthVars PROVE StealthInv'
      OBVIOUS
    <2>1. CASE StealthTick \/ UNCHANGED stealthVars
      <3>1. entries' = entries /\ purse' = purse
        BY <2>1 DEF StealthTick, stealthVars
      <3>2. PICK store : store = entries
        OBVIOUS
      <3>3. Store(store) /\ purse \in Purses /\ \A c \in Coins : purse[c][StealthAccount] = Held(store, c)
        BY <3>2 DEF StealthInv
      <3>4. Store(entries') /\ purse' \in Purses /\ \A c \in Coins : purse'[c][StealthAccount] = Held(entries', c)
        BY <3>1, <3>2, <3>3
      <3>. QED BY <3>4 DEF StealthInv, Store, Held, HeldIn
    <2>. QED BY <2>1, DepositKeepsHeld, WithdrawKeepsHeld DEF StealthNext
  <1>2. StealthInv => StealthSolvent
    BY HeldIsSum DEF StealthInv, StealthSolvent
  <1>. QED BY <1>1, <1>2, StealthInitially, PTL DEF StealthSpec
=============================================================================
