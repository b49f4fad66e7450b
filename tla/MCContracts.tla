----------------------------- MODULE MCContracts -----------------------------
(***************************************************************************)
(* Three contracts that share no state, checked in one run: an initial state *)
(* chooses the one that is called, the others rest in their initial state.   *)
(* The fee configurations are chosen so that every branch of route_payout is *)
(* taken: no per-asset entry, legacy basis points, explicit ratios that      *)
(* round, ratios that exceed the whole together, two that are refused, and  *)
(* oracle fees of either sign.                                               *)
(***************************************************************************)
EXTENDS FeeRouter, UpgradeGate, Stealth, TLC

CONSTANTS alice, dao, bob, xlm, code1, code2, eph1, spend1, spend2

Ratio(n, d) == [numerator |-> n, denominator |-> d]
Zero == Ratio(0, 0)

Legacy      == [feeBps |-> 5000, arbiterBps |-> 4000,
                arbiterFee |-> Zero, platformFee |-> Zero, collectorFee |-> Zero]
Explicit    == [feeBps |-> 10000, arbiterBps |-> 0,
                arbiterFee |-> Ratio(1, 3), platformFee |-> Ratio(1, 2),
                collectorFee |-> Ratio(1, 6)]
Excessive   == [Legacy EXCEPT !.feeBps = 15000]
Refused     == [Explicit EXCEPT !.collectorFee = Ratio(2, 1)]
Overlapping == [feeBps |-> 10000, arbiterBps |-> 0,
                arbiterFee |-> Ratio(1, 2), platformFee |-> Ratio(1, 2),
                collectorFee |-> Ratio(1, 2)]

MCAddress  == {alice, dao}
MCToken    == {xlm}
MCPerAsset == {Legacy, Explicit, Excessive, Refused, Overlapping}
MCBps      == {5000, 15000}
MCOracles  == {[usdFeeMicros |-> usd, staleThreshold |-> 0] : usd \in {-1, 2}}
MCSalts    == {0, 1, 511, 512, 513}
MCQuotes   == {[price |-> 1000000, timestamp |-> 0]}

MCAccount == {alice, bob}
MCCode    == {code1, code2}
MCWindows == {<<0, 0>>, <<1, 2>>}

MCEph   == {eph1}
MCSpend == {spend1, spend2}

VARIABLE called

contractVars == <<feeVars, upgradeVars, stealthVars, called>>

Init ==
    /\ called \in {"fee_router", "upgrade_gate", "stealth"}
    /\ FeeInit /\ GateInit /\ StealthInit

Next ==
    /\ UNCHANGED called
    /\ IF called = "fee_router" THEN FeeNext ELSE UNCHANGED feeVars
    /\ IF called = "upgrade_gate" THEN GateNext ELSE UNCHANGED upgradeVars
    /\ IF called = "stealth" THEN StealthNext ELSE UNCHANGED stealthVars

Spec == Init /\ [][Next]_contractVars
=============================================================================
