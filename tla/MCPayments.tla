------------------------------ MODULE MCPayments ------------------------------
(***************************************************************************)
(* The services around payments and property, checked in one run: an       *)
(* initial state chooses the one that works and the others rest. They      *)
(* share no table, so the states to visit are the sum of theirs, not the   *)
(* product.                                                                *)
(***************************************************************************)
EXTENDS RecurringPayments, Refunds, AutoMatch, Marketplace, MobileSync, TLC

CONSTANTS a1, a2, j1, j2, t1, t2, k1, k2, memo

VARIABLE working

paymentVars == <<recVars, refundVars, matchVars, marketVars, mobileVars, working>>

Init ==
    /\ working \in {"recurring", "refunds", "matching", "marketplace", "mobile"}
    /\ RecInit /\ RefundInit /\ MatchInit /\ MarketInit /\ MobileInit

\* Bound: requests for refunds overlap while there is one refund, and two refunds
\* take turns; the jobs of both overlap in any case.
FewRequests ==
    \/ Cardinality({o \in Operators : asking[o] # <<>>}) <= 1
    \/ Cardinality({r \in Refunds : refund[r].status # "absent"}) <= 1

Next ==
    /\ UNCHANGED working
    /\ IF working = "recurring" THEN RecNext ELSE UNCHANGED recVars
    /\ IF working = "refunds" THEN RefundNext /\ FewRequests' ELSE UNCHANGED refundVars
    /\ IF working = "matching" THEN MatchNext ELSE UNCHANGED matchVars
    /\ IF working = "marketplace" THEN MarketNext ELSE UNCHANGED marketVars
    /\ IF working = "mobile" THEN MobileNext ELSE UNCHANGED mobileVars

Spec == Init /\ [][Next]_paymentVars

Symmetry == Permutations({a1, a2}) \cup Permutations({j1, j2}) \cup Permutations(Refunds)

Terms(amount) == [memo |-> memo, asset |-> "XLM", amount |-> amount]
PaidTerms == [t \in {t1, t2} |-> Terms(IF t = t1 THEN 2001 ELSE 2002)]
AskedTerms == [k \in {k1, k2} |-> Terms(IF k = k1 THEN 2000 ELSE 2001)]

\* t1 is one unit off k1 and passes for it, t2 is one unit off k2 and does not,
\* and two off k1, at the edge of the tolerance.
Alike == {<<2001, 2000>>}
=============================================================================
