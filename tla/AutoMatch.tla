------------------------------ MODULE AutoMatch ------------------------------
(***************************************************************************)
(* The auto-match engine: every minute each backend process polls the      *)
(* payments of an address, scores them against the open payment links and  *)
(* either marks a link paid or leaves the payment in the review queue.     *)
(* Amounts are integers, in units of 1e-7, the finest the ledger knows; a  *)
(* link whose amount is no positive number has the amount 0. The engine    *)
(* compares them as doubles, and takes two that are less than 1e-7 apart   *)
(* for one: 2.0000001 and 2, but not 1.0000001 and 1.                      *)
(***************************************************************************)
EXTENDS Integers, FiniteSets, FiniteSetsExt, SequencesExt

CONSTANTS
    Txs, PayLinks,
    NoTx,        \* no transaction: a null hash, an unset cursor
    NoMemo,
    TxTerms,     \* memo, asset and amount of each payment
    LinkTerms,   \* the same of each link, as its owner asks for
    ReadAlike,   \* pairs of amounts whose doubles are less than 1e-7 apart
    Precision,   \* the units by which such amounts differ at most: 1 below 2^29 coins
    Matchers,    \* backend processes
    PageSize,    \* payments one poll returns
    DbFails      \* whether a write of the engine may fail

ASSUME MatchAssumption ==
    /\ NoTx \notin Txs /\ PageSize \in Nat \ {0} /\ DbFails \in BOOLEAN
    /\ \A t \in Txs : TxTerms[t].amount \in Nat
    /\ \A l \in PayLinks : LinkTerms[l].amount \in Nat
    /\ Precision \in Nat
    /\ \A p \in ReadAlike : p[1] - p[2] \in -Precision..Precision

VARIABLES
    landed,      \* payments to the address, in ledger order
    plink,       \* payment_links
    review,      \* unmatched_transactions
    cursorOf,    \* destinationCursors, in the memory of each process
    cycle,       \* the cycle each process works on
    demand,      \* the links an on-demand request scores its payment against
    announced    \* auto_reconciliation.succeeded events

matchVars == <<landed, plink, review, cursorOf, cycle, demand, announced>>

NoCycle == [step |-> "idle", links |-> {}, todo |-> <<>>]
NoDemand == [asked |-> FALSE, links |-> {}]

MatchTypeOK ==
    /\ IsInjective(landed) /\ Range(landed) \subseteq Txs
    /\ \A l \in PayLinks : /\ plink[l].status \in {"absent", "open", "paid", "expired"}
                           /\ plink[l].tx \in Range(landed) \cup {NoTx}
                           /\ (plink[l].status = "paid" <=> plink[l].tx # NoTx)
    /\ review \in [Txs -> {"none", "pending", "resolved", "dismissed"}]
    /\ cursorOf \in [Matchers -> Txs \cup {NoTx}]
    /\ \A m \in Matchers : /\ cycle[m].step \in {"idle", "poll", "score"}
                           /\ cycle[m].links \subseteq PayLinks /\ Range(cycle[m].todo) \subseteq Txs
    /\ \A t \in Txs : demand[t].asked \in BOOLEAN /\ demand[t].links \subseteq PayLinks
    /\ announced \subseteq PayLinks \X Txs

MatchInit ==
    /\ landed = <<>>
    /\ plink = [l \in PayLinks |-> [status |-> "absent", tx |-> NoTx]]
    /\ review = [t \in Txs |-> "none"]
    /\ cursorOf = [m \in Matchers |-> NoTx]
    /\ cycle = [m \in Matchers |-> NoCycle]
    /\ demand = [t \in Txs |-> NoDemand]
    /\ announced = {}

-----------------------------------------------------------------------------
(* Payers, and the owners of the links.                                    *)

Pay(t) ==
    /\ t \notin Range(landed) /\ landed' = Append(landed, t)
    /\ UNCHANGED <<plink, review, cursorOf, cycle, demand, announced>>

OwnerWrites(l) ==
    /\ \/ plink[l].status = "absent" /\ plink' = [plink EXCEPT ![l].status = "open"]
       \/ plink[l].status = "open" /\ plink' = [plink EXCEPT ![l].status = "expired"]
    /\ UNCHANGED <<landed, review, cursorOf, cycle, demand, announced>>

-----------------------------------------------------------------------------
(* Scoring.                                                                *)

SharesMemo(l, links) == {k \in links : LinkTerms[k].memo = LinkTerms[l].memo}

Excluded(t, l) ==
    \/ TxTerms[t].asset # LinkTerms[l].asset
    \/ LinkTerms[l].memo # NoMemo /\ TxTerms[t].memo # LinkTerms[l].memo

memoPoints(l, links) ==
    CASE LinkTerms[l].memo = NoMemo -> 0
      [] LinkTerms[l].memo # NoMemo /\ Cardinality(SharesMemo(l, links)) = 1 -> 60
      [] OTHER -> 25

Exact(t, l) ==
    /\ LinkTerms[l].amount > 0
    /\ \/ TxTerms[t].amount = LinkTerms[l].amount
       \/ <<TxTerms[t].amount, LinkTerms[l].amount>> \in ReadAlike

\* The tolerance is 0.1 % of what the link asks for.
Near(t, l) ==
    LET asked == LinkTerms[l].amount
        delta == TxTerms[t].amount - asked
    IN  asked > 0 /\ delta * 1000 \in -asked..asked

amountPoints(t, l) ==
    CASE Exact(t, l) -> 40
      [] ~Exact(t, l) /\ Near(t, l) -> 20
      [] OTHER -> 0

scoreOne(t, l, links) ==
    IF Excluded(t, l) THEN 0 ELSE memoPoints(l, links) + amountPoints(t, l)

\* The candidates, with their scores, that a stable sort may leave first.
Best(t, links) ==
    LET scored == {[link |-> l, score |-> scoreOne(t, l, links)] : l \in links}
    IN  {b \in scored : b.score > 0 /\ \A s \in scored : s.score <= b.score}

\* A threshold that a near amount reaches.
resolveDecisionLoosely(confidence) ==
    CASE confidence >= 80 -> "auto_match"
      [] confidence >= 55 /\ confidence < 80 -> "review_required"
      [] OTHER -> "unmatched"

resolveDecision(confidence) ==
    CASE confidence >= 95 -> "auto_match"
      [] confidence >= 55 /\ confidence < 95 -> "review_required"
      [] OTHER -> "unmatched"

-----------------------------------------------------------------------------
(* Applying a decision.                                                    *)

\* The update takes an open link only, and the event is sent whether or not
\* it took one; an error of the database is logged and sends nothing.
applyAutoMatch(t, l) ==
    \/ DbFails /\ UNCHANGED <<plink, announced>>
    \/ /\ plink' = IF plink[l].status = "open"
                   THEN [plink EXCEPT ![l] = [status |-> "paid", tx |-> t]] ELSE plink
       /\ announced' = announced \cup {<<l, t>>}

\* One row per hash: a second one is ignored, an error is logged.
enqueueReview(t) ==
    \/ (DbFails \/ review[t] # "none") /\ UNCHANGED review
    \/ review[t] = "none" /\ review' = [review EXCEPT ![t] = "pending"]

applyDecision(t, links) ==
    LET auto == {b \in Best(t, links) : resolveDecision(b.score) = "auto_match"}
    IN  IF auto # {}
        THEN (\E b \in auto : applyAutoMatch(t, b.link)) /\ UNCHANGED review
        ELSE enqueueReview(t) /\ UNCHANGED <<plink, announced>>

-----------------------------------------------------------------------------
(* The cycle.                                                              *)

fetchOpenPaymentLinks == {l \in PayLinks : plink[l].status = "open"}

\* Newest first. The cursor holds a transaction hash, which is no paging
\* token: a poll with a cursor is refused, and answers as if nothing came.
fetchRecentPayments(cur) ==
    IF cur = NoTx THEN SubSeq(Reverse(landed), 1, Min({PageSize, Len(landed)})) ELSE <<>>

\* The cron skips a tick while a cycle runs, and so do the operators.
runAutoMatchCycle(m) ==
    /\ cycle[m].step = "idle" /\ fetchOpenPaymentLinks # {}
    /\ cycle' = [cycle EXCEPT ![m] = [NoCycle EXCEPT !.step = "poll", !.links = fetchOpenPaymentLinks]]
    /\ UNCHANGED <<landed, plink, review, cursorOf, demand, announced>>

pollPayments(m) ==
    /\ cycle[m].step = "poll"
    /\ LET page == fetchRecentPayments(cursorOf[m])
       IN  cycle' = [cycle EXCEPT ![m].step = "score", ![m].todo = page]
    /\ UNCHANGED <<landed, plink, review, cursorOf, demand, announced>>

\* The links were read before the first payment was matched.
processTransaction(m) ==
    /\ cycle[m].step = "score" /\ cycle[m].todo # <<>>
    /\ LET t == Head(cycle[m].todo)
       IN  /\ applyDecision(t, cycle[m].links)
           /\ cursorOf' = [cursorOf EXCEPT ![m] = t]
    /\ cycle' = [cycle EXCEPT ![m].todo = Tail(@)]
    /\ UNCHANGED <<landed, demand>>

endCycle(m) ==
    /\ cycle[m].step = "score" /\ cycle[m].todo = <<>>
    /\ cycle' = [cycle EXCEPT ![m] = NoCycle]
    /\ UNCHANGED <<landed, plink, review, cursorOf, demand, announced>>

\* An operator replays one payment: links are read, then it is scored.
fetchOpenLinksForDestination(t) ==
    /\ t \in Range(landed) /\ ~demand[t].asked
    /\ demand' = [demand EXCEPT ![t] = [asked |-> TRUE, links |-> fetchOpenPaymentLinks]]
    /\ UNCHANGED <<landed, plink, review, cursorOf, cycle, announced>>

processOnDemand(t) ==
    /\ demand[t].asked
    /\ applyDecision(t, demand[t].links)
    /\ demand' = [demand EXCEPT ![t] = NoDemand]
    /\ UNCHANGED <<landed, cursorOf, cycle>>

\* Operators close a pending row; a row that is not pending is left alone.
resolveReview(t) ==
    /\ review[t] = "pending"
    /\ \E status \in {"resolved", "dismissed"} : review' = [review EXCEPT ![t] = status]
    /\ UNCHANGED <<landed, plink, cursorOf, cycle, demand, announced>>

\* The process restarts: its cycle and its cursors are gone.
MatchCrash(m) ==
    /\ cycle' = [cycle EXCEPT ![m] = NoCycle]
    /\ cursorOf' = [cursorOf EXCEPT ![m] = NoTx]
    /\ UNCHANGED <<landed, plink, review, demand, announced>>

-----------------------------------------------------------------------------
MatchNext ==
    \/ \E t \in Txs : \/ Pay(t) \/ fetchOpenLinksForDestination(t) \/ processOnDemand(t)
                      \/ resolveReview(t)
    \/ \E l \in PayLinks : OwnerWrites(l)
    \/ \E m \in Matchers : \/ runAutoMatchCycle(m) \/ pollPayments(m) \/ processTransaction(m)
                           \/ endCycle(m) \/ MatchCrash(m)

MatchSpec == MatchInit /\ [][MatchNext]_matchVars

-----------------------------------------------------------------------------
Pays(t, l) ==
    /\ LinkTerms[l].memo # NoMemo /\ TxTerms[t].memo = LinkTerms[l].memo
    /\ TxTerms[t].asset = LinkTerms[l].asset
    /\ LinkTerms[l].amount > 0
    /\ TxTerms[t].amount - LinkTerms[l].amount \in -Precision..Precision

\* However stale the links a cycle or a replay scores against: a link is
\* announced as paid only when it has left the open state, and it is paid and
\* announced only for payments that carry its own memo, asset and amount, the
\* amount up to the precision of doubles - an amount that is merely within the
\* tolerance, or a memo two open links share, never gets past review.
AnnouncedIsSettled ==
    /\ \A l \in PayLinks : plink[l].status = "paid" => Pays(plink[l].tx, l)
    /\ \A a \in announced : plink[a[1]].status \in {"paid", "expired"} /\ Pays(a[2], a[1])
=============================================================================
