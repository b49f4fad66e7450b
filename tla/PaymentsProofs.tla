--------------------------- MODULE PaymentsProofs ---------------------------
(***************************************************************************)
(* Proofs about the components that pay: the marketplace of usernames, the *)
(* payment list of the mobile application, refunds, recurring payments and *)
(* auto-match, each for any number of its rows, jobs, requests and         *)
(* processes at once.                                                      *)
(***************************************************************************)
EXTENDS RecurringPayments, Refunds, AutoMatch, Marketplace, MobileSync,
        FiniteSetTheorems, SequenceTheorems, TLAPS

-----------------------------------------------------------------------------
(* Marketplace. A request acts on what it read before, so little of what it  *)
(* knows is true when it writes. What holds is kept by the two checks of the *)
(* database: one active listing of a name, and the status that               *)
(* accept_username_bid reads again. An active listing has no buyer, and its  *)
(* seller owns the name or the listing was inserted too late; a listing with *)
(* a buyer has the one bid that bought it.                                   *)

Listing == [name : Names, seller : Traders, buyer : Traders \cup {NoTrader},
            status : {"active", "sold", "cancelled"}]
Bid == [listing : Nat, bidder : Traders, status : {"pending", "accepted", "rejected"}]

\* What a request may hold while there are so many listings and bids.
Held(ls, bs) ==
    {Vacant}
    \cup [step : {"insert-username", "check-listed", "insert-listing"}, name : Names, who : Traders]
    \cup [step : {"cancel"}, listing : 1..ls]
    \cup [step : {"insert-bid"}, listing : 1..ls, who : Traders]
    \cup [step : {"check-bid", "accept"}, listing : 1..ls, bid : 1..bs, who : Traders]

MarketShape ==
    /\ nameOwner \in [Names -> Traders \cup {NoTrader}]
    /\ listings \in Seq(Listing) /\ bids \in Seq(Bid)
    /\ \A b \in 1..Len(bids) : bids[b].listing \in 1..Len(listings)

RequestsHeld == requests \in [Requests -> Held(Len(listings), Len(bids))]

ActiveIsAlone ==
    \A k, l \in 1..Len(listings) :
        /\ listings[k].status = "active" /\ listings[l].status = "active"
        /\ listings[k].name = listings[l].name
        => k = l

SellerOwns ==
    \A l \in 1..Len(listings) : listings[l].status = "active" =>
        /\ listings[l].buyer = NoTrader
        /\ listings[l].seller = nameOwner[listings[l].name] \/ l \in overtaken

Accepted(b) == bids[b].status = "accepted"

OneSale ==
    /\ \A a, b \in 1..Len(bids) :
         Accepted(a) /\ Accepted(b) /\ bids[a].listing = bids[b].listing => a = b
    /\ \A b \in 1..Len(bids) : Accepted(b) => listings[bids[b].listing].buyer = bids[b].bidder
    /\ \A l \in 1..Len(listings) :
         /\ listings[l].buyer # NoTrader => \E b \in 1..Len(bids) : Accepted(b) /\ bids[b].listing = l
         /\ listings[l].status = "sold" => listings[l].buyer # NoTrader

MarketRows == MarketShape /\ ActiveIsAlone /\ SellerOwns /\ OneSale

MarketInv == MarketRows /\ RequestsHeld

-----------------------------------------------------------------------------
LEMMA Domains ==
    ASSUME MarketShape
    PROVE  /\ DOMAIN listings = 1..Len(listings) /\ DOMAIN bids = 1..Len(bids)
           /\ Len(listings) \in Nat /\ Len(bids) \in Nat
           /\ \A l \in 1..Len(listings) : listings[l] \in Listing
           /\ \A b \in 1..Len(bids) : bids[b] \in Bid
  BY DEF MarketShape

LEMMA Appended ==
    ASSUME NEW S, NEW s \in Seq(S), NEW e \in S
    PROVE  /\ Append(s, e) \in Seq(S) /\ Len(Append(s, e)) = Len(s) + 1
           /\ \A i \in 1..Len(s) : Append(s, e)[i] = s[i]
           /\ Append(s, e)[Len(s) + 1] = e
  OBVIOUS

LEMMA Replaced ==
    ASSUME NEW S, NEW s \in Seq(S), NEW i \in 1..Len(s), NEW e \in S
    PROVE  /\ [s EXCEPT ![i] = e] \in Seq(S) /\ Len([s EXCEPT ![i] = e]) = Len(s)
           /\ \A j \in 1..Len(s) : [s EXCEPT ![i] = e][j] = IF j = i THEN e ELSE s[j]
  OBVIOUS

LEMMA MoreHeld ==
    ASSUME NEW ls \in Nat, NEW bs \in Nat, NEW ls2 \in Nat, NEW bs2 \in Nat, ls <= ls2, bs <= bs2
    PROVE  Held(ls, bs) \subseteq Held(ls2, bs2)
  BY DEF Held

(* A request goes on while rows are only added. *)
LEMMA GoesOn ==
    ASSUME MarketShape, RequestsHeld, MarketShape', Len(listings) <= Len(listings'),
           Len(bids) <= Len(bids'), NEW r \in Requests,
           NEW to \in Held(Len(listings'), Len(bids')), Goes(r, to)
    PROVE  RequestsHeld'
  <1>1. Len(listings) \in Nat /\ Len(bids) \in Nat /\ Len(listings') \in Nat /\ Len(bids') \in Nat
    BY DEF MarketShape
  <1>2. Held(Len(listings), Len(bids)) \subseteq Held(Len(listings'), Len(bids'))
    BY <1>1, MoreHeld
  <1>. QED BY <1>2 DEF RequestsHeld, Goes

LEMMA VacantHeld == \A ls, bs : Vacant \in Held(ls, bs)
  BY DEF Held

-----------------------------------------------------------------------------
(* Steps that only read. *)

LEMMA RowsStay ==
    ASSUME MarketRows, UNCHANGED <<nameOwner, listings, bids, overtaken>>
    PROVE  MarketRows'
  <1>1. nameOwner' = nameOwner /\ listings' = listings /\ bids' = bids /\ overtaken' = overtaken
    OBVIOUS
  <1>. QED BY <1>1 DEF MarketRows, MarketShape, ActiveIsAlone, SellerOwns, OneSale, Accepted

LEMMA ReadKeeps ==
    ASSUME MarketInv, UNCHANGED <<nameOwner, listings, bids, overtaken>>, NEW r \in Requests,
           NEW to \in Held(Len(listings), Len(bids)), Goes(r, to)
    PROVE  MarketInv'
  <1>1. MarketRows'
    BY RowsStay DEF MarketInv
  <1>2. requests' \in [Requests -> Held(Len(listings), Len(bids))]
    BY DEF MarketInv, RequestsHeld, Goes
  <1>. QED BY <1>1, <1>2 DEF MarketInv, RequestsHeld

LEMMA ServerSteps ==
    ASSUME MarketInv, NEW r \in Requests,
           \/ \E name \in Names, who \in Traders : createUsername(r, name, who) \/ listUsername(r, name, who)
           \/ getActiveListingByUsername(r) \/ getBidById(r)
           \/ \E l \in DOMAIN listings, who \in Traders : cancelListing(r, l, who) \/ placeBid(r, l, who)
           \/ \E l \in DOMAIN listings, b \in DOMAIN bids, who \in Traders : acceptBid(r, l, b, who)
    PROVE  MarketInv'
  <1> DEFINE All == Held(Len(listings), Len(bids))
  <1>0. /\ MarketShape /\ requests[r] \in All
        /\ DOMAIN listings = 1..Len(listings) /\ DOMAIN bids = 1..Len(bids)
    BY Domains DEF MarketInv, MarketRows, RequestsHeld
  <1>1. UNCHANGED <<nameOwner, listings, bids, overtaken>>
    BY DEF createUsername, listUsername, getActiveListingByUsername, getBidById, cancelListing,
           placeBid, acceptBid
  <1>2. ASSUME NEW name \in Names, NEW who \in Traders,
               createUsername(r, name, who) \/ listUsername(r, name, who)
        PROVE  \E to \in All : Goes(r, to)
    <2>1. \A step \in {"insert-username", "check-listed"} :
            [step |-> step, name |-> name, who |-> who] \in All
      BY DEF Held
    <2>. QED BY <1>2, <2>1 DEF createUsername, listUsername
  <1>3. ASSUME getActiveListingByUsername(r)
        PROVE  \E to \in All : Goes(r, to)
    <2>1. PICK q : q = requests[r]
      OBVIOUS
    <2>2. q \in All /\ q.step = "check-listed"
      BY <1>0, <1>3, <2>1 DEF getActiveListingByUsername
    <2>3. q \in [step : {"check-listed"}, name : Names, who : Traders]
      BY <2>2 DEF Held, Vacant
    <2>4. [q EXCEPT !.step = "insert-listing"] = [step |-> "insert-listing", name |-> q.name, who |-> q.who]
      BY <2>3
    <2>5. [q EXCEPT !.step = "insert-listing"] \in All
      BY <2>3, <2>4 DEF Held
    <2>. QED BY <1>3, <2>1, <2>5, VacantHeld DEF getActiveListingByUsername
  <1>4. ASSUME getBidById(r)
        PROVE  \E to \in All : Goes(r, to)
    <2>1. PICK q : q = requests[r]
      OBVIOUS
    <2>2. q \in All /\ q.step = "check-bid"
      BY <1>0, <1>4, <2>1 DEF getBidById
    <2>3. q \in [step : {"check-bid"}, listing : 1..Len(listings), bid : 1..Len(bids), who : Traders]
      BY <2>2 DEF Held, Vacant
    <2>4. [q EXCEPT !.step = "accept"]
            = [step |-> "accept", listing |-> q.listing, bid |-> q.bid, who |-> q.who]
      BY <2>3
    <2>5. [q EXCEPT !.step = "accept"] \in All
      BY <2>3, <2>4 DEF Held
    <2>. QED BY <1>4, <2>1, <2>5, VacantHeld DEF getBidById
  <1>5. ASSUME NEW l \in DOMAIN listings, NEW who \in Traders,
               cancelListing(r, l, who) \/ placeBid(r, l, who)
        PROVE  \E to \in All : Goes(r, to)
    <2>1. [step |-> "cancel", listing |-> l] \in All
      BY <1>0 DEF Held
    <2>2. [step |-> "insert-bid", listing |-> l, who |-> who] \in All
      BY <1>0 DEF Held
    <2>. QED BY <1>5, <2>1, <2>2 DEF cancelListing, placeBid
  <1>6. ASSUME NEW l \in DOMAIN listings, NEW b \in DOMAIN bids, NEW who \in Traders,
               acceptBid(r, l, b, who)
        PROVE  \E to \in All : Goes(r, to)
    <2>1. [step |-> "check-bid", listing |-> l, bid |-> b, who |-> who] \in All
      BY <1>0 DEF Held
    <2>. QED BY <1>6, <2>1 DEF acceptBid
  <1>7. \E to \in All : Goes(r, to)
    BY <1>2, <1>3, <1>4, <1>5, <1>6
  <1>. QED BY <1>1, <1>7, ReadKeeps

-----------------------------------------------------------------------------
(* Steps that write. *)

LEMMA RegisterKeeps ==
    ASSUME MarketInv, NEW r \in Requests, insertUsername(r)
    PROVE  MarketInv'
  <1>1. MarketShape /\ ActiveIsAlone /\ SellerOwns /\ OneSale /\ RequestsHeld
    BY DEF MarketInv, MarketRows
  <1>2. PICK q : q = requests[r]
    OBVIOUS
  <1>3. /\ q.step = "insert-username" /\ Goes(r, Vacant)
        /\ nameOwner' = IF nameOwner[q.name] = NoTrader THEN [nameOwner EXCEPT ![q.name] = q.who] ELSE nameOwner
        /\ UNCHANGED <<listings, bids, overtaken>>
    BY <1>2 DEF insertUsername
  <1>4. q.name \in Names /\ q.who \in Traders
    BY <1>1, <1>2, <1>3 DEF RequestsHeld, Held, Vacant
  <1>5. MarketShape'
    BY <1>1, <1>3, <1>4 DEF MarketShape
  <1>6. \A n \in Names : nameOwner[n] # NoTrader => nameOwner'[n] = nameOwner[n]
    BY <1>1, <1>3, <1>4 DEF MarketShape
  <1>7. SellerOwns'
    <2> SUFFICES ASSUME NEW l \in 1..Len(listings), listings[l].status = "active"
                 PROVE  /\ listings[l].buyer = NoTrader
                        /\ listings[l].seller = nameOwner'[listings[l].name] \/ l \in overtaken
      BY <1>3 DEF SellerOwns
    <2>1. listings[l].seller \in Traders /\ listings[l].name \in Names
      BY <1>1, Domains DEF Listing
    <2>. QED BY <1>1, <1>6, <2>1, MarketAssumption DEF SellerOwns
  <1>8. ActiveIsAlone' /\ OneSale'
    BY <1>1, <1>3 DEF ActiveIsAlone, OneSale, Accepted
  <1>9. RequestsHeld'
    BY <1>1, <1>3, VacantHeld DEF RequestsHeld, Goes
  <1>. QED BY <1>5, <1>7, <1>8, <1>9 DEF MarketInv, MarketRows

\* The index lets a listing in when no other of its name is active.
LEMMA ListKeeps ==
    ASSUME MarketInv, NEW r \in Requests, createListing(r)
    PROVE  MarketInv'
  <1>1. MarketShape /\ ActiveIsAlone /\ SellerOwns /\ OneSale /\ RequestsHeld
    BY DEF MarketInv, MarketRows
  <1>2. PICK q : q = requests[r]
    OBVIOUS
  <1>3. q.step = "insert-listing" /\ Goes(r, Vacant) /\ UNCHANGED <<nameOwner, bids>>
    BY <1>2 DEF createListing
  <1>4. q.name \in Names /\ q.who \in Traders
    BY <1>1, <1>2, <1>3 DEF RequestsHeld, Held, Vacant
  <1>5. PICK new : new = [name |-> q.name, seller |-> q.who, buyer |-> NoTrader, status |-> "active"]
    OBVIOUS
  <1>6. new \in Listing
    BY <1>4, <1>5 DEF Listing
  <1>7. PICK n : n = Len(listings)
    OBVIOUS
  <1>8. CASE ActiveListings(q.name) # {}
    <2>1. UNCHANGED <<listings, overtaken>>
      BY <1>2, <1>8 DEF createListing
    <2>. QED BY <1>3, <2>1, VacantHeld, ReadKeeps
  <1>9. CASE ActiveListings(q.name) = {}
    <2>1. /\ listings' = Append(listings, new)
          /\ overtaken' = IF nameOwner[q.name] = q.who THEN overtaken ELSE overtaken \cup {n + 1}
      BY <1>2, <1>5, <1>7, <1>9 DEF createListing, InsertListing
    <2>2. /\ listings' \in Seq(Listing) /\ Len(listings') = n + 1 /\ n \in Nat
          /\ \A l \in 1..n : listings'[l] = listings[l]
          /\ listings'[n + 1] = new
      BY <1>1, <1>6, <1>7, <2>1, Appended DEF MarketShape
    <2>3. \A l \in 1..(n + 1) : l \in 1..n \/ l = n + 1
      BY <2>2
    <2>4. MarketShape'
      <3>1. \A b \in 1..Len(bids) : bids[b].listing \in 1..(n + 1)
        BY <1>1, <1>7, <2>2 DEF MarketShape
      <3>. QED BY <1>1, <1>3, <2>2, <3>1 DEF MarketShape
    <2>5. \A l \in 1..n : listings[l].status = "active" => listings[l].name # new.name
      BY <1>1, <1>5, <1>7, <1>9, Domains DEF ActiveListings
    <2>6. ActiveIsAlone'
      BY <1>1, <1>7, <2>2, <2>3, <2>5 DEF ActiveIsAlone
    <2>7. \A l \in 1..n : l \in overtaken => l \in overtaken'
      BY <2>1
    <2>8. new.buyer = NoTrader /\ (new.seller = nameOwner[new.name] \/ n + 1 \in overtaken')
      BY <1>5, <2>1
    <2>9. SellerOwns'
      BY <1>1, <1>3, <1>7, <2>2, <2>3, <2>7, <2>8 DEF SellerOwns
    <2>10. \A b \in 1..Len(bids) : bids[b].listing \in 1..n
      BY <1>1, <1>7 DEF MarketShape
    <2>11. OneSale'
      <3>1. bids' = bids
        BY <1>3
      <3>2. \A b \in 1..Len(bids) : Accepted(b)' <=> Accepted(b)
        BY <3>1 DEF Accepted
      <3>3. \A a, b \in 1..Len(bids) :
              Accepted(a)' /\ Accepted(b)' /\ bids'[a].listing = bids'[b].listing => a = b
        BY <1>1, <3>1, <3>2 DEF OneSale
      <3>4. \A b \in 1..Len(bids) : Accepted(b)' => listings'[bids'[b].listing].buyer = bids'[b].bidder
        BY <1>1, <2>2, <2>10, <3>1, <3>2 DEF OneSale
      <3>5. \A l \in 1..(n + 1) :
              /\ listings'[l].buyer # NoTrader =>
                    \E b \in 1..Len(bids) : Accepted(b)' /\ bids'[b].listing = l
              /\ listings'[l].status = "sold" => listings'[l].buyer # NoTrader
        BY <1>1, <1>5, <1>7, <2>2, <2>3, <3>1, <3>2 DEF OneSale
      <3>. QED BY <2>2, <3>1, <3>3, <3>4, <3>5 DEF OneSale
    <2>12. RequestsHeld'
      BY <1>1, <1>3, <1>7, <2>2, <2>4, VacantHeld, GoesOn DEF MarketShape
    <2>. QED BY <2>4, <2>6, <2>9, <2>11, <2>12 DEF MarketInv, MarketRows
  <1>. QED BY <1>8, <1>9

LEMMA CancelKeeps ==
    ASSUME MarketInv, NEW r \in Requests, updateCancelled(r)
    PROVE  MarketInv'
  <1>1. MarketShape /\ ActiveIsAlone /\ SellerOwns /\ OneSale /\ RequestsHeld
    BY DEF MarketInv, MarketRows
  <1>2. PICK l : l = requests[r].listing
    OBVIOUS
  <1>3. /\ listings' = [listings EXCEPT ![l].status = "cancelled"]
        /\ requests[r].step = "cancel" /\ Goes(r, Vacant) /\ UNCHANGED <<nameOwner, bids, overtaken>>
    BY <1>2 DEF updateCancelled
  <1>4. l \in 1..Len(listings)
    BY <1>1, <1>2, <1>3 DEF RequestsHeld, Held, Vacant
  <1>5. listings[l] \in Listing
    BY <1>1, <1>4, Domains
  <1>6. PICK new : new = [listings[l] EXCEPT !.status = "cancelled"]
    OBVIOUS
  <1>7. /\ new \in Listing /\ new.status = "cancelled" /\ new.buyer = listings[l].buyer
    BY <1>5, <1>6 DEF Listing
  <1>8. listings' = [listings EXCEPT ![l] = new]
    BY <1>3, <1>6
  <1>9. /\ listings' \in Seq(Listing) /\ Len(listings') = Len(listings)
        /\ \A k \in 1..Len(listings) : listings'[k] = IF k = l THEN new ELSE listings[k]
    BY <1>1, <1>4, <1>7, <1>8, Replaced DEF MarketShape
  <1>10. MarketShape'
    BY <1>1, <1>3, <1>9 DEF MarketShape
  <1>11. ActiveIsAlone'
    BY <1>1, <1>7, <1>9 DEF ActiveIsAlone
  <1>12. SellerOwns'
    BY <1>1, <1>3, <1>7, <1>9 DEF SellerOwns
  <1>13. \A k \in 1..Len(listings) : /\ listings'[k].buyer = listings[k].buyer
                                     /\ listings'[k].status = "sold" => listings[k].status = "sold"
    BY <1>7, <1>9
  <1>14. OneSale'
    BY <1>1, <1>3, <1>9, <1>13 DEF OneSale, Accepted, MarketShape
  <1>15. RequestsHeld'
    BY <1>1, <1>3, <1>9, VacantHeld DEF RequestsHeld, Goes
  <1>. QED BY <1>10, <1>11, <1>12, <1>14, <1>15 DEF MarketInv, MarketRows

LEMMA BidKeeps ==
    ASSUME MarketInv, NEW r \in Requests, insertBid(r)
    PROVE  MarketInv'
  <1>1. MarketShape /\ ActiveIsAlone /\ SellerOwns /\ OneSale /\ RequestsHeld
    BY DEF MarketInv, MarketRows
  <1>2. PICK q : q = requests[r]
    OBVIOUS
  <1>3. PICK new : new = [listing |-> q.listing, bidder |-> q.who, status |-> "pending"]
    OBVIOUS
  <1>4. /\ q.step = "insert-bid" /\ bids' = Append(bids, new) /\ Goes(r, Vacant)
        /\ UNCHANGED <<nameOwner, listings, overtaken>>
    BY <1>2, <1>3 DEF insertBid
  <1>5. q.listing \in 1..Len(listings) /\ q.who \in Traders
    BY <1>1, <1>2, <1>4 DEF RequestsHeld, Held, Vacant
  <1>6. new \in Bid /\ new.status # "accepted"
    BY <1>1, <1>3, <1>5, Domains DEF Bid
  <1>7. PICK n : n = Len(bids)
    OBVIOUS
  <1>8. /\ bids' \in Seq(Bid) /\ Len(bids') = n + 1 /\ n \in Nat
        /\ \A b \in 1..n : bids'[b] = bids[b]
        /\ bids'[n + 1] = new
    BY <1>1, <1>4, <1>6, <1>7, Appended DEF MarketShape
  <1>9. \A b \in 1..(n + 1) : b \in 1..n \/ b = n + 1
    BY <1>8
  <1>10. \A b \in 1..n : b \in 1..(n + 1)
    BY <1>8
  <1>11. MarketShape'
    BY <1>1, <1>3, <1>4, <1>5, <1>7, <1>8, <1>9 DEF MarketShape
  <1>12. ActiveIsAlone' /\ SellerOwns'
    BY <1>1, <1>4 DEF ActiveIsAlone, SellerOwns
  <1>13. /\ \A b \in 1..(n + 1) : Accepted(b)' => b \in 1..n /\ Accepted(b)
         /\ \A b \in 1..n : Accepted(b) => Accepted(b)'
    BY <1>6, <1>8, <1>9 DEF Accepted
  <1>14. OneSale'
    <2>1. \A a, b \in 1..(n + 1) :
            Accepted(a)' /\ Accepted(b)' /\ bids'[a].listing = bids'[b].listing => a = b
      BY <1>1, <1>7, <1>8, <1>13 DEF OneSale
    <2>2. \A b \in 1..(n + 1) : Accepted(b)' => listings[bids'[b].listing].buyer = bids'[b].bidder
      BY <1>1, <1>7, <1>8, <1>13 DEF OneSale
    <2>3. \A l \in 1..Len(listings) :
            /\ listings[l].buyer # NoTrader =>
                  \E b \in 1..(n + 1) : Accepted(b)' /\ bids'[b].listing = l
            /\ listings[l].status = "sold" => listings[l].buyer # NoTrader
      BY <1>1, <1>7, <1>8, <1>10, <1>13 DEF OneSale
    <2>. QED BY <1>4, <1>8, <2>1, <2>2, <2>3 DEF OneSale
  <1>15. RequestsHeld'
    BY <1>1, <1>4, <1>7, <1>8, <1>11, VacantHeld, GoesOn DEF MarketShape
  <1>. QED BY <1>11, <1>12, <1>14, <1>15 DEF MarketInv, MarketRows

-----------------------------------------------------------------------------
(* The sale. *)

\* What accept_username_bid writes when bid a of listing l is acceptable.
Sale(l, a) ==
    /\ Acceptable(l, a)
    /\ l \in 1..Len(listings) /\ a \in 1..Len(bids)
    /\ bids' \in Seq(Bid) /\ Len(bids') = Len(bids)
    /\ \A b \in 1..Len(bids) :
         /\ bids'[b].listing = bids[b].listing /\ bids'[b].bidder = bids[b].bidder
         /\ Accepted(b)' <=> b = a \/ Accepted(b)
    /\ listings' \in Seq(Listing) /\ Len(listings') = Len(listings)
    /\ \A k \in 1..Len(listings) : k # l => listings'[k] = listings[k]
    /\ listings'[l].name = listings[l].name /\ listings'[l].status = "sold"
    /\ listings'[l].buyer = bids[a].bidder
    /\ nameOwner' = [nameOwner EXCEPT ![listings[l].name] = bids[a].bidder]
    /\ bids[a].bidder \in Traders

LEMMA AcceptSells ==
    ASSUME MarketInv, NEW r \in Requests, accept_username_bid(r)
    PROVE  \/ UNCHANGED <<nameOwner, listings, bids>>
           \/ \E l, a : Sale(l, a)
  <1>1. MarketShape /\ RequestsHeld
    BY DEF MarketInv, MarketRows
  <1>2. PICK l, a : l = requests[r].listing /\ a = requests[r].bid
    OBVIOUS
  <1>3. requests[r].step = "accept"
    BY DEF accept_username_bid
  <1>4. l \in 1..Len(listings) /\ a \in 1..Len(bids)
    BY <1>1, <1>2, <1>3 DEF RequestsHeld, Held, Vacant
  <1>5. CASE ~Acceptable(l, a)
    BY <1>2, <1>5 DEF accept_username_bid
  <1>6. CASE Acceptable(l, a)
    <2> DEFINE becomes(b) == CASE b = a -> "accepted"
                               [] b # a /\ bids[b].listing = l /\ bids[b].status = "pending" -> "rejected"
                               [] OTHER -> bids[b].status
               after == [b \in DOMAIN bids |-> [bids[b] EXCEPT !.status = becomes(b)]]
    <2>1. /\ bids' = after
          /\ listings' = [listings EXCEPT ![l].status = "sold", ![l].buyer = bids[a].bidder]
          /\ nameOwner' = [nameOwner EXCEPT ![listings[l].name] = bids[a].bidder]
      BY <1>2, <1>6 DEF accept_username_bid
    <2>2. \A b \in 1..Len(bids) : bids[b] \in Bid
      BY <1>1, Domains
    <2>3. ASSUME NEW b \in 1..Len(bids)
          PROVE  /\ becomes(b) \in {"pending", "accepted", "rejected"}
                 /\ becomes(b) = "accepted" <=> b = a \/ bids[b].status = "accepted"
      <3>1. bids[b].status \in {"pending", "accepted", "rejected"}
        BY <2>2 DEF Bid
      <3>2. CASE b = a
        BY <3>2
      <3>3. CASE b # a /\ bids[b].listing = l /\ bids[b].status = "pending"
        BY <3>3
      <3>4. CASE b # a /\ ~(bids[b].listing = l /\ bids[b].status = "pending")
        BY <3>1, <3>4
      <3>. QED BY <3>2, <3>3, <3>4
    <2>4. ASSUME NEW b \in 1..Len(bids)
          PROVE  /\ after[b] \in Bid
                 /\ after[b].listing = bids[b].listing /\ after[b].bidder = bids[b].bidder
                 /\ after[b].status = becomes(b)
      <3>1. PICK s : s = becomes(b)
        OBVIOUS
      <3>2. after[b] = [bids[b] EXCEPT !.status = s]
        BY <1>1, <3>1, Domains
      <3>3. s \in {"pending", "accepted", "rejected"}
        BY <2>3, <3>1
      <3>4. bids[b] \in Bid
        BY <2>2
      <3>. HIDE DEF after, becomes
      <3>5. [bids[b] EXCEPT !.status = s] = [listing |-> bids[b].listing, bidder |-> bids[b].bidder, status |-> s]
        BY <3>4 DEF Bid
      <3>6. after[b] \in Bid
        BY <3>2, <3>3, <3>4, <3>5 DEF Bid
      <3>. QED BY <3>1, <3>2, <3>5, <3>6
    <2>5. DOMAIN after = 1..Len(bids) /\ Len(bids) \in Nat
      BY <1>1, Domains
    <2>. HIDE DEF after, becomes
    <2>6. after = [b \in 1..Len(bids) |-> after[b]]
      BY <2>1, <2>5 DEF after
    <2>7. after \in [1..Len(bids) -> Bid]
      BY <2>4, <2>6
    <2>8. bids' \in Seq(Bid) /\ Len(bids') = Len(bids)
      BY <2>1, <2>5, <2>7
    <2>9. ASSUME NEW b \in 1..Len(bids)
          PROVE  /\ bids'[b].listing = bids[b].listing /\ bids'[b].bidder = bids[b].bidder
                 /\ Accepted(b)' <=> b = a \/ Accepted(b)
      BY <2>1, <2>3, <2>4 DEF Accepted
    <2>10. bids[a].bidder \in Traders
      BY <1>4, <2>2 DEF Bid
    <2>11. listings[l] \in Listing
      BY <1>1, <1>4, Domains
    <2>12. PICK new : new = [listings[l] EXCEPT !.status = "sold", !.buyer = bids[a].bidder]
      OBVIOUS
    <2>13. /\ new \in Listing /\ new.status = "sold" /\ new.name = listings[l].name
           /\ new.buyer = bids[a].bidder
      BY <2>10, <2>11, <2>12 DEF Listing
    <2>14. listings' = [listings EXCEPT ![l] = new]
      BY <2>1, <2>12
    <2>15. /\ listings' \in Seq(Listing) /\ Len(listings') = Len(listings)
           /\ \A k \in 1..Len(listings) : listings'[k] = IF k = l THEN new ELSE listings[k]
      BY <1>1, <1>4, <2>13, <2>14, Replaced DEF MarketShape
    <2>16. Sale(l, a)
      BY <1>4, <1>6, <2>1, <2>8, <2>9, <2>10, <2>13, <2>15 DEF Sale
    <2>. QED BY <2>16
  <1>. QED BY <1>5, <1>6

LEMMA SaleKeeps ==
    ASSUME MarketRows, NEW l, NEW a, Sale(l, a), overtaken' = overtaken
    PROVE  MarketRows'
  <1>1. MarketShape /\ ActiveIsAlone /\ SellerOwns /\ OneSale
    BY DEF MarketRows
  <1>2. /\ l \in 1..Len(listings) /\ a \in 1..Len(bids)
        /\ listings[l].status = "active" /\ bids[a].listing = l /\ bids[a].status = "pending"
    BY DEF Sale, Acceptable
  <1>3. listings[l] \in Listing /\ listings[l].name \in Names
    BY <1>1, <1>2, Domains DEF Listing
  <1>4. MarketShape'
    <2>1. nameOwner' \in [Names -> Traders \cup {NoTrader}]
      BY <1>1, <1>3 DEF Sale, MarketShape
    <2>2. \A b \in 1..Len(bids') : bids'[b].listing \in 1..Len(listings')
      BY <1>1 DEF Sale, MarketShape
    <2>. QED BY <2>1, <2>2 DEF Sale, MarketShape
  <1>5. \A k \in 1..Len(listings) : listings'[k].status = "active" =>
          k # l /\ listings[k].status = "active" /\ listings'[k] = listings[k]
    BY DEF Sale
  <1>6. ActiveIsAlone'
    BY <1>1, <1>5 DEF Sale, ActiveIsAlone
  <1>7. SellerOwns'
    <2> SUFFICES ASSUME NEW k \in 1..Len(listings), listings'[k].status = "active"
                 PROVE  /\ listings'[k].buyer = NoTrader
                        /\ listings'[k].seller = nameOwner'[listings'[k].name] \/ k \in overtaken
      BY DEF Sale, SellerOwns
    <2>1. k # l /\ listings[k].status = "active" /\ listings'[k] = listings[k]
      BY <1>5
    <2>2. listings[k].name # listings[l].name
      BY <1>1, <1>2, <2>1 DEF ActiveIsAlone
    <2>3. listings[k].name \in Names
      BY <1>1, Domains DEF Listing
    <2>4. nameOwner'[listings[k].name] = nameOwner[listings[k].name]
      BY <1>1, <1>3, <2>2, <2>3 DEF Sale, MarketShape
    <2>. QED BY <1>1, <2>1, <2>4 DEF SellerOwns
  <1>8. listings[l].buyer = NoTrader
    BY <1>1, <1>2 DEF SellerOwns
  <1>9. \A b \in 1..Len(bids) : bids[b].listing = l => ~Accepted(b)
    BY <1>1, <1>8, Domains, MarketAssumption DEF OneSale, Bid
  <1>10. OneSale'
    <2>1. \A b, c \in 1..Len(bids) :
            Accepted(b)' /\ Accepted(c)' /\ bids'[b].listing = bids'[c].listing => b = c
      BY <1>1, <1>2, <1>9 DEF Sale, OneSale
    <2>2. ASSUME NEW b \in 1..Len(bids), Accepted(b)'
          PROVE  listings'[bids'[b].listing].buyer = bids'[b].bidder
      <3>1. CASE b = a
        BY <1>2, <3>1 DEF Sale
      <3>2. CASE b # a
        <4>1. Accepted(b) /\ bids[b].listing # l /\ bids[b].listing \in 1..Len(listings)
          BY <1>1, <1>9, <2>2, <3>2 DEF Sale, MarketShape
        <4>. QED BY <1>1, <4>1 DEF Sale, OneSale
      <3>. QED BY <3>1, <3>2
    <2>3. ASSUME NEW k \in 1..Len(listings)
          PROVE  /\ listings'[k].buyer # NoTrader =>
                       \E b \in 1..Len(bids) : Accepted(b)' /\ bids'[b].listing = k
                 /\ listings'[k].status = "sold" => listings'[k].buyer # NoTrader
      <3>1. CASE k = l
        BY <1>2, <3>1, MarketAssumption DEF Sale
      <3>2. CASE k # l
        <4>1. listings'[k] = listings[k]
          BY <3>2 DEF Sale
        <4>2. listings[k].status = "sold" => listings[k].buyer # NoTrader
          BY <1>1 DEF OneSale
        <4>3. ASSUME listings[k].buyer # NoTrader
              PROVE  \E b \in 1..Len(bids) : Accepted(b)' /\ bids'[b].listing = k
          <5>1. PICK b \in 1..Len(bids) : Accepted(b) /\ bids[b].listing = k
            BY <1>1, <4>3 DEF OneSale
          <5>2. Accepted(b)' /\ bids'[b].listing = k
            BY <5>1 DEF Sale
          <5>. QED BY <5>2
        <4>. QED BY <4>1, <4>2, <4>3
      <3>. QED BY <3>1, <3>2
    <2>4. Len(bids') = Len(bids) /\ Len(listings') = Len(listings)
      BY DEF Sale
    <2>. QED BY <2>1, <2>2, <2>3, <2>4 DEF OneSale
  <1>. QED BY <1>4, <1>6, <1>7, <1>10 DEF MarketRows

LEMMA AcceptKeeps ==
    ASSUME MarketInv, NEW r \in Requests, accept_username_bid(r)
    PROVE  MarketInv'
  <1>1. MarketRows /\ RequestsHeld /\ overtaken' = overtaken /\ Goes(r, Vacant)
    BY DEF MarketInv, accept_username_bid
  <1>2. CASE UNCHANGED <<nameOwner, listings, bids>>
    BY <1>1, <1>2, VacantHeld, ReadKeeps
  <1>3. ASSUME NEW l, NEW a, Sale(l, a)
        PROVE  MarketInv'
    <2>1. MarketRows'
      BY <1>1, <1>3, SaleKeeps
    <2>2. Len(listings') = Len(listings) /\ Len(bids') = Len(bids)
      BY <1>3 DEF Sale
    <2>3. RequestsHeld'
      BY <1>1, <2>2, VacantHeld DEF RequestsHeld, Goes
    <2>. QED BY <2>1, <2>3 DEF MarketInv
  <1>. QED BY <1>2, <1>3, AcceptSells

-----------------------------------------------------------------------------
LEMMA InitMarket == MarketInit => MarketInv
  <1> SUFFICES ASSUME MarketInit
               PROVE  MarketInv
    OBVIOUS
  <1>1. listings = << >> /\ bids = << >>
    BY DEF MarketInit
  <1>2. Len(listings) = 0 /\ Len(bids) = 0 /\ listings \in Seq(Listing) /\ bids \in Seq(Bid)
    BY <1>1
  <1>3. MarketShape
    BY <1>2 DEF MarketInit, MarketShape
  <1>4. ActiveIsAlone /\ SellerOwns /\ OneSale
    BY <1>2 DEF ActiveIsAlone, SellerOwns, OneSale
  <1>5. RequestsHeld
    BY VacantHeld DEF MarketInit, RequestsHeld
  <1>. QED BY <1>3, <1>4, <1>5 DEF MarketInv, MarketRows

LEMMA MarketStep ==
    ASSUME MarketInv, [MarketNext]_marketVars
    PROVE  MarketInv'
  <1>1. CASE UNCHANGED marketVars
    <2>1. UNCHANGED <<nameOwner, listings, bids, overtaken>> /\ requests' = requests
      BY <1>1 DEF marketVars
    <2>2. MarketRows'
      BY <2>1, RowsStay DEF MarketInv
    <2>. QED BY <2>1, <2>2 DEF MarketInv, RequestsHeld
  <1>2. CASE MarketNext
    BY <1>2, ServerSteps, RegisterKeeps, ListKeeps, CancelKeeps, BidKeeps, AcceptKeeps DEF MarketNext
  <1>. QED BY <1>1, <1>2

LEMMA AtMostOne ==
    ASSUME NEW S, IsFiniteSet(S), \A x, y \in S : x = y
    PROVE  Cardinality(S) <= 1
  <1>1. CASE S = {}
    BY <1>1, FS_EmptySet
  <1>2. ASSUME NEW x \in S
        PROVE  Cardinality(S) <= 1
    <2>1. S = {x}
      BY <1>2
    <2>. QED BY <2>1, FS_Singleton
  <1>. QED BY <1>1, <1>2

LEMMA InvSells == MarketInv => SoldToOneBid
  <1> SUFFICES ASSUME MarketInv, NEW l \in DOMAIN listings
               PROVE  /\ Cardinality(AcceptedBids(l)) <= 1
                      /\ \A b \in AcceptedBids(l) : listings[l].buyer = bids[b].bidder
                      /\ listings[l].buyer # NoTrader => AcceptedBids(l) # {}
                      /\ listings[l].status = "sold" => listings[l].buyer # NoTrader
    BY DEF SoldToOneBid
  <1>1. /\ MarketShape /\ OneSale /\ DOMAIN bids = 1..Len(bids) /\ Len(bids) \in Nat
        /\ l \in 1..Len(listings)
    BY Domains DEF MarketInv, MarketRows
  <1>2. AcceptedBids(l) \subseteq 1..Len(bids)
    BY <1>1 DEF AcceptedBids
  <1>3. IsFiniteSet(1..Len(bids))
    BY <1>1, FS_Interval
  <1>4. IsFiniteSet(AcceptedBids(l))
    BY <1>2, <1>3, FS_Subset
  <1>5. \A a, b \in AcceptedBids(l) : a = b
    BY <1>1, <1>2 DEF AcceptedBids, OneSale, Accepted
  <1>6. Cardinality(AcceptedBids(l)) <= 1
    BY <1>4, <1>5, AtMostOne
  <1>7. \A b \in AcceptedBids(l) : listings[l].buyer = bids[b].bidder
    BY <1>1, <1>2 DEF AcceptedBids, OneSale, Accepted
  <1>8. listings[l].buyer # NoTrader => AcceptedBids(l) # {}
    BY <1>1 DEF AcceptedBids, OneSale, Accepted
  <1>9. listings[l].status = "sold" => listings[l].buyer # NoTrader
    BY <1>1 DEF OneSale
  <1>. QED BY <1>6, <1>7, <1>8, <1>9

(* For any names, wallets, listings, bids and overlapping requests, a listing *)
(* is sold to one bid at most and its buyer is who made it (acceptBid and the *)
(* SQL function accept_username_bid).                                        *)
THEOREM ListingsSellOnce == MarketSpec => []SoldToOneBid
  <1>. QED BY InitMarket, MarketStep, InvSells, PTL DEF MarketSpec

(* A step takes a name from its owner only in a sale of that owner's listing, *)
(* or of one inserted too late (marketplace.service.ts).                     *)
LEMMA NamesAreSold ==
    ASSUME MarketInv, [MarketNext]_marketVars, NEW n \in Names,
           nameOwner[n] # NoTrader, nameOwner'[n] # nameOwner[n]
    PROVE  \E l \in DOMAIN listings :
              /\ listings[l].name = n
              /\ listings[l].seller = nameOwner[n] \/ l \in overtaken
              /\ listings[l].buyer # listings'[l].buyer
  <1>1. MarketShape /\ SellerOwns /\ RequestsHeld /\ DOMAIN listings = 1..Len(listings)
    BY Domains DEF MarketInv, MarketRows
  <1>2. PICK r \in Requests : insertUsername(r) \/ accept_username_bid(r)
    BY DEF MarketNext, marketVars, createUsername, listUsername, getActiveListingByUsername,
           createListing, cancelListing, updateCancelled, placeBid, insertBid, acceptBid, getBidById
  <1>3. ~insertUsername(r)
    BY <1>1 DEF insertUsername, MarketShape
  <1>4. PICK l, a : Sale(l, a)
    BY <1>2, <1>3, AcceptSells
  <1>5. /\ l \in 1..Len(listings) /\ listings[l].status = "active"
        /\ listings'[l].buyer = bids[a].bidder /\ bids[a].bidder \in Traders
        /\ nameOwner' = [nameOwner EXCEPT ![listings[l].name] = bids[a].bidder]
    BY <1>4 DEF Sale, Acceptable
  <1>6. listings[l].name = n
    BY <1>1, <1>5 DEF MarketShape
  <1>7. /\ listings[l].buyer = NoTrader
        /\ listings[l].seller = nameOwner[n] \/ l \in overtaken
    BY <1>1, <1>5, <1>6 DEF SellerOwns
  <1>. QED BY <1>1, <1>5, <1>6, <1>7, MarketAssumption

(* However requests interleave, a username leaves a wallet only in a sale of  *)
(* a listing by that wallet, or of one inserted after the name was sold.      *)
THEOREM OwnersSell == MarketSpec => OwnerSells
  <1>1. MarketInv /\ [MarketNext]_marketVars =>
          [\A n \in Names :
              nameOwner[n] # NoTrader /\ nameOwner'[n] # nameOwner[n] =>
                \E l \in DOMAIN listings :
                    /\ listings[l].name = n
                    /\ listings[l].seller = nameOwner[n] \/ l \in overtaken
                    /\ listings[l].buyer # listings'[l].buyer]_marketVars
    BY NamesAreSold
  <1>. QED BY <1>1, InitMarket, MarketStep, PTL DEF MarketSpec, OwnerSells

-----------------------------------------------------------------------------
(* MobileSync. A list is safe when every payment it shows as read was seen,  *)
(* or came with a first sync. Each sync and each update carries a copy of a  *)
(* list; what is stored or shown is always such a copy, so the invariant is  *)
(* that all copies are safe, and what was seen only grows.                   *)

Seen == toldRead \cup baseline

Safe(list, set) == list \in Lists /\ ReadIn(list) \subseteq set

CopiesSafe ==
    /\ \A s \in Syncs : syncs[s] # SyncIdle => Safe(syncs[s].snapshot.list, Seen)
    /\ \A u \in Updates : /\ updates[u].step = "read" => Safe(updates[u].list, Seen)
                          /\ updates[u].step = "save" => Safe(updates[u].snapshot.list, Seen)

SyncInv == MobileTypeOK /\ Safe(stored.list, Seen) /\ Safe(shown, Seen) /\ CopiesSafe

-----------------------------------------------------------------------------
(* Lists. *)

LEMMA ListFacts ==
    ASSUME NEW list \in Lists
    PROVE  /\ DOMAIN list \subseteq Payments
           /\ \A p \in DOMAIN list : list[p] \in BOOLEAN
  BY DEF Lists

LEMMA ListIs ==
    ASSUME NEW set \in SUBSET Payments, NEW list \in [set -> BOOLEAN]
    PROVE  list \in Lists
  BY DEF Lists

LEMMA NoListSafe == ASSUME NEW set PROVE Safe(NoList, set)
  <1>1. NoList \in [{} -> BOOLEAN] /\ DOMAIN NoList = {}
    BY DEF NoList
  <1>2. NoList \in Lists
    BY <1>1, ListIs
  <1>. QED BY <1>1, <1>2 DEF Safe, ReadIn

LEMMA SafeStays ==
    ASSUME NEW list, NEW before, NEW after, before \subseteq after, Safe(list, before)
    PROVE  Safe(list, after)
  BY DEF Safe

(* A payment that is added unread leaves a list safe. *)
LEMMA PutUnread ==
    ASSUME NEW list, NEW set, Safe(list, set), NEW p \in Payments
    PROVE  Safe(Put(list, p, FALSE), set)
  <1>1. list \in Lists /\ ReadIn(list) \subseteq set
    BY DEF Safe
  <1>2. DOMAIN list \subseteq Payments /\ \A q \in DOMAIN list : list[q] \in BOOLEAN
    BY <1>1, ListFacts
  <1>3. Put(list, p, FALSE) \in [DOMAIN list \cup {p} -> BOOLEAN]
    BY <1>2 DEF Put
  <1>4. Put(list, p, FALSE) \in Lists
    BY <1>2, <1>3, ListIs
  <1>5. ReadIn(Put(list, p, FALSE)) \subseteq ReadIn(list)
    BY DEF Put, ReadIn
  <1>. QED BY <1>1, <1>4, <1>5 DEF Safe

(* What a first sync fetches is read and accounted for; later it is unread.   *)
LEMMA MergeSafe ==
    ASSUME NEW snapshot \in Snapshot, NEW set, Safe(snapshot.list, set),
           arrived \subseteq Payments, ~snapshot.initial => arrived \subseteq set
    PROVE  /\ mergeSyncSnapshot(snapshot) \in Snapshot
           /\ Safe(mergeSyncSnapshot(snapshot).list, set)
  <1> DEFINE merged == mergeSyncSnapshot(snapshot)
  <1>1. /\ snapshot.list \in Lists /\ ReadIn(snapshot.list) \subseteq set
        /\ snapshot.initial \in BOOLEAN
    BY DEF Safe, Snapshot
  <1>2. /\ DOMAIN snapshot.list \subseteq Payments
        /\ \A p \in DOMAIN snapshot.list : snapshot.list[p] \in BOOLEAN
    BY <1>1, ListFacts
  <1>3. /\ merged.list = [p \in DOMAIN snapshot.list \cup arrived |->
                            IF p \in DOMAIN snapshot.list THEN snapshot.list[p] ELSE ~snapshot.initial]
        /\ merged = [list |-> merged.list, initial |-> TRUE]
    BY DEF mergeSyncSnapshot
  <1>. HIDE DEF merged
  <1>4. merged.list \in [DOMAIN snapshot.list \cup arrived -> BOOLEAN]
    BY <1>1, <1>2, <1>3
  <1>5. merged.list \in Lists
    BY <1>2, <1>4, ListIs
  <1>6. merged \in Snapshot
    <2>1. PICK list : list = merged.list
      OBVIOUS
    <2>2. merged = [list |-> list, initial |-> TRUE] /\ list \in Lists
      BY <1>3, <1>5, <2>1
    <2>. QED BY <2>2 DEF Snapshot
  <1>7. ASSUME NEW p \in DOMAIN merged.list, merged.list[p] PROVE p \in set
    <2>1. CASE p \in DOMAIN snapshot.list
      BY <2>1, <1>1, <1>3, <1>7 DEF ReadIn
    <2>2. CASE p \notin DOMAIN snapshot.list
      BY <2>2, <1>3, <1>7
    <2>. QED BY <2>1, <2>2
  <1>8. Safe(merged.list, set)
    BY <1>5, <1>7 DEF Safe, ReadIn
  <1>. QED BY <1>6, <1>8 DEF merged
-----------------------------------------------------------------------------
(* Steps. *)

LEMMA InitSafe == MobileInit => SyncInv
  <1> SUFFICES ASSUME MobileInit PROVE SyncInv
    OBVIOUS
  <1>1. NoList \in Lists /\ Safe(NoList, Seen)
    BY NoListSafe DEF Safe
  <1>2. stored \in Snapshot /\ stored.list = NoList
    BY <1>1 DEF MobileInit, Snapshot, DefaultSnapshot
  <1>3. \A s \in Syncs : syncs[s] = SyncIdle
    BY DEF MobileInit
  <1>4. \A u \in Updates : updates[u].step = "idle"
    BY DEF MobileInit, SyncIdle
  <1>5. MobileTypeOK
    BY <1>1, <1>2 DEF MobileInit, MobileTypeOK
  <1>6. CopiesSafe
    BY <1>3, <1>4 DEF CopiesSafe
  <1>. QED BY <1>1, <1>2, <1>5, <1>6 DEF SyncInv, MobileInit

(* Whatever is read, it is safe.                                              *)
LEMMA ReadIsSafe ==
    ASSUME SyncInv, NEW snapshot \in getSyncSnapshot
    PROVE  snapshot \in Snapshot /\ Safe(snapshot.list, Seen)
  <1>1. NoList \in Lists /\ Safe(NoList, Seen)
    BY NoListSafe DEF Safe
  <1>2. DefaultSnapshot \in Snapshot /\ Safe(DefaultSnapshot.list, Seen)
    BY <1>1 DEF DefaultSnapshot, Snapshot
  <1>3. stored \in Snapshot /\ Safe(stored.list, Seen)
    BY DEF SyncInv, MobileTypeOK
  <1>. QED BY <1>2, <1>3 DEF getSyncSnapshot

(* When only the records of one sync change, the others' copies stay safe.    *)
LEMMA SyncStep ==
    ASSUME SyncInv, NEW s \in Syncs, NEW to \in Started \cup {SyncIdle}, Sync(s, to),
           to # SyncIdle => Safe(to.snapshot.list, Seen'),
           Seen \subseteq Seen', UNCHANGED updates
    PROVE  /\ syncs' \in [Syncs -> Started \cup {SyncIdle}]
           /\ CopiesSafe'
  <1>1. syncs' \in [Syncs -> Started \cup {SyncIdle}]
    BY DEF SyncInv, MobileTypeOK, Sync
  <1>2. ASSUME NEW r \in Syncs, syncs'[r] # SyncIdle
        PROVE  Safe(syncs'[r].snapshot.list, Seen')
    <2>1. CASE r = s
      BY <2>1, <1>2 DEF Sync, SyncInv, MobileTypeOK
    <2>2. CASE r # s
      <3>1. syncs'[r] = syncs[r]
        BY <2>2 DEF Sync, SyncInv, MobileTypeOK
      <3>2. Safe(syncs[r].snapshot.list, Seen)
        BY <3>1, <1>2 DEF SyncInv, CopiesSafe
      <3>. QED BY <3>1, <3>2 DEF Safe
    <2>. QED BY <2>1, <2>2
  <1>3. ASSUME NEW u \in Updates
        PROVE  /\ updates'[u].step = "read" => Safe(updates'[u].list, Seen')
               /\ updates'[u].step = "save" => Safe(updates'[u].snapshot.list, Seen')
    BY DEF SyncInv, CopiesSafe, Safe
  <1>. QED BY <1>1, <1>2, <1>3 DEF CopiesSafe

LEMMA UpdateStep ==
    ASSUME SyncInv, NEW u \in Updates, NEW to \in Pending \cup {SyncIdle}, Store(u, to),
           to.step = "read" => Safe(to.list, Seen'),
           to.step = "save" => Safe(to.snapshot.list, Seen'),
           Seen \subseteq Seen', UNCHANGED syncs
    PROVE  /\ updates' \in [Updates -> Pending \cup {SyncIdle}]
           /\ CopiesSafe'
  <1>1. updates' \in [Updates -> Pending \cup {SyncIdle}]
    BY DEF SyncInv, MobileTypeOK, Store
  <1>2. ASSUME NEW v \in Updates
        PROVE  /\ updates'[v].step = "read" => Safe(updates'[v].list, Seen')
               /\ updates'[v].step = "save" => Safe(updates'[v].snapshot.list, Seen')
    <2>1. CASE v = u
      BY <2>1 DEF Store, SyncInv, MobileTypeOK
    <2>2. CASE v # u
      <3>1. updates'[v] = updates[v]
        BY <2>2 DEF Store, SyncInv, MobileTypeOK
      <3>. QED BY <3>1 DEF SyncInv, CopiesSafe, Safe
    <2>. QED BY <2>1, <2>2
  <1>3. ASSUME NEW s \in Syncs, syncs'[s] # SyncIdle
        PROVE  Safe(syncs'[s].snapshot.list, Seen')
    BY <1>3 DEF SyncInv, CopiesSafe, Safe
  <1>. QED BY <1>1, <1>2, <1>3 DEF CopiesSafe

LEMMA StepSafe == SyncInv /\ [MobileNext]_mobileVars => SyncInv'
  <1> SUFFICES ASSUME SyncInv, [MobileNext]_mobileVars PROVE SyncInv'
    OBVIOUS
  <1>. USE DEF SyncInv
  <1>1. ASSUME NEW p \in Payments, PaymentArrives(p) PROVE SyncInv'
    BY <1>1 DEF PaymentArrives, MobileTypeOK, CopiesSafe, Safe, Seen
  <1>2. CASE AppIsKilled
    <2>1. NoList \in Lists /\ Safe(NoList, Seen')
      BY NoListSafe DEF Safe
    <2>2. MobileTypeOK'
      BY <1>2, <2>1 DEF AppIsKilled, MobileTypeOK
    <2>3. /\ \A s \in Syncs : syncs'[s] = SyncIdle
          /\ \A u \in Updates : updates'[u].step = "idle"
      BY <1>2 DEF AppIsKilled, SyncIdle
    <2>4. CopiesSafe'
      BY <2>3 DEF CopiesSafe
    <2>. QED BY <1>2, <2>1, <2>2, <2>4 DEF AppIsKilled, Safe, Seen
  <1>3. ASSUME NEW s \in Syncs, startSync(s) PROVE SyncInv'
    <2>0. PICK snapshot \in getSyncSnapshot : Sync(s, [step |-> "fetch", snapshot |-> snapshot])
      BY <1>3 DEF startSync
    <2>1. PICK to : to = [step |-> "fetch", snapshot |-> snapshot]
      OBVIOUS
    <2>2. to \in Started /\ Sync(s, to) /\ Safe(to.snapshot.list, Seen') /\ Seen \subseteq Seen'
      <3>1. snapshot \in Snapshot /\ Safe(snapshot.list, Seen) /\ Seen' = Seen
        BY <1>3, ReadIsSafe DEF startSync, Seen
      <3>. QED BY <2>0, <2>1, <3>1 DEF Started
    <2>3. syncs' \in [Syncs -> Started \cup {SyncIdle}] /\ CopiesSafe'
      BY <1>3, <2>2, SyncStep DEF startSync
    <2>. QED BY <1>3, <2>3 DEF startSync, MobileTypeOK, Seen, Safe
  <1>4. ASSUME NEW s \in Syncs, fetchTransactions(s) PROVE SyncInv'
    <2>1. PICK snapshot : snapshot = syncs[s].snapshot
      OBVIOUS
    <2>2. /\ syncs[s] = [step |-> "fetch", snapshot |-> snapshot]
          /\ snapshot \in Snapshot /\ Safe(snapshot.list, Seen)
      BY <1>4, <2>1 DEF fetchTransactions, MobileTypeOK, Started, CopiesSafe, SyncIdle
    <2>3. PICK merged : merged = mergeSyncSnapshot(snapshot)
      OBVIOUS
    <2>4. Seen \subseteq Seen' /\ arrived \subseteq Payments /\ (~snapshot.initial => arrived \subseteq Seen')
      BY <1>4, <2>1 DEF fetchTransactions, Seen, MobileTypeOK
    <2>5. merged \in Snapshot /\ Safe(merged.list, Seen')
      <3>1. PICK set : set = Seen'
        OBVIOUS
      <3>2. Safe(snapshot.list, set)
        BY <2>2, <2>4, <3>1 DEF Safe
      <3>. QED BY <2>2, <2>3, <2>4, <3>1, <3>2, MergeSafe
    <2>6. PICK to : to = [step |-> "save", snapshot |-> merged]
      OBVIOUS
    <2>7. to \in Started /\ Sync(s, to) /\ Safe(to.snapshot.list, Seen')
      <3>1. Sync(s, to)
        BY <1>4, <2>1, <2>3, <2>6 DEF fetchTransactions
      <3>. QED BY <2>5, <2>6, <3>1 DEF Started
    <2>8. syncs' \in [Syncs -> Started \cup {SyncIdle}] /\ CopiesSafe'
      BY <1>4, <2>4, <2>7, SyncStep DEF fetchTransactions
    <2>. QED BY <1>4, <2>4, <2>8 DEF fetchTransactions, MobileTypeOK, Safe
  <1>5. ASSUME NEW s \in Syncs, fetchFails(s) \/ saveSyncSnapshot(s) PROVE SyncInv'
    <2>1. PICK snapshot : snapshot = syncs[s].snapshot
      OBVIOUS
    <2>2. /\ \E step \in {"fetch", "save", "show"} : syncs[s] = [step |-> step, snapshot |-> snapshot]
          /\ snapshot \in Snapshot /\ Safe(snapshot.list, Seen)
      BY <1>5, <2>1 DEF fetchFails, saveSyncSnapshot, MobileTypeOK, Started, CopiesSafe, SyncIdle
    <2>3. PICK to : to = [step |-> "show", snapshot |-> snapshot]
      OBVIOUS
    <2>4. to \in Started /\ Sync(s, to) /\ Safe(to.snapshot.list, Seen') /\ Seen \subseteq Seen'
      <3>1. [syncs[s] EXCEPT !.step = "show"] = to
        BY <2>2, <2>3
      <3>2. Sync(s, to) /\ Seen' = Seen
        BY <1>5, <3>1 DEF fetchFails, saveSyncSnapshot, Seen
      <3>. QED BY <2>2, <2>3, <3>2 DEF Started
    <2>5. syncs' \in [Syncs -> Started \cup {SyncIdle}] /\ CopiesSafe'
      BY <1>5, <2>4, SyncStep DEF fetchFails, saveSyncSnapshot
    <2>6. stored' \in Snapshot /\ Safe(stored'.list, Seen)
      BY <1>5, <2>1, <2>2 DEF fetchFails, saveSyncSnapshot, MobileTypeOK
    <2>. QED BY <1>5, <2>5, <2>6 DEF fetchFails, saveSyncSnapshot, MobileTypeOK, Seen, Safe
  <1>6. ASSUME NEW s \in Syncs, showSnapshot(s) PROVE SyncInv'
    <2>1. syncs[s].snapshot.list \in Lists /\ Safe(syncs[s].snapshot.list, Seen)
      BY <1>6 DEF showSnapshot, MobileTypeOK, Started, CopiesSafe, SyncIdle, Safe
    <2>2. Sync(s, SyncIdle) /\ Seen \subseteq Seen'
      BY <1>6 DEF showSnapshot, Seen
    <2>3. syncs' \in [Syncs -> Started \cup {SyncIdle}] /\ CopiesSafe'
      BY <1>6, <2>2, SyncStep DEF showSnapshot
    <2>4. shown' \in Lists /\ Safe(shown', Seen)
      BY <1>6, <2>1 DEF showSnapshot, MobileTypeOK
    <2>. QED BY <1>6, <2>3, <2>4 DEF showSnapshot, MobileTypeOK, Seen, Safe
  <1>7. ASSUME NEW u \in Updates, NEW p \in Payments, addNotification(u, p) PROVE SyncInv'
    <2>1. PICK list : list = shown'
      OBVIOUS
    <2>2. list \in Lists /\ Safe(list, Seen)
      BY <1>7, <2>1, PutUnread DEF addNotification, Safe
    <2>3. PICK to : to = [step |-> "read", list |-> list]
      OBVIOUS
    <2>4. to \in Pending /\ Store(u, to) /\ Safe(to.list, Seen') /\ to.step = "read" /\ Seen \subseteq Seen'
      BY <1>7, <2>1, <2>2, <2>3 DEF addNotification, Pending, Seen
    <2>5. updates' \in [Updates -> Pending \cup {SyncIdle}] /\ CopiesSafe'
      BY <1>7, <2>4, UpdateStep DEF addNotification
    <2>. QED BY <1>7, <2>1, <2>2, <2>5 DEF addNotification, MobileTypeOK, Seen, Safe
  <1>8. ASSUME NEW u \in Updates, markAllRead(u) PROVE SyncInv'
    <2>1. PICK list : list = shown'
      OBVIOUS
    <2>2. DOMAIN shown \subseteq Payments /\ list \in [DOMAIN shown -> BOOLEAN]
      BY <1>8, <2>1, ListFacts DEF markAllRead, MobileTypeOK
    <2>3. list \in Lists
      BY <2>2, ListIs
    <2>4. Safe(list, Seen') /\ Seen \subseteq Seen'
      BY <1>8, <2>1, <2>3 DEF markAllRead, Safe, ReadIn, Seen
    <2>5. PICK to : to = [step |-> "read", list |-> list]
      OBVIOUS
    <2>6. to \in Pending /\ Store(u, to) /\ Safe(to.list, Seen') /\ to.step = "read"
      BY <1>8, <2>1, <2>3, <2>4, <2>5 DEF markAllRead, Pending
    <2>7. updates' \in [Updates -> Pending \cup {SyncIdle}] /\ CopiesSafe'
      BY <1>8, <2>4, <2>6, UpdateStep DEF markAllRead
    <2>. QED BY <1>8, <2>1, <2>2, <2>3, <2>4, <2>7 DEF markAllRead, MobileTypeOK, Safe
  <1>9. ASSUME NEW u \in Updates, readForUpdate(u) PROVE SyncInv'
    <2>1. PICK list : list = updates[u].list
      OBVIOUS
    <2>2. list \in Lists /\ Safe(list, Seen)
      BY <1>9, <2>1 DEF readForUpdate, CopiesSafe, Safe
    <2>0. PICK snapshot \in getSyncSnapshot :
             Store(u, [step |-> "save", snapshot |-> [snapshot EXCEPT !.list = list]])
      BY <1>9, <2>1 DEF readForUpdate
    <2>3. PICK to : to = [step |-> "save", snapshot |-> [list |-> list, initial |-> snapshot.initial]]
      OBVIOUS
    <2>4. /\ snapshot.initial \in BOOLEAN
          /\ [snapshot EXCEPT !.list = list] = [list |-> list, initial |-> snapshot.initial]
      <3>1. snapshot \in Snapshot
        BY ReadIsSafe
      <3>. QED BY <3>1 DEF Snapshot
    <2>5. to \in Pending /\ to.step = "save" /\ Safe(to.snapshot.list, Seen)
      BY <2>2, <2>3, <2>4 DEF Pending, Snapshot
    <2>6. Store(u, to) /\ Seen' = Seen
      BY <1>9, <2>0, <2>3, <2>4 DEF readForUpdate, Seen
    <2>7. updates' \in [Updates -> Pending \cup {SyncIdle}] /\ CopiesSafe'
      BY <1>9, <2>5, <2>6, UpdateStep DEF readForUpdate
    <2>. QED BY <1>9, <2>7 DEF readForUpdate, MobileTypeOK, Seen, Safe
  <1>10. ASSUME NEW u \in Updates, saveUpdate(u) PROVE SyncInv'
    <2>1. updates[u].snapshot \in Snapshot /\ Safe(updates[u].snapshot.list, Seen)
      BY <1>10 DEF saveUpdate, CopiesSafe, MobileTypeOK, Pending, SyncIdle
    <2>2. Store(u, SyncIdle) /\ SyncIdle.step = "idle" /\ Seen' = Seen
      BY <1>10 DEF saveUpdate, SyncIdle, Seen
    <2>3. updates' \in [Updates -> Pending \cup {SyncIdle}] /\ CopiesSafe'
      BY <1>10, <2>2, UpdateStep DEF saveUpdate
    <2>. QED BY <1>10, <2>1, <2>3 DEF saveUpdate, MobileTypeOK, Seen, Safe
  <1>11. CASE UNCHANGED mobileVars
    BY <1>11 DEF mobileVars, MobileTypeOK, CopiesSafe, Safe, Seen
  <1>. QED BY <1>1, <1>2, <1>3, <1>4, <1>5, <1>6, <1>7, <1>8, <1>9, <1>10, <1>11 DEF MobileNext

-----------------------------------------------------------------------------
(* A payment is never listed as read, in the storage or on show, unless the   *)
(* user saw it or it came with a first sync, however syncs, updates and       *)
(* restarts of the app overlap.                                               *)
THEOREM ReadAlwaysSeen == MobileSpec => []ReadWasSeen
  <1>1. SyncInv => ReadWasSeen
    BY DEF SyncInv, Safe, Seen, ReadWasSeen
  <1>. QED BY InitSafe, StepSafe, <1>1, PTL DEF MobileSpec

-----------------------------------------------------------------------------
(* Refunds. A hash is that of a refund of the row's own escrow, wherever it  *)
(* is kept: in the row, and in what a handler read or built. A transaction   *)
(* that the ledger took closed its escrow, and no other one did.             *)

RefundShape ==
    /\ refund \in [Refunds -> Attempt]
    /\ refundOf = [j \in RefundJobs |-> refundOf[j]]
    /\ refundJob \in [RefundJobs -> {"absent", "waiting", "running", "done", "dropped"}]
    /\ \A j \in RefundJobs : refundJob[j] # "absent" => refundOf[j] \in Refunds
    /\ run \in [RefundJobs -> Handling \cup {Still}]
    /\ \A j \in RefundJobs : refundJob[j] # "running" => run[j] = Still
    /\ tx \in [Transactions -> {"none", "sent", "success", "failed"}]
    /\ escrow \in [Entities -> {"open", "refunded", "settled"}]

\* What a handler of a refund of escrow e may hold.
HeldFor(h, e) ==
    /\ h.hash # NoTransaction => h.hash[1] = e
    /\ h.tx # NoTransaction => h.tx[1] = e
    /\ h.step = "poll" => h.hash # NoTransaction
    /\ h.step \in {"send", "wait"} => h.tx # NoTransaction

RowsHoldTheirs ==
    \A r \in Refunds : refund[r].hash # NoTransaction => refund[r].hash[1] = refund[r].of

HandlersHoldTheirs ==
    \A j \in RefundJobs : run[j] # Still => HeldFor(run[j], refund[refundOf[j]].of)

ConfirmedSucceeded ==
    \A r \in Refunds : refund[r].status = "confirmed" =>
        refund[r].hash # NoTransaction /\ tx[refund[r].hash] = "success"

OneSuccess ==
    \A t \in Transactions : tx[t] = "success" =>
        /\ escrow[t[1]] = "refunded"
        /\ \A u \in Transactions \ {t} : tx[u] = "success" => u[1] # t[1]

RefundInv ==
    RefundShape /\ RowsHoldTheirs /\ HandlersHoldTheirs /\ ConfirmedSucceeded /\ OneSuccess

LEMMA TransactionFacts ==
    ASSUME NEW t \in Transactions
    PROVE  t[1] \in Entities /\ t # NoTransaction
  <1>1. PICK e \in Entities, n \in 1..MaxSends, fee \in Fees : t = <<e, n, fee>>
    BY DEF Transactions
  <1>2. <<e, n, fee>> # <<>> /\ <<e, n, fee>>[1] = e
    OBVIOUS
  <1>. QED BY <1>1, <1>2 DEF NoTransaction

LEMMA InitRefunds == RefundInit => RefundInv
  <1> SUFFICES ASSUME RefundInit PROVE RefundInv
    OBVIOUS
  <1>1. RefundShape
    BY DEF RefundInit, RefundShape, Attempt
  <1>2. OneSuccess
    BY DEF RefundInit, OneSuccess
  <1>3. RowsHoldTheirs /\ HandlersHoldTheirs /\ ConfirmedSucceeded
    BY DEF RefundInit, RowsHoldTheirs, HandlersHoldTheirs, ConfirmedSucceeded
  <1>. QED BY <1>1, <1>2, <1>3 DEF RefundInv

\* What a write to a row may do: the escrow stays, and a hash is one of its own.
RowsKept ==
    /\ refund' \in [Refunds -> Attempt]
    /\ \A r \in Refunds :
         /\ refund'[r].of = refund[r].of
         /\ refund'[r].hash # NoTransaction => refund'[r].hash[1] = refund[r].of
         /\ refund'[r].status = "confirmed" =>
              \/ refund[r].status = "confirmed" /\ refund'[r].hash = refund[r].hash
              \/ refund'[r].hash # NoTransaction /\ tx[refund'[r].hash] = "success"

LEMMA UpdateKeepsRows ==
    ASSUME RefundInv, NEW r \in Refunds,
           NEW status \in {"pending", "submitted", "confirmed", "failed", "rejected"},
           NEW hash \in Transactions \cup {NoTransaction},
           hash # NoTransaction => hash[1] = refund[r].of,
           status = "confirmed" => hash # NoTransaction /\ tx[hash] = "success",
           updateRefundStatus(r, status, hash)
    PROVE  RowsKept
  <1>1. CASE UNCHANGED refund
    BY <1>1 DEF RowsKept, RefundInv, RefundShape, RowsHoldTheirs
  <1>2. CASE refund' = [refund EXCEPT ![r].status = status,
                                      ![r].hash = IF hash = NoTransaction THEN @ ELSE hash]
    <2> DEFINE row == [refund[r] EXCEPT !.status = status,
                                        !.hash = IF hash = NoTransaction THEN @ ELSE hash]
    <2>1. row \in Attempt /\ refund[r] \in Attempt
      <3>1. refund[r] \in Attempt
        BY DEF RefundInv, RefundShape
      <3>2. (IF hash = NoTransaction THEN refund[r].hash ELSE hash)
              \in Transactions \cup {NoTransaction}
        BY <3>1 DEF Attempt
      <3>. QED BY <3>1, <3>2 DEF Attempt
    <2>2. row.of = refund[r].of /\ row.status = status
          /\ row.hash = IF hash = NoTransaction THEN refund[r].hash ELSE hash
      BY <2>1 DEF Attempt
    <2>3. refund' = [refund EXCEPT ![r] = row]
      BY <1>2
    <2>. HIDE DEF row
    <2>4. refund'[r] = row /\ \A q \in Refunds \ {r} : refund'[q] = refund[q]
      BY <2>3 DEF RefundInv, RefundShape
    <2>5. refund' \in [Refunds -> Attempt]
      BY <2>1, <2>3 DEF RefundInv, RefundShape
    <2>. QED BY <2>2, <2>4, <2>5 DEF RowsKept, RefundInv, RowsHoldTheirs
  <1>. QED BY <1>1, <1>2 DEF updateRefundStatus

\* What a step leaves of the ledger, and of the jobs.
LedgerKept ==
    /\ tx' \in [Transactions -> {"none", "sent", "success", "failed"}]
    /\ \A t \in Transactions : tx'[t] = "success" <=> tx[t] = "success"
    /\ escrow' = escrow

JobsKept ==
    /\ refundOf' = [j \in RefundJobs |-> refundOf'[j]]
    /\ refundJob' \in [RefundJobs -> {"absent", "waiting", "running", "done", "dropped"}]
    /\ \A j \in RefundJobs :
         /\ refundJob[j] # "absent" => refundOf'[j] = refundOf[j]
         /\ refundJob'[j] # "absent" => refundOf'[j] \in Refunds

RunsKept ==
    /\ run' \in [RefundJobs -> Handling \cup {Still}]
    /\ \A j \in RefundJobs :
         /\ refundJob'[j] # "running" => run'[j] = Still
         /\ run'[j] # Still => refundJob[j] # "absent" /\ HeldFor(run'[j], refund[refundOf[j]].of)

LEMMA StepKeeps ==
    ASSUME RefundInv, RowsKept, LedgerKept, JobsKept, RunsKept
    PROVE  RefundInv'
  <1>1. RefundShape'
    BY DEF RefundInv, RefundShape, RowsKept, LedgerKept, JobsKept, RunsKept
  <1>2. RowsHoldTheirs'
    BY DEF RowsHoldTheirs, RowsKept
  <1>3. HandlersHoldTheirs'
    <2> SUFFICES ASSUME NEW j \in RefundJobs, run'[j] # Still
                 PROVE  HeldFor(run[j], refund[refundOf[j]].of)'
      BY DEF HandlersHoldTheirs
    <2>1. refundJob[j] # "absent" /\ HeldFor(run'[j], refund[refundOf[j]].of)
      BY DEF RunsKept
    <2>2. refundOf'[j] = refundOf[j] /\ refundOf[j] \in Refunds
      BY <2>1 DEF JobsKept, RefundInv, RefundShape
    <2>3. refund'[refundOf'[j]].of = refund[refundOf[j]].of
      BY <2>2 DEF RowsKept
    <2>. QED BY <2>1, <2>3 DEF HeldFor
  <1>4. ConfirmedSucceeded'
    <2> SUFFICES ASSUME NEW r \in Refunds, refund'[r].status = "confirmed"
                 PROVE  refund'[r].hash # NoTransaction /\ tx'[refund'[r].hash] = "success"
      BY DEF ConfirmedSucceeded
    <2>1. refund'[r].hash # NoTransaction /\ tx[refund'[r].hash] = "success"
      BY DEF RowsKept, RefundInv, ConfirmedSucceeded
    <2>2. refund'[r].hash \in Transactions \cup {NoTransaction}
      BY DEF RowsKept, Attempt
    <2>. QED BY <2>1, <2>2 DEF LedgerKept
  <1>5. OneSuccess'
    BY DEF OneSuccess, RefundInv, LedgerKept
  <1>. QED BY <1>1, <1>2, <1>3, <1>4, <1>5 DEF RefundInv

\* One handler goes on; nothing else happens to the jobs or on the ledger.
OthersRest(j, h) ==
    /\ run' = [run EXCEPT ![j] = h]
    /\ refundOf' = refundOf /\ escrow' = escrow
    /\ refundJob' \in [RefundJobs -> {"absent", "waiting", "running", "done", "dropped"}]
    /\ \A k \in RefundJobs \ {j} : refundJob'[k] = refundJob[k]
    /\ refundJob[j] # "absent" /\ refundJob'[j] # "absent"
    /\ refundJob'[j] # "running" => h = Still

LEMMA HandlerKeeps ==
    ASSUME RefundInv, RowsKept, LedgerKept, NEW j \in RefundJobs,
           NEW h \in Handling \cup {Still}, OthersRest(j, h),
           h # Still => HeldFor(h, refund[refundOf[j]].of)
    PROVE  RefundInv'
  <1>1. JobsKept
    BY DEF JobsKept, OthersRest, RefundInv, RefundShape
  <1>2. run' \in [RefundJobs -> Handling \cup {Still}] /\ run'[j] = h
        /\ \A k \in RefundJobs \ {j} : run'[k] = run[k]
    BY DEF OthersRest, RefundInv, RefundShape
  <1>3. \A k \in RefundJobs : refundJob'[k] # "running" => run'[k] = Still
    BY <1>2 DEF OthersRest, RefundInv, RefundShape
  <1>4. ASSUME NEW k \in RefundJobs \ {j}, run'[k] # Still
        PROVE  refundJob[k] # "absent" /\ HeldFor(run'[k], refund[refundOf[k]].of)
    BY <1>2, <1>4 DEF RefundInv, RefundShape, HandlersHoldTheirs
  <1>5. run'[j] # Still => refundJob[j] # "absent" /\ HeldFor(run'[j], refund[refundOf[j]].of)
    BY <1>2 DEF OthersRest
  <1>6. RunsKept
    BY <1>2, <1>3, <1>4, <1>5 DEF RunsKept
  <1>. QED BY <1>1, <1>6, StepKeeps

\* A handler that is at some step has a running job, for some refund.
LEMMA RunningFacts ==
    ASSUME RefundInv, NEW j \in RefundJobs, run[j].step # "none"
    PROVE  /\ refundJob[j] = "running" /\ run[j] \in Handling /\ refundOf[j] \in Refunds
           /\ HeldFor(run[j], refund[refundOf[j]].of) /\ run[j] # Still
           /\ run[j].hash \in Transactions \cup {NoTransaction}
           /\ run[j].tx \in Transactions \cup {NoTransaction}
  <1>1. run[j] # Still
    BY DEF Still
  <1>2. run[j] \in Handling /\ refundJob[j] = "running"
    BY <1>1 DEF RefundInv, RefundShape
  <1>. QED BY <1>1, <1>2 DEF RefundInv, RefundShape, HandlersHoldTheirs, Handling

LEMMA QuietLedger == RefundInv /\ tx' = tx /\ escrow' = escrow => LedgerKept
  BY DEF RefundInv, RefundShape, LedgerKept

LEMMA SendKeepsLedger ==
    ASSUME RefundInv, NEW t \in Transactions, tx[t] = "none",
           tx' = [tx EXCEPT ![t] = "sent"], escrow' = escrow
    PROVE  LedgerKept
  BY DEF RefundInv, RefundShape, LedgerKept

LEMMA QuietRows == RefundInv /\ UNCHANGED refund => RowsKept
  BY DEF RowsKept, RefundInv, RefundShape, RowsHoldTheirs

\* What the queue does with one job.
LEMMA QueueMoves ==
    ASSUME RefundInv, NEW j \in RefundJobs, NEW from, NEW to \in {"waiting", "running", "done", "dropped"},
           RefundQueue!Move(j, from, to)
    PROVE  /\ refundJob[j] = from /\ refundJob'[j] = to
           /\ \A k \in RefundJobs \ {j} : refundJob'[k] = refundJob[k]
           /\ refundJob' \in [RefundJobs -> {"absent", "waiting", "running", "done", "dropped"}]
  BY DEF RefundInv, RefundShape, RefundQueue!Move

\* A handler that throws lets go of its job and writes its refund failed, if at all.
LEMMA FailKeeps ==
    ASSUME RefundInv, LedgerKept, NEW j \in RefundJobs, run[j].step # "none",
           NEW hash \in Transactions \cup {NoTransaction},
           hash # NoTransaction => hash[1] = refund[refundOf[j]].of,
           failRefund(j, hash), refundOf' = refundOf
    PROVE  RefundInv'
  <1>1. refundOf[j] \in Refunds /\ refundJob[j] = "running"
    BY RunningFacts
  <1>2. PICK to \in {"waiting", "dropped"} : RefundQueue!Move(j, "running", to)
    BY DEF failRefund, RefundQueue!Return
  <1>3. OthersRest(j, Still)
    BY <1>1, <1>2, QueueMoves DEF failRefund, OthersRest, LedgerKept
  <1>4. RowsKept
    <2>1. UNCHANGED refund \/ updateRefundStatus(refundOf[j], "failed", hash)
      BY DEF failRefund
    <2>2. CASE updateRefundStatus(refundOf[j], "failed", hash)
      <3>1. PICK r \in Refunds : r = refundOf[j]
        BY <1>1
      <3>2. updateRefundStatus(r, "failed", hash)
        BY <2>2, <3>1 DEF updateRefundStatus
      <3>. QED BY <3>1, <3>2, UpdateKeepsRows
    <2>. QED BY <2>1, <2>2, QuietRows
  <1>. QED BY <1>3, <1>4, HandlerKeeps

\* A handler goes on to its next step, and may have written its refund.
LEMMA GoesOnKeeps ==
    ASSUME RefundInv, RowsKept, LedgerKept, NEW j \in RefundJobs, run[j].step # "none",
           NEW h \in Handling, run' = [run EXCEPT ![j] = h],
           HeldFor(h, refund[refundOf[j]].of), UNCHANGED <<refundOf, refundJob>>
    PROVE  RefundInv'
  <1>1. OthersRest(j, h)
    BY RunningFacts DEF OthersRest, RefundInv, RefundShape, LedgerKept
  <1>. QED BY <1>1, HandlerKeeps

LEMMA HandKeeps ==
    ASSUME RefundInv, NEW j \in RefundJobs, handRefund(j)
    PROVE  RefundInv'
  <1> DEFINE h == [step |-> "read", found |-> FALSE, hash |-> NoTransaction, tx |-> NoTransaction]
  <1>1. h \in Handling /\ HeldFor(h, refund[refundOf[j]].of)
    BY DEF Handling, HeldFor
  <1>2. RefundQueue!Move(j, "waiting", "running") /\ run' = [run EXCEPT ![j] = h]
        /\ UNCHANGED <<refund, refundOf, tx, escrow>>
    BY DEF handRefund, ledgerVars, RefundQueue!Hand
  <1>. HIDE DEF h
  <1>3. OthersRest(j, h)
    BY <1>2, QueueMoves DEF OthersRest
  <1>4. RowsKept /\ LedgerKept
    BY <1>2, QuietRows, QuietLedger
  <1>. QED BY <1>1, <1>3, <1>4, HandlerKeeps

LEMMA ReadKeepsRefund ==
    ASSUME RefundInv, NEW j \in RefundJobs, readAttempt(j)
    PROVE  RefundInv'
  <1>1. run[j].step # "none" /\ UNCHANGED <<refund, refundOf, refundJob, tx, escrow>>
    BY DEF readAttempt, ledgerVars
  <1>2. run[j] \in Handling /\ refundOf[j] \in Refunds /\ HeldFor(run[j], refund[refundOf[j]].of)
    BY <1>1, RunningFacts
  <1> DEFINE hash == refund[refundOf[j]].hash
             seen == [run[j] EXCEPT !.found = TRUE, !.hash = hash,
                                    !.step = IF hash = NoTransaction THEN "prepare" ELSE "poll"]
             blind == [run[j] EXCEPT !.step = "prepare"]
  <1>3. hash \in Transactions \cup {NoTransaction}
    BY <1>2 DEF RefundInv, RefundShape, Attempt
  <1>4. hash # NoTransaction => hash[1] = refund[refundOf[j]].of
    BY <1>2 DEF RefundInv, RowsHoldTheirs
  <1>5. run' = [run EXCEPT ![j] = seen] \/ run' = [run EXCEPT ![j] = blind]
    BY DEF readAttempt
  <1>. HIDE DEF hash
  <1>6. seen \in Handling /\ HeldFor(seen, refund[refundOf[j]].of)
    BY <1>2, <1>3, <1>4 DEF Handling, HeldFor
  <1>7. blind \in Handling /\ HeldFor(blind, refund[refundOf[j]].of)
    BY <1>2 DEF Handling, HeldFor
  <1>8. RowsKept /\ LedgerKept
    BY <1>1, QuietRows, QuietLedger
  <1>. HIDE DEF seen, blind
  <1>. QED BY <1>1, <1>5, <1>6, <1>7, <1>8, GoesOnKeeps

LEMMA GotoMoves ==
    ASSUME RefundInv, NEW j \in RefundJobs, run[j].step # "none", NEW step \in {"wait", "end"},
           step = "wait" => run[j].tx # NoTransaction, Goto(j, step)
    PROVE  \E h \in Handling : run' = [run EXCEPT ![j] = h] /\ HeldFor(h, refund[refundOf[j]].of)
  <1> DEFINE h == [run[j] EXCEPT !.step = step]
  <1>1. h \in Handling /\ HeldFor(h, refund[refundOf[j]].of)
    BY RunningFacts DEF Handling, HeldFor
  <1>2. run' = [run EXCEPT ![j] = h]
    BY DEF Goto
  <1>. QED BY <1>1, <1>2

LEMMA ConfirmKeeps ==
    ASSUME RefundInv, NEW j \in RefundJobs, run[j].step # "none",
           NEW hash \in Transactions, hash[1] = refund[refundOf[j]].of, tx[hash] = "success",
           updateRefundStatus(refundOf[j], "confirmed", hash), Goto(j, "end"),
           UNCHANGED <<refundOf, tx, escrow>>
    PROVE  RefundInv'
  <1>1. PICK r \in Refunds : r = refundOf[j]
    BY RunningFacts
  <1>2. updateRefundStatus(r, "confirmed", hash) /\ hash[1] = refund[r].of
    BY <1>1 DEF updateRefundStatus
  <1>3. RowsKept
    BY <1>2, UpdateKeepsRows, TransactionFacts
  <1>4. PICK h \in Handling : run' = [run EXCEPT ![j] = h] /\ HeldFor(h, refund[refundOf[j]].of)
    BY GotoMoves
  <1>5. LedgerKept /\ refundJob' = refundJob
    BY QuietLedger DEF Goto
  <1>. QED BY <1>3, <1>4, <1>5, GoesOnKeeps

LEMMA PollEarlierKeeps ==
    ASSUME RefundInv, NEW j \in RefundJobs, pollEarlier(j)
    PROVE  RefundInv'
  <1>1. run[j].step = "poll" /\ UNCHANGED <<refundOf, tx, escrow>>
    BY DEF pollEarlier, ledgerVars
  <1>2. PICK hash \in Transactions : hash = run[j].hash
    BY <1>1, RunningFacts DEF HeldFor
  <1>3. hash[1] = refund[refundOf[j]].of /\ LedgerKept
    BY <1>1, <1>2, RunningFacts, TransactionFacts, QuietLedger DEF HeldFor
  <1>4. CASE tx[hash] = "success" /\ updateRefundStatus(refundOf[j], "confirmed", hash) /\ Goto(j, "end")
    BY <1>1, <1>3, <1>4, ConfirmKeeps
  <1>5. CASE failRefund(j, hash)
    BY <1>1, <1>3, <1>5, FailKeeps
  <1>. QED BY <1>2, <1>4, <1>5 DEF pollEarlier

\* The transaction that is built refunds the escrow of the row.
LEMMA PrepareKeeps ==
    ASSUME RefundInv, NEW j \in RefundJobs, prepareTransaction(j)
    PROVE  RefundInv'
  <1>1. run[j].step # "none" /\ UNCHANGED <<refundOf, tx, escrow>>
    BY DEF prepareTransaction, ledgerVars
  <1>2. LedgerKept
    BY <1>1, QuietLedger
  <1>3. ASSUME NEW n \in 1..MaxSends, NEW fee \in Fees,
               run' = [run EXCEPT ![j].step = "send", ![j].tx = <<refund[refundOf[j]].of, n, fee>>],
               UNCHANGED <<refundJob, refund>>
        PROVE  RefundInv'
    <2>1. PICK e \in Entities : e = refund[refundOf[j]].of
      BY <1>1, RunningFacts DEF RefundInv, RefundShape, Attempt
    <2>2. PICK t \in Transactions : t = <<e, n, fee>>
      BY DEF Transactions
    <2>3. t[1] = e /\ t # NoTransaction
      BY <2>2, TransactionFacts
    <2> DEFINE h == [run[j] EXCEPT !.step = "send", !.tx = t]
    <2>4. run[j] \in Handling /\ HeldFor(run[j], e)
      BY <1>1, <2>1, RunningFacts
    <2>5. h \in Handling /\ HeldFor(h, e)
      BY <2>3, <2>4 DEF Handling, HeldFor
    <2>6. run' = [run EXCEPT ![j] = h]
      BY <1>3, <2>1, <2>2
    <2>. HIDE DEF h
    <2>7. RowsKept
      BY <1>3, QuietRows
    <2>. QED BY <1>1, <1>2, <1>3, <2>1, <2>5, <2>6, <2>7, GoesOnKeeps
  <1>4. CASE failRefund(j, NoTransaction)
    BY <1>1, <1>2, <1>4, FailKeeps
  <1>. QED BY <1>3, <1>4 DEF prepareTransaction

LEMMA SubmitKeeps ==
    ASSUME RefundInv, NEW j \in RefundJobs, submitTransaction(j)
    PROVE  RefundInv'
  <1>1. run[j].step = "send" /\ UNCHANGED <<refundOf, escrow>>
    BY DEF submitTransaction
  <1>2. PICK t \in Transactions : t = run[j].tx
    BY <1>1, RunningFacts DEF HeldFor
  <1>3. LedgerKept
    BY <1>1, <1>2, QuietLedger, SendKeepsLedger DEF submitTransaction
  <1>4. CASE Goto(j, "wait") /\ UNCHANGED refund
    <2>1. run[j].tx # NoTransaction
      BY <1>2, TransactionFacts
    <2>2. PICK h \in Handling : run' = [run EXCEPT ![j] = h] /\ HeldFor(h, refund[refundOf[j]].of)
      BY <1>1, <1>4, <2>1, GotoMoves
    <2>. QED BY <1>1, <1>3, <1>4, <2>2, GoesOnKeeps, QuietRows DEF Goto
  <1>5. CASE failRefund(j, NoTransaction)
    BY <1>1, <1>3, <1>5, FailKeeps
  <1>. QED BY <1>4, <1>5 DEF submitTransaction

LEMMA PollStatusKeeps ==
    ASSUME RefundInv, NEW j \in RefundJobs, pollTransactionStatus(j)
    PROVE  RefundInv'
  <1>1. run[j].step = "wait" /\ UNCHANGED <<refundOf, tx, escrow>>
    BY DEF pollTransactionStatus, ledgerVars
  <1>2. PICK hash \in Transactions : hash = run[j].tx
    BY <1>1, RunningFacts DEF HeldFor
  <1>3. hash[1] = refund[refundOf[j]].of /\ LedgerKept
    BY <1>1, <1>2, RunningFacts, TransactionFacts, QuietLedger DEF HeldFor
  <1>4. CASE tx[hash] = "success" /\ updateRefundStatus(refundOf[j], "confirmed", hash) /\ Goto(j, "end")
    BY <1>1, <1>3, <1>4, ConfirmKeeps
  <1>5. CASE failRefund(j, hash)
    BY <1>1, <1>3, <1>5, FailKeeps
  <1>6. CASE failRefund(j, NoTransaction)
    BY <1>1, <1>3, <1>6, FailKeeps
  <1>. QED BY <1>2, <1>4, <1>5, <1>6 DEF pollTransactionStatus

\* A refund is written failed by a job of its own, without a transaction.
LEMMA WrittenFailed ==
    ASSUME RefundInv, NEW j \in RefundJobs, refundJob[j] # "absent",
           updateRefundStatus(refundOf[j], "failed", NoTransaction) \/ UNCHANGED refund
    PROVE  RowsKept
  <1>1. PICK r \in Refunds : r = refundOf[j]
    BY DEF RefundInv, RefundShape
  <1>2. CASE updateRefundStatus(refundOf[j], "failed", NoTransaction)
    <2>1. updateRefundStatus(r, "failed", NoTransaction)
      BY <1>1, <1>2 DEF updateRefundStatus
    <2>. QED BY <2>1, UpdateKeepsRows
  <1>. QED BY <1>2, QuietRows

LEMMA RecordKeepsRefund ==
    ASSUME RefundInv, NEW j \in RefundJobs, recordRefundJob(j)
    PROVE  RefundInv'
  <1>1. run' = [run EXCEPT ![j] = Still] /\ UNCHANGED <<refundOf, tx, escrow>>
    BY DEF recordRefundJob, ledgerVars
  <1>2. PICK to \in {"done", "waiting", "dropped"} : RefundQueue!Move(j, "running", to)
    BY DEF recordRefundJob, RefundQueue!Record, RefundQueue!Return
  <1>3. OthersRest(j, Still)
    BY <1>1, <1>2, QueueMoves DEF OthersRest
  <1>4. RowsKept
    BY <1>3, WrittenFailed DEF recordRefundJob, OthersRest
  <1>5. LedgerKept
    BY <1>1, QuietLedger
  <1>. QED BY <1>3, <1>4, <1>5, HandlerKeeps

\* The queue moves a job whose handler does not run.
LEMMA IdleKeeps ==
    ASSUME RefundInv, NEW j \in RefundJobs, NEW from \in {"waiting", "dropped"},
           NEW to \in {"waiting", "dropped"}, RefundQueue!Move(j, from, to),
           UNCHANGED <<refundOf, run, tx, escrow>>, RowsKept
    PROVE  RefundInv'
  <1>1. run[j] = Still /\ refundJob[j] # "absent" /\ refundJob'[j] # "absent"
    BY QueueMoves DEF RefundInv, RefundShape
  <1>2. run' = [run EXCEPT ![j] = Still]
    BY <1>1 DEF RefundInv, RefundShape
  <1>3. OthersRest(j, Still)
    BY <1>1, <1>2, QueueMoves DEF OthersRest
  <1>4. LedgerKept
    BY QuietLedger
  <1>. QED BY <1>3, <1>4, HandlerKeeps

LEMMA GiveUpKeeps ==
    ASSUME RefundInv, NEW j \in RefundJobs, giveUpRefund(j)
    PROVE  RefundInv'
  <1>1. RefundQueue!Move(j, "waiting", "dropped") /\ UNCHANGED <<refundOf, run, tx, escrow>>
    BY DEF giveUpRefund, ledgerVars, RefundQueue!Drop
  <1>2. refundJob[j] # "absent"
    BY <1>1, QueueMoves
  <1>3. RowsKept
    BY <1>2, WrittenFailed DEF giveUpRefund
  <1>. QED BY <1>1, <1>3, IdleKeeps

LEMMA RetryKeeps ==
    ASSUME RefundInv, NEW j \in RefundJobs, retryRefundJob(j)
    PROVE  RefundInv'
  <1>1. RefundQueue!Move(j, "dropped", "waiting") /\ UNCHANGED <<refund, refundOf, run, tx, escrow>>
    BY DEF retryRefundJob, ledgerVars, RefundQueue!Revive
  <1>2. RowsKept
    BY <1>1, QuietRows
  <1>. QED BY <1>1, <1>2, IdleKeeps

LEMMA RefundCrashKeeps ==
    ASSUME RefundInv, RefundCrash
    PROVE  RefundInv'
  <1>1. /\ RefundQueue!Crash /\ run' = [j \in RefundJobs |-> Still]
        /\ UNCHANGED <<refund, refundOf, tx, escrow>>
    BY DEF RefundCrash, ledgerVars
  <1>2. refundJob' \in [RefundJobs -> {"absent", "waiting", "running", "done", "dropped"}]
        /\ \A j \in RefundJobs : refundJob[j] = "absent" <=> refundJob'[j] = "absent"
    BY <1>1 DEF RefundQueue!Crash
  <1>3. JobsKept
    BY <1>1, <1>2 DEF JobsKept, RefundInv, RefundShape
  <1>4. RunsKept
    BY <1>1 DEF RunsKept
  <1>5. RowsKept /\ LedgerKept
    BY <1>1, QuietRows, QuietLedger
  <1>. QED BY <1>3, <1>4, <1>5, StepKeeps

\* An approval enqueues a job that was not there, so that no handler works on it.
LEMMA EnqueueKeepsRefund ==
    ASSUME RefundInv, NEW o, NEW r \in Refunds, enqueueRefund(o, r)
    PROVE  RefundInv'
  <1>1. PICK j \in RefundJobs : RefundQueue!Accept(j) /\ refundOf' = [refundOf EXCEPT ![j] = r]
    BY DEF enqueueRefund
  <1>2. UNCHANGED <<refund, run, tx, escrow>>
    BY DEF enqueueRefund, ledgerVars
  <1>3. RefundQueue!Move(j, "absent", "waiting")
    BY <1>1 DEF RefundQueue!Accept
  <1>4. /\ refundJob[j] = "absent" /\ refundJob'[j] = "waiting"
        /\ \A k \in RefundJobs \ {j} : refundJob'[k] = refundJob[k]
        /\ refundJob' \in [RefundJobs -> {"absent", "waiting", "running", "done", "dropped"}]
    BY <1>3, QueueMoves
  <1>5. /\ refundOf' = [k \in RefundJobs |-> refundOf'[k]] /\ refundOf'[j] = r
        /\ \A k \in RefundJobs \ {j} : refundOf'[k] = refundOf[k]
    BY <1>1 DEF RefundInv, RefundShape
  <1>6. JobsKept
    BY <1>4, <1>5 DEF JobsKept, RefundInv, RefundShape
  <1>7. RowsKept /\ LedgerKept
    BY <1>2, QuietRows, QuietLedger
  <1>8. ASSUME NEW k \in RefundJobs, run'[k] # Still
        PROVE  refundJob[k] # "absent" /\ HeldFor(run'[k], refund[refundOf[k]].of)
    BY <1>2, <1>8 DEF RefundInv, RefundShape, HandlersHoldTheirs
  <1>9. RunsKept
    BY <1>2, <1>4, <1>8 DEF RunsKept, RefundInv, RefundShape
  <1>. QED BY <1>6, <1>7, <1>9, StepKeeps

\* A request writes its row, never as confirmed, and leaves its hash alone.
LEMMA RequestKeeps ==
    ASSUME RefundInv, RowsKept, UNCHANGED <<refundOf, refundJob, run, tx, escrow>>
    PROVE  RefundInv'
  <1>1. LedgerKept
    BY QuietLedger
  <1>2. JobsKept
    BY DEF JobsKept, RefundInv, RefundShape
  <1>3. ASSUME NEW k \in RefundJobs, run'[k] # Still
        PROVE  refundJob[k] # "absent" /\ HeldFor(run'[k], refund[refundOf[k]].of)
    BY <1>3 DEF RefundInv, RefundShape, HandlersHoldTheirs
  <1>4. RunsKept
    BY <1>3 DEF RunsKept, RefundInv, RefundShape
  <1>. QED BY <1>1, <1>2, <1>4, StepKeeps

LEMMA StatusWritten ==
    ASSUME RefundInv, NEW r \in Refunds, NEW status \in {"pending", "submitted", "rejected"},
           refund' = [refund EXCEPT ![r].status = status]
    PROVE  RowsKept
  <1>1. updateRefundStatus(r, status, NoTransaction)
    BY DEF updateRefundStatus, RefundInv, RefundShape, Attempt
  <1>. QED BY <1>1, UpdateKeepsRows

LEMMA LookKeeps ==
    ASSUME RefundInv, NEW o, NEW step, NEW r, Look(o, step, r)
    PROVE  RefundInv'
  BY RequestKeeps, QuietRows DEF Look, ledgerVars

LEMMA WritesKeep ==
    ASSUME RefundInv, NEW o, NEW r \in Refunds,
           insertAttempt(o, r) \/ writeSubmitted(o, r) \/ writeRejected(o, r)
    PROVE  RefundInv'
  <1>1. RowsKept
    BY StatusWritten, QuietRows DEF insertAttempt, writeSubmitted, writeRejected
  <1>2. UNCHANGED <<refundOf, refundJob, run, tx, escrow>>
    BY DEF insertAttempt, writeSubmitted, writeRejected, ledgerVars
  <1>. QED BY <1>1, <1>2, RequestKeeps

-----------------------------------------------------------------------------
\* The ledger refunds an escrow that was open: no other transaction did.
LEMMA LandKeeps ==
    ASSUME RefundInv, NEW t \in Transactions, Land(t)
    PROVE  RefundInv'
  <1>1. tx[t] = "sent" /\ UNCHANGED <<refund, refundOf, refundJob, run>>
    BY DEF Land
  <1>2. PICK e \in Entities : e = t[1]
    BY TransactionFacts
  <1>3. PICK status \in {"success", "failed"} :
          /\ tx' = [tx EXCEPT ![t] = status]
          /\ status = "success" => escrow[e] = "open" /\ escrow' = [escrow EXCEPT ![e] = "refunded"]
          /\ status = "failed" => escrow' = escrow
    BY <1>2 DEF Land
  <1>4. tx'[t] = status /\ \A u \in Transactions \ {t} : tx'[u] = tx[u]
    BY <1>3 DEF RefundInv, RefundShape
  <1>5. RefundShape'
    BY <1>1, <1>3 DEF RefundInv, RefundShape
  <1>6. RowsHoldTheirs' /\ HandlersHoldTheirs'
    BY <1>1 DEF RefundInv, RowsHoldTheirs, HandlersHoldTheirs, HeldFor
  <1>7. ConfirmedSucceeded'
    <2> SUFFICES ASSUME NEW r \in Refunds, refund[r].status = "confirmed"
                 PROVE  refund[r].hash # NoTransaction /\ tx'[refund[r].hash] = "success"
      BY <1>1 DEF ConfirmedSucceeded
    <2>1. refund[r].hash \in Transactions \cup {NoTransaction}
      BY DEF RefundInv, RefundShape, Attempt
    <2>. QED BY <1>1, <1>4, <2>1 DEF RefundInv, ConfirmedSucceeded
  <1>8. OneSuccess'
    <2>1. CASE status = "failed"
      BY <1>1, <1>3, <1>4, <2>1 DEF RefundInv, OneSuccess
    <2>2. CASE status = "success"
      <3>1. \A u \in Transactions : tx[u] = "success" => u[1] # e
        BY <1>3, <2>2 DEF RefundInv, OneSuccess
      <3>2. escrow'[e] = "refunded" /\ \A d \in Entities \ {e} : escrow'[d] = escrow[d]
        BY <1>3, <2>2 DEF RefundInv, RefundShape
      <3>3. \A u \in Transactions \ {t} : tx'[u] = "success" =>
               tx[u] = "success" /\ u[1] # e /\ u[1] \in Entities
        BY <1>4, <3>1, TransactionFacts
      <3>4. \A u \in Transactions : tx'[u] = "success" => escrow'[u[1]] = "refunded"
        BY <1>2, <3>2, <3>3 DEF RefundInv, OneSuccess
      <3>5. \A u \in Transactions : tx'[u] = "success" =>
               \A w \in Transactions \ {u} : tx'[w] = "success" => w[1] # u[1]
        BY <1>2, <3>3 DEF RefundInv, OneSuccess
      <3>. QED BY <3>4, <3>5 DEF OneSuccess
    <2>. QED BY <2>1, <2>2
  <1>. QED BY <1>5, <1>6, <1>7, <1>8 DEF RefundInv

\* An escrow that settles otherwise was open: no transaction had refunded it.
LEMMA SettleKeeps ==
    ASSUME RefundInv, NEW e \in Entities, SettleOtherwise(e)
    PROVE  RefundInv'
  <1>1. escrow[e] = "open" /\ escrow' = [escrow EXCEPT ![e] = "settled"]
        /\ UNCHANGED <<refund, refundOf, refundJob, run, tx>>
    BY DEF SettleOtherwise
  <1>2. RefundShape'
    BY <1>1 DEF RefundInv, RefundShape
  <1>3. RowsHoldTheirs' /\ HandlersHoldTheirs' /\ ConfirmedSucceeded'
    BY <1>1 DEF RefundInv, RowsHoldTheirs, HandlersHoldTheirs, ConfirmedSucceeded, HeldFor
  <1>4. OneSuccess'
    <2>1. \A d \in Entities : escrow[d] = "refunded" => escrow'[d] = "refunded"
      BY <1>1 DEF RefundInv, RefundShape
    <2>. QED BY <1>1, <2>1, TransactionFacts DEF RefundInv, OneSuccess
  <1>. QED BY <1>2, <1>3, <1>4 DEF RefundInv

LEMMA RefundStillKeeps == RefundInv /\ UNCHANGED refundVars => RefundInv'
  BY RequestKeeps, QuietRows DEF refundVars, ledgerVars

LEMMA RefundStep == RefundInv /\ RefundNext => RefundInv'
  <1> SUFFICES ASSUME RefundInv, RefundNext PROVE RefundInv'
    OBVIOUS
  <1>1. ASSUME NEW o \in Operators, NEW r \in Refunds,
               initiateRefund(o, r) \/ approveRefund(o, r) \/ rejectRefund(o, r)
        PROVE  RefundInv'
    BY <1>1, LookKeeps DEF initiateRefund, approveRefund, rejectRefund
  <1>2. ASSUME NEW o \in Operators, NEW r \in Refunds,
               insertAttempt(o, r) \/ writeSubmitted(o, r) \/ writeRejected(o, r)
        PROVE  RefundInv'
    BY <1>2, WritesKeep
  <1>3. ASSUME NEW o \in Operators, NEW r \in Refunds, enqueueRefund(o, r)
        PROVE  RefundInv'
    BY <1>3, EnqueueKeepsRefund
  <1>4. ASSUME NEW o \in Operators, requestFails(o)
        PROVE  RefundInv'
    BY <1>4, RequestKeeps, QuietRows DEF requestFails, ledgerVars
  <1>5. ASSUME NEW j \in RefundJobs,
               handRefund(j) \/ readAttempt(j) \/ pollEarlier(j) \/ prepareTransaction(j)
        PROVE  RefundInv'
    BY <1>5, HandKeeps, ReadKeepsRefund, PollEarlierKeeps, PrepareKeeps
  <1>6. ASSUME NEW j \in RefundJobs,
               submitTransaction(j) \/ pollTransactionStatus(j) \/ recordRefundJob(j)
        PROVE  RefundInv'
    BY <1>6, SubmitKeeps, PollStatusKeeps, RecordKeepsRefund
  <1>7. ASSUME NEW j \in RefundJobs, giveUpRefund(j) \/ retryRefundJob(j)
        PROVE  RefundInv'
    BY <1>7, GiveUpKeeps, RetryKeeps
  <1>8. CASE RefundCrash
    BY <1>8, RefundCrashKeeps
  <1>9. ASSUME NEW t \in Transactions, Land(t)
        PROVE  RefundInv'
    BY <1>9, LandKeeps
  <1>10. CASE PayOtherwise
    BY <1>10, RequestKeeps, QuietRows DEF PayOtherwise
  <1>11. ASSUME NEW e \in Entities, SettleOtherwise(e)
         PROVE  RefundInv'
    BY <1>11, SettleKeeps
  <1>. QED BY <1>1, <1>2, <1>3, <1>4, <1>5, <1>6, <1>7, <1>8, <1>9, <1>10, <1>11 DEF RefundNext

LEMMA InvConfirmed == RefundInv => ConfirmedIsOnLedger
  <1> SUFFICES ASSUME RefundInv, NEW r \in Refunds, refund[r].status = "confirmed"
               PROVE  /\ refund[r].hash # NoTransaction
                      /\ refund[r].hash[1] = refund[r].of /\ tx[refund[r].hash] = "success"
                      /\ escrow[refund[r].of] = "refunded"
                      /\ \A q \in Refunds :
                           refund[q].status = "confirmed" /\ refund[q].of = refund[r].of =>
                             refund[q].hash = refund[r].hash
    BY DEF ConfirmedIsOnLedger
  <1>1. ASSUME NEW q \in Refunds, refund[q].status = "confirmed"
        PROVE  /\ refund[q].hash \in Transactions /\ refund[q].hash # NoTransaction
               /\ refund[q].hash[1] = refund[q].of /\ tx[refund[q].hash] = "success"
    BY <1>1 DEF RefundInv, RefundShape, Attempt, ConfirmedSucceeded, RowsHoldTheirs
  <1>2. escrow[refund[r].of] = "refunded"
    BY <1>1 DEF RefundInv, OneSuccess
  <1>3. ASSUME NEW q \in Refunds, refund[q].status = "confirmed", refund[q].of = refund[r].of
        PROVE  refund[q].hash = refund[r].hash
    <2>1. PICK t \in Transactions, u \in Transactions : t = refund[q].hash /\ u = refund[r].hash
      BY <1>1, <1>3
    <2>. QED BY <1>1, <1>3, <2>1 DEF RefundInv, OneSuccess
  <1>. QED BY <1>1, <1>2, <1>3

\* A refund shown as confirmed carries the transaction that refunded its escrow,
\* and all refunds of one escrow that are shown so carry the same one: for any
\* number of refunds, jobs and retries, whatever crashes and late answers come
\* between, and although equal submissions share their hash
\* (refunds.service.ts, refund-job.handler.ts, soroban-rpc.service.ts).
THEOREM ConfirmedRefundsAreOnLedger == RefundSpec => []ConfirmedIsOnLedger
  <1>1. RefundInit => RefundInv
    BY InitRefunds
  <1>2. RefundInv /\ [RefundNext]_refundVars => RefundInv'
    BY RefundStep, RefundStillKeeps
  <1>3. RefundInv => ConfirmedIsOnLedger
    BY InvConfirmed
  <1>. QED BY <1>1, <1>2, <1>3, PTL DEF RefundSpec

-----------------------------------------------------------------------------
(* Recurring payments. The count and the date of a link move together, and   *)
(* what a cron run, a job or a handler carries names periods that are due.   *)

SomeLink == [status : {"absent", "active", "paused", "cancelled"}, executed : 0..Periods,
             start : Nat, next : Nat, total : Totals \cup {CHOOSE t \in Totals : TRUE},
             end : Ends \cup {0}]

\* The period of an execution has begun, on a link that exists.
Begun(e) == link[e[1]].status # "absent" /\ link[e[1]].start + e[2] - 1 <= now

Due(l, count) == link[l].status # "absent" /\ link[l].start + count <= now

TickIsDue(t) ==
    /\ t = [list |-> t.list, at |-> t.at]
    /\ \A l \in DOMAIN t.list : l \in Links /\ t.list[l] \in 0..Periods /\ Due(l, t.list[l])
    /\ t.at \in Executions \cup {<<>>} /\ (t.at # <<>> => Begun(t.at))

\* What a handler read of a link is a count and the date that goes with it.
ReadTogether(l, read) == read \in (0..Periods) \X Nat /\ read[2] = link[l].start + read[1]

RecShape ==
    /\ link \in [Links -> SomeLink] /\ now \in Nat
    /\ job \in [Executions -> {"absent", "waiting", "running", "done", "dropped"}]
    /\ handler = [e \in Executions |-> [step |-> handler[e].step, read |-> handler[e].read]]
    /\ \E ticks : sched \in [Ticks -> ticks]
    /\ ledger \in [Executions -> Nat]

DatesFollowCounts == \A l \in Links : link[l].next = link[l].start + link[l].executed

JobsHaveBegun == \A e \in Executions : job[e] # "absent" => Begun(e)

HandlersHaveJobs ==
    \A e \in Executions :
      /\ handler[e].step # "none" => job[e] # "absent"
      /\ handler[e].step = "write" => ReadTogether(e[1], handler[e].read)

TicksAreDue == \A s \in Ticks : TickIsDue(sched[s])

PaidHaveJobs == \A e \in Executions : ledger[e] > 0 => job[e] # "absent"

RecInv ==
    /\ RecShape /\ DatesFollowCounts /\ JobsHaveBegun
    /\ HandlersHaveJobs /\ TicksAreDue /\ PaidHaveJobs

LEMMA ExecutionFacts ==
    ASSUME NEW e \in Executions
    PROVE  e[1] \in Links /\ e[2] \in 1..Periods /\ e = <<e[1], e[2]>> /\ e # <<>>
  <1>1. PICK l \in Links, n \in 1..Periods : e = <<l, n>>
    BY DEF Executions
  <1>2. e[1] = l /\ e[2] = n
    BY <1>1
  <1>3. <<l, n>> # <<>>
    OBVIOUS
  <1>. QED BY <1>1, <1>2, <1>3

LEMMA InitRecurring == RecInit => RecInv
  <1> SUFFICES ASSUME RecInit PROVE RecInv
    OBVIOUS
  <1>1. RecShape
    <2>1. \A l \in Links : link[l] \in SomeLink
      BY RecurringBounds DEF RecInit, SomeLink
    <2>2. link = [l \in Links |-> link[l]]
      BY DEF RecInit
    <2>3. sched \in [Ticks -> {NoTick}]
      BY DEF RecInit
    <2>4. handler = [e \in Executions |-> [step |-> handler[e].step, read |-> handler[e].read]]
      BY DEF RecInit, Idle
    <2>. QED BY <2>1, <2>2, <2>3, <2>4 DEF RecInit, RecShape
  <1>2. DatesFollowCounts /\ JobsHaveBegun /\ PaidHaveJobs
    BY DEF RecInit, DatesFollowCounts, JobsHaveBegun, PaidHaveJobs
  <1>3. HandlersHaveJobs
    BY DEF RecInit, HandlersHaveJobs, Idle
  <1>4. TicksAreDue
    BY DEF RecInit, TicksAreDue, TickIsDue, NoTick
  <1>. QED BY <1>1, <1>2, <1>3, <1>4 DEF RecInv

\* What a step may do to each part; an existing link keeps its first date.
LinksKept ==
    /\ link' \in [Links -> SomeLink] /\ now' \in Nat /\ now <= now'
    /\ \A l \in Links :
         /\ link'[l].next = link'[l].start + link'[l].executed
         /\ link[l].status # "absent" => link'[l].status # "absent" /\ link'[l].start = link[l].start

QueueKept ==
    /\ job' \in [Executions -> {"absent", "waiting", "running", "done", "dropped"}]
    /\ \A e \in Executions :
         /\ job[e] # "absent" => job'[e] # "absent"
         /\ job'[e] # "absent" => Begun(e)

HandlersKept ==
    /\ handler' = [e \in Executions |-> [step |-> handler'[e].step, read |-> handler'[e].read]]
    /\ \A e \in Executions :
         /\ handler'[e].step # "none" => job[e] # "absent"
         /\ handler'[e].step = "write" => ReadTogether(e[1], handler'[e].read)

TicksKept ==
    /\ \E ticks : sched' \in [Ticks -> ticks]
    /\ \A s \in Ticks : TickIsDue(sched'[s])

PaymentsKept ==
    /\ ledger' \in [Executions -> Nat]
    /\ \A e \in Executions : ledger'[e] > 0 => job[e] # "absent"

LEMMA BegunStays ==
    ASSUME RecInv, LinksKept, NEW l \in Links, NEW k \in Int, link[l].status # "absent",
           link[l].start + k <= now
    PROVE  link'[l].status # "absent" /\ link'[l].start + k <= now'
  <1>1. link[l].start \in Nat /\ link'[l].start = link[l].start /\ now \in Nat /\ now' \in Nat /\ now <= now'
    BY DEF LinksKept, RecInv, RecShape, SomeLink
  <1>. QED BY <1>1 DEF LinksKept

LEMMA RecStepKeeps ==
    ASSUME RecInv, LinksKept, QueueKept, HandlersKept, TicksKept, PaymentsKept
    PROVE  RecInv'
  <1>1. RecShape'
    BY DEF RecShape, LinksKept, QueueKept, HandlersKept, TicksKept, PaymentsKept
  <1>2. DatesFollowCounts'
    BY DEF DatesFollowCounts, LinksKept
  <1>3. ASSUME NEW e \in Executions, Begun(e)
        PROVE  link'[e[1]].status # "absent" /\ link'[e[1]].start + e[2] - 1 <= now'
    <2>1. e[1] \in Links /\ e[2] - 1 \in Int /\ link[e[1]].start \in Int /\ e[2] \in Int
      BY ExecutionFacts DEF RecInv, RecShape, SomeLink
    <2>2. PICK l \in Links, k \in Int : l = e[1] /\ k = e[2] - 1
      BY <2>1
    <2>3. link[l].status # "absent" /\ link[l].start + k <= now
      BY <1>3, <2>1, <2>2 DEF Begun
    <2>4. link'[l].status # "absent" /\ link'[l].start + k <= now' /\ link'[l].start \in Int
      BY <2>3, BegunStays DEF LinksKept, SomeLink
    <2>. QED BY <2>1, <2>2, <2>4
  <1>4. JobsHaveBegun'
    BY <1>3 DEF JobsHaveBegun, QueueKept, Begun
  <1>5. HandlersHaveJobs'
    <2> SUFFICES ASSUME NEW e \in Executions
                 PROVE  /\ handler'[e].step # "none" => job'[e] # "absent"
                        /\ handler'[e].step = "write" => ReadTogether(e[1], handler[e].read)'
      BY DEF HandlersHaveJobs
    <2>1. handler'[e].step # "none" => job'[e] # "absent"
      BY DEF HandlersKept, QueueKept
    <2>2. ASSUME handler'[e].step = "write" PROVE ReadTogether(e[1], handler[e].read)'
      <3>1. job[e] # "absent" /\ ReadTogether(e[1], handler'[e].read)
        BY <2>2 DEF HandlersKept
      <3>2. link'[e[1]].start = link[e[1]].start
        BY <3>1, ExecutionFacts DEF RecInv, JobsHaveBegun, Begun, LinksKept
      <3>. QED BY <3>1, <3>2 DEF ReadTogether
    <2>. QED BY <2>1, <2>2
  <1>6. TicksAreDue'
    <2> SUFFICES ASSUME NEW s \in Ticks PROVE TickIsDue(sched[s])'
      BY DEF TicksAreDue
    <2>1. TickIsDue(sched'[s])
      BY DEF TicksKept
    <2>2. ASSUME NEW l \in DOMAIN sched'[s].list
          PROVE  l \in Links /\ sched'[s].list[l] \in 0..Periods /\ Due(l, sched[s].list[l])'
      <3>1. PICK k \in 0..Periods : k = sched'[s].list[l]
        BY <2>1 DEF TickIsDue
      <3>2. l \in Links /\ link[l].status # "absent" /\ link[l].start + k <= now
        BY <2>1, <3>1 DEF TickIsDue, Due
      <3>. QED BY <3>1, <3>2, BegunStays DEF Due
    <2>3. sched'[s].at \in Executions \cup {<<>>} /\ (sched'[s].at # <<>> => Begun(sched[s].at)')
      <3>1. ASSUME NEW e \in Executions, e = sched'[s].at
            PROVE  Begun(sched[s].at)'
        BY <1>3, <2>1, <3>1, ExecutionFacts DEF TickIsDue, Begun
      <3>. QED BY <2>1, <3>1 DEF TickIsDue
    <2>. QED BY <2>1, <2>2, <2>3 DEF TickIsDue
  <1>7. PaidHaveJobs'
    BY DEF PaidHaveJobs, PaymentsKept, QueueKept
  <1>. QED BY <1>1, <1>2, <1>4, <1>5, <1>6, <1>7 DEF RecInv

\* Each part, when a step leaves it alone.
LEMMA RestingParts ==
    ASSUME RecInv
    PROVE  /\ UNCHANGED <<link, now>> => LinksKept
           /\ UNCHANGED job => QueueKept
           /\ UNCHANGED handler => HandlersKept
           /\ UNCHANGED sched => TicksKept
           /\ UNCHANGED ledger => PaymentsKept
  <1>1. UNCHANGED <<link, now>> => LinksKept
    BY DEF RecInv, RecShape, DatesFollowCounts, LinksKept
  <1>2. UNCHANGED job => QueueKept
    BY DEF RecInv, RecShape, JobsHaveBegun, QueueKept
  <1>3. UNCHANGED handler => HandlersKept
    BY DEF RecInv, RecShape, HandlersHaveJobs, HandlersKept
  <1>4. UNCHANGED sched => TicksKept
    BY DEF RecInv, RecShape, TicksAreDue, TicksKept
  <1>5. UNCHANGED ledger => PaymentsKept
    BY DEF RecInv, RecShape, PaidHaveJobs, PaymentsKept
  <1>. QED BY <1>1, <1>2, <1>3, <1>4, <1>5

\* One link is written: its date follows its count, and its first date stays.
LEMMA LinkWritten ==
    ASSUME RecInv, NEW l \in Links, NEW row \in SomeLink, link' = [link EXCEPT ![l] = row], now' = now,
           row.next = row.start + row.executed,
           link[l].status # "absent" => row.status # "absent" /\ row.start = link[l].start
    PROVE  LinksKept
  <1>1. link' \in [Links -> SomeLink] /\ link'[l] = row /\ \A k \in Links \ {l} : link'[k] = link[k]
    BY DEF RecInv, RecShape
  <1>. QED BY <1>1 DEF RecInv, RecShape, DatesFollowCounts, LinksKept

LEMMA JobMoved ==
    ASSUME RecInv, NEW e \in Executions, NEW from, NEW to \in {"waiting", "running", "done", "dropped"},
           Queue!Move(e, from, to), from = "absent" => Begun(e)
    PROVE  QueueKept /\ job[e] = from /\ job'[e] = to
  BY DEF RecInv, RecShape, JobsHaveBegun, QueueKept, Queue!Move

\* One handler goes on, of a job that was enqueued.
LEMMA HandlerMoved ==
    ASSUME RecInv, NEW e \in Executions, job[e] # "absent",
           NEW step, NEW read, handler' = [handler EXCEPT ![e] = [step |-> step, read |-> read]],
           step = "write" => ReadTogether(e[1], read)
    PROVE  HandlersKept
  <1>1. handler'[e] = [step |-> step, read |-> read]
        /\ \A d \in Executions \ {e} : handler'[d] = handler[d]
    BY DEF RecInv, RecShape
  <1>2. \A d \in Executions : handler'[d] = [step |-> handler'[d].step, read |-> handler'[d].read]
    BY <1>1 DEF RecInv, RecShape
  <1>3. handler' = [d \in Executions |-> handler'[d]]
    BY DEF RecInv, RecShape
  <1>. QED BY <1>1, <1>2, <1>3 DEF HandlersKept, RecInv, HandlersHaveJobs

LEMMA WentTo ==
    ASSUME RecInv, NEW e \in Executions, job[e] # "absent", NEW step, step # "write", To(e, step)
    PROVE  HandlersKept
  <1>1. handler[e] = [step |-> handler[e].step, read |-> handler[e].read]
    BY DEF RecInv, RecShape
  <1>2. [handler[e] EXCEPT !.step = step] = [step |-> step, read |-> handler[e].read]
    BY <1>1
  <1>3. handler' = [handler EXCEPT ![e] = [handler[e] EXCEPT !.step = step]]
    BY DEF To
  <1>4. PICK read : read = handler[e].read
    OBVIOUS
  <1>5. handler' = [handler EXCEPT ![e] = [step |-> step, read |-> read]]
    BY <1>2, <1>3, <1>4
  <1>. QED BY <1>5, HandlerMoved

\* A handler that throws.
LEMMA ThrowsKeeps ==
    ASSUME RecInv, NEW e \in Executions, Throws(e)
    PROVE  HandlersKept /\ QueueKept /\ job[e] # "absent"
  <1>1. PICK to \in {"waiting", "dropped"} : Queue!Move(e, "running", to)
    BY DEF Throws, Queue!Return
  <1>2. QueueKept /\ job[e] = "running"
    BY <1>1, JobMoved
  <1>3. handler' = [handler EXCEPT ![e] = [step |-> "none", read |-> <<0, 0>>]]
    BY DEF Throws, Idle
  <1>4. job[e] # "absent" /\ "none" # "write"
    BY <1>2
  <1>5. HandlersKept
    BY <1>3, <1>4, HandlerMoved
  <1>. QED BY <1>2, <1>5

LEMMA AtWork ==
    ASSUME RecInv, NEW e \in Executions, handler[e].step # "none"
    PROVE  job[e] # "absent" /\ link[e[1]].status # "absent" /\ e[1] \in Links
  BY ExecutionFacts DEF RecInv, HandlersHaveJobs, JobsHaveBegun, Begun

LEMMA TickWritten ==
    ASSUME RecInv, NEW s \in Ticks, NEW t, sched' = [sched EXCEPT ![s] = t], TickIsDue(t)
    PROVE  TicksKept
  <1>1. PICK ticks : sched \in [Ticks -> ticks]
    BY DEF RecInv, RecShape
  <1>2. sched' \in [Ticks -> ticks \cup {t}] /\ sched'[s] = t /\ \A r \in Ticks \ {s} : sched'[r] = sched[r]
    BY <1>1
  <1>. QED BY <1>2 DEF TicksKept, RecInv, TicksAreDue

-----------------------------------------------------------------------------
\* A new link is due at its first date, with nothing executed.
LEMMA CreateKeeps ==
    ASSUME RecInv, NEW l \in Links, createLink(l)
    PROVE  RecInv'
  <1>1. PICK start \in now..MaxNow, total \in Totals, end \in Ends :
          link' = [link EXCEPT ![l] = [status |-> "active", executed |-> 0,
                                       start |-> start, next |-> start, total |-> total,
                                       end |-> end]]
    BY DEF createLink
  <1> DEFINE row == [status |-> "active", executed |-> 0, start |-> start, next |-> start,
                 total |-> total, end |-> end]
  <1>2. row \in SomeLink /\ row.next = row.start + row.executed
    BY RecurringBounds DEF SomeLink, RecInv, RecShape
  <1>3. link' = [link EXCEPT ![l] = row] /\ link[l].status = "absent" /\ now' = now
    BY <1>1 DEF createLink
  <1>. HIDE DEF row
  <1>4. LinksKept
    BY <1>2, <1>3, LinkWritten
  <1>5. UNCHANGED <<job, handler, sched, ledger>>
    BY DEF createLink
  <1>. QED BY <1>4, <1>5, RestingParts, RecStepKeeps

LEMMA UpdateStatusKeeps ==
    ASSUME RecInv, NEW l \in Links, updateStatus(l)
    PROVE  RecInv'
  <1>1. PICK status \in {"cancelled", "paused", "active"} : link' = [link EXCEPT ![l].status = status]
    BY DEF updateStatus
  <1> DEFINE row == [link[l] EXCEPT !.status = status]
  <1>2. link[l] \in SomeLink /\ link[l].next = link[l].start + link[l].executed
    BY DEF RecInv, RecShape, DatesFollowCounts
  <1>3. /\ row \in SomeLink /\ row.next = row.start + row.executed
        /\ row.status # "absent" /\ row.start = link[l].start
    BY <1>2 DEF SomeLink
  <1>4. link' = [link EXCEPT ![l] = row] /\ now' = now
    BY <1>1 DEF updateStatus
  <1>. HIDE DEF row
  <1>5. LinksKept
    BY <1>3, <1>4, LinkWritten
  <1>6. UNCHANGED <<job, handler, sched, ledger>>
    BY DEF updateStatus
  <1>. QED BY <1>5, <1>6, RestingParts, RecStepKeeps

\* A cron run takes up the links whose next period has begun.
LEMMA CheckKeeps ==
    ASSUME RecInv, NEW s \in Ticks, checkPending(s)
    PROVE  RecInv'
  <1> DEFINE list == [l \in getDueForExecution |-> link[l].executed]
             t == [list |-> list, at |-> <<>>]
  <1>1. sched' = [sched EXCEPT ![s] = t]
    <2>1. sched[s] = [list |-> sched[s].list, at |-> <<>>]
      BY DEF checkPending, NoTick
    <2>2. sched' = [sched EXCEPT ![s] = [sched[s] EXCEPT !.list = list]]
      BY DEF checkPending
    <2>. HIDE DEF list
    <2>3. [sched[s] EXCEPT !.list = list] = t
      BY <2>1
    <2>. QED BY <2>2, <2>3
  <1>2. ASSUME NEW l \in getDueForExecution
        PROVE  l \in Links /\ link[l].executed \in 0..Periods /\ Due(l, link[l].executed)
    BY <1>2 DEF getDueForExecution, Due, RecInv, RecShape, SomeLink, DatesFollowCounts
  <1>3. DOMAIN list = getDueForExecution /\ \A l \in getDueForExecution : list[l] = link[l].executed
    OBVIOUS
  <1>. HIDE DEF list
  <1>4. TickIsDue(t)
    BY <1>2, <1>3 DEF TickIsDue
  <1>5. TicksKept
    BY <1>1, <1>4, TickWritten
  <1>6. UNCHANGED <<link, job, handler, ledger, now>>
    BY DEF checkPending
  <1>. QED BY <1>5, <1>6, RestingParts, RecStepKeeps

\* The row it inserts is for the period after the count it read.
LEMMA CreateExecutionKeeps ==
    ASSUME RecInv, NEW s \in Ticks, NEW l \in Links, createExecution(s, l)
    PROVE  RecInv'
  <1> DEFINE count == sched[s].list[l]
             rest == [k \in DOMAIN sched[s].list \ {l} |-> sched[s].list[k]]
  <1>1. TickIsDue(sched[s]) /\ l \in DOMAIN sched[s].list /\ sched[s].at = <<>> /\ count + 1 <= Periods
    BY DEF createExecution, RecInv, TicksAreDue
  <1>2. count \in 0..Periods /\ Due(l, count)
    BY <1>1 DEF TickIsDue
  <1>3. DOMAIN rest = DOMAIN sched[s].list \ {l} /\ \A k \in DOMAIN rest : rest[k] = sched[s].list[k]
    OBVIOUS
  <1>4. \/ sched' = [sched EXCEPT ![s] = [list |-> rest, at |-> <<l, count + 1>>]]
        \/ sched' = [sched EXCEPT ![s] = [list |-> rest, at |-> <<>>]]
    <2>1. [sched[s] EXCEPT !.list = rest] = [list |-> rest, at |-> <<>>]
      BY <1>1 DEF TickIsDue
    <2>2. \/ sched' = [sched EXCEPT ![s] = [list |-> rest, at |-> <<l, count + 1>>]]
          \/ sched' = [sched EXCEPT ![s] = [sched[s] EXCEPT !.list = rest]]
      BY DEF createExecution
    <2>. QED BY <2>1, <2>2
  <1>. HIDE DEF count, rest
  <1>5. \A k \in DOMAIN rest : k \in Links /\ rest[k] \in 0..Periods /\ Due(k, rest[k])
    BY <1>1, <1>3 DEF TickIsDue
  <1>6. PICK e \in Executions : e = <<l, count + 1>>
    <2>1. count + 1 \in 1..Periods
      BY <1>1, <1>2, RecurringBounds
    <2>. QED BY <2>1 DEF Executions
  <1>7. Begun(e)
    BY <1>2, <1>6 DEF Begun, Due, RecInv, RecShape, SomeLink
  <1>8. TickIsDue([list |-> rest, at |-> e]) /\ TickIsDue([list |-> rest, at |-> <<>>])
    BY <1>5, <1>7 DEF TickIsDue
  <1>9. TicksKept
    BY <1>4, <1>6, <1>8, TickWritten
  <1>10. UNCHANGED <<link, job, handler, ledger, now>>
    BY DEF createExecution
  <1>. QED BY <1>9, <1>10, RestingParts, RecStepKeeps

LEMMA EnqueueExecutionKeeps ==
    ASSUME RecInv, NEW s \in Ticks, enqueueExecution(s)
    PROVE  RecInv'
  <1>1. TickIsDue(sched[s]) /\ sched[s].at # <<>>
    BY DEF enqueueExecution, RecInv, TicksAreDue
  <1>2. PICK e \in Executions : e = sched[s].at
    BY <1>1 DEF TickIsDue
  <1>3. Begun(e)
    BY <1>1, <1>2 DEF TickIsDue
  <1> DEFINE t == [sched[s] EXCEPT !.at = <<>>]
  <1>4. TickIsDue(t) /\ sched' = [sched EXCEPT ![s] = t]
    BY <1>1 DEF TickIsDue, enqueueExecution
  <1>. HIDE DEF t
  <1>5. TicksKept
    BY <1>4, TickWritten
  <1>6. QueueKept
    <2>1. CASE UNCHANGED job
      BY <2>1, RestingParts
    <2>2. CASE Queue!Accept(sched[s].at)
      <3>1. Queue!Move(e, "absent", "waiting")
        BY <1>2, <2>2 DEF Queue!Accept, Queue!Move
      <3>. QED BY <1>3, <3>1, JobMoved
    <2>. QED BY <2>1, <2>2 DEF enqueueExecution
  <1>7. UNCHANGED <<link, handler, ledger, now>>
    BY DEF enqueueExecution
  <1>. QED BY <1>5, <1>6, <1>7, RestingParts, RecStepKeeps

-----------------------------------------------------------------------------
LEMMA HandJobKeeps ==
    ASSUME RecInv, NEW e \in Executions, handJob(e)
    PROVE  RecInv'
  <1>1. Queue!Move(e, "waiting", "running") /\ To(e, "submit") /\ UNCHANGED <<link, sched, ledger, now>>
    BY DEF handJob, Queue!Hand
  <1>2. QueueKept /\ job[e] = "waiting"
    BY <1>1, JobMoved
  <1>3. HandlersKept
    BY <1>1, <1>2, WentTo
  <1>. QED BY <1>1, <1>2, <1>3, RestingParts, RecStepKeeps

\* A payment is submitted by a job that was enqueued.
LEMMA SubmitPaymentKeeps ==
    ASSUME RecInv, NEW e \in Executions, submitRecurringPayment(e)
    PROVE  RecInv'
  <1>1. job[e] # "absent" /\ UNCHANGED <<link, sched, now>>
    BY AtWork DEF submitRecurringPayment
  <1>2. PaymentsKept
    <2>1. CASE UNCHANGED ledger
      BY <2>1, RestingParts
    <2>2. CASE ledger' = [ledger EXCEPT ![e] = ledger[e] + 1]
      BY <1>1, <2>2 DEF PaymentsKept, RecInv, RecShape, PaidHaveJobs
    <2>. QED BY <2>1, <2>2 DEF submitRecurringPayment
  <1>3. HandlersKept /\ QueueKept
    <2>1. CASE Throws(e)
      BY <2>1, ThrowsKeeps
    <2>2. CASE To(e, "mark") /\ UNCHANGED job
      BY <1>1, <2>2, WentTo, RestingParts
    <2>. QED BY <2>1, <2>2 DEF submitRecurringPayment
  <1>. QED BY <1>1, <1>2, <1>3, RestingParts, RecStepKeeps

LEMMA MarkKeeps ==
    ASSUME RecInv, NEW e \in Executions, updateExecutionStatus(e)
    PROVE  RecInv'
  <1>1. job[e] # "absent" /\ UNCHANGED <<link, sched, ledger, now>>
    BY AtWork DEF updateExecutionStatus
  <1>2. HandlersKept /\ QueueKept
    <2>1. CASE Throws(e)
      BY <2>1, ThrowsKeeps
    <2>2. CASE To(e, "read") /\ UNCHANGED job
      BY <1>1, <2>2, WentTo, RestingParts
    <2>. QED BY <2>1, <2>2 DEF updateExecutionStatus
  <1>. QED BY <1>1, <1>2, RestingParts, RecStepKeeps

LEMMA ReadCountKeeps ==
    ASSUME RecInv, NEW e \in Executions, readCount(e)
    PROVE  RecInv'
  <1>1. job[e] # "absent" /\ e[1] \in Links /\ UNCHANGED <<link, job, sched, ledger, now>>
    BY AtWork DEF readCount
  <1>2. PICK read : read = <<link[e[1]].executed, link[e[1]].next>>
    OBVIOUS
  <1>3. ReadTogether(e[1], read)
    BY <1>1, <1>2 DEF ReadTogether, RecInv, RecShape, SomeLink, DatesFollowCounts
  <1>4. handler' = [handler EXCEPT ![e] = [step |-> "write", read |-> read]]
    BY <1>2 DEF readCount
  <1>5. HandlersKept
    BY <1>1, <1>3, <1>4, HandlerMoved
  <1>. QED BY <1>1, <1>5, RestingParts, RecStepKeeps

\* Both move by one from what was read together, so they still go together.
LEMMA WriteCountKeeps ==
    ASSUME RecInv, NEW e \in Executions, writeCount(e)
    PROVE  RecInv'
  <1>1. job[e] # "absent" /\ e[1] \in Links /\ UNCHANGED <<sched, ledger, now>>
    BY AtWork DEF writeCount
  <1>2. CASE Throws(e) /\ UNCHANGED link
    BY <1>1, <1>2, ThrowsKeeps, RestingParts, RecStepKeeps
  <1>3. CASE /\ handler[e].read[1] + 1 <= Periods
             /\ link' = [link EXCEPT ![e[1]].executed = handler[e].read[1] + 1,
                                     ![e[1]].next = handler[e].read[2] + 1]
             /\ To(e, "end") /\ UNCHANGED job
    <2>1. ReadTogether(e[1], handler[e].read)
      BY DEF writeCount, RecInv, HandlersHaveJobs
    <2>2. PICK l \in Links : l = e[1]
      BY <1>1
    <2>3. PICK c \in 0..Periods, d \in Nat : c = handler[e].read[1] /\ d = handler[e].read[2]
      BY <2>1 DEF ReadTogether
    <2> DEFINE row == [link[l] EXCEPT !.executed = c + 1, !.next = d + 1]
    <2>4. link[l] \in SomeLink /\ d = link[l].start + c /\ c + 1 <= Periods
      BY <1>3, <2>1, <2>2, <2>3 DEF RecInv, RecShape, ReadTogether
    <2>5. link' = [link EXCEPT ![l] = row]
      BY <1>3, <2>2, <2>3
    <2>6. c + 1 \in 0..Periods /\ d + 1 \in Nat /\ link[l].start \in Nat
      BY <2>4, RecurringBounds DEF SomeLink
    <2>7. row \in SomeLink
      BY <2>4, <2>6 DEF SomeLink
    <2>8. /\ row.executed = c + 1 /\ row.next = d + 1 /\ row.start = link[l].start
          /\ row.status = link[l].status
      BY <2>4 DEF SomeLink
    <2>. HIDE DEF row
    <2>9. row.next = row.start + row.executed
      BY <2>4, <2>6, <2>8
    <2>10. LinksKept
      BY <1>1, <2>5, <2>7, <2>8, <2>9, LinkWritten
    <2>11. HandlersKept
      BY <1>1, <1>3, WentTo
    <2>. QED BY <1>1, <1>3, <2>10, <2>11, RestingParts, RecStepKeeps
  <1>. QED BY <1>2, <1>3 DEF writeCount

LEMMA RecordJobKeeps ==
    ASSUME RecInv, NEW e \in Executions, recordJob(e)
    PROVE  RecInv'
  <1>1. UNCHANGED <<link, sched, ledger, now>>
    BY DEF recordJob
  <1>2. PICK to \in {"done", "waiting", "dropped"} : Queue!Move(e, "running", to)
    BY DEF recordJob, Queue!Record, Queue!Return
  <1>3. QueueKept /\ job[e] # "absent"
    BY <1>2, JobMoved
  <1>4. handler' = [handler EXCEPT ![e] = [step |-> "none", read |-> <<0, 0>>]]
    BY DEF recordJob, Idle
  <1>5. "none" # "write"
    OBVIOUS
  <1>6. HandlersKept
    BY <1>3, <1>4, <1>5, HandlerMoved
  <1>. QED BY <1>1, <1>3, <1>6, RestingParts, RecStepKeeps

LEMMA DroppedKeeps ==
    ASSUME RecInv, NEW e \in Executions, giveUpJob(e) \/ retryDropped(e)
    PROVE  RecInv'
  <1>1. UNCHANGED <<link, handler, sched, ledger, now>>
    BY DEF giveUpJob, retryDropped
  <1>2. Queue!Move(e, "waiting", "dropped") \/ Queue!Move(e, "dropped", "waiting")
    BY DEF giveUpJob, retryDropped, Queue!Drop, Queue!Revive
  <1>3. QueueKept
    BY <1>2, JobMoved
  <1>. QED BY <1>1, <1>3, RestingParts, RecStepKeeps

LEMMA RecCrashKeeps ==
    ASSUME RecInv, RecCrash
    PROVE  RecInv'
  <1>1. Queue!Crash /\ UNCHANGED <<link, ledger, now>>
    BY DEF RecCrash
  <1>2. QueueKept
    BY <1>1 DEF Queue!Crash, QueueKept, RecInv, JobsHaveBegun
  <1>3. HandlersKept
    BY DEF RecCrash, HandlersKept, Idle
  <1>4. TickIsDue(NoTick) /\ sched' \in [Ticks -> {NoTick}]
    BY DEF RecCrash, TickIsDue, NoTick
  <1>5. TicksKept
    BY <1>4 DEF TicksKept
  <1>. QED BY <1>1, <1>2, <1>3, <1>5, RestingParts, RecStepKeeps

LEMMA TomorrowKeeps == RecInv /\ Tomorrow => RecInv'
  <1> SUFFICES ASSUME RecInv, Tomorrow PROVE RecInv'
    OBVIOUS
  <1>1. LinksKept
    BY DEF Tomorrow, LinksKept, RecInv, RecShape, DatesFollowCounts
  <1>. QED BY <1>1, RestingParts, RecStepKeeps DEF Tomorrow

LEMMA RecStep == RecInv /\ [RecNext]_recVars => RecInv'
  <1> SUFFICES ASSUME RecInv, [RecNext]_recVars PROVE RecInv'
    OBVIOUS
  <1>1. ASSUME NEW l \in Links, createLink(l) \/ updateStatus(l) PROVE RecInv'
    BY <1>1, CreateKeeps, UpdateStatusKeeps
  <1>2. ASSUME NEW l \in Links, createFirstExecution(l) \/ \E kind : askStatus(l, kind)
        PROVE  RecInv'
    BY <1>2, RestingParts, RecStepKeeps DEF createFirstExecution, askStatus
  <1>3. ASSUME NEW s \in Ticks, checkPending(s) \/ enqueueExecution(s) PROVE RecInv'
    BY <1>3, CheckKeeps, EnqueueExecutionKeeps
  <1>4. ASSUME NEW s \in Ticks, NEW l \in Links, createExecution(s, l) PROVE RecInv'
    BY <1>4, CreateExecutionKeeps
  <1>5. ASSUME NEW e \in Executions,
               handJob(e) \/ submitRecurringPayment(e) \/ updateExecutionStatus(e) \/ readCount(e)
        PROVE  RecInv'
    BY <1>5, HandJobKeeps, SubmitPaymentKeeps, MarkKeeps, ReadCountKeeps
  <1>6. ASSUME NEW e \in Executions,
               writeCount(e) \/ recordJob(e) \/ giveUpJob(e) \/ retryDropped(e)
        PROVE  RecInv'
    BY <1>6, WriteCountKeeps, RecordJobKeeps, DroppedKeeps
  <1>7. CASE RecCrash \/ Tomorrow
    BY <1>7, RecCrashKeeps, TomorrowKeeps
  <1>8. CASE UNCHANGED recVars
    BY <1>8, RestingParts, RecStepKeeps DEF recVars
  <1>. QED BY <1>1, <1>2, <1>3, <1>4, <1>5, <1>6, <1>7, <1>8 DEF RecNext

LEMMA InvNotEarly == RecInv => NeverEarly
  BY DEF RecInv, PaidHaveJobs, JobsHaveBegun, Begun, NeverEarly

\* No period of a recurring link is paid before its date, for any number of
\* links, overlapping cron runs and retried jobs: the count that names the
\* period and the date that makes the link due move together
\* (recurring-payments.repository.ts, incrementExecutedCount).
THEOREM PeriodsArePaidInTime == RecSpec => []NeverEarly
  <1>1. RecInit => RecInv
    BY InitRecurring
  <1>2. RecInv /\ [RecNext]_recVars => RecInv'
    BY RecStep
  <1>3. RecInv => NeverEarly
    BY InvNotEarly
  <1>. QED BY <1>1, <1>2, <1>3, PTL DEF RecSpec

-----------------------------------------------------------------------------
(* Auto-match. Whatever links a cycle or a replay read were not absent then, *)
(* and no link becomes absent, nor does a settled one open again.            *)

Offered(links) == links \subseteq {l \in PayLinks : plink[l].status # "absent"}

MatchShape ==
    /\ landed \in Seq(Txs)
    /\ plink \in [PayLinks -> [status : {"absent", "open", "paid", "expired"}, tx : Txs \cup {NoTx}]]
    /\ \E cycles : cycle \in [Matchers -> cycles]
    /\ \E demands : demand \in [Txs -> demands]

CycleReady(c) ==
    /\ c = [step |-> c.step, links |-> c.links, todo |-> c.todo]
    /\ Offered(c.links) /\ c.todo \in Seq(Txs)

ReadBefore ==
    /\ \A m \in Matchers : CycleReady(cycle[m])
    /\ \A t \in Txs : Offered(demand[t].links)

PaidByOwn == \A l \in PayLinks : plink[l].status = "paid" => Pays(plink[l].tx, l)

AnnouncedOwn ==
    \A a \in announced :
      a[1] \in PayLinks /\ plink[a[1]].status \in {"paid", "expired"} /\ Pays(a[2], a[1])

MatchInv == MatchShape /\ ReadBefore /\ PaidByOwn /\ AnnouncedOwn

LEMMA InitMatch == MatchInit => MatchInv
  <1> SUFFICES ASSUME MatchInit PROVE MatchInv
    OBVIOUS
  <1>1. MatchShape
    <2>1. landed \in Seq(Txs) /\ plink \in [PayLinks -> [status : {"absent", "open", "paid", "expired"}, tx : Txs \cup {NoTx}]]
      BY DEF MatchInit
    <2>2. cycle \in [Matchers -> {NoCycle}] /\ demand \in [Txs -> {NoDemand}]
      BY DEF MatchInit
    <2>. QED BY <2>1, <2>2 DEF MatchShape
  <1>2. ReadBefore
    <2>1. CycleReady(NoCycle) /\ Offered(NoDemand.links)
      BY DEF CycleReady, Offered, NoCycle, NoDemand
    <2>. QED BY <2>1 DEF MatchInit, ReadBefore
  <1>3. PaidByOwn /\ AnnouncedOwn
    BY DEF MatchInit, PaidByOwn, AnnouncedOwn
  <1>. QED BY <1>1, <1>2, <1>3 DEF MatchInv

\* Only a memo that no other of the links carries, and an amount that passes for
\* the link's own, reach the threshold of an automatic match.
LEMMA AutoMatchPays ==
    ASSUME NEW t \in Txs, NEW links \in SUBSET PayLinks, NEW b \in Best(t, links),
           resolveDecision(b.score) = "auto_match"
    PROVE  b.link \in links /\ Pays(t, b.link)
  <1>1. PICK l \in links : b = [link |-> l, score |-> scoreOne(t, l, links)]
    BY DEF Best
  <1>2. b.link = l /\ b.score = scoreOne(t, l, links)
    BY <1>1
  <1> DEFINE m == memoPoints(l, links)
             a == amountPoints(t, l)
  <1>3. m = 0 \/ m = 25 \/ (m = 60 /\ LinkTerms[l].memo # NoMemo)
    BY DEF memoPoints
  <1>4. Exact(t, l) => LinkTerms[l].amount > 0
                       /\ TxTerms[t].amount - LinkTerms[l].amount \in -Precision..Precision
    <2>1. TxTerms[t].amount \in Nat /\ LinkTerms[l].amount \in Nat /\ Precision \in Nat
      BY MatchAssumption
    <2>2. CASE TxTerms[t].amount = LinkTerms[l].amount
      BY <2>1, <2>2 DEF Exact
    <2>3. CASE <<TxTerms[t].amount, LinkTerms[l].amount>> \in ReadAlike
      BY <2>3, MatchAssumption DEF Exact
    <2>. QED BY <2>2, <2>3 DEF Exact
  <1>5. a = 0 \/ a = 20 \/ (a = 40 /\ Exact(t, l))
    BY DEF amountPoints
  <1>6. scoreOne(t, l, links) = IF Excluded(t, l) THEN 0 ELSE m + a
    BY DEF scoreOne
  <1>. HIDE DEF m, a
  <1>7. b.score \in Int
    BY <1>2, <1>3, <1>5, <1>6
  <1>8. b.score >= 95
    BY <1>7 DEF resolveDecision
  <1>9. ~Excluded(t, l) /\ m = 60 /\ a = 40
    BY <1>2, <1>3, <1>5, <1>6, <1>8
  <1>. QED BY <1>2, <1>3, <1>4, <1>5, <1>9 DEF Excluded, Pays

\* What a step may do to the links.
LinksMove ==
    /\ plink' \in [PayLinks -> [status : {"absent", "open", "paid", "expired"}, tx : Txs \cup {NoTx}]]
    /\ \A l \in PayLinks :
         /\ plink[l].status # "absent" => plink'[l].status # "absent"
         /\ plink[l].status \in {"paid", "expired"} => plink'[l].status \in {"paid", "expired"}
         /\ plink'[l].status = "paid" => Pays(plink'[l].tx, l)

AnnouncedMove ==
    \A a \in announced' :
      \/ a \in announced
      \/ a[1] \in PayLinks /\ plink'[a[1]].status \in {"paid", "expired"} /\ Pays(a[2], a[1])

\* The links that are read by now, of the state before the step.
ReadMoves ==
    /\ landed' \in Seq(Txs)
    /\ (\E cycles : cycle' \in [Matchers -> cycles]) /\ \A m \in Matchers : CycleReady(cycle'[m])
    /\ (\E demands : demand' \in [Txs -> demands]) /\ \A t \in Txs : Offered(demand'[t].links)

LEMMA MatchStepKeeps ==
    ASSUME MatchInv, LinksMove, AnnouncedMove, ReadMoves
    PROVE  MatchInv'
  <1>1. MatchShape'
    BY DEF MatchShape, LinksMove, ReadMoves
  <1>2. ASSUME NEW links, Offered(links)
        PROVE  links \subseteq {l \in PayLinks : plink'[l].status # "absent"}
    BY <1>2 DEF Offered, LinksMove
  <1>3. ReadBefore'
    BY <1>2 DEF ReadBefore, ReadMoves, CycleReady, Offered
  <1>4. PaidByOwn'
    BY DEF PaidByOwn, LinksMove
  <1>5. AnnouncedOwn'
    BY DEF AnnouncedOwn, AnnouncedMove, LinksMove, MatchInv
  <1>. QED BY <1>1, <1>3, <1>4, <1>5 DEF MatchInv

LEMMA MatchParts ==
    ASSUME MatchInv
    PROVE  /\ UNCHANGED plink => LinksMove
           /\ UNCHANGED announced => AnnouncedMove
           /\ UNCHANGED <<landed, cycle, demand>> => ReadMoves
  BY DEF MatchInv, MatchShape, ReadBefore, PaidByOwn, LinksMove, AnnouncedMove, ReadMoves

LEMMA CycleWritten ==
    ASSUME MatchInv, UNCHANGED <<landed, demand>>, NEW m \in Matchers, NEW c,
           cycle' = [cycle EXCEPT ![m] = c], CycleReady(c)
    PROVE  ReadMoves
  <1>1. PICK cycles : cycle \in [Matchers -> cycles]
    BY DEF MatchInv, MatchShape
  <1>2. cycle' \in [Matchers -> cycles \cup {c}] /\ cycle'[m] = c
        /\ \A k \in Matchers \ {m} : cycle'[k] = cycle[k]
    BY <1>1
  <1>. QED BY <1>2 DEF ReadMoves, MatchInv, MatchShape, ReadBefore

LEMMA DemandWritten ==
    ASSUME MatchInv, UNCHANGED <<landed, cycle>>, NEW t \in Txs, NEW d,
           demand' = [demand EXCEPT ![t] = d], Offered(d.links)
    PROVE  ReadMoves
  <1>1. PICK demands : demand \in [Txs -> demands]
    BY DEF MatchInv, MatchShape
  <1>2. demand' \in [Txs -> demands \cup {d}] /\ demand'[t] = d
        /\ \A k \in Txs \ {t} : demand'[k] = demand[k]
    BY <1>1
  <1>. QED BY <1>2 DEF ReadMoves, MatchInv, MatchShape, ReadBefore

LEMMA LinkPaid ==
    ASSUME MatchInv, NEW l \in PayLinks, NEW t \in Txs, plink[l].status # "absent", Pays(t, l),
           applyAutoMatch(t, l)
    PROVE  LinksMove /\ AnnouncedMove
  <1>1. CASE UNCHANGED <<plink, announced>>
    BY <1>1, MatchParts
  <1>2. CASE /\ plink' = IF plink[l].status = "open"
                         THEN [plink EXCEPT ![l] = [status |-> "paid", tx |-> t]] ELSE plink
             /\ announced' = announced \cup {<<l, t>>}
    <2>1. LinksMove
      <3>1. CASE plink[l].status # "open"
        BY <1>2, <3>1, MatchParts
      <3>2. CASE plink[l].status = "open"
        <4>1. plink'[l] = [status |-> "paid", tx |-> t] /\ \A k \in PayLinks \ {l} : plink'[k] = plink[k]
          BY <1>2, <3>2 DEF MatchInv, MatchShape
        <4>2. plink' \in [PayLinks -> [status : {"absent", "open", "paid", "expired"}, tx : Txs \cup {NoTx}]]
          BY <1>2, <3>2 DEF MatchInv, MatchShape
        <4>. QED BY <3>2, <4>1, <4>2 DEF LinksMove, MatchInv, PaidByOwn
      <3>. QED BY <3>1, <3>2
    <2>2. plink'[l].status \in {"paid", "expired"}
      BY <1>2 DEF MatchInv, MatchShape
    <2>3. AnnouncedMove
      BY <1>2, <2>2 DEF AnnouncedMove
    <2>. QED BY <2>1, <2>3
  <1>. QED BY <1>1, <1>2 DEF applyAutoMatch

LEMMA DecisionMoves ==
    ASSUME MatchInv, NEW t \in Txs, NEW links, Offered(links), applyDecision(t, links)
    PROVE  LinksMove /\ AnnouncedMove
  <1> DEFINE auto == {b \in Best(t, links) : resolveDecision(b.score) = "auto_match"}
  <1>1. CASE auto # {}
    <2>1. PICK b \in auto : applyAutoMatch(t, b.link)
      BY <1>1 DEF applyDecision
    <2>2. links \in SUBSET PayLinks /\ b \in Best(t, links) /\ resolveDecision(b.score) = "auto_match"
      BY <2>1 DEF Offered
    <2>3. b.link \in links /\ Pays(t, b.link)
      BY <2>2, AutoMatchPays
    <2>4. PICK l \in links : l = b.link
      BY <2>3
    <2>. QED BY <2>1, <2>3, <2>4, LinkPaid DEF Offered
  <1>2. CASE auto = {}
    BY <1>2, MatchParts DEF applyDecision
  <1>. QED BY <1>1, <1>2

LEMMA PayKeeps ==
    ASSUME MatchInv, NEW t \in Txs, Pay(t)
    PROVE  MatchInv'
  <1>1. landed' \in Seq(Txs)
    BY DEF Pay, MatchInv, MatchShape
  <1>2. ReadMoves
    BY <1>1 DEF Pay, ReadMoves, MatchInv, MatchShape, ReadBefore
  <1>. QED BY <1>2, MatchParts, MatchStepKeeps DEF Pay

LEMMA OwnerKeeps ==
    ASSUME MatchInv, NEW l \in PayLinks, OwnerWrites(l)
    PROVE  MatchInv'
  <1>1. PICK status \in {"open", "expired"} :
          /\ plink' = [plink EXCEPT ![l].status = status]
          /\ plink[l].status \in {"absent", "open"} /\ (status = "open" => plink[l].status = "absent")
    BY DEF OwnerWrites
  <1>2. /\ plink' \in [PayLinks -> [status : {"absent", "open", "paid", "expired"}, tx : Txs \cup {NoTx}]]
        /\ plink'[l].status = status /\ \A k \in PayLinks \ {l} : plink'[k] = plink[k]
    BY <1>1 DEF MatchInv, MatchShape
  <1>3. LinksMove
    BY <1>1, <1>2 DEF LinksMove, MatchInv, PaidByOwn
  <1>. QED BY <1>3, MatchParts, MatchStepKeeps DEF OwnerWrites

LEMMA OpenLinksOffered == MatchInv => Offered(fetchOpenPaymentLinks)
  BY DEF fetchOpenPaymentLinks, Offered, MatchInv, MatchShape

LEMMA StartCycleKeeps ==
    ASSUME MatchInv, NEW m \in Matchers, runAutoMatchCycle(m) \/ endCycle(m)
    PROVE  MatchInv'
  <1> DEFINE c == [step |-> "poll", links |-> fetchOpenPaymentLinks, todo |-> <<>>]
  <1>1. CycleReady(c) /\ CycleReady(NoCycle)
    BY OpenLinksOffered DEF CycleReady, NoCycle, Offered
  <1>2. cycle' = [cycle EXCEPT ![m] = c] \/ cycle' = [cycle EXCEPT ![m] = NoCycle]
    BY DEF runAutoMatchCycle, endCycle, NoCycle
  <1>3. UNCHANGED <<plink, announced, landed, demand>>
    BY DEF runAutoMatchCycle, endCycle
  <1>. HIDE DEF c
  <1>4. ReadMoves
    BY <1>1, <1>2, <1>3, CycleWritten
  <1>. QED BY <1>3, <1>4, MatchParts, MatchStepKeeps

LEMMA PageOfPayments ==
    ASSUME MatchInv, NEW cur
    PROVE  fetchRecentPayments(cur) \in Seq(Txs)
  <1>1. landed \in Seq(Txs)
    BY DEF MatchInv, MatchShape
  <1>2. Reverse(landed) \in Seq(Txs) /\ Len(Reverse(landed)) = Len(landed)
    BY <1>1 DEF Reverse
  <1>3. Min({PageSize, Len(landed)}) \in 0..Len(landed)
    <2>1. PageSize \in Nat /\ Len(landed) \in Nat
      BY <1>1, MatchAssumption
    <2>2. \E x \in {PageSize, Len(landed)} : \A y \in {PageSize, Len(landed)} : x <= y
      BY <2>1
    <2>3. /\ Min({PageSize, Len(landed)}) \in {PageSize, Len(landed)}
          /\ \A y \in {PageSize, Len(landed)} : Min({PageSize, Len(landed)}) <= y
      BY <2>2 DEF Min
    <2>. QED BY <2>1, <2>3
  <1>4. SubSeq(Reverse(landed), 1, Min({PageSize, Len(landed)})) \in Seq(Txs)
    <2>1. PICK r \in Seq(Txs) : r = Reverse(landed)
      BY <1>2
    <2>2. PICK n \in 0..Len(r) : n = Min({PageSize, Len(landed)})
      BY <1>2, <1>3, <2>1
    <2>3. SubSeq(r, 1, n) \in Seq(Txs)
      <3>1. Len(r) \in Nat /\ 1 \in 1..(Len(r) + 1) /\ n \in (1 - 1)..Len(r)
        OBVIOUS
      <3>. QED BY <3>1, SubSeqProperties
    <2>. QED BY <2>1, <2>2, <2>3
  <1>5. <<>> \in Seq(Txs)
    OBVIOUS
  <1>. QED BY <1>4, <1>5 DEF fetchRecentPayments

LEMMA CycleGoesOn ==
    ASSUME NEW c, CycleReady(c), NEW todo \in Seq(Txs)
    PROVE  CycleReady([c EXCEPT !.todo = todo]) /\ CycleReady([c EXCEPT !.step = "score", !.todo = todo])
  <1>1. PICK step, links, old : c = [step |-> step, links |-> links, todo |-> old]
    BY DEF CycleReady
  <1>2. [c EXCEPT !.todo = todo] = [step |-> step, links |-> links, todo |-> todo]
    BY <1>1
  <1>4. [c EXCEPT !.step = "score", !.todo = todo] = [step |-> "score", links |-> links, todo |-> todo]
    <2>1. PICK d : d = [c EXCEPT !.step = "score"]
      OBVIOUS
    <2>2. d = [step |-> "score", links |-> links, todo |-> old]
      BY <1>1, <2>1
    <2>3. [d EXCEPT !.todo = todo] = [step |-> "score", links |-> links, todo |-> todo]
      BY <2>2
    <2>4. [c EXCEPT !.step = "score", !.todo = todo] = [d EXCEPT !.todo = todo]
      BY <2>1
    <2>. QED BY <2>3, <2>4
  <1>3. Offered(links)
    BY <1>1 DEF CycleReady
  <1>. QED BY <1>2, <1>3, <1>4 DEF CycleReady

LEMMA PollKeeps ==
    ASSUME MatchInv, NEW m \in Matchers, pollPayments(m)
    PROVE  MatchInv'
  <1>1. PICK page : page = fetchRecentPayments(cursorOf[m])
    OBVIOUS
  <1>2. page \in Seq(Txs)
    BY <1>1, PageOfPayments
  <1> DEFINE c == [cycle[m] EXCEPT !.step = "score", !.todo = page]
  <1>3. CycleReady(cycle[m])
    BY DEF MatchInv, ReadBefore
  <1>4. CycleReady(c)
    BY <1>2, <1>3, CycleGoesOn
  <1>5. cycle' = [cycle EXCEPT ![m] = c] /\ UNCHANGED <<plink, announced, landed, demand>>
    BY <1>1 DEF pollPayments
  <1>. HIDE DEF c
  <1>6. ReadMoves
    BY <1>4, <1>5, CycleWritten
  <1>. QED BY <1>5, <1>6, MatchParts, MatchStepKeeps

LEMMA ProcessKeeps ==
    ASSUME MatchInv, NEW m \in Matchers, processTransaction(m)
    PROVE  MatchInv'
  <1>1. CycleReady(cycle[m]) /\ cycle[m].todo # <<>>
    BY DEF processTransaction, MatchInv, ReadBefore
  <1>2. PICK t \in Txs : t = Head(cycle[m].todo)
    BY <1>1 DEF CycleReady
  <1>3. PICK links : links = cycle[m].links
    OBVIOUS
  <1>4. applyDecision(t, links)
    BY <1>2, <1>3 DEF processTransaction
  <1>5. LinksMove /\ AnnouncedMove
    BY <1>1, <1>3, <1>4, DecisionMoves DEF CycleReady
  <1> DEFINE c == [cycle[m] EXCEPT !.todo = Tail(cycle[m].todo)]
  <1>6. CycleReady(c)
    <2>1. PICK rest : rest = Tail(cycle[m].todo)
      OBVIOUS
    <2>2. rest \in Seq(Txs)
      BY <1>1, <2>1 DEF CycleReady
    <2>3. CycleReady([cycle[m] EXCEPT !.todo = rest])
      BY <1>1, <2>2, CycleGoesOn
    <2>. QED BY <2>1, <2>3
  <1>7. cycle' = [cycle EXCEPT ![m] = c] /\ UNCHANGED <<landed, demand>>
    BY DEF processTransaction
  <1>. HIDE DEF c
  <1>8. ReadMoves
    BY <1>6, <1>7, CycleWritten
  <1>. QED BY <1>5, <1>8, MatchStepKeeps

LEMMA DemandKeeps ==
    ASSUME MatchInv, NEW t \in Txs, fetchOpenLinksForDestination(t) \/ processOnDemand(t)
    PROVE  MatchInv'
  <1>1. CASE fetchOpenLinksForDestination(t)
    <2> DEFINE d == [asked |-> TRUE, links |-> fetchOpenPaymentLinks]
    <2>1. Offered(d.links) /\ demand' = [demand EXCEPT ![t] = d]
          /\ UNCHANGED <<plink, announced, landed, cycle>>
      BY <1>1, OpenLinksOffered DEF fetchOpenLinksForDestination
    <2>. HIDE DEF d
    <2>2. ReadMoves
      BY <2>1, DemandWritten
    <2>. QED BY <2>1, <2>2, MatchParts, MatchStepKeeps
  <1>2. CASE processOnDemand(t)
    <2>1. PICK links : links = demand[t].links
      OBVIOUS
    <2>2. Offered(links) /\ applyDecision(t, links)
      BY <1>2, <2>1 DEF processOnDemand, MatchInv, ReadBefore
    <2>3. LinksMove /\ AnnouncedMove
      BY <2>2, DecisionMoves
    <2>4. Offered(NoDemand.links)
      BY DEF Offered, NoDemand
    <2>5. ReadMoves
      BY <1>2, <2>4, DemandWritten DEF processOnDemand
    <2>. QED BY <2>3, <2>5, MatchStepKeeps
  <1>. QED BY <1>1, <1>2

LEMMA MatchCrashKeeps ==
    ASSUME MatchInv, NEW m \in Matchers, MatchCrash(m)
    PROVE  MatchInv'
  <1>1. CycleReady(NoCycle)
    BY DEF CycleReady, NoCycle, Offered
  <1>2. ReadMoves
    BY <1>1, CycleWritten DEF MatchCrash
  <1>. QED BY <1>2, MatchParts, MatchStepKeeps DEF MatchCrash

LEMMA MatchStep == MatchInv /\ [MatchNext]_matchVars => MatchInv'
  <1> SUFFICES ASSUME MatchInv, [MatchNext]_matchVars PROVE MatchInv'
    OBVIOUS
  <1>1. ASSUME NEW t \in Txs, Pay(t) \/ fetchOpenLinksForDestination(t) \/ processOnDemand(t)
        PROVE  MatchInv'
    BY <1>1, PayKeeps, DemandKeeps
  <1>2. ASSUME NEW t \in Txs, resolveReview(t)
        PROVE  MatchInv'
    BY <1>2, MatchParts, MatchStepKeeps DEF resolveReview
  <1>3. ASSUME NEW l \in PayLinks, OwnerWrites(l)
        PROVE  MatchInv'
    BY <1>3, OwnerKeeps
  <1>4. ASSUME NEW m \in Matchers,
               \/ runAutoMatchCycle(m) \/ pollPayments(m) \/ processTransaction(m)
               \/ endCycle(m) \/ MatchCrash(m)
        PROVE  MatchInv'
    BY <1>4, StartCycleKeeps, PollKeeps, ProcessKeeps, MatchCrashKeeps
  <1>5. CASE UNCHANGED matchVars
    BY <1>5, MatchParts, MatchStepKeeps DEF matchVars
  <1>. QED BY <1>1, <1>2, <1>3, <1>4, <1>5 DEF MatchNext

LEMMA InvAnnounced == MatchInv => AnnouncedIsSettled
  BY DEF MatchInv, PaidByOwn, AnnouncedOwn, AnnouncedIsSettled

\* A link is announced as paid only when it has left the open state, and paid
\* and announced only for payments with its own memo and asset and, up to the
\* precision of doubles, its own amount: for any number of processes, payments,
\* links and pages, however stale the links that are scored, and whichever
\* amounts the comparison of doubles takes for one (auto-match.service.ts).
THEOREM AnnouncedLinksAreSettled == MatchSpec => []AnnouncedIsSettled
  <1>1. MatchInit => MatchInv
    BY InitMatch
  <1>2. MatchInv /\ [MatchNext]_matchVars => MatchInv'
    BY MatchStep
  <1>3. MatchInv => AnnouncedIsSettled
    BY InvAnnounced
  <1>. QED BY <1>1, <1>2, <1>3, PTL DEF MatchSpec
=============================================================================
