----------------------------- MODULE Marketplace -----------------------------
(***************************************************************************)
(* Usernames and the marketplace that trades them (usernames.service.ts,     *)
(* marketplace.service.ts, supabase.service.ts and the SQL function          *)
(* accept_username_bid). A request is answered by several statements on the  *)
(* database: it reads, decides in the server, and writes later, while other  *)
(* requests are served. Only accept_username_bid is one transaction.         *)
(***************************************************************************)
EXTENDS Integers, FiniteSets, Sequences

CONSTANTS Names,         \* usernames
          Traders,       \* wallets
          NoTrader,      \* no wallet
          Requests,      \* requests being served at once
          MaxListings,   \* bound on the rows of username_marketplace
          MaxBids,       \* bound on the rows of username_bids
          MaxPerWallet   \* MAX_USERNAMES_PER_WALLET, 0 for no limit

ASSUME MarketAssumption ==
    /\ NoTrader \notin Traders
    /\ MaxListings \in Nat /\ MaxBids \in Nat /\ MaxPerWallet \in Nat

VARIABLES nameOwner, \* usernames.public_key, NoTrader before a name is registered
          listings,  \* rows of username_marketplace, by id
          bids,      \* rows of username_bids, by id
          requests,  \* what each request has read and will do next
          overtaken  \* history: listings inserted after their name was sold to another wallet

marketVars == <<nameOwner, listings, bids, requests, overtaken>>

Vacant == [step |-> "idle"]

MarketTypeOK ==
    /\ nameOwner \in [Names -> Traders \cup {NoTrader}]
    /\ listings \in Seq([name : Names, seller : Traders, buyer : Traders \cup {NoTrader},
                         status : {"active", "sold", "cancelled"}])
    /\ bids \in Seq([listing : DOMAIN listings, bidder : Traders,
                     status : {"pending", "accepted", "rejected"}])
    /\ DOMAIN requests = Requests
    /\ overtaken \subseteq DOMAIN listings

MarketInit ==
    /\ nameOwner = [n \in Names |-> NoTrader]
    /\ listings = << >>
    /\ bids = << >>
    /\ requests = [r \in Requests |-> Vacant]
    /\ overtaken = {}

Waits(r) == requests[r] = Vacant

Goes(r, to) == requests' = [requests EXCEPT ![r] = to]

ActiveListings(name) ==
    {l \in DOMAIN listings : listings[l].name = name /\ listings[l].status = "active"}

-----------------------------------------------------------------------------
(* Registration: the limit is counted, then the row inserted; the unique      *)
(* constraint on the name decides between two that insert the same one.       *)

OwnedBy(who) == {n \in Names : nameOwner[n] = who}

createUsername(r, name, who) ==
    /\ Waits(r)
    /\ MaxPerWallet > 0 => Cardinality(OwnedBy(who)) < MaxPerWallet
    /\ Goes(r, [step |-> "insert-username", name |-> name, who |-> who])
    /\ UNCHANGED <<nameOwner, listings, bids, overtaken>>

insertUsername(r) ==
    /\ requests[r].step = "insert-username"
    /\ nameOwner' = IF nameOwner[requests[r].name] = NoTrader
                    THEN [nameOwner EXCEPT ![requests[r].name] = requests[r].who]
                    ELSE nameOwner
    /\ Goes(r, Vacant)
    /\ UNCHANGED <<listings, bids, overtaken>>

-----------------------------------------------------------------------------
(* listUsername: ownership, then the active listing, then the insert, which   *)
(* the partial unique index refuses when an active listing came in between.   *)

listUsername(r, name, seller) ==
    /\ Waits(r)
    /\ nameOwner[name] = seller
    /\ Goes(r, [step |-> "check-listed", name |-> name, who |-> seller])
    /\ UNCHANGED <<nameOwner, listings, bids, overtaken>>

getActiveListingByUsername(r) ==
    /\ requests[r].step = "check-listed"
    /\ Goes(r, IF ActiveListings(requests[r].name) = {}
               THEN [requests[r] EXCEPT !.step = "insert-listing"] ELSE Vacant)
    /\ UNCHANGED <<nameOwner, listings, bids, overtaken>>

InsertListing(r) ==
    /\ Len(listings) < MaxListings
    /\ listings' = Append(listings, [name |-> requests[r].name, seller |-> requests[r].who,
                                     buyer |-> NoTrader, status |-> "active"])
    /\ overtaken' = IF nameOwner[requests[r].name] = requests[r].who THEN overtaken
                    ELSE overtaken \cup {Len(listings) + 1}

(* Mutant: there is no unique index. *)
createListingTwice(r) ==
    /\ requests[r].step = "insert-listing"
    /\ InsertListing(r)
    /\ Goes(r, Vacant)
    /\ UNCHANGED <<nameOwner, bids>>

createListing(r) ==
    /\ requests[r].step = "insert-listing"
    /\ IF ActiveListings(requests[r].name) = {}
       THEN InsertListing(r)
       ELSE UNCHANGED <<listings, overtaken>>
    /\ Goes(r, Vacant)
    /\ UNCHANGED <<nameOwner, bids>>

(* cancelListing checks the row it read; the update names the id alone.       *)
cancelListing(r, l, seller) ==
    /\ Waits(r)
    /\ listings[l].seller = seller /\ listings[l].status = "active"
    /\ Goes(r, [step |-> "cancel", listing |-> l])
    /\ UNCHANGED <<nameOwner, listings, bids, overtaken>>

updateCancelled(r) ==
    /\ requests[r].step = "cancel"
    /\ listings' = [listings EXCEPT ![requests[r].listing].status = "cancelled"]
    /\ Goes(r, Vacant)
    /\ UNCHANGED <<nameOwner, bids, overtaken>>

-----------------------------------------------------------------------------
placeBid(r, l, bidder) ==
    /\ Waits(r)
    /\ listings[l].status = "active"
    /\ listings[l].seller # bidder
    /\ Goes(r, [step |-> "insert-bid", listing |-> l, who |-> bidder])
    /\ UNCHANGED <<nameOwner, listings, bids, overtaken>>

insertBid(r) ==
    /\ requests[r].step = "insert-bid"
    /\ Len(bids) < MaxBids
    /\ bids' = Append(bids, [listing |-> requests[r].listing, bidder |-> requests[r].who,
                              status |-> "pending"])
    /\ Goes(r, Vacant)
    /\ UNCHANGED <<nameOwner, listings, overtaken>>

(* acceptBid checks the listing and then the bid before it calls the          *)
(* function that checks both again under their locks.                         *)
acceptBid(r, l, b, seller) ==
    /\ Waits(r)
    /\ listings[l].seller = seller /\ listings[l].status = "active"
    /\ Goes(r, [step |-> "check-bid", listing |-> l, bid |-> b, who |-> seller])
    /\ UNCHANGED <<nameOwner, listings, bids, overtaken>>

getBidById(r) ==
    /\ requests[r].step = "check-bid"
    /\ LET b == bids[requests[r].bid]
       IN  Goes(r, IF b.listing = requests[r].listing /\ b.status = "pending"
                   THEN [requests[r] EXCEPT !.step = "accept"] ELSE Vacant)
    /\ UNCHANGED <<nameOwner, listings, bids, overtaken>>

(* Mutant: the function trusts what the server read. *)
BidOfListing(l, b) == bids[b].listing = l

Acceptable(l, b) == listings[l].status = "active" /\ bids[b].listing = l /\ bids[b].status = "pending"

accept_username_bid(r) ==
    /\ requests[r].step = "accept"
    /\ LET l == requests[r].listing
           a == requests[r].bid
       IN  IF Acceptable(l, a)
           THEN /\ bids' = [b \in DOMAIN bids |->
                     [bids[b] EXCEPT !.status =
                        CASE b = a -> "accepted"
                          [] b # a /\ bids[b].listing = l /\ bids[b].status = "pending" -> "rejected"
                          [] OTHER -> bids[b].status]]
                /\ listings' = [listings EXCEPT ![l].status = "sold", ![l].buyer = bids[a].bidder]
                /\ nameOwner' = [nameOwner EXCEPT ![listings[l].name] = bids[a].bidder]
           ELSE UNCHANGED <<nameOwner, listings, bids>>
    /\ Goes(r, Vacant)
    /\ UNCHANGED overtaken

-----------------------------------------------------------------------------
MarketNext ==
    \E r \in Requests :
        \/ \E name \in Names, who \in Traders : createUsername(r, name, who)
        \/ insertUsername(r)
        \/ \E name \in Names, who \in Traders : listUsername(r, name, who)
        \/ getActiveListingByUsername(r)
        \/ createListing(r)
        \/ \E l \in DOMAIN listings, who \in Traders : cancelListing(r, l, who)
        \/ updateCancelled(r)
        \/ \E l \in DOMAIN listings, who \in Traders : placeBid(r, l, who)
        \/ insertBid(r)
        \/ \E l \in DOMAIN listings, b \in DOMAIN bids, who \in Traders : acceptBid(r, l, b, who)
        \/ getBidById(r)
        \/ accept_username_bid(r)

MarketSpec == MarketInit /\ [][MarketNext]_marketVars

-----------------------------------------------------------------------------
AcceptedBids(l) == {b \in DOMAIN bids : bids[b].listing = l /\ bids[b].status = "accepted"}

(* However cancellations, bids and acceptances of a listing interleave, it is *)
(* sold to one bid at most, its buyer is who made that bid, and no listing is *)
(* sold without one.                                                          *)
SoldToOneBid ==
    \A l \in DOMAIN listings :
        /\ Cardinality(AcceptedBids(l)) <= 1
        /\ \A b \in AcceptedBids(l) : listings[l].buyer = bids[b].bidder
        /\ listings[l].buyer # NoTrader => AcceptedBids(l) # {}
        /\ listings[l].status = "sold" => listings[l].buyer # NoTrader

(* "the seller accepts a bid to atomically transfer ownership" (docs/SDK-     *)
(* GETTING-STARTED.md:353): a username leaves a wallet only in a sale of a    *)
(* listing by that very wallet. The exception is a listing whose seller lost  *)
(* the name between the check of the ownership and the insert.                *)
OwnerSells ==
    [][\A n \in Names :
          nameOwner[n] # NoTrader /\ nameOwner'[n] # nameOwner[n] =>
              \E l \in DOMAIN listings :
                  /\ listings[l].name = n
                  /\ listings[l].seller = nameOwner[n] \/ l \in overtaken
                  /\ listings[l].buyer # listings'[l].buyer]_marketVars
=============================================================================
