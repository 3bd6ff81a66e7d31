------------------------ MODULE SecondaryMarketProofs ------------------------
(***************************************************************************)
(* Theorems about SecondaryMarket, for any number of investors, listings,  *)
(* bids and concurrent settlements, with handlers dying at any await: the  *)
(* safety properties, and that it implements TradePromise. Then theorems   *)
(* about OwnershipRegistry, which rebuilds what a settled trade makes      *)
(* stale.                                                                  *)
(***************************************************************************)
EXTENDS SecondaryMarketRefinement, OwnershipRecords, SumTheorems, TLAPS

\* What the identifiers stored in documents and handlers refer to exists:
\* TypeOK is inductive only together with it.
Wired ==
  /\ \A l \in Listings :
       /\ creating[l].step # "idle" =>
            creating[l].seller \in Investors /\ listings[l].status = "none"
       /\ listings[l].status # "none" => listings[l].seller \in Investors
       /\ l \in cancelling => listings[l].status # "none"
  /\ \A b \in Bids : bids[b].status # "none" =>
       /\ bids[b].listing \in Listings
       /\ listings[bids[b].listing].status # "none"
       /\ bids[b].buyer \in Investors
  /\ \A t \in Trades : pc[t] # "idle" =>
       /\ trades[t].listing \in Listings
       /\ listings[trades[t].listing].status # "none"
       /\ trades[t].seller \in Investors
       /\ trades[t].buyer \in Investors
       /\ pc[t] = "mark" => trades[t].bid \in Bids /\ bids[trades[t].bid].status # "none"
  /\ \A t \in alive : pc[t] # "idle"
  /\ \A b \in withdrawing : bids[b].status # "none"
  /\ \A b \in accepting : bids[b].status # "none"

TypeInv == TypeOK /\ Wired

\* A handler that goes on after its first steps, and changes no document.
LEMMA WiredStays ==
  ASSUME Wired, alive \subseteq Trades, NEW t \in Trades,
         pc[t] # "idle", pc'[t] # "idle", pc'[t] # "mark",
         \A x \in Trades \ {t} : pc'[x] = pc[x],
         UNCHANGED <<listings, bids, trades, alive, creating, cancelling, withdrawing, accepting>>
  PROVE  Wired'
<1>1. listings' = listings /\ bids' = bids /\ trades' = trades /\ alive' = alive
      /\ creating' = creating /\ cancelling' = cancelling /\ withdrawing' = withdrawing
      /\ accepting' = accepting
  OBVIOUS
<1>2. \A x \in Trades : pc'[x] # "idle" => pc[x] # "idle"
  OBVIOUS
<1>3. \A x \in Trades : pc'[x] = "mark" => pc[x] = "mark"
  OBVIOUS
<1>4. \A l \in Listings :
        /\ creating'[l].step # "idle" =>
             creating'[l].seller \in Investors /\ listings'[l].status = "none"
        /\ listings'[l].status # "none" => listings'[l].seller \in Investors
        /\ l \in cancelling' => listings'[l].status # "none"
  BY <1>1, Zenon DEF Wired
<1>5. \A b \in Bids : bids'[b].status # "none" =>
        /\ bids'[b].listing \in Listings
        /\ listings'[bids'[b].listing].status # "none"
        /\ bids'[b].buyer \in Investors
  BY <1>1, Zenon DEF Wired
<1>6. ASSUME NEW x \in Trades, pc'[x] # "idle"
      PROVE  /\ trades'[x].listing \in Listings
             /\ listings'[trades'[x].listing].status # "none"
             /\ trades'[x].seller \in Investors
             /\ trades'[x].buyer \in Investors
             /\ pc'[x] = "mark" =>
                  trades'[x].bid \in Bids /\ bids'[trades'[x].bid].status # "none"
  BY <1>1, <1>2, <1>3, <1>6, Zenon DEF Wired
<1>7. \A x \in alive' : pc'[x] # "idle"
  <2>1. \A x \in alive : pc[x] # "idle"
    BY Zenon DEF Wired
  <2> QED
    BY ONLY <1>1, <2>1, t \in Trades, alive \subseteq Trades, pc'[t] # "idle",
       \A x \in Trades \ {t} : pc'[x] = pc[x]
<1>8. /\ \A b \in withdrawing' : bids'[b].status # "none"
      /\ \A b \in accepting' : bids'[b].status # "none"
  BY <1>1, Zenon DEF Wired
<1> QED
  BY <1>4, <1>5, <1>6, <1>7, <1>8, Zenon DEF Wired

LEMMA FeeIsInt == ASSUME NEW g \in Int PROVE Fee(g) \in Int
BY MarketConstants DEF Fee

LEMMA InitTypeInv == Init => TypeInv
BY MarketConstants DEF Init, TypeInv, TypeOK, Wired, NoListing, NotCreating, NothingRead,
   ListingDoc, BidDoc, TradeDoc, Draft, Listing, Investor,
   ListingStatuses, BidStatuses, TradeStatuses, Steps

LEMMA TradeFields ==
  ASSUME TypeOK, NEW t \in Trades
  PROVE  /\ trades[t].units \in Int /\ trades[t].gross \in Int /\ trades[t].fee \in Int
         /\ trades[t].listing \in Listing /\ trades[t].bid \in Bids \cup {None}
         /\ trades[t].seller \in Investor /\ trades[t].buyer \in Investor
BY DEF TypeOK, TradeDoc

\* Documents keep their type, and all their other fields, when a status is set.
LEMMA SetTradeStatus ==
  ASSUME trades \in [Trades -> TradeDoc], NEW t \in Trades, NEW s \in TradeStatuses
  PROVE  LET new == [trades EXCEPT ![t].status = s]
         IN /\ new \in [Trades -> TradeDoc]
            /\ \A x \in Trades : /\ new[x].listing = trades[x].listing
                                 /\ new[x].seller = trades[x].seller
                                 /\ new[x].buyer = trades[x].buyer
                                 /\ new[x].bid = trades[x].bid
                                 /\ new[x].fee = trades[x].fee
                                 /\ new[x].status = IF x = t THEN s ELSE trades[x].status
BY DEF TradeDoc

LEMMA SetBidStatus ==
  ASSUME bids \in [Bids -> BidDoc], NEW b \in Bids, NEW s \in BidStatuses
  PROVE  [bids EXCEPT ![b].status = s] \in [Bids -> BidDoc]
BY DEF BidDoc

LEMMA SetListingStatus ==
  ASSUME listings \in [Listings -> ListingDoc], NEW l \in Listings, NEW s \in ListingStatuses
  PROVE  LET new == [listings EXCEPT ![l].status = s]
         IN /\ new \in [Listings -> ListingDoc]
            /\ \A x \in Listings : /\ new[x].units = listings[x].units
                                   /\ new[x].filled = listings[x].filled
                                   /\ new[x].seller = listings[x].seller
                                   /\ new[x].status = IF x = l THEN s ELSE listings[x].status
BY DEF ListingDoc

LEMMA AddFilled ==
  ASSUME listings \in [Listings -> ListingDoc], NEW l \in Listings, NEW n \in Int
  PROVE  LET new == [listings EXCEPT ![l].filled = @ + n]
         IN /\ new \in [Listings -> ListingDoc]
            /\ \A x \in Listings : /\ new[x].status = listings[x].status
                                   /\ new[x].seller = listings[x].seller
BY DEF ListingDoc

LEMMA StepTypeInv == TypeInv /\ [Next]_vars => TypeInv'
<1> SUFFICES ASSUME TypeOK, Wired, [Next]_vars PROVE TypeOK' /\ Wired'
  BY DEF TypeInv
<1> USE MarketConstants DEF moneyVars, handlerVars, Goto, Return, Fail, Append
<1>1. ASSUME NEW l \in Listings, NEW i \in Investors, NEW u \in Sizes,
             CreateListingRead(l, i, u)
      PROVE TypeOK' /\ Wired'
  <2>1. TypeOK'
    BY <1>1 DEF CreateListingRead, TypeOK, Wired, Open, ListingDoc, ListingStatuses, Investor,
        Draft, NoListing, NotCreating, NothingRead
  <2>2. Wired'
    BY <1>1, <2>1 DEF CreateListingRead, Wired, TypeOK, Open, ListingDoc, ListingStatuses, Investor,
        Draft, NoListing, NotCreating
  <2> QED
    BY <2>1, <2>2
<1>2. ASSUME NEW l \in Listings, CreateListingCheck(l)
      PROVE TypeOK' /\ Wired'
  <2>1. TypeOK'
    BY <1>2 DEF CreateListingCheck, TypeOK, Wired, Open, Draft, Investor, NoListing,
        NotCreating, NothingRead
  <2>2. Wired'
    BY <1>2, <2>1 DEF CreateListingCheck, Wired, TypeOK, Open, Draft, Investor, NoListing, NotCreating
  <2> QED
    BY <2>1, <2>2
<1>3. ASSUME NEW l \in Listings, CreateListingInsert(l)
      PROVE TypeOK' /\ Wired'
  <2>1. TypeOK'
    BY <1>3 DEF CreateListingInsert, TypeOK, Wired, Open, ListingDoc, ListingStatuses, Investor,
        Draft, NoListing, NotCreating, NothingRead
  <2>2. Wired'
    BY <1>3, <2>1 DEF CreateListingInsert, Wired, TypeOK, Open, ListingDoc, ListingStatuses, Investor,
        Draft, NoListing, NotCreating
  <2> QED
    BY <2>1, <2>2
<1>4. ASSUME NEW l \in Listings, CancelListingRead(l)
      PROVE TypeOK' /\ Wired'
  <2>1. TypeOK'
    BY <1>4 DEF CancelListingRead, TypeOK, Wired, Open
  <2>2. Wired'
    BY <1>4, <2>1 DEF CancelListingRead, Wired, TypeOK, Open, NoListing, NotCreating
  <2> QED
    BY <2>1, <2>2
<1>5. ASSUME NEW l \in Listings, CancelListingWrite(l)
      PROVE TypeOK' /\ Wired'
  <2>1. TypeOK'
    <3>1. "cancelled" \in ListingStatuses
      BY DEF ListingStatuses
    <3>2. listings' \in [Listings -> ListingDoc]
      BY <1>5, <3>1, SetListingStatus DEF CancelListingWrite, TypeOK
    <3> QED
      BY <1>5, <3>2 DEF CancelListingWrite, TypeOK
  <2>2. Wired'
    BY <1>5, <2>1 DEF CancelListingWrite, Wired, TypeOK, Open, ListingDoc, ListingStatuses, Investor,
        NoListing, NotCreating
  <2> QED
    BY <2>1, <2>2
<1>6. ASSUME NEW t \in Trades, NEW l \in Listings, NEW i \in Investors, NEW u \in Sizes,
             BuyNow(t, l, i, u)
      PROVE TypeOK' /\ Wired'
  <2>1. pc' \in [Trades -> Steps]
    BY <1>6 DEF BuyNow, MayBuy, NewTrade, TypeOK, Steps
  <2>2. TypeOK'
    BY <1>6, <2>1, FeeIsInt DEF BuyNow, MayBuy, NewTrade, TypeOK, Wired, Open, TradeDoc, TradeStatuses, Listing,
        Investor, ListingDoc
  <2>3. Wired'
    BY <1>6, <2>2 DEF BuyNow, MayBuy, NewTrade, Wired, TypeOK, Open, TradeDoc, TradeStatuses, Listing,
        Investor, ListingDoc
  <2> QED
    BY <2>2, <2>3
<1>7. ASSUME NEW b \in Bids, NEW l \in Listings, NEW i \in Investors, NEW u \in Sizes,
             PlaceBid(b, l, i, u)
      PROVE TypeOK' /\ Wired'
  <2>1. TypeOK'
    BY <1>7 DEF PlaceBid, MayBuy, TypeOK, Wired, Open, BidDoc, BidStatuses, Listing, Investor
  <2>2. Wired'
    BY <1>7, <2>1 DEF PlaceBid, MayBuy, Wired, TypeOK, Open, BidDoc, BidStatuses, Listing, Investor
  <2> QED
    BY <2>1, <2>2
<1>8. ASSUME NEW b \in Bids, CancelBidRead(b) \/ AcceptRead(b) \/ AcceptRefused(b)
      PROVE TypeOK' /\ Wired'
  <2>1. TypeOK'
    BY <1>8 DEF CancelBidRead, AcceptRead, AcceptRefused, TypeOK, Wired
  <2>2. Wired'
    BY <1>8, <2>1 DEF CancelBidRead, AcceptRead, AcceptRefused, Wired, TypeOK
  <2> QED
    BY <2>1, <2>2
<1>9. ASSUME NEW b \in Bids, CancelBidWrite(b)
      PROVE TypeOK' /\ Wired'
  <2>1. "cancelled" \in BidStatuses /\ b \in Bids
    BY DEF BidStatuses
  <2>2. TypeOK'
    BY <1>9, <2>1, SetBidStatus DEF CancelBidWrite, TypeOK
  <2>3. Wired'
    BY <1>9, <2>2 DEF CancelBidWrite, Wired, TypeOK, BidDoc, BidStatuses, Listing, Investor
  <2> QED
    BY <2>2, <2>3
<1>10. ASSUME NEW b \in Bids, RejectBid(b)
      PROVE TypeOK' /\ Wired'
  <2>1. TypeOK'
    BY <1>10 DEF RejectBid, TypeOK, Wired, Open, BidDoc, BidStatuses, Listing, Investor
  <2>2. Wired'
    BY <1>10, <2>1 DEF RejectBid, Wired, TypeOK, Open, BidDoc, BidStatuses, Listing, Investor
  <2> QED
    BY <2>1, <2>2
<1>11. ASSUME NEW t \in Trades, NEW b \in Bids, AcceptBid(t, b)
      PROVE TypeOK' /\ Wired'
  <2>1. pc' \in [Trades -> Steps]
    BY <1>11 DEF AcceptBid, NewTrade, AcceptedUnits, Remaining, TypeOK, Steps
  <2>2. bids[b].listing \in Listings /\ bids[b].buyer \in Investors
        /\ listings[bids[b].listing].status # "none"
    BY <1>11 DEF AcceptBid, Wired, TypeOK
  <2>3. AcceptedUnits(b) \in Int
    BY <2>2 DEF AcceptedUnits, Remaining, TypeOK, ListingDoc, BidDoc
  <2>4. LET new == NewTrade(bids[b].listing, b, bids[b].buyer, AcceptedUnits(b), OfferPrice)
        IN new \in TradeDoc
    BY <2>2, <2>3, FeeIsInt DEF NewTrade, TradeDoc, TradeStatuses, Listing, Investor, TypeOK, ListingDoc
  <2>5. TypeOK'
    BY <1>11, <2>1, <2>4 DEF AcceptBid, TypeOK
  <2>6. /\ trades'[t].listing = bids[b].listing /\ trades'[t].bid = b
        /\ trades'[t].seller = listings[bids[b].listing].seller
        /\ trades'[t].buyer = bids[b].buyer
        /\ pc'[t] = "mark"
        /\ \A x \in Trades \ {t} : trades'[x] = trades[x] /\ pc'[x] = pc[x]
    BY <1>11 DEF AcceptBid, NewTrade, TypeOK
  <2>7. Wired'
    BY <1>11, <2>2, <2>6 DEF AcceptBid, Wired, TypeOK
  <2> QED
    BY <2>5, <2>7
<1>12. ASSUME NEW t \in Trades, MarkBidAccepted(t)
      PROVE TypeOK' /\ Wired'
  <2>1. pc' \in [Trades -> Steps]
    BY <1>12 DEF MarkBidAccepted, TypeOK, Steps
  <2>a. trades[t].bid \in Bids /\ "accepted" \in BidStatuses
    BY <1>12 DEF MarkBidAccepted, Wired, TypeOK, BidStatuses
  <2>2. TypeOK'
    BY <1>12, <2>1, <2>a, SetBidStatus DEF MarkBidAccepted, TypeOK
  <2>3. Wired'
    BY <1>12, <2>a, <2>2 DEF MarkBidAccepted, Wired, TypeOK, BidDoc
  <2> QED
    BY <2>2, <2>3
<1>13. ASSUME NEW t \in Trades, CheckListing(t)
      PROVE TypeOK' /\ Wired'
  <2>1. pc' \in [Trades -> Steps]
    BY <1>13 DEF CheckListing, TypeOK, Steps
  <2>2. TypeOK'
    BY <1>13, <2>1 DEF CheckListing, TypeOK, Wired, Open
  <2>3. Wired'
    BY <1>13, <2>2 DEF CheckListing, Wired, TypeOK, Open, NoListing, NotCreating
  <2> QED
    BY <2>2, <2>3
<1>14. ASSUME NEW t \in Trades, CheckFunds(t)
      PROVE TypeOK' /\ Wired'
  <2>1. pc' \in [Trades -> Steps]
    BY <1>14 DEF CheckFunds, TypeOK, Steps
  <2>2. trades' \in [Trades -> TradeDoc] /\ alive' \subseteq alive
        /\ \A x \in Trades : trades'[x].listing = trades[x].listing
             /\ trades'[x].seller = trades[x].seller /\ trades'[x].buyer = trades[x].buyer
             /\ trades'[x].bid = trades[x].bid
    <3>1. "failed" \in TradeStatuses
      BY DEF TradeStatuses
    <3>2. CASE trades' = trades /\ alive' = alive
      BY <3>2 DEF TypeOK
    <3>3. CASE trades' = [trades EXCEPT ![t].status = "failed"] /\ alive' = alive \ {t}
      BY <3>1, <3>3, SetTradeStatus DEF TypeOK
    <3> QED
      BY <1>14, <3>2, <3>3 DEF CheckFunds
  <2>3. TypeOK'
    BY <1>14, <2>1, <2>2 DEF CheckFunds, TypeOK
  <2>4. pc'[t] \in {"reserve", "refused"} /\ \A x \in Trades \ {t} : pc'[x] = pc[x]
    BY <1>14 DEF CheckFunds, TypeOK
  <2>5. Wired'
    BY <1>14, <2>2, <2>4 DEF CheckFunds, Wired, TypeOK
  <2> QED
    BY <2>3, <2>5
<1>15. ASSUME NEW t \in Trades, ReserveUnits(t)
      PROVE TypeOK' /\ Wired'
  <2>1. pc' \in [Trades -> Steps]
    BY <1>15 DEF ReserveUnits, TypeOK, Steps
  <2>2. trades[t].listing \in Listings /\ trades[t].units \in Int /\ pc[t] # "idle"
    BY <1>15, TradeFields DEF ReserveUnits, Wired, TypeOK
  <2>3. CASE UNCHANGED listings
    <3>1. trades' \in [Trades -> TradeDoc]
          /\ \A x \in Trades : trades'[x].listing = trades[x].listing
               /\ trades'[x].seller = trades[x].seller /\ trades'[x].buyer = trades[x].buyer
               /\ trades'[x].bid = trades[x].bid
      <4>1. "failed" \in TradeStatuses
        BY DEF TradeStatuses
      <4>2. trades' = trades \/ trades' = [trades EXCEPT ![t].status = "failed"]
        BY <1>15 DEF ReserveUnits
      <4>3. CASE trades' = trades
        BY <4>3 DEF TypeOK
      <4>4. CASE trades' = [trades EXCEPT ![t].status = "failed"]
        BY <4>1, <4>4, SetTradeStatus DEF TypeOK
      <4> QED
        BY <4>2, <4>3, <4>4
    <3>2. alive' \subseteq alive
      BY <1>15 DEF ReserveUnits
    <3>3. TypeOK'
      BY <1>15, <2>1, <2>3, <3>1, <3>2 DEF ReserveUnits, TypeOK
    <3>4. pc'[t] \in {"debit", "refused"} /\ \A x \in Trades \ {t} : pc'[x] = pc[x]
      BY <1>15 DEF ReserveUnits, TypeOK
    <3>5. UNCHANGED <<bids, creating, cancelling, withdrawing, accepting>>
      BY <1>15 DEF ReserveUnits
    <3>6. \A x \in Trades : pc'[x] # "idle" =>
            /\ trades'[x].listing \in Listings
            /\ listings'[trades'[x].listing].status # "none"
            /\ trades'[x].seller \in Investors
            /\ trades'[x].buyer \in Investors
            /\ pc'[x] = "mark" => trades'[x].bid \in Bids /\ bids'[trades'[x].bid].status # "none"
      BY <2>2, <2>3, <3>1, <3>4, <3>5 DEF Wired
    <3>7. \A x \in alive' : pc'[x] # "idle"
      BY <3>2, <3>4 DEF Wired, TypeOK
    <3>8. Wired'
      BY <2>3, <3>5, <3>6, <3>7 DEF Wired
    <3> QED
      BY <3>3, <3>8
  <2>4. CASE listings' = [listings EXCEPT ![trades[t].listing].filled = @ + trades[t].units]
             /\ UNCHANGED <<trades, alive>>
    <3>1. listings' \in [Listings -> ListingDoc]
          /\ \A x \in Listings : listings'[x].status = listings[x].status
                                 /\ listings'[x].seller = listings[x].seller
      BY <2>2, <2>4, AddFilled DEF TypeOK
    <3>2. TypeOK'
      BY <1>15, <2>1, <2>4, <3>1 DEF ReserveUnits, TypeOK
    <3>3. pc'[t] \in {"debit", "refused"} /\ \A x \in Trades \ {t} : pc'[x] = pc[x]
      BY <1>15 DEF ReserveUnits, TypeOK
    <3>4. Wired'
      BY <1>15, <2>2, <2>4, <3>1, <3>3 DEF ReserveUnits, Wired, TypeOK
    <3> QED
      BY <3>2, <3>4
  <2> QED
    BY <1>15, <2>3, <2>4 DEF ReserveUnits
<1>16. ASSUME NEW t \in Trades, DebitBuyer(t)
      PROVE TypeOK' /\ Wired'
  <2>1. pc' \in [Trades -> Steps]
    BY <1>16 DEF DebitBuyer, TypeOK, Steps
  <2>2. trades[t].buyer \in Investors /\ trades[t].seller \in Investors
        /\ trades[t].gross \in Int /\ trades[t].fee \in Int
    BY <1>16, TradeFields DEF DebitBuyer, Wired, TypeOK
  <2>3. cash' \in [Investors \cup {Platform} -> Int]
    BY <1>16, <2>2 DEF DebitBuyer, TypeOK
  <2>4. ledger' \in [Trades -> SUBSET Reasons]
    BY <1>16 DEF DebitBuyer, TypeOK, Reasons
  <2>5. TypeOK'
    BY <1>16, <2>1, <2>3, <2>4 DEF DebitBuyer, TypeOK
  <2>6. Wired'
    BY <1>16 DEF DebitBuyer, Wired, TypeOK
  <2> QED
    BY <2>5, <2>6
<1>17. ASSUME NEW t \in Trades, CreditSeller(t)
      PROVE TypeOK' /\ Wired'
  <2>1. pc' \in [Trades -> Steps]
    BY <1>17 DEF CreditSeller, TypeOK, Steps
  <2>2. trades[t].buyer \in Investors /\ trades[t].seller \in Investors
        /\ trades[t].gross \in Int /\ trades[t].fee \in Int
    BY <1>17, TradeFields DEF CreditSeller, Wired, TypeOK
  <2>3. cash' \in [Investors \cup {Platform} -> Int]
    BY <1>17, <2>2 DEF CreditSeller, TypeOK
  <2>4. ledger' \in [Trades -> SUBSET Reasons]
    BY <1>17 DEF CreditSeller, TypeOK, Reasons
  <2>5. TypeOK'
    BY <1>17, <2>1, <2>3, <2>4 DEF CreditSeller, TypeOK
  <2>6. Wired'
    BY <1>17 DEF CreditSeller, Wired, TypeOK
  <2> QED
    BY <2>5, <2>6
<1>18. ASSUME NEW t \in Trades, CreditFee(t)
      PROVE TypeOK' /\ Wired'
  <2>1. pc' \in [Trades -> Steps]
    BY <1>18 DEF CreditFee, TypeOK, Steps
  <2>2. trades[t].buyer \in Investors /\ trades[t].seller \in Investors
        /\ trades[t].gross \in Int /\ trades[t].fee \in Int
    BY <1>18, TradeFields DEF CreditFee, Wired, TypeOK
  <2>3. cash' \in [Investors \cup {Platform} -> Int]
    BY <1>18, <2>2 DEF CreditFee, TypeOK
  <2>4. ledger' \in [Trades -> SUBSET Reasons]
    BY <1>18 DEF CreditFee, TypeOK, Reasons
  <2>5. TypeOK'
    BY <1>18, <2>1, <2>3, <2>4 DEF CreditFee, TypeOK
  <2>6. Wired'
    BY <1>18 DEF CreditFee, Wired, TypeOK
  <2> QED
    BY <2>5, <2>6
<1>19. ASSUME NEW t \in Trades, InsertTransfer(t)
      PROVE TypeOK' /\ Wired'
  <2>1. pc' \in [Trades -> Steps]
    BY <1>19 DEF InsertTransfer, TypeOK, Steps
  <2>2. TypeOK'
    BY <1>19, <2>1 DEF InsertTransfer, TypeOK, Wired, Open, TradeDoc, TradeStatuses, Listing, Investor
  <2>3. Wired'
    BY <1>19, <2>2 DEF InsertTransfer, Wired, TypeOK, Open, TradeDoc, TradeStatuses, Listing, Investor
  <2> QED
    BY <2>2, <2>3
<1>20. ASSUME NEW t \in Trades, ReadSellerShares(t)
      PROVE TypeOK' /\ Wired'
  <2>1. pc' \in [Trades -> Steps]
    BY <1>20 DEF ReadSellerShares, TypeOK, Steps
  <2>2. shares[trades[t].seller] \in Int
    BY <1>20 DEF ReadSellerShares, TypeOK, Wired
  <2>3. read' \in [Trades -> [seller : Int, buyer : Int, cash : Int]]
    BY <1>20, <2>2 DEF ReadSellerShares, TypeOK
  <2>4. TypeOK'
    BY <1>20, <2>1, <2>3 DEF ReadSellerShares, TypeOK, moneyVars, handlerVars
  <2>5. Wired'
    BY <1>20, <2>4 DEF ReadSellerShares, Wired, TypeOK, Open
  <2> QED
    BY <2>4, <2>5
<1>21. ASSUME NEW t \in Trades, ReadBuyerShares(t)
      PROVE TypeOK' /\ Wired'
  <2>1. pc' \in [Trades -> Steps]
    BY <1>21 DEF ReadBuyerShares, TypeOK, Steps
  <2>2. shares[trades[t].buyer] \in Int
    BY <1>21 DEF ReadBuyerShares, TypeOK, Wired
  <2>3. read' \in [Trades -> [seller : Int, buyer : Int, cash : Int]]
    BY <1>21, <2>2 DEF ReadBuyerShares, TypeOK
  <2>4. TypeOK'
    BY <1>21, <2>1, <2>3 DEF ReadBuyerShares, TypeOK, moneyVars, handlerVars
  <2>5. Wired'
    BY <1>21, <2>4 DEF ReadBuyerShares, Wired, TypeOK, Open
  <2> QED
    BY <2>4, <2>5
<1>22. ASSUME NEW t \in Trades, WriteSellerRow(t)
      PROVE TypeOK' /\ Wired'
  <2>1. pc' \in [Trades -> Steps]
    BY <1>22 DEF WriteSellerRow, TypeOK, Steps
  <2>2. TypeOK'
    BY <1>22, <2>1 DEF WriteSellerRow, TypeOK, Wired, Open, NoListing, NotCreating, NothingRead
  <2>3. Wired'
    BY <1>22, <2>2 DEF WriteSellerRow, Wired, TypeOK, Open
  <2> QED
    BY <2>2, <2>3
<1>23. ASSUME NEW t \in Trades, WriteBuyerRow(t)
      PROVE TypeOK' /\ Wired'
  <2>1. pc' \in [Trades -> Steps]
    BY <1>23 DEF WriteBuyerRow, TypeOK, Steps
  <2>2. TypeOK'
    BY <1>23, <2>1 DEF WriteBuyerRow, TypeOK, Wired, Open, NoListing, NotCreating, NothingRead
  <2>3. Wired'
    <3>1. UNCHANGED <<listings, bids, trades, alive, creating, cancelling, withdrawing, accepting>>
      BY <1>23 DEF WriteBuyerRow
    <3>2. pc[t] # "idle" /\ pc'[t] = "readBuyerCash" /\ \A x \in Trades \ {t} : pc'[x] = pc[x]
      BY <1>23 DEF WriteBuyerRow, TypeOK
    <3>3. pc'[t] # "idle" /\ pc'[t] # "mark"
      BY <3>2
    <3>4. Wired /\ alive \subseteq Trades /\ t \in Trades
      BY DEF TypeOK
    <3> QED
      BY ONLY <3>1, <3>2, <3>3, <3>4, WiredStays
  <2> QED
    BY <2>2, <2>3
<1>24. ASSUME NEW t \in Trades, RecomputeWallets(t)
      PROVE TypeOK' /\ Wired'
  <2>1. pc' \in [Trades -> Steps]
    BY <1>24 DEF RecomputeWallets, ReadCash, SaveCash, TypeOK, Steps
  <2>2. trades[t].buyer \in Investors /\ trades[t].seller \in Investors
    BY <1>24 DEF RecomputeWallets, ReadCash, SaveCash, Wired, TypeOK
  <2>3. read' \in [Trades -> [seller : Int, buyer : Int, cash : Int]]
    <3>1. /\ read \in [Trades -> [seller : Int, buyer : Int, cash : Int]]
          /\ cash[trades[t].buyer] \in Int
          /\ cash[trades[t].seller] \in Int
      BY <2>2 DEF TypeOK
    <3>2. NothingRead \in [seller : Int, buyer : Int, cash : Int]
      BY DEF NothingRead
    <3>3. \/ read' = [read EXCEPT ![t].cash = cash[trades[t].buyer]]
          \/ read' = [read EXCEPT ![t].cash = cash[trades[t].seller]]
          \/ read' = [read EXCEPT ![t] = NothingRead]
      BY <1>24, Zenon DEF RecomputeWallets, ReadCash, SaveCash
    <3> QED
      BY ONLY <3>1, <3>2, <3>3
  <2>4. wallets' \in [Investors -> Int]
    <3>1. wallets \in [Investors -> Int] /\ read[t].cash \in Int
      BY DEF TypeOK
    <3>2. \/ wallets' = wallets
          \/ wallets' = [wallets EXCEPT ![trades[t].buyer] = read[t].cash]
          \/ wallets' = [wallets EXCEPT ![trades[t].seller] = read[t].cash]
      <4>1. CASE ReadCash(t, "readBuyerCash", "saveBuyerCash", trades[t].buyer)
                 \/ ReadCash(t, "readSellerCash", "saveSellerCash", trades[t].seller)
        BY <4>1 DEF ReadCash
      <4>2. CASE SaveCash(t, "saveBuyerCash", "readSellerCash", trades[t].buyer)
        BY <4>2 DEF SaveCash
      <4>3. CASE SaveCash(t, "saveSellerCash", "fill", trades[t].seller)
        BY <4>3 DEF SaveCash
      <4> QED
        BY ONLY <1>24, <4>1, <4>2, <4>3, Zenon DEF RecomputeWallets
    <3> QED
      BY ONLY <2>2, <3>1, <3>2
  <2>5. UNCHANGED <<listings, bids, trades, ledger, cash, transferred, shares,
                   ownerships, alive, handlerVars>>
    BY <1>24 DEF RecomputeWallets, ReadCash, SaveCash
  <2>6. pc'[t] \notin {"idle", "mark"} /\ pc[t] # "idle" /\ \A x \in Trades \ {t} : pc'[x] = pc[x]
    BY <1>24 DEF RecomputeWallets, ReadCash, SaveCash, TypeOK
  <2>7. TypeOK'
    BY <2>1, <2>3, <2>4, <2>5 DEF TypeOK
  <2>8. Wired'
    BY <2>5, <2>6 DEF Wired, TypeOK
  <2> QED
    BY <2>7, <2>8
<1>25. ASSUME NEW t \in Trades, MarkFilled(t)
      PROVE TypeOK' /\ Wired'
  <2>1. pc' \in [Trades -> Steps]
    BY <1>25 DEF MarkFilled, TypeOK, Steps
  <2>2. trades[t].listing \in Listings /\ "filled" \in ListingStatuses
    BY <1>25 DEF MarkFilled, Wired, TypeOK, ListingStatuses
  <2>3. listings' \in [Listings -> ListingDoc]
    BY <1>25, <2>2, SetListingStatus DEF MarkFilled, TypeOK
  <2>4. TypeOK'
    BY <1>25, <2>1, <2>3 DEF MarkFilled, TypeOK
  <2>5. Wired'
    BY <1>25, <2>1 DEF MarkFilled, Wired, TypeOK, ListingDoc, ListingStatuses, Investor
  <2> QED
    BY <2>4, <2>5
<1>26. ASSUME NEW t \in Trades, MarkPartiallyFilled(t)
      PROVE TypeOK' /\ Wired'
  <2>1. pc' \in [Trades -> Steps]
    BY <1>26 DEF MarkPartiallyFilled, TypeOK, Steps
  <2>2. trades[t].listing \in Listings /\ "partially_filled" \in ListingStatuses
    BY <1>26 DEF MarkPartiallyFilled, Wired, TypeOK, ListingStatuses
  <2>3. listings' \in [Listings -> ListingDoc]
    BY <1>26, <2>2, SetListingStatus DEF MarkPartiallyFilled, TypeOK
  <2>4. TypeOK'
    BY <1>26, <2>1, <2>3 DEF MarkPartiallyFilled, TypeOK
  <2>5. Wired'
    BY <1>26, <2>1 DEF MarkPartiallyFilled, Wired, TypeOK, ListingDoc, ListingStatuses, Investor
  <2> QED
    BY <2>4, <2>5
<1>27. ASSUME NEW t \in Trades, MarkSettled(t)
      PROVE TypeOK' /\ Wired'
  <2>1. pc' \in [Trades -> Steps]
    BY <1>27 DEF MarkSettled, TypeOK, Steps
  <2>2. "settled" \in TradeStatuses
    BY DEF TradeStatuses
  <2>3. TypeOK'
    BY <1>27, <2>1, <2>2, SetTradeStatus DEF MarkSettled, TypeOK
  <2>4. Wired'
    BY <1>27, <2>2, <2>3, SetTradeStatus DEF MarkSettled, Wired, TypeOK
  <2> QED
    BY <2>3, <2>4
<1>28. ASSUME NEW t \in Trades, WalletHookRaises(t)
      PROVE TypeOK' /\ Wired'
  <2>1. pc' \in [Trades -> Steps]
    BY <1>28 DEF WalletHookRaises, TypeOK, Steps
  <2>2. TypeOK'
    BY <1>28, <2>1 DEF WalletHookRaises, TypeOK, Wired, Open, NoListing, NotCreating, NothingRead
  <2>3. Wired'
    BY <1>28, <2>2 DEF WalletHookRaises, Wired, TypeOK, Open
  <2> QED
    BY <2>2, <2>3
<1>29. ASSUME NEW t \in Trades, Abort(t)
      PROVE TypeOK' /\ Wired'
  <2>1. TypeOK'
    BY <1>29 DEF Abort, TypeOK, Wired, Open, NoListing, NotCreating, NothingRead
  <2>2. Wired'
    BY <1>29, <2>1 DEF Abort, Wired, TypeOK, Open
  <2> QED
    BY <2>1, <2>2
<1>30. ASSUME UNCHANGED vars
      PROVE TypeOK' /\ Wired'
  <2>1. TypeOK'
    BY <1>30 DEF vars, TypeOK, Wired, Open
  <2>2. Wired'
    BY <1>30, <2>1 DEF vars, Wired, TypeOK, Open
  <2> QED
    BY <2>1, <2>2
<1> QED
  BY <1>1, <1>2, <1>3, <1>4, <1>5, <1>6, <1>7, <1>8, <1>9, <1>10, <1>11, <1>12,
        <1>13, <1>14, <1>15, <1>16, <1>17, <1>18, <1>19, <1>20, <1>21, <1>22,
        <1>23, <1>24, <1>25, <1>26, <1>27, <1>28, <1>29, <1>30
  DEF Next, ListingStep, BidStep, TradeStep, SettleStep

\* Every collection and every handler keeps its type in every behaviour.
THEOREM TypeCorrect == Spec => []TypeOK
<1>1. Spec => []TypeInv
  BY InitTypeInv, StepTypeInv, PTL DEF Spec
<1> QED
  BY <1>1, PTL DEF TypeInv

-----------------------------------------------------------------------------
(* No oversell.                                                            *)

\* The only steps that write a listing.
LEMMA ListingWriters ==
  ASSUME [Next]_vars
  PROVE  \/ UNCHANGED listings
         \/ \E l \in Listings : CreateListingInsert(l) \/ CancelListingWrite(l)
         \/ \E t \in Trades : ReserveUnits(t) \/ MarkFilled(t) \/ MarkPartiallyFilled(t)
<1>1. CASE \E l \in Listings : ListingStep(l)
  BY <1>1 DEF ListingStep, CreateListingRead, CreateListingCheck, CancelListingRead
<1>2. CASE \E b \in Bids : BidStep(b)
  BY <1>2 DEF BidStep, PlaceBid, CancelBidRead, CancelBidWrite, RejectBid, AcceptRead, AcceptRefused
<1>3. CASE \E t \in Trades : TradeStep(t)
  BY <1>3 DEF TradeStep, SettleStep, BuyNow, AcceptBid, MarkBidAccepted, CheckListing,
     CheckFunds, DebitBuyer, CreditSeller, CreditFee, InsertTransfer, ReadSellerShares,
     ReadBuyerShares, WriteSellerRow, WriteBuyerRow, RecomputeWallets, ReadCash, SaveCash,
     MarkSettled, WalletHookRaises, Abort
<1>4. CASE UNCHANGED vars
  BY <1>4 DEF vars
<1> QED
  BY <1>1, <1>2, <1>3, <1>4 DEF Next

LEMMA StepNoOversell == TypeInv /\ NoOversell /\ [Next]_vars => NoOversell'
<1> SUFFICES ASSUME TypeOK, Wired, NoOversell, [Next]_vars PROVE NoOversell'
  BY DEF TypeInv
<1> USE MarketConstants DEF NoOversell, TypeOK
<1>1. CASE UNCHANGED listings
  BY <1>1
<1>2. ASSUME NEW l \in Listings, CreateListingInsert(l) PROVE NoOversell'
  BY <1>2 DEF CreateListingInsert, Draft
<1>3. ASSUME NEW l \in Listings, CancelListingWrite(l) PROVE NoOversell'
  BY <1>3 DEF CancelListingWrite, ListingDoc
<1>4. ASSUME NEW t \in Trades, ReserveUnits(t) PROVE NoOversell'
  <2>1. trades[t].listing \in Listings
    BY <1>4 DEF ReserveUnits, Goto, Wired
  <2>2. CASE Fits(trades[t].listing, trades[t].units)
             /\ listings' = [listings EXCEPT ![trades[t].listing].filled = @ + trades[t].units]
    BY <2>1, <2>2 DEF Fits, ListingDoc
  <2> QED
    BY <1>1, <1>4, <2>2 DEF ReserveUnits
<1>5. ASSUME NEW t \in Trades, MarkFilled(t) \/ MarkPartiallyFilled(t) PROVE NoOversell'
  <2>1. /\ trades[t].listing \in Listings
        /\ "filled" \in ListingStatuses /\ "partially_filled" \in ListingStatuses
    BY <1>5 DEF MarkFilled, MarkPartiallyFilled, Goto, Wired, ListingStatuses
  <2>2. \/ listings' = listings
        \/ \E s \in {"filled", "partially_filled"} :
             listings' = [listings EXCEPT ![trades[t].listing].status = s]
    BY <1>5 DEF MarkFilled, MarkPartiallyFilled
  <2>3. ASSUME NEW s \in ListingStatuses,
               listings' = [listings EXCEPT ![trades[t].listing].status = s]
        PROVE  NoOversell'
    BY <2>1, <2>3, SetListingStatus
  <2> QED
    BY <1>1, <2>1, <2>2, <2>3
<1> QED
  BY <1>1, <1>2, <1>3, <1>4, <1>5, ListingWriters

\* However many settlements race on however many listings, and wherever they
\* die, no listing is ever sold beyond what it offers and the tolerance.
THEOREM NeverOversold == Spec => []NoOversell
<1>1. Init => NoOversell
  BY MarketConstants DEF Init, NoOversell, NoListing
<1>2. Init => TypeInv
  BY InitTypeInv
<1> QED
  BY <1>1, <1>2, StepTypeInv, StepNoOversell, PTL DEF Spec

\* Nothing but a cancellation that had already read the status takes a listing
\* out of filled: late settlements never downgrade it.
THEOREM FilledStaysFilled == Spec => FilledIsNeverReopened
<1> DEFINE Kept(l) == listings[l].status = "filled" /\ listings'[l].status # "filled"
                        => l \in cancelling /\ listings'[l].status = "cancelled"
<1>1. ASSUME TypeOK, Wired, [Next]_vars PROVE \A l \in Listings : Kept(l)
  <2> USE <1>1 DEF TypeOK
  <2>1. CASE UNCHANGED listings
    BY <2>1
  <2>2. ASSUME NEW l \in Listings, CreateListingInsert(l) PROVE \A x \in Listings : Kept(x)
    BY <2>2 DEF CreateListingInsert, Wired
  <2>3. ASSUME NEW l \in Listings, CancelListingWrite(l) PROVE \A x \in Listings : Kept(x)
    <3>1. "cancelled" \in ListingStatuses
      BY DEF ListingStatuses
    <3> QED
      BY <2>3, <3>1, SetListingStatus DEF CancelListingWrite
  <2>4. ASSUME NEW t \in Trades, ReserveUnits(t) PROVE \A x \in Listings : Kept(x)
    <3>1. trades[t].listing \in Listings /\ trades[t].units \in Int
      BY <2>4, TradeFields DEF ReserveUnits, Goto, Wired
    <3>2. CASE listings' = [listings EXCEPT ![trades[t].listing].filled = @ + trades[t].units]
      BY <3>1, <3>2, AddFilled
    <3> QED
      BY <2>1, <2>4, <3>2 DEF ReserveUnits
  <2>5. ASSUME NEW t \in Trades, MarkFilled(t) PROVE \A x \in Listings : Kept(x)
    <3>1. trades[t].listing \in Listings /\ "filled" \in ListingStatuses
      BY <2>5 DEF MarkFilled, Goto, Wired, ListingStatuses
    <3>2. CASE listings' = [listings EXCEPT ![trades[t].listing].status = "filled"]
      BY <3>1, <3>2, SetListingStatus
    <3> QED
      BY <2>1, <2>5, <3>2 DEF MarkFilled
  <2>6. ASSUME NEW t \in Trades, MarkPartiallyFilled(t) PROVE \A x \in Listings : Kept(x)
    <3>1. trades[t].listing \in Listings /\ "partially_filled" \in ListingStatuses
      BY <2>6 DEF MarkPartiallyFilled, Goto, Wired, ListingStatuses
    <3>2. CASE /\ listings[trades[t].listing].status = "active"
               /\ listings' = [listings EXCEPT ![trades[t].listing].status = "partially_filled"]
      BY <3>1, <3>2, SetListingStatus
    <3> QED
      BY <2>1, <2>6, <3>2 DEF MarkPartiallyFilled
  <2> QED
    BY <2>1, <2>2, <2>3, <2>4, <2>5, <2>6, ListingWriters
<1>2. TypeInv /\ [Next]_vars =>
        [\A l \in Listings : listings[l].status = "filled" /\ listings'[l].status # "filled"
           => l \in cancelling /\ listings'[l].status = "cancelled"]_listings
  BY <1>1 DEF TypeInv
<1> QED
  BY <1>2, InitTypeInv, StepTypeInv, PTL DEF Spec, FilledIsNeverReopened

-----------------------------------------------------------------------------
(* The order of the money.                                                 *)

Unpaid == {"idle", "mark", "check", "afford", "reserve", "debit", "refused"}
Undelivered == Unpaid \cup {"credit", "fee", "transfer"}

\* How far a handler got says exactly what it has written: the strengthening
\* that makes the three money invariants inductive, dead handlers included.
WrittenSoFar(t) ==
  /\ pc[t] \in Unpaid => ledger[t] = {}
  /\ pc[t] = "credit" => ledger[t] = {"secondary_purchase"}
  /\ pc[t] = "fee" => ledger[t] = {"secondary_purchase", "secondary_sale"}
  /\ pc[t] \notin Unpaid \cup {"credit", "fee"} => ledger[t] = Owed(t)
  /\ t \in transferred <=> pc[t] \notin Undelivered
  /\ trades[t].status = "settled" <=> pc[t] = "done"
  /\ trades[t].status = "failed" => pc[t] = "refused"

MoneyInv == \A t \in Trades : WrittenSoFar(t)

\* What another handler's step leaves alone.
SameTrade(t) ==
  /\ pc'[t] = pc[t]
  /\ ledger'[t] = ledger[t]
  /\ trades'[t].fee = trades[t].fee
  /\ trades'[t].status = trades[t].status
  /\ t \in transferred' <=> t \in transferred

LEMMA SameTradeKeeps ==
  ASSUME NEW t \in Trades, SameTrade(t), WrittenSoFar(t)
  PROVE  WrittenSoFar(t)'
BY DEF SameTrade, WrittenSoFar, Owed

\* A handler settles its own trade and no other.
LEMMA OthersStay ==
  ASSUME TypeOK, Wired, NEW t \in Trades, TradeStep(t)
  PROVE  \A x \in Trades \ {t} : SameTrade(x)
<1> USE DEF TypeOK, Goto, Return
<1> DEFINE Others == \A x \in Trades \ {t} : SameTrade(x)
<1>1. ASSUME NEW l \in Listings, NEW i \in Investors, NEW u \in Sizes,
             BuyNow(t, l, i, u)
      PROVE  Others
  BY <1>1, TradeFields DEF BuyNow, SameTrade, moneyVars
<1>2. ASSUME NEW b \in Bids, AcceptBid(t, b)
      PROVE  Others
  BY <1>2, TradeFields DEF AcceptBid, SameTrade, moneyVars
<1>3. CASE MarkBidAccepted(t)
  BY <1>3, TradeFields DEF MarkBidAccepted, SameTrade, moneyVars
<1>4. CASE CheckListing(t)
  BY <1>4, TradeFields DEF CheckListing, SameTrade, moneyVars
<1>5. CASE CheckFunds(t)
  <2>1. /\ trades' \in [Trades -> TradeDoc]
        /\ \A x \in Trades : trades'[x].fee = trades[x].fee
        /\ \A x \in Trades \ {t} : trades'[x].status = trades[x].status
        /\ trades'[t].status \in {trades[t].status, "failed"}
        /\ trades'[t].status = "failed" /\ trades[t].status # "failed" => pc'[t] = "refused"
    <3>1. "failed" \in TradeStatuses
      BY DEF TradeStatuses
    <3>2. CASE trades' = trades
      BY <3>2
    <3>3. CASE trades' = [trades EXCEPT ![t].status = "failed"] /\ pc' = [pc EXCEPT ![t] = "refused"]
      BY <3>1, <3>3, SetTradeStatus
    <3> QED
      BY <1>5, <3>2, <3>3 DEF CheckFunds, Fail
  <2> QED
    BY <1>5, <2>1, TradeFields DEF CheckFunds, SameTrade, moneyVars
<1>6. CASE ReserveUnits(t)
  <2>1. /\ trades' \in [Trades -> TradeDoc]
        /\ \A x \in Trades : trades'[x].fee = trades[x].fee
        /\ \A x \in Trades \ {t} : trades'[x].status = trades[x].status
        /\ trades'[t].status \in {trades[t].status, "failed"}
        /\ trades'[t].status = "failed" /\ trades[t].status # "failed" => pc'[t] = "refused"
    <3>1. "failed" \in TradeStatuses
      BY DEF TradeStatuses
    <3>2. CASE trades' = trades
      BY <3>2
    <3>3. CASE trades' = [trades EXCEPT ![t].status = "failed"] /\ pc' = [pc EXCEPT ![t] = "refused"]
      BY <3>1, <3>3, SetTradeStatus
    <3> QED
      BY <1>6, <3>2, <3>3 DEF ReserveUnits, Fail
  <2> QED
    BY <1>6, <2>1, TradeFields DEF ReserveUnits, SameTrade, moneyVars
<1>7. CASE DebitBuyer(t)
  BY <1>7, TradeFields DEF DebitBuyer, Append, SameTrade, moneyVars
<1>8. CASE CreditSeller(t)
  BY <1>8, TradeFields DEF CreditSeller, Append, SameTrade, moneyVars
<1>9. CASE CreditFee(t)
  BY <1>9, TradeFields DEF CreditFee, Append, SameTrade, moneyVars
<1>10. CASE InsertTransfer(t)
  BY <1>10, TradeFields DEF InsertTransfer, SameTrade, moneyVars
<1>11. CASE ReadSellerShares(t)
  BY <1>11, TradeFields DEF ReadSellerShares, SameTrade, moneyVars
<1>12. CASE ReadBuyerShares(t)
  BY <1>12, TradeFields DEF ReadBuyerShares, SameTrade, moneyVars
<1>13. CASE WriteSellerRow(t)
  BY <1>13, TradeFields DEF WriteSellerRow, SameTrade, moneyVars
<1>14. CASE WriteBuyerRow(t)
  BY <1>14, TradeFields DEF WriteBuyerRow, SameTrade, moneyVars
<1>15. CASE RecomputeWallets(t)
  BY <1>15, TradeFields DEF RecomputeWallets, ReadCash, SaveCash, SameTrade, moneyVars
<1>16. CASE WalletHookRaises(t)
  BY <1>16, TradeFields DEF WalletHookRaises, SameTrade, moneyVars
<1>17. CASE MarkFilled(t)
  BY <1>17, TradeFields DEF MarkFilled, SameTrade, moneyVars
<1>18. CASE MarkPartiallyFilled(t)
  BY <1>18, TradeFields DEF MarkPartiallyFilled, SameTrade, moneyVars
<1>19. CASE MarkSettled(t)
  <2>1. "settled" \in TradeStatuses
    BY DEF TradeStatuses
  <2> QED
    BY <1>19, <2>1, SetTradeStatus DEF MarkSettled, SameTrade, moneyVars
<1>20. CASE Abort(t)
  BY <1>20 DEF Abort, SameTrade, moneyVars
<1> QED
  BY <1>1, <1>2, <1>3, <1>4, <1>5, <1>6, <1>7, <1>8, <1>9, <1>10, <1>11, <1>12, <1>13, <1>14, <1>15, <1>16, <1>17, <1>18, <1>19, <1>20 DEF TradeStep, SettleStep

LEMMA StepMoneyInv == TypeInv /\ MoneyInv /\ [Next]_vars => MoneyInv'
<1> SUFFICES ASSUME TypeOK, Wired, MoneyInv, [Next]_vars PROVE MoneyInv'
  BY DEF TypeInv
<1> USE DEF TypeOK, Goto, Return
<1>0. ASSUME NEW t \in Trades, TradeStep(t), WrittenSoFar(t)'
      PROVE  MoneyInv'
  BY <1>0, OthersStay, SameTradeKeeps DEF MoneyInv
<1>1. ASSUME NEW t \in Trades, NEW l \in Listings, NEW i \in Investors, NEW u \in Sizes,
             BuyNow(t, l, i, u)
      PROVE  MoneyInv'
  <2>2. WrittenSoFar(t)'
    BY <1>1, TradeFields DEF BuyNow, NewTrade, moneyVars, WrittenSoFar, MoneyInv, Owed, Unpaid, Undelivered, Reasons
  <2> QED
    BY <1>1, <2>2, <1>0 DEF TradeStep, SettleStep
<1>2. ASSUME NEW t \in Trades, NEW b \in Bids, AcceptBid(t, b)
      PROVE  MoneyInv'
  <2>2. WrittenSoFar(t)'
    BY <1>2, TradeFields DEF AcceptBid, NewTrade, moneyVars, WrittenSoFar, MoneyInv, Owed, Unpaid, Undelivered, Reasons
  <2> QED
    BY <1>2, <2>2, <1>0 DEF TradeStep, SettleStep
<1>3. ASSUME NEW t \in Trades, MarkBidAccepted(t)
      PROVE  MoneyInv'
  <2>2. WrittenSoFar(t)'
    BY <1>3, TradeFields DEF MarkBidAccepted, moneyVars, WrittenSoFar, MoneyInv, Owed, Unpaid, Undelivered, Reasons
  <2> QED
    BY <1>3, <2>2, <1>0 DEF TradeStep, SettleStep
<1>4. ASSUME NEW t \in Trades, CheckListing(t)
      PROVE  MoneyInv'
  <2>2. WrittenSoFar(t)'
    BY <1>4, TradeFields DEF CheckListing, moneyVars, WrittenSoFar, MoneyInv, Owed, Unpaid, Undelivered, Reasons
  <2> QED
    BY <1>4, <2>2, <1>0 DEF TradeStep, SettleStep
<1>5. ASSUME NEW t \in Trades, CheckFunds(t)
      PROVE  MoneyInv'
  <2>1. /\ trades' \in [Trades -> TradeDoc]
        /\ \A x \in Trades : trades'[x].fee = trades[x].fee
        /\ \A x \in Trades \ {t} : trades'[x].status = trades[x].status
        /\ trades'[t].status \in {trades[t].status, "failed"}
        /\ trades'[t].status = "failed" /\ trades[t].status # "failed" => pc'[t] = "refused"
    <3>1. "failed" \in TradeStatuses
      BY DEF TradeStatuses
    <3>2. CASE trades' = trades
      BY <3>2
    <3>3. CASE trades' = [trades EXCEPT ![t].status = "failed"] /\ pc' = [pc EXCEPT ![t] = "refused"]
      BY <3>1, <3>3, SetTradeStatus
    <3> QED
      BY <1>5, <3>2, <3>3 DEF CheckFunds, Fail
  <2>3. WrittenSoFar(t)'
    BY <1>5, <2>1, TradeFields DEF CheckFunds, moneyVars, WrittenSoFar, MoneyInv, Owed, Unpaid, Undelivered, Reasons
  <2> QED
    BY <1>5, <2>3, <1>0 DEF TradeStep, SettleStep
<1>6. ASSUME NEW t \in Trades, ReserveUnits(t)
      PROVE  MoneyInv'
  <2>1. /\ trades' \in [Trades -> TradeDoc]
        /\ \A x \in Trades : trades'[x].fee = trades[x].fee
        /\ \A x \in Trades \ {t} : trades'[x].status = trades[x].status
        /\ trades'[t].status \in {trades[t].status, "failed"}
        /\ trades'[t].status = "failed" /\ trades[t].status # "failed" => pc'[t] = "refused"
    <3>1. "failed" \in TradeStatuses
      BY DEF TradeStatuses
    <3>2. CASE trades' = trades
      BY <3>2
    <3>3. CASE trades' = [trades EXCEPT ![t].status = "failed"] /\ pc' = [pc EXCEPT ![t] = "refused"]
      BY <3>1, <3>3, SetTradeStatus
    <3> QED
      BY <1>6, <3>2, <3>3 DEF ReserveUnits, Fail
  <2>3. WrittenSoFar(t)'
    BY <1>6, <2>1, TradeFields DEF ReserveUnits, moneyVars, WrittenSoFar, MoneyInv, Owed, Unpaid, Undelivered, Reasons
  <2> QED
    BY <1>6, <2>3, <1>0 DEF TradeStep, SettleStep
<1>7. ASSUME NEW t \in Trades, DebitBuyer(t)
      PROVE  MoneyInv'
  <2>2. WrittenSoFar(t)'
    BY <1>7, TradeFields DEF DebitBuyer, Append, moneyVars, WrittenSoFar, MoneyInv, Owed, Unpaid, Undelivered, Reasons
  <2> QED
    BY <1>7, <2>2, <1>0 DEF TradeStep, SettleStep
<1>8. ASSUME NEW t \in Trades, CreditSeller(t)
      PROVE  MoneyInv'
  <2>2. WrittenSoFar(t)'
    BY <1>8, TradeFields DEF CreditSeller, Append, moneyVars, WrittenSoFar, MoneyInv, Owed, Unpaid, Undelivered, Reasons
  <2> QED
    BY <1>8, <2>2, <1>0 DEF TradeStep, SettleStep
<1>9. ASSUME NEW t \in Trades, CreditFee(t)
      PROVE  MoneyInv'
  <2>2. /\ pc[t] = "fee" /\ pc'[t] = "transfer"
        /\ UNCHANGED <<trades, transferred>>
    BY <1>9 DEF CreditFee, Append, moneyVars
  <2>3. ledger[t] = {"secondary_purchase", "secondary_sale"}
    BY <2>2 DEF MoneyInv, WrittenSoFar
  <2>4. ledger'[t] = Owed(t)
    <3>1. CASE trades[t].fee > 0
      BY <1>9, <2>3, <3>1 DEF CreditFee, Append, Owed, Reasons
    <3>2. CASE ~(trades[t].fee > 0)
      BY <1>9, <2>3, <3>2 DEF CreditFee, moneyVars, Owed, Reasons
    <3> QED
      BY <3>1, <3>2
  <2>5. t \notin transferred
    BY <2>2 DEF MoneyInv, WrittenSoFar, Undelivered
  <2>6. /\ trades[t].status # "settled"
        /\ trades[t].status # "failed"
    BY <2>2 DEF MoneyInv, WrittenSoFar
  <2>7. WrittenSoFar(t)'
    BY <2>2, <2>4, <2>5, <2>6 DEF WrittenSoFar, Owed, Unpaid, Undelivered
  <2> QED
    BY <1>9, <2>7, <1>0 DEF TradeStep, SettleStep
<1>10. ASSUME NEW t \in Trades, InsertTransfer(t)
      PROVE  MoneyInv'
  <2>2. WrittenSoFar(t)'
    BY <1>10, TradeFields DEF InsertTransfer, moneyVars, WrittenSoFar, MoneyInv, Owed, Unpaid, Undelivered, Reasons
  <2> QED
    BY <1>10, <2>2, <1>0 DEF TradeStep, SettleStep
<1>11. ASSUME NEW t \in Trades, ReadSellerShares(t)
      PROVE  MoneyInv'
  <2>2. WrittenSoFar(t)'
    BY <1>11, TradeFields DEF ReadSellerShares, moneyVars, WrittenSoFar, MoneyInv, Owed, Unpaid, Undelivered, Reasons
  <2> QED
    BY <1>11, <2>2, <1>0 DEF TradeStep, SettleStep
<1>12. ASSUME NEW t \in Trades, ReadBuyerShares(t)
      PROVE  MoneyInv'
  <2>2. WrittenSoFar(t)'
    BY <1>12, TradeFields DEF ReadBuyerShares, moneyVars, WrittenSoFar, MoneyInv, Owed, Unpaid, Undelivered, Reasons
  <2> QED
    BY <1>12, <2>2, <1>0 DEF TradeStep, SettleStep
<1>13. ASSUME NEW t \in Trades, WriteSellerRow(t)
      PROVE  MoneyInv'
  <2>2. WrittenSoFar(t)'
    BY <1>13, TradeFields DEF WriteSellerRow, moneyVars, WrittenSoFar, MoneyInv, Owed, Unpaid, Undelivered, Reasons
  <2> QED
    BY <1>13, <2>2, <1>0 DEF TradeStep, SettleStep
<1>14. ASSUME NEW t \in Trades, WriteBuyerRow(t)
      PROVE  MoneyInv'
  <2>2. WrittenSoFar(t)'
    BY <1>14, TradeFields DEF WriteBuyerRow, moneyVars, WrittenSoFar, MoneyInv, Owed, Unpaid, Undelivered, Reasons
  <2> QED
    BY <1>14, <2>2, <1>0 DEF TradeStep, SettleStep
<1>15. ASSUME NEW t \in Trades, RecomputeWallets(t)
      PROVE  MoneyInv'
  <2>2. WrittenSoFar(t)'
    BY <1>15, TradeFields DEF RecomputeWallets, ReadCash, SaveCash, moneyVars, WrittenSoFar, MoneyInv, Owed, Unpaid, Undelivered, Reasons
  <2> QED
    BY <1>15, <2>2, <1>0 DEF TradeStep, SettleStep
<1>16. ASSUME NEW t \in Trades, WalletHookRaises(t)
      PROVE  MoneyInv'
  <2>2. WrittenSoFar(t)'
    BY <1>16, TradeFields DEF WalletHookRaises, moneyVars, WrittenSoFar, MoneyInv, Owed, Unpaid, Undelivered, Reasons
  <2> QED
    BY <1>16, <2>2, <1>0 DEF TradeStep, SettleStep
<1>17. ASSUME NEW t \in Trades, MarkFilled(t)
      PROVE  MoneyInv'
  <2>2. WrittenSoFar(t)'
    BY <1>17, TradeFields DEF MarkFilled, moneyVars, WrittenSoFar, MoneyInv, Owed, Unpaid, Undelivered, Reasons
  <2> QED
    BY <1>17, <2>2, <1>0 DEF TradeStep, SettleStep
<1>18. ASSUME NEW t \in Trades, MarkPartiallyFilled(t)
      PROVE  MoneyInv'
  <2>2. WrittenSoFar(t)'
    BY <1>18, TradeFields DEF MarkPartiallyFilled, moneyVars, WrittenSoFar, MoneyInv, Owed, Unpaid, Undelivered, Reasons
  <2> QED
    BY <1>18, <2>2, <1>0 DEF TradeStep, SettleStep
<1>19. ASSUME NEW t \in Trades, MarkSettled(t)
      PROVE  MoneyInv'
  <2>1. "settled" \in TradeStatuses
    BY DEF TradeStatuses
  <2>3. /\ pc[t] = "settle" /\ pc'[t] = "done"
        /\ UNCHANGED <<ledger, transferred>>
    BY <1>19 DEF MarkSettled, moneyVars
  <2>4. /\ trades'[t].status = "settled"
        /\ trades'[t].fee = trades[t].fee
    BY <1>19, <2>1, SetTradeStatus DEF MarkSettled
  <2>5. ledger[t] = Owed(t) /\ t \in transferred
    BY <2>3 DEF MoneyInv, WrittenSoFar, Unpaid, Undelivered
  <2>6. WrittenSoFar(t)'
    BY <2>3, <2>4, <2>5 DEF WrittenSoFar, Owed, Unpaid, Undelivered
  <2> QED
    BY <1>19, <2>6, <1>0 DEF TradeStep, SettleStep
<1>20. CASE UNCHANGED <<trades, ledger, transferred, pc>>
  BY <1>20 DEF MoneyInv, WrittenSoFar, Owed
<1>21. ASSUME NEW t \in Trades, Abort(t) PROVE MoneyInv'
  BY <1>21, <1>20 DEF Abort, moneyVars
<1>22. CASE (\E l \in Listings : ListingStep(l)) \/ (\E b \in Bids : BidStep(b))
  BY <1>22, <1>20 DEF ListingStep, BidStep, CreateListingRead, CreateListingCheck,
     CreateListingInsert, CancelListingRead, CancelListingWrite, PlaceBid, CancelBidRead,
     CancelBidWrite, RejectBid, AcceptRead, AcceptRefused, moneyVars
<1>23. CASE UNCHANGED vars
  BY <1>23, <1>20 DEF vars, moneyVars
<1> QED
  BY <1>1, <1>2, <1>3, <1>4, <1>5, <1>6, <1>7, <1>8, <1>9, <1>10, <1>11, <1>12, <1>13, <1>14,
     <1>15, <1>16, <1>17, <1>18, <1>19, <1>21, <1>22, <1>23
  DEF Next, TradeStep, SettleStep

LEMMA MoneyInvariant == Spec => []MoneyInv
<1>1. Init => MoneyInv
  BY DEF Init, MoneyInv, WrittenSoFar, Unpaid, Undelivered
<1> QED
  BY <1>1, InitTypeInv, StepTypeInv, StepMoneyInv, PTL DEF Spec

\* Units change hands only against a complete payment, at every await at which
\* a handler may be lost.
THEOREM UnitsArePaidFor == Spec => []UnitsNeverMoveUnpaid
<1>1. MoneyInv => UnitsNeverMoveUnpaid
  BY DEF MoneyInv, WrittenSoFar, UnitsNeverMoveUnpaid, Owed, Unpaid, Undelivered, Reasons
<1> QED
  BY <1>1, MoneyInvariant, PTL

\* A trade that did not get past the oversell guard left no trace in the ledger
\* or in the transfers.
THEOREM LosersAreClean == Spec => []LosersTouchNothing
<1>1. TypeOK /\ MoneyInv => LosersTouchNothing
  BY DEF TypeOK, MoneyInv, WrittenSoFar, LosersTouchNothing, AfterReserve, Unpaid, Undelivered, Steps
<1> QED
  BY <1>1, MoneyInvariant, TypeCorrect, PTL

\* A settled trade has every ledger entry it owes and its transfer.
THEOREM SettledTradesAreComplete == Spec => []SettledIsComplete
<1>1. MoneyInv => SettledIsComplete
  BY DEF MoneyInv, WrittenSoFar, SettledIsComplete, Unpaid, Undelivered
<1> QED
  BY <1>1, MoneyInvariant, PTL

-----------------------------------------------------------------------------
(* The refinement: initial states map to initial states, every step of a   *)
(* handler to a step of the promise or to none.                            *)

\* A listing offers something exactly while it exists.
Offering ==
  \A l \in Listings :
    /\ creating[l].step # "idle" => creating[l].units > 0
    /\ IF listings[l].status = "none"
       THEN listings[l].units = 0 /\ listings[l].filled = 0
       ELSE listings[l].units > 0

LEMMA InitOffering == Init => Offering
BY DEF Init, Offering, NoListing, NotCreating

\* The steps that write a draft.
LEMMA DraftWriters ==
  ASSUME [Next]_vars
  PROVE  \/ UNCHANGED creating
         \/ \E l \in Listings : CreateListingCheck(l) \/ CreateListingInsert(l)
         \/ \E l \in Listings, i \in Investors, u \in Sizes : CreateListingRead(l, i, u)
<1>1. CASE \E l \in Listings : ListingStep(l)
  BY <1>1 DEF ListingStep, CancelListingRead, CancelListingWrite
<1>2. CASE \E b \in Bids : BidStep(b)
  BY <1>2 DEF BidStep, PlaceBid, CancelBidRead, CancelBidWrite, RejectBid, AcceptRead, AcceptRefused, handlerVars
<1>3. CASE \E t \in Trades : TradeStep(t)
  BY <1>3 DEF TradeStep, SettleStep, BuyNow, AcceptBid, MarkBidAccepted, CheckListing,
     CheckFunds, ReserveUnits, DebitBuyer, CreditSeller, CreditFee, InsertTransfer,
     ReadSellerShares, ReadBuyerShares, WriteSellerRow, WriteBuyerRow, RecomputeWallets,
     ReadCash, SaveCash, MarkFilled, MarkPartiallyFilled, MarkSettled, WalletHookRaises,
     Abort, handlerVars
<1>4. CASE UNCHANGED vars
  BY <1>4 DEF vars, handlerVars
<1> QED
  BY <1>1, <1>2, <1>3, <1>4 DEF Next

LEMMA StepOffering == TypeInv /\ Offering /\ [Next]_vars => Offering'
<1> SUFFICES ASSUME TypeOK, Wired, Offering, [Next]_vars PROVE Offering'
  BY DEF TypeInv
<1> USE DEF TypeOK
<1> DEFINE DraftOK == \A l \in Listings : creating[l].step # "idle" => creating[l].units > 0
           ListingOK == \A l \in Listings :
                          IF listings[l].status = "none"
                          THEN listings[l].units = 0 /\ listings[l].filled = 0
                          ELSE listings[l].units > 0
<1>1. DraftOK'
  <2>1. CASE UNCHANGED creating
    BY <2>1 DEF Offering
  <2>2. ASSUME NEW l \in Listings, NEW i \in Investors, NEW u \in Sizes,
               CreateListingRead(l, i, u)
        PROVE  DraftOK'
    BY <2>2, MarketConstants DEF CreateListingRead, Offering
  <2>3. ASSUME NEW l \in Listings, CreateListingCheck(l) PROVE DraftOK'
    BY <2>3 DEF CreateListingCheck, NotCreating, Offering, Draft
  <2>4. ASSUME NEW l \in Listings, CreateListingInsert(l) PROVE DraftOK'
    BY <2>4 DEF CreateListingInsert, NotCreating, Offering
  <2> QED
    BY <2>1, <2>2, <2>3, <2>4, DraftWriters
<1>2. ListingOK'
  <2>1. CASE UNCHANGED listings
    BY <2>1 DEF Offering
  <2>2. ASSUME NEW l \in Listings, CreateListingInsert(l) PROVE ListingOK'
    BY <2>2 DEF CreateListingInsert, Offering
  <2>3. ASSUME NEW l \in Listings, NEW s \in ListingStatuses, s # "none",
               listings[l].status # "none", listings' = [listings EXCEPT ![l].status = s]
        PROVE  ListingOK'
    BY <2>3, SetListingStatus DEF Offering
  <2>4. ASSUME NEW l \in Listings, CancelListingWrite(l) PROVE ListingOK'
    BY <2>3, <2>4 DEF CancelListingWrite, Wired, ListingStatuses
  <2>5. ASSUME NEW t \in Trades, ReserveUnits(t) PROVE ListingOK'
    <3>1. trades[t].listing \in Listings /\ trades[t].units \in Int
          /\ listings[trades[t].listing].status # "none"
      BY <2>5, TradeFields DEF ReserveUnits, Goto, Wired
    <3>2. CASE listings' = [listings EXCEPT ![trades[t].listing].filled = @ + trades[t].units]
      BY <3>1, <3>2 DEF Offering, ListingDoc
    <3> QED
      BY <2>1, <2>5, <3>2 DEF ReserveUnits
  <2>6. ASSUME NEW t \in Trades, MarkFilled(t) \/ MarkPartiallyFilled(t) PROVE ListingOK'
    <3>1. /\ trades[t].listing \in Listings /\ listings[trades[t].listing].status # "none"
          /\ "filled" \in ListingStatuses /\ "partially_filled" \in ListingStatuses
      BY <2>6 DEF MarkFilled, MarkPartiallyFilled, Goto, Wired, ListingStatuses
    <3> QED
      BY <2>1, <2>3, <2>6, <3>1 DEF MarkFilled, MarkPartiallyFilled
  <2> QED
    BY <2>1, <2>2, <2>4, <2>5, <2>6, ListingWriters
<1> QED
  BY <1>1, <1>2 DEF Offering

-----------------------------------------------------------------------------
(* The visible phase of a trade is a function of where its handler is.     *)

PhaseAt(step, fee) ==
  IF step \in {"idle", "mark", "check", "afford", "reserve"} THEN "open"
  ELSE IF step = "refused" THEN "refused"
  ELSE IF step \in {"debit", "credit"} \/ (step = "fee" /\ fee > 0) THEN "sold"
  ELSE IF step \in {"fee", "transfer"} THEN "paid"
  ELSE IF step = "done" THEN "closed"
  ELSE "delivered"

PhasesFit == \A t \in Trades : VisiblePhase(t) = PhaseAt(pc[t], trades[t].fee)

LEMMA PhaseOfHandler == TypeOK /\ MoneyInv => PhasesFit
<1> SUFFICES ASSUME TypeOK, MoneyInv, NEW t \in Trades
             PROVE  VisiblePhase(t) = PhaseAt(pc[t], trades[t].fee)
  BY DEF PhasesFit
<1>1. WrittenSoFar(t) /\ pc[t] \in Steps /\ trades[t].fee \in Int
  BY TradeFields DEF MoneyInv, TypeOK
<1>2. CASE trades[t].status = "settled"
  BY <1>1, <1>2 DEF VisiblePhase, PhaseAt, WrittenSoFar, Unpaid, Undelivered, AfterReserve, Steps
<1>3. CASE trades[t].status # "settled" /\ t \in transferred
  BY <1>1, <1>3 DEF VisiblePhase, PhaseAt, WrittenSoFar, Unpaid, Undelivered, AfterReserve, Steps
<1>4. CASE trades[t].status # "settled" /\ t \notin transferred
  <2>1. CASE pc[t] \in {"debit", "credit", "fee", "transfer"}
    BY <1>1, <1>4, <2>1
       DEF VisiblePhase, PhaseAt, WrittenSoFar, Owed, Reasons, Unpaid, Undelivered, AfterReserve, Steps
  <2>2. CASE pc[t] \notin {"debit", "credit", "fee", "transfer"}
    BY <1>1, <1>4, <2>2
       DEF VisiblePhase, PhaseAt, WrittenSoFar, Unpaid, Undelivered, AfterReserve, Steps
  <2> QED
    BY <2>1, <2>2
<1> QED
  BY <1>2, <1>3, <1>4

-----------------------------------------------------------------------------
(* A step of a settling handler is seen as one phase change, or as none.   *)

Advances == {<<"open", "refused">>, <<"sold", "paid">>, <<"paid", "delivered">>,
             <<"delivered", "closed">>}

\* t goes through the phases in order, and leaves open for sold only with the
\* units it reserves.
Progress(t) ==
  LET a == PhaseAt(pc[t], trades[t].fee)
      b == PhaseAt(pc'[t], trades'[t].fee)
  IN \/ a = b
     \/ <<a, b>> \in Advances
     \/ /\ a = "open" /\ b = "sold"
        /\ ReserveUnits(t) /\ pc'[t] = "debit"

LEMMA TradeProgress == ASSUME TypeOK, Wired, NEW t \in Trades, TradeStep(t) PROVE Progress(t)
<1> USE DEF TypeOK, Goto, Return, PhaseAt, Progress, Advances
<1>1. ASSUME NEW l \in Listings, NEW i \in Investors, NEW u \in Sizes, BuyNow(t, l, i, u)
      PROVE  Progress(t)
  BY <1>1, TradeFields DEF BuyNow
<1>2. ASSUME NEW b \in Bids, AcceptBid(t, b)
      PROVE  Progress(t)
  BY <1>2, TradeFields DEF AcceptBid
<1>3. CASE MarkBidAccepted(t)
  BY <1>3, TradeFields DEF MarkBidAccepted
<1>4. CASE CheckListing(t)
  BY <1>4, TradeFields DEF CheckListing
<1>5. CASE CheckFunds(t)
  <2>1. CASE pc'[t] = "refused"
    BY <1>5, <2>1 DEF CheckFunds
  <2>2. CASE pc'[t] # "refused"
    BY <1>5, <2>2 DEF CheckFunds
  <2> QED
    BY <2>1, <2>2
<1>6. CASE ReserveUnits(t)
  <2>1. CASE pc'[t] = "refused"
    BY <1>6, <2>1 DEF ReserveUnits
  <2>2. CASE pc'[t] # "refused"
    BY <1>6, <2>2 DEF ReserveUnits
  <2> QED
    BY <2>1, <2>2
<1>7. CASE DebitBuyer(t)
  BY <1>7, TradeFields DEF DebitBuyer
<1>8. CASE CreditSeller(t)
  BY <1>8, TradeFields DEF CreditSeller
<1>9. CASE CreditFee(t)
  BY <1>9, TradeFields DEF CreditFee
<1>10. CASE InsertTransfer(t)
  BY <1>10, TradeFields DEF InsertTransfer
<1>11. CASE ReadSellerShares(t)
  BY <1>11, TradeFields DEF ReadSellerShares
<1>12. CASE ReadBuyerShares(t)
  BY <1>12, TradeFields DEF ReadBuyerShares
<1>13. CASE WriteSellerRow(t)
  BY <1>13, TradeFields DEF WriteSellerRow
<1>14. CASE WriteBuyerRow(t)
  BY <1>14, TradeFields DEF WriteBuyerRow
<1>15. CASE RecomputeWallets(t)
  BY <1>15, TradeFields DEF RecomputeWallets, ReadCash, SaveCash
<1>16. CASE WalletHookRaises(t)
  BY <1>16, TradeFields DEF WalletHookRaises
<1>17. CASE MarkFilled(t)
  BY <1>17, TradeFields DEF MarkFilled
<1>18. CASE MarkPartiallyFilled(t)
  BY <1>18, TradeFields DEF MarkPartiallyFilled
<1>19. CASE MarkSettled(t)
  <2>1. trades'[t].fee = trades[t].fee
    BY <1>19, SetTradeStatus DEF MarkSettled, TradeStatuses
  <2> QED
    BY <1>19, <2>1 DEF MarkSettled
<1>20. CASE Abort(t)
  BY <1>20, TradeFields DEF Abort
<1> QED
  BY <1>1, <1>2, <1>3, <1>4, <1>5, <1>6, <1>7, <1>8, <1>9, <1>10, <1>11, <1>12, <1>13, <1>14, <1>15, <1>16, <1>17, <1>18, <1>19, <1>20 DEF TradeStep, SettleStep

-----------------------------------------------------------------------------
(* What the mapping makes of a step.                                       *)

Offered == [l \in Listings |-> listings[l].units]
Sold == [l \in Listings |-> listings[l].filled]
Phase == [t \in Trades |-> VisiblePhase(t)]

\* Listings and bids come and go without touching any trade.
LEMMA QuietPhases ==
  ASSUME UNCHANGED <<trades, ledger, transferred, pc>>
  PROVE  Phase' = Phase
BY DEF Phase, VisiblePhase, Owed

LEMMA StatusOnly ==
  ASSUME TypeOK, NEW l \in Listings, NEW s \in ListingStatuses,
         listings' = [listings EXCEPT ![l].status = s]
  PROVE  Offered' = Offered /\ Sold' = Sold
BY SetListingStatus DEF TypeOK, Offered, Sold

\* A settling handler never changes what is offered, and only its successful
\* reservation changes what is sold.
LEMMA TradeOffers ==
  ASSUME TypeOK, Wired, NEW t \in Trades, TradeStep(t)
  PROVE  /\ Offered' = Offered
         /\ Sold' # Sold => ReserveUnits(t) /\ pc'[t] = "debit"
<1> USE DEF TypeOK, Offered, Sold
<1>1. CASE UNCHANGED listings
  BY <1>1
<1>2. CASE ReserveUnits(t)
  <2>1. trades[t].listing \in Listings /\ trades[t].units \in Int
    BY <1>2, TradeFields DEF ReserveUnits, Goto, Wired
  <2>2. CASE /\ Goto(t, "reserve", "debit")
             /\ listings' = [listings EXCEPT ![trades[t].listing].filled = @ + trades[t].units]
    BY <1>2, <2>1, <2>2 DEF ListingDoc, Goto
  <2> QED
    BY <1>1, <1>2, <2>2 DEF ReserveUnits
<1>3. CASE MarkFilled(t) \/ MarkPartiallyFilled(t)
  <2>1. trades[t].listing \in Listings
        /\ "filled" \in ListingStatuses /\ "partially_filled" \in ListingStatuses
    BY <1>3 DEF MarkFilled, MarkPartiallyFilled, Goto, Wired, ListingStatuses
  <2> QED
    BY <1>1, <1>3, <2>1, StatusOnly DEF MarkFilled, MarkPartiallyFilled
<1>4. CASE TradeStep(t) /\ ~ReserveUnits(t) /\ ~MarkFilled(t) /\ ~MarkPartiallyFilled(t)
  <2>1. UNCHANGED listings
    BY <1>4 DEF TradeStep, SettleStep, BuyNow, AcceptBid, MarkBidAccepted, CheckListing,
       CheckFunds, DebitBuyer, CreditSeller, CreditFee, InsertTransfer,
       ReadSellerShares, ReadBuyerShares, WriteSellerRow, WriteBuyerRow, RecomputeWallets,
       ReadCash, SaveCash, MarkSettled, WalletHookRaises, Abort
  <2> QED
    BY <1>1, <2>1
<1> QED
  BY <1>2, <1>3, <1>4

LEMMA StepImplements ==
  TypeInv /\ MoneyInv /\ Offering /\ [Next]_vars => [Promise!Next]_(Promise!pvars)
<1> SUFFICES ASSUME TypeInv, MoneyInv, Offering, [Next]_vars
             PROVE  [Promise!Next]_<<Offered, Sold, Phase>>
  BY DEF Promise!pvars, Offered, Sold, Phase
<1>1. TypeOK /\ Wired /\ TypeOK' /\ PhasesFit /\ PhasesFit'
  <2>1. TypeInv' /\ MoneyInv'
    BY StepTypeInv, StepMoneyInv
  <2>2. (TypeOK /\ MoneyInv => PhasesFit)'
    BY PhaseOfHandler, PTL
  <2> QED
    BY <2>1, <2>2, PhaseOfHandler DEF TypeInv
<1> USE <1>1
<1>2. CASE UNCHANGED vars
  <2>1. UNCHANGED <<listings, trades, ledger, transferred, pc>>
    BY <1>2 DEF vars, moneyVars
  <2> QED
    BY <2>1, QuietPhases DEF Offered, Sold
<1>3. ASSUME NEW b \in Bids, BidStep(b)
      PROVE  UNCHANGED <<Offered, Sold, Phase>>
  <2>1. UNCHANGED <<listings, trades, ledger, transferred, pc>>
    BY <1>3 DEF BidStep, PlaceBid, CancelBidRead, CancelBidWrite, RejectBid, AcceptRead, AcceptRefused, moneyVars
  <2> QED
    BY <2>1, QuietPhases DEF Offered, Sold
<1>4. ASSUME NEW l \in Listings, ListingStep(l)
      PROVE  [Promise!Next]_<<Offered, Sold, Phase>>
  <2>1. Phase' = Phase
    BY <1>4, QuietPhases DEF ListingStep, CreateListingRead, CreateListingCheck,
       CreateListingInsert, CancelListingRead, CancelListingWrite, moneyVars
  <2>2. CASE CreateListingInsert(l)
    <3>1. Offered[l] = 0 /\ Offered'[l] > 0 /\ Sold' = Sold
      BY <2>2 DEF CreateListingInsert, Offering, Wired, Offered, Sold, TypeOK, Draft
    <3>2. Offered' = [Offered EXCEPT ![l] = Offered'[l]]
      BY <2>2 DEF CreateListingInsert, Offered, TypeOK
    <3>3. Promise!Offer(l, Offered'[l])
      BY <2>1, <3>1, <3>2 DEF Promise!Offer, Offered, Sold, Phase
    <3> QED
      BY <3>3 DEF Promise!Next, Offered
  <2>3. CASE CancelListingWrite(l)
    <3>1. "cancelled" \in ListingStatuses
      BY DEF ListingStatuses
    <3> QED
      BY <2>1, <2>3, <3>1, StatusOnly DEF CancelListingWrite
  <2>4. CASE UNCHANGED listings
    BY <2>1, <2>4 DEF Offered, Sold
  <2> QED
    BY <1>4, <2>2, <2>3, <2>4
       DEF ListingStep, CreateListingRead, CreateListingCheck, CancelListingRead
<1>5. ASSUME NEW t \in Trades, TradeStep(t)
      PROVE  [Promise!Next]_<<Offered, Sold, Phase>>
  <2> DEFINE a == PhaseAt(pc[t], trades[t].fee)
             b == PhaseAt(pc'[t], trades'[t].fee)
  <2>1. Phase[t] = a /\ Phase' = [Phase EXCEPT ![t] = b]
    <3>1. \A x \in Trades : Phase[x] = PhaseAt(pc[x], trades[x].fee)
                            /\ Phase'[x] = PhaseAt(pc'[x], trades'[x].fee)
      BY DEF PhasesFit, Phase
    <3>2. \A x \in Trades \ {t} : pc'[x] = pc[x] /\ trades'[x].fee = trades[x].fee
      BY <1>5, OthersStay DEF SameTrade
    <3> QED
      BY <3>1, <3>2 DEF Phase
  <2>2. Offered' = Offered /\ (Sold' # Sold => ReserveUnits(t) /\ pc'[t] = "debit")
    BY <1>5, TradeOffers
  <2>3. Progress(t)
    BY <1>5, TradeProgress
  <2>4. CASE a = b /\ Sold' = Sold
    BY <2>1, <2>2, <2>4 DEF Phase
  <2>5. CASE <<a, b>> \in Advances /\ Sold' = Sold
    <3>1. Promise!Advance(t, a, b)
      BY <2>1, <2>2, <2>5 DEF Promise!Advance, Phase, Offered, Sold
    <3> QED
      BY <2>5, <3>1 DEF Promise!Next, Advances
  <2>6. CASE ReserveUnits(t) /\ pc'[t] = "debit"
    <3> DEFINE l == trades[t].listing
    <3>1. /\ pc[t] = "reserve" /\ a = "open" /\ b = "sold"
          /\ l \in Listings /\ listings[l].status # "none" /\ trades[t].units \in Int
          /\ Fits(l, trades[t].units)
          /\ listings' = [listings EXCEPT ![l].filled = @ + trades[t].units]
      BY <2>6, TradeFields DEF ReserveUnits, Goto, Wired, TypeOK, PhaseAt
    <3>2. Offered[l] > 0
      BY <3>1 DEF Offering, Offered
    <3>3. Sold[l] \in Int /\ Sold' = [Sold EXCEPT ![l] = @ + trades[t].units]
      BY <3>1 DEF Sold, TypeOK, ListingDoc
    <3>4. Sold'[l] - Sold[l] = trades[t].units
      BY <3>1, <3>3 DEF Sold
    <3>5. Sold[l] + trades[t].units <= Offered[l] + Tol
      BY <3>1 DEF Fits, Sold, Offered
    <3>6. Promise!Sell(t, l, trades[t].units)
      BY <2>1, <2>2, <3>1, <3>2, <3>3, <3>5 DEF Promise!Sell, Phase, Offered, Sold
    <3> QED
      BY <3>1, <3>4, <3>6 DEF Promise!Next, Promise!Sell, Sold
  <2> QED
    BY <2>2, <2>3, <2>4, <2>5, <2>6 DEF Progress
<1> QED
  BY <1>2, <1>3, <1>4, <1>5 DEF Next

\* Every interleaving of the handlers, crashes included, is one of atomic sales
\* that are paid for, delivered and closed in that order.
THEOREM MarketImplementsPromise == Spec => ImplementsTradePromise
<1>1. Init => Promise!Init
  <2> SUFFICES ASSUME Init PROVE Promise!Init
    OBVIOUS
  <2>1. \A t \in Trades : VisiblePhase(t) = "open"
    BY DEF Init, VisiblePhase, AfterReserve
  <2> QED
    BY <2>1 DEF Init, Promise!Init, NoListing
<1>2. Init => Offering
  BY InitOffering
<1> QED
  BY <1>1, <1>2, InitTypeInv, StepTypeInv, StepOffering, StepImplements, MoneyInvariant,
     PTL DEF Spec, ImplementsTradePromise

-----------------------------------------------------------------------------
(* How a handler moves.                                                    *)

SameSale(t) ==
  /\ trades'[t].listing = trades[t].listing
  /\ trades'[t].units = trades[t].units
  /\ trades'[t].gross = trades[t].gross
  /\ trades'[t].fee = trades[t].fee
  /\ trades'[t].buyer = trades[t].buyer
  /\ trades'[t].seller = trades[t].seller

\* A handler settles the sale it was created for, and leaves the reservation
\* behind for good.
Conduct(t) ==
  /\ pc[t] = "idle" => pc'[t] \in {"check", "mark"}
  /\ pc[t] # "idle" => pc'[t] # "idle" /\ SameSale(t)
  /\ pc[t] \in AfterReserve => pc'[t] \in AfterReserve
  /\ pc[t] \notin AfterReserve /\ pc'[t] \in AfterReserve
       => pc[t] = "reserve" /\ pc'[t] = "debit" /\ ReserveUnits(t)

LEMMA SetStatusKeepsSale ==
  ASSUME trades \in [Trades -> TradeDoc], NEW t \in Trades, NEW s,
         trades' = [trades EXCEPT ![t].status = s]
  PROVE  SameSale(t)
BY DEF SameSale, TradeDoc

LEMMA HandlerConduct == ASSUME TypeOK, Wired, NEW t \in Trades, TradeStep(t) PROVE Conduct(t)
<1> USE DEF TypeOK, Goto, Return, Conduct, AfterReserve, Steps
<1>1. ASSUME NEW l \in Listings, NEW i \in Investors, NEW u \in Sizes, BuyNow(t, l, i, u)
      PROVE  Conduct(t)
  BY <1>1 DEF BuyNow
<1>2. ASSUME NEW b \in Bids, AcceptBid(t, b)
      PROVE  Conduct(t)
  BY <1>2 DEF AcceptBid
<1>3. CASE MarkBidAccepted(t)
  BY <1>3 DEF MarkBidAccepted, SameSale
<1>4. CASE CheckListing(t)
  BY <1>4 DEF CheckListing, SameSale
<1>5. CASE CheckFunds(t)
  <2>1. CASE trades' = trades
    BY <1>5, <2>1 DEF CheckFunds, SameSale
  <2>2. CASE trades' = [trades EXCEPT ![t].status = "failed"]
                /\ pc[t] = "afford" /\ pc' = [pc EXCEPT ![t] = "refused"]
    BY <2>2, SetStatusKeepsSale
  <2> QED
    BY <1>5, <2>1, <2>2 DEF CheckFunds, Fail
<1>6. CASE ReserveUnits(t)
  <2>1. CASE trades' = trades
    BY <1>6, <2>1 DEF ReserveUnits, SameSale
  <2>2. CASE trades' = [trades EXCEPT ![t].status = "failed"]
                /\ pc[t] = "reserve" /\ pc' = [pc EXCEPT ![t] = "refused"]
    BY <2>2, SetStatusKeepsSale
  <2> QED
    BY <1>6, <2>1, <2>2 DEF ReserveUnits, Fail
<1>7. CASE DebitBuyer(t)
  BY <1>7 DEF DebitBuyer, SameSale
<1>8. CASE CreditSeller(t)
  BY <1>8 DEF CreditSeller, SameSale
<1>9. CASE CreditFee(t)
  BY <1>9 DEF CreditFee, SameSale
<1>10. CASE InsertTransfer(t)
  BY <1>10 DEF InsertTransfer, SameSale
<1>11. CASE ReadSellerShares(t)
  BY <1>11 DEF ReadSellerShares, SameSale
<1>12. CASE ReadBuyerShares(t)
  BY <1>12 DEF ReadBuyerShares, SameSale
<1>13. CASE WriteSellerRow(t)
  BY <1>13 DEF WriteSellerRow, SameSale
<1>14. CASE WriteBuyerRow(t)
  BY <1>14 DEF WriteBuyerRow, SameSale
<1>15. CASE RecomputeWallets(t)
  BY <1>15 DEF RecomputeWallets, ReadCash, SaveCash, SameSale
<1>16. CASE WalletHookRaises(t)
  BY <1>16 DEF WalletHookRaises, SameSale
<1>17. CASE MarkFilled(t)
  BY <1>17 DEF MarkFilled, SameSale
<1>18. CASE MarkPartiallyFilled(t)
  BY <1>18 DEF MarkPartiallyFilled, SameSale
<1>19. CASE MarkSettled(t)
  BY <1>19, SetStatusKeepsSale DEF MarkSettled
<1>20. CASE Abort(t)
  BY <1>20 DEF Abort, SameSale, Wired
<1> QED
  BY <1>1, <1>2, <1>3, <1>4, <1>5, <1>6, <1>7, <1>8, <1>9, <1>10, <1>11, <1>12, <1>13, <1>14, <1>15, <1>16, <1>17, <1>18, <1>19, <1>20 DEF TradeStep, SettleStep

LEMMA OtherTrades ==
  ASSUME TypeOK, NEW t \in Trades, TradeStep(t), NEW x \in Trades \ {t}
  PROVE  trades'[x] = trades[x] /\ pc'[x] = pc[x]
<1> USE DEF TypeOK, Goto
<1>1. CASE \E l \in Listings, i \in Investors, u \in Sizes : BuyNow(t, l, i, u)
  BY <1>1 DEF BuyNow
<1>2. CASE \E b \in Bids : AcceptBid(t, b)
  BY <1>2 DEF AcceptBid
<1>3. CASE CheckFunds(t) \/ ReserveUnits(t)
  BY <1>3 DEF CheckFunds, ReserveUnits, Fail
<1>4. CASE MarkSettled(t)
  BY <1>4 DEF MarkSettled
<1>5. CASE \/ MarkBidAccepted(t) \/ CheckListing(t) \/ DebitBuyer(t) \/ CreditSeller(t)
           \/ CreditFee(t) \/ InsertTransfer(t) \/ ReadSellerShares(t) \/ ReadBuyerShares(t)
           \/ WriteSellerRow(t) \/ WriteBuyerRow(t) \/ MarkFilled(t) \/ MarkPartiallyFilled(t)
           \/ WalletHookRaises(t) \/ Abort(t)
  BY <1>5 DEF MarkBidAccepted, CheckListing, DebitBuyer, CreditSeller, CreditFee, InsertTransfer,
     ReadSellerShares, ReadBuyerShares, WriteSellerRow, WriteBuyerRow, MarkFilled,
     MarkPartiallyFilled, WalletHookRaises, Abort
<1>6. CASE RecomputeWallets(t)
  BY <1>6 DEF RecomputeWallets, ReadCash, SaveCash
<1> QED
  BY <1>1, <1>2, <1>3, <1>4, <1>5, <1>6 DEF TradeStep, SettleStep

-----------------------------------------------------------------------------
(* The reservations.                                                       *)

UnitsOf == [t \in Trades |-> trades[t].units]
HoldersOf(l) == {t \in Trades : pc[t] \in AfterReserve /\ trades[t].listing = l}
Accounted(l) == listings[l].filled = SumOver(UnitsOf, HoldersOf(l))

Accounts == \A l \in Listings : Accounted(l)

LEMMA AccountedFor == Accounts => ReservationAccounting
BY DEF Accounts, ReservationAccounting, Accounted, HoldersOf, UnitsOf, SumOver

LEMMA SameHoldings ==
  ASSUME TypeOK, NEW l \in Listings, Accounted(l), HoldersOf(l)' = HoldersOf(l),
         \A t \in HoldersOf(l) : trades'[t].units = trades[t].units,
         listings'[l].filled = listings[l].filled
  PROVE  Accounted(l)'
<1>1. IsFiniteSet(HoldersOf(l)) /\ HoldersOf(l) \subseteq Trades
  BY FiniteMarket, FS_Subset DEF HoldersOf
<1>2. \A t \in HoldersOf(l) : UnitsOf'[t] = UnitsOf[t]
  BY <1>1 DEF UnitsOf
<1>3. SumOver(UnitsOf', HoldersOf(l)) = SumOver(UnitsOf, HoldersOf(l))
  BY <1>1, <1>2, SumAgree
<1> QED
  BY <1>3 DEF Accounted

LEMMA StepReservations == TypeInv /\ Accounts /\ [Next]_vars => Accounts'
<1> SUFFICES ASSUME TypeOK, Wired, \A x \in Listings : Accounted(x), [Next]_vars,
                    NEW l \in Listings
             PROVE  Accounted(l)'
  BY DEF Accounts, TypeInv
<1>1. ASSUME UNCHANGED <<pc, trades>>, listings'[l].filled = listings[l].filled
      PROVE  Accounted(l)'
  BY <1>1, SameHoldings DEF HoldersOf
<1>2. ASSUME NEW x \in Listings, ListingStep(x) PROVE Accounted(l)'
  <2>1. UNCHANGED <<pc, trades>>
    BY <1>2 DEF ListingStep, CreateListingRead, CreateListingCheck, CreateListingInsert,
       CancelListingRead, CancelListingWrite
  <2>2. CASE listings'[l].filled = listings[l].filled
    BY <1>1, <2>1, <2>2
  <2>3. CASE ~CreateListingInsert(x)
    <3>1. CASE UNCHANGED listings
      BY <2>2, <3>1
    <3>2. CASE CancelListingWrite(x)
      <4>1. "cancelled" \in ListingStatuses
        BY DEF ListingStatuses
      <4>2. listings'[l].filled = listings[l].filled
        BY <3>2, <4>1, SetListingStatus DEF CancelListingWrite, TypeOK
      <4> QED
        BY <2>2, <4>2
    <3> QED
      BY <1>2, <2>3, <3>1, <3>2
      DEF ListingStep, CreateListingRead, CreateListingCheck, CancelListingRead
  <2>4. CASE CreateListingInsert(x) /\ x # l
    BY <2>2, <2>4 DEF CreateListingInsert, TypeOK
  <2>5. CASE CreateListingInsert(x) /\ x = l
    <3>1. creating[l].step = "checked" /\ listings'[l].filled = 0
      BY <2>5 DEF CreateListingInsert, TypeOK
    <3>2. HoldersOf(l) = {}
      BY <3>1 DEF Wired, HoldersOf, AfterReserve
    <3>3. HoldersOf(l)' = {}
      BY <2>1, <3>2 DEF HoldersOf
    <3>4. SumOver(UnitsOf', {}) = 0
      BY SumEmpty
    <3> QED
      BY <3>1, <3>3, <3>4 DEF Accounted
  <2> QED
    BY <2>3, <2>4, <2>5
<1>3. ASSUME NEW b \in Bids, BidStep(b) PROVE Accounted(l)'
  BY <1>1, <1>3 DEF BidStep, PlaceBid, CancelBidRead, CancelBidWrite, RejectBid, AcceptRead, AcceptRefused
<1>4. ASSUME NEW t \in Trades, TradeStep(t) PROVE Accounted(l)'
  <2>1. Conduct(t) /\ \A x \in Trades \ {t} : trades'[x] = trades[x] /\ pc'[x] = pc[x]
    BY <1>4, HandlerConduct, OtherTrades
  <2>2. Sold' # Sold => ReserveUnits(t) /\ pc'[t] = "debit"
    BY <1>4, TradeOffers
  <2>3. CASE ~(pc[t] = "reserve" /\ pc'[t] = "debit")
    <3>1. pc'[t] \in AfterReserve <=> pc[t] \in AfterReserve
      BY <2>1, <2>3 DEF Conduct
    <3>2. pc[t] \in AfterReserve => SameSale(t)
      BY <2>1 DEF Conduct, AfterReserve
    <3>3. HoldersOf(l)' = HoldersOf(l) /\ \A x \in HoldersOf(l) : trades'[x].units = trades[x].units
      BY <2>1, <3>1, <3>2 DEF HoldersOf, SameSale
    <3>4. listings'[l].filled = listings[l].filled
      <4>1. Sold' = Sold
        BY <2>2, <2>3 DEF ReserveUnits, Goto
      <4> QED
        BY <4>1 DEF Sold
    <3> QED
      BY <3>3, <3>4, SameHoldings
  <2>4. CASE pc[t] = "reserve" /\ pc'[t] = "debit"
    <3>1. ReserveUnits(t) /\ SameSale(t)
      BY <2>1, <2>4 DEF Conduct, AfterReserve, Steps
    <3>2. /\ trades[t].listing \in Listings /\ trades[t].units \in Int
          /\ listings' = [listings EXCEPT ![trades[t].listing].filled = @ + trades[t].units]
      BY <2>4, <3>1, TradeFields DEF ReserveUnits, Goto, Wired, TypeOK
    <3>3. t \notin HoldersOf(l)
      BY <2>4 DEF HoldersOf, AfterReserve
    <3>4. CASE trades[t].listing = l
      <4>1. HoldersOf(l)' = HoldersOf(l) \cup {t}
        BY <2>1, <2>4, <3>1, <3>4 DEF HoldersOf, SameSale, AfterReserve, Steps
      <4>2. IsFiniteSet(HoldersOf(l)) /\ HoldersOf(l) \subseteq Trades
        BY FiniteMarket, FS_Subset DEF HoldersOf
      <4>3. \A x \in Trades : UnitsOf[x] \in Int /\ UnitsOf'[x] = UnitsOf[x]
        BY <2>1, <3>1, TradeFields DEF UnitsOf, SameSale
      <4>4. SumOver(UnitsOf', HoldersOf(l) \cup {t}) = trades[t].units + SumOver(UnitsOf', HoldersOf(l))
        <5>1. \A x \in HoldersOf(l) \cup {t} : UnitsOf'[x] \in Int
          BY <4>2, <4>3
        <5>2. UnitsOf'[t] = trades[t].units
          BY <4>3 DEF UnitsOf
        <5> QED
          BY <3>3, <4>2, <5>1, <5>2, SumAdd
      <4>5. SumOver(UnitsOf', HoldersOf(l)) = SumOver(UnitsOf, HoldersOf(l))
        BY <4>2, <4>3, SumAgree
      <4>6. listings'[l].filled = listings[l].filled + trades[t].units
        BY <3>2, <3>4 DEF TypeOK, ListingDoc
      <4>7. listings[l].filled = SumOver(UnitsOf, HoldersOf(l)) /\ listings[l].filled \in Int
        BY DEF Accounted, TypeOK, ListingDoc
      <4>8. listings'[l].filled = SumOver(UnitsOf', HoldersOf(l)')
        BY <3>2, <4>1, <4>4, <4>5, <4>6, <4>7
      <4> QED
        BY <4>8 DEF Accounted
    <3>5. CASE trades[t].listing # l
      <4>1. HoldersOf(l)' = HoldersOf(l) /\ \A x \in HoldersOf(l) : trades'[x].units = trades[x].units
        BY <2>1, <3>1, <3>3, <3>5 DEF HoldersOf, SameSale
      <4>2. listings'[l].filled = listings[l].filled
        BY <3>2, <3>5 DEF TypeOK
      <4> QED
        BY <4>1, <4>2, SameHoldings
    <3> QED
      BY <3>4, <3>5
  <2> QED
    BY <2>3, <2>4
<1>5. CASE UNCHANGED vars
  BY <1>1, <1>5 DEF vars
<1> QED
  BY <1>2, <1>3, <1>4, <1>5 DEF Next

\* No reservation is lost, doubled or charged to another listing, whatever
\* races and whatever dies: the oversell guard counts what it should.
THEOREM ReservationsAddUp == Spec => []ReservationAccounting
<1>1. Init => Accounts
  <2> SUFFICES ASSUME Init, NEW l \in Listings PROVE Accounted(l)
    BY DEF Accounts
  <2>1. HoldersOf(l) = {}
    BY DEF Init, HoldersOf, AfterReserve
  <2> QED
    BY <2>1, SumEmpty DEF Init, Accounted, NoListing
<1> QED
  BY <1>1, AccountedFor, InitTypeInv, StepTypeInv, StepReservations, PTL DEF Spec

-----------------------------------------------------------------------------
(* The money.                                                              *)

\* What has left the buyer of t and reached nobody yet.
Transit(t) ==
  IF ledger[t] = {"secondary_purchase"} THEN trades[t].gross
  ELSE IF ledger[t] = {"secondary_purchase", "secondary_sale"} THEN trades[t].fee
  ELSE 0

Everyone == Investors \cup {Platform}
InTransit == [t \in Trades |-> Transit(t)]

\* Only a positive amount is ever debited, and the fee is the fee of the amount.
Priced(t) ==
  /\ ledger[t] # {} => trades[t].gross > 0
  /\ trades[t].fee = Fee(trades[t].gross)

\* What the accounts hold and what is on its way is what there was.
BooksClose ==
  /\ \A t \in Trades : Priced(t)
  /\ SumOver(cash, Everyone) = SumOver(Cash, Investors) - SumOver(InTransit, Trades)

LEMMA FeeNotNegative == ASSUME NEW g \in Nat PROVE Fee(g) >= 0
<1>1. g * FeeNum \in Nat
  BY MarketConstants
<1> QED
  BY <1>1, MarketConstants DEF Fee

LEMMA NoFeeOnNothing == Fee(0) = 0
BY MarketConstants DEF Fee

LEMMA EveryoneIsFinite == IsFiniteSet(Everyone) /\ IsFiniteSet(Investors) /\ IsFiniteSet(Trades)
BY FiniteMarket, FS_AddElement DEF Everyone

LEMMA TransitIsInt == ASSUME TypeOK PROVE \A t \in Trades : InTransit[t] \in Int
BY TradeFields DEF InTransit, Transit

LEMMA InitBooksClose == Init => BooksClose
<1> SUFFICES ASSUME Init PROVE BooksClose
  OBVIOUS
<1>1. \A t \in Trades : Priced(t)
  BY NoFeeOnNothing DEF Init, Priced
<1>2. SumOver(InTransit, Trades) = 0
  <2>1. \A t \in Trades : InTransit[t] = 0
    BY DEF Init, InTransit, Transit
  <2> QED
    BY <2>1, EveryoneIsFinite, SumZero
<1>3. SumOver(cash, Everyone) = SumOver(Cash, Investors)
  <2>1. \A i \in Investors : cash[i] = Cash[i] /\ Cash[i] \in Int
    BY MarketConstants DEF Init
  <2>2. cash[Platform] = 0 /\ Platform \notin Investors
    BY MarketConstants DEF Init
  <2>3. SumOver(cash, Everyone) = cash[Platform] + SumOver(cash, Investors)
    BY <2>1, <2>2, EveryoneIsFinite, SumAdd DEF Everyone
  <2>4. SumOver(cash, Investors) = SumOver(Cash, Investors) /\ SumOver(Cash, Investors) \in Int
    BY <2>1, EveryoneIsFinite, SumAgree, SumType
  <2> QED
    BY <2>2, <2>3, <2>4
<1>4. SumOver(Cash, Investors) \in Int
  BY MarketConstants, EveryoneIsFinite, SumType
<1> QED
  BY <1>1, <1>2, <1>3, <1>4 DEF BooksClose

\* A ledger entry moves money between an account and the trade it is for.
LEMMA EntryMovesMoney ==
  ASSUME TypeOK, BooksClose, NEW t \in Trades, NEW a \in Everyone, NEW n \in Int,
         cash' = [cash EXCEPT ![a] = @ + n],
         Transit(t)' = Transit(t) - n, Transit(t)' \in Int,
         \A x \in Trades \ {t} : Transit(x)' = Transit(x),
         \A x \in Trades : Priced(x)'
  PROVE  BooksClose'
<1>1. SumOver(cash', Everyone) = SumOver(cash, Everyone) - cash[a] + cash'[a]
  <2>1. \A x \in Everyone : cash[x] \in Int /\ cash'[x] \in Int
    BY DEF TypeOK, Everyone
  <2>2. \A x \in Everyone \ {a} : cash'[x] = cash[x]
    BY DEF TypeOK, Everyone
  <2> QED
    <3>1. PICK f : f = cash
      OBVIOUS
    <3>2. PICK g : g = cash'
      OBVIOUS
    <3>3. /\ \A x \in Everyone : f[x] \in Int /\ g[x] \in Int
          /\ \A x \in Everyone \ {a} : g[x] = f[x]
      BY <2>1, <2>2, <3>1, <3>2
    <3>4. SumOver(g, Everyone) = SumOver(f, Everyone) - f[a] + g[a]
      BY <3>3, EveryoneIsFinite, SumChange
    <3> QED
      BY <3>1, <3>2, <3>4
<1>2. cash'[a] = cash[a] + n /\ cash[a] \in Int
  BY DEF TypeOK, Everyone
<1>3. SumOver(InTransit', Trades) = SumOver(InTransit, Trades) - Transit(t) + Transit(t)'
  <2>1. \A x \in Trades : InTransit[x] \in Int /\ InTransit'[x] \in Int
    BY TransitIsInt DEF InTransit
  <2>2. \A x \in Trades \ {t} : InTransit'[x] = InTransit[x]
    BY DEF InTransit
  <2>3. InTransit[t] = Transit(t) /\ InTransit'[t] = Transit(t)'
    BY DEF InTransit
  <2> QED
    BY <2>1, <2>2, <2>3, EveryoneIsFinite, SumChange
<1>4. /\ SumOver(cash, Everyone) \in Int /\ SumOver(InTransit, Trades) \in Int
      /\ SumOver(Cash, Investors) \in Int /\ Transit(t) \in Int
  <2>1. \A x \in Everyone : cash[x] \in Int
    BY DEF TypeOK, Everyone
  <2>2. \A i \in Investors : Cash[i] \in Int
    BY MarketConstants
  <2>3. Transit(t) \in Int
    BY TransitIsInt DEF InTransit
  <2> QED
    BY <2>1, <2>2, <2>3, TransitIsInt, EveryoneIsFinite, SumType
<1>5. SumOver(cash, Everyone) = SumOver(Cash, Investors) - SumOver(InTransit, Trades)
  BY DEF BooksClose
<1>6. SumOver(cash', Everyone) = SumOver(Cash, Investors) - SumOver(InTransit', Trades)
  BY <1>1, <1>2, <1>3, <1>4, <1>5
<1> QED
  BY <1>6 DEF BooksClose, Everyone

LEMMA NothingMoves ==
  ASSUME BooksClose, cash' = cash, \A x \in Trades : Transit(x)' = Transit(x) /\ Priced(x)'
  PROVE  BooksClose'
<1>1. InTransit' = InTransit
  BY DEF InTransit
<1> QED
  BY <1>1 DEF BooksClose, Everyone

\* A step of a handler that writes no ledger entry.
LEMMA NoEntry ==
  ASSUME TypeOK, Wired, MoneyInv, BooksClose, NEW t \in Trades, TradeStep(t),
         UNCHANGED <<cash, ledger>>
  PROVE  BooksClose'
<1>1. Conduct(t) /\ \A x \in Trades \ {t} : trades'[x] = trades[x] /\ pc'[x] = pc[x]
  BY HandlerConduct, OtherTrades
<1>2. \A x \in Trades \ {t} : Transit(x)' = Transit(x) /\ Priced(x)'
  BY <1>1 DEF BooksClose, Transit, Priced, Fee
<1>3. CASE pc[t] # "idle"
  <2>1. SameSale(t)
    BY <1>1, <1>3 DEF Conduct
  <2>2. Transit(t)' = Transit(t) /\ Priced(t)'
    BY <2>1 DEF SameSale, BooksClose, Transit, Priced, Fee
  <2> QED
    BY <1>2, <2>2, NothingMoves
<1>4. CASE pc[t] = "idle"
  <2>1. ledger[t] = {}
    BY <1>4 DEF MoneyInv, WrittenSoFar, Unpaid
  <2>2. trades'[t].fee = Fee(trades'[t].gross)
    <3>1. CASE \E l \in Listings, i \in Investors, u \in Sizes : BuyNow(t, l, i, u)
      BY <3>1 DEF BuyNow, NewTrade, TypeOK
    <3>2. CASE \E b \in Bids : AcceptBid(t, b)
      BY <3>2 DEF AcceptBid, NewTrade, TypeOK
    <3>3. CASE SettleStep(t) \/ WalletHookRaises(t)
      BY <1>4, <3>3 DEF SettleStep, MarkBidAccepted, CheckListing, CheckFunds, ReserveUnits,
         DebitBuyer, CreditSeller, CreditFee, InsertTransfer, ReadSellerShares, ReadBuyerShares,
         WriteSellerRow, WriteBuyerRow, RecomputeWallets, ReadCash, SaveCash, MarkFilled,
         MarkPartiallyFilled, MarkSettled, WalletHookRaises, Goto
    <3>4. CASE Abort(t)
      BY <1>4, <3>4 DEF Abort, Wired
    <3> QED
      BY <3>1, <3>2, <3>3, <3>4 DEF TradeStep
  <2>3. Transit(t)' = Transit(t)
    BY <2>1 DEF Transit
  <2>4. Priced(t)'
    BY <2>1, <2>2 DEF Priced, Fee
  <2> QED
    BY <1>2, <2>3, <2>4, NothingMoves
<1> QED
  BY <1>3, <1>4

LEMMA StepBooksClose == TypeInv /\ MoneyInv /\ BooksClose /\ [Next]_vars => BooksClose'
<1> SUFFICES ASSUME TypeOK, Wired, MoneyInv, BooksClose, [Next]_vars PROVE BooksClose'
  BY DEF TypeInv
<1>1. CASE UNCHANGED <<cash, ledger, trades>>
  BY <1>1, NothingMoves DEF BooksClose, Priced, Transit, Fee
<1>2. CASE UNCHANGED vars
  BY <1>1, <1>2 DEF vars, moneyVars
<1>3. ASSUME NEW x \in Listings, ListingStep(x) PROVE BooksClose'
  BY <1>1, <1>3 DEF ListingStep, CreateListingRead, CreateListingCheck, CreateListingInsert,
     CancelListingRead, CancelListingWrite, moneyVars
<1>4. ASSUME NEW b \in Bids, BidStep(b) PROVE BooksClose'
  BY <1>1, <1>4 DEF BidStep, PlaceBid, CancelBidRead, CancelBidWrite, RejectBid, AcceptRead, AcceptRefused, moneyVars
<1>5. ASSUME NEW t \in Trades, TradeStep(t) PROVE BooksClose'
  <2> USE <1>5
  <2>1. /\ Conduct(t)
        /\ \A x \in Trades \ {t} : trades'[x] = trades[x] /\ ledger'[x] = ledger[x]
    BY HandlerConduct, OtherTrades, OthersStay DEF SameTrade
  <2>2. \A x \in Trades \ {t} : Transit(x)' = Transit(x) /\ Priced(x)'
    BY <2>1 DEF BooksClose, Transit, Priced, Fee
  <2>3. CASE UNCHANGED <<cash, ledger>>
    BY <2>3, NoEntry
  <2>4. ASSUME pc[t] # "idle" PROVE trades'[t].gross = trades[t].gross /\ trades'[t].fee = trades[t].fee
    BY <2>1, <2>4 DEF Conduct, SameSale
  <2>5. trades[t].gross \in Int /\ trades[t].fee \in Int /\ Priced(t) /\ WrittenSoFar(t)
    BY TradeFields DEF BooksClose, MoneyInv
  <2>6. CASE DebitBuyer(t)
    <3>1. CASE UNCHANGED <<cash, ledger>>
      BY <2>3, <3>1
    <3>2. CASE trades[t].gross > 0 /\ Goto(t, "debit", "credit")
               /\ Append(t, "secondary_purchase", trades[t].buyer, -trades[t].gross)
      <4>1. ledger[t] = {} /\ trades[t].buyer \in Everyone /\ pc[t] # "idle"
        BY <2>5, <3>2 DEF WrittenSoFar, Unpaid, Goto, Wired, Everyone
      <4>2. ledger'[t] = {"secondary_purchase"}
        BY <3>2, <4>1 DEF Append, TypeOK
      <4>3. Transit(t) = 0 /\ Transit(t)' = trades[t].gross
        BY <2>4, <4>1, <4>2 DEF Transit
      <4>4. Priced(t)'
        BY <2>4, <2>5, <3>2, <4>1 DEF Priced, Fee
      <4>5. cash' = [cash EXCEPT ![trades[t].buyer] = @ + (-trades[t].gross)]
        BY <3>2 DEF Append
      <4> QED
        <5>1. -trades[t].gross \in Int /\ Transit(t)' = Transit(t) - (-trades[t].gross)
          BY <2>5, <4>3
        <5>2. (\A x \in Trades : Priced(x)') /\ Transit(t)' \in Int
          BY <2>2, <2>5, <4>3, <4>4
        <5> QED
          BY <2>2, <4>1, <4>5, <5>1, <5>2, EntryMovesMoney
    <3> QED
      BY <2>6, <3>1, <3>2 DEF DebitBuyer, moneyVars
  <2>7. CASE CreditSeller(t)
    <3>1. /\ ledger[t] = {"secondary_purchase"} /\ trades[t].seller \in Everyone
          /\ pc[t] # "idle"
          /\ Append(t, "secondary_sale", trades[t].seller, trades[t].gross - trades[t].fee)
      BY <2>5, <2>7 DEF CreditSeller, WrittenSoFar, Goto, Wired, Everyone
    <3>2. ledger'[t] = {"secondary_purchase", "secondary_sale"}
      BY <3>1 DEF Append, TypeOK
    <3>3. Transit(t) = trades[t].gross /\ Transit(t)' = trades[t].fee
      BY <2>4, <3>1, <3>2 DEF Transit
    <3>4. Priced(t)'
      BY <2>4, <2>5, <3>1 DEF Priced, Fee
    <3>5. cash' = [cash EXCEPT ![trades[t].seller] = @ + (trades[t].gross - trades[t].fee)]
      BY <3>1 DEF Append
    <3>6. Transit(t)' = Transit(t) - (trades[t].gross - trades[t].fee)
      BY <2>5, <3>3
    <3> QED
      <4>1. trades[t].gross - trades[t].fee \in Int
        BY <2>5
      <4>2. (\A x \in Trades : Priced(x)') /\ Transit(t)' \in Int
        BY <2>2, <2>5, <3>3, <3>4
      <4> QED
        BY <2>2, <3>1, <3>5, <3>6, <4>1, <4>2, EntryMovesMoney
  <2>8. CASE CreditFee(t)
    <3>1. CASE UNCHANGED <<cash, ledger>>
      BY <2>3, <3>1
    <3>2. CASE trades[t].fee > 0 /\ Goto(t, "fee", "transfer")
               /\ Append(t, "platform_fee", Platform, trades[t].fee)
      <4>1. /\ ledger[t] = {"secondary_purchase", "secondary_sale"} /\ Platform \in Everyone
            /\ pc[t] # "idle"
        BY <2>5, <3>2 DEF WrittenSoFar, Goto, Everyone
      <4>2. ledger'[t] = {"secondary_purchase", "secondary_sale", "platform_fee"}
        BY <3>2, <4>1 DEF Append, TypeOK
      <4>3. Transit(t) = trades[t].fee /\ Transit(t)' = 0
        BY <2>4, <4>1, <4>2 DEF Transit
      <4>4. Priced(t)'
        BY <2>4, <2>5, <3>2, <4>1 DEF Priced, Fee
      <4>5. cash' = [cash EXCEPT ![Platform] = @ + trades[t].fee]
        BY <3>2 DEF Append
      <4>6. Transit(t)' = Transit(t) - trades[t].fee
        BY <2>5, <4>3
      <4> QED
        <5>1. (\A x \in Trades : Priced(x)') /\ Transit(t)' \in Int
          BY <2>2, <4>3, <4>4
        <5> QED
          BY <2>2, <2>5, <4>1, <4>5, <4>6, <5>1, EntryMovesMoney
    <3> QED
      BY <2>8, <3>1, <3>2 DEF CreditFee, moneyVars
  <2>9. CASE ~DebitBuyer(t) /\ ~CreditSeller(t) /\ ~CreditFee(t)
    <3>1. UNCHANGED <<cash, ledger>>
      BY <2>9 DEF TradeStep, SettleStep, BuyNow, AcceptBid, MarkBidAccepted, CheckListing,
         CheckFunds, ReserveUnits, InsertTransfer, ReadSellerShares, ReadBuyerShares,
         WriteSellerRow, WriteBuyerRow, RecomputeWallets, ReadCash, SaveCash, MarkFilled,
         MarkPartiallyFilled, MarkSettled, WalletHookRaises, Abort, moneyVars
    <3> QED
      BY <2>3, <3>1
  <2> QED
    BY <2>6, <2>7, <2>8, <2>9
<1> QED
  BY <1>2, <1>3, <1>4, <1>5 DEF Next

\* Over all accounts the ledger never holds more than at the start, and exactly
\* that whenever no trade is half paid: no interleaving and no crash mints money.
THEOREM MarketMoneyIsConserved == Spec => []MoneyIsConserved
<1>1. TypeOK /\ BooksClose => MoneyIsConserved
  <2> SUFFICES ASSUME TypeOK, BooksClose PROVE MoneyIsConserved
    OBVIOUS
  <2>1. \A t \in Trades : InTransit[t] \in Nat
    <3> SUFFICES ASSUME NEW t \in Trades PROVE Transit(t) \in Nat
      BY DEF InTransit
    <3>1. trades[t].gross \in Int /\ trades[t].fee \in Int /\ Priced(t)
      BY TradeFields DEF BooksClose
    <3>2. ledger[t] # {} => trades[t].gross \in Nat /\ trades[t].fee \in Nat
      BY <3>1, FeeNotNegative DEF Priced
    <3> QED
      BY <3>2 DEF Transit
  <2>2. SumOver(InTransit, Trades) \in Nat
    BY <2>1, EveryoneIsFinite, SumNatural
  <2>3. SumOver(Cash, Investors) \in Int
    BY MarketConstants, EveryoneIsFinite, SumType
  <2>4. SumOver(cash, Everyone) = SumOver(Cash, Investors) - SumOver(InTransit, Trades)
    BY DEF BooksClose
  <2>5. SumOver(cash, Everyone) <= SumOver(Cash, Investors)
    BY <2>2, <2>3, <2>4
  <2>6. ASSUME \A t \in Trades : ledger[t] \in {{}, Owed(t)}
        PROVE  SumOver(cash, Everyone) = SumOver(Cash, Investors)
    <3>1. ASSUME NEW t \in Trades PROVE InTransit[t] = 0
      <4>1. trades[t].fee \in Int /\ ledger[t] \in {{}, Owed(t)} /\ Transit(t) \in Nat
        BY <2>1, <2>6, TradeFields DEF InTransit
      <4>2. CASE ledger[t] = {}
        BY <4>2 DEF InTransit, Transit
      <4>3. CASE ledger[t] = Owed(t) /\ trades[t].fee > 0
        BY <4>3 DEF InTransit, Transit, Owed, Reasons
      <4>4. CASE ledger[t] = Owed(t) /\ ~(trades[t].fee > 0)
        <5>1. ledger[t] = {"secondary_purchase", "secondary_sale"}
          BY <4>4 DEF Owed, Reasons
        <5>2. Transit(t) = trades[t].fee
          BY <5>1 DEF Transit
        <5> QED
          BY <4>1, <4>4, <5>2 DEF InTransit
      <4> QED
        BY <4>1, <4>2, <4>3, <4>4
    <3>2. SumOver(InTransit, Trades) = 0
      BY <3>1, EveryoneIsFinite, SumZero
    <3> QED
      BY <2>3, <2>4, <3>2
  <2> QED
    BY <2>5, <2>6 DEF MoneyIsConserved, SumOver, Everyone
<1> QED
  BY <1>1, InitBooksClose, StepBooksClose, InitTypeInv, StepTypeInv, MoneyInvariant, TypeCorrect,
     PTL DEF Spec

-----------------------------------------------------------------------------
(* The status of a listing.                                                *)

ToFill == {"debit", "credit", "fee", "transfer", "readSeller", "readBuyer", "writeSeller",
           "writeBuyer", "readBuyerCash", "saveBuyerCash", "readSellerCash",
           "saveSellerCash", "fill"}
ToPartial == ToFill \cup {"partial"}

\* No handler dies, and no listing is ever filled beyond its units and then
\* offered for less than nothing to a bid: with a tolerance and offers a trade
\* over a negative rest takes units back, and the status would not follow.
Orderly == ~AllowAbort /\ (Tol = 0 \/ Bids = {})

\* Sales are of something, or of nothing at all; a sale of nothing raises at
\* its debit.
SalesFit ==
  /\ \A l \in Listings : listings[l].filled >= 0
  /\ \A b \in Bids : bids[b].status # "none" => bids[b].units > 0
  /\ \A t \in Trades : pc[t] # "idle" =>
       trades[t].units >= 0 /\ (trades[t].units > 0 <=> trades[t].gross > 0)
  /\ \A t \in Trades : pc[t] \in AfterReserve \ {"debit"} => trades[t].units > 0
  /\ \A t \in Trades : pc[t] \in AfterReserve /\ trades[t].units > 0
       => listings[trades[t].listing].filled > 0

\* A sale on l whose handler has yet to write the status.
Coming(l, steps) ==
  \E t \in alive : trades[t].listing = l /\ trades[t].units > 0 /\ pc[t] \in steps

\* Whatever the status does not say yet, a handler under way will write.
StatusFollows(l) ==
  /\ listings[l].status = "active" /\ listings[l].filled > 0 => Coming(l, ToPartial)
  /\ Open(l) /\ listings[l].filled > 0 /\ FullySold(l) => Coming(l, ToFill)
  /\ listings[l].status = "filled" => FullySold(l)
  /\ listings[l].status = "partially_filled" => listings[l].filled > 0

StatusInv == SalesFit /\ \A l \in Listings : StatusFollows(l)

\* What a step of a handler that cannot die does to the way of a real sale.
Path(t) ==
  /\ pc[t] \in ToFill \ {"fill"} /\ t \in alive /\ trades[t].units > 0
       => pc'[t] \in ToFill /\ t \in alive'
  /\ pc[t] = "fill" /\ t \in alive => MarkFilled(t)
  /\ pc[t] = "partial" /\ t \in alive => MarkPartiallyFilled(t)
  /\ alive \ {t} \subseteq alive'

LEMMA HandlerPath ==
  ASSUME TypeOK, Wired, SalesFit, ~AllowAbort, NEW t \in Trades, TradeStep(t)
  PROVE  Path(t)
<1> USE DEF TypeOK, Goto, Return, Path, ToFill
<1>1. ASSUME NEW l \in Listings, NEW i \in Investors, NEW u \in Sizes, BuyNow(t, l, i, u)
      PROVE  Path(t)
  BY <1>1 DEF BuyNow
<1>2. ASSUME NEW b \in Bids, AcceptBid(t, b)
      PROVE  Path(t)
  BY <1>2 DEF AcceptBid
<1>3. CASE MarkBidAccepted(t)
  BY <1>3 DEF MarkBidAccepted
<1>4. CASE CheckListing(t)
  BY <1>4 DEF CheckListing
<1>5. CASE CheckFunds(t)
  BY <1>5 DEF CheckFunds
<1>6. CASE ReserveUnits(t)
  BY <1>6 DEF ReserveUnits
<1>7. CASE CreditSeller(t)
  BY <1>7 DEF CreditSeller
<1>8. CASE CreditFee(t)
  BY <1>8 DEF CreditFee
<1>9. CASE InsertTransfer(t)
  BY <1>9 DEF InsertTransfer
<1>10. CASE ReadSellerShares(t)
  BY <1>10 DEF ReadSellerShares
<1>11. CASE ReadBuyerShares(t)
  BY <1>11 DEF ReadBuyerShares
<1>12. CASE WriteSellerRow(t)
  BY <1>12 DEF WriteSellerRow
<1>13. CASE WriteBuyerRow(t)
  BY <1>13 DEF WriteBuyerRow
<1>14. CASE RecomputeWallets(t)
  BY <1>14 DEF RecomputeWallets, ReadCash, SaveCash
<1>15. CASE MarkFilled(t)
  BY <1>15 DEF MarkFilled
<1>16. CASE MarkPartiallyFilled(t)
  BY <1>16 DEF MarkPartiallyFilled
<1>17. CASE MarkSettled(t)
  BY <1>17 DEF MarkSettled
<1>18. CASE DebitBuyer(t)
  <2>1. pc[t] # "idle" /\ (trades[t].units > 0 => trades[t].gross > 0)
    BY <1>18 DEF DebitBuyer, SalesFit
  <2>2. trades[t].gross \in Int
    BY TradeFields
  <2> QED
    BY <1>18, <2>1, <2>2 DEF DebitBuyer
<1>19. CASE WalletHookRaises(t) \/ Abort(t)
  BY <1>19 DEF WalletHookRaises, Abort
<1> QED
  BY <1>1, <1>2, <1>3, <1>4, <1>5, <1>6, <1>7, <1>8, <1>9, <1>10, <1>11, <1>12, <1>13, <1>14, <1>15, <1>16, <1>17, <1>18, <1>19 DEF TradeStep, SettleStep

LEMMA SalesKeepComing ==
  ASSUME TypeOK, Wired, SalesFit, ~AllowAbort, NEW t \in Trades, TradeStep(t), NEW l \in Listings
  PROVE  /\ ~MarkFilled(t) \/ trades[t].listing # l => (Coming(l, ToFill) => Coming(l, ToFill)')
         /\ ~MarkPartiallyFilled(t) \/ trades[t].listing # l
              => (Coming(l, ToPartial) => Coming(l, ToPartial)')
<1>1. /\ Conduct(t) /\ Path(t)
      /\ \A x \in Trades \ {t} : trades'[x] = trades[x] /\ pc'[x] = pc[x]
  BY HandlerConduct, HandlerPath, OtherTrades
<1>2. alive \subseteq Trades
  BY DEF TypeOK
<1>3. ASSUME NEW x \in alive, x # t, NEW steps, trades[x].listing = l, trades[x].units > 0,
             pc[x] \in steps
      PROVE  Coming(l, steps)'
  <2>1. x \in alive'
    BY <1>1, <1>3 DEF Path
  <2>2. trades'[x].listing = l /\ trades'[x].units > 0 /\ pc'[x] \in steps
    BY <1>1, <1>2, <1>3
  <2> QED
    BY <2>1, <2>2 DEF Coming
<1>4. ASSUME t \in alive, trades[t].listing = l, trades[t].units > 0, pc[t] \in ToFill,
             ~MarkFilled(t)
      PROVE  Coming(l, ToFill)'
  <2>1. pc'[t] \in ToFill /\ t \in alive'
    BY <1>1, <1>4 DEF Path
  <2>2. SameSale(t)
    BY <1>1, <1>4 DEF Conduct, ToFill
  <2> QED
    BY <1>4, <2>1, <2>2 DEF Coming, SameSale, ToFill
<1>5. ASSUME t \in alive, trades[t].listing = l, trades[t].units > 0, pc[t] \in ToPartial,
             ~MarkPartiallyFilled(t)
      PROVE  Coming(l, ToPartial)'
  <2>1. pc[t] \in ToFill
    BY <1>1, <1>5 DEF Path, ToPartial
  <2>2. pc'[t] \in ToPartial /\ t \in alive'
    <3>1. CASE ~MarkFilled(t)
      BY <1>1, <1>5, <2>1, <3>1 DEF Path, ToPartial
    <3>2. CASE MarkFilled(t)
      BY <1>5, <3>2 DEF MarkFilled, Goto, TypeOK, ToPartial
    <3> QED
      BY <3>1, <3>2
  <2>3. SameSale(t)
    BY <1>1, <1>5 DEF Conduct, ToFill, ToPartial
  <2> QED
    BY <1>5, <2>2, <2>3 DEF Coming, SameSale, ToPartial, ToFill
<1>6. ASSUME ~MarkFilled(t) \/ trades[t].listing # l, Coming(l, ToFill) PROVE Coming(l, ToFill)'
  <2>1. PICK x \in alive : trades[x].listing = l /\ trades[x].units > 0 /\ pc[x] \in ToFill
    BY <1>6 DEF Coming
  <2>2. CASE x # t
    BY <1>3, <2>1, <2>2
  <2>3. CASE x = t
    BY <1>4, <1>6, <2>1, <2>3
  <2> QED
    BY <2>2, <2>3
<1>7. ASSUME ~MarkPartiallyFilled(t) \/ trades[t].listing # l, Coming(l, ToPartial)
      PROVE  Coming(l, ToPartial)'
  <2>1. PICK x \in alive : trades[x].listing = l /\ trades[x].units > 0 /\ pc[x] \in ToPartial
    BY <1>7 DEF Coming
  <2>2. CASE x # t
    BY <1>3, <2>1, <2>2
  <2>3. CASE x = t
    BY <1>5, <1>7, <2>1, <2>3
  <2> QED
    BY <2>2, <2>3
<1> QED
  BY <1>6, <1>7

LEMMA PriceIsPositive ==
  ASSUME NEW n \in Nat, NEW p \in Nat \ {0}
  PROVE  n > 0 <=> n * p > 0
<1>1. CASE n = 0
  BY <1>1
<1>2. CASE n > 0
  <2>1. n - 1 \in Nat /\ p - 1 \in Nat
    BY <1>2
  <2>2. n * p = (n - 1) * p + p
    BY <2>1
  <2>3. (n - 1) * p \in Nat
    BY <2>1
  <2> QED
    BY <1>2, <2>2, <2>3
<1> QED
  BY <1>1, <1>2

\* A new sale is of a natural number of units, and costs something unless it is
\* of none.
LEMMA NewSales ==
  ASSUME TypeOK, Wired, NoOversell, SalesFit, Orderly, NEW t \in Trades, TradeStep(t), pc[t] = "idle"
  PROVE  trades'[t].units >= 0 /\ (trades'[t].units > 0 <=> trades'[t].gross > 0)
<1>0. ListPrice \in Nat \ {0} /\ OfferPrice \in Nat \ {0}
  BY MarketConstants
<1>1. ASSUME NEW l \in Listings, NEW i \in Investors, NEW u \in Sizes, BuyNow(t, l, i, u)
      PROVE  trades'[t].units >= 0 /\ (trades'[t].units > 0 <=> trades'[t].gross > 0)
  <2>1. trades'[t].units = u /\ trades'[t].gross = u * ListPrice
    BY <1>1 DEF BuyNow, NewTrade, TypeOK
  <2>2. u \in Nat
    BY MarketConstants
  <2> QED
    BY <1>0, <2>1, <2>2, PriceIsPositive
<1>2. ASSUME NEW b \in Bids, AcceptBid(t, b)
      PROVE  trades'[t].units >= 0 /\ (trades'[t].units > 0 <=> trades'[t].gross > 0)
  <2>1. trades'[t].units = AcceptedUnits(b) /\ trades'[t].gross = AcceptedUnits(b) * OfferPrice
    BY <1>2 DEF AcceptBid, NewTrade, TypeOK
  <2>2. /\ bids[b].listing \in Listings /\ bids[b].units \in Nat /\ bids[b].units > 0
    BY <1>2 DEF AcceptBid, Wired, SalesFit, TypeOK, BidDoc
  <2>3. Remaining(bids[b].listing) \in Nat
    <3>1. Tol = 0
      BY DEF Orderly
    <3> QED
      BY <2>2, <3>1 DEF NoOversell, Remaining, TypeOK, ListingDoc
  <2>4. AcceptedUnits(b) \in Nat
    BY <2>2, <2>3 DEF AcceptedUnits
  <2> QED
    BY <1>0, <2>1, <2>4, PriceIsPositive
<1>3. ~SettleStep(t) /\ ~WalletHookRaises(t) /\ ~Abort(t)
  <2>1. ~Abort(t) /\ ~WalletHookRaises(t)
    BY DEF Abort, WalletHookRaises, Orderly
  <2> QED
    BY <2>1 DEF SettleStep, MarkBidAccepted, CheckListing, CheckFunds, ReserveUnits,
       DebitBuyer, CreditSeller, CreditFee, InsertTransfer, ReadSellerShares, ReadBuyerShares,
       WriteSellerRow, WriteBuyerRow, RecomputeWallets, ReadCash, SaveCash, MarkFilled,
       MarkPartiallyFilled, MarkSettled, Goto
<1> QED
  BY <1>1, <1>2, <1>3 DEF TradeStep

\* A handler leaves debit by a debit.
LEMMA LeavesDebit ==
  ASSUME TypeOK, NEW t \in Trades, TradeStep(t), pc[t] = "debit", pc'[t] # "debit"
  PROVE  trades[t].gross > 0
<1>1. CASE DebitBuyer(t)
  BY <1>1 DEF DebitBuyer, Goto, TypeOK
<1>2. CASE Abort(t)
  BY <1>2 DEF Abort
<1>3. CASE ~DebitBuyer(t) /\ ~Abort(t)
  BY <1>3 DEF TradeStep, SettleStep, BuyNow, AcceptBid, MarkBidAccepted, CheckListing,
     CheckFunds, ReserveUnits, CreditSeller, CreditFee, InsertTransfer, ReadSellerShares,
     ReadBuyerShares, WriteSellerRow, WriteBuyerRow, RecomputeWallets, ReadCash, SaveCash,
     MarkFilled, MarkPartiallyFilled, MarkSettled, WalletHookRaises, Goto
<1> QED
  BY <1>1, <1>2, <1>3

LEMMA BidSizes ==
  ASSUME TypeOK, Wired, SalesFit, [Next]_vars, NEW b \in Bids, bids'[b].status # "none"
  PROVE  bids'[b].units > 0
<1>1. CASE bids' = bids
  BY <1>1 DEF SalesFit
<1>2. ASSUME NEW x \in Bids, NEW s, bids[x].status # "none", bids' = [bids EXCEPT ![x].status = s]
      PROVE  bids'[b].units > 0
  BY <1>2 DEF SalesFit, TypeOK, BidDoc
<1>3. ASSUME NEW x \in Bids, BidStep(x) PROVE bids'[b].units > 0
  <2>1. ASSUME NEW l \in Listings, NEW i \in Investors, NEW u \in Sizes, PlaceBid(x, l, i, u)
        PROVE  bids'[b].units > 0
    BY <2>1, MarketConstants DEF PlaceBid, SalesFit, TypeOK
  <2>2. CASE CancelBidRead(x) \/ AcceptRead(x) \/ AcceptRefused(x)
    BY <1>1, <2>2 DEF CancelBidRead, AcceptRead, AcceptRefused
  <2>3. CASE CancelBidWrite(x)
    BY <1>2, <2>3 DEF CancelBidWrite, Wired
  <2>4. CASE RejectBid(x)
    BY <1>2, <2>4 DEF RejectBid
  <2> QED
    BY <1>3, <2>1, <2>2, <2>3, <2>4 DEF BidStep
<1>4. ASSUME NEW t \in Trades, MarkBidAccepted(t) PROVE bids'[b].units > 0
  BY <1>2, <1>4 DEF MarkBidAccepted, Goto, Wired
<1>5. ASSUME NEW t \in Trades, TradeStep(t), ~MarkBidAccepted(t) PROVE bids'[b].units > 0
  BY <1>1, <1>5 DEF TradeStep, SettleStep, BuyNow, AcceptBid, CheckListing,
     CheckFunds, ReserveUnits, DebitBuyer, CreditSeller, CreditFee, InsertTransfer,
     ReadSellerShares, ReadBuyerShares, WriteSellerRow, WriteBuyerRow, RecomputeWallets,
     ReadCash, SaveCash, MarkFilled, MarkPartiallyFilled, MarkSettled, WalletHookRaises, Abort
<1>6. CASE (\E l \in Listings : ListingStep(l)) \/ UNCHANGED vars
  BY <1>1, <1>6 DEF ListingStep, CreateListingRead, CreateListingCheck, CreateListingInsert,
     CancelListingRead, CancelListingWrite, vars
<1> QED
  BY <1>3, <1>4, <1>5, <1>6 DEF Next

LEMMA FilledGrows ==
  ASSUME TypeOK, Wired, SalesFit, [Next]_vars, NEW l \in Listings
  PROVE  /\ listings[l].status # "none" => listings'[l].filled >= listings[l].filled
         /\ listings'[l].filled >= 0
<1>0. listings[l].filled \in Int /\ listings[l].filled >= 0
  BY DEF TypeOK, ListingDoc, SalesFit
<1>1. CASE listings'[l].filled = listings[l].filled
  BY <1>0, <1>1
<1>2. ASSUME NEW x \in Listings, CreateListingInsert(x) PROVE x = l => listings[l].status = "none"
  BY <1>2 DEF CreateListingInsert, Wired
<1>3. ASSUME NEW x \in Listings, CreateListingInsert(x)
      PROVE  listings'[l].filled = IF x = l THEN 0 ELSE listings[l].filled
  BY <1>3 DEF CreateListingInsert, TypeOK
<1>4. ASSUME NEW x \in Listings, NEW s, listings' = [listings EXCEPT ![x].status = s]
      PROVE  listings'[l].filled = listings[l].filled
  BY <1>4 DEF TypeOK, ListingDoc
<1>5. ASSUME NEW t \in Trades, ReserveUnits(t), listings' # listings
      PROVE  listings'[l].filled >= listings[l].filled
  <2>1. /\ pc[t] = "reserve" /\ trades[t].listing \in Listings
        /\ trades[t].units \in Int /\ trades[t].units >= 0
        /\ listings' = [listings EXCEPT ![trades[t].listing].filled = @ + trades[t].units]
    BY <1>5, TradeFields DEF ReserveUnits, Goto, Wired, SalesFit
  <2> QED
    BY <1>0, <2>1 DEF TypeOK, ListingDoc
<1>6. ASSUME NEW t \in Trades, MarkFilled(t) \/ MarkPartiallyFilled(t)
      PROVE  listings'[l].filled = listings[l].filled
  <2>1. trades[t].listing \in Listings
    BY <1>6 DEF MarkFilled, MarkPartiallyFilled, Goto, Wired
  <2> QED
    BY <1>4, <1>6, <2>1 DEF MarkFilled, MarkPartiallyFilled
<1>7. ASSUME NEW x \in Listings, CreateListingInsert(x) \/ CancelListingWrite(x)
      PROVE  /\ listings[l].status # "none" => listings'[l].filled = listings[l].filled
             /\ listings'[l].filled >= 0
  BY <1>0, <1>2, <1>3, <1>4, <1>7 DEF CancelListingWrite
<1>8. ASSUME NEW t \in Trades, ReserveUnits(t) PROVE listings'[l].filled >= listings[l].filled
  BY <1>0, <1>5, <1>8
<1>9. ASSUME NEW t \in Trades, ReserveUnits(t) PROVE listings'[l].filled \in Int
  <2>1. CASE listings' = listings
    BY <1>0, <2>1
  <2>2. CASE listings' = [listings EXCEPT ![trades[t].listing].filled = @ + trades[t].units]
    BY <1>0, <2>2, TradeFields DEF TypeOK, ListingDoc
  <2> QED
    BY <1>9, <2>1, <2>2 DEF ReserveUnits
<1> QED
  BY <1>0, <1>1, <1>6, <1>7, <1>8, <1>9, ListingWriters

LEMMA StepSalesFit ==
  TypeInv /\ NoOversell /\ SalesFit /\ Orderly /\ [Next]_vars => SalesFit'
<1> SUFFICES ASSUME TypeOK, Wired, NoOversell, SalesFit, Orderly, [Next]_vars PROVE SalesFit'
  BY DEF TypeInv
<1> DEFINE Sized(t) == pc[t] # "idle" =>
                         trades[t].units >= 0 /\ (trades[t].units > 0 <=> trades[t].gross > 0)
           Real(t) == pc[t] \in AfterReserve \ {"debit"} => trades[t].units > 0
           Counted(t) == pc[t] \in AfterReserve /\ trades[t].units > 0
                           => listings[trades[t].listing].filled > 0
<1>1. \A b \in Bids : bids'[b].status # "none" => bids'[b].units > 0
  BY BidSizes
<1>2. \A l \in Listings : listings'[l].filled >= 0
  BY FilledGrows
<1>3. ASSUME NEW t \in Trades, pc'[t] = pc[t], pc[t] # "idle" => SameSale(t)
      PROVE  Sized(t)' /\ Real(t)' /\ Counted(t)'
  <2>1. CASE pc[t] = "idle"
    BY <1>3, <2>1 DEF AfterReserve
  <2>2. CASE pc[t] # "idle"
    <3>1. /\ trades[t].listing \in Listings /\ listings[trades[t].listing].status # "none"
      BY <2>2 DEF Wired
    <3>2. /\ listings'[trades[t].listing].filled >= listings[trades[t].listing].filled
          /\ listings'[trades[t].listing].filled \in Int
          /\ listings[trades[t].listing].filled \in Int
      BY <3>1, FilledGrows, StepTypeInv DEF TypeInv, TypeOK, ListingDoc
    <3> QED
      BY <1>3, <2>2, <3>1, <3>2 DEF SalesFit, SameSale
  <2> QED
    BY <2>1, <2>2
<1>4. ASSUME UNCHANGED <<pc, trades>> PROVE \A t \in Trades : Sized(t)' /\ Real(t)' /\ Counted(t)'
  BY <1>3, <1>4 DEF SameSale
<1>5. ASSUME NEW t \in Trades, TradeStep(t) PROVE Sized(t)' /\ Real(t)' /\ Counted(t)'
  <2>1. Conduct(t)
    BY <1>5, HandlerConduct
  <2>2. CASE pc[t] = "idle"
    <3>1. pc'[t] \notin AfterReserve
      BY <2>1, <2>2 DEF Conduct, AfterReserve
    <3> QED
      BY <1>5, <2>2, <3>1, NewSales
  <2>3. CASE pc[t] # "idle"
    <3>1. SameSale(t)
      BY <2>1, <2>3 DEF Conduct
    <3>2. Sized(t)'
      BY <2>3, <3>1 DEF SameSale, SalesFit
    <3>3. Real(t)'
      <4>1. CASE pc[t] \in AfterReserve \ {"debit"}
        BY <3>1, <4>1 DEF SameSale, SalesFit
      <4>2. CASE pc[t] = "debit"
        BY <1>5, <2>3, <3>1, <4>2, LeavesDebit DEF SameSale, SalesFit
      <4>3. CASE pc[t] \notin AfterReserve
        BY <2>1, <4>3 DEF Conduct
      <4> QED
        BY <4>1, <4>2, <4>3
    <3>4. CASE pc[t] \in AfterReserve
      <4>1. /\ trades[t].listing \in Listings /\ listings[trades[t].listing].status # "none"
        BY <2>3 DEF Wired
      <4>2. /\ listings'[trades[t].listing].filled >= listings[trades[t].listing].filled
            /\ listings'[trades[t].listing].filled \in Int
            /\ listings[trades[t].listing].filled \in Int
        BY <4>1, FilledGrows, StepTypeInv DEF TypeInv, TypeOK, ListingDoc
      <4> QED
        BY <3>1, <3>2, <3>3, <3>4, <4>1, <4>2 DEF SameSale, SalesFit
    <3>5. CASE pc[t] \notin AfterReserve /\ pc'[t] \in AfterReserve
      <4>1. /\ ReserveUnits(t) /\ pc'[t] = "debit"
            /\ trades[t].listing \in Listings /\ trades[t].units \in Int
            /\ listings' = [listings EXCEPT ![trades[t].listing].filled = @ + trades[t].units]
        BY <2>1, <2>3, <3>5, TradeFields DEF Conduct, ReserveUnits, Goto, Wired, TypeOK
      <4>2. /\ listings'[trades[t].listing].filled
                 = listings[trades[t].listing].filled + trades[t].units
            /\ listings[trades[t].listing].filled \in Int
            /\ listings[trades[t].listing].filled >= 0
        BY <4>1 DEF TypeOK, ListingDoc, SalesFit
      <4>3. Counted(t)'
        BY <3>1, <4>1, <4>2 DEF SameSale
      <4> QED
        BY <3>2, <3>3, <4>3
    <3>6. CASE pc'[t] \notin AfterReserve
      BY <3>2, <3>3, <3>6
    <3> QED
      BY <3>4, <3>5, <3>6
  <2> QED
    BY <2>2, <2>3
<1>6. ASSUME NEW t \in Trades, TradeStep(t), NEW x \in Trades
      PROVE  Sized(x)' /\ Real(x)' /\ Counted(x)'
  <2>1. CASE x = t
    BY <1>5, <1>6, <2>1
  <2>2. CASE x # t
    <3>1. trades'[x] = trades[x] /\ pc'[x] = pc[x]
      BY <1>6, <2>2, OtherTrades
    <3> QED
      BY <1>3, <3>1 DEF SameSale
  <2> QED
    BY <2>1, <2>2
<1>7. CASE \E l \in Listings : ListingStep(l)
  <2>1. UNCHANGED <<pc, trades>>
    BY <1>7 DEF ListingStep, CreateListingRead, CreateListingCheck, CreateListingInsert,
       CancelListingRead, CancelListingWrite
  <2> QED
    BY <1>1, <1>2, <1>4, <2>1 DEF SalesFit
<1>8. CASE (\E b \in Bids : BidStep(b)) \/ UNCHANGED vars
  <2>1. UNCHANGED <<pc, trades>>
    BY <1>8 DEF BidStep, PlaceBid, CancelBidRead, CancelBidWrite, RejectBid, AcceptRead, AcceptRefused, vars
  <2> QED
    BY <1>1, <1>2, <1>4, <2>1 DEF SalesFit
<1>9. CASE \E t \in Trades : TradeStep(t)
  BY <1>1, <1>2, <1>6, <1>9 DEF SalesFit
<1> QED
  BY <1>7, <1>8, <1>9 DEF Next

LEMMA ComingGoesOn ==
  ASSUME NEW l \in Listings, Coming(l, ToFill)
  PROVE  Coming(l, ToPartial)
BY DEF Coming, ToPartial

\* The status of a listing nothing has happened to.
LEMMA SameListing ==
  ASSUME NEW l \in Listings, StatusFollows(l), listings'[l] = listings[l],
         Coming(l, ToFill) => Coming(l, ToFill)',
         Coming(l, ToPartial) => Coming(l, ToPartial)'
  PROVE  StatusFollows(l)'
BY DEF StatusFollows, Open, FullySold

LEMMA StepStatus ==
  ASSUME TypeInv, NoOversell, StatusInv, Orderly, [Next]_vars, NEW l \in Listings
  PROVE  StatusFollows(l)'
<1>0. /\ TypeOK /\ Wired /\ SalesFit /\ StatusFollows(l) /\ ~AllowAbort
      /\ listings[l].filled \in Int /\ listings[l].units \in Int /\ Tol \in Int
  BY MarketConstants DEF TypeInv, StatusInv, Orderly, TypeOK, ListingDoc
<1> USE <1>0
<1>1. ASSUME UNCHANGED <<pc, trades, alive>>
      PROVE  /\ Coming(l, ToFill) => Coming(l, ToFill)'
             /\ Coming(l, ToPartial) => Coming(l, ToPartial)'
  BY <1>1 DEF Coming
<1>2. ASSUME UNCHANGED <<pc, trades, alive, listings>> PROVE StatusFollows(l)'
  BY <1>1, <1>2, SameListing
<1>3. ASSUME NEW x \in Listings, ListingStep(x) PROVE StatusFollows(l)'
  <2>1. UNCHANGED <<pc, trades, alive>>
    BY <1>3 DEF ListingStep, CreateListingRead, CreateListingCheck, CreateListingInsert,
       CancelListingRead, CancelListingWrite
  <2>2. CASE UNCHANGED listings
    BY <1>2, <2>1, <2>2
  <2>3. CASE CreateListingInsert(x)
    <3>1. CASE x = l
      <4>1. listings'[l].filled = 0 /\ listings'[l].status = "active"
        BY <2>3, <3>1 DEF CreateListingInsert, TypeOK
      <4> QED
        BY <4>1 DEF StatusFollows
    <3>2. CASE x # l
      <4>1. listings'[l] = listings[l]
        BY <2>3, <3>2 DEF CreateListingInsert, TypeOK
      <4> QED
        BY <1>1, <2>1, <4>1, SameListing
    <3> QED
      BY <3>1, <3>2
  <2>4. CASE CancelListingWrite(x)
    <3>1. CASE x = l
      <4>1. listings'[l].status = "cancelled"
        BY <2>4, <3>1 DEF CancelListingWrite, TypeOK, ListingDoc
      <4> QED
        BY <4>1 DEF StatusFollows, Open
    <3>2. CASE x # l
      <4>1. listings'[l] = listings[l]
        BY <2>4, <3>2 DEF CancelListingWrite, TypeOK
      <4> QED
        BY <1>1, <2>1, <4>1, SameListing
    <3> QED
      BY <3>1, <3>2
  <2> QED
    BY <1>3, <2>2, <2>3, <2>4
    DEF ListingStep, CreateListingRead, CreateListingCheck, CancelListingRead
<1>4. CASE (\E b \in Bids : BidStep(b)) \/ UNCHANGED vars
  BY <1>2, <1>4 DEF BidStep, PlaceBid, CancelBidRead, CancelBidWrite, RejectBid, AcceptRead, AcceptRefused, vars
<1>5. ASSUME NEW t \in Trades, TradeStep(t) PROVE StatusFollows(l)'
  <2>1. /\ ~MarkFilled(t) \/ trades[t].listing # l => (Coming(l, ToFill) => Coming(l, ToFill)')
        /\ ~MarkPartiallyFilled(t) \/ trades[t].listing # l
             => (Coming(l, ToPartial) => Coming(l, ToPartial)')
    BY <1>5, SalesKeepComing
  <2>2. ASSUME ~MarkFilled(t) \/ trades[t].listing # l,
               ~MarkPartiallyFilled(t) \/ trades[t].listing # l,
               listings'[l] = listings[l]
        PROVE  StatusFollows(l)'
    BY <2>1, <2>2, SameListing
  <2>3. CASE ReserveUnits(t)
    <3>0. ~MarkFilled(t) /\ ~MarkPartiallyFilled(t)
      BY <2>3 DEF ReserveUnits, MarkFilled, MarkPartiallyFilled, Goto
    <3>1. CASE listings' = listings
      BY <2>2, <3>0, <3>1
    <3>2. CASE listings' # listings
      <4>1. /\ pc[t] = "reserve" /\ t \in alive /\ trades[t].listing \in Listings
            /\ trades[t].units \in Int /\ trades[t].units >= 0
            /\ listings' = [listings EXCEPT ![trades[t].listing].filled = @ + trades[t].units]
            /\ pc'[t] = "debit" /\ UNCHANGED <<trades, alive>>
        BY <2>3, <3>2, TradeFields DEF ReserveUnits, Goto, Wired, SalesFit, TypeOK
      <4>2. CASE trades[t].listing # l
        BY <2>2, <4>1, <4>2 DEF TypeOK
      <4>3. CASE trades[t].listing = l /\ trades[t].units = 0
        <5>1. listings'[l] = listings[l]
          BY <4>1, <4>3 DEF TypeOK, ListingDoc
        <5> QED
          BY <2>2, <3>0, <5>1
      <4>4. CASE trades[t].listing = l /\ trades[t].units > 0
        <5>1. Coming(l, ToFill)'
          BY <4>1, <4>4 DEF Coming, ToFill
        <5>2. Coming(l, ToPartial)'
          BY <4>1, <4>4 DEF Coming, ToFill, ToPartial
        <5>3. /\ listings'[l].status = listings[l].status
              /\ listings'[l].units = listings[l].units
              /\ listings'[l].filled = listings[l].filled + trades[t].units
          BY <4>1, <4>4 DEF TypeOK, ListingDoc
        <5>4. /\ listings'[l].status = "filled" => FullySold(l)'
              /\ listings'[l].status = "partially_filled" => listings'[l].filled > 0
          BY <4>1, <4>4, <5>3 DEF StatusFollows, FullySold
        <5> QED
          BY <5>1, <5>2, <5>4 DEF StatusFollows
      <4> QED
        BY <4>1, <4>2, <4>3, <4>4
    <3> QED
      BY <3>1, <3>2
  <2>4. CASE MarkFilled(t)
    <3>0. /\ ~MarkPartiallyFilled(t) /\ trades[t].listing \in Listings
      BY <2>4 DEF MarkFilled, MarkPartiallyFilled, Goto, Wired
    <3>1. CASE trades[t].listing # l
      <4>1. listings'[l] = listings[l]
        BY <2>4, <3>0, <3>1 DEF MarkFilled, TypeOK
      <4> QED
        BY <2>2, <3>1, <4>1
    <3>2. CASE trades[t].listing = l /\ FullySold(l)
      <4>1. /\ listings'[l].status = "filled" /\ listings'[l].filled = listings[l].filled
            /\ listings'[l].units = listings[l].units
        BY <2>4, <3>0, <3>2 DEF MarkFilled, TypeOK, ListingDoc
      <4> QED
        BY <3>2, <4>1 DEF StatusFollows, Open, FullySold
    <3>3. CASE trades[t].listing = l /\ ~FullySold(l)
      <4>1. listings' = listings
        BY <2>4, <3>3 DEF MarkFilled
      <4> QED
        BY <2>1, <3>0, <3>3, <4>1 DEF StatusFollows, Open, FullySold
    <3> QED
      BY <3>1, <3>2, <3>3
  <2>5. CASE MarkPartiallyFilled(t)
    <3>0. /\ ~MarkFilled(t) /\ trades[t].listing \in Listings /\ pc[t] = "partial"
      BY <2>5 DEF MarkFilled, MarkPartiallyFilled, Goto, Wired
    <3>1. CASE trades[t].listing # l
      <4>1. listings'[l] = listings[l]
        BY <2>5, <3>0, <3>1 DEF MarkPartiallyFilled, TypeOK
      <4> QED
        BY <2>2, <3>1, <4>1
    <3>2. CASE trades[t].listing = l /\ listings[l].status = "active" /\ ~FullySold(l)
      <4>1. /\ listings'[l].status = "partially_filled"
            /\ listings'[l].filled = listings[l].filled
            /\ listings'[l].units = listings[l].units
        BY <2>5, <3>0, <3>2 DEF MarkPartiallyFilled, TypeOK, ListingDoc
      <4>2. listings[l].filled > 0
        BY <3>0, <3>2 DEF SalesFit, AfterReserve, Steps
      <4> QED
        BY <3>2, <4>1, <4>2 DEF StatusFollows, Open, FullySold
    <3>3. CASE trades[t].listing = l /\ ~(listings[l].status = "active" /\ ~FullySold(l))
      <4>1. listings' = listings
        BY <2>5, <3>3 DEF MarkPartiallyFilled
      <4>2. Coming(l, ToFill) => Coming(l, ToFill)' /\ Coming(l, ToPartial)'
        <5>1. (Coming(l, ToFill) => Coming(l, ToPartial))'
          BY DEF Coming, ToPartial
        <5> QED
          BY <2>1, <3>0, <5>1
      <4>3. listings[l].status = "active" /\ listings[l].filled > 0 => Coming(l, ToFill)
        BY <3>3 DEF StatusFollows, Open
      <4> QED
        BY <4>1, <4>2, <4>3 DEF StatusFollows, Open, FullySold
    <3> QED
      BY <3>1, <3>2, <3>3
  <2>6. CASE ~ReserveUnits(t) /\ ~MarkFilled(t) /\ ~MarkPartiallyFilled(t)
    <3>1. UNCHANGED listings
      BY <1>5, <2>6 DEF TradeStep, SettleStep, BuyNow, AcceptBid, MarkBidAccepted, CheckListing,
         CheckFunds, DebitBuyer, CreditSeller, CreditFee, InsertTransfer, ReadSellerShares,
         ReadBuyerShares, WriteSellerRow, WriteBuyerRow, RecomputeWallets, ReadCash, SaveCash,
         MarkSettled, WalletHookRaises, Abort
    <3> QED
      BY <2>2, <2>6, <3>1
  <2> QED
    BY <2>3, <2>4, <2>5, <2>6
<1> QED
  BY <1>3, <1>4, <1>5 DEF Next

\* Once the settlements on a listing are over, whatever order their updates came
\* in, its status says how much of it is sold.
THEOREM StatusIsRightWhenQuiet ==
  ASSUME Orderly
  PROVE  Spec => []QuietStatusIsRight
<1>1. Init => StatusInv
  BY DEF Init, Orderly, StatusInv, SalesFit, StatusFollows, Coming, Open, NoListing, AfterReserve
<1>2. Init => NoOversell
  BY MarketConstants DEF Init, NoOversell, NoListing
<1>3. TypeInv /\ NoOversell /\ StatusInv /\ [Next]_vars => StatusInv'
  BY StepSalesFit, StepStatus DEF StatusInv
<1>4. TypeInv /\ StatusInv => QuietStatusIsRight
  <2> SUFFICES ASSUME TypeOK, StatusInv, NEW l \in Listings, QuietListing(l)
               PROVE  /\ listings[l].status = "filled" => FullySold(l)
                      /\ listings[l].status = "partially_filled"
                           => ~FullySold(l) /\ listings[l].filled > 0
                      /\ listings[l].status = "active" => listings[l].filled <= 0
    BY DEF TypeInv, QuietStatusIsRight
  <2>1. ~Coming(l, ToPartial) /\ ~Coming(l, ToFill)
    BY DEF Coming, QuietListing, AfterReserve, Steps, ToPartial, ToFill, TypeOK
  <2>2. listings[l].filled \in Int
    BY DEF TypeOK, ListingDoc
  <2> QED
    BY <2>1, <2>2 DEF StatusInv, StatusFollows, Open
<1> QED
  BY <1>1, <1>2, <1>3, <1>4, InitTypeInv, StepTypeInv, StepNoOversell, PTL DEF Spec

-----------------------------------------------------------------------------
(* What a settled trade rebuilds: OwnershipRegistry, as an instance, for   *)
(* any number of holders, units, certificates and handlers, in any order   *)
(* and dying anywhere.                                                     *)

CONSTANTS Invested, Amounts, Calls, MaxBegun

VARIABLES invested, begun, call, alone

\* The registry; R!ConstantsFit is what it assumes of its constants.
R == INSTANCE OwnershipRegistry

-----------------------------------------------------------------------------
(* Largest remainders.                                                     *)

\* The instance has its own copy of the sums too.
LEMMA SumIs == ASSUME NEW f, NEW S PROVE R!SumFunctionOnSet(f, S) = SumOver(f, S)
BY DEF R!SumFunctionOnSet, R!FoldFunctionOnSet, R!MapThenFoldSet, SumOver, MapThenSumSet,
       MapThenFoldSet

LEMMA DocumentSum == ASSUME NEW f, NEW S PROVE SumFunctionOnSet(f, S) = SumOver(f, S)
BY DEF SumFunctionOnSet, FoldFunctionOnSet, SumOver, MapThenSumSet, MapThenFoldSet

\* The instance has its own copy of FiniteSets.
LEMMA SameFinite == ASSUME NEW S PROVE R!IsFiniteSet(S) <=> IsFiniteSet(S)
BY DEF R!IsFiniteSet, IsFiniteSet

LEMMA SameCardinality == ASSUME NEW S PROVE R!Cardinality(S) = Cardinality(S)
BY DEF R!Cardinality, Cardinality

LEMMA FewHolders ==
  ASSUME R!ConstantsFit PROVE IsFiniteSet(Holders) /\ Holders \in SUBSET Nat
BY SameFinite DEF R!ConstantsFit

LEMMA Division ==
  ASSUME NEW a \in Nat, NEW d \in Nat \ {0}, NEW q, NEW r, q = a \div d, r = a % d
  PROVE  q \in Nat /\ r \in 0 .. d - 1 /\ a = (d * q) + r
OBVIOUS

\* The order in which what the floors leave is given away.
Numbered(S) == S \in SUBSET Nat

LEMMA RemaindersOrdered ==
  ASSUME NEW S, Numbered(S), NEW part \in [S -> Int], NEW before,
         before = [h \in S |-> {g \in S : part[g] > part[h] \/ (part[g] = part[h] /\ g < h)}]
  PROVE  Orders(before, S)
<1>1. \A x, y \in S : x \in before[y] <=> part[x] > part[y] \/ (part[x] = part[y] /\ x < y)
  OBVIOUS
<1>2. \A x \in S : x \in Nat /\ part[x] \in Int
  BY DEF Numbered
<1>3. ASSUME NEW x \in S, NEW y \in S, x # y PROVE x \in before[y] <=> y \notin before[x]
  BY <1>1, <1>2, <1>3
<1>4. ASSUME NEW x \in S, NEW y \in S, x \in before[y], NEW z \in S, z \in before[x]
      PROVE  z \in before[y]
  BY <1>1, <1>2, <1>4
<1>5. \A x \in S : x \notin before[x]
  BY <1>1, <1>2
<1> QED
  BY <1>3, <1>4, <1>5 DEF Orders

\* With weights that are positive, all units are given away, and everyone gets
\* his quota up to less than one unit.
LEMMA QuotasAreMet ==
  ASSUME NEW S, Numbered(S), IsFiniteSet(S), S # {}, NEW w, \A h \in S : w[h] \in Nat \ {0},
         NEW total \in Nat, NEW r, r = R!LargestRemainder(w, S, total),
         NEW sum, sum = SumOver(w, S)
  PROVE  /\ r \in [S -> Nat] /\ SumOver(r, S) = total
         /\ \A h \in S : /\ r[h] * sum > total * w[h] - sum
                         /\ r[h] * sum < total * w[h] + sum
<1>1. sum \in Nat /\ sum > 0
  <2>1. sum \in Nat
    BY SumNatural
  <2>2. PICK x \in S : TRUE
    OBVIOUS
  <2>3. w[x] <= sum
    BY SumAtLeast
  <2> QED
    BY <2>1, <2>3
<1>2. PICK floor : floor = [h \in S |-> (w[h] * total) \div sum]
  OBVIOUS
<1>3. PICK part : part = [h \in S |-> (w[h] * total) % sum]
  OBVIOUS
<1>4. PICK before :
        before = [h \in S |-> {g \in S : part[g] > part[h] \/ (part[g] = part[h] /\ g < h)}]
  OBVIOUS
<1>5. PICK left : left = total - SumOver(floor, S)
  OBVIOUS
<1>6. r = [h \in S |-> floor[h] + IF Cardinality(before[h]) < left THEN 1 ELSE 0]
  <2>1. R!SumFunctionOnSet(w, S) = sum /\ R!SumFunctionOnSet(floor, S) = SumOver(floor, S)
    BY SumIs
  <2>2. r = [h \in S |-> floor[h] + IF R!Cardinality(before[h]) < left THEN 1 ELSE 0]
    BY <1>2, <1>3, <1>4, <1>5, <2>1 DEF R!LargestRemainder
  <2>3. \A h \in S : R!Cardinality(before[h]) = Cardinality(before[h])
    BY SameCardinality
  <2> QED
    BY <2>2, <2>3
<1>7. ASSUME NEW h \in S
      PROVE  /\ floor[h] \in Nat /\ part[h] \in 0 .. sum - 1
             /\ w[h] * total = (sum * floor[h]) + part[h]
  <2>1. PICK a : a = w[h] * total
    OBVIOUS
  <2>2. a \in Nat
    BY <2>1
  <2>3. floor[h] = a \div sum /\ part[h] = a % sum
    BY <1>2, <1>3, <2>1
  <2>4. floor[h] \in Nat /\ part[h] \in 0 .. sum - 1 /\ a = (sum * floor[h]) + part[h]
    BY <1>1, <2>2, <2>3, Division
  <2> QED
    BY <2>1, <2>4
<1>8. \A h \in S : floor[h] \in Nat /\ part[h] \in Nat /\ part[h] < sum
  BY <1>1, <1>7
<1>a. SumOver(floor, S) \in Nat /\ SumOver(part, S) \in Nat
  <2>1. \A h \in S : floor[h] \in Nat
    BY <1>8
  <2>2. \A h \in S : part[h] \in Nat
    BY <1>8
  <2> QED
    BY <2>1, <2>2, SumNatural
<1>9. left \in Int /\ sum * left = SumOver(part, S)
  <2>1. PICK all : all = [h \in S |-> w[h] * total]
    OBVIOUS
  <2>2. PICK floors : floors = [h \in S |-> sum * floor[h]]
    OBVIOUS
  <2>3. \A h \in S : all[h] = total * w[h] /\ w[h] \in Int
    BY <2>1
  <2>4. SumOver(all, S) = total * SumOver(w, S)
    BY <2>3, SumScale
  <2>5. sum \in Int /\ \A h \in S : floor[h] \in Int /\ floors[h] = sum * floor[h]
    BY <1>1, <1>8, <2>2
  <2>6. SumOver(floors, S) = sum * SumOver(floor, S)
    BY <2>5, SumScale
  <2>7. \A h \in S : floors[h] \in Int /\ part[h] \in Int /\ all[h] = floors[h] + part[h]
    <3> SUFFICES ASSUME NEW h \in S
                 PROVE  floors[h] \in Int /\ part[h] \in Int /\ all[h] = floors[h] + part[h]
      OBVIOUS
    <3>1. floors[h] = sum * floor[h] /\ all[h] = w[h] * total
      BY <2>1, <2>2
    <3>2. floors[h] \in Int
      BY <1>1, <1>8, <3>1
    <3> QED
      BY <1>7, <1>8, <3>1, <3>2
  <2>8. SumOver(all, S) = SumOver(floors, S) + SumOver(part, S)
    BY <2>7, SumPlus
  <2>9. \A a, b, d \in Int : d * (a - b) = d * a - d * b /\ d * a = a * d
    OBVIOUS
  <2>10. sum * left = total * sum - sum * SumOver(floor, S)
    BY <1>1, <1>5, <1>a, <2>9
  <2>11. left \in Int /\ total * sum \in Int /\ sum * SumOver(floor, S) \in Int
    BY <1>1, <1>5, <1>a
  <2> PICK m, n, k : m = total * sum /\ n = sum * SumOver(floor, S) /\ k = sum * left
    OBVIOUS
  <2>12. m = n + SumOver(part, S) /\ k = m - n /\ m \in Int /\ n \in Int
    BY <2>4, <2>6, <2>8, <2>10, <2>11
  <2> QED
    BY <1>a, <2>11, <2>12
<1>10. PICK P : P = {h \in S : part[h] > 0}
  OBVIOUS
<1>11. P \in SUBSET S /\ IsFiniteSet(P) /\ Cardinality(P) \in Nat
       /\ Cardinality(S) \in Nat /\ Cardinality(P) <= Cardinality(S)
  BY <1>10, FS_Subset, FS_CardinalityType
<1>12. left \in 0 .. Cardinality(P)
  <2>1. PICK most : most = [h \in S |-> IF h \in P THEN sum ELSE 0]
    OBVIOUS
  <2>0. sum \in Int
    BY <1>1
  <2>2. SumOver(most, S) = sum * Cardinality(P)
    BY <1>11, <2>0, <2>1, SumCounts
  <2>3. \A h \in S : part[h] \in Int /\ most[h] \in Int /\ part[h] <= most[h]
    BY <1>1, <1>8, <1>10, <2>1
  <2>4. SumOver(part, S) <= SumOver(most, S)
    BY <2>3, SumGrows
  <2>5. \A a, b \in Int : sum * a <= sum * b => a <= b
    BY <1>1
  <2>6. \A a \in Int : sum * a >= 0 => a >= 0
    BY <1>1
  <2>7. left <= Cardinality(P)
    BY <1>9, <1>11, <2>2, <2>4, <2>5
  <2>8. left >= 0
    BY <1>9, <1>a, <2>6
  <2> QED
    BY <1>9, <1>11, <2>7, <2>8
<1>13. PICK L : L = {h \in S : Cardinality(before[h]) < left}
  OBVIOUS
<1>14. Cardinality(L) = left
  <2>1. Orders(before, S)
    <3>1. part \in [S -> Int]
      BY <1>3, <1>8
    <3> QED
      BY <1>4, <3>1, RemaindersOrdered
  <2>2. \A h \in S : S \cap before[h] = before[h]
    BY <1>4
  <2>3. L = Leading(before, S, left)
    BY <1>13, <2>2 DEF Leading
  <2>4. left \in 0 .. Cardinality(S)
    BY <1>11, <1>12
  <2> QED
    BY <2>1, <2>3, <2>4, LeadersAreCounted
<1>15. L \in SUBSET P
  <2> SUFFICES ASSUME NEW h \in L, h \notin P PROVE FALSE
    OBVIOUS
  <2>1. h \in S /\ part[h] = 0
    BY <1>8, <1>10, <1>13
  <2>2. P \in SUBSET before[h]
    BY <1>4, <1>10, <2>1
  <2>3. before[h] \in SUBSET S
    BY <1>4, <2>1
  <2>4. IsFiniteSet(before[h])
    BY <2>3, FS_Subset
  <2>5. Cardinality(P) <= Cardinality(before[h]) /\ Cardinality(before[h]) \in Nat
    BY <2>2, <2>4, FS_Subset, FS_CardinalityType
  <2>6. Cardinality(before[h]) < left
    BY <1>13
  <2> QED
    BY <1>11, <1>12, <2>5, <2>6
<1>16. PICK extra : extra = [h \in S |-> IF h \in L THEN 1 ELSE 0]
  OBVIOUS
<1>17. \A h \in S : r[h] = floor[h] + extra[h]
  BY <1>6, <1>13, <1>16
<1>18. r \in [S -> Nat]
  BY <1>6, <1>8
<1>19. SumOver(r, S) = total
  <2>1. L \in SUBSET S /\ left = 1 * Cardinality(L)
    BY <1>9, <1>13, <1>14
  <2>2. SumOver(extra, S) = left
    <3>1. SumOver(extra, S) = 1 * Cardinality(L)
      BY <1>16, <2>1, SumCounts
    <3> QED
      BY <2>1, <3>1
  <2>3. \A h \in S : floor[h] \in Int /\ extra[h] \in Int /\ r[h] = floor[h] + extra[h]
    BY <1>8, <1>16, <1>17
  <2>4. SumOver(r, S) = SumOver(floor, S) + SumOver(extra, S)
    BY <2>3, SumPlus
  <2> QED
    BY <1>5, <1>9, <1>a, <2>2, <2>4
<1>20. ASSUME NEW h \in S
       PROVE  r[h] * sum > total * w[h] - sum /\ r[h] * sum < total * w[h] + sum
  <2>1. PICK q : q = sum * floor[h]
    OBVIOUS
  <2>2. q \in Int /\ total * w[h] = q + part[h] /\ part[h] \in 0 .. sum - 1
    <3>1. q \in Int
      BY <1>1, <1>8, <2>1
    <3>2. w[h] * total = q + part[h] /\ w[h] * total = total * w[h]
      BY <1>7, <2>1
    <3> QED
      BY <1>1, <1>8, <3>1, <3>2
  <2>3. CASE h \in L
    <3>1. r[h] = floor[h] + 1 /\ part[h] > 0
      BY <1>10, <1>15, <1>16, <1>17, <2>3
    <3>2. r[h] * sum = q + sum
      BY <1>1, <1>8, <2>1, <3>1
    <3> QED
      BY <1>1, <2>2, <3>1, <3>2
  <2>4. CASE h \notin L
    <3>1. r[h] = floor[h]
      BY <1>8, <1>16, <1>17, <2>4
    <3>2. r[h] * sum = q
      BY <1>1, <1>8, <2>1, <3>1
    <3> QED
      BY <1>1, <2>2, <3>2
  <2> QED
    BY <2>3, <2>4
<1> QED
  BY <1>18, <1>19, <1>20

\* Half a price is the most that rounding may lose or add.
LEMMA RoundsToNearest ==
  ASSUME NEW n \in Nat, NEW d \in Nat \ {0}, NEW k, k = R!RoundHalfEven(n, d)
  PROVE  k \in Nat /\ 2 * k * d <= 2 * n + d /\ 2 * k * d >= 2 * n - d
<1>0. PICK q, r : q = n \div d /\ r = n % d
  OBVIOUS
<1>1. q \in Nat /\ r \in 0 .. d - 1 /\ n = (d * q) + r
  BY <1>0
<1>2. k = IF 2 * r < d \/ (2 * r = d /\ q % 2 = 0) THEN q ELSE q + 1
  BY <1>0 DEF R!RoundHalfEven
<1> PICK m : m = d * q
  OBVIOUS
<1>3. m \in Nat /\ n = m + r
  BY <1>1
<1>4. CASE k = q
  <2>1. 2 * k * d = 2 * m
    BY <1>1, <1>4
  <2>2. 2 * r <= d
    BY <1>1, <1>2, <1>4
  <2> QED
    BY <1>1, <1>3, <1>4, <2>1, <2>2
<1>5. CASE k = q + 1
  <2>1. 2 * k * d = 2 * m + 2 * d
    BY <1>1, <1>5
  <2>2. 2 * r >= d
    BY <1>1, <1>2, <1>5
  <2> QED
    BY <1>1, <1>3, <1>5, <2>1, <2>2
<1> QED
  BY <1>2, <1>4, <1>5

\* Units of some holders, no more than the asset has.
Allotted(s) ==
  /\ DOMAIN s \in SUBSET Holders /\ \A h \in DOMAIN s : s[h] \in Nat
  /\ R!SumFunction(s) \in 0 .. TotalUnits

\* What s, the units of the cap table w, owes to each owner: his part of all
\* units by what he has invested, up to less than one unit; and to the asset:
\* what was raised, up to half a price, unless there are not enough units.
QuotasOf(w, s) ==
  LET raised == R!SumFunctionOnSet(w, R!Owners(w))
      all == R!SumFunction(s)
  IN /\ s \in [R!Owners(w) -> Nat] /\ all \in 0 .. TotalUnits
     /\ \A h \in R!Owners(w) : /\ s[h] * raised > (all * w[h]) - raised
                               /\ s[h] * raised < (all * w[h]) + raised
     /\ all < TotalUnits => /\ 2 * all * Price <= 2 * raised + Price
                            /\ 2 * all * Price >= 2 * raised - Price

LEMMA OwnersAreHolders ==
  ASSUME R!ConstantsFit, NEW w \in [Holders -> Int]
  PROVE  /\ R!Owners(w) \in SUBSET Holders /\ IsFiniteSet(R!Owners(w)) /\ Numbered(R!Owners(w))
         /\ \A h \in R!Owners(w) : w[h] \in Nat \ {0}
<1>1. R!Owners(w) \in SUBSET Holders /\ \A h \in R!Owners(w) : w[h] \in Nat \ {0}
  BY DEF R!Owners
<1> QED
  BY <1>1, FewHolders, FS_Subset DEF Numbered

LEMMA SharesAreQuotas ==
  ASSUME R!ConstantsFit, NEW w \in [Holders -> Int], NEW s, s = R!Shares(w)
  PROVE  QuotasOf(w, s)
<1> PICK S, raised : S = R!Owners(w) /\ raised = SumOver(w, S)
  OBVIOUS
<1>1. /\ IsFiniteSet(S) /\ Numbered(S) /\ \A h \in S : w[h] \in Nat \ {0}
  BY OwnersAreHolders
<1>2. raised \in Nat
  BY <1>1, SumNatural
<1>3. Price \in Nat \ {0} /\ TotalUnits \in Nat
  BY DEF R!ConstantsFit
<1>4. PICK wanted : wanted = R!RoundHalfEven(raised, Price)
  OBVIOUS
<1>5. wanted \in Nat /\ 2 * wanted * Price <= 2 * raised + Price
      /\ 2 * wanted * Price >= 2 * raised - Price
  BY <1>2, <1>3, <1>4, RoundsToNearest
<1>6. PICK total : total = IF wanted < TotalUnits THEN wanted ELSE TotalUnits
  OBVIOUS
<1>7. total \in 0 .. TotalUnits /\ (total < TotalUnits => total = wanted)
  BY <1>3, <1>5, <1>6
<1>8. s = R!LargestRemainder(w, S, total)
  BY <1>4, <1>6, SumIs DEF R!Shares
<1>9. CASE S # {}
  <2>1. total \in Nat
    BY <1>3, <1>7
  <2>2. /\ s \in [S -> Nat] /\ SumOver(s, S) = total
        /\ \A h \in S : /\ s[h] * raised > total * w[h] - raised
                        /\ s[h] * raised < total * w[h] + raised
    BY <1>1, <1>8, <1>9, <2>1, QuotasAreMet
  <2>3. DOMAIN s = S
    BY <2>2
  <2>4. R!SumFunction(s) = total /\ R!SumFunctionOnSet(w, S) = raised
    BY <2>2, <2>3, SumIs DEF R!SumFunction
  <2>5. total < TotalUnits => /\ 2 * total * Price <= 2 * raised + Price
                              /\ 2 * total * Price >= 2 * raised - Price
    BY <1>5, <1>7
  <2> QED
    BY <1>7, <2>2, <2>4, <2>5 DEF QuotasOf
<1>10. CASE S = {}
  <2>1. s \in [S -> Nat] /\ DOMAIN s = {}
    BY <1>8, <1>10 DEF R!LargestRemainder
  <2>2. R!SumFunction(s) = 0 /\ R!SumFunctionOnSet(w, S) = 0 /\ raised = 0
    BY <1>10, <2>1, SumIs, SumEmpty DEF R!SumFunction
  <2>3. 2 * 0 * Price <= 2 * 0 + Price /\ 2 * 0 * Price >= 2 * 0 - Price
    BY <1>3
  <2> QED
    BY <1>3, <1>10, <2>1, <2>2, <2>3 DEF QuotasOf
<1> QED
  BY <1>9, <1>10

-----------------------------------------------------------------------------
(* The inductive invariant.                                                *)

\* The certificates that were ever issued.
Given == {k \in R!Certs : cert[k].status # "none"}

Documents ==
  /\ cap \in [Holders -> Int] /\ invested \in [Holders -> Int] /\ begun \in 0 .. MaxBegun
  /\ units \in [Holders -> 0 .. TotalUnits] /\ issued \in 0 .. TotalUnits
  /\ cert \in [R!Certs -> R!CertDocs]
  /\ bound \in [Holders -> R!Certs \cup {None}]

\* Certificates that were given have an owner, who is the one that is linked.
Linked ==
  /\ \A k \in Given : cert[k].owner \in Holders
  /\ \A h \in Holders : bound[h] # None => bound[h] \in Given /\ cert[bound[h]].owner = h

\* k has the fields of a handler.
Formed(k) == DOMAIN k = {"step", "part", "last", "held", "todo", "old"}

\* The steps of each part.
RegistrySteps == {"capRead", "movedRead", "writeRow", "zeroRead", "zeroRow", "writeIssued"}
CertificateSteps ==
  {"ownersRead", "findActive", "issue", "replace", "exitsRead", "void", "reissue"}
BindingSteps ==
  {"bindRead", "bindRow", "staleRead", "staleCheck", "staleActive", "staleWrite"}

InPart(k) ==
  \/ k = R!Idle
  \/ k.part = "registry" /\ k.step \in RegistrySteps
  \/ k.part = "certificates" /\ k.step \in CertificateSteps
  \/ k.part = "binding" /\ k.step \in BindingSteps

\* Steps of a loop, which has something left to do.
Looping == {"writeRow", "zeroRow", "findActive", "issue", "replace", "void", "reissue",
            "bindRow", "staleCheck", "staleActive", "staleWrite"}

\* What a handler knows, whatever else is under way.
Informed(c) ==
  LET k == call[c]
  IN /\ Formed(k) /\ InPart(k) /\ k.last \in R!Parts \cup {None}
     /\ k.step # "idle" => k.last \in {None, k.part, "binding"}
     /\ k.last = None => k.step \in {"idle", "issue", "replace", "void", "reissue"}
     /\ k.step = "reissue" => k.last = None
     /\ k.step \in Looping => k.todo # {}
     /\ k.step = "movedRead" => k.held \in [Holders -> Int]
     /\ k.step \in {"writeRow", "zeroRead", "zeroRow", "writeIssued"} => Allotted(k.held)
     /\ k.step = "zeroRow" => k.todo \in SUBSET Holders
     /\ k.step = "writeRow" => k.todo \in SUBSET DOMAIN k.held
     /\ k.step \in {"findActive", "issue", "replace", "staleCheck", "staleActive", "staleWrite"} =>
          /\ DOMAIN k.held \in SUBSET Holders /\ k.todo \in SUBSET DOMAIN k.held
          /\ \A h \in k.todo : k.held[h] \in Nat
     /\ k.step \in {"issue", "replace", "staleWrite"} =>
          k.old = None \/ (k.old \in Given /\ cert[k.old].owner = R!Min(k.todo))
     /\ k.step = "replace" => k.old # None
     /\ k.step \in {"void", "reissue", "bindRow"} => k.todo \in SUBSET Given
     /\ k.step \in {"staleCheck", "staleActive", "staleWrite"} =>
          \A h \in k.todo : k.held[h] \in Given /\ cert[k.held[h]].owner = h

\* h has an active certificate over the units of its row.
Served(h) == \E x \in R!Active(h) : cert[x].units = units[h]

\* Whoever has active certificates is linked to one of them.
Linking == \A h \in Holders : R!Active(h) # {} => bound[h] \in R!Active(h)

\* What a handler that was alone has brought about since its part began.
Achieved(c) ==
  LET k == call[c]
      h == R!Min(k.todo)
  IN /\ k.step # "idle" => k.last # None
     /\ k.step = "movedRead" => k.held = invested
     /\ k.step \in {"writeRow", "zeroRead", "zeroRow", "writeIssued"} => k.held = R!Shares(cap)
     /\ k.step = "writeRow" => \A x \in DOMAIN k.held \ k.todo : units[x] = k.held[x]
     /\ k.step \in {"zeroRead", "zeroRow", "writeIssued"} =>
          \A x \in DOMAIN k.held : units[x] = k.held[x]
     /\ k.step = "zeroRow" => /\ k.todo \cap DOMAIN k.held = {}
                              /\ \A x \in Holders \ (DOMAIN k.held \cup k.todo) : units[x] = 0
     /\ k.step = "writeIssued" => \A x \in Holders \ DOMAIN k.held : units[x] = 0
     /\ k.step \in {"findActive", "issue", "replace", "exitsRead"} =>
          k.held = R!Restrict(units, R!Owners(units))
     /\ k.step \in {"findActive", "issue", "replace"} => \A x \in R!Owners(units) \ k.todo : Served(x)
     /\ k.step \in {"exitsRead", "void"} => \A x \in R!Owners(units) : Served(x)
     /\ k.step = "replace" => \E x \in R!Active(h) : x # k.old /\ cert[x].units = units[h]
     /\ k.step = "void" => /\ \A x \in k.todo : cert[x].owner \notin R!Owners(units)
                           /\ \A x \in Holders \ R!Owners(units) : R!Active(x) \in SUBSET k.todo
     /\ k.step = "bindRow" =>
          /\ \A x \in k.todo : cert[x].status = "active"
          /\ \A x \in Holders : bound[x] \in R!Active(x) \/ R!Active(x) \in SUBSET k.todo
     /\ k.step \in {"staleRead", "staleCheck", "staleActive", "staleWrite"} => Linking
     /\ k.step \in {"staleCheck", "staleActive", "staleWrite"} =>
          /\ \A x \in Holders \ k.todo : bound[x] \in R!AnyActive(x)
          /\ \A x \in k.todo : bound[x] = k.held[x]
     /\ k.step = "staleWrite" => k.old \in R!AnyActive(h)

\* What a part is there for.
InForce(part) ==
  /\ part = "registry" =>
       /\ \A h \in Holders : units[h] = IF h \in R!Owners(cap) THEN R!Shares(cap)[h] ELSE 0
       /\ issued = R!SumFunction(R!Shares(cap))
  /\ part = "certificates" =>
       \A h \in Holders : IF units[h] = 0 THEN R!Active(h) = {} ELSE Served(h)
  /\ part = "binding" => \A h \in Holders : bound[h] \in R!AnyActive(h)

CallsInformed == DOMAIN call = Calls /\ \A c \in Calls : Informed(c)
AloneProgresses == alone \in Calls \cup {None} /\ (alone # None => Achieved(alone))
HealedInForce == healed \in SUBSET R!Parts /\ \A part \in healed : InForce(part)

\* The invariant: besides types and links, what handlers know at every step
\* however they interleave; what the one that has been alone since its part
\* began has brought about so far; and that what it completed is in force until
\* somebody else acts.
RegistryInv == Documents /\ Linked /\ CallsInformed /\ AloneProgresses /\ HealedInForce

-----------------------------------------------------------------------------
(* What all steps have in common.                                          *)

LEMMA LeastIsIn ==
  ASSUME NEW S, S \in SUBSET Nat, S # {}
  PROVE  R!Min(S) \in S
<1> PICK less : less = {pair \in Nat \X Nat : pair[1] < pair[2]}
  OBVIOUS
<1>1. IsWellFoundedOn(less, Nat)
  BY NatLessThanWellFounded DEF OpToRel
<1>2. S \subseteq Nat
  OBVIOUS
<1>3. PICK x \in S : \A y \in S : ~(<<y, x>> \in less)
  BY <1>1, <1>2, WFMin
<1>4. ASSUME NEW y \in S PROVE x <= y
  <2>1. x \in Nat /\ y \in Nat /\ <<y, x>> \notin less
    BY <1>3
  <2>2. <<y, x>> \in Nat \X Nat /\ <<y, x>>[1] = y /\ <<y, x>>[2] = x
    BY <2>1
  <2>3. ~(y < x)
    BY <2>1, <2>2
  <2> QED
    BY <2>1, <2>3
<1> QED
  BY <1>4 DEF R!Min

LEMMA AllottedIsBounded ==
  ASSUME R!ConstantsFit, NEW s, Allotted(s), NEW h \in DOMAIN s
  PROVE  h \in Holders /\ s[h] \in 0 .. TotalUnits
<1>0. DOMAIN s \in SUBSET Holders /\ \A x \in DOMAIN s : s[x] \in Nat
  BY DEF Allotted
<1>1. IsFiniteSet(DOMAIN s)
  BY <1>0, FewHolders, FS_Subset
<1>2. SumOver(s, DOMAIN s) \in 0 .. TotalUnits
  BY SumIs DEF Allotted, R!SumFunction
<1>3. s[h] <= SumOver(s, DOMAIN s)
  BY <1>0, <1>1, SumAtLeast
<1> QED
  BY <1>0, <1>2, <1>3 DEF R!ConstantsFit

LEMMA IdleIsFormed ==
  /\ Formed(R!Idle) /\ R!Idle.step = "idle" /\ R!Idle.last = None /\ R!Idle.part = None
BY DEF Formed, R!Idle

\* A handler with another step, and one in its loop.
LEMMA FieldsOfLoop ==
  ASSUME NEW k, Formed(k), NEW step, NEW todo, NEW then, NEW g, g = R!Loop(k, step, todo, then)
  PROVE  /\ Formed(g) /\ g.part = k.part /\ g.last = k.last /\ g.held = k.held
         /\ g.old = k.old /\ g.todo = todo
         /\ todo = {} => g.step = then
         /\ todo # {} => g.step = step
BY DEF Formed, R!Loop

LEMMA FieldsOfHeldLoop ==
  ASSUME NEW k, Formed(k), NEW held, NEW step, NEW todo, NEW then,
         NEW g, g = R!Loop([k EXCEPT !.held = held], step, todo, then)
  PROVE  /\ Formed(g) /\ g.part = k.part /\ g.last = k.last /\ g.held = held
         /\ g.old = k.old /\ g.todo = todo
         /\ todo = {} => g.step = then
         /\ todo # {} => g.step = step
BY DEF Formed, R!Loop

LEMMA FieldsOfStep ==
  ASSUME NEW k, Formed(k), NEW step, NEW g, g = [k EXCEPT !.step = step]
  PROVE  /\ Formed(g) /\ g.part = k.part /\ g.last = k.last /\ g.held = k.held
         /\ g.old = k.old /\ g.todo = k.todo /\ g.step = step
BY DEF Formed

LEMMA FieldsOfHeld ==
  ASSUME NEW k, Formed(k), NEW held, NEW g, g = [k EXCEPT !.held = held]
  PROVE  /\ Formed(g) /\ g.part = k.part /\ g.last = k.last /\ g.held = held
         /\ g.old = k.old /\ g.todo = k.todo /\ g.step = k.step
BY DEF Formed

LEMMA FieldsOfOld ==
  ASSUME NEW k, Formed(k), NEW old, NEW g, g = [k EXCEPT !.old = old]
  PROVE  /\ Formed(g) /\ g.part = k.part /\ g.last = k.last /\ g.held = k.held
         /\ g.old = old /\ g.todo = k.todo /\ g.step = k.step
BY DEF Formed

LEMMA FieldsOfRun ==
  ASSUME NEW part, NEW last, NEW g, g = R!Run(part, last)
  PROVE  /\ Formed(g) /\ g.part = part /\ g.last = last /\ g.step = R!FirstStep(part)
BY DEF Formed, R!Run, R!Idle

LEMMA FirstSteps ==
  /\ R!FirstStep("registry") = "capRead" /\ R!FirstStep("certificates") = "ownersRead"
  /\ R!FirstStep("binding") = "bindRead"
  /\ "registry" \in R!Parts /\ "certificates" \in R!Parts /\ "binding" \in R!Parts
BY DEF R!FirstStep, R!Parts

LEMMA FieldsOfFound ==
  ASSUME NEW k, Formed(k), NEW step, NEW old, NEW g, g = [k EXCEPT !.step = step, !.old = old]
  PROVE  /\ Formed(g) /\ g.part = k.part /\ g.last = k.last /\ g.held = k.held
         /\ g.old = old /\ g.todo = k.todo /\ g.step = step
BY DEF Formed

LEMMA FieldsOfNext ==
  ASSUME NEW k, Formed(k), NEW step, NEW todo, NEW old,
         NEW g, g = [k EXCEPT !.step = step, !.todo = todo, !.old = old]
  PROVE  /\ Formed(g) /\ g.part = k.part /\ g.last = k.last /\ g.held = k.held
         /\ g.old = old /\ g.todo = todo /\ g.step = step
BY DEF Formed

LEMMA FieldsOfTodo ==
  ASSUME NEW k, Formed(k), NEW todo, NEW g, g = [k EXCEPT !.todo = todo]
  PROVE  /\ Formed(g) /\ g.part = k.part /\ g.last = k.last /\ g.held = k.held
         /\ g.old = k.old /\ g.todo = todo /\ g.step = k.step
BY DEF Formed

LEMMA GoesMoves ==
  ASSUME NEW c \in Calls, RegistryInv, NEW from, NEW g, NEW heals, R!Goes(c, from, g, heals)
  PROVE  /\ call[c].step = from /\ call'[c] = g /\ DOMAIN call' = Calls /\ begun' = begun
         /\ \A d \in Calls \ {c} : call'[d] = call[d]
BY DEF RegistryInv, CallsInformed, R!Goes

\* A part that begins knows nothing and has done nothing.
LEMMA RunIsFit ==
  ASSUME R!ConstantsFit, NEW c, NEW part \in R!Parts, NEW last \in {part, "binding"},
         call'[c] = R!Run(part, last)
  PROVE  Informed(c)' /\ Achieved(c)'
<1> PICK g : g = R!Run(part, last)
  OBVIOUS
<1>1. /\ Formed(g) /\ g.part = part /\ g.last = last /\ g.step = R!FirstStep(part)
  BY FieldsOfRun
<1>2. \/ part = "registry" /\ g.step = "capRead"
      \/ part = "certificates" /\ g.step = "ownersRead"
      \/ part = "binding" /\ g.step = "bindRead"
  BY <1>1, FirstSteps DEF R!Parts
<1>3. InPart(g)
  BY <1>1, <1>2 DEF InPart, RegistrySteps, CertificateSteps, BindingSteps
<1>4. last \in R!Parts /\ last # None
  BY DEF R!Parts, R!ConstantsFit
<1>5. call'[c] = g
  OBVIOUS
<1>6. Informed(c)'
  BY <1>1, <1>2, <1>3, <1>4, <1>5 DEF Informed, Looping
<1>7. Achieved(c)'
  BY <1>1, <1>2, <1>3, <1>4, <1>5 DEF Achieved
<1> QED
  BY <1>6, <1>7

LEMMA IdleIsFit ==
  ASSUME NEW c, call'[c] = R!Idle
  PROVE  Informed(c)' /\ Achieved(c)'
<1>1. /\ Formed(R!Idle) /\ R!Idle.step = "idle" /\ R!Idle.last = None
  BY IdleIsFormed
<1>2. InPart(R!Idle)
  BY DEF InPart
<1>3. Informed(c)'
  BY <1>1, <1>2 DEF Informed, Looping
<1>4. Achieved(c)'
  BY <1>1 DEF Achieved
<1> QED
  BY <1>3, <1>4

LEMMA EndedIsFit ==
  ASSUME R!ConstantsFit, NEW c, Informed(c), call[c] # R!Idle, call'[c] = R!Ended(call[c])
  PROVE  Informed(c)' /\ Achieved(c)'
<1> PICK k : k = call[c]
  OBVIOUS
<1>1. /\ k.part \in R!Parts /\ k.step # "idle" /\ k.last \in {None, k.part, "binding"}
  BY DEF Informed, InPart, RegistrySteps, CertificateSteps, BindingSteps, R!Parts
<1>2. CASE k.last \in {k.part, None}
  BY <1>2, IdleIsFit DEF R!Ended
<1>3. CASE k.last \notin {k.part, None}
  <2>1. k.last = "binding" /\ k.part \in {"registry", "certificates"}
    BY <1>1, <1>3 DEF R!Parts
  <2>2. call'[c] = R!Run(R!NextPart(k.part), "binding") /\ R!NextPart(k.part) \in R!Parts
    BY <1>3, <2>1 DEF R!Ended, R!NextPart, R!Parts
  <2> QED
    BY <2>2, RunIsFit
<1> QED
  BY <1>2, <1>3

\* Certificates are never taken back and keep their owners, which is all that
\* other handlers rely on.
CertificatesStay ==
  \A k \in Given : cert'[k].status # "none" /\ cert'[k].owner = cert[k].owner

LEMMA OthersStayInformed ==
  ASSUME NEW c, Informed(c), call'[c] = call[c], CertificatesStay
  PROVE  Informed(c)'
<1> PICK k : k = call[c]
  OBVIOUS
<1>1. call'[c] = k
  OBVIOUS
<1>2. \A x \in Given : x \in Given' /\ cert'[x].owner = cert[x].owner
  BY DEF CertificatesStay, Given
<1>4. /\ Formed(k) /\ InPart(k) /\ k.last \in R!Parts \cup {None}
      /\ k.step # "idle" => k.last \in {None, k.part, "binding"}
      /\ k.last = None => k.step \in {"idle", "issue", "replace", "void", "reissue"}
      /\ k.step = "reissue" => k.last = None
      /\ k.step \in Looping => k.todo # {}
      /\ k.step = "movedRead" => k.held \in [Holders -> Int]
      /\ k.step \in {"writeRow", "zeroRead", "zeroRow", "writeIssued"} => Allotted(k.held)
      /\ k.step = "zeroRow" => k.todo \in SUBSET Holders
      /\ k.step = "writeRow" => k.todo \in SUBSET DOMAIN k.held
      /\ k.step \in {"findActive", "issue", "replace", "staleCheck", "staleActive", "staleWrite"} =>
           /\ DOMAIN k.held \in SUBSET Holders /\ k.todo \in SUBSET DOMAIN k.held
           /\ \A h \in k.todo : k.held[h] \in Nat
      /\ k.step = "replace" => k.old # None
  BY DEF Informed
<1>5. k.step \in {"issue", "replace", "staleWrite"} =>
        k.old = None \/ (k.old \in Given /\ cert[k.old].owner = R!Min(k.todo))
  BY DEF Informed
<1>6. k.step \in {"void", "reissue", "bindRow"} => k.todo \in SUBSET Given
  BY DEF Informed
<1>7. k.step \in {"staleCheck", "staleActive", "staleWrite"} =>
        \A h \in k.todo : k.held[h] \in Given /\ cert[k.held[h]].owner = h
  BY DEF Informed
<1>8. k.step \in {"issue", "replace", "staleWrite"} =>
        k.old = None \/ (k.old \in Given' /\ cert'[k.old].owner = R!Min(k.todo))
  BY <1>2, <1>5
<1>9. k.step \in {"void", "reissue", "bindRow"} => k.todo \in SUBSET Given'
  BY <1>2, <1>6
<1>10. k.step \in {"staleCheck", "staleActive", "staleWrite"} =>
        \A h \in k.todo : k.held[h] \in Given' /\ cert'[k.held[h]].owner = h
  BY <1>2, <1>7
<1> QED
  BY <1>1, <1>4, <1>8, <1>9, <1>10 DEF Informed

\* What a step of a part must keep for all the other parts and handlers.
Keeps(part) ==
  /\ Documents' /\ Linked' /\ CertificatesStay /\ cap' = cap /\ invested' = invested
  /\ part # "registry" => units' = units /\ issued' = issued
  /\ part = "binding" => cert' = cert

LEMMA InForceStays ==
  ASSUME NEW part \in R!Parts, NEW p \in R!Parts \ R!From(part), InForce(p), Keeps(part)
  PROVE  InForce(p)'
<1>1. CASE part = "certificates"
  <2>1. p = "registry" /\ units' = units /\ issued' = issued /\ cap' = cap /\ invested' = invested
    BY <1>1 DEF R!From, R!Parts, Keeps
  <2> QED
    BY <2>1 DEF InForce
<1>2. CASE part = "binding"
  <2>1. /\ p \in {"registry", "certificates"}
        /\ units' = units /\ issued' = issued /\ cap' = cap /\ invested' = invested /\ cert' = cert
    BY <1>2 DEF R!From, R!Parts, Keeps
  <2>2. \A h \in Holders : R!Active(h)' = R!Active(h) /\ (Served(h)' <=> Served(h))
    BY <2>1 DEF R!Active, Served
  <2>3. CASE p = "registry"
    BY <2>1, <2>3 DEF InForce
  <2>4. CASE p = "certificates"
    BY <2>1, <2>2, <2>4 DEF InForce
  <2> QED
    BY <2>1, <2>3, <2>4
<1> QED
  BY <1>1, <1>2 DEF R!From, R!Parts

LEMMA GoesKeeps ==
  ASSUME R!ConstantsFit, RegistryInv, NEW c \in Calls, NEW from, NEW g, NEW heals, R!Goes(c,
         from, g, heals),
         NEW part \in R!Parts, part = call[c].part, Keeps(part), Informed(c)',
         alone = c \/ from = R!FirstStep(part) => Achieved(c)',
         heals /\ (alone = c \/ from = R!FirstStep(part)) => InForce(part)'
  PROVE  RegistryInv'
<1>1. Documents' /\ Linked' /\ CertificatesStay
  BY DEF Keeps
<1>2. CallsInformed /\ AloneProgresses /\ HealedInForce
  BY DEF RegistryInv
<1>3. /\ call[c].step = from /\ call'[c] = g /\ DOMAIN call' = Calls
      /\ \A d \in Calls \ {c} : call'[d] = call[d]
  BY GoesMoves
<1>4. CallsInformed'
  <2>1. ASSUME NEW d \in Calls PROVE Informed(d)'
    <3>1. CASE d = c
      BY <3>1
    <3>2. CASE d # c
      <4>1. call'[d] = call[d] /\ Informed(d)
        BY <1>2, <1>3, <3>2 DEF CallsInformed
      <4> QED
        BY <1>1, <4>1, OthersStayInformed
    <3> QED
      BY <3>1, <3>2
  <2> QED
    BY <1>3, <2>1 DEF CallsInformed
<1>5. PICK mine \in BOOLEAN : mine <=> (alone = c \/ from = R!FirstStep(part))
  OBVIOUS
<1>6. alone' = IF mine THEN c ELSE None
  BY <1>5 DEF R!Goes
<1>7. None \notin Calls
  BY DEF R!ConstantsFit
<1>8. AloneProgresses'
  <2>1. CASE mine
    <3>1. alone' = c /\ Achieved(c)'
      BY <1>5, <1>6, <2>1
    <3> QED
      BY <3>1 DEF AloneProgresses
  <2>2. CASE ~mine
    BY <1>6, <2>2 DEF AloneProgresses
  <2> QED
    BY <2>1, <2>2
<1>9. healed' = (healed \ R!From(part)) \cup {p \in {part} : heals /\ alone' = c}
  BY DEF R!Goes
<1>10. HealedInForce'
  <2>1. healed' \in SUBSET R!Parts
    BY <1>2, <1>9 DEF HealedInForce
  <2>2. ASSUME NEW p \in healed' PROVE InForce(p)'
    <3>1. CASE p \in healed \ R!From(part)
      <4>1. p \in R!Parts \ R!From(part) /\ InForce(p)
        BY <1>2, <3>1 DEF HealedInForce
      <4> QED
        BY <4>1, InForceStays
    <3>2. CASE p = part /\ heals /\ alone' = c
      <4>1. mine
        BY <1>6, <1>7, <3>2
      <4> QED
        BY <1>5, <3>2, <4>1
    <3> QED
      BY <1>9, <3>1, <3>2
  <2> QED
    BY <2>1, <2>2 DEF HealedInForce
<1> QED
  BY <1>1, <1>4, <1>8, <1>10 DEF RegistryInv

\* A step on the way, and the first and the last one of a part.
LEMMA WayKeeps ==
  ASSUME R!ConstantsFit, RegistryInv, NEW c \in Calls, NEW from, NEW g, R!Goes(c, from, g, FALSE),
         NEW part \in R!Parts, part = call[c].part, Keeps(part), Informed(c)',
         from # R!FirstStep(part), alone = c => Achieved(c)'
  PROVE  RegistryInv'
<1>1. alone = c \/ from = R!FirstStep(part) => Achieved(c)'
  OBVIOUS
<1>2. FALSE /\ (alone = c \/ from = R!FirstStep(part)) => InForce(part)'
  OBVIOUS
<1> QED
  BY <1>1, <1>2, GoesKeeps

LEMMA FirstKeeps ==
  ASSUME R!ConstantsFit, RegistryInv, NEW c \in Calls, NEW from, NEW g, R!Goes(c, from, g, FALSE),
         NEW part \in R!Parts, part = call[c].part, Keeps(part), Informed(c)', Achieved(c)'
  PROVE  RegistryInv'
<1>1. alone = c \/ from = R!FirstStep(part) => Achieved(c)'
  OBVIOUS
<1>2. FALSE /\ (alone = c \/ from = R!FirstStep(part)) => InForce(part)'
  OBVIOUS
<1> QED
  BY <1>1, <1>2, GoesKeeps

LEMMA FinishKeeps ==
  ASSUME R!ConstantsFit, RegistryInv, NEW c \in Calls, NEW from, R!Finish(c, from),
         call[c] # R!Idle,
         NEW part \in R!Parts, part = call[c].part, Keeps(part),
         from # R!FirstStep(part), alone = c => InForce(part)'
  PROVE  RegistryInv'
<1>1. CallsInformed /\ R!Goes(c, from, R!Ended(call[c]), TRUE)
  BY DEF RegistryInv, R!Finish
<1>2. call'[c] = R!Ended(call[c])
  BY <1>1, GoesMoves
<1>6. Informed(c)
  BY <1>1 DEF CallsInformed
<1>3. Informed(c)' /\ Achieved(c)'
  BY <1>2, <1>6, EndedIsFit
<1>4. alone = c \/ from = R!FirstStep(part) => Achieved(c)'
  BY <1>3
<1>5. TRUE /\ (alone = c \/ from = R!FirstStep(part)) => InForce(part)'
  OBVIOUS
<1> QED
  BY <1>1, <1>3, <1>4, <1>5, GoesKeeps

LEMMA Acting ==
  ASSUME R!ConstantsFit, RegistryInv, NEW c \in Calls
  PROVE  /\ Informed(c)
         /\ call[c].step \in RegistrySteps => call[c].part = "registry"
         /\ call[c].step \in CertificateSteps => call[c].part = "certificates"
         /\ call[c].step \in BindingSteps => call[c].part = "binding"
         /\ alone = c => Achieved(c)
<1>1. Informed(c)
  BY DEF RegistryInv, CallsInformed
<1>2. InPart(call[c])
  BY <1>1 DEF Informed
<1>3. alone = c => Achieved(c)
  BY DEF RegistryInv, AloneProgresses, R!ConstantsFit
<1>4. call[c] = R!Idle => call[c].step = "idle"
  BY IdleIsFormed
<1> QED
  BY <1>1, <1>2, <1>3, <1>4 DEF InPart, RegistrySteps, CertificateSteps, BindingSteps

LEMMA NothingChanges ==
  ASSUME RegistryInv, UNCHANGED <<cap, invested, begun, R!rows, cert, bound>>, NEW part
  PROVE  /\ Keeps(part)
         /\ cap' = cap /\ invested' = invested /\ units' = units /\ issued' = issued /\ cert' = cert /\ bound' = bound
<1>1. /\ cap' = cap /\ invested' = invested /\ begun' = begun /\ units' = units /\ issued' = issued
      /\ cert' = cert /\ bound' = bound
  BY DEF R!rows
<1>2. Documents'
  BY <1>1 DEF RegistryInv, Documents
<1>3. Linked'
  BY <1>1 DEF RegistryInv, Linked, Given
<1>4. CertificatesStay
  BY <1>1 DEF CertificatesStay, Given
<1> QED
  BY <1>1, <1>2, <1>3, <1>4 DEF Keeps

LEMMA RowsChange ==
  ASSUME RegistryInv, UNCHANGED <<cap, invested, begun, cert, bound>>,
         units' \in [Holders -> 0 .. TotalUnits], issued' \in 0 .. TotalUnits
  PROVE  Keeps("registry")
<1>2. Documents'
  BY DEF RegistryInv, Documents
<1>3. Linked'
  BY DEF RegistryInv, Linked, Given
<1>4. CertificatesStay
  BY DEF CertificatesStay, Given
<1> QED
  BY <1>2, <1>3, <1>4 DEF Keeps

-----------------------------------------------------------------------------
(* recompute_asset.                                                        *)

LEMMA CapReadKeeps ==
  ASSUME R!ConstantsFit, RegistryInv, NEW c \in Calls, R!CapRead(c)
  PROVE  RegistryInv'
<1> PICK k : k = call[c]
  OBVIOUS
<1>0. PICK g : g = [k EXCEPT !.step = "movedRead", !.held = invested]
  OBVIOUS
<1>1. R!Goes(c, "capRead", g, FALSE) /\ UNCHANGED <<cap, invested, R!rows, cert, bound>>
  BY <1>0 DEF R!CapRead, R!Go
<1>2. /\ k.step = "capRead" /\ call'[c] = g
      /\ UNCHANGED <<cap, invested, begun, R!rows, cert, bound>>
  BY <1>1, GoesMoves
<1>3. Informed(c) /\ k.part = "registry" /\ Formed(k)
  BY <1>2, Acting DEF RegistrySteps, Informed
<1>4. Keeps("registry") /\ cap' = cap /\ invested' = invested /\ units' = units
  BY <1>2, NothingChanges
<1>5. /\ Formed(g) /\ g.part = "registry" /\ g.last = k.last /\ g.held = invested
      /\ g.step = "movedRead"
  BY ONLY <1>0, <1>3 DEF Formed
<1>6. invested \in [Holders -> Int]
  BY DEF RegistryInv, Documents
<1>7. k.last \in R!Parts \cup {None} /\ k.last \in {None, "registry", "binding"} /\ k.last # None
  BY <1>2, <1>3 DEF Informed
<1>8. InPart(g)
  BY <1>5 DEF InPart, RegistrySteps
<1>9. Informed(c)'
  BY <1>2, <1>5, <1>6, <1>7, <1>8 DEF Informed, Looping
<1>10. Achieved(c)'
  BY <1>2, <1>4, <1>5, <1>7 DEF Achieved
<1> QED
  BY <1>1, <1>3, <1>4, <1>9, <1>10, FirstSteps, FirstKeeps

LEMMA MovedReadKeeps ==
  ASSUME R!ConstantsFit, RegistryInv, NEW c \in Calls, R!MovedRead(c)
  PROVE  RegistryInv'
<1> PICK k, w, share :
      /\ k = call[c] /\ w = [h \in Holders |-> k.held[h] + (cap[h] - invested[h])]
      /\ share = R!Shares(w)
  OBVIOUS
<1>0. PICK g : g = R!Loop([k EXCEPT !.held = share], "writeRow", DOMAIN share, "zeroRead")
  OBVIOUS
<1>1. R!Goes(c, "movedRead", g, FALSE) /\ UNCHANGED <<cap, invested, R!rows, cert, bound>>
  BY <1>0 DEF R!MovedRead, R!Go
<1>2. /\ k.step = "movedRead" /\ call'[c] = g
      /\ UNCHANGED <<cap, invested, begun, R!rows, cert, bound>>
  BY <1>1, GoesMoves
<1>3. Informed(c) /\ k.part = "registry" /\ Formed(k) /\ (alone = c => Achieved(c))
  BY <1>2, Acting DEF RegistrySteps, Informed
<1>4. Keeps("registry") /\ cap' = cap /\ invested' = invested /\ units' = units
  BY <1>2, NothingChanges
<1>5. /\ Formed(g) /\ g.part = "registry" /\ g.last = k.last /\ g.held = share
      /\ g.todo = DOMAIN share
      /\ DOMAIN share = {} => g.step = "zeroRead"
      /\ DOMAIN share # {} => g.step = "writeRow"
  BY ONLY <1>0, <1>3 DEF Formed, R!Loop
<1>6. cap \in [Holders -> Int] /\ invested \in [Holders -> Int] /\ k.held \in [Holders -> Int]
  BY <1>2, <1>3 DEF RegistryInv, Documents, Informed
<1>7. Allotted(share)
  <2>1. w \in [Holders -> Int]
    BY <1>6
  <2>2. QuotasOf(w, share) /\ R!Owners(w) \in SUBSET Holders
    BY <2>1, SharesAreQuotas, OwnersAreHolders
  <2>3. share \in [R!Owners(w) -> Nat] /\ R!SumFunction(share) \in 0 .. TotalUnits
    BY <2>2 DEF QuotasOf
  <2> QED
    BY <2>2, <2>3 DEF Allotted
<1>8. k.last \in R!Parts \cup {None} /\ k.last \in {None, "registry", "binding"} /\ k.last # None
  BY <1>2, <1>3 DEF Informed
<1>9. InPart(g)
  BY <1>5 DEF InPart, RegistrySteps
<1>10. Informed(c)'
  BY <1>2, <1>5, <1>7, <1>8, <1>9 DEF Informed, Looping
<1>11. ASSUME alone = c PROVE Achieved(c)'
  <2>1. k.held = invested
    BY <1>2, <1>3, <1>11 DEF Achieved
  <2>2. w = cap
    BY <1>6, <2>1
  <2>3. share = R!Shares(cap')
    BY <1>4, <2>2
  <2> QED
    BY <1>2, <1>4, <1>5, <1>8, <2>3 DEF Achieved
<1>12. "movedRead" # R!FirstStep("registry")
  BY FirstSteps
<1> QED
  BY <1>1, <1>3, <1>4, <1>10, <1>11, <1>12, FirstSteps, WayKeeps

LEMMA WriteRowKeeps ==
  ASSUME R!ConstantsFit, RegistryInv, NEW c \in Calls, R!WriteRow(c)
  PROVE  RegistryInv'
<1> PICK k, h : k = call[c] /\ h = R!Min(k.todo)
  OBVIOUS
<1>0. PICK g : g = R!Loop(k, "writeRow", k.todo \ {h}, "zeroRead")
  OBVIOUS
<1>1. /\ R!Goes(c, "writeRow", g, FALSE) /\ UNCHANGED <<cap, invested, issued, cert, bound>>
      /\ units' = [units EXCEPT ![h] = k.held[h]]
  BY <1>0 DEF R!WriteRow, R!Go
<1>2. k.step = "writeRow" /\ call'[c] = g /\ UNCHANGED begun
  BY <1>1, GoesMoves
<1>3. Informed(c) /\ k.part = "registry" /\ (alone = c => Achieved(c))
  BY <1>2, Acting DEF RegistrySteps
<1>4. /\ Formed(k) /\ k.todo # {} /\ Allotted(k.held) /\ k.todo \in SUBSET DOMAIN k.held
      /\ k.last \in R!Parts \cup {None} /\ k.last \in {None, "registry", "binding"}
           /\ k.last # None
  BY <1>2, <1>3 DEF Informed, Looping
<1>5. h \in k.todo
  <2>1. k.todo \in SUBSET Nat
    BY <1>4 DEF Allotted, R!ConstantsFit
  <2> QED
    BY <1>4, <2>1, LeastIsIn
<1>6. h \in Holders /\ k.held[h] \in 0 .. TotalUnits
  BY <1>4, <1>5, AllottedIsBounded
<1>7. units \in [Holders -> 0 .. TotalUnits] /\ issued \in 0 .. TotalUnits
  BY DEF RegistryInv, Documents
<1>8. Keeps("registry")
  BY <1>1, <1>2, <1>6, <1>7, RowsChange
<1>9. /\ Formed(g) /\ g.part = "registry" /\ g.last = k.last /\ g.held = k.held
      /\ g.todo = k.todo \ {h}
      /\ k.todo \ {h} = {} => g.step = "zeroRead"
      /\ k.todo \ {h} # {} => g.step = "writeRow"
  <2>1. Formed(k) /\ k.part = "registry"
    BY <1>3, <1>4
  <2> QED
    BY ONLY <1>0, <2>1 DEF Formed, R!Loop
<1>10. InPart(g)
  BY <1>9 DEF InPart, RegistrySteps
<1>11. Informed(c)'
  BY <1>2, <1>4, <1>9, <1>10 DEF Informed, Looping
<1>12. ASSUME alone = c PROVE Achieved(c)'
  <2>1. k.held = R!Shares(cap) /\ \A x \in DOMAIN k.held \ k.todo : units[x] = k.held[x]
    BY <1>2, <1>3, <1>12 DEF Achieved
  <2>2. \A x \in DOMAIN k.held \ g.todo : units'[x] = k.held[x]
    BY <1>1, <1>4, <1>6, <1>7, <1>9, <2>1 DEF Allotted
  <2>3. k.held = R!Shares(cap')
    BY <1>1, <2>1
  <2>4. g.todo = {} => \A x \in DOMAIN k.held : units'[x] = k.held[x]
    BY <2>2
  <2> QED
    BY <1>2, <1>4, <1>9, <2>2, <2>3, <2>4 DEF Achieved
<1>13. "writeRow" # R!FirstStep("registry")
  BY FirstSteps
<1> QED
  BY <1>1, <1>3, <1>8, <1>11, <1>12, <1>13, FirstSteps, WayKeeps

LEMMA ZeroReadKeeps ==
  ASSUME R!ConstantsFit, RegistryInv, NEW c \in Calls, R!ZeroRead(c)
  PROVE  RegistryInv'
<1> PICK k, gone : k = call[c] /\ gone = R!Owners(units) \ DOMAIN k.held
  OBVIOUS
<1> PICK g : g = R!Loop(k, "zeroRow", gone, "writeIssued")
  OBVIOUS
<1>1. R!Goes(c, "zeroRead", g, FALSE) /\ UNCHANGED <<cap, invested, R!rows, cert, bound>>
  BY DEF R!ZeroRead, R!Go
<1>2. k.step = "zeroRead" /\ call'[c] = g /\ UNCHANGED <<cap, invested, begun, R!rows, cert, bound>>
  BY <1>1, GoesMoves
<1>3. Informed(c) /\ k.part = "registry" /\ (alone = c => Achieved(c))
  BY <1>2, Acting DEF RegistrySteps
<1>4. /\ Formed(k) /\ Allotted(k.held)
      /\ k.last \in R!Parts \cup {None} /\ k.last \in {None, "registry", "binding"}
           /\ k.last # None
  BY <1>2, <1>3 DEF Informed
<1>5. Keeps("registry") /\ cap' = cap /\ invested' = invested /\ units' = units
  BY <1>2, NothingChanges
<1>6. units \in [Holders -> 0 .. TotalUnits]
  BY DEF RegistryInv, Documents
<1>7. gone \in SUBSET Holders
        /\ \A x \in Holders : x \in gone \/ x \in DOMAIN k.held \/ units[x] = 0
  BY <1>6 DEF R!Owners
<1>9. /\ Formed(g) /\ g.part = "registry" /\ g.last = k.last /\ g.held = k.held /\ g.todo = gone
      /\ g.step = IF gone = {} THEN "writeIssued" ELSE "zeroRow"
  BY <1>3, <1>4, FieldsOfLoop
<1>10. InPart(g)
  BY <1>9 DEF InPart, RegistrySteps
<1>11. Informed(c)'
  BY <1>2, <1>4, <1>7, <1>9, <1>10 DEF Informed, Looping
<1>12. ASSUME alone = c PROVE Achieved(c)'
  <2>1. k.held = R!Shares(cap) /\ \A x \in DOMAIN k.held : units[x] = k.held[x]
    BY <1>2, <1>3, <1>12 DEF Achieved
  <2> QED
    BY <1>2, <1>4, <1>5, <1>7, <1>9, <2>1 DEF Achieved
<1>13. "zeroRead" # R!FirstStep("registry")
  BY FirstSteps
<1> QED
  BY <1>1, <1>3, <1>5, <1>11, <1>12, <1>13, FirstSteps, WayKeeps

LEMMA ZeroRowKeeps ==
  ASSUME R!ConstantsFit, RegistryInv, NEW c \in Calls, R!ZeroRow(c)
  PROVE  RegistryInv'
<1> PICK k, h : k = call[c] /\ h = R!Min(k.todo)
  OBVIOUS
<1> PICK g : g = R!Loop(k, "zeroRow", k.todo \ {h}, "writeIssued")
  OBVIOUS
<1>1. /\ R!Goes(c, "zeroRow", g, FALSE) /\ UNCHANGED <<cap, invested, issued, cert, bound>>
      /\ units' = [units EXCEPT ![h] = 0]
  BY DEF R!ZeroRow, R!Go
<1>2. k.step = "zeroRow" /\ call'[c] = g /\ UNCHANGED begun
  BY <1>1, GoesMoves
<1>3. Informed(c) /\ k.part = "registry" /\ (alone = c => Achieved(c))
  BY <1>2, Acting DEF RegistrySteps
<1>4. /\ Formed(k) /\ k.todo # {} /\ Allotted(k.held) /\ k.todo \in SUBSET Holders
      /\ k.last \in R!Parts \cup {None} /\ k.last \in {None, "registry", "binding"}
           /\ k.last # None
  BY <1>2, <1>3 DEF Informed, Looping
<1>5. h \in k.todo
  <2>1. k.todo \in SUBSET Nat
    BY <1>4 DEF R!ConstantsFit
  <2> QED
    BY <1>4, <2>1, LeastIsIn
<1>7. /\ units \in [Holders -> 0 .. TotalUnits] /\ issued \in 0 .. TotalUnits
      /\ 0 \in 0 .. TotalUnits
  BY DEF RegistryInv, Documents, R!ConstantsFit
<1>8. Keeps("registry")
  BY <1>1, <1>2, <1>7, RowsChange
<1>9. /\ Formed(g) /\ g.part = "registry" /\ g.last = k.last /\ g.held = k.held
      /\ g.todo = k.todo \ {h}
      /\ g.step = IF k.todo \ {h} = {} THEN "writeIssued" ELSE "zeroRow"
  BY <1>3, <1>4, FieldsOfLoop
<1>10. InPart(g)
  BY <1>9 DEF InPart, RegistrySteps
<1>11. Informed(c)'
  BY <1>2, <1>4, <1>9, <1>10 DEF Informed, Looping
<1>12. ASSUME alone = c PROVE Achieved(c)'
  <2>1. /\ k.held = R!Shares(cap) /\ \A x \in DOMAIN k.held : units[x] = k.held[x]
        /\ k.todo \cap DOMAIN k.held = {}
        /\ \A x \in Holders \ (DOMAIN k.held \cup k.todo) : units[x] = 0
    BY <1>2, <1>3, <1>12 DEF Achieved
  <2>2. \A x \in DOMAIN k.held : units'[x] = k.held[x]
    BY <1>1, <1>4, <1>5, <1>7, <2>1 DEF Allotted
  <2>3. \A x \in Holders \ (DOMAIN k.held \cup g.todo) : units'[x] = 0
    BY <1>1, <1>4, <1>5, <1>7, <1>9, <2>1
  <2>4. g.todo \cap DOMAIN k.held = {}
    BY <1>9, <2>1
  <2> QED
    BY <1>1, <1>2, <1>4, <1>9, <2>1, <2>2, <2>3, <2>4 DEF Achieved
<1>13. "zeroRow" # R!FirstStep("registry")
  BY FirstSteps
<1> QED
  BY <1>1, <1>3, <1>8, <1>11, <1>12, <1>13, FirstSteps, WayKeeps

LEMMA WriteIssuedKeeps ==
  ASSUME R!ConstantsFit, RegistryInv, NEW c \in Calls, R!WriteIssued(c)
  PROVE  RegistryInv'
<1> PICK k : k = call[c]
  OBVIOUS
<1>1. /\ R!Finish(c, "writeIssued") /\ UNCHANGED <<cap, invested, units, cert, bound>>
      /\ issued' = R!SumFunction(k.held)
  BY DEF R!WriteIssued
<1>2. k.step = "writeIssued" /\ UNCHANGED begun
  BY <1>1 DEF R!Finish, R!Goes
<1>3. Informed(c) /\ k.part = "registry" /\ (alone = c => Achieved(c))
  BY <1>2, Acting DEF RegistrySteps
<1>4. k # R!Idle /\ Allotted(k.held)
  BY <1>2, <1>3, IdleIsFormed DEF Informed
<1>6. units \in [Holders -> 0 .. TotalUnits] /\ R!SumFunction(k.held) \in 0 .. TotalUnits
  BY <1>4 DEF RegistryInv, Documents, Allotted
<1>7. Keeps("registry")
  BY <1>1, <1>2, <1>6, RowsChange
<1>8. ASSUME alone = c PROVE InForce("registry")'
  <2>1. /\ k.held = R!Shares(cap) /\ \A x \in DOMAIN k.held : units[x] = k.held[x]
        /\ \A x \in Holders \ DOMAIN k.held : units[x] = 0
    BY <1>2, <1>3, <1>8 DEF Achieved
  <2>2. DOMAIN k.held = R!Owners(cap)
    <3>1. QuotasOf(cap, k.held)
      BY <2>1, SharesAreQuotas DEF RegistryInv, Documents
    <3> QED
      BY <3>1 DEF QuotasOf
  <2>3. \A x \in Holders : units[x] = IF x \in R!Owners(cap) THEN R!Shares(cap)[x] ELSE 0
    BY <2>1, <2>2
  <2> QED
    BY <1>1, <2>1, <2>3 DEF InForce
<1>13. "writeIssued" # R!FirstStep("registry")
  BY FirstSteps
<1> QED
  BY <1>1, <1>3, <1>4, <1>7, <1>8, <1>13, FirstSteps, FinishKeeps

-----------------------------------------------------------------------------
(* reconcile_asset.                                                        *)

LEMMA CertificatesChange ==
  ASSUME RegistryInv, UNCHANGED <<cap, invested, begun, R!rows, bound>>, cert' \in [R!Certs -> R!CertDocs],
         CertificatesStay, \A k \in Given' : cert'[k].owner \in Holders
  PROVE  Keeps("certificates") /\ units' = units /\ cap' = cap /\ invested' = invested
<1>1. cap' = cap /\ invested' = invested /\ begun' = begun /\ units' = units /\ issued' = issued /\ bound' = bound
  BY DEF R!rows
<1>2. Documents'
  BY <1>1 DEF RegistryInv, Documents
<1>3. Linked'
  <2>1. ASSUME NEW h \in Holders, bound'[h] # None
        PROVE  bound'[h] \in Given' /\ cert'[bound'[h]].owner = h
    <3>1. bound[h] \in Given /\ cert[bound[h]].owner = h
      BY <1>1, <2>1 DEF RegistryInv, Linked
    <3>2. cert'[bound[h]].status # "none" /\ cert'[bound[h]].owner = h
      BY <3>1 DEF CertificatesStay
    <3> QED
      BY <1>1, <3>1, <3>2 DEF Given
  <2> QED
    BY <2>1 DEF Linked
<1> QED
  BY <1>1, <1>2, <1>3 DEF Keeps

\* A certificate only changes its status.
LEMMA StatusChanges ==
  ASSUME RegistryInv, NEW k \in Given, NEW status \in {"replaced", "voided"}, R!SetStatus(k,
         status)
  PROVE  /\ cert' \in [R!Certs -> R!CertDocs] /\ CertificatesStay
         /\ \A x \in Given' : cert'[x].owner \in Holders
         /\ \A x \in R!Certs \ {k} : cert'[x] = cert[x]
         /\ cert'[k].status = status /\ cert'[k].owner = cert[k].owner
         /\ cert'[k].units = cert[k].units
<1>1. /\ cert \in [R!Certs -> R!CertDocs] /\ \A x \in Given : cert[x].owner \in Holders
      /\ k \in R!Certs
  BY DEF RegistryInv, Documents, Linked, Given
<1>2. cert[k] \in R!CertDocs
  BY <1>1
<1>3. cert' = [cert EXCEPT ![k] = [cert[k] EXCEPT !.status = status]]
  BY DEF R!SetStatus
<1>4. PICK doc : doc = [cert[k] EXCEPT !.status = status]
  OBVIOUS
<1>5. /\ doc \in R!CertDocs /\ doc.status = status /\ doc.owner = cert[k].owner
      /\ doc.units = cert[k].units
  BY <1>2, <1>4 DEF R!CertDocs
<1>6. cert' \in [R!Certs -> R!CertDocs] /\ cert'[k] = doc
        /\ \A x \in R!Certs \ {k} : cert'[x] = cert[x]
  BY <1>1, <1>3, <1>4, <1>5
<1>7. CertificatesStay
  BY <1>1, <1>5, <1>6 DEF CertificatesStay, Given
<1>8. \A x \in Given' : cert'[x].owner \in Holders
  BY <1>1, <1>5, <1>6 DEF Given
<1> QED
  BY <1>5, <1>6, <1>7, <1>8

\* A certificate of a new number.
LEMMA CertificateIsIssued ==
  ASSUME RegistryInv, NEW new \in R!Certs, cert[new].status = "none", NEW h \in Holders,
         NEW n \in Nat,
         cert' = [cert EXCEPT ![new] = [status |-> "active", owner |-> h, units |-> n]]
  PROVE  /\ cert' \in [R!Certs -> R!CertDocs] /\ CertificatesStay
         /\ \A x \in Given' : cert'[x].owner \in Holders
         /\ \A x \in R!Certs \ {new} : cert'[x] = cert[x]
         /\ new \in R!Active(h)' /\ cert'[new].units = n
<1>1. /\ cert \in [R!Certs -> R!CertDocs] /\ \A x \in Given : cert[x].owner \in Holders
  BY DEF RegistryInv, Documents, Linked
<1>2. PICK doc : doc = [status |-> "active", owner |-> h, units |-> n]
  OBVIOUS
<1>3. doc \in R!CertDocs /\ doc.status = "active" /\ doc.owner = h /\ doc.units = n
  BY <1>2 DEF R!CertDocs
<1>4. /\ cert' \in [R!Certs -> R!CertDocs] /\ cert'[new] = doc
      /\ \A x \in R!Certs \ {new} : cert'[x] = cert[x]
  BY <1>1, <1>2, <1>3
<1>5. CertificatesStay
  BY <1>4 DEF CertificatesStay, Given
<1>6. \A x \in Given' : cert'[x].owner \in Holders
  BY <1>1, <1>3, <1>4 DEF Given
<1>7. new \in R!Active(h)'
  BY <1>3, <1>4 DEF R!Active
<1> QED
  BY <1>3, <1>4, <1>5, <1>6, <1>7

\* Whoever reads the rows and the certificates finds the same in them.
LEMMA SameCertificates ==
  ASSUME cert' = cert, units' = units
  PROVE  /\ Given' = Given /\ \A h \in Holders : R!Active(h)' = R!Active(h)
         /\ \A h \in Holders : Served(h)' <=> Served(h)
         /\ R!Owners(units') = R!Owners(units)
<1>1. Given' = Given
  BY DEF Given
<1>2. \A h \in Holders : R!Active(h)' = R!Active(h)
  BY DEF R!Active
<1>3. \A h \in Holders : Served(h)' <=> Served(h)
  BY <1>2 DEF Served
<1> QED
  BY <1>1, <1>2, <1>3

LEMMA FieldsOfCertified ==
  ASSUME NEW k, Formed(k), NEW h, NEW g, g = R!Certified(k, h)
  PROVE  /\ k.last = None => g = R!Idle
         /\ k.last # None => /\ Formed(g) /\ g.part = k.part /\ g.last = k.last
                             /\ g.held = k.held /\ g.old = None /\ g.todo = k.todo \ {h}
                             /\ k.todo \ {h} = {} => g.step = "exitsRead"
                             /\ k.todo \ {h} # {} => g.step = "findActive"
<1>1. k.last = None => g = R!Idle
  BY DEF R!Certified
<1>2. ASSUME k.last # None
      PROVE  /\ Formed(g) /\ g.part = k.part /\ g.last = k.last
             /\ g.held = k.held /\ g.old = None /\ g.todo = k.todo \ {h}
             /\ k.todo \ {h} = {} => g.step = "exitsRead"
             /\ k.todo \ {h} # {} => g.step = "findActive"
  <2>1. g = R!Loop([k EXCEPT !.old = None], "findActive", k.todo \ {h}, "exitsRead")
    BY <1>2 DEF R!Certified
  <2> QED
    BY ONLY <2>1, Formed(k) DEF Formed, R!Loop
<1> QED
  BY <1>1, <1>2

\* The holder that a handler is about.
LEMMA AtHolder ==
  ASSUME R!ConstantsFit, NEW c, Informed(c), NEW k, k = call[c],
         k.step \in {"findActive", "issue", "replace", "staleCheck", "staleActive", "staleWrite"}
  PROVE  /\ Formed(k) /\ R!Min(k.todo) \in k.todo /\ k.todo \in SUBSET DOMAIN k.held
         /\ DOMAIN k.held \in SUBSET Holders /\ \A h \in k.todo : k.held[h] \in Nat
         /\ k.last \in R!Parts \cup {None}
<1>1. /\ Formed(k) /\ k.todo # {} /\ k.todo \in SUBSET DOMAIN k.held
      /\ DOMAIN k.held \in SUBSET Holders /\ \A h \in k.todo : k.held[h] \in Nat
      /\ k.last \in R!Parts \cup {None}
  BY DEF Informed, Looping
<1>2. k.todo \in SUBSET Nat
  BY <1>1 DEF R!ConstantsFit
<1> QED
  BY <1>1, <1>2, LeastIsIn

LEMMA CertifiedIsFit ==
  ASSUME R!ConstantsFit, NEW c, Informed(c), NEW k, k = call[c], k.step \in {"findActive",
         "issue", "replace"},
         k.part = "certificates", call'[c] = R!Certified(k, R!Min(k.todo))
  PROVE  /\ Informed(c)'
         /\ (/\ Achieved(c) /\ units' = units
             /\ \A x \in R!Owners(units) \ k.todo : Served(x)'
             /\ R!Min(k.todo) \in R!Owners(units) => Served(R!Min(k.todo))') => Achieved(c)'
<1> PICK g, h : g = R!Certified(k, h) /\ h = R!Min(k.todo)
  OBVIOUS
<1>0. call'[c] = g
  OBVIOUS
<1>1. CASE k.last = None
  <2>1. call'[c] = R!Idle
    BY <1>1 DEF R!Certified
  <2> QED
    BY <2>1, IdleIsFit
<1>2. CASE k.last # None
  <2>1. /\ Formed(k) /\ k.todo \in SUBSET DOMAIN k.held /\ DOMAIN k.held \in SUBSET Holders
        /\ \A x \in k.todo : k.held[x] \in Nat
    BY AtHolder
  <2>2. /\ Formed(g) /\ g.part = k.part /\ g.last = k.last
        /\ g.held = k.held /\ g.old = None /\ g.todo = k.todo \ {h}
        /\ k.todo \ {h} = {} => g.step = "exitsRead"
        /\ k.todo \ {h} # {} => g.step = "findActive"
    BY <1>2, <2>1, FieldsOfCertified
  <2>3. g.step \in {"exitsRead", "findActive"} /\ (g.step = "findActive" => g.todo # {})
        /\ (g.step = "exitsRead" => g.todo = {})
    BY <2>2
  <2>4. InPart(g)
    BY <2>2, <2>3 DEF InPart, CertificateSteps
  <2>5. k.last \in R!Parts \cup {None} /\ k.last \in {None, "certificates", "binding"}
    BY DEF Informed
  <2>6. Informed(c)'
    BY <1>0, <1>2, <2>1, <2>2, <2>3, <2>4, <2>5 DEF Informed, Looping
  <2>7. ASSUME Achieved(c), units' = units, \A x \in R!Owners(units) \ k.todo : Served(x)',
               h \in R!Owners(units) => Served(h)'
        PROVE  Achieved(c)'
    <3>1. k.held = R!Restrict(units, R!Owners(units))
      BY <2>7 DEF Achieved
    <3>2. \A x \in R!Owners(units') \ g.todo : Served(x)'
      BY <2>2, <2>7
    <3>3. k.held = R!Restrict(units', R!Owners(units'))
      BY <2>7, <3>1
    <3> QED
      BY <1>0, <1>2, <2>2, <2>3, <3>2, <3>3 DEF Achieved
  <2> QED
    BY <2>6, <2>7
<1> QED
  BY <1>1, <1>2

LEMMA OwnersReadKeeps ==
  ASSUME R!ConstantsFit, RegistryInv, NEW c \in Calls, R!OwnersRead(c)
  PROVE  RegistryInv'
<1> PICK k, S : k = call[c] /\ S = R!Owners(units)
  OBVIOUS
<1> PICK held : held = R!Restrict(units, S)
  OBVIOUS
<1>0. PICK g : g = R!Loop([k EXCEPT !.held = held], "findActive", S, "exitsRead")
  OBVIOUS
<1>1. R!Goes(c, "ownersRead", g, FALSE) /\ UNCHANGED <<cap, invested, R!rows, cert, bound>>
  BY <1>0 DEF R!OwnersRead, R!Go
<1>2. k.step = "ownersRead" /\ call'[c] = g /\ UNCHANGED <<cap, invested, begun, R!rows, cert, bound>>
  BY <1>1, GoesMoves
<1>3. Informed(c) /\ k.part = "certificates"
  BY <1>2, Acting DEF CertificateSteps
<1>12. Formed(k)
  BY <1>3 DEF Informed
<1>4. /\ k.last \in R!Parts \cup {None} /\ k.last \in {None, "certificates", "binding"}
      /\ k.last # None
  BY <1>2, <1>3 DEF Informed
<1>5. Keeps("certificates") /\ units' = units
  BY <1>2, NothingChanges
<1>6. S \in SUBSET Holders /\ DOMAIN held = S /\ \A h \in S : held[h] \in Nat
  <2>1. units \in [Holders -> 0 .. TotalUnits] /\ TotalUnits \in Nat
    BY DEF RegistryInv, Documents, R!ConstantsFit
  <2> QED
    BY <2>1 DEF R!Owners, R!Restrict
<1>7. /\ Formed(g) /\ g.part = k.part /\ g.last = k.last /\ g.held = held /\ g.todo = S
      /\ S = {} => g.step = "exitsRead"
      /\ S # {} => g.step = "findActive"
  BY ONLY <1>0, <1>12 DEF Formed, R!Loop
<1>8. g.step \in {"exitsRead", "findActive"} /\ (g.step = "findActive" => g.todo # {})
      /\ (g.step = "exitsRead" => R!Owners(units) = {})
  BY <1>7
<1>9. InPart(g)
  BY <1>3, <1>7, <1>8 DEF InPart, CertificateSteps
<1>10. Informed(c)'
  BY <1>2, <1>3, <1>4, <1>6, <1>7, <1>8, <1>9 DEF Informed, Looping
<1>11. Achieved(c)'
  BY <1>2, <1>4, <1>5, <1>7, <1>8 DEF Achieved
<1> QED
  BY <1>1, <1>3, <1>5, <1>10, <1>11, FirstSteps, FirstKeeps

LEMMA FindActiveKeeps ==
  ASSUME R!ConstantsFit, RegistryInv, NEW c \in Calls, R!FindActive(c)
  PROVE  RegistryInv'
<1> PICK k, h : k = call[c] /\ h = R!Min(k.todo)
  OBVIOUS
<1>1. PICK a \in R!AnyActive(h) :
        R!Goes(c, "findActive", IF a # None /\ cert[a].units = k.held[h] THEN R!Certified(k, h)
                              ELSE [k EXCEPT !.step = "issue", !.old = a], FALSE)
  BY DEF R!FindActive, R!Go
<1>17. PICK g : g = IF a # None /\ cert[a].units = k.held[h] THEN R!Certified(k, h)
                    ELSE [k EXCEPT !.step = "issue", !.old = a]
  OBVIOUS
<1>2. R!Goes(c, "findActive", g, FALSE)
  BY <1>1, <1>17
<1>0. UNCHANGED <<cap, invested, R!rows, cert, bound>>
  BY DEF R!FindActive
<1>16. k.step = "findActive" /\ call'[c] = g /\ begun' = begun
  BY <1>2, GoesMoves
<1>3. k.step = "findActive" /\ call'[c] = g /\ UNCHANGED <<cap, invested, begun, R!rows, cert, bound>>
  BY <1>0, <1>16
<1>4. Informed(c) /\ k.part = "certificates" /\ (alone = c => Achieved(c))
  BY <1>3, Acting DEF CertificateSteps
<1>5. /\ Formed(k) /\ h \in k.todo /\ k.todo \in SUBSET DOMAIN k.held
      /\ DOMAIN k.held \in SUBSET Holders /\ (\A x \in k.todo : k.held[x] \in Nat)
      /\ k.last \in R!Parts \cup {None}
  BY <1>3, <1>4, AtHolder
<1>14. Formed(k)
  BY <1>5
<1>6. k.last \in {None, "certificates", "binding"} /\ k.last # None
  BY <1>3, <1>4 DEF Informed
<1>7. Keeps("certificates") /\ units' = units /\ cert' = cert
  BY <1>3, NothingChanges
<1>8. Given' = Given /\ \A x \in Holders : Served(x)' <=> Served(x)
  BY <1>7, SameCertificates
<1>9. h \in Holders /\ (a = None \/ a \in R!Active(h))
  BY <1>5 DEF R!AnyActive
<1>10. a # None => a \in Given /\ cert[a].owner = h
  BY <1>9 DEF R!Active, Given
<1>11. R!Owners(units) \in SUBSET Holders
  BY DEF RegistryInv, Documents, R!Owners
<1>15. "findActive" # R!FirstStep("certificates")
  BY FirstSteps
<1>12. CASE a # None /\ cert[a].units = k.held[h]
  <2>1. call'[c] = R!Certified(k, h)
    BY <1>3, <1>12, <1>17
  <2>2. ASSUME alone = c PROVE Achieved(c)'
    <3>1. Achieved(c)
      BY <1>4, <2>2
    <3>2. k.held = R!Restrict(units, R!Owners(units))
      /\ \A x \in R!Owners(units) \ k.todo : Served(x)
      BY <1>3, <3>1 DEF Achieved
    <3>3. k.held[h] = units[h]
      BY <1>5, <3>2 DEF R!Restrict
    <3>4. Served(h)
      BY <1>9, <1>12, <3>3 DEF Served
    <3>5. \A x \in R!Owners(units) \ k.todo : Served(x)'
      BY <1>8, <1>11, <3>2
    <3> QED
      BY <1>3, <1>4, <1>7, <1>8, <1>9, <2>1, <3>1, <3>4, <3>5, CertifiedIsFit
  <2>3. Informed(c)'
    BY <1>3, <1>4, <2>1, CertifiedIsFit
  <2> QED
    BY <1>2, <1>4, <1>7, <2>2, <2>3, <1>15, FirstSteps, WayKeeps
<1>13. CASE ~(a # None /\ cert[a].units = k.held[h])
  <2>1. g = [k EXCEPT !.step = "issue", !.old = a]
    BY <1>13, <1>17
  <2>2. /\ Formed(g) /\ g.part = k.part /\ g.last = k.last /\ g.held = k.held /\ g.todo = k.todo
        /\ g.step = "issue" /\ g.old = a
    BY ONLY <1>14, <2>1 DEF Formed
  <2>3. InPart(g)
    BY <1>4, <2>2 DEF InPart, CertificateSteps
  <2>4. g.old = None \/ (g.old \in Given' /\ cert'[g.old].owner = R!Min(g.todo))
    BY <1>7, <1>8, <1>10, <2>2
  <2>5. Informed(c)'
    BY <1>3, <1>4, <1>5, <1>6, <2>2, <2>3, <2>4 DEF Informed, Looping
  <2>6. ASSUME alone = c PROVE Achieved(c)'
    <3>1. Achieved(c)
      BY <1>4, <2>6
    <3>2. k.held = R!Restrict(units, R!Owners(units))
      /\ \A x \in R!Owners(units) \ k.todo : Served(x)
      BY <1>3, <3>1 DEF Achieved
    <3>3. \A x \in R!Owners(units') \ g.todo : Served(x)'
      BY <1>7, <1>8, <1>11, <2>2, <3>2
    <3>4. g.held = R!Restrict(units', R!Owners(units'))
      BY <1>7, <2>2, <3>2
    <3> QED
      BY <1>3, <1>6, <2>2, <3>3, <3>4 DEF Achieved
  <2> QED
    BY <1>2, <1>4, <1>7, <2>5, <2>6, <1>15, FirstSteps, WayKeeps
<1> QED
  BY <1>12, <1>13

LEMMA IssueKeeps ==
  ASSUME R!ConstantsFit, RegistryInv, NEW c \in Calls, R!Issue(c)
  PROVE  RegistryInv'
<1> PICK k, h : k = call[c] /\ h = R!Min(k.todo)
  OBVIOUS
<1> PICK g : g = IF k.old = None THEN R!Certified(k, h) ELSE [k EXCEPT !.step = "replace"]
  OBVIOUS
<1>1. PICK new \in R!Certs :
        /\ cert[new].status = "none" /\ R!Goes(c, "issue", g, FALSE)
        /\ cert' = [cert EXCEPT ![new] = [status |-> "active", owner |-> h, units |-> k.held[h]]]
        /\ UNCHANGED <<cap, invested, R!rows, bound>>
  BY DEF R!Issue, R!Go
<1>2. R!Goes(c, "issue", g, FALSE)
  BY <1>1
<1>3. k.step = "issue" /\ call'[c] = g /\ UNCHANGED <<cap, invested, begun, R!rows, bound>>
  BY <1>1, <1>2, GoesMoves
<1>4. Informed(c) /\ k.part = "certificates" /\ (alone = c => Achieved(c))
  BY <1>3, Acting DEF CertificateSteps
<1>5. /\ Formed(k) /\ h \in k.todo /\ k.todo \in SUBSET DOMAIN k.held
      /\ DOMAIN k.held \in SUBSET Holders /\ (\A x \in k.todo : k.held[x] \in Nat)
      /\ k.last \in R!Parts \cup {None}
  BY <1>3, <1>4, AtHolder
<1>14. Formed(k)
  BY <1>5
<1>6. /\ k.last \in {None, "certificates", "binding"}
      /\ k.old = None \/ (k.old \in Given /\ cert[k.old].owner = h)
  BY <1>3, <1>4 DEF Informed
<1>7. /\ cert' \in [R!Certs -> R!CertDocs] /\ CertificatesStay
      /\ \A x \in Given' : cert'[x].owner \in Holders
      /\ \A x \in R!Certs \ {new} : cert'[x] = cert[x]
      /\ new \in R!Active(h)' /\ cert'[new].units = k.held[h]
  <2>1. h \in Holders /\ k.held[h] \in Nat
    BY <1>5
  <2> QED
    BY <1>1, <2>1, CertificateIsIssued
<1>8. Keeps("certificates") /\ units' = units
  BY <1>3, <1>7, CertificatesChange
<1>9. \A x \in Holders : Served(x) => Served(x)'
  BY <1>1, <1>7, <1>8 DEF Served, R!Active
<1>10. R!Owners(units) \in SUBSET Holders
  BY DEF RegistryInv, Documents, R!Owners
<1>11. ASSUME Achieved(c)
       PROVE  /\ k.held = R!Restrict(units, R!Owners(units)) /\ k.last # None
              /\ \A x \in R!Owners(units) \ k.todo : Served(x)'
              /\ k.held[h] = units[h]
  <2>1. /\ k.held = R!Restrict(units, R!Owners(units)) /\ k.last # None
        /\ \A x \in R!Owners(units) \ k.todo : Served(x)
    BY <1>3, <1>11 DEF Achieved
  <2> QED
    BY <1>5, <1>9, <1>10, <2>1 DEF R!Restrict
<1>15. "issue" # R!FirstStep("certificates")
  BY FirstSteps
<1>12. CASE k.old = None
  <2>1. call'[c] = R!Certified(k, h)
    BY <1>3, <1>12
  <2>2. ASSUME alone = c PROVE Achieved(c)'
    <3>1. Achieved(c) /\ \A x \in R!Owners(units) \ k.todo : Served(x)'
      BY <1>4, <1>11, <2>2
    <3>2. Served(h)'
      BY <1>7, <1>8, <1>11, <3>1 DEF Served
    <3> QED
      BY <1>3, <1>4, <1>8, <2>1, <3>1, <3>2, CertifiedIsFit
  <2>3. Informed(c)'
    BY <1>3, <1>4, <2>1, CertifiedIsFit
  <2> QED
    BY <1>2, <1>4, <1>8, <2>2, <2>3, <1>15, FirstSteps, WayKeeps
<1>13. CASE k.old # None
  <2>1. g = [k EXCEPT !.step = "replace"]
    BY <1>13
  <2>2. /\ Formed(g) /\ g.part = k.part /\ g.last = k.last /\ g.held = k.held /\ g.todo = k.todo
        /\ g.step = "replace" /\ g.old = k.old
    BY ONLY <1>14, <2>1, FieldsOfStep
  <2>3. InPart(g)
    BY <1>4, <2>2 DEF InPart, CertificateSteps
  <2>4. g.old \in Given' /\ cert'[g.old].owner = R!Min(g.todo) /\ g.old # new
    BY <1>1, <1>6, <1>7, <1>13, <2>2 DEF Given, CertificatesStay
  <2>5. Informed(c)'
    BY <1>3, <1>4, <1>5, <1>6, <1>13, <2>2, <2>3, <2>4 DEF Informed, Looping
  <2>6. ASSUME alone = c PROVE Achieved(c)'
    <3>1. Achieved(c)
      BY <1>4, <2>6
    <3>2. /\ \A x \in R!Owners(units') \ g.todo : Served(x)'
          /\ g.held = R!Restrict(units', R!Owners(units')) /\ g.last # None
      BY <1>8, <1>11, <2>2, <3>1
    <3>3. new \in R!Active(R!Min(g.todo))' /\ new # g.old
      /\ cert'[new].units = units'[R!Min(g.todo)]
      BY <1>7, <1>8, <1>11, <2>2, <2>4, <3>1
    <3>4. \E x \in R!Active(R!Min(g.todo))' : x # g.old /\ cert'[x].units = units'[R!Min(g.todo)]
      BY <3>3
    <3>5. call'[c] = g
      BY <1>3
    <3> QED
      BY <2>2, <3>2, <3>4, <3>5 DEF Achieved
  <2> QED
    BY <1>2, <1>4, <1>8, <2>5, <2>6, <1>15, FirstSteps, WayKeeps
<1> QED
  BY <1>12, <1>13

LEMMA ReplaceKeeps ==
  ASSUME R!ConstantsFit, RegistryInv, NEW c \in Calls, R!Replace(c)
  PROVE  RegistryInv'
<1> PICK k, h : k = call[c] /\ h = R!Min(k.todo)
  OBVIOUS
<1>1. /\ R!Goes(c, "replace", R!Certified(k, h), FALSE) /\ R!SetStatus(k.old, "replaced")
      /\ UNCHANGED <<cap, invested, R!rows, bound>>
  BY DEF R!Replace, R!Go
<1>2. k.step = "replace" /\ call'[c] = R!Certified(k, h)
        /\ UNCHANGED <<cap, invested, begun, R!rows, bound>>
  BY <1>1, GoesMoves
<1>3. Informed(c) /\ k.part = "certificates" /\ (alone = c => Achieved(c))
  BY <1>2, Acting DEF CertificateSteps
<1>4. k.old \in Given /\ cert[k.old].owner = h
  BY <1>2, <1>3 DEF Informed
<1>5. /\ cert' \in [R!Certs -> R!CertDocs] /\ CertificatesStay
      /\ \A x \in Given' : cert'[x].owner \in Holders
      /\ \A x \in R!Certs \ {k.old} : cert'[x] = cert[x]
  BY <1>1, <1>4, StatusChanges
<1>6. Keeps("certificates") /\ units' = units
  BY <1>2, <1>5, CertificatesChange
<1>7. Informed(c)'
  BY <1>2, <1>3, CertifiedIsFit
<1>8. ASSUME alone = c PROVE Achieved(c)'
  <2>1. Achieved(c)
    BY <1>3, <1>8
  <2>2. /\ \A x \in R!Owners(units) \ k.todo : Served(x)
        /\ \E x \in R!Active(h) : x # k.old /\ cert[x].units = units[h]
    BY <1>2, <2>1 DEF Achieved
  <2>3. h \in k.todo
    BY <1>2, <1>3, AtHolder
  <2>4. ASSUME NEW x \in R!Owners(units) \ k.todo PROVE Served(x)'
    <3>1. PICK y \in R!Active(x) : cert[y].units = units[x]
      BY <2>2 DEF Served
    <3>2. y \in R!Certs /\ cert[y].owner = x /\ cert[y].status = "active" /\ y # k.old
      BY <1>4, <2>3, <3>1 DEF R!Active
    <3> QED
      BY <1>5, <1>6, <3>1, <3>2 DEF Served, R!Active
  <2>5. Served(h)'
    <3>1. PICK y \in R!Active(h) : y # k.old /\ cert[y].units = units[h]
      BY <2>2
    <3>2. y \in R!Certs /\ cert[y].owner = h /\ cert[y].status = "active"
      BY <3>1 DEF R!Active
    <3> QED
      BY <1>5, <1>6, <3>1, <3>2 DEF Served, R!Active
  <2> QED
    BY <1>2, <1>3, <1>6, <2>1, <2>4, <2>5, CertifiedIsFit
<1>9. "replace" # R!FirstStep("certificates")
  BY FirstSteps
<1> QED
  BY <1>1, <1>3, <1>6, <1>7, <1>8, <1>9, FirstSteps, WayKeeps

LEMMA ExitsReadKeeps ==
  ASSUME R!ConstantsFit, RegistryInv, NEW c \in Calls, R!ExitsRead(c)
  PROVE  RegistryInv'
<1> PICK k : k = call[c]
  OBVIOUS
<1> PICK gone :
      gone = {x \in R!Certs : cert[x].status = "active" /\ cert[x].owner \notin DOMAIN k.held}
  OBVIOUS
<1>1. /\ IF gone = {} THEN R!Finish(c, "exitsRead")
         ELSE R!Goes(c, "exitsRead", R!Loop(k, "void", gone, "void"), FALSE)
      /\ UNCHANGED <<cap, invested, R!rows, cert, bound>>
  BY DEF R!ExitsRead, R!Go
<1>2. k.step = "exitsRead" /\ UNCHANGED begun
  BY <1>1 DEF R!Finish, R!Goes
<1>3. Informed(c) /\ k.part = "certificates" /\ (alone = c => Achieved(c))
  BY <1>2, Acting DEF CertificateSteps
<1>4. Formed(k) /\ k # R!Idle
  BY <1>2, <1>3, IdleIsFormed DEF Informed
<1>5. k.last \in R!Parts \cup {None} /\ k.last \in {None, "certificates", "binding"}
        /\ k.last # None
  BY <1>2, <1>3 DEF Informed
<1>6. /\ Keeps("certificates") /\ units' = units /\ cert' = cert
  BY <1>1, <1>2, NothingChanges
<1>7. /\ Given' = Given /\ \A x \in Holders : R!Active(x)' = R!Active(x) /\ (Served(x)' <=> Served(x))
  BY <1>6, SameCertificates
<1>8. units \in [Holders -> 0 .. TotalUnits] /\ R!Owners(units) \in SUBSET Holders
      /\ \A x \in Holders : x \notin R!Owners(units) <=> units[x] = 0
  BY DEF RegistryInv, Documents, R!Owners, R!ConstantsFit
<1>9. ASSUME Achieved(c)
      PROVE  /\ DOMAIN k.held = R!Owners(units) /\ \A x \in R!Owners(units) : Served(x)
             /\ \A x \in Holders \ R!Owners(units) : R!Active(x) \in SUBSET gone
  <2>1. k.held = R!Restrict(units, R!Owners(units)) /\ \A x \in R!Owners(units) : Served(x)
    BY <1>2, <1>9 DEF Achieved
  <2>2. DOMAIN k.held = R!Owners(units)
    BY <2>1 DEF R!Restrict
  <2> QED
    BY <2>1, <2>2 DEF R!Active
<1>10. "exitsRead" # R!FirstStep("certificates")
  BY FirstSteps
<1>11. CASE gone = {}
  <2>1. ASSUME alone = c PROVE InForce("certificates")'
    <3>1. Achieved(c)
      BY <1>3, <2>1
    <3>2. /\ \A x \in R!Owners(units) : Served(x)
          /\ \A x \in Holders \ R!Owners(units) : R!Active(x) = {}
      BY <1>9, <1>11, <3>1
    <3>3. ASSUME NEW x \in Holders
          PROVE  IF units'[x] = 0 THEN R!Active(x)' = {} ELSE Served(x)'
      <4>1. CASE units[x] = 0
        BY <1>6, <1>7, <1>8, <3>2, <4>1
      <4>2. CASE units[x] # 0
        BY <1>6, <1>7, <1>8, <3>2, <4>2
      <4> QED
        BY <4>1, <4>2
    <3> QED
      BY <3>3 DEF InForce
  <2> QED
    BY <1>1, <1>3, <1>4, <1>6, <1>10, <1>11, <2>1, FirstSteps, FinishKeeps
<1>12. CASE gone # {}
  <2>1. PICK g : g = R!Loop(k, "void", gone, "void")
    OBVIOUS
  <2>2. R!Goes(c, "exitsRead", g, FALSE)
    BY <1>1, <1>12, <2>1
  <2>3. call'[c] = g
    BY <2>2, GoesMoves
  <2>4. /\ Formed(g) /\ g.part = k.part /\ g.last = k.last /\ g.todo = gone /\ g.step = "void"
    BY <1>4, <1>12, <2>1, FieldsOfLoop
  <2>5. InPart(g)
    BY <1>3, <2>4 DEF InPart, CertificateSteps
  <2>6. gone \in SUBSET Given'
    BY <1>7 DEF Given
  <2>7. Informed(c)'
    BY <1>3, <1>5, <1>12, <2>3, <2>4, <2>5, <2>6 DEF Informed, Looping
  <2>8. ASSUME alone = c PROVE Achieved(c)'
    <3>1. Achieved(c)
      BY <1>3, <2>8
    <3>2. /\ \A x \in R!Owners(units') : Served(x)'
          /\ \A x \in Holders \ R!Owners(units') : R!Active(x)' \in SUBSET g.todo
          /\ \A x \in g.todo : cert'[x].owner \notin R!Owners(units')
      BY <1>6, <1>7, <1>8, <1>9, <2>4, <3>1
    <3> QED
      BY <1>5, <2>3, <2>4, <3>2 DEF Achieved
  <2> QED
    BY <1>3, <1>6, <1>10, <2>2, <2>7, <2>8, FirstSteps, WayKeeps
<1> QED
  BY <1>11, <1>12

LEMMA VoidKeeps ==
  ASSUME R!ConstantsFit, RegistryInv, NEW c \in Calls, R!Void(c)
  PROVE  RegistryInv'
<1> PICK k, x : k = call[c] /\ x = R!Min(k.todo)
  OBVIOUS
<1>1. /\ IF k.todo = {x} THEN R!Finish(c, "void")
         ELSE R!Goes(c, "void", [k EXCEPT !.todo = k.todo \ {x}], FALSE)
      /\ R!SetStatus(x, "voided") /\ UNCHANGED <<cap, invested, R!rows, bound>> /\ k.step = "void"
  BY DEF R!Void, R!Go
<1>2. UNCHANGED begun
  BY <1>1 DEF R!Finish, R!Goes
<1>3. Informed(c) /\ k.part = "certificates" /\ (alone = c => Achieved(c))
  BY <1>1, Acting DEF CertificateSteps
<1>4. Formed(k) /\ k # R!Idle /\ k.todo # {} /\ k.todo \in SUBSET Given
  BY <1>1, <1>3, IdleIsFormed DEF Informed, Looping
<1>5. k.last \in R!Parts \cup {None} /\ k.last \in {None, "certificates", "binding"}
  BY <1>1, <1>3 DEF Informed
<1>6. x \in k.todo
  <2>1. k.todo \in SUBSET Nat
    BY <1>4 DEF Given, R!Certs, R!ConstantsFit
  <2> QED
    BY <1>4, <2>1, LeastIsIn
<1>7. /\ cert' \in [R!Certs -> R!CertDocs] /\ CertificatesStay
      /\ \A y \in Given' : cert'[y].owner \in Holders
      /\ \A y \in R!Certs \ {x} : cert'[y] = cert[y]
      /\ cert'[x].status = "voided" /\ cert'[x].owner = cert[x].owner
  BY <1>1, <1>4, <1>6, StatusChanges
<1>8. Keeps("certificates") /\ units' = units
  BY <1>1, <1>2, <1>7, CertificatesChange
<1>9. units \in [Holders -> 0 .. TotalUnits] /\ R!Owners(units) \in SUBSET Holders
      /\ \A y \in Holders : y \notin R!Owners(units) <=> units[y] = 0
  BY DEF RegistryInv, Documents, R!Owners, R!ConstantsFit
<1>10. ASSUME Achieved(c)
       PROVE  /\ \A y \in R!Owners(units) : Served(y)'
              /\ \A y \in k.todo : cert[y].owner \notin R!Owners(units)
              /\ \A y \in Holders \ R!Owners(units) : R!Active(y)' \in SUBSET (k.todo \ {x})
              /\ k.last # None
  <2>1. /\ \A y \in R!Owners(units) : Served(y)
        /\ \A y \in k.todo : cert[y].owner \notin R!Owners(units)
        /\ \A y \in Holders \ R!Owners(units) : R!Active(y) \in SUBSET k.todo
        /\ k.last # None
    BY <1>1, <1>10 DEF Achieved
  <2>2. ASSUME NEW y \in R!Owners(units) PROVE Served(y)'
    <3>1. PICK z \in R!Active(y) : cert[z].units = units[y]
      BY <2>1 DEF Served
    <3>2. z \in R!Certs /\ cert[z].owner = y /\ cert[z].status = "active" /\ z # x
      BY <1>6, <2>1, <3>1 DEF R!Active
    <3> QED
      BY <1>7, <1>8, <3>1, <3>2 DEF Served, R!Active
  <2>3. ASSUME NEW y \in Holders \ R!Owners(units), NEW z \in R!Active(y)'
        PROVE  z \in k.todo \ {x}
    <3>1. z # x /\ z \in R!Active(y)
      BY <1>7, <2>3 DEF R!Active
    <3> QED
      BY <2>1, <3>1
  <2> QED
    BY <2>1, <2>2, <2>3
<1>11. "void" # R!FirstStep("certificates")
  BY FirstSteps
<1>12. CASE k.todo = {x}
  <2>1. ASSUME alone = c PROVE InForce("certificates")'
    <3>1. Achieved(c)
      BY <1>3, <2>1
    <3>2. /\ \A y \in R!Owners(units) : Served(y)'
          /\ \A y \in Holders \ R!Owners(units) : R!Active(y)' = {}
      BY <1>10, <1>12, <3>1
    <3>3. ASSUME NEW y \in Holders
          PROVE  IF units'[y] = 0 THEN R!Active(y)' = {} ELSE Served(y)'
      <4>1. CASE units[y] = 0
        BY <1>8, <1>9, <3>2, <4>1
      <4>2. CASE units[y] # 0
        BY <1>8, <1>9, <3>2, <4>2
      <4> QED
        BY <4>1, <4>2
    <3> QED
      BY <3>3 DEF InForce
  <2> QED
    BY <1>1, <1>3, <1>4, <1>8, <1>11, <1>12, <2>1, FirstSteps, FinishKeeps
<1>13. CASE k.todo # {x}
  <2>1. PICK g : g = [k EXCEPT !.todo = k.todo \ {x}]
    OBVIOUS
  <2>2. R!Goes(c, "void", g, FALSE)
    BY <1>1, <1>13, <2>1
  <2>3. call'[c] = g
    BY <2>2, GoesMoves
  <2>4. /\ Formed(g) /\ g.part = k.part /\ g.last = k.last /\ g.todo = k.todo \ {x}
        /\ g.step = k.step
    BY <1>4, <2>1, FieldsOfTodo
  <2>5. InPart(g)
    BY <1>1, <1>3, <2>4 DEF InPart, CertificateSteps
  <2>6. g.todo # {} /\ g.todo \in SUBSET Given'
    BY <1>4, <1>6, <1>7, <1>13, <2>4 DEF Given, CertificatesStay
  <2>7. Informed(c)'
    BY <1>1, <1>3, <1>5, <2>3, <2>4, <2>5, <2>6 DEF Informed, Looping
  <2>8. ASSUME alone = c PROVE Achieved(c)'
    <3>1. Achieved(c)
      BY <1>3, <2>8
    <3>2. /\ \A y \in R!Owners(units') : Served(y)'
          /\ \A y \in Holders \ R!Owners(units') : R!Active(y)' \in SUBSET g.todo
          /\ \A y \in g.todo : cert'[y].owner \notin R!Owners(units')
          /\ k.last # None
      BY <1>4, <1>7, <1>8, <1>10, <2>4, <3>1 DEF Given
    <3> QED
      BY <1>1, <2>3, <2>4, <3>2 DEF Achieved
  <2> QED
    BY <1>3, <1>8, <1>11, <2>2, <2>7, <2>8, FirstSteps, WayKeeps
<1> QED
  BY <1>12, <1>13

-----------------------------------------------------------------------------
(* bind_all.                                                               *)

LEMMA LinkChanges ==
  ASSUME RegistryInv, UNCHANGED <<cap, invested, begun, R!rows, cert>>, NEW h \in Holders, NEW x,
         x = None \/ (x \in Given /\ cert[x].owner = h), bound' = [bound EXCEPT ![h] = x]
  PROVE  Keeps("binding") /\ units' = units /\ cert' = cert
<1>1. cap' = cap /\ invested' = invested /\ begun' = begun /\ units' = units /\ issued' = issued /\ cert' = cert
  BY DEF R!rows
<1>2. bound \in [Holders -> R!Certs \cup {None}] /\ x \in R!Certs \cup {None}
  BY DEF RegistryInv, Documents, Given
<1>3. Documents'
  BY <1>1, <1>2 DEF RegistryInv, Documents
<1>4. Linked'
  BY <1>1, <1>2 DEF RegistryInv, Linked, Given
<1>5. CertificatesStay
  BY <1>1 DEF CertificatesStay, Given
<1> QED
  BY <1>1, <1>3, <1>4, <1>5 DEF Keeps

LEMMA SameActive ==
  ASSUME cert' = cert
  PROVE  Given' = Given /\ \A h \in Holders : R!Active(h)' = R!Active(h) /\ R!AnyActive(h)' = R!AnyActive(h)
BY DEF Given, R!Active, R!AnyActive

LEMMA BindReadKeeps ==
  ASSUME R!ConstantsFit, RegistryInv, NEW c \in Calls, R!BindRead(c)
  PROVE  RegistryInv'
<1> PICK k, S : k = call[c] /\ S = {x \in R!Certs : cert[x].status = "active"}
  OBVIOUS
<1>0. PICK g : g = R!Loop(k, "bindRow", S, "staleRead")
  OBVIOUS
<1>1. R!Goes(c, "bindRead", g, FALSE) /\ UNCHANGED <<cap, invested, R!rows, cert, bound>>
  BY <1>0 DEF R!BindRead, R!Go
<1>2. k.step = "bindRead" /\ call'[c] = g /\ UNCHANGED <<cap, invested, begun, R!rows, cert, bound>>
  BY <1>1, GoesMoves
<1>3. Informed(c) /\ k.part = "binding"
  BY <1>2, Acting DEF BindingSteps
<1>4. /\ Formed(k) /\ k.last \in R!Parts \cup {None} /\ k.last \in {None, "binding"}
      /\ k.last # None
  BY <1>2, <1>3 DEF Informed
<1>5. Keeps("binding") /\ cert' = cert /\ bound' = bound
  BY <1>2, NothingChanges
<1>6. Given' = Given /\ \A h \in Holders : R!Active(h)' = R!Active(h)
  BY <1>5, SameActive
<1>7. /\ Formed(g) /\ g.part = k.part /\ g.last = k.last /\ g.todo = S
      /\ S = {} => g.step = "staleRead"
      /\ S # {} => g.step = "bindRow"
  BY <1>0, <1>4, FieldsOfLoop
<1>8. S \in SUBSET Given' /\ \A h \in Holders : R!Active(h)' \in SUBSET S
  BY <1>6 DEF Given, R!Active
<1>9. g.step \in {"staleRead", "bindRow"}
  BY <1>7
<1>10. InPart(g)
  BY <1>3, <1>7, <1>9 DEF InPart, BindingSteps
<1>11. Informed(c)'
  BY <1>2, <1>3, <1>4, <1>7, <1>8, <1>9, <1>10 DEF Informed, Looping
<1>12. g.step = "staleRead" => Linking'
  BY <1>7, <1>8 DEF Linking
<1>13. g.step = "bindRow" => \A x \in g.todo : cert'[x].status = "active"
  BY <1>5, <1>7
<1>14. Achieved(c)'
  BY <1>2, <1>4, <1>7, <1>8, <1>9, <1>12, <1>13 DEF Achieved
<1> QED
  BY <1>1, <1>3, <1>5, <1>11, <1>14, FirstSteps, FirstKeeps

LEMMA BindRowKeeps ==
  ASSUME R!ConstantsFit, RegistryInv, NEW c \in Calls, R!BindRow(c)
  PROVE  RegistryInv'
<1> PICK k, x : k = call[c] /\ x = R!Min(k.todo)
  OBVIOUS
<1> PICK h : h = cert[x].owner
  OBVIOUS
<1>0. PICK g : g = R!Loop(k, "bindRow", k.todo \ {x}, "staleRead")
  OBVIOUS
<1>1. /\ R!Goes(c, "bindRow", g, FALSE) /\ UNCHANGED <<cap, invested, R!rows, cert>>
      /\ bound' = [bound EXCEPT ![h] = x]
  BY <1>0 DEF R!BindRow, R!Go
<1>2. k.step = "bindRow" /\ call'[c] = g /\ UNCHANGED <<cap, invested, begun, R!rows, cert>>
  BY <1>1, GoesMoves
<1>3. Informed(c) /\ k.part = "binding" /\ (alone = c => Achieved(c))
  BY <1>2, Acting DEF BindingSteps
<1>4. /\ Formed(k) /\ k.last \in R!Parts \cup {None} /\ k.last \in {None, "binding"}
      /\ k.last # None /\ k.todo # {} /\ k.todo \in SUBSET Given
  BY <1>2, <1>3 DEF Informed, Looping
<1>5. x \in k.todo
  <2>1. k.todo \in SUBSET Nat
    BY <1>4 DEF Given, R!Certs, R!ConstantsFit
  <2> QED
    BY <1>4, <2>1, LeastIsIn
<1>6. x \in Given /\ h \in Holders /\ bound \in [Holders -> R!Certs \cup {None}]
  BY <1>4, <1>5 DEF RegistryInv, Documents, Linked
<1>7. Keeps("binding") /\ cert' = cert
  BY <1>1, <1>2, <1>6, LinkChanges
<1>8. Given' = Given /\ \A y \in Holders : R!Active(y)' = R!Active(y)
  BY <1>7, SameActive
<1>9. /\ Formed(g) /\ g.part = k.part /\ g.last = k.last /\ g.todo = k.todo \ {x}
      /\ k.todo \ {x} = {} => g.step = "staleRead"
      /\ k.todo \ {x} # {} => g.step = "bindRow"
  BY <1>0, <1>4, FieldsOfLoop
<1>10. g.step \in {"staleRead", "bindRow"}
  BY <1>9
<1>11. InPart(g)
  BY <1>3, <1>9, <1>10 DEF InPart, BindingSteps
<1>12. Informed(c)'
  BY <1>2, <1>3, <1>4, <1>8, <1>9, <1>10, <1>11 DEF Informed, Looping
<1>13. ASSUME alone = c PROVE Achieved(c)'
  <2>1. Achieved(c)
    BY <1>3, <1>13
  <2>2. /\ \A y \in k.todo : cert[y].status = "active"
        /\ \A y \in Holders : bound[y] \in R!Active(y) \/ R!Active(y) \in SUBSET k.todo
    BY <1>2, <2>1 DEF Achieved
  <2>3. ASSUME NEW y \in Holders PROVE bound'[y] \in R!Active(y)' \/ R!Active(y)' \in SUBSET g.todo
    <3>1. CASE y = h
      <4>1. x \in R!Active(h)
        BY <1>5, <1>6, <2>2 DEF R!Active, Given
      <4> QED
        BY <1>1, <1>6, <1>8, <3>1, <4>1
    <3>2. CASE y # h
      <4>1. bound'[y] = bound[y] /\ x \notin R!Active(y)
        BY <1>1, <1>6, <3>2 DEF R!Active
      <4> QED
        BY <1>8, <1>9, <2>2, <4>1
    <3> QED
      BY <3>1, <3>2
  <2>4. g.step = "staleRead" => Linking'
    BY <1>9, <2>3 DEF Linking
  <2>5. \A y \in g.todo : cert'[y].status = "active"
    BY <1>7, <1>9, <2>2
  <2> QED
    BY <1>2, <1>4, <1>9, <1>10, <2>3, <2>4, <2>5 DEF Achieved
<1>14. "bindRow" # R!FirstStep("binding")
  BY FirstSteps
<1> QED
  BY <1>1, <1>3, <1>7, <1>12, <1>13, <1>14, FirstSteps, WayKeeps

LEMMA StaleReadKeeps ==
  ASSUME R!ConstantsFit, RegistryInv, NEW c \in Calls, R!StaleRead(c)
  PROVE  RegistryInv'
<1> PICK k, S : k = call[c] /\ S = {h \in Holders : bound[h] # None}
  OBVIOUS
<1> PICK held : held = R!Restrict(bound, S)
  OBVIOUS
<1>1. /\ IF S = {} THEN R!Finish(c, "staleRead")
         ELSE R!Goes(c, "staleRead", R!Loop([k EXCEPT !.held = held], "staleCheck", S, "staleCheck"),
                   FALSE)
      /\ UNCHANGED <<cap, invested, R!rows, cert, bound>>
  BY DEF R!StaleRead, R!Go
<1>2. k.step = "staleRead" /\ UNCHANGED begun
  BY <1>1 DEF R!Finish, R!Goes
<1>3. Informed(c) /\ k.part = "binding" /\ (alone = c => Achieved(c))
  BY <1>2, Acting DEF BindingSteps
<1>4. /\ Formed(k) /\ k # R!Idle
  BY <1>2, <1>3, IdleIsFormed DEF Informed
<1>5. k.last \in R!Parts \cup {None} /\ k.last \in {None, "binding"} /\ k.last # None
  BY <1>2, <1>3 DEF Informed
<1>6. Keeps("binding") /\ cert' = cert /\ bound' = bound
  BY <1>1, <1>2, NothingChanges
<1>7. /\ Given' = Given
      /\ \A h \in Holders : R!Active(h)' = R!Active(h) /\ R!AnyActive(h)' = R!AnyActive(h)
  BY <1>6, SameActive
<1>8. ASSUME Achieved(c), NEW h \in Holders \ S PROVE bound[h] \in R!AnyActive(h)
  <2>1. R!Active(h) # {} => bound[h] \in R!Active(h)
    BY <1>2, <1>8 DEF Achieved, Linking
  <2>2. bound[h] = None /\ None \notin R!Active(h)
    BY DEF R!Active, R!Certs, R!ConstantsFit
  <2> QED
    BY <2>1, <2>2 DEF R!AnyActive
<1>9. "staleRead" # R!FirstStep("binding")
  BY FirstSteps
<1>10. CASE S = {}
  <2>1. ASSUME alone = c PROVE InForce("binding")'
    <3>1. \A h \in Holders : bound[h] \in R!AnyActive(h)
      BY <1>3, <1>8, <1>10, <2>1
    <3>2. \A h \in Holders : bound'[h] \in R!AnyActive(h)'
      BY <1>6, <1>7, <3>1
    <3> QED
      BY <3>2 DEF InForce
  <2> QED
    BY <1>1, <1>3, <1>4, <1>6, <1>9, <1>10, <2>1, FirstSteps, FinishKeeps
<1>11. CASE S # {}
  <2>1. PICK g : g = R!Loop([k EXCEPT !.held = held], "staleCheck", S, "staleCheck")
    OBVIOUS
  <2>2. R!Goes(c, "staleRead", g, FALSE)
    BY <1>1, <1>11, <2>1
  <2>3. call'[c] = g
    BY <2>2, GoesMoves
  <2>4. Formed(k)
    BY <1>4
  <2>5. /\ Formed(g) /\ g.part = k.part /\ g.last = k.last /\ g.held = held /\ g.todo = S
        /\ g.step = "staleCheck"
    BY ONLY <1>11, <2>1, <2>4 DEF Formed, R!Loop
  <2>6. InPart(g)
    BY <1>3, <2>5 DEF InPart, BindingSteps
  <2>7. /\ DOMAIN held = S /\ S \in SUBSET Holders
        /\ \A h \in S : held[h] = bound[h] /\ held[h] \in Given /\ cert[held[h]].owner = h
    <3>1. \A h \in S : bound[h] \in Given /\ cert[bound[h]].owner = h
      BY DEF RegistryInv, Linked
    <3>2. held = [h \in S |-> bound[h]]
      BY DEF R!Restrict
    <3>3. S \in SUBSET Holders
      OBVIOUS
    <3> QED
      BY <3>1, <3>2, <3>3
  <2>8. \A h \in S : held[h] \in Nat /\ held[h] \in Given' /\ cert'[held[h]].owner = h
    BY <1>6, <1>7, <2>7 DEF Given, R!Certs
  <2>9. Informed(c)'
    <3>1. /\ DOMAIN g.held \in SUBSET Holders /\ g.todo \in SUBSET DOMAIN g.held
          /\ \A h \in g.todo : g.held[h] \in Nat
          /\ \A h \in g.todo : g.held[h] \in Given' /\ cert'[g.held[h]].owner = h
      BY <2>5, <2>7, <2>8
    <3> QED
      BY <1>3, <1>5, <1>11, <2>3, <2>5, <2>6, <3>1 DEF Informed, Looping
  <2>10. ASSUME alone = c PROVE Achieved(c)'
    <3>1. Achieved(c)
      BY <1>3, <2>10
    <3>2. Linking'
      BY <1>2, <1>6, <1>7, <3>1 DEF Achieved, Linking
    <3>3. \A h \in Holders \ g.todo : bound'[h] \in R!AnyActive(h)'
      BY <1>6, <1>7, <1>8, <2>5, <3>1
    <3>4. \A h \in g.todo : bound'[h] = g.held[h]
      BY <1>6, <2>5, <2>7
    <3> QED
      BY <1>5, <2>3, <2>5, <3>2, <3>3, <3>4 DEF Achieved
  <2> QED
    BY <1>3, <1>6, <1>9, <2>2, <2>9, <2>10, FirstSteps, WayKeeps
<1> QED
  BY <1>10, <1>11

\* A row whose link is right in the end.
LEMMA MendedKeeps ==
  ASSUME R!ConstantsFit, RegistryInv, NEW c \in Calls, NEW k, k = call[c], NEW h,
         h = R!Min(k.todo),
         NEW from \in {"staleCheck", "staleWrite"}, k.step = from, R!Mended(c, from, h),
         Keeps("binding"), cert' = cert, \A y \in Holders \ {h} : bound'[y] = bound[y],
         Achieved(c) => bound'[h] \in R!AnyActive(h)
  PROVE  RegistryInv'
<1>1. IF k.todo = {h} THEN R!Finish(c, from)
      ELSE R!Goes(c, from, [k EXCEPT !.step = "staleCheck", !.todo = k.todo \ {h}, !.old = None], FALSE)
  BY DEF R!Mended, R!Go
<1>2. Informed(c) /\ k.part = "binding" /\ (alone = c => Achieved(c))
  BY Acting DEF BindingSteps
<1>3. /\ Formed(k) /\ h \in k.todo /\ k.todo \in SUBSET DOMAIN k.held
      /\ DOMAIN k.held \in SUBSET Holders /\ (\A x \in k.todo : k.held[x] \in Nat)
      /\ k.last \in R!Parts \cup {None}
  BY <1>2, AtHolder
<1>4. k.last \in {None, "binding"} /\ k.last # None
  BY <1>2 DEF Informed
<1>5. k # R!Idle
  BY IdleIsFormed
<1>6. Given' = Given /\ \A y \in Holders : R!Active(y)' = R!Active(y) /\ R!AnyActive(y)' = R!AnyActive(y)
  BY SameActive
<1>7. ASSUME Achieved(c)
      PROVE  /\ \A y \in Holders \ (k.todo \ {h}) : bound'[y] \in R!AnyActive(y)'
             /\ \A y \in k.todo \ {h} : bound'[y] = k.held[y]
             /\ Linking'
  <2>1. /\ \A y \in Holders : R!Active(y) # {} => bound[y] \in R!Active(y)
        /\ \A y \in Holders \ k.todo : bound[y] \in R!AnyActive(y)
        /\ \A y \in k.todo : bound[y] = k.held[y]
    BY <1>7 DEF Achieved, Linking
  <2>2. h \in Holders /\ bound'[h] \in R!AnyActive(h)
    BY <1>3, <1>7
  <2>3. \A y \in Holders \ (k.todo \ {h}) : bound'[y] \in R!AnyActive(y)'
    BY <1>6, <2>1, <2>2
  <2>4. \A y \in k.todo \ {h} : bound'[y] = k.held[y]
    BY <1>3, <2>1
  <2>5. ASSUME NEW y \in Holders, R!Active(y)' # {} PROVE bound'[y] \in R!Active(y)'
    <3>1. CASE y = h
      BY <1>6, <2>2, <2>5, <3>1 DEF R!AnyActive
    <3>2. CASE y # h
      BY <1>6, <2>1, <2>5, <3>2
    <3> QED
      BY <3>1, <3>2
  <2> QED
    BY <2>3, <2>4, <2>5 DEF Linking
<1>8. from # R!FirstStep("binding")
  BY FirstSteps
<1>9. CASE k.todo = {h}
  <2>1. ASSUME alone = c PROVE InForce("binding")'
    <3>1. \A y \in Holders : bound'[y] \in R!AnyActive(y)'
      BY <1>2, <1>7, <1>9, <2>1
    <3> QED
      BY <3>1 DEF InForce
  <2> QED
    BY <1>1, <1>2, <1>5, <1>8, <1>9, <2>1, FirstSteps, FinishKeeps
<1>10. CASE k.todo # {h}
  <2>1. PICK g : g = [k EXCEPT !.step = "staleCheck", !.todo = k.todo \ {h}, !.old = None]
    OBVIOUS
  <2>2. R!Goes(c, from, g, FALSE)
    BY <1>1, <1>10, <2>1
  <2>3. call'[c] = g
    BY <2>2, GoesMoves
  <2>4. Formed(k)
    BY <1>3
  <2>5. /\ Formed(g) /\ g.part = k.part /\ g.last = k.last /\ g.held = k.held
        /\ g.old = None /\ g.todo = k.todo \ {h} /\ g.step = "staleCheck"
    BY ONLY <2>1, <2>4 DEF Formed
  <2>6. InPart(g)
    BY <1>2, <2>5 DEF InPart, BindingSteps
  <2>7. \A x \in k.todo : k.held[x] \in Given /\ cert[k.held[x]].owner = x
    BY <1>2 DEF Informed
  <2>8. Informed(c)'
    <3>1. /\ DOMAIN g.held \in SUBSET Holders /\ g.todo \in SUBSET DOMAIN g.held /\ g.todo # {}
          /\ \A x \in g.todo : g.held[x] \in Nat
          /\ \A x \in g.todo : g.held[x] \in Given' /\ cert'[g.held[x]].owner = x
      BY <1>3, <1>6, <1>10, <2>5, <2>7
    <3> QED
      BY <1>2, <1>3, <1>4, <2>3, <2>5, <2>6, <3>1 DEF Informed, Looping
  <2>9. ASSUME alone = c PROVE Achieved(c)'
    <3>1. /\ \A y \in Holders \ g.todo : bound'[y] \in R!AnyActive(y)'
          /\ \A y \in g.todo : bound'[y] = g.held[y]
          /\ Linking'
      BY <1>2, <1>7, <2>5, <2>9
    <3> QED
      BY <1>4, <2>3, <2>5, <3>1 DEF Achieved
  <2> QED
    BY <1>2, <1>8, <2>2, <2>8, <2>9, FirstSteps, WayKeeps
<1> QED
  BY <1>9, <1>10

LEMMA StaleCheckKeeps ==
  ASSUME R!ConstantsFit, RegistryInv, NEW c \in Calls, R!StaleCheck(c)
  PROVE  RegistryInv'
<1> PICK k, h : k = call[c] /\ h = R!Min(k.todo)
  OBVIOUS
<1>1. k.step = "staleCheck" /\ UNCHANGED <<cap, invested, R!rows, cert, bound>>
  BY DEF R!StaleCheck
<1>2. Informed(c) /\ k.part = "binding" /\ (alone = c => Achieved(c))
  BY <1>1, Acting DEF BindingSteps
<1>3. /\ Formed(k) /\ h \in k.todo /\ k.todo \in SUBSET DOMAIN k.held
      /\ DOMAIN k.held \in SUBSET Holders /\ (\A x \in k.todo : k.held[x] \in Nat)
      /\ k.last \in R!Parts \cup {None}
  BY <1>1, <1>2, AtHolder
<1>4. k.last \in {None, "binding"} /\ k.last # None
  BY <1>1, <1>2 DEF Informed
<1>5. \A x \in k.todo : k.held[x] \in Given /\ cert[k.held[x]].owner = x
  BY <1>1, <1>2 DEF Informed
<1>6. ASSUME Achieved(c)
      PROVE  /\ \A y \in Holders : R!Active(y) # {} => bound[y] \in R!Active(y)
             /\ \A y \in Holders \ k.todo : bound[y] \in R!AnyActive(y)
             /\ \A y \in k.todo : bound[y] = k.held[y]
  BY <1>1, <1>6 DEF Achieved, Linking
<1>7. CASE cert[k.held[h]].status = "active"
  <2>1. R!Mended(c, "staleCheck", h)
    BY <1>7 DEF R!StaleCheck
  <2>2. UNCHANGED begun
    BY <2>1 DEF R!Mended, R!Finish, R!Go, R!Goes
  <2>3. Keeps("binding") /\ cert' = cert /\ bound' = bound
    BY <1>1, <2>2, NothingChanges
  <2>4. k.held[h] \in R!AnyActive(h)
    BY <1>3, <1>5, <1>7 DEF R!AnyActive, R!Active, Given
  <2>5. Achieved(c) => bound'[h] \in R!AnyActive(h)
    BY <1>3, <1>6, <2>3, <2>4
  <2> QED
    BY <1>1, <2>1, <2>3, <2>5, MendedKeeps
<1>8. CASE cert[k.held[h]].status # "active"
  <2>1. PICK g : g = [k EXCEPT !.step = "staleActive"]
    OBVIOUS
  <2>2. R!Goes(c, "staleCheck", g, FALSE)
    BY <1>8, <2>1 DEF R!StaleCheck, R!Goto, R!Go
  <2>3. call'[c] = g /\ begun' = begun
    BY <2>2, GoesMoves
  <2>4. Keeps("binding") /\ cert' = cert /\ bound' = bound
    BY <1>1, <2>3, NothingChanges
  <2>5. Given' = Given /\ \A y \in Holders : R!Active(y)' = R!Active(y) /\ R!AnyActive(y)' = R!AnyActive(y)
    BY <2>4, SameActive
  <2>6. /\ Formed(g) /\ g.part = k.part /\ g.last = k.last /\ g.held = k.held
        /\ g.old = k.old /\ g.todo = k.todo /\ g.step = "staleActive"
    BY <1>3, <2>1, FieldsOfStep
  <2>7. InPart(g)
    BY <1>2, <2>6 DEF InPart, BindingSteps
  <2>8. Informed(c)'
    <3>1. /\ DOMAIN g.held \in SUBSET Holders /\ g.todo \in SUBSET DOMAIN g.held /\ g.todo # {}
          /\ \A x \in g.todo : g.held[x] \in Nat
          /\ \A x \in g.todo : g.held[x] \in Given' /\ cert'[g.held[x]].owner = x
      BY <1>3, <1>5, <2>4, <2>5, <2>6
    <3> QED
      BY <1>2, <1>3, <1>4, <2>3, <2>6, <2>7, <3>1 DEF Informed, Looping
  <2>9. ASSUME alone = c PROVE Achieved(c)'
    <3>1. /\ \A y \in Holders \ g.todo : bound'[y] \in R!AnyActive(y)'
          /\ \A y \in g.todo : bound'[y] = g.held[y]
          /\ Linking'
      BY <1>2, <1>3, <1>6, <2>4, <2>5, <2>6, <2>9 DEF Linking
    <3> QED
      BY <1>4, <2>3, <2>6, <3>1 DEF Achieved
  <2>10. "staleCheck" # R!FirstStep("binding")
    BY FirstSteps
  <2> QED
    BY <1>2, <2>2, <2>4, <2>8, <2>9, <2>10, FirstSteps, WayKeeps
<1> QED
  BY <1>7, <1>8

LEMMA StaleActiveKeeps ==
  ASSUME R!ConstantsFit, RegistryInv, NEW c \in Calls, R!StaleActive(c)
  PROVE  RegistryInv'
<1> PICK k, h : k = call[c] /\ h = R!Min(k.todo)
  OBVIOUS
<1>1. k.step = "staleActive" /\ UNCHANGED <<cap, invested, R!rows, cert, bound>>
  BY DEF R!StaleActive
<1>2. Informed(c) /\ k.part = "binding" /\ (alone = c => Achieved(c))
  BY <1>1, Acting DEF BindingSteps
<1>3. /\ Formed(k) /\ h \in k.todo /\ k.todo \in SUBSET DOMAIN k.held
      /\ DOMAIN k.held \in SUBSET Holders /\ (\A x \in k.todo : k.held[x] \in Nat)
      /\ k.last \in R!Parts \cup {None}
  BY <1>1, <1>2, AtHolder
<1>4. k.last \in {None, "binding"} /\ k.last # None
  BY <1>1, <1>2 DEF Informed
<1>5. \A x \in k.todo : k.held[x] \in Given /\ cert[k.held[x]].owner = x
  BY <1>1, <1>2 DEF Informed
<1>6. ASSUME Achieved(c)
      PROVE  /\ \A y \in Holders : R!Active(y) # {} => bound[y] \in R!Active(y)
             /\ \A y \in Holders \ k.todo : bound[y] \in R!AnyActive(y)
             /\ \A y \in k.todo : bound[y] = k.held[y]
  BY <1>1, <1>6 DEF Achieved, Linking
<1>7. PICK a \in R!AnyActive(h) :
        R!Goes(c, "staleActive", [k EXCEPT !.step = "staleWrite", !.old = a], FALSE)
  BY DEF R!StaleActive, R!Go
<1>8. PICK g : g = [k EXCEPT !.step = "staleWrite", !.old = a]
  OBVIOUS
<1>9. R!Goes(c, "staleActive", g, FALSE)
  BY <1>7, <1>8
<1>10. call'[c] = g /\ begun' = begun
  BY <1>9, GoesMoves
<1>11. Keeps("binding") /\ cert' = cert /\ bound' = bound
  BY <1>1, <1>10, NothingChanges
<1>12. Given' = Given /\ \A y \in Holders : R!Active(y)' = R!Active(y) /\ R!AnyActive(y)' = R!AnyActive(y)
  BY <1>11, SameActive
<1>13. Formed(k)
  BY <1>3
<1>14. /\ Formed(g) /\ g.part = k.part /\ g.last = k.last /\ g.held = k.held
      /\ g.old = a /\ g.todo = k.todo /\ g.step = "staleWrite"
  BY ONLY <1>8, <1>13 DEF Formed
<1>15. InPart(g)
  BY <1>2, <1>14 DEF InPart, BindingSteps
<1>16. a = None \/ (a \in Given /\ cert[a].owner = h)
  BY DEF R!AnyActive, R!Active, Given
<1>17. Informed(c)'
  <2>1. /\ DOMAIN g.held \in SUBSET Holders /\ g.todo \in SUBSET DOMAIN g.held /\ g.todo # {}
        /\ \A x \in g.todo : g.held[x] \in Nat
        /\ \A x \in g.todo : g.held[x] \in Given' /\ cert'[g.held[x]].owner = x
        /\ g.old = None \/ (g.old \in Given' /\ cert'[g.old].owner = R!Min(g.todo))
    BY <1>3, <1>5, <1>11, <1>12, <1>14, <1>16
  <2> QED
    BY <1>2, <1>3, <1>4, <1>10, <1>14, <1>15, <2>1 DEF Informed, Looping
<1>18. ASSUME alone = c PROVE Achieved(c)'
  <2>1. /\ \A y \in Holders \ g.todo : bound'[y] \in R!AnyActive(y)'
        /\ \A y \in g.todo : bound'[y] = g.held[y]
        /\ Linking'
    BY <1>2, <1>3, <1>6, <1>11, <1>12, <1>14, <1>18 DEF Linking
  <2>2. g.old \in R!AnyActive(R!Min(g.todo))'
    BY <1>3, <1>12, <1>14
  <2> QED
    BY <1>4, <1>10, <1>14, <2>1, <2>2 DEF Achieved
<1>19. "staleActive" # R!FirstStep("binding")
  BY FirstSteps
<1> QED
  BY <1>2, <1>9, <1>11, <1>17, <1>18, <1>19, FirstSteps, WayKeeps

LEMMA StaleWriteKeeps ==
  ASSUME R!ConstantsFit, RegistryInv, NEW c \in Calls, R!StaleWrite(c)
  PROVE  RegistryInv'
<1> PICK k, h : k = call[c] /\ h = R!Min(k.todo)
  OBVIOUS
<1>1. /\ k.step = "staleWrite" /\ R!Mended(c, "staleWrite", h)
      /\ UNCHANGED <<cap, invested, R!rows, cert>> /\ bound' = [bound EXCEPT ![h] = k.old]
  BY DEF R!StaleWrite
<1>2. Informed(c)
  BY Acting
<1>3. h \in Holders /\ (k.old = None \/ (k.old \in Given /\ cert[k.old].owner = h))
  <2>1. h \in k.todo /\ k.todo \in SUBSET DOMAIN k.held /\ DOMAIN k.held \in SUBSET Holders
    BY <1>1, <1>2, AtHolder
  <2>2. k.old = None \/ (k.old \in Given /\ cert[k.old].owner = h)
    BY <1>1, <1>2 DEF Informed
  <2> QED
    BY <2>1, <2>2
<1>4. UNCHANGED begun
  BY <1>1 DEF R!Mended, R!Finish, R!Go, R!Goes
<1>5. Keeps("binding") /\ cert' = cert
  BY <1>1, <1>3, <1>4, LinkChanges
<1>6. bound \in [Holders -> R!Certs \cup {None}]
  BY DEF RegistryInv, Documents
<1>7. \A y \in Holders \ {h} : bound'[y] = bound[y]
  BY <1>1, <1>6
<1>8. Achieved(c) => bound'[h] \in R!AnyActive(h)
  <2>1. Achieved(c) => k.old \in R!AnyActive(h)
    BY <1>1 DEF Achieved
  <2> QED
    BY <1>1, <1>3, <1>6, <2>1
<1> QED
  BY <1>1, <1>5, <1>7, <1>8, MendedKeeps

-----------------------------------------------------------------------------
(* Handlers that begin and break.                                          *)

LEMMA IdleIsInformed ==
  ASSUME NEW c, call[c] = R!Idle
  PROVE  Informed(c)
<1>1. /\ Formed(R!Idle) /\ R!Idle.step = "idle" /\ R!Idle.last = None
  BY IdleIsFormed
<1>2. InPart(R!Idle)
  BY DEF InPart
<1> QED
  BY <1>1, <1>2 DEF Informed, Looping

LEMMA WorldStays ==
  ASSUME RegistryInv, UNCHANGED <<cap, invested, R!rows, cert, bound>>, begun' \in 0 .. MaxBegun
  PROVE  /\ Documents' /\ Linked' /\ CertificatesStay
         /\ \A p \in R!Parts : InForce(p) => InForce(p)'
         /\ \A d \in Calls : Achieved(d) /\ call'[d] = call[d] => Achieved(d)'
<1>1. cap' = cap /\ invested' = invested /\ units' = units /\ issued' = issued /\ cert' = cert /\ bound' = bound
  BY DEF R!rows
<1>2. Documents'
  BY <1>1 DEF RegistryInv, Documents
<1>3. Linked'
  BY <1>1 DEF RegistryInv, Linked, Given
<1>4. CertificatesStay
  BY <1>1 DEF CertificatesStay, Given
<1>7. \A x : /\ R!Active(x)' = R!Active(x) /\ R!AnyActive(x)' = R!AnyActive(x)
             /\ (Served(x)' <=> Served(x))
  <2>1. \A x : R!Active(x)' = R!Active(x)
    BY <1>1 DEF R!Active
  <2> QED
    BY <1>1, <2>1 DEF R!AnyActive, Served
<1>5. ASSUME NEW p \in R!Parts, InForce(p) PROVE InForce(p)'
  <2>1. CASE p = "registry"
    BY <1>1, <1>5, <2>1 DEF InForce
  <2>2. CASE p = "certificates"
    BY <1>1, <1>5, <1>7, <2>2 DEF InForce
  <2>3. CASE p = "binding"
    BY <1>1, <1>5, <1>7, <2>3 DEF InForce
  <2> QED
    BY <2>1, <2>2, <2>3 DEF R!Parts
<1>6. ASSUME NEW d \in Calls, Achieved(d), call'[d] = call[d] PROVE Achieved(d)'
  <2>1. Linking' <=> Linking
    BY <1>1, <1>7 DEF Linking
  <2> QED
    BY <1>1, <1>6, <1>7, <2>1 DEF Achieved
<1> QED
  BY <1>2, <1>3, <1>4, <1>5, <1>6

\* One handler comes to know something else; nothing that it is about changes,
\* and either nobody is called alone any more or its own part has just begun.
LEMMA CallChanges ==
  ASSUME RegistryInv, UNCHANGED <<cap, invested, R!rows, cert, bound>>, begun' \in 0 .. MaxBegun,
         healed' = healed,
         NEW c \in Calls, NEW g, call' = [call EXCEPT ![c] = g], Informed(c)',
         alone' = None \/ (alone' = alone /\ Achieved(c)')
  PROVE  RegistryInv'
<1>1. /\ Documents' /\ Linked' /\ CertificatesStay
      /\ \A p \in R!Parts : InForce(p) => InForce(p)'
      /\ \A d \in Calls : Achieved(d) /\ call'[d] = call[d] => Achieved(d)'
  BY WorldStays
<1>2. CallsInformed /\ AloneProgresses /\ HealedInForce
  BY DEF RegistryInv
<1>3. DOMAIN call' = Calls /\ \A d \in Calls \ {c} : call'[d] = call[d]
  BY <1>2 DEF CallsInformed
<1>4. CallsInformed'
  <2>1. ASSUME NEW d \in Calls PROVE Informed(d)'
    <3>1. CASE d = c
      BY <3>1
    <3>2. CASE d # c
      <4>1. Informed(d) /\ call'[d] = call[d]
        BY <1>2, <1>3, <3>2 DEF CallsInformed
      <4> QED
        BY <1>1, <4>1, OthersStayInformed
    <3> QED
      BY <3>1, <3>2
  <2> QED
    BY <1>3, <2>1 DEF CallsInformed
<1>5. AloneProgresses'
  <2>1. CASE alone' = None
    BY <2>1 DEF AloneProgresses
  <2>2. CASE alone' = alone /\ alone # None /\ Achieved(c)'
    <3>1. alone \in Calls /\ Achieved(alone)
      BY <1>2, <2>2 DEF AloneProgresses
    <3>2. PICK d \in Calls : d = alone
      BY <3>1
    <3>3. Achieved(d)
      BY <3>1, <3>2
    <3>4. Achieved(d)'
      <4>1. CASE d = c
        BY <2>2, <4>1
      <4>2. CASE d # c
        BY <1>1, <1>3, <3>3, <4>2
      <4> QED
        BY <4>1, <4>2
    <3>5. alone' = d
      BY <2>2, <3>2
    <3> QED
      BY <3>4, <3>5 DEF AloneProgresses
  <2> QED
    BY <2>1, <2>2
<1>6. HealedInForce'
  BY <1>1, <1>2 DEF HealedInForce
<1> QED
  BY <1>1, <1>4, <1>5, <1>6 DEF RegistryInv

LEMMA Counts ==
  ASSUME R!ConstantsFit, RegistryInv, R!Count
  PROVE  begun' \in 0 .. MaxBegun
BY DEF RegistryInv, Documents, R!Count, R!ConstantsFit

LEMMA RebuildKeeps ==
  ASSUME R!ConstantsFit, RegistryInv, NEW c \in Calls, R!Rebuild(c)
  PROVE  RegistryInv'
<1>1. PICK part \in R!Parts : R!Begin(c, R!Run(part, part)) \/ R!Begin(c, R!Run(part, "binding"))
  BY FirstSteps DEF R!Rebuild
<1>6. PICK last \in {part, "binding"} : R!Begin(c, R!Run(part, last))
  BY <1>1
<1>2. UNCHANGED <<cap, invested, R!rows, cert, bound>> /\ alone' = alone /\ healed' = healed
  BY DEF R!Rebuild, R!watch
<1>3. begun' \in 0 .. MaxBegun /\ call' = [call EXCEPT ![c] = R!Run(part, last)]
  BY <1>6, Counts DEF R!Begin
<1>4. call'[c] = R!Run(part, last)
  BY <1>3 DEF RegistryInv, CallsInformed
<1>5. Informed(c)' /\ Achieved(c)'
  BY <1>4, RunIsFit
<1> QED
  BY <1>2, <1>3, <1>5, CallChanges

LEMMA BreakKeeps ==
  ASSUME R!ConstantsFit, RegistryInv, NEW c \in Calls, R!Break(c)
  PROVE  RegistryInv'
<1>1. PICK k \in {R!Ended(call[c]), R!Idle} : call' = [call EXCEPT ![c] = k]
  BY DEF R!Break
<1>2. /\ UNCHANGED <<cap, invested, R!rows, cert, bound>> /\ alone' = alone /\ healed' = healed
      /\ begun' = begun /\ call[c] # R!Idle
  BY DEF R!Break, R!watch
<1>3. call'[c] = k /\ Informed(c) /\ begun' \in 0 .. MaxBegun
  BY <1>1, <1>2 DEF RegistryInv, CallsInformed, Documents
<1>4. Informed(c)' /\ Achieved(c)'
  BY <1>1, <1>2, <1>3, EndedIsFit, IdleIsFit
<1> QED
  BY <1>1, <1>2, <1>3, <1>4, CallChanges

\* The row of a certificate's owner is read: there is nothing to issue, or what
\* is in it.
LEMMA ReissueReadKeeps ==
  ASSUME R!ConstantsFit, RegistryInv, NEW c \in Calls, R!ReissueRead(c)
  PROVE  RegistryInv'
<1> PICK k, x, h : k = call[c] /\ x = R!Min(k.todo) /\ h = cert[x].owner
  OBVIOUS
<1> PICK held : held = R!Restrict(units, {h})
  OBVIOUS
<1>1. PICK g : g = IF units[h] = 0 THEN [k EXCEPT !.step = "void"]
                   ELSE [k EXCEPT !.step = "issue", !.todo = {h}, !.held = held, !.old = x]
  OBVIOUS
<1>2. R!Goes(c, "reissue", g, FALSE) /\ UNCHANGED <<cap, invested, R!rows, cert, bound>>
  BY <1>1 DEF R!ReissueRead, R!Go
<1>3. k.step = "reissue" /\ call'[c] = g /\ begun' = begun
  BY <1>2, GoesMoves
<1>4. Informed(c) /\ k.part = "certificates" /\ (alone = c => Achieved(c))
  BY <1>3, Acting DEF CertificateSteps
<1>5. Formed(k) /\ k.todo # {} /\ k.todo \in SUBSET Given /\ k.last = None
  BY <1>3, <1>4 DEF Informed, Looping
<1>6. alone # c
  BY <1>3, <1>4, <1>5 DEF Achieved
<1>7. Keeps("certificates") /\ cert' = cert
  BY <1>2, <1>3, NothingChanges
<1>8. Given' = Given
  BY <1>7 DEF Given
<1>9. x \in Given
  <2>1. k.todo \in SUBSET Nat
    BY <1>5 DEF Given, R!Certs, R!ConstantsFit
  <2> QED
    BY <1>5, <2>1, LeastIsIn
<1>10. h \in Holders /\ units[h] \in Nat
  <2>1. h \in Holders
    BY <1>9 DEF RegistryInv, Linked
  <2>2. units \in [Holders -> 0 .. TotalUnits] /\ TotalUnits \in Nat
    BY DEF RegistryInv, Documents, R!ConstantsFit
  <2> QED
    BY ONLY <2>1, <2>2
<1>11. Informed(c)'
  <2>1. CASE units[h] = 0
    <3>1. /\ Formed(g) /\ g.part = k.part /\ g.last = k.last /\ g.todo = k.todo /\ g.step = "void"
      BY <1>1, <1>5, <2>1, FieldsOfStep
    <3>2. InPart(g)
      BY <1>4, <3>1 DEF InPart, CertificateSteps
    <3> QED
      BY <1>3, <1>4, <1>5, <1>8, <3>1, <3>2 DEF Informed, Looping
  <2>2. CASE units[h] # 0
    <3>1. g = [k EXCEPT !.step = "issue", !.todo = {h}, !.held = held, !.old = x]
      BY <1>1, <2>2
    <3>2. /\ Formed(g) /\ g.part = k.part /\ g.last = k.last /\ g.todo = {h}
          /\ g.step = "issue" /\ g.held = held /\ g.old = x
      BY ONLY <1>5, <3>1 DEF Formed
    <3>3. InPart(g)
      BY <1>4, <3>2 DEF InPart, CertificateSteps
    <3>4. DOMAIN held = {h} /\ held[h] \in Nat
      BY <1>10 DEF R!Restrict
    <3>5. g.old \in Given' /\ cert'[g.old].owner = R!Min(g.todo)
      <4>1. {h} \in SUBSET Nat /\ {h} # {}
        BY <1>10 DEF R!ConstantsFit
      <4>2. R!Min({h}) = h
        BY <4>1, LeastIsIn
      <4> QED
        BY <1>7, <1>8, <1>9, <3>2, <4>2
    <3>6. /\ DOMAIN g.held \in SUBSET Holders /\ g.todo \in SUBSET DOMAIN g.held /\ g.todo # {}
          /\ \A y \in g.todo : g.held[y] \in Nat
      BY <1>10, <3>2, <3>4
    <3> QED
      BY <1>3, <1>4, <1>5, <3>2, <3>3, <3>5, <3>6 DEF Informed, Looping
  <2> QED
    BY <2>1, <2>2
<1>12. "reissue" # R!FirstStep("certificates")
  BY FirstSteps
<1> QED
  BY <1>2, <1>4, <1>6, <1>7, <1>11, <1>12, FirstSteps, WayKeeps

LEMMA AdminKeeps ==
  ASSUME R!ConstantsFit, RegistryInv, NEW c \in Calls, R!Admin(c)
  PROVE  RegistryInv'
<1>0. CASE R!ReissueRead(c)
  BY <1>0, ReissueReadKeeps
<1> SUFFICES ASSUME NEW x \in R!Certs, R!AdminVoid(c, x) \/ R!AdminReissue(c, x)
    PROVE  RegistryInv'
  BY <1>0 DEF R!Admin
<1>2. UNCHANGED <<cap, invested, R!rows, cert, bound>> /\ alone' = None /\ healed' = healed
  BY DEF R!AdminVoid, R!AdminReissue, R!Disturb
<1>3. Formed(R!ForOne) /\ R!ForOne.part = "certificates" /\ R!ForOne.last = None
        /\ R!ForOne.old = None
  BY DEF R!ForOne, Formed, R!Idle
<1>4. Given' = Given /\ cert' = cert
  BY <1>2 DEF Given
<1>5. ASSUME NEW step \in {"void", "reissue"}, x \in Given,
             R!Begin(c, [R!ForOne EXCEPT !.step = step, !.todo = {x}])
      PROVE  RegistryInv'
  <2>1. PICK g : R!Begin(c, g) /\ g = [R!ForOne EXCEPT !.step = step, !.todo = {x}]
    BY <1>5
  <2>2. begun' \in 0 .. MaxBegun /\ call' = [call EXCEPT ![c] = g]
    BY <2>1, Counts DEF R!Begin
  <2>3. call'[c] = g
    BY <2>2 DEF RegistryInv, CallsInformed
  <2>4. /\ Formed(g) /\ g.part = "certificates" /\ g.last = None /\ g.todo = {x}
        /\ g.step = step
    BY <1>3, <2>1 DEF Formed
  <2>5. InPart(g)
    BY <2>4 DEF InPart, CertificateSteps
  <2>6. g.todo \in SUBSET Given'
    BY <1>4, <1>5, <2>4
  <2>7. Informed(c)'
    BY <2>3, <2>4, <2>5, <2>6 DEF Informed, Looping
  <2> QED
    BY <1>2, <2>2, <2>7, CallChanges
<1>6. CASE R!AdminVoid(c, x)
  BY <1>5, <1>6 DEF R!AdminVoid, Given
<1>7. CASE R!AdminReissue(c, x)
  BY <1>5, <1>7 DEF R!AdminReissue, Given
<1> QED
  BY <1>6, <1>7

\* Money changes hands: nobody is alone any more and nothing is known to be
\* right.
LEMMA CapChanges ==
  ASSUME RegistryInv, UNCHANGED <<R!rows, cert, bound>>, begun' \in 0 .. MaxBegun,
         cap' \in [Holders -> Int], invested' \in [Holders -> Int], R!Disturb(R!Parts), DOMAIN call' = Calls,
         \A c \in Calls : Informed(c)' \/ call'[c] = call[c]
  PROVE  RegistryInv'
<1>1. units' = units /\ issued' = issued /\ cert' = cert /\ bound' = bound
  BY DEF R!rows
<1>2. Documents'
  BY <1>1 DEF RegistryInv, Documents
<1>3. Linked'
  BY <1>1 DEF RegistryInv, Linked, Given
<1>4. CertificatesStay
  BY <1>1 DEF CertificatesStay, Given
<1>5. CallsInformed'
  <2>1. ASSUME NEW d \in Calls PROVE Informed(d)'
    <3>1. CASE call'[d] = call[d]
      <4>1. Informed(d)
        BY DEF RegistryInv, CallsInformed
      <4> QED
        BY <1>4, <3>1, <4>1, OthersStayInformed
    <3> QED
      BY <3>1
  <2> QED
    BY <2>1 DEF CallsInformed
<1>6. alone' = None /\ healed' = {}
  BY DEF R!Disturb, RegistryInv, HealedInForce
<1>7. AloneProgresses' /\ HealedInForce'
  BY <1>6 DEF AloneProgresses, HealedInForce
<1> QED
  BY <1>2, <1>3, <1>5, <1>7 DEF RegistryInv

LEMMA AmountsAreWhole ==
  ASSUME R!ConstantsFit
  PROVE  \A amount \in Amounts : amount \in Int
BY DEF R!ConstantsFit

LEMMA TransferKeeps ==
  ASSUME R!ConstantsFit, RegistryInv, NEW c \in Calls, NEW seller \in Holders,
         NEW buyer \in Holders,
         NEW amount \in Amounts, R!Transfer(c, seller, buyer, amount)
  PROVE  RegistryInv'
<1>1. /\ cap' = [cap EXCEPT ![seller] = @ - amount, ![buyer] = @ + amount]
      /\ R!Begin(c, R!Run("registry", "binding")) /\ R!Disturb(R!Parts)
      /\ invested' = invested /\ UNCHANGED <<R!rows, cert, bound>>
  BY DEF R!Transfer
<1>2. cap' \in [Holders -> Int] /\ invested' \in [Holders -> Int]
  BY <1>1, AmountsAreWhole DEF RegistryInv, Documents
<1>3. /\ begun' \in 0 .. MaxBegun /\ call' = [call EXCEPT ![c] = R!Run("registry", "binding")]
      /\ DOMAIN call = Calls
  BY <1>1, Counts DEF R!Begin, RegistryInv, CallsInformed
<1>4. call'[c] = R!Run("registry", "binding") /\ DOMAIN call' = Calls
      /\ \A d \in Calls \ {c} : call'[d] = call[d]
  BY <1>3
<1>5. Informed(c)'
  BY <1>4, FirstSteps, RunIsFit
<1>6. \A d \in Calls : Informed(d)' \/ call'[d] = call[d]
  BY <1>4, <1>5
<1> QED
  BY <1>1, <1>2, <1>3, <1>4, <1>6, CapChanges

LEMMA ActivateKeeps ==
  ASSUME R!ConstantsFit, RegistryInv, NEW h \in Holders, NEW amount \in Amounts, R!Activate(h,
         amount)
  PROVE  RegistryInv'
<1>1. /\ cap' = [cap EXCEPT ![h] = @ + amount] /\ invested' = [invested EXCEPT ![h] = @ + amount]
      /\ R!Count /\ R!Disturb(R!Parts) /\ UNCHANGED <<R!rows, cert, bound>> /\ call' = call
  BY DEF R!Activate
<1>2. cap' \in [Holders -> Int] /\ invested' \in [Holders -> Int]
  BY <1>1, AmountsAreWhole DEF RegistryInv, Documents
<1>3. begun' \in 0 .. MaxBegun /\ DOMAIN call' = Calls
  BY <1>1, Counts DEF RegistryInv, CallsInformed
<1>4. \A d \in Calls : Informed(d)' \/ call'[d] = call[d]
  BY <1>1
<1> QED
  BY <1>1, <1>2, <1>3, <1>4, CapChanges

-----------------------------------------------------------------------------
(* The invariant and what it implies.                                      *)

LEMMA InitRegistryInv ==
  ASSUME R!ConstantsFit, R!Init
  PROVE  RegistryInv
<1>1. Documents
  <2>1. \A k \in R!Certs : cert[k] \in R!CertDocs
    BY DEF R!Init, R!CertDocs
  <2>2. cert \in [R!Certs -> R!CertDocs]
    BY <2>1 DEF R!Init
  <2> QED
    BY <2>2 DEF R!Init, Documents, R!ConstantsFit
<1>2. Linked
  BY DEF R!Init, Linked, Given
<1>3. CallsInformed
  <2>1. DOMAIN call = Calls /\ \A c \in Calls : call[c] = R!Idle
    BY DEF R!Init
  <2> QED
    BY <2>1, IdleIsInformed DEF CallsInformed
<1>4. AloneProgresses /\ HealedInForce
  BY DEF R!Init, AloneProgresses, HealedInForce
<1> QED
  BY <1>1, <1>2, <1>3, <1>4 DEF RegistryInv

LEMMA StepRegistryInv ==
  ASSUME R!ConstantsFit, RegistryInv, [R!Next]_(R!vars)
  PROVE  RegistryInv'
<1>1. CASE \E h \in Holders, amount \in Amounts : R!Activate(h, amount)
  BY <1>1, ActivateKeeps
<1>2. ASSUME NEW c \in Calls,
             \E seller, buyer \in Holders, amount \in Amounts : R!Transfer(c, seller, buyer, amount)
      PROVE  RegistryInv'
  BY <1>2, TransferKeeps
<1>3. ASSUME NEW c \in Calls, R!Rebuild(c) \/ R!Admin(c) \/ R!Break(c) PROVE RegistryInv'
  BY <1>3, RebuildKeeps, AdminKeeps, BreakKeeps
<1>4. ASSUME NEW c \in Calls, R!Recompute(c) PROVE RegistryInv'
  BY <1>4, CapReadKeeps, MovedReadKeeps, WriteRowKeeps, ZeroReadKeeps, ZeroRowKeeps, WriteIssuedKeeps
     DEF R!Recompute
<1>5. ASSUME NEW c \in Calls, R!Reconcile(c) PROVE RegistryInv'
  BY <1>5, OwnersReadKeeps, FindActiveKeeps, IssueKeeps, ReplaceKeeps, ExitsReadKeeps, VoidKeeps
     DEF R!Reconcile
<1>6. ASSUME NEW c \in Calls, R!Bind(c) PROVE RegistryInv'
  BY <1>6, BindReadKeeps, BindRowKeeps, StaleReadKeeps, StaleCheckKeeps, StaleActiveKeeps,
     StaleWriteKeeps
     DEF R!Bind
<1>7. CASE UNCHANGED R!vars
  <2>1. /\ UNCHANGED <<cap, invested, R!rows, cert, bound>> /\ begun' = begun /\ call' = call
        /\ alone' = alone /\ healed' = healed
    BY <1>7 DEF R!vars, R!watch
  <2>2. begun' \in 0 .. MaxBegun
    BY <2>1 DEF RegistryInv, Documents
  <2>3. /\ Documents' /\ Linked' /\ CertificatesStay
        /\ \A p \in R!Parts : InForce(p) => InForce(p)'
        /\ \A d \in Calls : Achieved(d) /\ call'[d] = call[d] => Achieved(d)'
    BY <2>1, <2>2, WorldStays
  <2>4. CallsInformed'
    <3>1. DOMAIN call' = Calls
      BY <2>1 DEF RegistryInv, CallsInformed
    <3>2. ASSUME NEW c \in Calls PROVE Informed(c)'
      <4>1. Informed(c) /\ call'[c] = call[c]
        BY <2>1 DEF RegistryInv, CallsInformed
      <4> QED
        BY <2>3, <4>1, OthersStayInformed
    <3> QED
      BY <3>1, <3>2 DEF CallsInformed
  <2>5. AloneProgresses'
    <3>1. CASE alone = None
      BY <2>1, <3>1 DEF AloneProgresses
    <3>2. CASE alone # None
      <4>1. PICK d \in Calls : d = alone /\ Achieved(d)
        BY <3>2 DEF RegistryInv, AloneProgresses
      <4>2. Achieved(d)' /\ alone' = d
        BY <2>1, <2>3, <4>1
      <4> QED
        BY <4>2 DEF AloneProgresses
    <3> QED
      BY <3>1, <3>2
  <2>6. HealedInForce'
    BY <2>1, <2>3 DEF RegistryInv, HealedInForce
  <2> QED
    BY <2>3, <2>4, <2>5, <2>6 DEF RegistryInv
<1> QED
  BY <1>1, <1>2, <1>3, <1>4, <1>5, <1>6, <1>7 DEF R!Next

LEMMA SafeRegistryInv ==
  ASSUME R!ConstantsFit
  PROVE  R!Spec => []RegistryInv
<1>1. R!Init => RegistryInv
  BY InitRegistryInv
<1>2. RegistryInv /\ [R!Next]_(R!vars) => RegistryInv'
  BY StepRegistryInv
<1> QED
  BY <1>1, <1>2, PTL DEF R!Spec

LEMMA InvRegistryTypes ==
  ASSUME RegistryInv
  PROVE  R!TypeOK
<1>1. ASSUME NEW c \in Calls
      PROVE  call[c].part \in R!Parts \cup {None} /\ call[c].last \in R!Parts \cup {None}
  <2>1. Informed(c)
    BY DEF RegistryInv, CallsInformed
  <2> QED
    BY <2>1, IdleIsFormed, FirstSteps DEF Informed, InPart
<1> QED
  BY <1>1 DEF RegistryInv, Documents, AloneProgresses, HealedInForce, R!TypeOK

LEMMA InvQuotas ==
  ASSUME R!ConstantsFit, RegistryInv
  PROVE  RegistryHeals
<1> SUFFICES ASSUME "registry" \in healed PROVE RegistryHeals
  BY DEF RegistryHeals
<1> PICK s, S, raised :
      s = R!Shares(cap) /\ S = R!Owners(cap) /\ raised = R!SumFunctionOnSet(cap, R!Owners(cap))
  OBVIOUS
<1>1. cap \in [Holders -> Int] /\ units \in [Holders -> 0 .. TotalUnits]
  BY DEF RegistryInv, Documents
<1>2. /\ \A h \in Holders : units[h] = IF h \in S THEN s[h] ELSE 0
      /\ issued = R!SumFunction(s)
  BY DEF RegistryInv, HealedInForce, InForce
<1>3. /\ s \in [S -> Nat] /\ issued \in 0 .. TotalUnits
      /\ \A h \in S : /\ s[h] * raised > (issued * cap[h]) - raised
                      /\ s[h] * raised < (issued * cap[h]) + raised
      /\ issued < TotalUnits => /\ 2 * issued * Price <= 2 * raised + Price
                                /\ 2 * issued * Price >= 2 * raised - Price
  <2>1. QuotasOf(cap, s)
    BY <1>1, SharesAreQuotas
  <2> QED
    BY <1>2, <2>1 DEF QuotasOf
<1>4. S \in SUBSET Holders /\ IsFiniteSet(S) /\ IsFiniteSet(Holders)
  BY <1>1, OwnersAreHolders, FewHolders
<1>5. R!SumFunction(units) = issued
  <2>1. R!SumFunction(units) = SumOver(units, Holders) /\ issued = SumOver(s, S)
    BY <1>1, <1>2, <1>3, SumIs DEF R!SumFunction
  <2>2. IsFiniteSet(Holders \ S) /\ S \cap (Holders \ S) = {} /\ S \cup (Holders \ S) = Holders
    BY <1>4, FS_Subset
  <2>3. \A h \in S \cup (Holders \ S) : units[h] \in Int
    BY <1>1, <2>2
  <2>4. SumOver(units, S \cup (Holders \ S)) = SumOver(units, S) + SumOver(units, Holders \ S)
    BY <1>4, <2>2, <2>3, SumUnion
  <2>5. SumOver(units, S) = SumOver(s, S)
    BY <1>2, <1>4, SumAgree
  <2>6. SumOver(units, Holders \ S) = 0
    BY <1>2, <2>2, SumZero
  <2> QED
    BY <1>3, <2>1, <2>2, <2>4, <2>5, <2>6
<1>6. issued <= TotalUnits
  BY <1>3
<1>7. R!Owners(units) \in SUBSET S
  BY <1>1, <1>2 DEF R!Owners
<1>8. \A h \in S : /\ units[h] * raised > (issued * cap[h]) - raised
                   /\ units[h] * raised < (issued * cap[h]) + raised
  BY <1>2, <1>3, <1>4
<1> QED
  <2>1. S = Owners(cap) /\ Owners(units) = R!Owners(units)
    BY DEF R!Owners, Owners
  <2>2. SumFunctionOnSet(cap, Owners(cap)) = raised /\ SumFunction(units) = issued
    BY <1>5, <2>1, SumIs, DocumentSum DEF SumFunction, R!SumFunction
  <2> QED
    BY <1>3, <1>6, <1>7, <1>8, <2>1, <2>2 DEF RegistryHeals

LEMMA InvLinks ==
  ASSUME R!ConstantsFit, RegistryInv
  PROVE  CertificatesHeal
<1>1. \A h \in Holders : R!Active(h) = Active(h)
  BY DEF R!Active, Active, R!Certs, Certs
<1>2. ASSUME "certificates" \in healed, NEW h \in Holders
      PROVE  IF units[h] = 0 THEN Active(h) = {} ELSE \E k \in Active(h) : cert[k].units = units[h]
  BY <1>1, <1>2 DEF RegistryInv, HealedInForce, InForce, Served
<1>3. ASSUME "binding" \in healed, NEW h \in Holders
      PROVE  IF Active(h) = {} THEN bound[h] \notin Certs ELSE bound[h] \in Active(h)
  <2>1. bound[h] \in R!AnyActive(h)
    BY <1>3 DEF RegistryInv, HealedInForce, InForce
  <2>2. None \notin Certs
    BY DEF R!ConstantsFit, Certs
  <2> QED
    BY <1>1, <2>1, <2>2 DEF R!AnyActive
<1> QED
  BY <1>2, <1>3 DEF CertificatesHeal

\* Cap table, rows, certificates, links and handlers keep their types, however
\* many rebuilds interleave or die.
THEOREM RegistryTypeCorrect ==
  ASSUME R!ConstantsFit
  PROVE  R!Spec => []R!TypeOK
BY SafeRegistryInv, InvRegistryTypes, PTL

\* Once recompute_asset has run to its end with nobody else acting, whatever was
\* left by the rebuilds before: nobody without a position has units, all rows
\* add up to what was issued and to no more than the asset has, and everyone
\* has his quota up to less than one unit.
THEOREM QuotasHeal ==
  ASSUME R!ConstantsFit
  PROVE  R!Spec => []RegistryHeals
BY SafeRegistryInv, InvQuotas, PTL

\* Once the certificates, or the links, have been rebuilt with nobody else
\* acting: every owner has an active certificate over his units and nobody else
\* has one; every row links an active certificate of its owner, or none.
THEOREM LinksHeal ==
  ASSUME R!ConstantsFit
  PROVE  R!Spec => []CertificatesHeal
BY SafeRegistryInv, InvLinks, PTL
=============================================================================
