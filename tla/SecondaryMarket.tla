--------------------------- MODULE SecondaryMarket ---------------------------
(***************************************************************************)
(* The secondary market of src/backend/lumen_secondary.py, for one asset:  *)
(* investors list units they own, other investors buy at the listed price  *)
(* or make a lower offer that the seller accepts, and every trade is       *)
(* settled by _settle_trade, a chain of awaited MongoDB operations that    *)
(* interleaves with every other handler at each await.                     *)
(*                                                                         *)
(* A trade id stands for the HTTP handler that creates and settles that    *)
(* trade: pc[t] is the next database operation of the handler and          *)
(* t \in alive says that its coroutine is still running.  A handler        *)
(* leaves alive when it returns, raises, or is lost with the process.      *)
(*                                                                         *)
(* Money and units are integers.  Tol is the tolerance of half a hryvnia   *)
(* that the code adds in its comparisons, in the same unit.                *)
(***************************************************************************)
EXTENDS Integers, FiniteSets, FiniteSetsExt

CONSTANTS
  Investors,       \* users with an investor profile
  Platform,        \* PLATFORM_REVENUE_ACCOUNT, the virtual ledger account
  Listings,        \* ids of listings that may be created
  Bids,            \* ids of offers that may be placed
  Trades,          \* ids of trades, one settling handler each
  None,            \* Python's None, and a field not yet written
  Primary,         \* Primary[i]: active primary investments of i in the asset
  Cash,            \* Cash[i]: wallet-affecting ledger balance i starts with
  Sizes,           \* amounts of units a user may ask for
  ListPrice,       \* price_per_unit of every listing
  OfferPrice,      \* price_per_unit of every offer, below ListPrice
  FeeNum, FeeDen,  \* PLATFORM_FEE_PCT as a fraction
  MinListing,      \* MIN_LISTING_UAH
  Tol,             \* the 0.5 of the comparisons
  AllowAbort       \* may a settling handler die between two of its awaits?

ASSUME MarketConstants ==
  /\ Platform \notin Investors
  /\ None \notin Investors \cup Listings \cup Bids \cup {Platform}
  /\ Primary \in [Investors -> Nat]
  /\ Cash \in [Investors -> Nat]
  /\ Sizes \subseteq Nat \ {0}
  /\ ListPrice \in Nat
  /\ OfferPrice \in 1..(ListPrice - 1)
  /\ FeeNum \in Nat
  /\ FeeDen \in Nat
  /\ FeeNum < FeeDen
  /\ MinListing \in Nat
  /\ Tol \in Nat
  /\ AllowAbort \in BOOLEAN

\* What is summed over is finite.
ASSUME FiniteMarket == IsFiniteSet(Investors) /\ IsFiniteSet(Trades)

VARIABLES
  listings,    \* lumen_secondary_listings
  bids,        \* lumen_secondary_bids
  trades,      \* lumen_secondary_trades
  ledger,      \* ledger[t]: the reasons of the ledger entries of trade t
  cash,        \* cash[a]: credits minus debits of account a in the ledger
  transferred, \* trades with a row in lumen_share_transfers
  shares,      \* shares[i]: primary + inbound - outbound transfers, what
               \* compute_ownership_uah(i) would return now
  ownerships,  \* lumen_ownerships.amount_uah, the materialised rows
  wallets,     \* lumen_wallets.settled_balance, the materialised projection
  pc, alive,   \* the settling handlers
  read,        \* read[t]: the values handler t keeps across an await
  creating,    \* creating[l]: the create_listing handler of l
  cancelling,  \* listings whose cancel handler has passed its status check
  withdrawing, \* bids whose cancel handler has passed its status check
  accepting    \* bids an accept handler has read as active

moneyVars == <<ledger, cash, transferred, shares, ownerships, wallets>>
handlerVars == <<creating, cancelling, withdrawing, accepting>>
vars == <<listings, bids, trades, moneyVars, pc, alive, read, handlerVars>>

-----------------------------------------------------------------------------
(* Data.                                                                   *)

ListingStatuses == {"none", "active", "partially_filled", "filled", "cancelled"}
BidStatuses == {"none", "active", "accepted", "rejected", "cancelled"}
TradeStatuses == {"none", "pending", "settled", "failed"}
Reasons == {"secondary_purchase", "secondary_sale", "platform_fee"}

\* The awaits of a settling handler in program order: "mark" is the bid
\* update of accept_bid, the others are those of _settle_trade.  A refused
\* handler raised before it reserved anything.
Steps == {"idle", "mark", "check", "afford", "reserve", "debit", "credit",
          "fee", "transfer", "readSeller", "readBuyer", "writeSeller",
          "writeBuyer", "readBuyerCash", "saveBuyerCash", "readSellerCash",
          "saveSellerCash", "fill", "partial", "settle", "done", "refused"}

\* The steps a handler is at once its units are reserved in the listing.
AfterReserve == Steps \ {"idle", "mark", "check", "afford", "reserve", "refused"}

Investor == Investors \cup {None}
Listing == Listings \cup {None}
ListingDoc == [seller : Investor, units : Nat, filled : Int, status : ListingStatuses]
BidDoc == [listing : Listing, buyer : Investor, units : Nat, status : BidStatuses]
TradeDoc == [listing : Listing, bid : Bids \cup {None}, seller : Investor,
             buyer : Investor, units : Int, gross : Int, fee : Int,
             status : TradeStatuses]
Draft == [step : {"idle", "owned", "checked"}, seller : Investor, units : Nat, owned : Int]

NoListing == [seller |-> None, units |-> 0, filled |-> 0, status |-> "none"]
NotCreating == [step |-> "idle", seller |-> None, units |-> 0, owned |-> 0]
NothingRead == [seller |-> 0, buyer |-> 0, cash |-> 0]

Open(l) == listings[l].status \in {"active", "partially_filled"}
Remaining(l) == listings[l].units - listings[l].filled
FullySold(l) == listings[l].filled + Tol >= listings[l].units

\* listed_units_uah: what the open listings of an investor still lock.
ListedUnits(i) ==
  MapThenSumSet(LAMBDA l : IF Remaining(l) > 0 THEN Remaining(l) ELSE 0,
                {l \in Listings : Open(l) /\ listings[l].seller = i})

Fee(gross) == (gross * FeeNum) \div FeeDen

NewTrade(l, b, buyer, units, price) ==
  [listing |-> l, bid |-> b, seller |-> listings[l].seller, buyer |-> buyer,
   units |-> units, gross |-> units * price, fee |-> Fee(units * price),
   status |-> "pending"]

\* The ledger entries a settled trade must have: no fee entry for a zero fee.
Owed(t) == IF trades[t].fee > 0 THEN Reasons ELSE Reasons \ {"platform_fee"}

-----------------------------------------------------------------------------
Init ==
  /\ listings = [l \in Listings |-> NoListing]
  /\ bids = [b \in Bids |-> [listing |-> None, buyer |-> None, units |-> 0,
                             status |-> "none"]]
  /\ trades = [t \in Trades |-> [listing |-> None, bid |-> None, seller |-> None,
                                 buyer |-> None, units |-> 0, gross |-> 0,
                                 fee |-> 0, status |-> "none"]]
  /\ ledger = [t \in Trades |-> {}]
  /\ cash = [a \in Investors \cup {Platform} |-> IF a = Platform THEN 0 ELSE Cash[a]]
  /\ transferred = {}
  /\ shares = Primary
  /\ ownerships = Primary
  /\ wallets = Cash
  /\ pc = [t \in Trades |-> "idle"]
  /\ alive = {}
  /\ read = [t \in Trades |-> NothingRead]
  /\ creating = [l \in Listings |-> NotCreating]
  /\ cancelling = {}
  /\ withdrawing = {}
  /\ accepting = {}

-----------------------------------------------------------------------------
(* create_listing: the owned units, then the listed units, then the insert. *)

CreateListingRead(l, i, u) ==
  /\ listings[l] = NoListing
  /\ creating[l].step = "idle"
  /\ u >= MinListing
  /\ creating' = [creating EXCEPT ![l] = [step |-> "owned", seller |-> i,
                                          units |-> u, owned |-> shares[i]]]
  /\ UNCHANGED <<listings, bids, trades, moneyVars, pc, alive, read, cancelling, withdrawing, accepting>>

CreateListingCheck(l) ==
  /\ creating[l].step = "owned"
  /\ LET free == creating[l].owned - ListedUnits(creating[l].seller)
     IN creating' = [creating EXCEPT ![l] =
                       IF free + Tol < creating[l].units
                       THEN NotCreating
                       ELSE [@ EXCEPT !.step = "checked"]]
  /\ UNCHANGED <<listings, bids, trades, moneyVars, pc, alive, read, cancelling, withdrawing, accepting>>

CreateListingInsert(l) ==
  /\ creating[l].step = "checked"
  /\ listings' = [listings EXCEPT ![l] = [seller |-> creating[l].seller,
                                          units |-> creating[l].units,
                                          filled |-> 0, status |-> "active"]]
  /\ creating' = [creating EXCEPT ![l] = NotCreating]
  /\ UNCHANGED <<bids, trades, moneyVars, pc, alive, read, cancelling, withdrawing, accepting>>

(* cancel_listing: the status is checked, then written unconditionally.    *)

CancelListingRead(l) ==
  /\ Open(l)
  /\ l \notin cancelling
  /\ cancelling' = cancelling \cup {l}
  /\ UNCHANGED <<listings, bids, trades, moneyVars, pc, alive, read, creating, withdrawing, accepting>>

CancelListingWrite(l) ==
  /\ l \in cancelling
  /\ cancelling' = cancelling \ {l}
  /\ listings' = [listings EXCEPT ![l].status = "cancelled"]
  /\ UNCHANGED <<bids, trades, moneyVars, pc, alive, read, creating, withdrawing, accepting>>

-----------------------------------------------------------------------------
(* create_bid_or_buy: a trade at the listed price or an offer below it.     *)
(* Its checks are repeated by the settlement of the trade, and nobody reads *)
(* a new trade or bid before it is inserted: checks and insert are one step. *)

MayBuy(l, buyer, u) ==
  /\ Open(l)
  /\ listings[l].seller # buyer
  /\ u <= Remaining(l) + Tol

BuyNow(t, l, buyer, u) ==
  /\ pc[t] = "idle"
  /\ MayBuy(l, buyer, u)
  /\ wallets[buyer] + Tol >= u * ListPrice
  /\ trades' = [trades EXCEPT ![t] = NewTrade(l, None, buyer, u, ListPrice)]
  /\ pc' = [pc EXCEPT ![t] = "check"]
  /\ alive' = alive \cup {t}
  /\ UNCHANGED <<listings, bids, moneyVars, read, handlerVars>>

PlaceBid(b, l, buyer, u) ==
  /\ bids[b].status = "none"
  /\ MayBuy(l, buyer, u)
  /\ bids' = [bids EXCEPT ![b] = [listing |-> l, buyer |-> buyer, units |-> u,
                                  status |-> "active"]]
  /\ UNCHANGED <<listings, trades, moneyVars, pc, alive, read, handlerVars>>

(* cancel_bid checks the status and then writes; reject_bid only writes.   *)

CancelBidRead(b) ==
  /\ bids[b].status = "active"
  /\ b \notin withdrawing
  /\ withdrawing' = withdrawing \cup {b}
  /\ UNCHANGED <<listings, bids, trades, moneyVars, pc, alive, read, creating, cancelling, accepting>>

CancelBidWrite(b) ==
  /\ b \in withdrawing
  /\ withdrawing' = withdrawing \ {b}
  /\ bids' = [bids EXCEPT ![b].status = "cancelled"]
  /\ UNCHANGED <<listings, trades, moneyVars, pc, alive, read, creating, cancelling, accepting>>

RejectBid(b) ==
  /\ bids[b].status # "none"
  /\ bids' = [bids EXCEPT ![b].status = "rejected"]
  /\ UNCHANGED <<listings, trades, moneyVars, pc, alive, read, handlerVars>>

\* accept_bid: what is left of the listing caps the bid, and a bid smaller
\* than the minimum listing is raised to all that is left.
AcceptedUnits(b) ==
  LET left  == Remaining(bids[b].listing)
      units == IF bids[b].units < left THEN bids[b].units ELSE left
  IN IF units < MinListing /\ units < left THEN left ELSE units

\* The bid is read first, then the listing; one that is closed by then raises.
AcceptRead(b) ==
  /\ bids[b].status = "active"
  /\ b \notin accepting
  /\ accepting' = accepting \cup {b}
  /\ UNCHANGED <<listings, bids, trades, moneyVars, pc, alive, read, creating, cancelling,
                 withdrawing>>

AcceptRefused(b) ==
  /\ b \in accepting
  /\ ~Open(bids[b].listing)
  /\ accepting' = accepting \ {b}
  /\ UNCHANGED <<listings, bids, trades, moneyVars, pc, alive, read, creating, cancelling,
                 withdrawing>>

\* The trade is inserted with the read of the listing: nobody else reads it
\* while it is pending.
AcceptBid(t, b) ==
  /\ pc[t] = "idle"
  /\ b \in accepting
  /\ Open(bids[b].listing)
  /\ trades' = [trades EXCEPT ![t] = NewTrade(bids[b].listing, b, bids[b].buyer,
                                              AcceptedUnits(b), OfferPrice)]
  /\ pc' = [pc EXCEPT ![t] = "mark"]
  /\ alive' = alive \cup {t}
  /\ accepting' = accepting \ {b}
  /\ UNCHANGED <<listings, bids, moneyVars, read, creating, cancelling, withdrawing>>

MarkBidAccepted(t) ==
  /\ t \in alive /\ pc[t] = "mark"
  /\ bids' = [bids EXCEPT ![trades[t].bid].status = "accepted"]
  /\ pc' = [pc EXCEPT ![t] = "check"]
  /\ UNCHANGED <<listings, trades, moneyVars, alive, read, handlerVars>>

-----------------------------------------------------------------------------
(* _settle_trade, one action per await.                                    *)

Goto(t, from, to) ==
  /\ t \in alive /\ pc[t] = from
  /\ pc' = [pc EXCEPT ![t] = to]

\* The coroutine of t returns or raises.
Return(t) == alive' = alive \ {t}

Fail(t) == trades' = [trades EXCEPT ![t].status = "failed"]

\* The listing is read again; a closed one raises and leaves the trade pending.
CheckListing(t) ==
  \/ /\ Goto(t, "check", "afford")
     /\ Open(trades[t].listing)
     /\ UNCHANGED <<listings, bids, trades, moneyVars, alive, read, handlerVars>>
  \/ /\ Goto(t, "check", "refused")
     /\ ~Open(trades[t].listing)
     /\ Return(t)
     /\ UNCHANGED <<listings, bids, trades, moneyVars, read, handlerVars>>

\* Mutant: the buyer is debited before the units are reserved.
DebitBeforeReserve(t) ==
  /\ Goto(t, "afford", "reserve")
  /\ wallets[trades[t].buyer] + Tol >= trades[t].gross
  /\ ledger' = [ledger EXCEPT ![t] = @ \cup {"secondary_purchase"}]
  /\ cash' = [cash EXCEPT ![trades[t].buyer] = @ - trades[t].gross]
  /\ UNCHANGED <<listings, bids, trades, transferred, shares, ownerships, wallets,
                 alive, read, handlerVars>>

\* The buyer's materialised wallet is read; too little fails the trade.
CheckFunds(t) ==
  \/ /\ Goto(t, "afford", "reserve")
     /\ wallets[trades[t].buyer] + Tol >= trades[t].gross
     /\ UNCHANGED <<listings, bids, trades, moneyVars, alive, read, handlerVars>>
  \/ /\ Goto(t, "afford", "refused")
     /\ wallets[trades[t].buyer] + Tol < trades[t].gross
     /\ Fail(t)
     /\ Return(t)
     /\ UNCHANGED <<listings, bids, moneyVars, read, handlerVars>>

Fits(l, units) == listings[l].filled + units <= listings[l].units + Tol

\* Mutant: the update of the fill is not conditional on what is left.
ReserveUnguarded(t) ==
  LET l == trades[t].listing
  IN /\ Goto(t, "reserve", "debit")
     /\ Open(l)
     /\ listings' = [listings EXCEPT ![l].filled = @ + trades[t].units]
     /\ UNCHANGED <<bids, trades, moneyVars, alive, read, handlerVars>>

\* Mutant: the increment is made before the test that refuses the trade.
ReserveThenTest(t) ==
  LET l == trades[t].listing
  IN /\ listings' = [listings EXCEPT ![l].filled = @ + trades[t].units]
     /\ \/ /\ Goto(t, "reserve", "debit")
           /\ Open(l) /\ Fits(l, trades[t].units)
           /\ UNCHANGED <<bids, trades, moneyVars, alive, read, handlerVars>>
        \/ /\ Goto(t, "reserve", "refused")
           /\ ~(Open(l) /\ Fits(l, trades[t].units))
           /\ Fail(t)
           /\ Return(t)
           /\ UNCHANGED <<bids, moneyVars, read, handlerVars>>

\* The oversell guard: one conditional increment of filled_units_uah.
ReserveUnits(t) ==
  LET l == trades[t].listing
  IN \/ /\ Goto(t, "reserve", "debit")
        /\ Open(l)
        /\ Fits(l, trades[t].units)
        /\ listings' = [listings EXCEPT ![l].filled = @ + trades[t].units]
        /\ UNCHANGED <<bids, trades, moneyVars, alive, read, handlerVars>>
     \/ /\ Goto(t, "reserve", "refused")
        /\ ~(Open(l) /\ Fits(l, trades[t].units))
        /\ Fail(t)
        /\ Return(t)
        /\ UNCHANGED <<listings, bids, moneyVars, read, handlerVars>>

\* _ledger_append of one entry of t on an account; amount is signed.
Append(t, reason, account, amount) ==
  /\ ledger' = [ledger EXCEPT ![t] = @ \cup {reason}]
  /\ cash' = [cash EXCEPT ![account] = @ + amount]
  /\ UNCHANGED <<transferred, shares, ownerships, wallets>>

\* Mutant: the transfer row is inserted along with the debit.
TransferWithDebit(t) ==
  /\ Goto(t, "debit", "credit")
  /\ ledger' = [ledger EXCEPT ![t] = @ \cup {"secondary_purchase"}]
  /\ cash' = [cash EXCEPT ![trades[t].buyer] = @ - trades[t].gross]
  /\ transferred' = transferred \cup {t}
  /\ UNCHANGED <<listings, bids, trades, shares, ownerships, wallets, alive, read,
                 handlerVars>>

\* Mutant: the seller is credited the gross amount, fee included.
CreditGross(t) ==
  /\ Goto(t, "credit", "fee")
  /\ Append(t, "secondary_sale", trades[t].seller, trades[t].gross)
  /\ UNCHANGED <<listings, bids, trades, alive, read, handlerVars>>

\* _ledger_append raises for an amount that is not positive.
DebitBuyer(t) ==
  \/ /\ trades[t].gross > 0
     /\ Goto(t, "debit", "credit")
     /\ Append(t, "secondary_purchase", trades[t].buyer, -trades[t].gross)
     /\ UNCHANGED <<listings, bids, trades, alive, read, handlerVars>>
  \/ /\ trades[t].gross <= 0
     /\ Goto(t, "debit", "debit")
     /\ Return(t)
     /\ UNCHANGED <<listings, bids, trades, moneyVars, read, handlerVars>>

CreditSeller(t) ==
  /\ Goto(t, "credit", "fee")
  /\ Append(t, "secondary_sale", trades[t].seller, trades[t].gross - trades[t].fee)
  /\ UNCHANGED <<listings, bids, trades, alive, read, handlerVars>>

CreditFee(t) ==
  /\ Goto(t, "fee", "transfer")
  /\ IF trades[t].fee > 0
     THEN Append(t, "platform_fee", Platform, trades[t].fee)
     ELSE UNCHANGED moneyVars
  /\ UNCHANGED <<listings, bids, trades, alive, read, handlerVars>>

InsertTransfer(t) ==
  /\ Goto(t, "transfer", "readSeller")
  /\ transferred' = transferred \cup {t}
  /\ shares' = [shares EXCEPT ![trades[t].seller] = @ - trades[t].units,
                              ![trades[t].buyer]  = @ + trades[t].units]
  /\ UNCHANGED <<listings, bids, trades, ledger, cash, ownerships, wallets,
                 alive, read, handlerVars>>

\* Both ownership rows are computed from the transfers, then both written.
ReadSellerShares(t) ==
  /\ Goto(t, "readSeller", "readBuyer")
  /\ read' = [read EXCEPT ![t].seller = shares[trades[t].seller]]
  /\ UNCHANGED <<listings, bids, trades, moneyVars, alive, handlerVars>>

ReadBuyerShares(t) ==
  /\ Goto(t, "readBuyer", "writeSeller")
  /\ read' = [read EXCEPT ![t].buyer = shares[trades[t].buyer]]
  /\ UNCHANGED <<listings, bids, trades, moneyVars, alive, handlerVars>>

WriteSellerRow(t) ==
  /\ Goto(t, "writeSeller", "writeBuyer")
  /\ ownerships' = [ownerships EXCEPT ![trades[t].seller] = read[t].seller]
  /\ UNCHANGED <<listings, bids, trades, ledger, cash, transferred, shares,
                 wallets, alive, read, handlerVars>>

WriteBuyerRow(t) ==
  /\ Goto(t, "writeBuyer", "readBuyerCash")
  /\ ownerships' = [ownerships EXCEPT ![trades[t].buyer] = read[t].buyer]
  /\ read' = [read EXCEPT ![t] = NothingRead]
  /\ UNCHANGED <<listings, bids, trades, ledger, cash, transferred, shares,
                 wallets, alive, handlerVars>>

\* recompute_wallet: the balance is computed from the ledger, then upserted.
ReadCash(t, from, to, i) ==
  /\ Goto(t, from, to)
  /\ read' = [read EXCEPT ![t].cash = cash[i]]
  /\ UNCHANGED <<listings, bids, trades, moneyVars, alive, handlerVars>>

SaveCash(t, from, to, i) ==
  /\ Goto(t, from, to)
  /\ wallets' = [wallets EXCEPT ![i] = read[t].cash]
  /\ read' = [read EXCEPT ![t] = NothingRead]
  /\ UNCHANGED <<listings, bids, trades, ledger, cash, transferred, shares,
                 ownerships, alive, handlerVars>>

RecomputeWallets(t) ==
  \/ ReadCash(t, "readBuyerCash", "saveBuyerCash", trades[t].buyer)
  \/ SaveCash(t, "saveBuyerCash", "readSellerCash", trades[t].buyer)
  \/ ReadCash(t, "readSellerCash", "saveSellerCash", trades[t].seller)
  \/ SaveCash(t, "saveSellerCash", "fill", trades[t].seller)

\* An exception of recompute_wallet is logged and the settlement goes on.
WalletHookRaises(t) ==
  /\ AllowAbort
  /\ \E s \in {"readBuyerCash", "saveBuyerCash", "readSellerCash", "saveSellerCash"} :
       Goto(t, s, "fill")
  /\ read' = [read EXCEPT ![t] = NothingRead]
  /\ UNCHANGED <<listings, bids, trades, moneyVars, alive, handlerVars>>

\* Mutant: only an active listing is closed, one already part sold never is.
FillOnlyActive(t) ==
  LET l == trades[t].listing
  IN /\ Goto(t, "fill", "partial")
     /\ listings' = IF FullySold(l) /\ listings[l].status = "active"
                    THEN [listings EXCEPT ![l].status = "filled"]
                    ELSE listings
     /\ UNCHANGED <<bids, trades, moneyVars, alive, read, handlerVars>>

\* Mutant: the fill is compared without the tolerance.
FillExactly(t) ==
  LET l == trades[t].listing
  IN /\ Goto(t, "fill", "partial")
     /\ listings' = IF Remaining(l) <= 0
                    THEN [listings EXCEPT ![l].status = "filled"]
                    ELSE listings
     /\ UNCHANGED <<bids, trades, moneyVars, alive, read, handlerVars>>

\* Mutant: the status is taken from what this trade found, not guarded.
PartialUnguarded(t) ==
  LET l == trades[t].listing
  IN /\ Goto(t, "partial", "settle")
     /\ listings' = IF trades[t].units < listings[l].units
                    THEN [listings EXCEPT ![l].status = "partially_filled"]
                    ELSE listings
     /\ UNCHANGED <<bids, trades, moneyVars, alive, read, handlerVars>>

\* Mutant: a status the rest of the code does not know.
PartialMisspelt(t) ==
  LET l == trades[t].listing
  IN /\ Goto(t, "partial", "settle")
     /\ listings' = IF listings[l].status = "active" /\ ~FullySold(l)
                    THEN [listings EXCEPT ![l].status = "partial"]
                    ELSE listings
     /\ UNCHANGED <<bids, trades, moneyVars, alive, read, handlerVars>>

\* Two updates of the listing, each with its own condition on the fill.
MarkFilled(t) ==
  LET l == trades[t].listing
  IN /\ Goto(t, "fill", "partial")
     /\ listings' = IF FullySold(l)
                    THEN [listings EXCEPT ![l].status = "filled"]
                    ELSE listings
     /\ UNCHANGED <<bids, trades, moneyVars, alive, read, handlerVars>>

MarkPartiallyFilled(t) ==
  LET l == trades[t].listing
  IN /\ Goto(t, "partial", "settle")
     /\ listings' = IF listings[l].status = "active" /\ ~FullySold(l)
                    THEN [listings EXCEPT ![l].status = "partially_filled"]
                    ELSE listings
     /\ UNCHANGED <<bids, trades, moneyVars, alive, read, handlerVars>>

MarkSettled(t) ==
  /\ Goto(t, "settle", "done")
  /\ trades' = [trades EXCEPT ![t].status = "settled"]
  /\ Return(t)
  /\ UNCHANGED <<listings, bids, moneyVars, read, handlerVars>>

\* The process is restarted, the request is cancelled or a database call
\* raises: the handler of t never runs again and what it wrote stays.
Abort(t) ==
  /\ AllowAbort
  /\ t \in alive
  /\ Return(t)
  /\ read' = [read EXCEPT ![t] = NothingRead]
  /\ UNCHANGED <<listings, bids, trades, moneyVars, pc, handlerVars>>

-----------------------------------------------------------------------------
SettleStep(t) ==
  \/ MarkBidAccepted(t) \/ CheckListing(t) \/ CheckFunds(t) \/ ReserveUnits(t)
  \/ DebitBuyer(t) \/ CreditSeller(t) \/ CreditFee(t) \/ InsertTransfer(t)
  \/ ReadSellerShares(t) \/ ReadBuyerShares(t)
  \/ WriteSellerRow(t) \/ WriteBuyerRow(t) \/ RecomputeWallets(t)
  \/ MarkFilled(t) \/ MarkPartiallyFilled(t) \/ MarkSettled(t)

ListingStep(l) ==
  \/ \E i \in Investors, u \in Sizes : CreateListingRead(l, i, u)
  \/ CreateListingCheck(l) \/ CreateListingInsert(l)
  \/ CancelListingRead(l) \/ CancelListingWrite(l)

BidStep(b) ==
  \/ \E l \in Listings, i \in Investors, u \in Sizes : PlaceBid(b, l, i, u)
  \/ CancelBidRead(b) \/ CancelBidWrite(b) \/ RejectBid(b)
  \/ AcceptRead(b) \/ AcceptRefused(b)

TradeStep(t) ==
  \/ \E l \in Listings, i \in Investors, u \in Sizes : BuyNow(t, l, i, u)
  \/ \E b \in Bids : AcceptBid(t, b)
  \/ SettleStep(t) \/ WalletHookRaises(t) \/ Abort(t)

Next ==
  \/ \E l \in Listings : ListingStep(l)
  \/ \E b \in Bids : BidStep(b)
  \/ \E t \in Trades : TradeStep(t)

Spec == Init /\ [][Next]_vars

\* A handler whose coroutine is alive is run again by the event loop as soon
\* as its pending database call answers; users are under no obligation.
FairSpec == Spec /\ \A t \in Trades : WF_vars(SettleStep(t))

-----------------------------------------------------------------------------
(* Properties.                                                             *)

\* Every variable holds what the collections and handlers of the code hold.
TypeOK ==
  /\ listings \in [Listings -> ListingDoc]
  /\ bids \in [Bids -> BidDoc]
  /\ trades \in [Trades -> TradeDoc]
  /\ ledger \in [Trades -> SUBSET Reasons]
  /\ cash \in [Investors \cup {Platform} -> Int]
  /\ transferred \subseteq Trades
  /\ shares \in [Investors -> Int]
  /\ ownerships \in [Investors -> Int]
  /\ wallets \in [Investors -> Int]
  /\ pc \in [Trades -> Steps]
  /\ alive \subseteq Trades
  /\ read \in [Trades -> [seller : Int, buyer : Int, cash : Int]]
  /\ creating \in [Listings -> Draft]
  /\ cancelling \subseteq Listings
  /\ withdrawing \subseteq Bids
  /\ accepting \subseteq Bids

\* Concurrent settlements never sell more of a listing than it offers, but
\* for the tolerance (contract E1.1 of secondary_stress_contract.py).
NoOversell ==
  \A l \in Listings : listings[l].filled <= listings[l].units + Tol

\* The units a listing counts as sold are exactly those of the trades whose
\* handler got past the oversell guard, whatever died since: no reservation
\* is lost, doubled or charged to another listing (E1.4 under crashes).
ReservationAccounting ==
  LET units == [t \in Trades |-> trades[t].units]
  IN \A l \in Listings :
       listings[l].filled =
         MapThenSumSet(LAMBDA t : units[t],
                       {t \in Trades : pc[t] \in AfterReserve /\ trades[t].listing = l})

\* A trade refused by a guard, or whose handler died before its first ledger
\* entry, left no entry and no transfer behind (E1.5: losers reject cleanly).
LosersTouchNothing ==
  \A t \in Trades :
    trades[t].status = "failed" \/ pc[t] \notin AfterReserve \ {"debit"}
      => ledger[t] = {} /\ t \notin transferred

\* Wherever a handler dies, the seller is credited only out of a debit of the
\* buyer, and units change hands only once every entry owed is in the ledger:
\* "a mid-failure leaves the platform in a recoverable state".
UnitsNeverMoveUnpaid ==
  \A t \in Trades :
    /\ "secondary_sale" \in ledger[t] => "secondary_purchase" \in ledger[t]
    /\ "platform_fee" \in ledger[t] => "secondary_sale" \in ledger[t]
    /\ t \in transferred => ledger[t] = Owed(t)

\* Checks I11 and I12 of lumen_consistency.py: a settled trade has its
\* transfer and the debit, credit and fee that add up to zero.
SettledIsComplete ==
  \A t \in Trades :
    trades[t].status = "settled" => ledger[t] = Owed(t) /\ t \in transferred

\* Trading never mints money: over all accounts the ledger holds at most what
\* it held at the start, and exactly that once no trade is half settled.
MoneyIsConserved ==
  LET total == MapThenSumSet(LAMBDA a : cash[a], Investors \cup {Platform})
      start == MapThenSumSet(LAMBDA i : Cash[i], Investors)
  IN /\ total <= start
     /\ (\A t \in Trades : ledger[t] \in {{}, Owed(t)}) => total = start

\* No trade on l is between its reservation and its last update of l.
QuietListing(l) ==
  \A t \in Trades : trades[t].listing = l =>
    pc[t] \notin AfterReserve \ {"settle", "done"} \/ t \notin alive

\* Once the settlements on a listing are over, its status says how much of it
\* is sold, in whatever order their updates came (E1.4: status correct).
QuietStatusIsRight ==
  \A l \in Listings : QuietListing(l) =>
    /\ listings[l].status = "filled" => FullySold(l)
    /\ listings[l].status = "partially_filled" => ~FullySold(l) /\ listings[l].filled > 0
    /\ listings[l].status = "active" => listings[l].filled <= 0

\* "Concurrent settlements can never downgrade a filled listing back to
\* partially_filled": the only way out of filled is a cancellation that had
\* checked the status before.
FilledIsNeverReopened ==
  [][\A l \in Listings :
       listings[l].status = "filled" /\ listings'[l].status # "filled"
         => l \in cancelling /\ listings'[l].status = "cancelled"]_listings

\* A listing whose units are all reserved stops being for sale: it ends up
\* filled, or cancelled by its seller.
SoldOutListingCloses ==
  \A l \in Listings :
    listings[l].status # "none" /\ FullySold(l)
      ~> listings[l].status \in {"filled", "cancelled"}
=============================================================================
