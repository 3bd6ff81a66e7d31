------------------------------- MODULE OtcDesk -------------------------------
(***************************************************************************)
(* The OTC desk of src/backend/lumen_otc.py for one NFT certificate: the   *)
(* holder lists it, somebody buys it or makes an offer, the buyer pays by  *)
(* hand and proves it, and LUMEN as the guarantor confirms the payment and *)
(* moves the certificate (lumen_crypto_os.py).  Disputes and wallet        *)
(* recoveries freeze the certificate while they are open.                  *)
(*                                                                         *)
(* A call id is a slot for one HTTP request, whose handler runs from await *)
(* to await while others run in between; one that dies is one that never   *)
(* goes on.  orderly remembers whether calls, or disputes and recoveries,  *)
(* overlapped; no guard reads it.                                          *)
(***************************************************************************)
EXTENDS Integers, FiniteSets

CONSTANTS
  Users,       \* investors; KYC is approved
  Owner,       \* the one to whom the certificate was minted
  Listings,    \* ids of listings, offers, deals and wallet recoveries that
  Offers,      \* may be created
  Deals,
  Recoveries,
  Calls,       \* slots for HTTP requests
  None         \* Python's None

\* What a dispute, a request or a review of a recovery comes to.
Outcomes == {"release_to_buyer", "refund_seller_keeps", "froze", "approved", "rejected"}

ASSUME OtcConstants ==
  /\ Owner \in Users
  /\ None \notin Users \cup Listings \cup Offers \cup Deals \cup Recoveries \cup Outcomes
  /\ Deals \cap Recoveries = {}
  /\ IsFiniteSet(Deals) /\ IsFiniteSet(Calls)

VARIABLES
  nft,         \* its current_holder_user_id and frozen
  transfers,   \* deals with a row in lumen_nft_transfers
  listing,     \* listings: status, seller, deal (active_deal_id)
  reopened,    \* how often each listing was made active again, a history;
               \* it counts no further than there may be deals
  offer,       \* offers: status, listing, buyer
  deal,        \* deals: status, payment, listing, buyer, and confirmed, which
               \* says whether payment_confirmed_at is set
  proofs,      \* deals with a payment proof
  recovery,    \* wallet recoveries: status, user, froze (the certificate is
               \* in frozen_nft_ids)
  call,        \* the handlers
  orderly      \* see Begin and OpenCase

listingVars == <<listing, reopened>>
dealVars == <<deal, proofs>>
nftVars == <<nft, transfers>>
callVars == <<call, orderly>>
vars == <<nftVars, listingVars, offer, dealVars, recovery, callVars>>

-----------------------------------------------------------------------------
\* draft and payment_confirmed are declared and never written.
ListingOpen == {"active", "reserved", "payment_pending", "nft_transfer_pending"}
ListingStatuses == ListingOpen \cup {"completed", "cancelled", "disputed"}
OfferStatuses == {"pending", "accepted", "rejected", "expired"}
DealLive == {"payment_pending", "nft_transfer_pending"}
DealTerminal == {"completed", "cancelled", "disputed"}
Payments == {"pending", "submitted", "confirmed"}
RecoveryStatuses == {"pending", "approved", "rejected"}

\* on is the document of the call, who the user or buyer, arg an offer or the
\* outcome of a dispute.
Idle == [step |-> "idle", on |-> None, who |-> None, arg |-> None]

Init ==
  /\ nft = [holder |-> Owner, frozen |-> FALSE]
  /\ transfers = {}
  /\ listing = [l \in Listings |-> [status |-> "none", seller |-> None, deal |-> None]]
  /\ reopened = [l \in Listings |-> 0]
  /\ offer = [o \in Offers |-> [status |-> "none", listing |-> None, buyer |-> None]]
  /\ deal = [d \in Deals |-> [status |-> "none", payment |-> "pending", listing |-> None,
                              buyer |-> None, confirmed |-> FALSE]]
  /\ proofs = {}
  /\ recovery = [r \in Recoveries |-> [status |-> "none", user |-> None, froze |-> FALSE]]
  /\ call = [c \in Calls |-> Idle]
  /\ orderly = TRUE

Quiet == \A c \in Calls : call[c] = Idle

\* A request arrives; it is orderly if no other one is being handled.
Enter(c, step, on, who, arg) ==
  /\ call[c] = Idle
  /\ call' = [call EXCEPT ![c] = [step |-> step, on |-> on, who |-> who, arg |-> arg]]

Begin(c, step, on, who, arg) ==
  /\ Enter(c, step, on, who, arg)
  /\ orderly' = (orderly /\ Quiet)

\* The same, for a request that opens a dispute or a recovery: it is orderly
\* if in addition no other one is open and ok holds.
OpenCases == {d \in Deals : deal[d].status = "disputed"}
             \cup {r \in Recoveries : recovery[r].status = "pending"}

OpenCase(c, step, on, who, ok) ==
  /\ Enter(c, step, on, who, None)
  /\ orderly' = (orderly /\ Quiet /\ OpenCases \subseteq {on} /\ ok)

Goto(c, from, to) ==
  /\ call[c].step = from
  /\ call' = [call EXCEPT ![c] = IF to = "idle" THEN Idle ELSE [@ EXCEPT !.step = to]]
  /\ UNCHANGED orderly

\* Writes to the documents of c, without a condition.
SetDeal(c, fields) ==
  /\ deal' = [deal EXCEPT ![call[c].on] = fields]
  /\ UNCHANGED <<nftVars, listingVars, offer, proofs, recovery>>

SetListing(l, status) ==
  /\ listing' = [listing EXCEPT ![l].status = status]
  /\ UNCHANGED <<nftVars, reopened, offer, dealVars, recovery>>

Theirs(c) == deal[call[c].on].listing

-----------------------------------------------------------------------------
(* create_listing: the certificate, the other listings, the insert.        *)

CreateListing(c, u) ==
  /\ nft.holder = u
  /\ ~nft.frozen
  /\ Begin(c, "listCheck", None, u, None)
  /\ UNCHANGED <<nftVars, listingVars, offer, dealVars, recovery>>

\* Mutant: only a listing without a deal counts as open.
ListCheckActive(c) ==
  /\ Goto(c, "listCheck", IF \E l \in Listings : listing[l].status = "active"
                          THEN "idle" ELSE "listInsert")
  /\ UNCHANGED <<nftVars, listingVars, offer, dealVars, recovery>>

ListCheck(c) ==
  /\ Goto(c, "listCheck", IF \E l \in Listings : listing[l].status \in ListingOpen
                          THEN "idle" ELSE "listInsert")
  /\ UNCHANGED <<nftVars, listingVars, offer, dealVars, recovery>>

ListInsert(c) ==
  \E l \in Listings :
    /\ listing[l].status = "none"
    /\ Goto(c, "listInsert", "idle")
    /\ listing' = [listing EXCEPT ![l] = [status |-> "active", seller |-> call[c].who,
                                          deal |-> None]]
    /\ UNCHANGED <<nftVars, reopened, offer, dealVars, recovery>>

(* cancel_listing.                                                         *)

CancelListing(c, l) ==
  /\ listing[l].status = "active"
  /\ Begin(c, "unlist", l, None, None)
  /\ UNCHANGED <<nftVars, listingVars, offer, dealVars, recovery>>

Unlist(c) ==
  /\ Goto(c, "unlist", "expire")
  /\ SetListing(call[c].on, "cancelled")

\* The pending offers on l, but for o.
ExpireOffers(l, o) ==
  offer' = [x \in Offers |-> IF x # o /\ offer[x].listing = l /\ offer[x].status = "pending"
                             THEN [offer[x] EXCEPT !.status = "expired"] ELSE offer[x]]

Expire(c) ==
  /\ Goto(c, "expire", "idle")
  /\ ExpireOffers(call[c].on, None)
  /\ UNCHANGED <<nftVars, listingVars, dealVars, recovery>>

-----------------------------------------------------------------------------
(* Offers.                                                                 *)

MakeOffer(c, u, l) ==
  /\ listing[l].status = "active"
  /\ listing[l].seller # u
  /\ Begin(c, "offerInsert", l, u, None)
  /\ UNCHANGED <<nftVars, listingVars, offer, dealVars, recovery>>

OfferInsert(c) ==
  \E o \in Offers :
    /\ offer[o].status = "none"
    /\ Goto(c, "offerInsert", "idle")
    /\ offer' = [offer EXCEPT ![o] = [status |-> "pending", listing |-> call[c].on,
                                      buyer |-> call[c].who]]
    /\ UNCHANGED <<nftVars, listingVars, dealVars, recovery>>

RejectOffer(c, o) ==
  /\ offer[o].status = "pending"
  /\ Begin(c, "reject", o, None, None)
  /\ UNCHANGED <<nftVars, listingVars, offer, dealVars, recovery>>

RejectWrite(c) ==
  /\ Goto(c, "reject", "idle")
  /\ offer' = [offer EXCEPT ![call[c].on].status = "rejected"]
  /\ UNCHANGED <<nftVars, listingVars, dealVars, recovery>>

(* accept_offer and buy_listing end in _create_deal: the listing is        *)
(* claimed by one conditional update, the deal inserted and linked.        *)

AcceptOffer(c, o) ==
  /\ offer[o].status = "pending"
  /\ Begin(c, "acceptRead", offer[o].listing, offer[o].buyer, o)
  /\ UNCHANGED <<nftVars, listingVars, offer, dealVars, recovery>>

AcceptRead(c) ==
  /\ call[c].step = "acceptRead"
  /\ Goto(c, "acceptRead", IF listing[call[c].on].status = "active" THEN "claim" ELSE "idle")
  /\ UNCHANGED <<nftVars, listingVars, offer, dealVars, recovery>>

Buy(c, u, l) ==
  /\ listing[l].status = "active"
  /\ listing[l].seller # u
  /\ Begin(c, "claim", l, u, None)
  /\ UNCHANGED <<nftVars, listingVars, offer, dealVars, recovery>>

\* Mutant: the claim does not ask for the status.
ClaimAnyway(c) ==
  /\ Goto(c, "claim", "dealInsert")
  /\ SetListing(call[c].on, "reserved")

Claim(c) ==
  \/ /\ call[c].step = "claim"
     /\ listing[call[c].on].status = "active"
     /\ Goto(c, "claim", "dealInsert")
     /\ SetListing(call[c].on, "reserved")
  \/ /\ call[c].step = "claim"
     /\ listing[call[c].on].status # "active"
     /\ Goto(c, "claim", "idle")
     /\ UNCHANGED <<nftVars, listingVars, offer, dealVars, recovery>>

DealInsert(c) ==
  \E d \in Deals :
    /\ deal[d].status = "none"
    /\ call[c].step = "dealInsert"
    /\ call' = [call EXCEPT ![c].step = "link", ![c].on = d]
    /\ deal' = [deal EXCEPT ![d] = [status |-> "payment_pending", payment |-> "pending",
                                    listing |-> call[c].on, buyer |-> call[c].who,
                                    confirmed |-> FALSE]]
    /\ UNCHANGED <<nftVars, listingVars, offer, proofs, recovery, orderly>>

Link(c) ==
  /\ call[c].step = "link"
  /\ Goto(c, "link", IF call[c].arg = None THEN "idle" ELSE "accept")
  /\ listing' = [listing EXCEPT ![Theirs(c)].deal = call[c].on]
  /\ UNCHANGED <<nftVars, reopened, offer, dealVars, recovery>>

Accept(c) ==
  /\ Goto(c, "accept", "expireOthers")
  /\ offer' = [offer EXCEPT ![call[c].arg].status = "accepted"]
  /\ UNCHANGED <<nftVars, listingVars, dealVars, recovery>>

ExpireOthers(c) ==
  /\ Goto(c, "expireOthers", "idle")
  /\ ExpireOffers(Theirs(c), call[c].arg)
  /\ UNCHANGED <<nftVars, listingVars, dealVars, recovery>>

-----------------------------------------------------------------------------
(* submit_payment_proof.                                                   *)

SubmitProof(c, d) ==
  /\ deal[d].status = "payment_pending"
  /\ Begin(c, "proof", d, None, None)
  /\ UNCHANGED <<nftVars, listingVars, offer, dealVars, recovery>>

ProofInsert(c) ==
  /\ Goto(c, "proof", "proofDeal")
  /\ proofs' = proofs \cup {call[c].on}
  /\ UNCHANGED <<nftVars, listingVars, offer, deal, recovery>>

ProofDeal(c) ==
  /\ Goto(c, "proofDeal", "proofListing")
  /\ SetDeal(c, [deal[call[c].on] EXCEPT !.payment = "submitted"])

ProofListing(c) ==
  /\ Goto(c, "proofListing", "idle")
  /\ SetListing(Theirs(c), "payment_pending")

(* confirm_payment.                                                        *)

ConfirmPayment(c, d) ==
  /\ deal[d].payment = "submitted"
  /\ deal[d].status \in DealLive
  /\ Begin(c, "confirm", d, None, None)
  /\ UNCHANGED <<nftVars, listingVars, offer, dealVars, recovery>>

ConfirmDeal(c) ==
  /\ Goto(c, "confirm", "confirmListing")
  /\ SetDeal(c, [deal[call[c].on] EXCEPT !.payment = "confirmed", !.confirmed = TRUE,
                                         !.status = "nft_transfer_pending"])

ConfirmListing(c) ==
  /\ Goto(c, "confirmListing", "idle")
  /\ SetListing(Theirs(c), "nft_transfer_pending")

(* confirm_nft_transfer: the certificate must not be frozen.               *)

\* Mutant: the certificate is moved as soon as there is a proof.
TransferOnProof(c, d) ==
  /\ deal[d].payment \in {"submitted", "confirmed"}
  /\ deal[d].status \in DealLive
  /\ Begin(c, "moveRead", d, deal[d].buyer, None)
  /\ UNCHANGED <<nftVars, listingVars, offer, dealVars, recovery>>

ConfirmTransfer(c, d) ==
  /\ deal[d].payment = "confirmed"
  /\ deal[d].status = "nft_transfer_pending"
  /\ Begin(c, "moveRead", d, deal[d].buyer, None)
  /\ UNCHANGED <<nftVars, listingVars, offer, dealVars, recovery>>

MoveRead(c) ==
  /\ Goto(c, "moveRead", IF nft.frozen THEN "idle" ELSE "move")
  /\ UNCHANGED <<nftVars, listingVars, offer, dealVars, recovery>>

Move(c) ==
  /\ Goto(c, "move", "moveRow")
  /\ nft' = [nft EXCEPT !.holder = call[c].who]
  /\ UNCHANGED <<transfers, listingVars, offer, dealVars, recovery>>

MoveRow(c) ==
  /\ Goto(c, "moveRow", "complete")
  /\ transfers' = transfers \cup {call[c].on}
  /\ UNCHANGED <<nft, listingVars, offer, dealVars, recovery>>

CompleteDeal(c) ==
  /\ Goto(c, "complete", "completeListing")
  /\ SetDeal(c, [deal[call[c].on] EXCEPT !.status = "completed"])

CompleteListing(c) ==
  /\ Goto(c, "completeListing", "idle")
  /\ SetListing(Theirs(c), "completed")

-----------------------------------------------------------------------------
(* Cancellation, by an investor or by staff.                               *)

CancelDeal(c, d) ==
  /\ deal[d].status \in DealLive
  /\ Begin(c, "cancel", d, None, None)
  /\ UNCHANGED <<nftVars, listingVars, offer, dealVars, recovery>>

CancelWrite(c) ==
  /\ Goto(c, "cancel", "reopen")
  /\ SetDeal(c, [deal[call[c].on] EXCEPT !.status = "cancelled"])

Reopen(c) ==
  LET l == Theirs(c)
  IN /\ call[c].step = "reopen"
     /\ Goto(c, "reopen", "idle")
     /\ IF listing[l].status \in {"completed", "cancelled"}
        THEN UNCHANGED listingVars
        ELSE /\ listing' = [listing EXCEPT ![l].status = "active", ![l].deal = None]
             /\ reopened' = [reopened EXCEPT ![l] = IF @ < Cardinality(Deals) THEN @ + 1
                                                         ELSE @]
     /\ UNCHANGED <<nftVars, offer, dealVars, recovery>>

(* dispute_deal and resolve_dispute.                                       *)

Dispute(c, d) ==
  /\ deal[d].status \notin {"none", "completed"}
  /\ OpenCase(c, "dispute", d, None, deal[d].status # "cancelled")
  /\ UNCHANGED <<nftVars, listingVars, offer, dealVars, recovery>>

DisputeDeal(c) ==
  /\ Goto(c, "dispute", "disputeListing")
  /\ SetDeal(c, [deal[call[c].on] EXCEPT !.status = "disputed"])

DisputeListing(c) ==
  /\ Goto(c, "disputeListing", "freeze")
  /\ SetListing(Theirs(c), "disputed")

SetFrozen(c, from, to, frozen) ==
  /\ Goto(c, from, to)
  /\ nft' = [nft EXCEPT !.frozen = frozen]
  /\ UNCHANGED <<transfers, listingVars, offer, dealVars, recovery>>

Freeze(c) == SetFrozen(c, "freeze", "idle", TRUE)

Resolve(c, d, outcome) ==
  /\ deal[d].status = "disputed"
  /\ Begin(c, "unfreeze", d, deal[d].buyer, outcome)
  /\ UNCHANGED <<nftVars, listingVars, offer, dealVars, recovery>>

\* Mutant: the certificate of a refunded deal stays frozen.
UnfreezeReleased(c) ==
  /\ call[c].step = "unfreeze"
  /\ SetFrozen(c, "unfreeze", IF call[c].arg = "release_to_buyer" THEN "move" ELSE "void",
               call[c].arg # "release_to_buyer")

\* A release goes on with otc_transfer_holder, which does not look at frozen.
Unfreeze(c) ==
  /\ call[c].step = "unfreeze"
  /\ SetFrozen(c, "unfreeze", IF call[c].arg = "release_to_buyer" THEN "move" ELSE "void", FALSE)

VoidDeal(c) ==
  /\ Goto(c, "void", "voidListing")
  /\ SetDeal(c, [deal[call[c].on] EXCEPT !.status = "cancelled"])

VoidListing(c) ==
  /\ Goto(c, "voidListing", "idle")
  /\ listing' = [listing EXCEPT ![Theirs(c)].status = "cancelled", ![Theirs(c)].deal = None]
  /\ UNCHANGED <<nftVars, reopened, offer, dealVars, recovery>>

-----------------------------------------------------------------------------
(* Wallet recovery: the certificates of the investor are frozen while it   *)
(* is open.  Wallet addresses are left out.                                *)

RequestRecovery(c, u) ==
  /\ \A r \in Recoveries : ~(recovery[r].status = "pending" /\ recovery[r].user = u)
  /\ OpenCase(c, "recHeld", None, u, TRUE)
  /\ UNCHANGED <<nftVars, listingVars, offer, dealVars, recovery>>

RecoveryHeld(c) ==
  /\ call[c].step = "recHeld"
  /\ call' = [call EXCEPT ![c].step = IF nft.holder = call[c].who THEN "recFreeze"
                                      ELSE "recInsert"]
  /\ UNCHANGED <<nftVars, listingVars, offer, dealVars, recovery, orderly>>

\* arg keeps that the certificate was frozen.
RecoveryFreeze(c) ==
  /\ call[c].step = "recFreeze"
  /\ call' = [call EXCEPT ![c].step = "recInsert", ![c].arg = "froze"]
  /\ nft' = [nft EXCEPT !.frozen = TRUE]
  /\ UNCHANGED <<transfers, listingVars, offer, dealVars, recovery, orderly>>

RecoveryInsert(c) ==
  \E r \in Recoveries :
    /\ recovery[r].status = "none"
    /\ Goto(c, "recInsert", "idle")
    /\ recovery' = [recovery EXCEPT ![r] = [status |-> "pending", user |-> call[c].who,
                                            froze |-> call[c].arg = "froze"]]
    /\ UNCHANGED <<nftVars, listingVars, offer, dealVars>>

\* An approval unfreezes what the investor holds by then, a rejection what the
\* request froze.
ApproveRecovery(c, r) ==
  /\ recovery[r].status = "pending"
  /\ Begin(c, "recReassign", r, recovery[r].user, "approved")
  /\ UNCHANGED <<nftVars, listingVars, offer, dealVars, recovery>>

RecoveryReassign(c) ==
  /\ call[c].step = "recReassign"
  /\ Goto(c, "recReassign", IF nft.holder = call[c].who THEN "recUnfreeze" ELSE "recClose")
  /\ UNCHANGED <<nftVars, listingVars, offer, dealVars, recovery>>

RejectRecovery(c, r) ==
  /\ recovery[r].status = "pending"
  /\ Begin(c, IF recovery[r].froze THEN "recUnfreeze" ELSE "recClose", r, recovery[r].user,
           "rejected")
  /\ UNCHANGED <<nftVars, listingVars, offer, dealVars, recovery>>

RecoveryUnfreeze(c) == SetFrozen(c, "recUnfreeze", "recClose", FALSE)

RecoveryClose(c) ==
  /\ Goto(c, "recClose", "idle")
  /\ recovery' = [recovery EXCEPT ![call[c].on].status = call[c].arg]
  /\ UNCHANGED <<nftVars, listingVars, offer, dealVars>>

-----------------------------------------------------------------------------
Request(c) ==
  \/ \E u \in Users : CreateListing(c, u) \/ RequestRecovery(c, u)
  \/ \E u \in Users, l \in Listings : Buy(c, u, l) \/ MakeOffer(c, u, l)
  \/ \E l \in Listings : CancelListing(c, l)
  \/ \E o \in Offers : AcceptOffer(c, o) \/ RejectOffer(c, o)
  \/ \E d \in Deals : \/ SubmitProof(c, d) \/ ConfirmPayment(c, d) \/ ConfirmTransfer(c, d)
                      \/ CancelDeal(c, d) \/ Dispute(c, d)
                      \/ Resolve(c, d, "release_to_buyer") \/ Resolve(c, d, "refund_seller_keeps")
  \/ \E r \in Recoveries : ApproveRecovery(c, r) \/ RejectRecovery(c, r)

Handler(c) ==
  \/ ListCheck(c) \/ ListInsert(c) \/ Unlist(c) \/ Expire(c)
  \/ OfferInsert(c) \/ RejectWrite(c) \/ AcceptRead(c)
  \/ Claim(c) \/ DealInsert(c) \/ Link(c) \/ Accept(c) \/ ExpireOthers(c)
  \/ ProofInsert(c) \/ ProofDeal(c) \/ ProofListing(c) \/ ConfirmDeal(c) \/ ConfirmListing(c)
  \/ MoveRead(c) \/ Move(c) \/ MoveRow(c) \/ CompleteDeal(c) \/ CompleteListing(c)
  \/ CancelWrite(c) \/ Reopen(c)
  \/ DisputeDeal(c) \/ DisputeListing(c) \/ Freeze(c)
  \/ Unfreeze(c) \/ VoidDeal(c) \/ VoidListing(c)
  \/ RecoveryHeld(c) \/ RecoveryFreeze(c) \/ RecoveryInsert(c)
  \/ RecoveryReassign(c) \/ RecoveryUnfreeze(c) \/ RecoveryClose(c)

Next == \E c \in Calls : Request(c) \/ Handler(c)

Spec == Init /\ [][Next]_vars

-----------------------------------------------------------------------------
(* Properties.                                                             *)

Steps == {"idle", "listCheck", "listInsert", "unlist", "expire", "offerInsert", "reject",
          "acceptRead", "claim", "dealInsert", "link", "accept", "expireOthers", "proof",
          "proofDeal", "proofListing", "confirm", "confirmListing", "moveRead", "move",
          "moveRow", "complete", "completeListing", "cancel", "reopen", "dispute",
          "disputeListing", "freeze", "unfreeze", "void", "voidListing", "recHeld",
          "recFreeze", "recInsert", "recReassign", "recUnfreeze", "recClose"}

\* Every document and handler holds values the code can put there.
TypeOK ==
  /\ nft \in [holder : Users, frozen : BOOLEAN]
  /\ transfers \subseteq Deals
  /\ listing \in [Listings -> [status : ListingStatuses \cup {"none"},
                               seller : Users \cup {None}, deal : Deals \cup {None}]]
  /\ reopened \in [Listings -> Nat]
  /\ offer \in [Offers -> [status : OfferStatuses \cup {"none"},
                           listing : Listings \cup {None}, buyer : Users \cup {None}]]
  /\ deal \in [Deals -> [status : DealLive \cup DealTerminal \cup {"none"}, payment : Payments,
                         listing : Listings \cup {None}, buyer : Users \cup {None},
                         confirmed : BOOLEAN]]
  /\ proofs \subseteq Deals
  /\ recovery \in [Recoveries -> [status : RecoveryStatuses \cup {"none"},
                                  user : Users \cup {None}, froze : BOOLEAN]]
  /\ call \in [Calls -> [step : Steps, on : Listings \cup Offers \cup Deals \cup Recoveries
                                            \cup {None},
                         who : Users \cup {None}, arg : Offers \cup Outcomes \cup {None}]]
  /\ orderly \in BOOLEAN

DealsOf(l) == {d \in Deals : deal[d].status # "none" /\ deal[d].listing = l}

\* "Atomically claim the listing to prevent double-sell": however calls overlap
\* or die, a listing gets no more deals than it was opened for.
ClaimsAreExclusive ==
  \A l \in Listings : Cardinality(DealsOf(l)) <= 1 + reopened[l]

\* The order the guarantor owes both sides, however calls overlap or die: what
\* is confirmed was proved, the certificate goes to a buyer whose payment is
\* confirmed or who won a dispute, and a deal is completed once it has gone.
EscrowOrder ==
  /\ \A d \in Deals : deal[d].confirmed => d \in proofs
  /\ \A c \in Calls : call[c].step = "move" =>
       deal[call[c].on].confirmed \/ call[c].arg = "release_to_buyer"
  /\ \A d \in Deals : deal[d].status = "completed" => d \in transfers

\* Between calls, when these and cases came one after the other: the status of
\* a listing, the deal it names and the statuses of all its deals agree (so it
\* has one live deal at most, and never two completed ones); and of the open
\* listings there is one at most, by the holder of the certificate.
Named(l, statuses) ==
  /\ {d \in DealsOf(l) : deal[d].status # "cancelled"} = {listing[l].deal}
  /\ <<deal[listing[l].deal].status, deal[listing[l].deal].payment>> \in statuses

ListingTellsItsDeal(l) ==
  CASE listing[l].status \in {"none", "active", "cancelled"} ->
         \A d \in DealsOf(l) : deal[d].status = "cancelled"
    [] listing[l].status = "reserved" -> Named(l, {<<"payment_pending", "pending">>})
    [] listing[l].status = "payment_pending" -> Named(l, {<<"payment_pending", "submitted">>})
    [] listing[l].status = "nft_transfer_pending" ->
         Named(l, {<<"nft_transfer_pending", "confirmed">>})
    [] listing[l].status = "disputed" -> Named(l, {"disputed"} \X Payments)
    [] listing[l].status = "completed" -> Named(l, {"completed"} \X Payments)

OneOpenListing ==
  \A l, m \in Listings :
    listing[l].status \in ListingOpen /\ listing[m].status \in ListingOpen
      => l = m /\ listing[l].seller = nft.holder

ListingsTellTheTruth ==
  orderly /\ Quiet => (\A l \in Listings : ListingTellsItsDeal(l)) /\ OneOpenListing

\* "Freeze the underlying NFT token ... while the dispute is open": between
\* such calls the certificate is frozen exactly while a case demands it.
FrozenForACase ==
  orderly /\ Quiet =>
    (nft.frozen <=> \/ \E d \in Deals : deal[d].status = "disputed"
                    \/ \E r \in Recoveries : recovery[r].status = "pending" /\ recovery[r].froze)
=============================================================================
