---------------------------- MODULE OtcDeskProofs ----------------------------
(***************************************************************************)
(* For any number of investors, listings, deals and calls, overlapping and *)
(* dying anywhere: nothing is double-sold, and the guarantor keeps his     *)
(* order.                                                                  *)
(***************************************************************************)
EXTENDS OtcDesk, FiniteSetTheorems, TLAPS

HandlerStates == [step : Steps, on : Listings \cup Offers \cup Deals \cup Recoveries \cup {None},
                  who : Users \cup {None}, arg : Offers \cup Outcomes \cup {None}]
ListingDocs == [status : ListingStatuses \cup {"none"}, seller : Users \cup {None},
                deal : Deals \cup {None}]
OfferDocs == [status : OfferStatuses \cup {"none"}, listing : Listings \cup {None},
              buyer : Users \cup {None}]
DealDocs == [status : DealLive \cup DealTerminal \cup {"none"}, payment : Payments,
             listing : Listings \cup {None}, buyer : Users \cup {None}, confirmed : BOOLEAN]
RecoveryDocs == [status : RecoveryStatuses \cup {"none"}, user : Users \cup {None},
                 froze : BOOLEAN]

TypedDocuments ==
  /\ nft \in [holder : Users, frozen : BOOLEAN]
  /\ transfers \subseteq Deals
  /\ listing \in [Listings -> ListingDocs]
  /\ reopened \in [Listings -> Nat]
  /\ offer \in [Offers -> OfferDocs]
  /\ deal \in [Deals -> DealDocs]
  /\ proofs \subseteq Deals
  /\ recovery \in [Recoveries -> RecoveryDocs]

\* An offer and a deal are on a listing that exists, what was submitted or
\* confirmed has its proof, and a deal is completed by a transfer.
Exists(l) == l \in Listings /\ listing[l].status # "none"

Documents ==
  /\ \A o \in Offers : offer[o].status = "pending" => Exists(offer[o].listing)
                                                      /\ offer[o].buyer \in Users
  /\ \A d \in Deals :
       /\ deal[d].status # "none" => Exists(deal[d].listing) /\ deal[d].buyer \in Users
       /\ deal[d].payment = "submitted" => d \in proofs
       /\ deal[d].payment = "confirmed" => deal[d].confirmed
       /\ deal[d].confirmed => d \in proofs /\ deal[d].status # "none"
       /\ deal[d].status = "completed" => d \in transfers

\* What a handler knows of its documents, by the step it is at.
ListingSteps == {"unlist", "expire", "offerInsert", "acceptRead", "claim", "dealInsert"}
DealSteps == {"link", "accept", "expireOthers", "proof", "proofDeal", "proofListing", "confirm",
              "confirmListing", "moveRead", "move", "moveRow", "complete", "completeListing",
              "cancel", "reopen", "dispute", "disputeListing", "freeze", "unfreeze", "void",
              "voidListing"}
RecoverySteps == {"recReassign", "recUnfreeze", "recClose"}

Knows(h) ==
  /\ h.step \in ListingSteps => Exists(h.on)
  /\ h.step \in DealSteps => h.on \in Deals /\ deal[h.on].status # "none"
  /\ h.step \in RecoverySteps => h.arg \in {"approved", "rejected"}
  /\ h.step \in {"offerInsert", "acceptRead", "claim", "dealInsert", "unfreeze", "moveRead", "move"}
       => h.who \in Users
  /\ h.step \in {"proofDeal", "confirm"} => h.on \in proofs
  /\ h.step \in {"moveRead", "move"} => deal[h.on].confirmed \/ h.arg = "release_to_buyer"
  /\ h.step = "complete" => h.on \in transfers

DeskInv ==
  /\ TypedDocuments
  /\ call \in [Calls -> HandlerStates]
  /\ orderly \in BOOLEAN
  /\ Documents
  /\ \A c \in Calls : Knows(call[c])

\* What no step takes back.
Grows ==
  /\ \A l \in Listings : listing[l].status # "none" => listing'[l].status # "none"
  /\ \A d \in Deals : deal[d].status # "none" => deal'[d].status # "none"
  /\ \A d \in Deals : deal[d].confirmed => deal'[d].confirmed
  /\ proofs \subseteq proofs'
  /\ transfers \subseteq transfers'

DocumentsKeep == TypedDocuments' /\ Grows /\ Documents'

LEMMA KnowsStays ==
  ASSUME Grows, NEW h, Knows(h)
  PROVE  Knows(h)'
<1>1. h.step \in {"moveRead", "move"} => h.on \in Deals
  BY DEF Knows, DealSteps
<1> QED
  BY <1>1 DEF Grows, Knows, Exists

\* A step of handler c that makes it h keeps the invariant if it keeps the
\* documents, and h knows what it should.
LEMMA StepKeeps ==
  ASSUME DeskInv, DocumentsKeep, NEW c \in Calls, NEW h \in HandlerStates,
         call' = [call EXCEPT ![c] = h], orderly' \in BOOLEAN, Knows(h)'
  PROVE  DeskInv'
<1>1. call' \in [Calls -> HandlerStates] /\ call'[c] = h
  BY DEF DeskInv
<1>2. ASSUME NEW d \in Calls, d # c PROVE Knows(call[d])'
  <2>1. call'[d] = call[d] /\ Knows(call[d])
    BY <1>2 DEF DeskInv
  <2>2. \A g : Knows(g) => Knows(g)'
    BY KnowsStays DEF DocumentsKeep
  <2> QED
    BY <2>1, <2>2 DEF Knows
<1> QED
  BY <1>1, <1>2 DEF DeskInv, DocumentsKeep

LEMMA SameDocuments ==
  ASSUME DeskInv, UNCHANGED <<nftVars, listingVars, offer, dealVars, recovery>>
  PROVE  DocumentsKeep
BY DEF DeskInv, DocumentsKeep, TypedDocuments, Grows, Documents, Exists, nftVars, listingVars,
       dealVars

LEMMA IdleKnows == Idle \in HandlerStates /\ Idle.step = "idle" /\ Knows(Idle)
BY DEF Idle, HandlerStates, Steps, Knows, ListingSteps, DealSteps, RecoverySteps

LEMMA Handlers ==
  ASSUME DeskInv, NEW c \in Calls
  PROVE  call[c] \in HandlerStates /\ Knows(call[c])
BY DEF DeskInv

\* The handler after Goto.
LEMMA GotoIs ==
  ASSUME DeskInv, NEW c \in Calls, NEW from, NEW to \in Steps, Goto(c, from, to)
  PROVE  \E h \in HandlerStates :
           /\ call' = [call EXCEPT ![c] = h]
           /\ orderly' \in BOOLEAN
           /\ \/ h.step = "idle"
              \/ /\ h.step = to
                 /\ h.on = call[c].on /\ h.who = call[c].who /\ h.arg = call[c].arg
<1>1. CASE to = "idle"
  <2>1. call' = [call EXCEPT ![c] = Idle]
    BY <1>1 DEF Goto
  <2> QED
    BY <2>1, IdleKnows DEF Goto, DeskInv
<1>2. CASE to # "idle"
  <2> DEFINE h == [call[c] EXCEPT !.step = to]
  <2>1. /\ h \in HandlerStates /\ h.step = to
        /\ h.on = call[c].on /\ h.who = call[c].who /\ h.arg = call[c].arg
    BY Handlers DEF HandlerStates
  <2>2. call' = [call EXCEPT ![c] = h] /\ orderly' \in BOOLEAN
    BY <1>2 DEF Goto, DeskInv
  <2> HIDE DEF h
  <2> QED
    BY <2>1, <2>2
<1> QED
  BY <1>1, <1>2

LEMMA InitDeskInv == Init => DeskInv
<1> SUFFICES ASSUME Init PROVE DeskInv
  OBVIOUS
<1> USE DEF Init
<1>1. TypedDocuments
  BY OtcConstants DEF TypedDocuments, ListingDocs, OfferDocs, DealDocs, RecoveryDocs, Payments
<1>2. Documents
  BY DEF Documents
<1>3. call \in [Calls -> HandlerStates] /\ orderly \in BOOLEAN /\ \A c \in Calls : Knows(call[c])
  BY IdleKnows
<1> QED
  BY <1>1, <1>2, <1>3 DEF DeskInv

-----------------------------------------------------------------------------
(* Requests that arrive.                                                   *)

LEMMA EnterKeeps ==
  ASSUME DeskInv, UNCHANGED <<nftVars, listingVars, offer, dealVars, recovery>>,
         NEW c \in Calls, NEW step \in Steps,
         NEW on \in Listings \cup Offers \cup Deals \cup Recoveries \cup {None},
         NEW who \in Users \cup {None}, NEW arg \in Offers \cup Outcomes \cup {None},
         Enter(c, step, on, who, arg), orderly' \in BOOLEAN,
         Knows([step |-> step, on |-> on, who |-> who, arg |-> arg])
  PROVE  DeskInv'
<1>1. PICK h \in HandlerStates : h = [step |-> step, on |-> on, who |-> who, arg |-> arg]
  BY DEF HandlerStates
<1>2. call' = [call EXCEPT ![c] = h] /\ Knows(h)
  BY <1>1 DEF Enter
<1>3. DocumentsKeep
  BY SameDocuments
<1> QED
  BY <1>1, <1>2, <1>3, StepKeeps, KnowsStays DEF DocumentsKeep

LEMMA BeginKeeps ==
  ASSUME DeskInv, UNCHANGED <<nftVars, listingVars, offer, dealVars, recovery>>,
         NEW c \in Calls, NEW step \in Steps,
         NEW on \in Listings \cup Offers \cup Deals \cup Recoveries \cup {None},
         NEW who \in Users \cup {None}, NEW arg \in Offers \cup Outcomes \cup {None},
         Begin(c, step, on, who, arg),
         Knows([step |-> step, on |-> on, who |-> who, arg |-> arg])
  PROVE  DeskInv'
<1>1. orderly' \in BOOLEAN /\ Enter(c, step, on, who, arg)
  BY DEF Begin, DeskInv
<1> QED
  BY <1>1, EnterKeeps

LEMMA ListingArrives ==
  ASSUME DeskInv, NEW c \in Calls, NEW u \in Users, NEW l,
         \/ CreateListing(c, u)
         \/ l \in Listings /\ (CancelListing(c, l) \/ MakeOffer(c, u, l) \/ Buy(c, u, l))
  PROVE  DeskInv'
<1> USE DEF Steps, Knows, ListingSteps, DealSteps, RecoverySteps, Exists
<1>1. CASE CreateListing(c, u)
  BY <1>1, BeginKeeps DEF CreateListing
<1>2. CASE l \in Listings /\ CancelListing(c, l)
  BY <1>2, BeginKeeps DEF CancelListing
<1>3. CASE l \in Listings /\ MakeOffer(c, u, l)
  BY <1>3, BeginKeeps DEF MakeOffer
<1>4. CASE l \in Listings /\ Buy(c, u, l)
  BY <1>4, BeginKeeps DEF Buy
<1> QED
  BY <1>1, <1>2, <1>3, <1>4

LEMMA OfferArrives ==
  ASSUME DeskInv, NEW c \in Calls, NEW o \in Offers, AcceptOffer(c, o) \/ RejectOffer(c, o)
  PROVE  DeskInv'
<1> USE DEF Steps, Knows, ListingSteps, DealSteps, RecoverySteps, Exists
<1>1. CASE AcceptOffer(c, o)
  <2>1. /\ offer[o].listing \in Listings /\ listing[offer[o].listing].status # "none"
        /\ offer[o].buyer \in Users
    BY <1>1 DEF AcceptOffer, DeskInv, Documents
  <2> QED
    BY <1>1, <2>1, BeginKeeps DEF AcceptOffer
<1>2. CASE RejectOffer(c, o)
  BY <1>2, BeginKeeps DEF RejectOffer
<1> QED
  BY <1>1, <1>2

LEMMA DealArrives ==
  ASSUME DeskInv, NEW c \in Calls, NEW d \in Deals,
         \/ SubmitProof(c, d) \/ ConfirmPayment(c, d) \/ ConfirmTransfer(c, d) \/ CancelDeal(c, d)
         \/ Dispute(c, d)
         \/ Resolve(c, d, "release_to_buyer") \/ Resolve(c, d, "refund_seller_keeps")
  PROVE  DeskInv'
<1>1. /\ deal[d].status # "none" => deal[d].buyer \in Users
      /\ deal[d].payment = "submitted" => d \in proofs
      /\ deal[d].payment = "confirmed" => deal[d].confirmed
  BY DEF DeskInv, Documents
<1> USE DEF Steps, Knows, ListingSteps, DealSteps, RecoverySteps, DealLive
<1>2. CASE SubmitProof(c, d)
  BY <1>2, BeginKeeps DEF SubmitProof
<1>3. CASE ConfirmPayment(c, d)
  BY <1>1, <1>3, BeginKeeps DEF ConfirmPayment
<1>4. CASE ConfirmTransfer(c, d)
  BY <1>1, <1>4, BeginKeeps DEF ConfirmTransfer
<1>5. CASE CancelDeal(c, d)
  BY <1>5, BeginKeeps DEF CancelDeal
<1>6. CASE Dispute(c, d)
  <2>1. Enter(c, "dispute", d, None, None) /\ orderly' \in BOOLEAN
    BY <1>6 DEF Dispute, OpenCase, DeskInv
  <2> QED
    BY <1>6, <2>1, EnterKeeps DEF Dispute
<1>7. ASSUME NEW outcome \in Outcomes, Resolve(c, d, outcome) PROVE DeskInv'
  BY <1>1, <1>7, BeginKeeps DEF Resolve
<1> QED
  BY <1>2, <1>3, <1>4, <1>5, <1>6, <1>7 DEF Outcomes

LEMMA RecoveryArrives ==
  ASSUME DeskInv, NEW c \in Calls,
         \/ \E u \in Users : RequestRecovery(c, u)
         \/ \E r \in Recoveries : ApproveRecovery(c, r) \/ RejectRecovery(c, r)
  PROVE  DeskInv'
<1> USE DEF Steps, Knows, ListingSteps, DealSteps, RecoverySteps
<1>1. ASSUME NEW u \in Users, RequestRecovery(c, u) PROVE DeskInv'
  <2>1. Enter(c, "recHeld", None, u, None) /\ orderly' \in BOOLEAN
    BY <1>1 DEF RequestRecovery, OpenCase, DeskInv
  <2> QED
    BY <1>1, <2>1, EnterKeeps DEF RequestRecovery
<1>2. ASSUME NEW r \in Recoveries PROVE recovery[r].user \in Users \cup {None}
  BY DEF DeskInv, TypedDocuments, RecoveryDocs
<1>3. ASSUME NEW r \in Recoveries, ApproveRecovery(c, r) PROVE DeskInv'
  BY <1>2, <1>3, BeginKeeps DEF ApproveRecovery, Outcomes
<1>4. ASSUME NEW r \in Recoveries, RejectRecovery(c, r) PROVE DeskInv'
  <2>1. PICK step \in {"recUnfreeze", "recClose"} : Begin(c, step, r, recovery[r].user, "rejected")
    BY <1>4 DEF RejectRecovery
  <2> QED
    BY <1>2, <1>4, <2>1, BeginKeeps DEF RejectRecovery, Outcomes
<1> QED
  BY <1>1, <1>3, <1>4

-----------------------------------------------------------------------------
(* Steps of a handler: what each kind of write keeps of the documents.     *)

LEMMA GotoKeeps ==
  ASSUME DeskInv, DocumentsKeep, NEW c \in Calls, NEW from, NEW to \in Steps, Goto(c, from, to),
         Knows([call[c] EXCEPT !.step = to])
  PROVE  DeskInv'
<1>1. PICK h \in HandlerStates :
        /\ call' = [call EXCEPT ![c] = h] /\ orderly' \in BOOLEAN
        /\ \/ h.step = "idle"
           \/ /\ h.step = to
              /\ h.on = call[c].on /\ h.who = call[c].who /\ h.arg = call[c].arg
  BY GotoIs
<1>2. Knows(h)
  <2>1. CASE h.step = "idle"
    BY <2>1 DEF Knows, ListingSteps, DealSteps, RecoverySteps
  <2>2. CASE h.step = to /\ h.on = call[c].on /\ h.who = call[c].who /\ h.arg = call[c].arg
    <3> DEFINE g == [call[c] EXCEPT !.step = to]
    <3>1. g.step = h.step /\ g.on = h.on /\ g.who = h.who /\ g.arg = h.arg /\ Knows(g)
      BY <2>2, Handlers DEF HandlerStates
    <3> HIDE DEF g
    <3> QED
      BY <3>1 DEF Knows
  <2> QED
    BY <1>1, <2>1, <2>2
<1> QED
  BY <1>1, <1>2, StepKeeps, KnowsStays DEF DocumentsKeep

\* The steps after which a handler needs to know no more than before.
Follows(from, to) ==
  \/ to = "idle"
  \/ <<from, to>> \in
       {<<"listCheck", "listInsert">>, <<"unlist", "expire">>, <<"acceptRead", "claim">>,
        <<"claim", "dealInsert">>, <<"link", "accept">>, <<"accept", "expireOthers">>,
        <<"proofDeal", "proofListing">>, <<"confirm", "confirmListing">>, <<"moveRead", "move">>,
        <<"move", "moveRow">>, <<"complete", "completeListing">>, <<"cancel", "reopen">>,
        <<"dispute", "disputeListing">>, <<"disputeListing", "freeze">>, <<"unfreeze", "void">>,
        <<"void", "voidListing">>, <<"recReassign", "recUnfreeze">>,
        <<"recReassign", "recClose">>, <<"recUnfreeze", "recClose">>}

LEMMA FollowKeeps ==
  ASSUME DeskInv, DocumentsKeep, NEW c \in Calls, NEW from, NEW to, Goto(c, from, to),
         Follows(from, to)
  PROVE  DeskInv'
<1>1. to \in Steps
  BY DEF Follows, Steps
<1>2. call[c].step = from
  BY DEF Goto
<1>3. Knows([call[c] EXCEPT !.step = to])
  BY <1>2, Handlers DEF Follows, HandlerStates, Knows, ListingSteps, DealSteps, RecoverySteps
<1> QED
  BY <1>1, <1>3, GotoKeeps

LEMMA ListingWrite ==
  ASSUME DeskInv, UNCHANGED <<nftVars, offer, dealVars, recovery>>,
         listing' \in [Listings -> ListingDocs], reopened' \in [Listings -> Nat],
         \A l \in Listings : listing[l].status # "none" => listing'[l].status # "none"
  PROVE  DocumentsKeep
BY DEF DeskInv, DocumentsKeep, TypedDocuments, Grows, Documents, Exists, nftVars, dealVars

\* One listing gets a status, and names a deal or none.
LEMMA StatusWrite ==
  ASSUME DeskInv, UNCHANGED <<nftVars, offer, dealVars, recovery>>,
         reopened' = reopened \/ reopened' \in [Listings -> Nat],
         NEW l, NEW status \in ListingStatuses,
         \/ listing' = [listing EXCEPT ![l].status = status]
         \/ listing' = [listing EXCEPT ![l].status = status, ![l].deal = None]
  PROVE  DocumentsKeep
<1>1. \A m \in Listings : listing[m] \in ListingDocs
  BY DEF DeskInv, TypedDocuments
<1>2. listing' \in [Listings -> ListingDocs] /\ status # "none"
  BY <1>1 DEF ListingDocs, ListingStatuses, ListingOpen, DeskInv, TypedDocuments
<1>3. \A m \in Listings : listing[m].status # "none" => listing'[m].status # "none"
  BY <1>1, <1>2 DEF ListingDocs, DeskInv, TypedDocuments
<1> QED
  BY <1>2, <1>3, ListingWrite DEF DeskInv, TypedDocuments

LEMMA OfferWrite ==
  ASSUME DeskInv, UNCHANGED <<nftVars, listingVars, dealVars, recovery>>,
         offer' \in [Offers -> OfferDocs],
         \A o \in Offers : offer'[o].status = "pending" =>
            \/ offer[o].status = "pending" /\ offer'[o] = offer[o]
            \/ Exists(offer'[o].listing) /\ offer'[o].buyer \in Users
  PROVE  DocumentsKeep
BY DEF DeskInv, DocumentsKeep, TypedDocuments, Grows, Documents, Exists, nftVars, dealVars,
       listingVars

LEMMA DealWrite ==
  ASSUME DeskInv, UNCHANGED <<nftVars, listingVars, offer, proofs, recovery>>,
         NEW d \in Deals, NEW doc \in DealDocs, deal' = [deal EXCEPT ![d] = doc],
         doc.status # "none", Exists(doc.listing), doc.buyer \in Users,
         deal[d].confirmed => doc.confirmed,
         doc.payment = "submitted" \/ doc.confirmed => d \in proofs,
         doc.payment = "confirmed" => doc.confirmed,
         doc.status = "completed" => d \in transfers
  PROVE  DocumentsKeep
<1> USE DEF DeskInv, nftVars, listingVars
<1>1. deal' \in [Deals -> DealDocs]
  BY DEF TypedDocuments
<1>2. \A e \in Deals : IF e = d THEN deal'[e] = doc ELSE deal'[e] = deal[e]
  BY DEF TypedDocuments
<1>3. TypedDocuments' /\ Grows
  BY <1>1, <1>2 DEF TypedDocuments, Grows
<1>4. Documents'
  BY <1>2 DEF Documents, Exists
<1> QED
  BY <1>3, <1>4 DEF DocumentsKeep

LEMMA SideWrite ==
  ASSUME DeskInv, UNCHANGED <<listingVars, offer, deal>>,
         nft' \in [holder : Users, frozen : BOOLEAN], recovery' \in [Recoveries -> RecoveryDocs],
         transfers \subseteq transfers', transfers' \subseteq Deals,
         proofs \subseteq proofs', proofs' \subseteq Deals
  PROVE  DocumentsKeep
BY DEF DeskInv, DocumentsKeep, TypedDocuments, Grows, Documents, Exists, listingVars

-----------------------------------------------------------------------------
LEMMA Reads ==
  ASSUME DeskInv, NEW c \in Calls,
         ListCheck(c) \/ AcceptRead(c) \/ MoveRead(c) \/ RecoveryReassign(c)
  PROVE  DeskInv'
<1>1. ASSUME NEW from, NEW to, Goto(c, from, to), Follows(from, to),
             UNCHANGED <<nftVars, listingVars, offer, dealVars, recovery>>
      PROVE  DeskInv'
  BY <1>1, SameDocuments, FollowKeeps
<1> USE DEF Follows
<1>2. CASE ListCheck(c)
  BY <1>1, <1>2 DEF ListCheck
<1>3. CASE AcceptRead(c)
  BY <1>1, <1>3 DEF AcceptRead
<1>4. CASE MoveRead(c)
  BY <1>1, <1>4 DEF MoveRead
<1>5. CASE RecoveryReassign(c)
  BY <1>1, <1>5 DEF RecoveryReassign
<1> QED
  BY <1>2, <1>3, <1>4, <1>5

\* Steps that write a status of the listing.
LEMMA ListingWrites ==
  ASSUME DeskInv, NEW c \in Calls,
         \/ Unlist(c) \/ Claim(c) \/ ProofListing(c) \/ ConfirmListing(c) \/ CompleteListing(c)
         \/ DisputeListing(c) \/ VoidListing(c)
  PROVE  DeskInv'
<1>1. ASSUME NEW from, NEW to, Goto(c, from, to), Follows(from, to),
             NEW l, NEW status \in ListingStatuses, SetListing(l, status)
      PROVE  DeskInv'
  <2>1. DocumentsKeep
    BY <1>1, StatusWrite DEF SetListing
  <2> QED
    BY <1>1, <2>1, FollowKeeps
<1> USE DEF Follows, ListingStatuses, ListingOpen
<1>2. CASE Unlist(c)
  BY <1>1, <1>2 DEF Unlist
<1>3. CASE Claim(c)
  <2>1. \/ Goto(c, "claim", "dealInsert") /\ SetListing(call[c].on, "reserved")
        \/ Goto(c, "claim", "idle") /\ UNCHANGED <<nftVars, listingVars, offer, dealVars, recovery>>
    BY <1>3 DEF Claim
  <2>2. CASE Goto(c, "claim", "dealInsert") /\ SetListing(call[c].on, "reserved")
    BY <1>1, <2>2
  <2>3. CASE /\ Goto(c, "claim", "idle")
             /\ UNCHANGED <<nftVars, listingVars, offer, dealVars, recovery>>
    BY <2>3, SameDocuments, FollowKeeps
  <2> QED
    BY <2>1, <2>2, <2>3
<1>4. CASE ProofListing(c)
  BY <1>1, <1>4 DEF ProofListing
<1>5. CASE ConfirmListing(c)
  BY <1>1, <1>5 DEF ConfirmListing
<1>6. CASE CompleteListing(c)
  BY <1>1, <1>6 DEF CompleteListing
<1>7. CASE DisputeListing(c)
  BY <1>1, <1>7 DEF DisputeListing
<1>8. CASE VoidListing(c)
  <2>1. DocumentsKeep
    BY <1>8, StatusWrite DEF VoidListing
  <2> QED
    BY <1>8, <2>1, FollowKeeps DEF VoidListing
<1> QED
  BY <1>2, <1>3, <1>4, <1>5, <1>6, <1>7, <1>8

LEMMA ListingInserts ==
  ASSUME DeskInv, NEW c \in Calls, ListInsert(c) \/ Link(c) \/ Reopen(c)
  PROVE  DeskInv'
<1>1. \A l \in Listings : listing[l] \in ListingDocs
  BY DEF DeskInv, TypedDocuments
<1> USE DEF Follows
<1>2. CASE ListInsert(c)
  <2>1. PICK l \in Listings :
          /\ listing' = [listing EXCEPT ![l] = [status |-> "active", seller |-> call[c].who,
                                                deal |-> None]]
          /\ UNCHANGED <<nftVars, reopened, offer, dealVars, recovery>>
          /\ Goto(c, "listInsert", "idle")
    BY <1>2 DEF ListInsert
  <2>2. call[c].who \in Users \cup {None}
    BY Handlers DEF HandlerStates
  <2>3. listing' \in [Listings -> ListingDocs]
    BY <2>1, <2>2 DEF DeskInv, TypedDocuments, ListingDocs, ListingStatuses, ListingOpen
  <2>4. \A m \in Listings : listing[m].status # "none" => listing'[m].status # "none"
    BY <2>1 DEF DeskInv, TypedDocuments
  <2>5. DocumentsKeep
    BY <2>1, <2>3, <2>4, ListingWrite DEF DeskInv, TypedDocuments
  <2> QED
    BY <2>1, <2>5, FollowKeeps
<1>3. CASE Link(c)
  <2>1. PICK to \in {"idle", "accept"} :
          /\ Goto(c, "link", to)
          /\ listing' = [listing EXCEPT ![Theirs(c)].deal = call[c].on]
          /\ UNCHANGED <<nftVars, reopened, offer, dealVars, recovery>>
    BY <1>3 DEF Link
  <2>2. call[c].step = "link" /\ call[c].on \in Deals
    BY <2>1, Handlers DEF Goto, Knows, DealSteps
  <2>3. \A m \in Listings : listing'[m] \in ListingDocs /\ listing'[m].status = listing[m].status
    BY <1>1, <2>1, <2>2 DEF ListingDocs, DeskInv, TypedDocuments
  <2>4. listing' \in [Listings -> ListingDocs]
    BY <2>1, <2>3 DEF DeskInv, TypedDocuments
  <2>5. DocumentsKeep
    BY <2>1, <2>3, <2>4, ListingWrite DEF DeskInv, TypedDocuments
  <2> QED
    BY <2>1, <2>5, FollowKeeps
<1>4. CASE Reopen(c)
  <2>1. /\ Goto(c, "reopen", "idle")
        /\ UNCHANGED <<nftVars, offer, dealVars, recovery>>
    BY <1>4 DEF Reopen
  <2>2. CASE UNCHANGED listingVars
    BY <2>1, <2>2, SameDocuments, FollowKeeps
  <2>3. CASE /\ listing' = [listing EXCEPT ![Theirs(c)].status = "active", ![Theirs(c)].deal = None]
             /\ reopened' = [reopened EXCEPT ![Theirs(c)] =
                               IF @ < Cardinality(Deals) THEN @ + 1 ELSE @]
    <3>1. reopened' \in [Listings -> Nat]
      <4>1. reopened \in [Listings -> Nat]
        BY DEF DeskInv, TypedDocuments
      <4>2. \A l \in Listings : reopened'[l] \in {reopened[l], reopened[l] + 1}
        BY <2>3, <4>1
      <4>3. DOMAIN reopened' = Listings /\ reopened' = [l \in Listings |-> reopened'[l]]
        BY <2>3, <4>1
      <4> QED
        BY <4>1, <4>2, <4>3
    <3>2. DocumentsKeep
      BY <2>1, <2>3, <3>1, StatusWrite DEF ListingStatuses, ListingOpen
    <3> QED
      BY <2>1, <3>2, FollowKeeps
  <2> QED
    BY <1>4, <2>2, <2>3 DEF Reopen
<1> QED
  BY <1>2, <1>3, <1>4

LEMMA OfferWrites ==
  ASSUME DeskInv, NEW c \in Calls,
         Expire(c) \/ OfferInsert(c) \/ RejectWrite(c) \/ Accept(c) \/ ExpireOthers(c)
  PROVE  DeskInv'
<1>1. \A o \in Offers : offer[o] \in OfferDocs
  BY DEF DeskInv, TypedDocuments
<1>2. UNCHANGED <<nftVars, listingVars, dealVars, recovery>>
  BY DEF Expire, OfferInsert, RejectWrite, Accept, ExpireOthers
<1>3. ASSUME NEW o, NEW status \in {"rejected", "accepted"},
             offer' = [offer EXCEPT ![o].status = status]
      PROVE  DocumentsKeep
  <2>1. offer' \in [Offers -> OfferDocs]
    BY <1>1, <1>3 DEF OfferDocs, OfferStatuses, DeskInv, TypedDocuments
  <2>2. \A p \in Offers : offer'[p].status = "pending" => offer'[p] = offer[p]
    BY <1>1, <1>3 DEF OfferDocs, DeskInv, TypedDocuments
  <2> QED
    BY <1>2, <2>1, <2>2, OfferWrite
<1>4. ASSUME NEW l, NEW o, ExpireOffers(l, o) PROVE DocumentsKeep
  <2>1. offer' \in [Offers -> OfferDocs]
    BY <1>1, <1>4 DEF OfferDocs, OfferStatuses, ExpireOffers
  <2>2. \A p \in Offers : offer'[p].status = "pending" => offer'[p] = offer[p]
    BY <1>1, <1>4 DEF OfferDocs, ExpireOffers
  <2> QED
    BY <1>2, <2>1, <2>2, OfferWrite
<1> USE DEF Follows
<1>5. CASE Expire(c)
  BY <1>4, <1>5, FollowKeeps DEF Expire
<1>6. CASE RejectWrite(c)
  BY <1>3, <1>6, FollowKeeps DEF RejectWrite
<1>7. CASE Accept(c)
  BY <1>3, <1>7, FollowKeeps DEF Accept
<1>8. CASE ExpireOthers(c)
  BY <1>4, <1>8, FollowKeeps DEF ExpireOthers
<1>9. CASE OfferInsert(c)
  <2>1. PICK o \in Offers :
          /\ Goto(c, "offerInsert", "idle")
          /\ offer' = [offer EXCEPT ![o] = [status |-> "pending", listing |-> call[c].on,
                                           buyer |-> call[c].who]]
    BY <1>9 DEF OfferInsert
  <2>2. Exists(call[c].on) /\ call[c].who \in Users
    BY <2>1, Handlers DEF Goto, Knows, ListingSteps
  <2>3. offer' \in [Offers -> OfferDocs]
    BY <1>1, <2>1, <2>2 DEF OfferDocs, OfferStatuses, Exists, DeskInv, TypedDocuments
  <2>4. \A p \in Offers : \/ offer'[p] = offer[p]
                          \/ Exists(offer'[p].listing) /\ offer'[p].buyer \in Users
    BY <2>1, <2>2 DEF DeskInv, TypedDocuments
  <2>5. DocumentsKeep
    BY <1>2, <2>3, <2>4, OfferWrite
  <2> QED
    BY <2>1, <2>5, FollowKeeps
<1> QED
  BY <1>5, <1>6, <1>7, <1>8, <1>9

\* Steps that write a deal.
LEMMA DealIs ==
  ASSUME DeskInv, NEW d \in Deals, deal[d].status # "none"
  PROVE  /\ deal[d] \in DealDocs
         /\ Exists(deal[d].listing) /\ deal[d].buyer \in Users
         /\ deal[d].payment = "submitted" \/ deal[d].confirmed => d \in proofs
         /\ deal[d].payment = "confirmed" => deal[d].confirmed
         /\ deal[d].status = "completed" => d \in transfers
BY DEF DeskInv, TypedDocuments, Documents

\* A new status, when it is not completed without a transfer.
LEMMA DealStatus ==
  ASSUME DeskInv, NEW d \in Deals, deal[d].status # "none",
         NEW status \in DealLive \cup DealTerminal, status = "completed" => d \in transfers,
         UNCHANGED <<nftVars, listingVars, offer, proofs, recovery>>,
         deal' = [deal EXCEPT ![d] = [deal[d] EXCEPT !.status = status]]
  PROVE  DocumentsKeep
<1> DEFINE doc == [deal[d] EXCEPT !.status = status]
<1>1. status # "none"
  BY DEF DealLive, DealTerminal
<1>2. /\ doc \in DealDocs /\ doc.status = status
      /\ doc.payment = deal[d].payment /\ doc.confirmed = deal[d].confirmed
      /\ doc.listing = deal[d].listing /\ doc.buyer = deal[d].buyer
  BY DealIs DEF DealDocs
<1>3. Exists(doc.listing)
  BY <1>2, DealIs
<1>4. deal' = [deal EXCEPT ![d] = doc]
  OBVIOUS
<1> HIDE DEF doc
<1> QED
  BY <1>1, <1>2, <1>3, <1>4, DealIs, DealWrite

LEMMA DealWrites ==
  ASSUME DeskInv, NEW c \in Calls,
         \/ ProofDeal(c) \/ ConfirmDeal(c) \/ CompleteDeal(c) \/ CancelWrite(c) \/ DisputeDeal(c)
         \/ VoidDeal(c)
  PROVE  DeskInv'
<1> DEFINE d == call[c].on
<1>1. /\ d \in Deals /\ deal[d].status # "none"
      /\ call[c].step \in {"proofDeal", "confirm"} => d \in proofs
      /\ call[c].step = "complete" => d \in transfers
      /\ UNCHANGED <<nftVars, listingVars, offer, proofs, recovery>>
  BY Handlers DEF ProofDeal, ConfirmDeal, CompleteDeal, CancelWrite, DisputeDeal, VoidDeal, Goto,
                  SetDeal, Knows, DealSteps
<1>2. ASSUME NEW from, NEW to, Goto(c, from, to), Follows(from, to),
             NEW status \in DealLive \cup DealTerminal, status = "completed" => d \in transfers,
             SetDeal(c, [deal[d] EXCEPT !.status = status])
      PROVE  DeskInv'
  <2>1. DocumentsKeep
    BY <1>1, <1>2, DealStatus DEF SetDeal
  <2> QED
    BY <1>2, <2>1, FollowKeeps
<1> USE DEF Follows, DealLive, DealTerminal
<1>3. CASE ProofDeal(c)
  <2> DEFINE doc == [deal[d] EXCEPT !.payment = "submitted"]
  <2>1. /\ doc \in DealDocs /\ doc.status = deal[d].status
        /\ doc.payment = "submitted" /\ doc.confirmed = deal[d].confirmed
        /\ doc.listing = deal[d].listing /\ doc.buyer = deal[d].buyer
    BY <1>1, DealIs DEF DealDocs, Payments
  <2>2. Exists(doc.listing) /\ d \in proofs
    BY <1>1, <1>3, <2>1, DealIs DEF ProofDeal, Goto
  <2>3. deal' = [deal EXCEPT ![d] = doc]
    BY <1>3 DEF ProofDeal, SetDeal
  <2> HIDE DEF doc
  <2>4. DocumentsKeep
    BY <1>1, <2>1, <2>2, <2>3, DealIs, DealWrite
  <2> QED
    BY <1>3, <2>4, FollowKeeps DEF ProofDeal
<1>4. CASE ConfirmDeal(c)
  <2> DEFINE doc == [deal[d] EXCEPT !.payment = "confirmed", !.confirmed = TRUE,
                                    !.status = "nft_transfer_pending"]
  <2>1. /\ doc \in DealDocs /\ doc.status = "nft_transfer_pending"
        /\ doc.payment = "confirmed" /\ doc.confirmed
        /\ doc.listing = deal[d].listing /\ doc.buyer = deal[d].buyer
    BY <1>1, DealIs DEF DealDocs, Payments
  <2>2. Exists(doc.listing) /\ d \in proofs
    BY <1>1, <1>4, <2>1, DealIs DEF ConfirmDeal, Goto
  <2>3. deal' = [deal EXCEPT ![d] = doc]
    BY <1>4 DEF ConfirmDeal, SetDeal
  <2> HIDE DEF doc
  <2>4. DocumentsKeep
    BY <1>1, <2>1, <2>2, <2>3, DealIs, DealWrite
  <2> QED
    BY <1>4, <2>4, FollowKeeps DEF ConfirmDeal
<1>5. CASE CompleteDeal(c)
  BY <1>1, <1>2, <1>5 DEF CompleteDeal, Goto
<1>6. CASE CancelWrite(c)
  BY <1>2, <1>6 DEF CancelWrite
<1>7. CASE DisputeDeal(c)
  BY <1>2, <1>7 DEF DisputeDeal
<1>8. CASE VoidDeal(c)
  BY <1>2, <1>8 DEF VoidDeal
<1> QED
  BY <1>3, <1>4, <1>5, <1>6, <1>7, <1>8

LEMMA DealInserts ==
  ASSUME DeskInv, NEW c \in Calls, DealInsert(c)
  PROVE  DeskInv'
<1>1. PICK d \in Deals :
        /\ deal[d].status = "none" /\ call[c].step = "dealInsert"
        /\ call' = [call EXCEPT ![c].step = "link", ![c].on = d]
        /\ deal' = [deal EXCEPT ![d] = [status |-> "payment_pending", payment |-> "pending",
                                        listing |-> call[c].on, buyer |-> call[c].who,
                                        confirmed |-> FALSE]]
        /\ UNCHANGED <<nftVars, listingVars, offer, proofs, recovery, orderly>>
  BY DEF DealInsert
<1>2. Exists(call[c].on) /\ call[c].who \in Users /\ call[c] \in HandlerStates
  BY <1>1, Handlers DEF Knows, ListingSteps
<1> DEFINE doc == [status |-> "payment_pending", payment |-> "pending", listing |-> call[c].on,
                   buyer |-> call[c].who, confirmed |-> FALSE]
<1>3. /\ doc \in DealDocs /\ doc.status = "payment_pending" /\ doc.payment = "pending"
      /\ doc.listing = call[c].on /\ doc.buyer = call[c].who /\ doc.confirmed = FALSE
  BY <1>2 DEF DealDocs, DealLive, Payments, Exists
<1>4. deal' = [deal EXCEPT ![d] = doc] /\ Exists(doc.listing)
  BY <1>1, <1>2
<1> HIDE DEF doc
<1>5. ~deal[d].confirmed
  BY <1>1 DEF DeskInv, Documents
<1>6. DocumentsKeep
  BY <1>1, <1>2, <1>3, <1>4, <1>5, DealWrite
<1>7. PICK h \in HandlerStates : /\ h = [call[c] EXCEPT !.step = "link", !.on = d]
                                 /\ h.step = "link" /\ h.on = d
  <2> DEFINE g == [call[c] EXCEPT !.step = "link", !.on = d]
  <2>1. g \in HandlerStates /\ g.step = "link" /\ g.on = d
    BY <1>2 DEF HandlerStates, Steps
  <2> QED
    BY <2>1, Zenon
<1>8. call' = [call EXCEPT ![c] = h]
  BY <1>1, <1>7 DEF DeskInv
<1>9. orderly' \in BOOLEAN /\ deal'[d].status # "none"
  BY <1>1, <1>3, <1>4 DEF DeskInv, TypedDocuments
<1>10. Knows(h)'
  BY <1>7, <1>9 DEF Knows, ListingSteps, DealSteps, RecoverySteps
<1> QED
  BY <1>6, <1>8, <1>9, <1>10, StepKeeps

\* Steps that write the certificate, proofs, transfers and recoveries.
LEMMA CertificateWrites ==
  ASSUME DeskInv, NEW c \in Calls, Move(c) \/ Freeze(c) \/ Unfreeze(c) \/ RecoveryUnfreeze(c)
  PROVE  DeskInv'
<1>1. ASSUME NEW holder \in Users, NEW frozen \in BOOLEAN,
             \/ nft' = [nft EXCEPT !.holder = holder]
             \/ nft' = [nft EXCEPT !.frozen = frozen],
             UNCHANGED <<transfers, listingVars, offer, dealVars, recovery>>
      PROVE  DocumentsKeep
  <2>1. nft' \in [holder : Users, frozen : BOOLEAN]
    BY <1>1 DEF DeskInv, TypedDocuments
  <2> QED
    BY <1>1, <2>1, SideWrite DEF DeskInv, TypedDocuments, dealVars
<1> USE DEF Follows
<1>2. CASE Move(c)
  <2>1. call[c].who \in Users
    BY <1>2, Handlers DEF Move, Goto, Knows
  <2> QED
    BY <1>1, <1>2, <2>1, FollowKeeps DEF Move
<1>3. CASE Freeze(c)
  BY <1>1, <1>3, OtcConstants, FollowKeeps DEF Freeze, SetFrozen
<1>4. CASE Unfreeze(c)
  <2>1. DocumentsKeep
    BY <1>1, <1>4, OtcConstants DEF Unfreeze, SetFrozen
  <2>2. CASE call[c].arg = "release_to_buyer"
    <3>1. Goto(c, "unfreeze", "move") /\ call[c].step = "unfreeze"
      BY <1>4, <2>2 DEF Unfreeze, SetFrozen
    <3>2. Knows([call[c] EXCEPT !.step = "move"]) /\ "move" \in Steps
      BY <2>2, <3>1, Handlers DEF HandlerStates, Steps, Knows, ListingSteps, DealSteps,
                                  RecoverySteps
    <3> QED
      BY <2>1, <3>1, <3>2, GotoKeeps
  <2>3. CASE call[c].arg # "release_to_buyer"
    <3>1. Goto(c, "unfreeze", "void")
      BY <1>4, <2>3 DEF Unfreeze, SetFrozen
    <3> QED
      BY <2>1, <3>1, FollowKeeps
  <2> QED
    BY <2>2, <2>3
<1>5. CASE RecoveryUnfreeze(c)
  BY <1>1, <1>5, OtcConstants, FollowKeeps DEF RecoveryUnfreeze, SetFrozen
<1> QED
  BY <1>2, <1>3, <1>4, <1>5

\* A proof and a transfer tell the handler that they are there.
LEMMA EvidenceWrites ==
  ASSUME DeskInv, NEW c \in Calls, ProofInsert(c) \/ MoveRow(c)
  PROVE  DeskInv'
<1>1. PICK from \in {"proof", "moveRow"}, to \in {"proofDeal", "complete"} :
        /\ Goto(c, from, to)
        /\ to = "proofDeal" => proofs' = proofs \cup {call[c].on} /\ UNCHANGED transfers
        /\ to = "complete" => transfers' = transfers \cup {call[c].on} /\ UNCHANGED proofs
        /\ UNCHANGED <<nft, listingVars, offer, deal, recovery>>
  BY DEF ProofInsert, MoveRow, nftVars, dealVars
<1>2. call[c].on \in Deals /\ deal[call[c].on].status # "none"
  BY <1>1, Handlers DEF Goto, Knows, DealSteps
<1>3. DocumentsKeep
  BY <1>1, <1>2, SideWrite DEF DeskInv, TypedDocuments
<1>4. to \in Steps
  BY DEF Steps
<1>5. PICK h \in HandlerStates :
        /\ call' = [call EXCEPT ![c] = h] /\ orderly' \in BOOLEAN
        /\ \/ h.step = "idle"
           \/ h.step = to /\ h.on = call[c].on
  BY <1>1, <1>4, GotoIs
<1>6. Knows(h)'
  BY <1>1, <1>2, <1>5 DEF Knows, ListingSteps, DealSteps, RecoverySteps
<1> QED
  BY <1>3, <1>5, <1>6, StepKeeps

LEMMA RecoveryWrites ==
  ASSUME DeskInv, NEW c \in Calls,
         RecoveryHeld(c) \/ RecoveryFreeze(c) \/ RecoveryInsert(c) \/ RecoveryClose(c)
  PROVE  DeskInv'
<1>1. ASSUME NEW step \in {"recFreeze", "recInsert"}, NEW arg \in Outcomes \cup {call[c].arg},
             call[c].step \in {"recHeld", "recFreeze"},
             call' = [call EXCEPT ![c] = [call[c] EXCEPT !.step = step, !.arg = arg]],
             UNCHANGED orderly, DocumentsKeep
      PROVE  DeskInv'
  <2>1. PICK h \in HandlerStates : /\ h = [call[c] EXCEPT !.step = step, !.arg = arg]
                                   /\ h.step = step
    <3> DEFINE g == [call[c] EXCEPT !.step = step, !.arg = arg]
    <3>1. g \in HandlerStates /\ g.step = step
      BY Handlers DEF HandlerStates, Steps
    <3> QED
      BY <3>1, Zenon
  <2>2. call' = [call EXCEPT ![c] = h] /\ orderly' \in BOOLEAN
    BY <1>1, <2>1 DEF DeskInv
  <2>3. Knows(h)'
    BY <2>1 DEF Knows, ListingSteps, DealSteps, RecoverySteps
  <2> QED
    BY <1>1, <2>2, <2>3, StepKeeps
<1>2. call \in [Calls -> HandlerStates] /\ call[c] \in HandlerStates
  BY DEF DeskInv
<1>3. CASE RecoveryHeld(c)
  <2>1. PICK step \in {"recFreeze", "recInsert"} :
          call' = [call EXCEPT ![c] = [call[c] EXCEPT !.step = step, !.arg = call[c].arg]]
    BY <1>2, <1>3 DEF RecoveryHeld, HandlerStates
  <2> QED
    BY <1>1, <1>3, <2>1, SameDocuments DEF RecoveryHeld
<1>4. CASE RecoveryFreeze(c)
  <2>1. call' = [call EXCEPT ![c] = [call[c] EXCEPT !.step = "recInsert", !.arg = "froze"]]
    BY <1>2, <1>4 DEF RecoveryFreeze
  <2>2. nft' \in [holder : Users, frozen : BOOLEAN]
    BY <1>4 DEF RecoveryFreeze, DeskInv, TypedDocuments
  <2>3. DocumentsKeep
    BY <1>4, <2>2, SideWrite DEF RecoveryFreeze, DeskInv, TypedDocuments, dealVars
  <2> QED
    BY <1>1, <1>4, <2>1, <2>3 DEF RecoveryFreeze, Outcomes
<1>5. CASE RecoveryInsert(c)
  <2>1. PICK r \in Recoveries :
          /\ recovery' = [recovery EXCEPT ![r] = [status |-> "pending", user |-> call[c].who,
                                                  froze |-> call[c].arg = "froze"]]
          /\ Goto(c, "recInsert", "idle") /\ UNCHANGED <<nftVars, listingVars, offer, dealVars>>
    BY <1>5 DEF RecoveryInsert
  <2>2. recovery' \in [Recoveries -> RecoveryDocs]
    <3>1. [status |-> "pending", user |-> call[c].who, froze |-> call[c].arg = "froze"]
            \in RecoveryDocs
      BY <1>2 DEF RecoveryDocs, RecoveryStatuses, HandlerStates
    <3> QED
      BY <2>1, <3>1 DEF DeskInv, TypedDocuments
  <2>3. DocumentsKeep
    BY <2>1, <2>2, SideWrite DEF DeskInv, TypedDocuments, nftVars, dealVars
  <2> QED
    BY <2>1, <2>3, FollowKeeps DEF Follows
<1>6. CASE RecoveryClose(c)
  <2>1. call[c].arg \in {"approved", "rejected"}
    BY <1>6, Handlers DEF RecoveryClose, Goto, Knows, RecoverySteps
  <2>2. recovery' \in [Recoveries -> RecoveryDocs]
    BY <1>6, <2>1 DEF RecoveryClose, RecoveryDocs, RecoveryStatuses, DeskInv, TypedDocuments
  <2>3. DocumentsKeep
    BY <1>6, <2>2, SideWrite DEF RecoveryClose, DeskInv, TypedDocuments, nftVars, dealVars
  <2> QED
    BY <1>6, <2>3, FollowKeeps DEF Follows, RecoveryClose
<1> QED
  BY <1>3, <1>4, <1>5, <1>6

-----------------------------------------------------------------------------
LEMMA Steppings ==
  ASSUME DeskInv, NEW c \in Calls, Request(c) \/ Handler(c)
  PROVE  DeskInv'
<1>1. CASE Request(c)
  <2>1. ASSUME NEW l \in Listings, CancelListing(c, l) PROVE DeskInv'
    BY <2>1, OtcConstants, ListingArrives
  <2> QED
    BY <1>1, <2>1, ListingArrives, OfferArrives, DealArrives, RecoveryArrives DEF Request
<1>2. CASE Handler(c)
  BY <1>2, Reads, ListingWrites, ListingInserts, OfferWrites, DealWrites, DealInserts,
     CertificateWrites, EvidenceWrites, RecoveryWrites DEF Handler
<1> QED
  BY <1>1, <1>2

LEMMA StepDeskInv == DeskInv /\ [Next]_vars => DeskInv'
<1>1. DeskInv /\ Next => DeskInv'
  BY Steppings DEF Next
<1>2. DeskInv /\ UNCHANGED vars => DeskInv'
  <2> SUFFICES ASSUME DeskInv, UNCHANGED vars PROVE DeskInv'
    OBVIOUS
  <2> USE DEF vars, callVars
  <2>1. DocumentsKeep
    BY SameDocuments
  <2>2. \A c \in Calls : Knows(call[c])'
    BY DEF DeskInv, Knows, Exists, listingVars, dealVars, nftVars
  <2> QED
    BY <2>1, <2>2 DEF DeskInv, DocumentsKeep
<1> QED
  BY <1>1, <1>2

\* Every collection and handler of the desk keeps its type.
THEOREM TypeCorrect == Spec => []TypeOK
<1>1. DeskInv => TypeOK
  BY DEF DeskInv, TypedDocuments, TypeOK, HandlerStates, ListingDocs, OfferDocs, DealDocs,
         RecoveryDocs
<1> QED
  BY <1>1, InitDeskInv, StepDeskInv, PTL DEF Spec

\* confirm_payment and confirm_nft_transfer (lumen_otc.py): whatever overlaps
\* or dies, what is confirmed was proved, the certificate goes to a buyer who
\* paid or won a dispute, and a deal is completed once it has gone.
THEOREM GuarantorKeepsOrder == Spec => []EscrowOrder
<1>1. DeskInv => EscrowOrder
  <2> SUFFICES ASSUME DeskInv PROVE EscrowOrder
    OBVIOUS
  <2> QED
    BY DEF DeskInv, Documents, Knows, EscrowOrder
<1> QED
  BY <1>1, InitDeskInv, StepDeskInv, PTL DEF Spec

-----------------------------------------------------------------------------
(* Double sells.  A listing that was reopened n times has room for n + 1:  *)
(* each is taken by a deal, by a handler that has claimed the listing and  *)
(* not yet inserted its deal, or still free while the listing is active.   *)

Claimers(l) == {c \in Calls : call[c].step = "dealInsert" /\ call[c].on = l}
Free(l) == IF listing[l].status = "active" THEN 1 ELSE 0
RoomFor(l) ==
  reopened[l] < Cardinality(Deals) =>
    Cardinality(DealsOf(l)) + Cardinality(Claimers(l)) + Free(l) <= 1 + reopened[l]
Exclusive == \A l \in Listings : RoomFor(l)

LEMMA Finite ==
  ASSUME NEW l
  PROVE  /\ IsFiniteSet(DealsOf(l)) /\ Cardinality(DealsOf(l)) \in Nat
         /\ IsFiniteSet(Claimers(l)) /\ Cardinality(Claimers(l)) \in Nat
         /\ Cardinality(Deals) \in Nat /\ Cardinality(DealsOf(l)) <= Cardinality(Deals)
<1>1. DealsOf(l) \subseteq Deals /\ Claimers(l) \subseteq Calls
  BY DEF DealsOf, Claimers
<1> QED
  BY <1>1, OtcConstants, FS_Subset, FS_CardinalityType

LEMMA Enough == DeskInv /\ Exclusive => ClaimsAreExclusive
<1> SUFFICES ASSUME DeskInv, Exclusive, NEW l \in Listings
             PROVE  Cardinality(DealsOf(l)) <= 1 + reopened[l]
  BY DEF ClaimsAreExclusive
<1>1. reopened[l] \in Nat /\ Free(l) \in Nat
  BY DEF DeskInv, TypedDocuments, Free
<1> QED
  BY <1>1, Finite DEF Exclusive, RoomFor

\* A handler that neither claims nor inserts takes no room.
LEMMA ClaimersStay ==
  ASSUME DeskInv, NEW c \in Calls, call[c].step # "dealInsert", NEW h, h.step # "dealInsert",
         call' = [call EXCEPT ![c] = h]
  PROVE  \A l : Claimers(l)' = Claimers(l)
BY DEF DeskInv, Claimers

LEMMA GotoClaimersStay ==
  ASSUME DeskInv, NEW c \in Calls, NEW from, NEW to, Goto(c, from, to),
         from # "dealInsert", to # "dealInsert"
  PROVE  \A l : Claimers(l)' = Claimers(l)
<1>1. CASE to = "idle"
  BY <1>1, IdleKnows, ClaimersStay DEF Goto
<1>2. CASE to # "idle"
  <2> DEFINE h == [call[c] EXCEPT !.step = to]
  <2>1. h.step = to /\ call' = [call EXCEPT ![c] = h]
    BY <1>2, Handlers DEF Goto, HandlerStates
  <2> HIDE DEF h
  <2> QED
    BY <2>1, ClaimersStay DEF Goto
<1> QED
  BY <1>1, <1>2

LEMMA ExclusiveStays ==
  ASSUME DeskInv, Exclusive, \A l : Claimers(l)' = Claimers(l),
         \A d \in Deals : /\ deal'[d].status = "none" <=> deal[d].status = "none"
                          /\ deal'[d].listing = deal[d].listing,
         UNCHANGED reopened,
         \A l \in Listings : listing'[l].status = "active" => listing[l].status = "active"
  PROVE  Exclusive'
<1> SUFFICES ASSUME NEW l \in Listings PROVE RoomFor(l)'
  BY DEF Exclusive
<1>1. DealsOf(l)' = DealsOf(l)
  BY DEF DealsOf
<1>2. Free(l)' <= Free(l) /\ Free(l)' \in Nat /\ Free(l) \in Nat
  BY DEF Free
<1>3. RoomFor(l) /\ reopened[l] \in Nat
  BY DEF Exclusive, DeskInv, TypedDocuments
<1> QED
  BY <1>1, <1>2, <1>3, Finite DEF RoomFor

LEMMA RequestsTakeNoRoom ==
  ASSUME DeskInv, Exclusive, NEW c \in Calls, Request(c)
  PROVE  Exclusive'
<1>1. ASSUME NEW step, NEW on, NEW who, NEW arg, Enter(c, step, on, who, arg),
             step # "dealInsert", UNCHANGED <<listingVars, dealVars>>
      PROVE  Exclusive'
  <2> DEFINE h == [step |-> step, on |-> on, who |-> who, arg |-> arg]
  <2>1. call[c].step # "dealInsert" /\ h.step # "dealInsert" /\ call' = [call EXCEPT ![c] = h]
    BY <1>1 DEF Enter, Idle
  <2> HIDE DEF h
  <2>2. \A l : Claimers(l)' = Claimers(l)
    BY <2>1, ClaimersStay
  <2> QED
    BY <1>1, <2>2, ExclusiveStays DEF listingVars, dealVars
<1> USE DEF Begin, OpenCase
<1>2. ASSUME NEW u \in Users, CreateListing(c, u) \/ RequestRecovery(c, u) PROVE Exclusive'
  BY <1>1, <1>2 DEF CreateListing, RequestRecovery
<1>3. ASSUME NEW u \in Users, NEW l \in Listings, Buy(c, u, l) \/ MakeOffer(c, u, l)
      PROVE  Exclusive'
  BY <1>1, <1>3 DEF Buy, MakeOffer
<1>4. ASSUME NEW l \in Listings, CancelListing(c, l) PROVE Exclusive'
  BY <1>1, <1>4 DEF CancelListing
<1>5. ASSUME NEW o \in Offers, AcceptOffer(c, o) \/ RejectOffer(c, o) PROVE Exclusive'
  BY <1>1, <1>5 DEF AcceptOffer, RejectOffer
<1>6. ASSUME NEW d \in Deals, SubmitProof(c, d) \/ ConfirmPayment(c, d) \/ ConfirmTransfer(c, d)
      PROVE  Exclusive'
  BY <1>1, <1>6 DEF SubmitProof, ConfirmPayment, ConfirmTransfer
<1>7. ASSUME NEW d \in Deals, CancelDeal(c, d) \/ Dispute(c, d) PROVE Exclusive'
  BY <1>1, <1>7 DEF CancelDeal, Dispute
<1>8. ASSUME NEW d \in Deals, NEW outcome, Resolve(c, d, outcome) PROVE Exclusive'
  BY <1>1, <1>8 DEF Resolve
<1>9. ASSUME NEW r \in Recoveries, ApproveRecovery(c, r) PROVE Exclusive'
  BY <1>1, <1>9 DEF ApproveRecovery
<1>10. ASSUME NEW r \in Recoveries, RejectRecovery(c, r) PROVE Exclusive'
  <2>1. CASE recovery[r].froze
    BY <1>1, <1>10, <2>1 DEF RejectRecovery
  <2>2. CASE ~recovery[r].froze
    BY <1>1, <1>10, <2>2 DEF RejectRecovery
  <2> QED
    BY <2>1, <2>2
<1> QED
  BY <1>2, <1>3, <1>4, <1>5, <1>6, <1>7, <1>8, <1>9, <1>10 DEF Request

\* Handlers that touch neither a deal's existence nor make a listing active.
LEMMA HandlersTakeNoRoom ==
  ASSUME DeskInv, Exclusive, NEW c \in Calls, Handler(c), ~DealInsert(c), ~ListInsert(c),
         Claim(c) => UNCHANGED listing, Reopen(c) => UNCHANGED listingVars
  PROVE  Exclusive'
<1>1. ASSUME NEW from, NEW to, Goto(c, from, to), from # "dealInsert", to # "dealInsert",
             UNCHANGED reopened,
             \A d \in Deals : /\ deal'[d].status = "none" <=> deal[d].status = "none"
                              /\ deal'[d].listing = deal[d].listing,
             \A l \in Listings : listing'[l].status = "active" => listing[l].status = "active"
      PROVE  Exclusive'
  BY <1>1, GotoClaimersStay, ExclusiveStays
<1>2. ASSUME NEW from, NEW to, Goto(c, from, to), from # "dealInsert", to # "dealInsert",
             UNCHANGED <<listingVars, deal>>
      PROVE  Exclusive'
  BY <1>1, <1>2 DEF listingVars
<1>3. ASSUME NEW from, NEW to, Goto(c, from, to), from # "dealInsert", to # "dealInsert",
             NEW l, NEW status, status # "active",
             UNCHANGED <<reopened, dealVars>>,
             \/ listing' = [listing EXCEPT ![l].status = status]
             \/ listing' = [listing EXCEPT ![l].status = status, ![l].deal = None]
      PROVE  Exclusive'
  <2>1. \A m \in Listings : listing[m] \in ListingDocs
    BY DEF DeskInv, TypedDocuments
  <2>2. \A m \in Listings : listing'[m].status = "active" => listing[m].status = "active"
    BY <1>3, <2>1 DEF ListingDocs, DeskInv, TypedDocuments
  <2> QED
    BY <1>1, <1>3, <2>2 DEF dealVars
<1>4. ASSUME NEW from, NEW to, Goto(c, from, to), from # "dealInsert", to # "dealInsert",
             from \in DealSteps, NEW fields, SetDeal(c, fields), fields.status # "none",
             fields.listing = deal[call[c].on].listing
      PROVE  Exclusive'
  <2>1. call[c].on \in Deals /\ deal[call[c].on].status # "none"
    BY <1>4, Handlers DEF Goto, Knows
  <2>2. \A d \in Deals : /\ deal'[d].status = "none" <=> deal[d].status = "none"
                         /\ deal'[d].listing = deal[d].listing
    BY <1>4, <2>1 DEF SetDeal, DeskInv, TypedDocuments
  <2> QED
    BY <1>1, <1>4, <2>2 DEF SetDeal, listingVars
<1>5. CASE Expire(c) \/ OfferInsert(c) \/ RejectWrite(c) \/ Accept(c) \/ ExpireOthers(c)
  BY <1>2, <1>5 DEF Expire, OfferInsert, RejectWrite, Accept, ExpireOthers, dealVars
<1>6. CASE ListCheck(c) \/ AcceptRead(c) \/ MoveRead(c) \/ RecoveryReassign(c)
  <2>1. CASE ListCheck(c)
    BY <1>2, <2>1 DEF ListCheck, dealVars
  <2>2. CASE AcceptRead(c)
    BY <1>2, <2>2 DEF AcceptRead, dealVars
  <2>3. CASE MoveRead(c)
    BY <1>2, <2>3 DEF MoveRead, dealVars
  <2>4. CASE RecoveryReassign(c)
    BY <1>2, <2>4 DEF RecoveryReassign, dealVars
  <2> QED
    BY <1>6, <2>1, <2>2, <2>3, <2>4
<1>7. CASE Unlist(c) \/ ProofListing(c) \/ ConfirmListing(c)
  BY <1>3, <1>7 DEF Unlist, ProofListing, ConfirmListing, SetListing
<1>8. CASE CompleteListing(c) \/ DisputeListing(c) \/ VoidListing(c)
  BY <1>3, <1>8 DEF CompleteListing, DisputeListing, VoidListing, SetListing
<1>9. CASE ProofInsert(c) \/ MoveRow(c) \/ Move(c)
  BY <1>2, <1>9 DEF ProofInsert, MoveRow, Move, dealVars
<1>10. CASE Freeze(c) \/ Unfreeze(c) \/ RecoveryUnfreeze(c)
  <2>1. CASE Freeze(c)
    BY <1>2, <2>1 DEF Freeze, SetFrozen, dealVars
  <2>2. CASE Unfreeze(c)
    BY <1>2, <2>2 DEF Unfreeze, SetFrozen, dealVars
  <2>3. CASE RecoveryUnfreeze(c)
    BY <1>2, <2>3 DEF RecoveryUnfreeze, SetFrozen, dealVars
  <2> QED
    BY <1>10, <2>1, <2>2, <2>3
<1>11. CASE RecoveryInsert(c) \/ RecoveryClose(c)
  BY <1>2, <1>11 DEF RecoveryInsert, RecoveryClose, dealVars
<1>12. CASE RecoveryHeld(c) \/ RecoveryFreeze(c)
  <2>1. ASSUME NEW step \in {"recFreeze", "recInsert"}, NEW arg,
               call' = [call EXCEPT ![c] = [call[c] EXCEPT !.step = step, !.arg = arg]]
        PROVE  Exclusive'
    <3> DEFINE h == [call[c] EXCEPT !.step = step, !.arg = arg]
    <3>1. h.step = step /\ call' = [call EXCEPT ![c] = h]
      BY <2>1, Handlers DEF HandlerStates
    <3> HIDE DEF h
    <3>2. call[c].step # "dealInsert" /\ UNCHANGED <<listingVars, dealVars>>
      BY <1>12 DEF RecoveryHeld, RecoveryFreeze
    <3>3. \A l : Claimers(l)' = Claimers(l)
      BY <3>1, <3>2, ClaimersStay
    <3> QED
      BY <3>2, <3>3, ExclusiveStays DEF listingVars, dealVars
  <2>2. call \in [Calls -> HandlerStates] /\ call[c] \in HandlerStates
    BY DEF DeskInv
  <2>3. CASE RecoveryHeld(c)
    <3>1. PICK step \in {"recFreeze", "recInsert"} :
            call' = [call EXCEPT ![c] = [call[c] EXCEPT !.step = step, !.arg = call[c].arg]]
      BY <2>2, <2>3 DEF RecoveryHeld, HandlerStates
    <3> QED
      BY <2>1, <3>1
  <2>4. CASE RecoveryFreeze(c)
    <3>1. call' = [call EXCEPT ![c] = [call[c] EXCEPT !.step = "recInsert", !.arg = "froze"]]
      BY <2>2, <2>4 DEF RecoveryFreeze
    <3> QED
      BY <2>1, <3>1
  <2> QED
    BY <1>12, <2>3, <2>4
<1>13. CASE Link(c)
  <2>1. PICK to \in {"idle", "accept"} :
          /\ Goto(c, "link", to)
          /\ listing' = [listing EXCEPT ![Theirs(c)].deal = call[c].on]
          /\ UNCHANGED <<reopened, dealVars>>
    BY <1>13 DEF Link
  <2>2. \A l \in Listings : listing[l] \in ListingDocs
    BY DEF DeskInv, TypedDocuments
  <2>3. \A l \in Listings : listing'[l].status = listing[l].status
    BY <2>1, <2>2 DEF ListingDocs, DeskInv, TypedDocuments
  <2> QED
    BY <1>1, <2>1, <2>3 DEF dealVars
<1>14. CASE Claim(c)
  <2>1. Goto(c, "claim", "idle")
    <3>1. CASE Goto(c, "claim", "dealInsert") /\ SetListing(call[c].on, "reserved")
               /\ listing[call[c].on].status = "active"
      <4>1. call[c].on \in Listings
        BY <3>1, Handlers DEF Goto, Knows, ListingSteps, Exists
      <4>2. listing'[call[c].on].status = "reserved"
        BY <3>1, <4>1 DEF SetListing, DeskInv, TypedDocuments, ListingDocs
      <4> QED
        BY <1>14, <3>1, <4>2
    <3> QED
      BY <1>14, <3>1 DEF Claim
  <2>2. UNCHANGED <<listingVars, dealVars>>
    BY <1>14, <2>1, Handlers DEF Claim, Goto, SetListing, listingVars
  <2> QED
    BY <1>2, <2>1, <2>2 DEF dealVars
<1>15. CASE Reopen(c)
  BY <1>2, <1>15 DEF Reopen, dealVars
<1>16. ASSUME NEW from \in DealSteps, NEW to, Goto(c, from, to), to # "dealInsert"
       PROVE  /\ from # "dealInsert" /\ call[c].on \in Deals
              /\ deal[call[c].on].status # "none" /\ deal[call[c].on] \in DealDocs
  BY <1>16, Handlers DEF Goto, Knows, DealSteps, DeskInv, TypedDocuments
<1>17. CASE \/ ProofDeal(c) \/ ConfirmDeal(c) \/ CompleteDeal(c) \/ CancelWrite(c)
            \/ DisputeDeal(c) \/ VoidDeal(c)
  <2>1. ASSUME NEW from \in DealSteps, NEW to, Goto(c, from, to), to # "dealInsert",
               NEW status, status # "none", SetDeal(c, [deal[call[c].on] EXCEPT !.status = status])
        PROVE  Exclusive'
    BY <1>4, <1>16, <2>1 DEF DealDocs
  <2> USE DEF DealSteps
  <2>2. CASE ProofDeal(c)
    BY <1>4, <1>16, <2>2 DEF ProofDeal, DealDocs
  <2>3. CASE ConfirmDeal(c)
    BY <1>4, <1>16, <2>3 DEF ConfirmDeal, DealDocs
  <2>4. CASE CompleteDeal(c)
    BY <2>1, <2>4 DEF CompleteDeal
  <2>5. CASE CancelWrite(c)
    BY <2>1, <2>5 DEF CancelWrite
  <2>6. CASE DisputeDeal(c)
    BY <2>1, <2>6 DEF DisputeDeal
  <2>7. CASE VoidDeal(c)
    BY <2>1, <2>7 DEF VoidDeal
  <2> QED
    BY <1>17, <2>2, <2>3, <2>4, <2>5, <2>6, <2>7
<1> QED
  BY <1>5, <1>6, <1>7, <1>8, <1>9, <1>10, <1>11, <1>12, <1>13, <1>14, <1>15, <1>17 DEF Handler

\* The claim turns what was free into a claimer.
LEMMA ClaimTakesFree ==
  ASSUME DeskInv, Exclusive, NEW c \in Calls, Claim(c), ~UNCHANGED listing
  PROVE  Exclusive'
<1> DEFINE x == call[c].on
<1>1. /\ call[c].step = "claim" /\ listing[x].status = "active"
      /\ call' = [call EXCEPT ![c] = [call[c] EXCEPT !.step = "dealInsert"]]
      /\ listing' = [listing EXCEPT ![x].status = "reserved"]
      /\ UNCHANGED <<reopened, dealVars>>
  BY DEF Claim, Goto, SetListing, listingVars
<1>2. x \in Listings
  BY <1>1, Handlers DEF Knows, ListingSteps, Exists
<1>3. /\ call'[c].step = "dealInsert" /\ call'[c].on = x
      /\ \A d \in Calls : d # c => call'[d] = call[d]
  BY <1>1, Handlers DEF HandlerStates, DeskInv
<1> SUFFICES ASSUME NEW l \in Listings PROVE RoomFor(l)'
  BY DEF Exclusive
<1>4. RoomFor(l) /\ reopened[l] \in Nat /\ listing[l] \in ListingDocs
  BY DEF Exclusive, DeskInv, TypedDocuments
<1>5. DealsOf(l)' = DealsOf(l)
  BY <1>1 DEF DealsOf, dealVars
<1>6. CASE l = x
  <2>1. Claimers(l)' = Claimers(l) \cup {c} /\ c \notin Claimers(l)
    BY <1>1, <1>3, <1>6 DEF Claimers
  <2>2. Cardinality(Claimers(l)') = Cardinality(Claimers(l)) + 1
    BY <2>1, Finite, FS_AddElement
  <2>3. listing'[l].status = "reserved"
    BY <1>1, <1>2, <1>4, <1>6 DEF ListingDocs, DeskInv, TypedDocuments
  <2>4. Free(l) = 1 /\ Free(l)' = 0
    BY <1>1, <1>6, <2>3 DEF Free
  <2> QED
    BY <1>1, <1>4, <1>5, <2>2, <2>4, Finite DEF RoomFor
<1>7. CASE l # x
  <2>1. Claimers(l)' = Claimers(l)
    BY <1>1, <1>3, <1>7 DEF Claimers
  <2>2. Free(l)' = Free(l)
    BY <1>1, <1>7 DEF Free, DeskInv, TypedDocuments
  <2> QED
    BY <1>1, <1>4, <1>5, <2>1, <2>2 DEF RoomFor
<1> QED
  BY <1>6, <1>7

\* The insert turns a claimer into a deal.
LEMMA InsertTakesClaim ==
  ASSUME DeskInv, Exclusive, NEW c \in Calls, DealInsert(c)
  PROVE  Exclusive'
<1>1. PICK d \in Deals :
        /\ deal[d].status = "none" /\ call[c].step = "dealInsert"
        /\ call' = [call EXCEPT ![c].step = "link", ![c].on = d]
        /\ deal' = [deal EXCEPT ![d] = [status |-> "payment_pending", payment |-> "pending",
                                        listing |-> call[c].on, buyer |-> call[c].who,
                                        confirmed |-> FALSE]]
        /\ UNCHANGED <<listing, reopened>>
  BY DEF DealInsert, listingVars
<1>2. /\ call'[c].step = "link"
      /\ \A e \in Calls : e # c => call'[e] = call[e]
      /\ deal'[d].status = "payment_pending" /\ deal'[d].listing = call[c].on
      /\ \A e \in Deals : e # d => deal'[e] = deal[e]
  BY <1>1, Handlers DEF HandlerStates, DeskInv, TypedDocuments
<1> SUFFICES ASSUME NEW l \in Listings PROVE RoomFor(l)'
  BY DEF Exclusive
<1>3. RoomFor(l) /\ reopened[l] \in Nat
  BY DEF Exclusive, DeskInv, TypedDocuments
<1>4. Free(l)' = Free(l) /\ Free(l) \in Nat
  BY <1>1 DEF Free
<1>5. CASE l = call[c].on
  <2>1. Claimers(l)' = Claimers(l) \ {c} /\ c \in Claimers(l)
    BY <1>1, <1>2, <1>5 DEF Claimers
  <2>2. Cardinality(Claimers(l)') = Cardinality(Claimers(l)) - 1
    BY <2>1, Finite, FS_RemoveElement
  <2>3. DealsOf(l)' = DealsOf(l) \cup {d} /\ d \notin DealsOf(l)
    BY <1>1, <1>2, <1>5 DEF DealsOf
  <2>4. Cardinality(DealsOf(l)') = Cardinality(DealsOf(l)) + 1
    BY <2>3, Finite, FS_AddElement
  <2> QED
    BY <1>1, <1>3, <1>4, <2>2, <2>4, Finite DEF RoomFor
<1>6. CASE l # call[c].on
  <2>1. Claimers(l)' = Claimers(l)
    BY <1>1, <1>2, <1>6 DEF Claimers
  <2>2. DealsOf(l)' = DealsOf(l)
    BY <1>1, <1>2, <1>6 DEF DealsOf
  <2> QED
    BY <1>1, <1>3, <1>4, <2>1, <2>2 DEF RoomFor
<1> QED
  BY <1>5, <1>6

\* A new listing has no deals and no claimers.
LEMMA ListingMakesRoom ==
  ASSUME DeskInv, Exclusive, NEW c \in Calls, ListInsert(c)
  PROVE  Exclusive'
<1>1. PICK x \in Listings :
        /\ listing[x].status = "none" /\ Goto(c, "listInsert", "idle")
        /\ listing' = [listing EXCEPT ![x] = [status |-> "active", seller |-> call[c].who,
                                              deal |-> None]]
        /\ UNCHANGED <<reopened, dealVars>>
  BY DEF ListInsert
<1>2. \A l : Claimers(l)' = Claimers(l)
  BY <1>1, GotoClaimersStay
<1> SUFFICES ASSUME NEW l \in Listings PROVE RoomFor(l)'
  BY DEF Exclusive
<1>3. RoomFor(l) /\ reopened[l] \in Nat
  BY DEF Exclusive, DeskInv, TypedDocuments
<1>4. DealsOf(l)' = DealsOf(l)
  BY <1>1 DEF DealsOf, dealVars
<1>5. CASE l = x
  <2>1. DealsOf(l) = {}
    BY <1>1, <1>5 DEF DealsOf, DeskInv, Documents, Exists
  <2>2. Claimers(l) = {}
    BY <1>1, <1>5, Handlers DEF Claimers, Knows, ListingSteps, Exists
  <2>3. Free(l)' <= 1 /\ Free(l)' \in Nat
    BY DEF Free
  <2> QED
    BY <1>1, <1>2, <1>3, <1>4, <2>1, <2>2, <2>3, FS_EmptySet DEF RoomFor
<1>6. CASE l # x
  <2>1. Free(l)' = Free(l)
    BY <1>1, <1>6 DEF Free, DeskInv, TypedDocuments
  <2> QED
    BY <1>1, <1>2, <1>3, <1>4, <2>1 DEF RoomFor
<1> QED
  BY <1>5, <1>6

\* A listing that is reopened has room for one more.
LEMMA ReopeningMakesRoom ==
  ASSUME DeskInv, Exclusive, NEW c \in Calls, Reopen(c), ~UNCHANGED listingVars
  PROVE  Exclusive'
<1> DEFINE x == Theirs(c)
<1>1. /\ Goto(c, "reopen", "idle")
      /\ listing' = [listing EXCEPT ![x].status = "active", ![x].deal = None]
      /\ reopened' = [reopened EXCEPT ![x] = IF @ < Cardinality(Deals) THEN @ + 1 ELSE @]
      /\ UNCHANGED dealVars
  BY DEF Reopen
<1>2. \A l : Claimers(l)' = Claimers(l)
  BY <1>1, GotoClaimersStay
<1> SUFFICES ASSUME NEW l \in Listings PROVE RoomFor(l)'
  BY DEF Exclusive
<1>3. RoomFor(l) /\ reopened \in [Listings -> Nat] /\ reopened[l] \in Nat
  BY DEF Exclusive, DeskInv, TypedDocuments
<1>4. DealsOf(l)' = DealsOf(l)
  BY <1>1 DEF DealsOf, dealVars
<1>5. CASE l = x
  <2>1. Free(l) \in Nat /\ Free(l)' <= 1 /\ Free(l)' \in Nat
    BY DEF Free
  <2>2. reopened'[l] = IF reopened[l] < Cardinality(Deals) THEN reopened[l] + 1 ELSE reopened[l]
    BY <1>1, <1>3, <1>5
  <2> QED
    BY <1>2, <1>3, <1>4, <2>1, <2>2, Finite DEF RoomFor
<1>6. CASE l # x
  <2>1. Free(l)' = Free(l) /\ reopened'[l] = reopened[l]
    BY <1>1, <1>3, <1>6 DEF Free, DeskInv, TypedDocuments
  <2> QED
    BY <1>2, <1>3, <1>4, <2>1 DEF RoomFor
<1> QED
  BY <1>5, <1>6

LEMMA InitExclusive == Init => Exclusive
<1> SUFFICES ASSUME Init, NEW l \in Listings PROVE RoomFor(l)
  BY DEF Exclusive
<1>1. DealsOf(l) = {} /\ Claimers(l) = {} /\ Free(l) = 0 /\ reopened[l] = 0
  BY DEF Init, DealsOf, Claimers, Free, Idle
<1> QED
  BY <1>1, FS_EmptySet DEF RoomFor

LEMMA StepExclusive == DeskInv /\ Exclusive /\ [Next]_vars => Exclusive'
<1> SUFFICES ASSUME DeskInv, Exclusive, [Next]_vars PROVE Exclusive'
  OBVIOUS
<1>1. ASSUME NEW c \in Calls, Handler(c) PROVE Exclusive'
  BY <1>1, HandlersTakeNoRoom, ClaimTakesFree, InsertTakesClaim, ListingMakesRoom,
     ReopeningMakesRoom
<1>2. CASE UNCHANGED vars
  <2> USE DEF vars, listingVars, dealVars, callVars
  <2>1. \A l : Claimers(l)' = Claimers(l)
    BY <1>2 DEF Claimers
  <2> QED
    BY <1>2, <2>1, ExclusiveStays
<1> QED
  BY <1>1, <1>2, RequestsTakeNoRoom DEF Next

\* "Atomically claim the listing to prevent double-sell" (lumen_otc.py): for
\* any number of calls, overlapping and dying anywhere.
THEOREM NeverDoubleSold == Spec => []ClaimsAreExclusive
<1>1. Init => DeskInv /\ Exclusive
  BY InitDeskInv, InitExclusive
<1>2. DeskInv /\ Exclusive /\ [Next]_vars => (DeskInv /\ Exclusive)'
  BY StepDeskInv, StepExclusive
<1>3. DeskInv /\ Exclusive => ClaimsAreExclusive
  BY Enough
<1> QED
  BY <1>1, <1>2, <1>3, PTL DEF Spec

-----------------------------------------------------------------------------
(* Calls and cases that come one after the other: then what the handler h, *)
(* or Idle, is in the middle of says what the documents are like.          *)

Live(d) == deal[d].status \notin {"none", "cancelled"}
Unsold(l) == \A d \in Deals : Live(d) => deal[d].listing # l
SoldBy(l, d) == /\ d \in Deals /\ deal[d].listing = l
                /\ \A e \in Deals : Live(e) /\ deal[e].listing = l => e = d

\* A listing and its deal agree.
Agree(ls, ds, ps) ==
  \/ ls = "reserved" /\ ds = "payment_pending" /\ ps = "pending"
  \/ ls = "payment_pending" /\ ds = "payment_pending" /\ ps = "submitted"
  \/ ls = "nft_transfer_pending" /\ ds = "nft_transfer_pending" /\ ps = "confirmed"
  \/ ls = "disputed" /\ ds = "disputed"
  \/ ls = "completed" /\ ds = "completed"

Settled(l) ==
  IF listing[l].status \in {"none", "active", "cancelled"} THEN Unsold(l)
  ELSE /\ SoldBy(l, listing[l].deal)
       /\ Agree(listing[l].status, deal[listing[l].deal].status, deal[listing[l].deal].payment)

\* A handler that has claimed its listing, or written its deal and not yet the
\* listing: what it has left them in.
HalfWritten == {"link", "proofListing", "confirmListing", "completeListing", "reopen",
                "disputeListing", "voidListing"}
Reserved == {"reserved", "payment_pending", "nft_transfer_pending"}

Half(step, ls, ds, ps) ==
  \/ step = "link" /\ ls = "reserved" /\ ds = "payment_pending" /\ ps = "pending"
  \/ /\ step = "proofListing" /\ ls \in {"reserved", "payment_pending"}
     /\ ds = "payment_pending" /\ ps = "submitted"
  \/ /\ step = "confirmListing" /\ ls = "payment_pending"
     /\ ds = "nft_transfer_pending" /\ ps = "confirmed"
  \/ step = "completeListing" /\ ls \in {"nft_transfer_pending", "disputed"} /\ ds = "completed"
  \/ step = "reopen" /\ ls \in Reserved /\ ds = "cancelled"
  \/ step = "disputeListing" /\ ls \in Reserved \cup {"disputed"} /\ ds = "disputed"
  \/ step = "voidListing" /\ ls = "disputed" /\ ds = "cancelled"

Subject(h) == IF h.step = "dealInsert" THEN h.on
              ELSE IF h.step \in HalfWritten THEN deal[h.on].listing ELSE None

ListingsExact(h) ==
  /\ \A l \in Listings : l # Subject(h) => Settled(l)
  /\ h.step = "dealInsert" => listing[h.on].status = "reserved" /\ Unsold(h.on)
  /\ h.step \in HalfWritten =>
       /\ SoldBy(Subject(h), h.on)
       /\ h.step # "link" => listing[Subject(h)].deal = h.on
       /\ Half(h.step, listing[Subject(h)].status, deal[h.on].status, deal[h.on].payment)

\* Of the open listings there is one at most, and its seller holds the
\* certificate but for a transfer under way; none is open in a dispute.
Open(l) == l \in Listings /\ listing[l].status \in ListingOpen
Disputed(d) == d \in Deals /\ deal[d].status = "disputed"

OpenExact(h) ==
  /\ \A l, m : Open(l) /\ Open(m) => l = m
  /\ \A l : Open(l) =>
       IF h.step \in {"moveRow", "complete", "completeListing"} THEN l = deal[h.on].listing
       ELSE listing[l].seller = nft.holder
  /\ \A d, l : Disputed(d) /\ Open(l) => h.step = "disputeListing" /\ l = Subject(h)
  /\ h.step \in {"listCheck", "listInsert"} => h.who = nft.holder /\ ~nft.frozen
  /\ h.step = "listInsert" => \A l : ~Open(l)

\* One case is open at most, and the certificate is frozen for it, by the holder.
Recovering(r) == r \in Recoveries /\ recovery[r].status = "pending"
Case(x) == Disputed(x) \/ Recovering(x)
Demands(x) == Disputed(x) \/ (Recovering(x) /\ recovery[x].froze)
Opening == {"dispute", "disputeListing", "freeze", "recHeld", "recFreeze", "recInsert"}
Unfrozen == {"move", "moveRow", "complete", "void", "recClose"}

CasesExact(h) ==
  /\ \A x, y : Case(x) /\ Case(y) => x = y
  /\ h.step \in Opening => \A x : Case(x) => x = h.on
  /\ h.step \in Unfrozen => ~nft.frozen /\ \A x : Demands(x) => x = h.on
  /\ h.step = "recInsert" => (nft.frozen <=> h.arg = "froze")
  /\ h.step \notin Unfrozen \cup {"disputeListing", "freeze", "recInsert"} =>
       (nft.frozen <=> \E x : Demands(x))
  /\ \A r : Recovering(r) /\ recovery[r].froze => recovery[r].user = nft.holder

\* What the handler has read still holds.
ReadsHold(h) ==
  /\ h.step = "unlist" => listing[h.on].status = "active"
  /\ h.step \in {"proof", "proofDeal"} => deal[h.on].status = "payment_pending"
  /\ h.step = "confirm" => deal[h.on].payment = "submitted" /\ deal[h.on].status \in DealLive
  /\ h.step = "moveRead" => deal[h.on].status = "nft_transfer_pending"
  /\ h.step \in {"move", "moveRow", "complete"} =>
       deal[h.on].status \in {"nft_transfer_pending", "disputed"}
  /\ h.step = "cancel" => deal[h.on].status \in DealLive
  /\ h.step = "dispute" => deal[h.on].status \in DealLive \cup {"disputed"}
  /\ h.step \in {"freeze", "unfreeze", "void"} => deal[h.on].status = "disputed"
  /\ h.step \in Opening \ {"dispute", "disputeListing", "freeze"} => h.on = None
  /\ h.step = "recHeld" => h.arg = None
  /\ h.step = "recFreeze" => h.who = nft.holder
  /\ h.step = "recInsert" /\ h.arg = "froze" => h.who = nft.holder
  /\ h.step \in RecoverySteps => Recovering(h.on) /\ h.who = recovery[h.on].user

Exact(h) == ListingsExact(h) /\ OpenExact(h) /\ CasesExact(h) /\ ReadsHold(h)

TidyInv ==
  orderly => /\ \A c, d \in Calls : call[c] # Idle /\ call[d] # Idle => c = d
             /\ \A c \in Calls : call[c] # Idle => Exact(call[c])
             /\ Quiet => Exact(Idle)

Orderly(c) == orderly /\ (call[c] = Idle => Quiet)

LEMMA Before ==
  ASSUME TidyInv, NEW c \in Calls, Orderly(c)
  PROVE  Exact(call[c]) /\ \A d \in Calls : d # c => call[d] = Idle
BY DEF TidyInv, Orderly, Quiet

LEMMA After ==
  ASSUME DeskInv, TidyInv, NEW c \in Calls, orderly' => Orderly(c), NEW h,
         call' = [call EXCEPT ![c] = h], orderly' => Exact(h)'
  PROVE  TidyInv'
<1> SUFFICES ASSUME orderly' PROVE TidyInv'
  BY DEF TidyInv
<1>1. Exact(h)' /\ \A d \in Calls : d # c => call[d] = Idle
  BY Before
<1>2. call'[c] = h /\ \A d \in Calls : d # c => call'[d] = Idle
  BY <1>1 DEF DeskInv
<1>3. \A d \in Calls : call'[d] # Idle => d = c
  BY <1>2
<1>4. ASSUME NEW d \in Calls, call'[d] # Idle PROVE Exact(call[d])'
  <2>1. d = c /\ call'[d] = h
    BY <1>2, <1>3, <1>4
  <2> QED
    BY <1>1, <2>1 DEF Exact, ListingsExact, OpenExact, CasesExact, ReadsHold, Subject
<1>5. ASSUME Quiet' PROVE Exact(Idle)'
  <2>1. h = Idle
    BY <1>2, <1>5 DEF Quiet
  <2> QED
    BY <1>1, <2>1
<1> QED
  BY <1>3, <1>4, <1>5 DEF TidyInv

\* Exact speaks of these documents only.
LEMMA ExactStays ==
  ASSUME NEW h, Exact(h), UNCHANGED <<nft, listing, deal, recovery>>
  PROVE  Exact(h)'
<1>1. ListingsExact(h)'
  BY DEF Exact, ListingsExact, Subject, Settled, Unsold, SoldBy, Live
<1>2. OpenExact(h)' /\ CasesExact(h)' /\ ReadsHold(h)'
  BY DEF Exact, OpenExact, CasesExact, ReadsHold, Open, Disputed, Recovering, Demands, Case,
         Subject
<1> QED
  BY <1>1, <1>2 DEF Exact

\* The handler g goes on as h, or ends.
GoneOn(g, h, to) ==
  IF to = "idle" THEN h = Idle
  ELSE h.step = to /\ h.on = g.on /\ h.who = g.who /\ h.arg = g.arg

LEMMA GoesOn ==
  ASSUME DeskInv, TidyInv, NEW c \in Calls, NEW from, NEW to \in Steps, Goto(c, from, to),
         from # "idle"
  PROVE  \E g, h \in HandlerStates :
           /\ call[c] = g /\ g.step = from /\ Knows(g)
           /\ GoneOn(g, h, to)
           /\ orderly => Exact(g)
           /\ (orderly => Exact(h)') => TidyInv'
<1>1. PICK g \in HandlerStates : call[c] = g
  BY Handlers
<1>2. g.step = from /\ Knows(g) /\ (orderly => Exact(g))
  <2>1. Idle # g
    BY <1>1, IdleKnows DEF Goto
  <2>2. orderly => Orderly(c)
    BY <1>1, <2>1 DEF Orderly
  <2>3. orderly => Exact(call[c])
    BY <2>2, Before
  <2> QED
    BY <1>1, <2>3, Handlers DEF Goto
<1>3. PICK h \in HandlerStates : call' = [call EXCEPT ![c] = h] /\ GoneOn(g, h, to)
  <2>1. CASE to = "idle"
    BY <2>1, IdleKnows DEF Goto, GoneOn
  <2>2. CASE to # "idle"
    <3> DEFINE k == [g EXCEPT !.step = to]
    <3>1. k \in HandlerStates /\ k.step = to /\ k.on = g.on /\ k.who = g.who /\ k.arg = g.arg
      BY DEF HandlerStates
    <3>2. call' = [call EXCEPT ![c] = k]
      BY <1>1, <2>2 DEF Goto
    <3> HIDE DEF k
    <3> QED
      BY <2>2, <3>1, <3>2 DEF GoneOn
  <2> QED
    BY <2>1, <2>2
<1>4. orderly' => Orderly(c)
  BY <1>1, <1>2, IdleKnows DEF Goto, Orderly
<1>5. (orderly => Exact(h)') => TidyInv'
  BY <1>3, <1>4, After DEF Goto
<1> QED
  BY <1>1, <1>2, <1>3, <1>5

LEMMA GoesTo ==
  ASSUME DeskInv, TidyInv, NEW c \in Calls, NEW g, call[c] = g, g.step # "idle",
         UNCHANGED orderly, NEW h, call' = [call EXCEPT ![c] = h]
  PROVE  /\ orderly => Exact(g)
         /\ (orderly => Exact(h)') => TidyInv'
<1>1. orderly => Orderly(c)
  BY IdleKnows DEF Orderly
<1> QED
  BY <1>1, Before, After

-----------------------------------------------------------------------------
(* Requests that arrive.                                                   *)

Arrivals == {"listCheck", "unlist", "offerInsert", "reject", "acceptRead", "claim", "proof",
             "confirm", "moveRead", "cancel", "dispute", "unfreeze", "recHeld", "recReassign",
             "recUnfreeze", "recClose"}

LEMMA Arrives ==
  ASSUME DeskInv, Exact(Idle), NEW h, h.step \in Arrivals, ReadsHold(h),
         h.step = "listCheck" => h.who = nft.holder /\ ~nft.frozen,
         h.step \in {"dispute", "recHeld"} => \A x : Case(x) => x = h.on,
         h.step = "recClose" => ~recovery[h.on].froze
  PROVE  Exact(h)
<1>1. ListingsExact(h)
  BY IdleKnows, OtcConstants DEF Exact, ListingsExact, Subject, Arrivals, HalfWritten, Idle
<1>2. OpenExact(h)
  BY IdleKnows, OtcConstants DEF Exact, OpenExact, Arrivals, HalfWritten, Idle
<1>3. CasesExact(h)
  <2>1. CASE h.step = "recClose"
    <3>1. Recovering(h.on) /\ h.on \notin Deals
      BY <2>1, OtcConstants DEF ReadsHold, Recovering, RecoverySteps
    <3>2. \A x : Case(x) => x = h.on
      BY <3>1 DEF Exact, CasesExact, Case
    <3>3. ~Demands(h.on)
      BY <2>1, <3>1 DEF Demands, Disputed
    <3>4. \A x : ~Demands(x)
      BY <3>2, <3>3 DEF Demands, Case
    <3> QED
      BY <2>1, <3>4 DEF Exact, CasesExact, Idle, Opening, Unfrozen
  <2>2. CASE h.step # "recClose"
    BY <2>2 DEF Exact, CasesExact, Idle, Arrivals, Opening, Unfrozen
  <2> QED
    BY <2>1, <2>2
<1> QED
  BY <1>1, <1>2, <1>3 DEF Exact

\* The request is in order only if what is asked of the handler then holds.
Ready(step, on, who, arg) ==
  \A h : /\ h.step = step /\ h.on = on /\ h.who = who /\ h.arg = arg
         /\ Exact(Idle)
         => /\ ReadsHold(h)
            /\ step = "listCheck" => who = nft.holder /\ ~nft.frozen
            /\ step \in {"dispute", "recHeld"} => \A x : Case(x) => x = on
            /\ step = "recClose" => ~recovery[on].froze

LEMMA Enters ==
  ASSUME DeskInv, TidyInv, UNCHANGED <<nftVars, listingVars, offer, dealVars, recovery>>,
         NEW c \in Calls, NEW step \in Arrivals, NEW on, NEW who, NEW arg,
         Enter(c, step, on, who, arg), orderly' => orderly /\ Quiet,
         orderly' => Ready(step, on, who, arg)
  PROVE  TidyInv'
<1>1. PICK h : h = [step |-> step, on |-> on, who |-> who, arg |-> arg]
  OBVIOUS
<1>2. h.step = step /\ h.on = on /\ h.who = who /\ h.arg = arg
  BY <1>1
<1>3. call' = [call EXCEPT ![c] = h]
  BY <1>1 DEF Enter
<1>4. ASSUME orderly' PROVE Exact(h)'
  <2>1. Exact(Idle)
    BY <1>4 DEF TidyInv
  <2>2. Exact(h)
    BY <1>2, <1>4, <2>1, Arrives DEF Ready
  <2> QED
    BY <2>2, ExactStays DEF nftVars, listingVars, dealVars
<1> QED
  BY <1>3, <1>4, After DEF Orderly

LEMMA Begins ==
  ASSUME DeskInv, TidyInv, UNCHANGED <<nftVars, listingVars, offer, dealVars, recovery>>,
         NEW c \in Calls, NEW step \in Arrivals, NEW on, NEW who, NEW arg,
         Begin(c, step, on, who, arg), Ready(step, on, who, arg)
  PROVE  TidyInv'
<1>1. Enter(c, step, on, who, arg) /\ (orderly' => orderly /\ Quiet)
  BY DEF Begin
<1> QED
  BY <1>1, Enters

LEMMA OpenCasesAre == \A x : x \in OpenCases <=> Case(x)
BY DEF OpenCases, Case, Disputed, Recovering

LEMMA TidyListingRequests ==
  ASSUME DeskInv, TidyInv, NEW c \in Calls, NEW u \in Users, NEW l,
         \/ CreateListing(c, u)
         \/ l \in Listings /\ (CancelListing(c, l) \/ MakeOffer(c, u, l) \/ Buy(c, u, l))
  PROVE  TidyInv'
<1> USE DEF Arrivals, Ready, ReadsHold, Opening, RecoverySteps
<1>1. CASE CreateListing(c, u)
  BY <1>1, Begins DEF CreateListing
<1>2. CASE l \in Listings /\ CancelListing(c, l)
  BY <1>2, Begins DEF CancelListing
<1>3. CASE l \in Listings /\ MakeOffer(c, u, l)
  BY <1>3, Begins DEF MakeOffer
<1>4. CASE l \in Listings /\ Buy(c, u, l)
  BY <1>4, Begins DEF Buy
<1> QED
  BY <1>1, <1>2, <1>3, <1>4

LEMMA TidyOfferRequests ==
  ASSUME DeskInv, TidyInv, NEW c \in Calls, NEW o \in Offers, AcceptOffer(c, o) \/ RejectOffer(c, o)
  PROVE  TidyInv'
<1> USE DEF Arrivals, Ready, ReadsHold, Opening, RecoverySteps
<1>1. CASE AcceptOffer(c, o)
  BY <1>1, Begins DEF AcceptOffer
<1>2. CASE RejectOffer(c, o)
  BY <1>2, Begins DEF RejectOffer
<1> QED
  BY <1>1, <1>2

LEMMA TidyDealRequests ==
  ASSUME DeskInv, TidyInv, NEW c \in Calls, NEW d \in Deals,
         \/ SubmitProof(c, d) \/ ConfirmPayment(c, d) \/ ConfirmTransfer(c, d) \/ CancelDeal(c, d)
         \/ Dispute(c, d)
         \/ Resolve(c, d, "release_to_buyer") \/ Resolve(c, d, "refund_seller_keeps")
  PROVE  TidyInv'
<1> USE DEF Arrivals, Ready, ReadsHold, Opening, RecoverySteps
<1>1. CASE SubmitProof(c, d)
  BY <1>1, Begins DEF SubmitProof
<1>2. CASE ConfirmPayment(c, d)
  BY <1>2, Begins DEF ConfirmPayment
<1>3. CASE ConfirmTransfer(c, d)
  BY <1>3, Begins DEF ConfirmTransfer
<1>4. CASE CancelDeal(c, d)
  BY <1>4, Begins DEF CancelDeal
<1>5. CASE Dispute(c, d)
  <2>1. deal[d].status \notin {"none", "completed", "cancelled"}
          => deal[d].status \in DealLive \cup {"disputed"}
    BY DEF DeskInv, TypedDocuments, DealDocs, DealLive, DealTerminal
  <2>2. /\ Enter(c, "dispute", d, None, None) /\ (orderly' => orderly /\ Quiet)
        /\ orderly' => \A x : Case(x) => x = d
        /\ orderly' => deal[d].status \in DealLive \cup {"disputed"}
    BY <1>5, <2>1, OpenCasesAre DEF Dispute, OpenCase
  <2> QED
    BY <1>5, <2>2, Enters DEF Dispute
<1>6. ASSUME NEW outcome, Resolve(c, d, outcome) PROVE TidyInv'
  BY <1>6, Begins DEF Resolve
<1> QED
  BY <1>1, <1>2, <1>3, <1>4, <1>5, <1>6

LEMMA TidyRecoveryRequests ==
  ASSUME DeskInv, TidyInv, NEW c \in Calls,
         \/ \E u \in Users : RequestRecovery(c, u)
         \/ \E r \in Recoveries : ApproveRecovery(c, r) \/ RejectRecovery(c, r)
  PROVE  TidyInv'
<1> USE DEF Arrivals, Ready, ReadsHold, Opening, RecoverySteps
<1>1. ASSUME NEW u \in Users, RequestRecovery(c, u) PROVE TidyInv'
  <2>1. /\ Enter(c, "recHeld", None, u, None) /\ (orderly' => orderly /\ Quiet)
        /\ orderly' => \A x : ~Case(x)
    <3>1. None \notin OpenCases
      BY OtcConstants DEF OpenCases
    <3> QED
      BY <1>1, <3>1, OpenCasesAre DEF RequestRecovery, OpenCase
  <2> QED
    BY <1>1, <2>1, Enters DEF RequestRecovery
<1>2. ASSUME NEW r \in Recoveries, ApproveRecovery(c, r) PROVE TidyInv'
  BY <1>2, Begins DEF ApproveRecovery, Recovering
<1>3. ASSUME NEW r \in Recoveries, RejectRecovery(c, r) PROVE TidyInv'
  <2>1. CASE recovery[r].froze
    BY <1>3, <2>1, Begins DEF RejectRecovery, Recovering
  <2>2. CASE ~recovery[r].froze
    BY <1>3, <2>2, Begins DEF RejectRecovery, Recovering
  <2> QED
    BY <2>1, <2>2
<1> QED
  BY <1>1, <1>2, <1>3

-----------------------------------------------------------------------------
(* Steps of a handler that leave the documents Exact speaks of alone.      *)

\* What the handler g reads before it goes on to a step.
Finds(g, to) ==
  \/ to = "idle" /\ g.step \in {"listCheck", "expire", "offerInsert", "reject", "acceptRead",
                               "claim", "expireOthers", "moveRead"}
  \/ g.step = "listCheck" /\ to = "listInsert" /\ \A l : ~Open(l)
  \/ g.step = "acceptRead" /\ to = "claim"
  \/ g.step = "accept" /\ to = "expireOthers"
  \/ g.step = "proof" /\ to = "proofDeal"
  \/ g.step = "moveRead" /\ to = "move" /\ ~nft.frozen
  \/ g.step = "moveRow" /\ to = "complete"
  \/ g.step = "recReassign" /\ to = "recUnfreeze"
  \/ g.step = "recReassign" /\ to = "recClose" /\ nft.holder # g.who

LEMMA Proceeds ==
  ASSUME DeskInv, NEW g \in HandlerStates, NEW h \in HandlerStates, NEW to, Exact(g), Finds(g, to),
         GoneOn(g, h, to)
  PROVE  Exact(h)
<1> USE IdleKnows, OtcConstants DEF Exact
<1>1. h.step = to /\ (to # "idle" => h.on = g.on /\ h.who = g.who /\ h.arg = g.arg)
  BY DEF GoneOn
<1>2. ListingsExact(h)
  BY <1>1 DEF ListingsExact, Subject, Finds, HalfWritten
<1>3. OpenExact(h)
  BY <1>1 DEF OpenExact, Subject, Finds, HalfWritten
<1>4. ReadsHold(h)
  BY <1>1 DEF ReadsHold, Finds, Opening, RecoverySteps
<1>5. CasesExact(h)
  <2>1. CASE to \in {"move", "recClose"}
    <3>1. CASE to = "move"
      BY <1>1, <3>1 DEF CasesExact, Finds, Opening, Unfrozen
    <3>2. CASE to = "recClose"
      <4>1. g.step = "recReassign" /\ nft.holder # g.who
        BY <3>2 DEF Finds
      <4>2. Recovering(g.on) /\ g.who = recovery[g.on].user
        BY <4>1 DEF ReadsHold, RecoverySteps
      <4>3. ~Demands(g.on)
        BY <4>1, <4>2 DEF CasesExact, Demands, Disputed, Recovering
      <4>4. \A x : ~Demands(x)
        BY <4>2, <4>3 DEF CasesExact, Demands, Case
      <4> QED
        BY <1>1, <3>2, <4>1, <4>4 DEF CasesExact, Opening, Unfrozen
    <3> QED
      BY <2>1, <3>1, <3>2
  <2>2. CASE to \notin {"move", "recClose"}
    BY <1>1, <2>2 DEF CasesExact, Finds, Opening, Unfrozen
  <2> QED
    BY <2>1, <2>2
<1> QED
  BY <1>2, <1>3, <1>4, <1>5

LEMMA TidyRead ==
  ASSUME DeskInv, TidyInv, UNCHANGED <<nft, listing, deal, recovery>>,
         NEW c \in Calls, NEW from \in Steps \ {"idle"}, NEW to \in Steps, Goto(c, from, to),
         Finds(call[c], to)
  PROVE  TidyInv'
<1>1. PICK g, h \in HandlerStates :
        /\ call[c] = g /\ GoneOn(g, h, to)
        /\ orderly => Exact(g)
        /\ (orderly => Exact(h)') => TidyInv'
  BY GoesOn
<1>2. ASSUME orderly PROVE Exact(h)'
  BY <1>1, <1>2, Proceeds, ExactStays
<1> QED
  BY <1>1, <1>2

LEMMA TidyReads ==
  ASSUME DeskInv, TidyInv, NEW c \in Calls,
         \/ ListCheck(c) \/ AcceptRead(c) \/ MoveRead(c) \/ RecoveryReassign(c)
         \/ Expire(c) \/ OfferInsert(c) \/ RejectWrite(c) \/ Accept(c) \/ ExpireOthers(c)
         \/ ProofInsert(c) \/ MoveRow(c)
  PROVE  TidyInv'
<1> USE DEF Finds, Goto, Steps, nftVars, listingVars, dealVars
<1>1. CASE ListCheck(c)
  <2>1. PICK to \in {"idle", "listInsert"} :
          Goto(c, "listCheck", to) /\ (to = "listInsert" => \A l : ~Open(l))
    BY <1>1 DEF ListCheck, Open
  <2> QED
    BY <1>1, <2>1, TidyRead DEF ListCheck
<1>2. CASE AcceptRead(c)
  <2>1. PICK to \in {"idle", "claim"} : Goto(c, "acceptRead", to)
    BY <1>2 DEF AcceptRead
  <2> QED
    BY <1>2, <2>1, TidyRead DEF AcceptRead
<1>3. CASE MoveRead(c)
  <2>1. PICK to \in {"idle", "move"} : Goto(c, "moveRead", to) /\ (to = "move" => ~nft.frozen)
    BY <1>3 DEF MoveRead
  <2> QED
    BY <1>3, <2>1, TidyRead DEF MoveRead
<1>4. CASE RecoveryReassign(c)
  <2>1. PICK to \in {"recUnfreeze", "recClose"} :
          Goto(c, "recReassign", to) /\ (to = "recClose" => nft.holder # call[c].who)
    BY <1>4 DEF RecoveryReassign
  <2> QED
    BY <1>4, <2>1, TidyRead DEF RecoveryReassign
<1>5. ASSUME NEW step \in {"expire", "offerInsert", "reject", "expireOthers"}, Goto(c, step, "idle"),
             UNCHANGED <<nft, listing, deal, recovery>>
      PROVE  TidyInv'
  BY <1>5, TidyRead
<1>6. CASE Expire(c) \/ OfferInsert(c) \/ RejectWrite(c) \/ Accept(c) \/ ExpireOthers(c)
  BY <1>5, <1>6, TidyRead DEF Expire, OfferInsert, RejectWrite, Accept, ExpireOthers
<1>7. CASE ProofInsert(c) \/ MoveRow(c)
  BY <1>7, TidyRead DEF ProofInsert, MoveRow
<1> QED
  BY <1>1, <1>2, <1>3, <1>4, <1>6, <1>7

-----------------------------------------------------------------------------
(* Steps that write a listing.                                             *)

WriteListing(l, doc) == listing' = [listing EXCEPT ![l] = doc]

LEMMA ListingSettles ==
  ASSUME DeskInv, NEW g, Exact(g), NEW l \in Listings, NEW doc, Subject(g) \in {None, l},
         WriteListing(l, doc), UNCHANGED deal, Settled(l)',
         NEW h, h.step \notin HalfWritten \cup {"dealInsert"}
  PROVE  ListingsExact(h)'
<1>1. ASSUME NEW m \in Listings PROVE Settled(m)'
  <2>1. CASE m = l
    BY <2>1
  <2>2. CASE m # l
    <3>1. Settled(m) /\ listing'[m] = listing[m]
      BY <2>2, OtcConstants DEF WriteListing, Exact, ListingsExact, DeskInv, TypedDocuments
    <3> QED
      BY <3>1 DEF Settled, Unsold, SoldBy, Live
  <2> QED
    BY <2>1, <2>2
<1> QED
  BY <1>1 DEF ListingsExact

\* A listing that is not opened by the step.
LEMMA OpenAsBefore ==
  ASSUME DeskInv, NEW g, Exact(g), NEW l \in Listings, NEW doc,
         WriteListing(l, doc), UNCHANGED <<nft, deal>>,
         doc.status \in ListingOpen => Open(l) /\ doc.seller = listing[l].seller,
         g.step \notin {"moveRow", "complete"},
         g.step \in {"completeListing", "disputeListing"} =>
           l = deal[g.on].listing /\ doc.status \notin ListingOpen,
         NEW h, h.step \in {"idle", "expire", "dealInsert", "accept", "freeze"}
  PROVE  OpenExact(h)'
<1>1. \A m \in Listings : listing'[m] = IF m = l THEN doc ELSE listing[m]
  BY DEF WriteListing, DeskInv, TypedDocuments
<1>2. \A m : Open(m)' => Open(m) /\ listing'[m].seller = listing[m].seller
                         /\ (m = l => doc.status \in ListingOpen)
  BY <1>1 DEF Open
<1>3. \A d : Disputed(d)' <=> Disputed(d)
  BY DEF Disputed
<1>4. g.step = "disputeListing" => Subject(g) = deal[g.on].listing
  BY DEF Subject, HalfWritten
<1> QED
  BY <1>2, <1>3, <1>4 DEF Exact, OpenExact

LEMMA CasesAsBefore ==
  ASSUME NEW g, NEW h, CasesExact(g), UNCHANGED <<nft, recovery>>,
         \A d : Disputed(d)' <=> Disputed(d),
         h.step \notin Opening \cup Unfrozen,
         g.step \notin Unfrozen \cup {"disputeListing", "freeze", "recInsert"}
  PROVE  CasesExact(h)'
BY DEF CasesExact, Case, Demands, Recovering, Opening

\* The handler g writes listing l, and its deal and the listing agree again.
LEMMA ListingWritten ==
  ASSUME DeskInv, NEW g, Exact(g), NEW l \in Listings, NEW doc,
         WriteListing(l, doc), UNCHANGED <<nft, deal, recovery>>, Settled(l)',
         g.step = "unlist" \/ (g.step \in HalfWritten /\ l = deal[g.on].listing),
         doc.status \in ListingOpen =>
           /\ Open(l) /\ doc.seller = listing[l].seller
           /\ g.step \notin {"completeListing", "disputeListing"},
         NEW h, \/ h.step \in {"idle", "accept"} /\ g.step # "disputeListing"
                \/ h.step = "expire" /\ g.step = "unlist"
                \/ h.step = "freeze" /\ g.step = "disputeListing" /\ h.on = g.on
  PROVE  Exact(h)'
<1>1. Subject(g) \in {None, l}
  BY DEF Subject, HalfWritten
<1>2. ListingsExact(h)'
  <2>1. h.step \notin HalfWritten \cup {"dealInsert"}
    BY DEF HalfWritten
  <2> QED
    BY <1>1, <2>1, ListingSettles
<1>3. OpenExact(h)'
  <2>1. g.step \notin {"moveRow", "complete"}
    BY DEF HalfWritten
  <2>2. g.step \in {"completeListing", "disputeListing"} =>
          l = deal[g.on].listing /\ doc.status \notin ListingOpen
    OBVIOUS
  <2>3. h.step \in {"idle", "expire", "dealInsert", "accept", "freeze"}
    OBVIOUS
  <2> QED
    BY <2>1, <2>2, <2>3, OpenAsBefore
<1>4. CasesExact(h)'
  <2>1. CASE g.step = "disputeListing"
    BY <2>1 DEF Exact, CasesExact, Case, Demands, Disputed, Recovering, Opening, Unfrozen
  <2>2. CASE g.step # "disputeListing"
    BY <2>2, CasesAsBefore DEF Exact, HalfWritten, Opening, Unfrozen, Disputed
  <2> QED
    BY <2>1, <2>2
<1>5. ReadsHold(h)'
  <2>1. g.step = "disputeListing" => deal[g.on].status = "disputed"
    BY DEF Exact, ListingsExact, Half, HalfWritten
  <2> QED
    BY <2>1 DEF ReadsHold, Opening, RecoverySteps
<1> QED
  BY <1>2, <1>3, <1>4, <1>5 DEF Exact

\* The handlers that write the listing after their deal.
LEMMA HalfIs ==
  ASSUME DeskInv, NEW g \in HandlerStates, Knows(g), Exact(g), g.step \in HalfWritten
  PROVE  /\ g.on \in Deals /\ deal[g.on].listing \in Listings
         /\ listing[deal[g.on].listing] \in ListingDocs /\ deal[g.on] \in DealDocs
         /\ SoldBy(deal[g.on].listing, g.on)
         /\ g.step # "link" => listing[deal[g.on].listing].deal = g.on
         /\ Half(g.step, listing[deal[g.on].listing].status, deal[g.on].status,
                 deal[g.on].payment)
<1>1. g.on \in Deals /\ deal[g.on].status # "none"
  BY DEF Knows, HalfWritten, DealSteps
<1>2. Subject(g) = deal[g.on].listing
  BY DEF Subject, HalfWritten
<1> QED
  BY <1>1, <1>2 DEF Exact, ListingsExact, DeskInv, TypedDocuments, Documents, Exists

\* Such a handler c sets the status of its listing, and what it names.
WriteHalf(c, status, named) ==
  listing' = [listing EXCEPT ![Theirs(c)] =
                [listing[Theirs(c)] EXCEPT !.status = status, !.deal = named]]

\* It leaves them in agreement.
Agreed(c, from, status, named) ==
  \A l, d : SoldBy(l, d) /\ l = Theirs(c) /\ d = call[c].on
            /\ (from # "link" => listing[l].deal = d)
            /\ Half(from, listing[l].status, deal[d].status, deal[d].payment)
    => /\ IF status = "active" \/ status = "cancelled" THEN ~Live(d)
          ELSE named = d /\ Agree(status, deal[d].status, deal[d].payment)
       /\ status \in ListingOpen => /\ listing[l].status \in ListingOpen
                                    /\ from \notin {"completeListing", "disputeListing"}

LEMMA TidyHalf ==
  ASSUME DeskInv, TidyInv, NEW c \in Calls, NEW from \in HalfWritten, NEW to \in Steps,
         Goto(c, from, to), UNCHANGED <<nft, deal, recovery>>,
         \/ to = "freeze" /\ from = "disputeListing"
         \/ to \in {"idle", "accept"} /\ from # "disputeListing",
         NEW status, NEW named, WriteHalf(c, status, named), Agreed(c, from, status, named)
  PROVE  TidyInv'
<1>1. PICK g, h \in HandlerStates :
        /\ call[c] = g /\ g.step = from /\ Knows(g) /\ GoneOn(g, h, to)
        /\ orderly => Exact(g)
        /\ (orderly => Exact(h)') => TidyInv'
  BY GoesOn DEF HalfWritten
<1> SUFFICES ASSUME orderly PROVE Exact(h)'
  BY <1>1
<1>2. PICK l : l = deal[g.on].listing
  OBVIOUS
<1>3. /\ g.on \in Deals /\ l \in Listings /\ listing[l] \in ListingDocs /\ SoldBy(l, g.on)
      /\ from # "link" => listing[l].deal = g.on
      /\ Half(from, listing[l].status, deal[g.on].status, deal[g.on].payment)
  BY <1>1, <1>2, HalfIs
<1>4. PICK doc : doc = [listing[l] EXCEPT !.status = status, !.deal = named]
  OBVIOUS
<1>5. /\ WriteListing(l, doc)
      /\ doc.status = status /\ doc.deal = named /\ doc.seller = listing[l].seller
  BY <1>1, <1>2, <1>3, <1>4 DEF WriteHalf, WriteListing, Theirs, ListingDocs
<1>6. listing'[l] = doc
  BY <1>3, <1>5 DEF WriteListing, DeskInv, TypedDocuments
<1>7. /\ IF status = "active" \/ status = "cancelled" THEN ~Live(g.on)
         ELSE named = g.on /\ Agree(status, deal[g.on].status, deal[g.on].payment)
      /\ status \in ListingOpen => /\ listing[l].status \in ListingOpen
                                   /\ from \notin {"completeListing", "disputeListing"}
  BY <1>1, <1>2, <1>3 DEF Theirs, Agreed
<1>8. Settled(l)'
  <2>1. CASE status \in {"active", "cancelled"}
    <3>1. Unsold(l)
      BY <1>3, <1>7, <2>1 DEF SoldBy, Unsold
    <3> QED
      BY <1>5, <1>6, <2>1, <3>1 DEF Settled, Unsold, Live
  <2>2. CASE status \notin {"active", "cancelled"}
    BY <1>3, <1>5, <1>6, <1>7, <2>2 DEF Settled, SoldBy, Live, Agree
  <2> QED
    BY <2>1, <2>2
<1>9. h.step = to /\ (to # "idle" => h.on = g.on)
  BY <1>1, IdleKnows DEF GoneOn
<1> QED
  BY <1>1, <1>2, <1>3, <1>5, <1>7, <1>8, <1>9, ListingWritten DEF Theirs, Open

LEMMA StatusWriteIs ==
  ASSUME DeskInv, NEW c \in Calls, call[c].step \in DealSteps
  PROVE  /\ Theirs(c) \in Listings
         /\ \A status : SetListing(Theirs(c), status)
                         => WriteHalf(c, status, listing[Theirs(c)].deal)
<1>1. Theirs(c) \in Listings
  BY Handlers DEF Knows, DeskInv, Documents, Exists, Theirs
<1>2. listing[Theirs(c)] \in ListingDocs
  BY <1>1 DEF DeskInv, TypedDocuments
<1>3. ASSUME NEW status, SetListing(Theirs(c), status)
      PROVE  WriteHalf(c, status, listing[Theirs(c)].deal)
  BY <1>2, <1>3 DEF SetListing, WriteHalf, ListingDocs
<1> QED
  BY <1>1, <1>3

LEMMA TidyHalfWrites ==
  ASSUME DeskInv, TidyInv, NEW c \in Calls,
         \/ Link(c) \/ ProofListing(c) \/ ConfirmListing(c) \/ CompleteListing(c)
         \/ DisputeListing(c) \/ VoidListing(c)
  PROVE  TidyInv'
<1>1. ASSUME NEW from \in HalfWritten \ {"link"}, NEW to \in {"idle", "freeze"}, Goto(c, from, to),
             (to = "freeze") <=> (from = "disputeListing"),
             NEW status, SetListing(Theirs(c), status),
             Agreed(c, from, status, listing[Theirs(c)].deal)
      PROVE  TidyInv'
  <2>1. call[c].step \in DealSteps
    BY <1>1 DEF Goto, DealSteps, HalfWritten
  <2>2. WriteHalf(c, status, listing[Theirs(c)].deal) /\ UNCHANGED <<nft, deal, recovery>>
    BY <1>1, <2>1, StatusWriteIs DEF SetListing, nftVars, dealVars
  <2>3. to \in Steps
    BY DEF Steps
  <2> QED
    BY <1>1, <2>2, <2>3, TidyHalf
<1> USE DEF HalfWritten, Steps, Agreed, Half, Agree, ListingOpen, Live, Reserved
<1>2. CASE Link(c)
  <2>1. PICK to \in {"idle", "accept"} : Goto(c, "link", to)
    BY <1>2 DEF Link
  <2>2. Theirs(c) \in Listings
    BY <2>1, StatusWriteIs DEF Goto, DealSteps
  <2>3. WriteHalf(c, listing[Theirs(c)].status, call[c].on)
    BY <1>2, <2>2 DEF Link, WriteHalf, DeskInv, TypedDocuments, ListingDocs
  <2>4. Agreed(c, "link", listing[Theirs(c)].status, call[c].on)
    OBVIOUS
  <2> QED
    BY <1>2, <2>1, <2>3, <2>4, TidyHalf DEF Link, nftVars, dealVars
<1>3. CASE ProofListing(c)
  BY <1>1, <1>3 DEF ProofListing
<1>4. CASE ConfirmListing(c)
  BY <1>1, <1>4 DEF ConfirmListing
<1>5. CASE CompleteListing(c)
  BY <1>1, <1>5 DEF CompleteListing
<1>6. CASE DisputeListing(c)
  BY <1>1, <1>6 DEF DisputeListing
<1>7. CASE VoidListing(c)
  <2>1. Theirs(c) \in Listings
    BY <1>7, StatusWriteIs DEF VoidListing, Goto, DealSteps
  <2>2. WriteHalf(c, "cancelled", None)
    BY <1>7, <2>1 DEF VoidListing, WriteHalf, DeskInv, TypedDocuments, ListingDocs
  <2> QED
    BY <1>7, <2>2, TidyHalf DEF VoidListing, nftVars, dealVars
<1> QED
  BY <1>2, <1>3, <1>4, <1>5, <1>6, <1>7

LEMMA TidyReopen ==
  ASSUME DeskInv, TidyInv, NEW c \in Calls, Reopen(c)
  PROVE  TidyInv'
<1> USE DEF HalfWritten, Steps
<1>1. Goto(c, "reopen", "idle") /\ UNCHANGED <<nft, deal, recovery>>
  BY DEF Reopen, nftVars, dealVars
<1>2. Theirs(c) \in Listings
  BY <1>1, StatusWriteIs DEF Goto, DealSteps
<1>3. CASE listing[Theirs(c)].status \notin {"completed", "cancelled"}
  <2>1. WriteHalf(c, "active", None)
    BY <1>2, <1>3 DEF Reopen, WriteHalf, DeskInv, TypedDocuments, ListingDocs
  <2>2. Agreed(c, "reopen", "active", None)
    BY DEF Agreed, Half, Live, ListingOpen, Reserved
  <2> QED
    BY <1>1, <2>1, <2>2, TidyHalf
<1>4. CASE listing[Theirs(c)].status \in {"completed", "cancelled"}
  <2>1. PICK g, h \in HandlerStates :
          /\ call[c] = g /\ g.step = "reopen" /\ Knows(g)
          /\ orderly => Exact(g)
          /\ (orderly => Exact(h)') => TidyInv'
    BY <1>1, GoesOn
  <2>2. ~orderly
    BY <1>4, <2>1, HalfIs DEF Theirs, Half, Reserved
  <2> QED
    BY <2>1, <2>2
<1> QED
  BY <1>3, <1>4

LEMMA TidyUnlist ==
  ASSUME DeskInv, TidyInv, NEW c \in Calls, Unlist(c)
  PROVE  TidyInv'
<1>1. PICK g, h \in HandlerStates :
        /\ call[c] = g /\ g.step = "unlist" /\ Knows(g) /\ GoneOn(g, h, "expire")
        /\ orderly => Exact(g)
        /\ (orderly => Exact(h)') => TidyInv'
  BY GoesOn DEF Unlist, Steps
<1> SUFFICES ASSUME orderly PROVE Exact(h)'
  BY <1>1
<1>2. PICK l : l = g.on
  OBVIOUS
<1>3. l \in Listings /\ listing[l] \in ListingDocs /\ listing[l].status = "active"
  BY <1>1, <1>2 DEF Exact, ReadsHold, Knows, ListingSteps, Exists, DeskInv, TypedDocuments
<1>4. PICK doc : doc = [listing[l] EXCEPT !.status = "cancelled"]
  OBVIOUS
<1>5. WriteListing(l, doc) /\ doc.status = "cancelled" /\ UNCHANGED <<nft, deal, recovery>>
  BY <1>1, <1>2, <1>3, <1>4 DEF Unlist, SetListing, WriteListing, ListingDocs, nftVars, dealVars
<1>6. Settled(l)'
  <2>1. Unsold(l)
    BY <1>1, <1>3, OtcConstants DEF Exact, ListingsExact, Subject, HalfWritten, Settled
  <2>2. listing'[l].status = "cancelled"
    BY <1>3, <1>5 DEF WriteListing, DeskInv, TypedDocuments
  <2> QED
    BY <1>5, <2>1, <2>2 DEF Settled, Unsold, Live
<1>7. h.step = "expire" /\ doc.status \notin ListingOpen
  BY <1>1, <1>5 DEF GoneOn, ListingOpen
<1> QED
  BY <1>1, <1>3, <1>5, <1>6, <1>7, ListingWritten

LEMMA TidyClaim ==
  ASSUME DeskInv, TidyInv, NEW c \in Calls, Claim(c)
  PROVE  TidyInv'
<1>1. CASE listing[call[c].on].status # "active"
  BY <1>1, TidyRead DEF Claim, Finds, Goto, Steps, nftVars, listingVars, dealVars
<1>2. CASE listing[call[c].on].status = "active"
  <2>1. PICK g, h \in HandlerStates :
          /\ call[c] = g /\ g.step = "claim" /\ Knows(g) /\ GoneOn(g, h, "dealInsert")
          /\ orderly => Exact(g)
          /\ (orderly => Exact(h)') => TidyInv'
    BY <1>2, GoesOn DEF Claim, Steps
  <2> SUFFICES ASSUME orderly PROVE Exact(h)'
    BY <2>1
  <2>2. PICK l : l = g.on
    OBVIOUS
  <2>3. l \in Listings /\ listing[l] \in ListingDocs /\ listing[l].status = "active"
    BY <1>2, <2>1, <2>2 DEF Knows, ListingSteps, Exists, DeskInv, TypedDocuments
  <2>4. PICK doc : doc = [listing[l] EXCEPT !.status = "reserved"]
    OBVIOUS
  <2>5. /\ WriteListing(l, doc) /\ doc.status = "reserved" /\ doc.seller = listing[l].seller
        /\ UNCHANGED <<nft, deal, recovery>>
    BY <1>2, <2>1, <2>2, <2>3, <2>4 DEF Claim, SetListing, WriteListing, ListingDocs, nftVars,
                                        dealVars
  <2>6. h.step = "dealInsert" /\ h.on = l
    BY <2>1, <2>2 DEF GoneOn
  <2>7. ListingsExact(h)'
    <3>1. \A m \in Listings : Settled(m)
      BY <2>1, OtcConstants DEF Exact, ListingsExact, Subject, HalfWritten
    <3>2. Unsold(l)
      BY <2>3, <3>1 DEF Settled
    <3>3. /\ listing'[l].status = "reserved"
          /\ \A m \in Listings : m # l => listing'[m] = listing[m]
      BY <2>3, <2>5 DEF WriteListing, DeskInv, TypedDocuments
    <3>4. Subject(h)' = l
      BY <2>6 DEF Subject
    <3> QED
      BY <2>5, <2>6, <3>1, <3>2, <3>3, <3>4 DEF ListingsExact, HalfWritten, Settled, Unsold, SoldBy,
                                                Live
  <2>8. OpenExact(h)'
    BY <2>1, <2>3, <2>5, <2>6, OpenAsBefore DEF Open, ListingOpen
  <2>9. CasesExact(h)'
    BY <2>1, <2>5, <2>6, CasesAsBefore DEF Exact, Opening, Unfrozen, Disputed
  <2>10. ReadsHold(h)'
    BY <2>6 DEF ReadsHold, Opening, RecoverySteps
  <2> QED
    BY <2>7, <2>8, <2>9, <2>10 DEF Exact
<1> QED
  BY <1>1, <1>2

LEMMA TidyListInsert ==
  ASSUME DeskInv, TidyInv, NEW c \in Calls, ListInsert(c)
  PROVE  TidyInv'
<1>1. PICK l \in Listings :
        /\ listing[l].status = "none"
        /\ Goto(c, "listInsert", "idle")
        /\ listing' = [listing EXCEPT ![l] = [status |-> "active", seller |-> call[c].who,
                                              deal |-> None]]
        /\ UNCHANGED <<nft, deal, recovery>>
  BY DEF ListInsert, nftVars, dealVars
<1>2. PICK g, h \in HandlerStates :
        /\ call[c] = g /\ g.step = "listInsert" /\ GoneOn(g, h, "idle")
        /\ orderly => Exact(g)
        /\ (orderly => Exact(h)') => TidyInv'
  BY <1>1, GoesOn DEF Steps
<1> SUFFICES ASSUME orderly PROVE Exact(h)'
  BY <1>2
<1>3. h.step = "idle"
  BY <1>2, IdleKnows DEF GoneOn
<1>4. PICK doc : doc = [status |-> "active", seller |-> g.who, deal |-> None]
  OBVIOUS
<1>5. WriteListing(l, doc) /\ doc.status = "active" /\ doc.seller = g.who
  BY <1>1, <1>2, <1>4 DEF WriteListing
<1>6. \A m \in Listings : listing'[m] = IF m = l THEN doc ELSE listing[m]
  BY <1>5 DEF WriteListing, DeskInv, TypedDocuments
<1>7. ListingsExact(h)'
  <2>1. Unsold(l)
    BY <1>1, <1>2, OtcConstants DEF Exact, ListingsExact, Subject, HalfWritten, Settled
  <2>2. Settled(l)'
    BY <1>1, <1>5, <1>6, <2>1 DEF Settled, Unsold, Live
  <2> QED
    BY <1>1, <1>2, <1>3, <1>5, <2>2, ListingSettles DEF Subject, HalfWritten
<1>8. OpenExact(h)'
  <2>1. /\ \A m : Open(m)' => m = l
        /\ listing'[l].seller = nft'.holder
        /\ nft' = nft /\ ~nft.frozen /\ \A x : ~Demands(x)
    BY <1>1, <1>2, <1>5, <1>6 DEF Exact, OpenExact, CasesExact, Open, Unfrozen
  <2>2. \A d : ~Disputed(d)'
    BY <1>1, <2>1 DEF Disputed, Demands
  <2> QED
    BY <1>3, <2>1, <2>2 DEF OpenExact
<1>9. CasesExact(h)'
  BY <1>1, <1>2, <1>3, CasesAsBefore DEF Exact, Opening, Unfrozen, Disputed
<1>10. ReadsHold(h)'
  BY <1>3 DEF ReadsHold, Opening, RecoverySteps
<1> QED
  BY <1>7, <1>8, <1>9, <1>10 DEF Exact

-----------------------------------------------------------------------------
(* Steps that write a deal.                                                *)

WriteDeal(d, doc) == deal' = [deal EXCEPT ![d] = doc]

LEMMA WriteDealIs ==
  ASSUME DeskInv, NEW d \in Deals, NEW doc, WriteDeal(d, doc)
  PROVE  \A e \in Deals : deal'[e] = IF e = d THEN doc ELSE deal[e]
BY DEF WriteDeal, DeskInv, TypedDocuments

\* Other listings stay settled.
LEMMA OthersStaySettled ==
  ASSUME DeskInv, NEW d \in Deals, NEW doc, WriteDeal(d, doc), UNCHANGED listing,
         deal[d].status = "none" \/ doc.listing = deal[d].listing,
         NEW m \in Listings, m # doc.listing, Settled(m)
  PROVE  Settled(m)'
<1>1. \A e \in Deals : deal'[e] = IF e = d THEN doc ELSE deal[e]
  BY WriteDealIs
<1>2. CASE listing[m].status \in {"none", "active", "cancelled"}
  BY <1>1, <1>2 DEF Settled, Unsold, Live
<1>3. CASE listing[m].status \notin {"none", "active", "cancelled"}
  <2>1. SoldBy(m, listing[m].deal) /\ deal[listing[m].deal].status # "none"
    BY <1>3 DEF Settled, Agree
  <2>2. listing[m].deal # d
    BY <2>1 DEF SoldBy
  <2> QED
    BY <1>1, <1>3, <2>1, <2>2 DEF Settled, SoldBy, Live
<1> QED
  BY <1>2, <1>3

\* A live deal is the one its listing names.
LEMMA LiveIsNamed ==
  ASSUME DeskInv, NEW g, Exact(g), Subject(g) = None, NEW d \in Deals, Live(d)
  PROVE  /\ deal[d].listing \in Listings /\ listing[deal[d].listing].deal = d
         /\ SoldBy(deal[d].listing, d)
         /\ Agree(listing[deal[d].listing].status, deal[d].status, deal[d].payment)
<1>1. deal[d].listing \in Listings
  BY DEF Live, DeskInv, Documents, Exists
<1>2. Settled(deal[d].listing)
  BY <1>1, OtcConstants DEF Exact, ListingsExact
<1>3. ~Unsold(deal[d].listing)
  BY DEF Unsold
<1> QED
  BY <1>1, <1>2, <1>3 DEF Settled, SoldBy

\* The handler g writes its deal, and the listing is left half written for h.
LEMMA DealWritten ==
  ASSUME DeskInv, NEW g, Exact(g), NEW d \in Deals, NEW doc, WriteDeal(d, doc),
         UNCHANGED <<nft, listing, recovery>>, Subject(g) = None, Live(d), g.on = d,
         g.step \notin {"listCheck", "listInsert", "moveRow", "completeListing"},
         doc.listing = deal[d].listing, doc.status # "none",
         NEW h, h.step \in HalfWritten \ {"link"}, h.on = d,
         \A ls : Agree(ls, deal[d].status, deal[d].payment)
                   => Half(h.step, ls, doc.status, doc.payment),
         (g.step = "complete") <=> (h.step = "completeListing"),
         doc.status = "disputed" =>
           h.step = "disputeListing" /\ g.step = "dispute"
  PROVE  ListingsExact(h)' /\ OpenExact(h)' /\ ReadsHold(h)'
<1>1. \A e \in Deals : deal'[e] = IF e = d THEN doc ELSE deal[e]
  BY WriteDealIs
<1>2. PICK l : l = deal[d].listing
  OBVIOUS
<1>3. /\ l \in Listings /\ listing[l].deal = d /\ SoldBy(l, d)
      /\ Agree(listing[l].status, deal[d].status, deal[d].payment)
  BY <1>2, LiveIsNamed
<1>4. Subject(h)' = l
  BY <1>1, <1>2 DEF Subject, HalfWritten
<1>5. ListingsExact(h)'
  <2>1. ASSUME NEW m \in Listings, m # l PROVE Settled(m)'
    <3>1. Settled(m)
      BY OtcConstants DEF Exact, ListingsExact
    <3> QED
      BY <1>2, <2>1, <3>1, OthersStaySettled
  <2>2. SoldBy(l, d)'
    BY <1>1, <1>2, <1>3 DEF SoldBy, Live
  <2>3. Half(h.step, listing'[l].status, deal'[d].status, deal'[d].payment)
    BY <1>1, <1>3
  <2> QED
    BY <1>3, <1>4, <2>1, <2>2, <2>3 DEF ListingsExact, HalfWritten
<1>6. OpenExact(h)'
  <2>1. \A m : (Open(m)' <=> Open(m)) /\ listing'[m].seller = listing[m].seller
    BY DEF Open
  <2>2. \A e : Disputed(e)' => Disputed(e) \/ (e = d /\ doc.status = "disputed")
    BY <1>1 DEF Disputed
  <2>3. ASSUME doc.status = "disputed", NEW m, Open(m) PROVE m = l
    <3>1. CASE deal[d].status = "disputed"
      BY <2>3, <3>1 DEF Exact, OpenExact, Disputed
    <3>2. CASE deal[d].status # "disputed"
      <4>1. g.step = "dispute"
        BY <2>3
      <4>2. deal[d].status \in DealLive
        BY <3>2, <4>1 DEF Exact, ReadsHold
      <4>3. Open(l)
        BY <1>3, <4>2 DEF Open, Agree, DealLive, ListingOpen
      <4> QED
        BY <2>3, <4>3 DEF Exact, OpenExact
    <3> QED
      BY <3>1, <3>2
  <2>4. \A e, m : Disputed(e)' /\ Open(m)' => h.step = "disputeListing" /\ m = l
    <3> SUFFICES ASSUME NEW e, NEW m, Disputed(e)', Open(m)'
                 PROVE  h.step = "disputeListing" /\ m = l
      OBVIOUS
    <3>1. Open(m)
      BY <2>1
    <3>2. ~Disputed(e)
      <4>1. g.step # "disputeListing"
        BY <1>3, LiveIsNamed, OtcConstants DEF Subject, HalfWritten
      <4> QED
        BY <3>1, <4>1 DEF Exact, OpenExact
    <3> QED
      BY <2>2, <2>3, <3>1, <3>2
  <2>5. h.step \notin {"moveRow", "complete", "listCheck", "listInsert"}
    BY DEF HalfWritten
  <2> QED
    BY <1>1, <1>2, <1>4, <2>1, <2>4, <2>5 DEF Exact, OpenExact
<1>7. ReadsHold(h)'
  BY DEF ReadsHold, HalfWritten, Opening, RecoverySteps
<1> QED
  BY <1>5, <1>6, <1>7

\* A handler writes its deal and goes on to the listing.
NewStatus(from, status) ==
  CASE from = "proofDeal" -> status
    [] from = "confirm" -> "nft_transfer_pending"
    [] from = "complete" -> "completed"
    [] from \in {"cancel", "void"} -> "cancelled"
    [] from = "dispute" -> "disputed"

NewPayment(from, payment) ==
  IF from = "proofDeal" THEN "submitted" ELSE IF from = "confirm" THEN "confirmed" ELSE payment

DealThenListing ==
  {<<"proofDeal", "proofListing">>, <<"confirm", "confirmListing">>,
   <<"complete", "completeListing">>, <<"cancel", "reopen">>, <<"dispute", "disputeListing">>,
   <<"void", "voidListing">>}

LEMMA TidyDealWrite ==
  ASSUME DeskInv, TidyInv, NEW c \in Calls,
         NEW from, NEW to, <<from, to>> \in DealThenListing, Goto(c, from, to),
         UNCHANGED <<nft, listing, recovery>>,
         NEW d, d = call[c].on, NEW doc, WriteDeal(d, doc), doc.listing = deal[d].listing,
         doc.payment = NewPayment(from, deal[d].payment),
         doc.status = NewStatus(from, deal[d].status)
  PROVE  TidyInv'
<1> USE DEF DealThenListing, NewStatus, NewPayment
<1>1. PICK g, h \in HandlerStates :
        /\ call[c] = g /\ g.step = from /\ Knows(g) /\ GoneOn(g, h, to)
        /\ orderly => Exact(g)
        /\ (orderly => Exact(h)') => TidyInv'
  <2>1. to \in Steps /\ from # "idle"
    BY DEF Steps
  <2> QED
    BY <2>1, GoesOn
<1> SUFFICES ASSUME orderly PROVE Exact(h)'
  BY <1>1
<1>2. g.on = d /\ d \in Deals /\ h.step = to /\ h.on = d
  BY <1>1 DEF Knows, DealSteps, GoneOn
<1>3. \A e \in Deals : deal'[e] = IF e = d THEN doc ELSE deal[e]
  BY <1>2, WriteDealIs
<1>4. Live(d) /\ (from \notin {"complete", "void", "dispute"} => deal[d].status # "disputed")
  BY <1>1, <1>2 DEF Exact, ReadsHold, Live, DealLive
<1>5. \A ls : Agree(ls, deal[d].status, deal[d].payment) => Half(to, ls, doc.status, doc.payment)
  BY <1>1, <1>2, <1>4 DEF Exact, ReadsHold, DealLive, Agree, Half, Reserved
<1>6. ListingsExact(h)' /\ OpenExact(h)' /\ ReadsHold(h)'
  <2>1. Subject(g) = None /\ h.step \in HalfWritten \ {"link"}
    BY <1>1, <1>2 DEF Subject, HalfWritten
  <2>2. /\ doc.status # "none"
        /\ doc.status = "disputed" => h.step = "disputeListing" /\ g.step = "dispute"
    BY <1>1, <1>2, <1>4 DEF Live
  <2>3. /\ g.step \notin {"listCheck", "listInsert", "moveRow", "completeListing"}
        /\ (g.step = "complete") <=> (h.step = "completeListing")
    BY <1>1, <1>2
  <2> QED
    BY <1>1, <1>2, <1>4, <1>5, <2>1, <2>2, <2>3, DealWritten
<1>7. CasesExact(h)'
  <2>1. \A e : e # d => (Disputed(e)' <=> Disputed(e))
    BY <1>3 DEF Disputed
  <2>2. \A r : Recovering(r)' <=> Recovering(r)
    BY DEF Recovering
  <2>3. d \notin Recoveries
    BY <1>2, OtcConstants
  <2>4. CASE from \in {"proofDeal", "confirm", "cancel"}
    <3>1. ~Disputed(d)' /\ ~Disputed(d)
      BY <1>2, <1>3, <1>4, <2>4 DEF Disputed
    <3> QED
      BY <1>1, <1>2, <2>1, <2>4, <3>1, CasesAsBefore DEF Exact, Opening, Unfrozen
  <2>5. CASE from \in {"complete", "void"}
    <3>1. ~Disputed(d)'
      BY <1>2, <1>3, <2>5 DEF Disputed
    <3>2. ~nft.frozen /\ \A x : Demands(x) => x = d
      BY <1>1, <1>2, <2>5 DEF Exact, CasesExact, Unfrozen
    <3>3. \A x : ~Demands(x)'
      BY <2>1, <2>2, <2>3, <3>1, <3>2 DEF Demands, Recovering
    <3>4. \A x : Case(x)' => Case(x)
      BY <2>1, <2>2, <3>1 DEF Case
    <3> QED
      BY <1>1, <1>2, <2>2, <2>5, <3>2, <3>3, <3>4 DEF Exact, CasesExact, Opening, Unfrozen
  <2>6. CASE from = "dispute"
    <3>1. \A x : Case(x) => x = d
      BY <1>1, <1>2, <2>6 DEF Exact, CasesExact, Opening
    <3>2. \A x : Case(x)' => x = d
      BY <2>1, <2>2, <3>1 DEF Case
    <3> QED
      BY <1>1, <1>2, <2>2, <2>6, <3>2 DEF Exact, CasesExact, Opening, Unfrozen
  <2> QED
    BY <2>4, <2>5, <2>6
<1> QED
  BY <1>6, <1>7 DEF Exact

LEMMA TidyDealWrites ==
  ASSUME DeskInv, TidyInv, NEW c \in Calls,
         \/ ProofDeal(c) \/ ConfirmDeal(c) \/ CompleteDeal(c) \/ CancelWrite(c) \/ DisputeDeal(c)
         \/ VoidDeal(c)
  PROVE  TidyInv'
<1> DEFINE d == call[c].on
<1>1. d \in Deals /\ deal[d].status # "none" /\ UNCHANGED <<nft, listing, recovery>>
  BY Handlers DEF ProofDeal, ConfirmDeal, CompleteDeal, CancelWrite, DisputeDeal, VoidDeal, Goto,
                  SetDeal, Knows, DealSteps, nftVars, listingVars
<1>2. deal[d] \in DealDocs
  BY <1>1, DealIs
<1>3. CASE ProofDeal(c)
  <2>1. PICK doc : doc = [deal[d] EXCEPT !.payment = "submitted"]
    OBVIOUS
  <2>2. /\ doc.status = NewStatus("proofDeal", deal[d].status)
        /\ doc.payment = NewPayment("proofDeal", deal[d].payment)
        /\ doc.listing = deal[d].listing
    BY <1>2, <2>1 DEF DealDocs, NewStatus, NewPayment
  <2>3. WriteDeal(d, doc)
    BY <1>3, <2>1 DEF ProofDeal, SetDeal, WriteDeal
  <2> QED
    BY <1>1, <1>3, <2>2, <2>3, TidyDealWrite DEF ProofDeal, DealThenListing
<1>4. CASE ConfirmDeal(c)
  <2>1. PICK doc : doc = [deal[d] EXCEPT !.payment = "confirmed", !.confirmed = TRUE,
                                         !.status = "nft_transfer_pending"]
    OBVIOUS
  <2>2. /\ doc.status = NewStatus("confirm", deal[d].status)
        /\ doc.payment = NewPayment("confirm", deal[d].payment)
        /\ doc.listing = deal[d].listing
    BY <1>2, <2>1 DEF DealDocs, NewStatus, NewPayment
  <2>3. WriteDeal(d, doc)
    BY <1>4, <2>1 DEF ConfirmDeal, SetDeal, WriteDeal
  <2> QED
    BY <1>1, <1>4, <2>2, <2>3, TidyDealWrite DEF ConfirmDeal, DealThenListing
<1>5. ASSUME NEW from \in {"complete", "cancel", "dispute", "void"}, NEW to,
             <<from, to>> \in DealThenListing, Goto(c, from, to),
             NEW status, SetDeal(c, [deal[d] EXCEPT !.status = status]),
             status = NewStatus(from, deal[d].status)
      PROVE  TidyInv'
  <2>1. PICK doc : doc = [deal[d] EXCEPT !.status = status]
    OBVIOUS
  <2>2. /\ doc.status = NewStatus(from, deal[d].status)
        /\ doc.payment = NewPayment(from, deal[d].payment)
        /\ doc.listing = deal[d].listing
    BY <1>2, <1>5, <2>1 DEF DealDocs, NewPayment
  <2>3. WriteDeal(d, doc)
    BY <1>5, <2>1 DEF SetDeal, WriteDeal
  <2> QED
    BY <1>1, <1>5, <2>2, <2>3, TidyDealWrite
<1> USE DEF DealThenListing, NewStatus
<1>6. CASE CompleteDeal(c)
  BY <1>5, <1>6 DEF CompleteDeal
<1>7. CASE CancelWrite(c)
  BY <1>5, <1>7 DEF CancelWrite
<1>8. CASE DisputeDeal(c)
  BY <1>5, <1>8 DEF DisputeDeal
<1>9. CASE VoidDeal(c)
  BY <1>5, <1>9 DEF VoidDeal
<1> QED
  BY <1>3, <1>4, <1>6, <1>7, <1>8, <1>9

LEMMA TidyDealInsert ==
  ASSUME DeskInv, TidyInv, NEW c \in Calls, DealInsert(c)
  PROVE  TidyInv'
<1>1. PICK d \in Deals :
        /\ deal[d].status = "none" /\ call[c].step = "dealInsert"
        /\ call' = [call EXCEPT ![c].step = "link", ![c].on = d]
        /\ deal' = [deal EXCEPT ![d] = [status |-> "payment_pending", payment |-> "pending",
                                        listing |-> call[c].on, buyer |-> call[c].who,
                                        confirmed |-> FALSE]]
        /\ UNCHANGED <<nft, listing, recovery, orderly>>
  BY DEF DealInsert, nftVars, listingVars
<1>2. PICK g \in HandlerStates : call[c] = g /\ Knows(g)
  BY Handlers
<1>3. PICK h : h = [g EXCEPT !.step = "link", !.on = d]
  OBVIOUS
<1>4. h.step = "link" /\ h.on = d /\ call' = [call EXCEPT ![c] = h]
  BY <1>1, <1>2, <1>3 DEF HandlerStates, DeskInv
<1>5. /\ orderly => Exact(g)
      /\ (orderly => Exact(h)') => TidyInv'
  <2>1. g.step # "idle"
    BY <1>1, <1>2
  <2> QED
    BY <1>1, <1>2, <1>4, <2>1, GoesTo
<1> SUFFICES ASSUME orderly PROVE Exact(h)'
  BY <1>5
<1>6. PICK l : l = g.on
  OBVIOUS
<1>7. l \in Listings /\ listing[l].status = "reserved" /\ Unsold(l)
  BY <1>1, <1>2, <1>5, <1>6 DEF Exact, ListingsExact, Knows, ListingSteps, Exists
<1>8. PICK doc : doc = [status |-> "payment_pending", payment |-> "pending", listing |-> l,
                        buyer |-> call[c].who, confirmed |-> FALSE]
  OBVIOUS
<1>9. /\ WriteDeal(d, doc) /\ doc.listing = l
      /\ doc.status = "payment_pending" /\ doc.payment = "pending"
  BY <1>1, <1>2, <1>6, <1>8 DEF WriteDeal
<1>10. \A e \in Deals : deal'[e] = IF e = d THEN doc ELSE deal[e]
  BY <1>9, WriteDealIs
<1>11. \A e : Disputed(e)' <=> Disputed(e)
  BY <1>1, <1>9, <1>10 DEF Disputed
<1>12. ListingsExact(h)'
  <2>1. Subject(g) = l
    BY <1>1, <1>2, <1>6 DEF Subject
  <2>2. ASSUME NEW m \in Listings, m # l PROVE Settled(m)'
    BY <1>1, <1>5, <1>9, <2>1, <2>2, OthersStaySettled DEF Exact, ListingsExact
  <2>3. Subject(h)' = l
    BY <1>4, <1>9, <1>10 DEF Subject, HalfWritten
  <2>4. SoldBy(l, d)'
    BY <1>7, <1>9, <1>10 DEF SoldBy, Unsold, Live
  <2> QED
    BY <1>1, <1>4, <1>7, <1>9, <1>10, <2>2, <2>3, <2>4 DEF ListingsExact, Half
<1>13. OpenExact(h)'
  <2>1. \A m : Open(m)' <=> Open(m)
    BY <1>1 DEF Open
  <2> QED
    BY <1>1, <1>2, <1>4, <1>5, <1>11, <2>1 DEF Exact, OpenExact
<1>14. CasesExact(h)'
  BY <1>1, <1>2, <1>4, <1>5, <1>11, CasesAsBefore DEF Exact, Opening, Unfrozen
<1>15. ReadsHold(h)'
  BY <1>4 DEF ReadsHold, Opening, RecoverySteps
<1> QED
  BY <1>12, <1>13, <1>14, <1>15 DEF Exact

-----------------------------------------------------------------------------
(* Steps that write the certificate.                                       *)

LEMMA ListingsAsBefore ==
  ASSUME NEW g, NEW h, ListingsExact(g), UNCHANGED <<listing, deal>>,
         g.step \notin HalfWritten \cup {"dealInsert"}, h.step \notin HalfWritten \cup {"dealInsert"}
  PROVE  ListingsExact(h)'
<1>1. Subject(g) = None /\ Subject(h)' = None
  BY DEF Subject
<1> QED
  BY <1>1 DEF ListingsExact, Settled, Unsold, SoldBy, Live

LEMMA TidyMove ==
  ASSUME DeskInv, TidyInv, NEW c \in Calls, Move(c)
  PROVE  TidyInv'
<1>1. /\ Goto(c, "move", "moveRow") /\ UNCHANGED <<listing, deal, recovery>>
      /\ nft'.frozen = nft.frozen
  BY DEF Move, listingVars, dealVars, DeskInv, TypedDocuments
<1>2. PICK g, h \in HandlerStates :
        /\ call[c] = g /\ g.step = "move" /\ Knows(g) /\ GoneOn(g, h, "moveRow")
        /\ orderly => Exact(g)
        /\ (orderly => Exact(h)') => TidyInv'
  BY <1>1, GoesOn DEF Steps
<1> SUFFICES ASSUME orderly PROVE Exact(h)'
  BY <1>2
<1>3. /\ h.step = "moveRow" /\ h.on = g.on /\ g.on \in Deals
      /\ deal[g.on].status \in {"nft_transfer_pending", "disputed"}
  BY <1>2 DEF GoneOn, Knows, DealSteps, Exact, ReadsHold
<1>4. \A x : (Disputed(x)' <=> Disputed(x)) /\ (Recovering(x)' <=> Recovering(x))
             /\ (Demands(x)' <=> Demands(x)) /\ (Case(x)' <=> Case(x)) /\ (Open(x)' <=> Open(x))
  BY <1>1 DEF Disputed, Recovering, Demands, Case, Open
<1>5. ListingsExact(h)'
  BY <1>1, <1>2, <1>3, ListingsAsBefore DEF Exact, HalfWritten
<1>6. OpenExact(h)'
  <2>1. \A e, m : Disputed(e) => ~Open(m)
    BY <1>2 DEF Exact, OpenExact
  <2>2. ASSUME NEW m, Open(m) PROVE m = deal[g.on].listing
    <3>1. deal[g.on].status = "nft_transfer_pending"
      BY <1>3, <2>1, <2>2 DEF Disputed
    <3>2. Subject(g) = None /\ Live(g.on)
      BY <1>2, <3>1 DEF Subject, HalfWritten, Live
    <3>3. Open(deal[g.on].listing)
      BY <1>2, <1>3, <3>1, <3>2, LiveIsNamed DEF Agree, Open, ListingOpen
    <3> QED
      BY <1>2, <2>2, <3>3 DEF Exact, OpenExact
  <2> QED
    BY <1>1, <1>2, <1>3, <1>4, <2>1, <2>2 DEF Exact, OpenExact
<1>7. CasesExact(h)'
  <2>1. ~nft.frozen /\ \A x : Demands(x) => x = g.on
    BY <1>2 DEF Exact, CasesExact, Unfrozen
  <2>2. \A r : Recovering(r) => ~recovery[r].froze
    BY <1>3, <2>1, OtcConstants DEF Demands, Recovering
  <2> QED
    BY <1>1, <1>2, <1>3, <1>4, <2>1, <2>2 DEF Exact, CasesExact, Opening, Unfrozen
<1>8. ReadsHold(h)'
  BY <1>1, <1>3 DEF ReadsHold, Opening, RecoverySteps
<1> QED
  BY <1>5, <1>6, <1>7, <1>8 DEF Exact

\* Freezing and unfreezing: the holder stays, and no listing is opened.
LEMMA TidyFrozen ==
  ASSUME DeskInv, TidyInv, NEW c \in Calls, NEW from, NEW to,
         <<from, to>> \in {<<"freeze", "idle">>, <<"unfreeze", "move">>, <<"unfreeze", "void">>,
                           <<"recUnfreeze", "recClose">>},
         Goto(c, from, to), UNCHANGED <<listing, deal, recovery>>,
         nft'.holder = nft.holder, nft'.frozen <=> from = "freeze"
  PROVE  TidyInv'
<1>2. PICK g, h \in HandlerStates :
        /\ call[c] = g /\ g.step = from /\ Knows(g) /\ GoneOn(g, h, to)
        /\ orderly => Exact(g)
        /\ (orderly => Exact(h)') => TidyInv'
  <2>1. to \in Steps /\ from # "idle"
    BY DEF Steps
  <2> QED
    BY <2>1, GoesOn
<1> SUFFICES ASSUME orderly PROVE Exact(h)'
  BY <1>2
<1>3. h.step = to /\ (to # "idle" => h.on = g.on /\ h.who = g.who)
  BY <1>2, IdleKnows DEF GoneOn
<1>4. \A x : (Disputed(x)' <=> Disputed(x)) /\ (Recovering(x)' <=> Recovering(x))
             /\ (Demands(x)' <=> Demands(x)) /\ (Case(x)' <=> Case(x)) /\ (Open(x)' <=> Open(x))
  BY DEF Disputed, Recovering, Demands, Case, Open
<1>5. ListingsExact(h)'
  BY <1>2, <1>3, ListingsAsBefore DEF Exact, HalfWritten
<1>6. OpenExact(h)'
  BY <1>2, <1>3, <1>4 DEF Exact, OpenExact
<1>7. CasesExact(h)'
  <2>1. Case(g.on)
    BY <1>2 DEF Exact, ReadsHold, RecoverySteps, Case, Disputed, Knows, DealSteps
  <2>2. from = "freeze" => Demands(g.on)
    BY <1>2 DEF Exact, ReadsHold, Demands, Disputed, Knows, DealSteps
  <2>3. \A x : Case(x) => x = g.on
    BY <1>2, <2>1 DEF Exact, CasesExact
  <2>4. \A x : Demands(x) => x = g.on
    BY <2>3 DEF Demands, Case
  <2> QED
    BY <1>2, <1>3, <1>4, <2>2, <2>3, <2>4 DEF Exact, CasesExact, Opening, Unfrozen
<1>8. ReadsHold(h)'
  BY <1>2, <1>3, <1>4 DEF Exact, ReadsHold, Opening, RecoverySteps
<1> QED
  BY <1>5, <1>6, <1>7, <1>8 DEF Exact

LEMMA TidyCertificateWrites ==
  ASSUME DeskInv, TidyInv, NEW c \in Calls, Freeze(c) \/ Unfreeze(c) \/ RecoveryUnfreeze(c)
  PROVE  TidyInv'
<1> USE DEF SetFrozen, listingVars, dealVars, DeskInv, TypedDocuments
<1>1. CASE Freeze(c)
  <2>1. /\ Goto(c, "freeze", "idle") /\ UNCHANGED <<listing, deal, recovery>>
        /\ nft'.holder = nft.holder /\ nft'.frozen
    BY <1>1 DEF Freeze
  <2> QED
    BY <2>1, TidyFrozen
<1>2. CASE Unfreeze(c)
  <2>1. PICK to \in {"move", "void"} :
          /\ Goto(c, "unfreeze", to) /\ UNCHANGED <<listing, deal, recovery>>
          /\ nft'.holder = nft.holder /\ ~nft'.frozen
    BY <1>2 DEF Unfreeze
  <2> QED
    BY <2>1, TidyFrozen
<1>3. CASE RecoveryUnfreeze(c)
  <2>1. /\ Goto(c, "recUnfreeze", "recClose") /\ UNCHANGED <<listing, deal, recovery>>
        /\ nft'.holder = nft.holder /\ ~nft'.frozen
    BY <1>3 DEF RecoveryUnfreeze
  <2> QED
    BY <2>1, TidyFrozen
<1> QED
  BY <1>1, <1>2, <1>3

-----------------------------------------------------------------------------
(* Recoveries.                                                             *)

\* A handler that freezes for a recovery which is not inserted yet.
LEMMA TidyRecoveryFreezes ==
  ASSUME DeskInv, TidyInv, NEW c \in Calls, RecoveryHeld(c) \/ RecoveryFreeze(c)
  PROVE  TidyInv'
<1>1. PICK g \in HandlerStates : call[c] = g
  BY Handlers
<1>2. PICK step \in {"recFreeze", "recInsert"}, arg \in Offers \cup Outcomes \cup {None} :
        /\ call' = [call EXCEPT ![c] = [g EXCEPT !.step = step, !.arg = arg]]
        /\ \/ /\ g.step = "recHeld" /\ arg = g.arg /\ nft' = nft
              /\ step = "recFreeze" => nft.holder = g.who
           \/ /\ g.step = "recFreeze" /\ step = "recInsert" /\ arg = "froze"
              /\ nft'.frozen = TRUE /\ nft'.holder = nft.holder
        /\ UNCHANGED <<listing, deal, recovery, orderly>>
  <2>1. CASE RecoveryHeld(c)
    <3>1. PICK step \in {"recFreeze", "recInsert"} :
            /\ call' = [call EXCEPT ![c] = [g EXCEPT !.step = step, !.arg = g.arg]]
            /\ step = "recFreeze" => nft.holder = g.who
      BY <1>1, <2>1 DEF RecoveryHeld, HandlerStates, DeskInv
    <3> QED
      BY <1>1, <2>1, <3>1 DEF RecoveryHeld, HandlerStates, nftVars, listingVars, dealVars
  <2>2. CASE RecoveryFreeze(c)
    <3>1. call' = [call EXCEPT ![c] = [g EXCEPT !.step = "recInsert", !.arg = "froze"]]
      BY <1>1, <2>2 DEF RecoveryFreeze, HandlerStates, DeskInv
    <3>2. nft'.frozen = TRUE /\ nft'.holder = nft.holder
      BY <2>2 DEF RecoveryFreeze, DeskInv, TypedDocuments
    <3> QED
      BY <1>1, <2>2, <3>1, <3>2 DEF RecoveryFreeze, Outcomes, listingVars, dealVars
  <2> QED
    BY <2>1, <2>2
<1>3. PICK h : h = [g EXCEPT !.step = step, !.arg = arg]
  OBVIOUS
<1>4. h.step = step /\ h.arg = arg /\ h.on = g.on /\ h.who = g.who
  BY <1>3 DEF HandlerStates
<1>5. /\ orderly => Exact(g)
      /\ (orderly => Exact(h)') => TidyInv'
  BY <1>1, <1>2, <1>3, GoesTo
<1> SUFFICES ASSUME orderly PROVE Exact(h)'
  BY <1>5
<1>6. /\ g.on = None /\ g.step \in {"recHeld", "recFreeze"}
      /\ g.step = "recHeld" => g.arg = None
      /\ g.step = "recFreeze" => g.who = nft.holder
      /\ \A x : ~Case(x)
  <2>1. g.on = None /\ \A x : Case(x) => x = g.on
    BY <1>2, <1>5 DEF Exact, ReadsHold, CasesExact, Opening
  <2>2. ~Case(None)
    BY OtcConstants DEF Case, Disputed, Recovering
  <2> QED
    BY <1>2, <1>5, <2>1, <2>2 DEF Exact, ReadsHold
<1>7. \A x : ~Case(x)' /\ ~Demands(x)' /\ ~Demands(x) /\ ~Disputed(x)' /\ ~Recovering(x)'
             /\ (Open(x)' <=> Open(x))
  BY <1>2, <1>6 DEF Case, Demands, Disputed, Recovering, Open
<1>8. ListingsExact(h)'
  BY <1>2, <1>4, <1>5, <1>6, ListingsAsBefore DEF Exact, HalfWritten
<1>9. OpenExact(h)'
  BY <1>2, <1>4, <1>5, <1>6, <1>7 DEF Exact, OpenExact
<1>10. CasesExact(h)'
  BY <1>2, <1>4, <1>5, <1>6, <1>7, OtcConstants DEF Exact, CasesExact, Unfrozen, Outcomes
<1>11. ReadsHold(h)'
  BY <1>2, <1>4, <1>6, OtcConstants DEF ReadsHold, Opening, RecoverySteps, Outcomes
<1> QED
  BY <1>8, <1>9, <1>10, <1>11 DEF Exact

WriteRecovery(r, doc) == recovery' = [recovery EXCEPT ![r] = doc]

\* A recovery is inserted, or closed.
LEMMA TidyRecoveryWrite ==
  ASSUME DeskInv, TidyInv, NEW c \in Calls, NEW from \in {"recInsert", "recClose"},
         Goto(c, from, "idle"), UNCHANGED <<nft, listing, deal>>,
         NEW r \in Recoveries, NEW doc, WriteRecovery(r, doc),
         from = "recInsert" => /\ doc.status = "pending" /\ doc.user = call[c].who
                               /\ doc.froze <=> call[c].arg = "froze",
         from = "recClose" => r = call[c].on /\ doc.status # "pending"
  PROVE  TidyInv'
<1>1. PICK g, h \in HandlerStates :
        /\ call[c] = g /\ g.step = from /\ Knows(g) /\ GoneOn(g, h, "idle")
        /\ orderly => Exact(g)
        /\ (orderly => Exact(h)') => TidyInv'
  BY GoesOn DEF Steps
<1> SUFFICES ASSUME orderly PROVE Exact(h)'
  BY <1>1
<1>2. h.step = "idle"
  BY <1>1, IdleKnows DEF GoneOn
<1>3. \A x \in Recoveries : recovery'[x] = IF x = r THEN doc ELSE recovery[x]
  BY DEF WriteRecovery, DeskInv, TypedDocuments
<1>4. \A x : (Disputed(x)' <=> Disputed(x)) /\ (Open(x)' <=> Open(x))
             /\ (x # r => (Recovering(x)' <=> Recovering(x)) /\ (Demands(x)' <=> Demands(x)))
  BY <1>3 DEF Disputed, Open, Recovering, Demands
<1>5. ~Disputed(r)
  BY OtcConstants DEF Disputed
<1>6. ListingsExact(h)'
  BY <1>1, <1>2, ListingsAsBefore DEF Exact, HalfWritten
<1>7. OpenExact(h)'
  BY <1>1, <1>2, <1>4 DEF Exact, OpenExact
<1>8. CasesExact(h)'
  <2>1. CASE from = "recInsert"
    <3>1. g.on = None /\ \A x : Case(x) => x = g.on
      BY <1>1, <2>1 DEF Exact, ReadsHold, CasesExact, Opening
    <3>2. \A x : ~Case(x)
      BY <3>1, OtcConstants DEF Case, Disputed, Recovering
    <3>3. /\ nft.frozen <=> g.arg = "froze"
          /\ g.arg = "froze" => g.who = nft.holder
      BY <1>1, <2>1 DEF Exact, CasesExact, ReadsHold
    <3>4. \A x : (Case(x)' => x = r) /\ (Demands(x)' <=> x = r /\ g.arg = "froze")
                 /\ (Recovering(x)' => x = r)
      BY <1>1, <1>3, <1>4, <1>5, <2>1, <3>2 DEF Case, Demands, Recovering
    <3>5. recovery'[r].froze => recovery'[r].user = nft'.holder
      BY <1>1, <1>3, <2>1, <3>3
    <3> QED
      BY <1>2, <3>3, <3>4, <3>5 DEF CasesExact, Opening, Unfrozen
  <2>2. CASE from = "recClose"
    <3>1. r = g.on /\ ~nft.frozen /\ \A x : Demands(x) => x = g.on
      BY <1>1, <2>2 DEF Exact, CasesExact, Unfrozen
    <3>2. \A x : ~Demands(x)' /\ (Case(x)' => Case(x)) /\ (Recovering(x)' => Recovering(x) /\ x # r)
      BY <1>3, <1>4, <1>5, <2>2, <3>1 DEF Case, Demands, Recovering
    <3> QED
      BY <1>1, <1>2, <1>3, <3>1, <3>2 DEF Exact, CasesExact, Opening, Unfrozen, Recovering
  <2> QED
    BY <2>1, <2>2
<1>9. ReadsHold(h)'
  BY <1>2 DEF ReadsHold, Opening, RecoverySteps
<1> QED
  BY <1>6, <1>7, <1>8, <1>9 DEF Exact

LEMMA TidyRecoveryWrites ==
  ASSUME DeskInv, TidyInv, NEW c \in Calls, RecoveryInsert(c) \/ RecoveryClose(c)
  PROVE  TidyInv'
<1>1. CASE RecoveryInsert(c)
  <2> DEFINE new == [status |-> "pending", user |-> call[c].who, froze |-> call[c].arg = "froze"]
  <2>1. PICK r \in Recoveries :
          /\ Goto(c, "recInsert", "idle") /\ UNCHANGED <<nft, listing, deal>>
          /\ WriteRecovery(r, new)
    BY <1>1 DEF RecoveryInsert, WriteRecovery, nftVars, listingVars, dealVars
  <2>2. /\ new.status = "pending" /\ new.user = call[c].who
        /\ new.froze <=> call[c].arg = "froze"
    OBVIOUS
  <2> HIDE DEF new
  <2> QED
    BY <2>1, <2>2, TidyRecoveryWrite
<1>2. CASE RecoveryClose(c)
  <2>1. Goto(c, "recClose", "idle") /\ UNCHANGED <<nft, listing, deal>>
    BY <1>2 DEF RecoveryClose, nftVars, listingVars, dealVars
  <2>2. PICK g, h \in HandlerStates :
          /\ call[c] = g /\ g.step = "recClose" /\ Knows(g)
          /\ orderly => Exact(g)
          /\ (orderly => Exact(h)') => TidyInv'
    BY <2>1, GoesOn DEF Steps
  <2>3. CASE ~orderly
    BY <2>2, <2>3
  <2>4. CASE orderly
    <3>1. g.on \in Recoveries /\ g.arg # "pending"
      BY <2>2, <2>4 DEF Exact, ReadsHold, RecoverySteps, Recovering, Knows
    <3>2. PICK doc : doc = [recovery[g.on] EXCEPT !.status = g.arg]
      OBVIOUS
    <3>3. WriteRecovery(g.on, doc) /\ doc.status # "pending"
      BY <1>2, <2>2, <3>1, <3>2 DEF RecoveryClose, WriteRecovery, DeskInv, TypedDocuments,
                                    RecoveryDocs
    <3> QED
      BY <2>1, <2>2, <3>1, <3>3, TidyRecoveryWrite
  <2> QED
    BY <2>3, <2>4
<1> QED
  BY <1>1, <1>2

-----------------------------------------------------------------------------
LEMMA InitTidy == Init => TidyInv
<1> SUFFICES ASSUME Init PROVE Exact(Idle) /\ Quiet /\ \A c \in Calls : call[c] = Idle
  BY DEF TidyInv
<1> USE IdleKnows DEF Init
<1>1. \A c \in Calls : call[c] = Idle
  OBVIOUS
<1>2. ListingsExact(Idle)
  BY DEF ListingsExact, HalfWritten, Settled, Unsold, Live
<1>3. OpenExact(Idle)
  BY DEF OpenExact, Open, Disputed, ListingOpen
<1>4. CasesExact(Idle)
  BY DEF CasesExact, Case, Demands, Disputed, Recovering, Opening, Unfrozen
<1>5. ReadsHold(Idle)
  BY DEF ReadsHold, Opening, RecoverySteps
<1> QED
  BY <1>1, <1>2, <1>3, <1>4, <1>5 DEF Exact, Quiet

LEMMA StepTidy == DeskInv /\ TidyInv /\ [Next]_vars => TidyInv'
<1> SUFFICES ASSUME DeskInv, TidyInv, [Next]_vars PROVE TidyInv'
  OBVIOUS
<1>1. ASSUME NEW c \in Calls, Request(c) PROVE TidyInv'
  <2>1. ASSUME NEW l \in Listings, CancelListing(c, l) PROVE TidyInv'
    BY <2>1, OtcConstants, TidyListingRequests
  <2> QED
    BY <1>1, <2>1, TidyListingRequests, TidyOfferRequests, TidyDealRequests, TidyRecoveryRequests
       DEF Request
<1>2. ASSUME NEW c \in Calls, Handler(c) PROVE TidyInv'
  BY <1>2, TidyReads, TidyHalfWrites, TidyReopen, TidyUnlist, TidyClaim, TidyListInsert,
     TidyDealWrites, TidyDealInsert, TidyMove, TidyCertificateWrites, TidyRecoveryFreezes,
     TidyRecoveryWrites DEF Handler
<1>3. CASE UNCHANGED vars
  <2> USE <1>3 DEF vars, callVars
  <2>1. \A h : Exact(h) => Exact(h)'
    BY ExactStays DEF nftVars, listingVars, dealVars
  <2>2. \A c \in Calls : Exact(call[c]) => Exact(call[c])'
    <3> SUFFICES ASSUME NEW c \in Calls, Exact(call[c]) PROVE Exact(call[c])'
      OBVIOUS
    <3>1. PICK g : g = call[c]
      OBVIOUS
    <3>2. Exact(g)'
      BY <2>1, <3>1
    <3> QED
      BY <3>1, <3>2 DEF Exact, ListingsExact, OpenExact, CasesExact, ReadsHold, Subject
  <2> QED
    BY <2>1, <2>2 DEF TidyInv, Quiet
<1> QED
  BY <1>1, <1>2, <1>3 DEF Next

LEMMA TidyInvHolds == Spec => [](DeskInv /\ TidyInv)
<1>1. Init => DeskInv /\ TidyInv
  BY InitDeskInv, InitTidy
<1>2. DeskInv /\ TidyInv /\ [Next]_vars => (DeskInv /\ TidyInv)'
  BY StepDeskInv, StepTidy
<1> QED
  BY <1>1, <1>2, PTL DEF Spec

\* Between calls of lumen_otc.py that came one after the other, the status of
\* every listing, the deal it names and the statuses of its deals agree, and
\* the one open listing is the holder's.
THEOREM ListingsAgreeWithDeals == Spec => []ListingsTellTheTruth
<1>1. DeskInv /\ TidyInv => ListingsTellTheTruth
  <2> SUFFICES ASSUME DeskInv, TidyInv, orderly, Quiet
               PROVE  (\A l \in Listings : ListingTellsItsDeal(l)) /\ OneOpenListing
    BY DEF ListingsTellTheTruth
  <2>1. Exact(Idle) /\ Idle.step = "idle" /\ Subject(Idle) = None
    BY IdleKnows DEF TidyInv, Subject, HalfWritten
  <2>2. ASSUME NEW l \in Listings PROVE ListingTellsItsDeal(l)
    <3>1. Settled(l) /\ listing[l] \in ListingDocs
      BY <2>1, OtcConstants DEF Exact, ListingsExact, DeskInv, TypedDocuments
    <3>2. CASE listing[l].status \in {"none", "active", "cancelled"}
      BY <3>1, <3>2 DEF Settled, Unsold, Live, DealsOf, ListingTellsItsDeal
    <3>3. CASE listing[l].status \notin {"none", "active", "cancelled"}
      <4>1. /\ SoldBy(l, listing[l].deal)
            /\ Agree(listing[l].status, deal[listing[l].deal].status,
                     deal[listing[l].deal].payment)
        BY <3>1, <3>3 DEF Settled
      <4>2. {d \in DealsOf(l) : deal[d].status # "cancelled"} = {listing[l].deal}
        BY <4>1 DEF SoldBy, DealsOf, Live, Agree
      <4>3. deal[listing[l].deal].payment \in Payments
        BY <4>1 DEF SoldBy, DeskInv, TypedDocuments, DealDocs
      <4> QED
        BY <3>1, <3>3, <4>1, <4>2, <4>3 DEF Agree, Named, ListingTellsItsDeal
    <3> QED
      BY <3>2, <3>3
  <2>3. OneOpenListing
    BY <2>1 DEF Exact, OpenExact, Open, OneOpenListing
  <2> QED
    BY <2>2, <2>3
<1> QED
  BY <1>1, TidyInvHolds, PTL

\* "Freeze the underlying NFT token ... while the dispute is open"
\* (lumen_otc.py), and lumen_crypto_os.py for a wallet recovery: between calls
\* and cases that came one after the other, the certificate is frozen exactly
\* while a case demands it.
THEOREM FrozenWhileACaseIsOpen == Spec => []FrozenForACase
<1>1. DeskInv /\ TidyInv => FrozenForACase
  <2> SUFFICES ASSUME DeskInv, TidyInv, orderly, Quiet
               PROVE  nft.frozen <=> \/ \E d \in Deals : deal[d].status = "disputed"
                                     \/ \E r \in Recoveries : recovery[r].status = "pending"
                                                              /\ recovery[r].froze
    BY DEF FrozenForACase
  <2>1. CasesExact(Idle) /\ Idle.step = "idle"
    BY IdleKnows DEF TidyInv, Exact
  <2>2. nft.frozen <=> \E x : Demands(x)
    BY <2>1 DEF CasesExact, Unfrozen
  <2> QED
    BY <2>2 DEF Demands, Disputed, Recovering
<1> QED
  BY <1>1, TidyInvHolds, PTL

=============================================================================
