---------------------------- MODULE PrimaryMarket ----------------------------
(***************************************************************************)
(* How an investor comes to own a part of an asset: an intent is approved  *)
(* and becomes an investment with a contract; once the investor is         *)
(* verified and the contract signed, whichever is later opens a request    *)
(* for payment; an administrator or a bank transaction confirms it, which  *)
(* writes the ledger and activates the investment, whose owner's units and *)
(* the sum raised are recomputed.  src/backend/lumen_investment_core.py,   *)
(* lumen_kyc.py, lumen_contracts.py, lumen_payments.py and                 *)
(* lumen_bank_reconciliation.py, for one asset.                            *)
(*                                                                         *)
(* A call id is a slot for one HTTP request.  Its first step is the read   *)
(* it is checked against; it then runs from await to await while others    *)
(* run in between.  overlaps and deaths count the requests that arrived     *)
(* while another was under way and the restarts that cut one off: no guard *)
(* reads them, and the instances bound them.                               *)
(***************************************************************************)
EXTENDS Integers, FiniteSets, FiniteSetsExt

CONSTANTS
  Investors,
  Intents,      \* one per intent to invest
  Investor,     \* investor of an intent
  Amount,       \* its amount; one unit is one hryvnia
  Investments,  \* ids of investments that may be created
  Requests,     \* ids of requests for payment that may be created
  Txs,          \* incoming bank transactions
  Calls,        \* slots for HTTP requests
  None          \* Python's None

ASSUME PrimaryConstants ==
  /\ IsFiniteSet(Investments)
  /\ Investor \in [Intents -> Investors]
  /\ Amount \in [Intents -> Nat \ {0}]
  /\ None \notin Investors \cup Intents \cup Investments \cup Requests \cup Txs

VARIABLES
  intent,      \* lumen_investor_intents: status
  kyc,         \* lumen_investor_profiles: kyc_status
  verified,    \* investors that were approved at some time
  investment,  \* lumen_investments: status, intent, and linked, contract_id is set
  contract,    \* lumen_contracts by investment: status, and signed, signed_at is set
  request,     \* lumen_payment_requests: status, investment, proof, proof_ids is
               \* not empty, and submitted, submitted_at is set
  credits,     \* credits in the ledger for each request
  tx,          \* lumen_bank_transactions: status and payment_request_id
  ownership,   \* lumen_ownerships: units by investor, None without a row
  raised,      \* raised_amount of the asset
  call,        \* the handlers
  overlaps,    \* see Arrived
  deaths       \* see Restart

peopleVars == <<intent, kyc, verified>>
legalVars == <<investment, contract>>
moneyVars == <<request, credits, tx>>
bookVars == <<ownership, raised>>
docs == <<peopleVars, legalVars, moneyVars, bookVars>>
vars == <<docs, call, overlaps, deaths>>

-----------------------------------------------------------------------------
ActionableKyc == {"submitted"}      \* under_review is never written
Signable == {"sent", "viewed"}
Cancellable == {"sent", "viewed"}
InvestorSubmittable == {"awaiting_payment", "under_review", "rejected"}
Settled == {"confirmed", "rejected"}  \* a request is never cancelled

\* Mutant: what may be matched by hand may be confirmed.
Matchable == {"awaiting_payment", "paid", "under_review"}
AdminActionable == {"paid", "under_review"}

Idle == [step |-> "idle", on |-> None, inv |-> None, req |-> None, tx |-> None,
         todo |-> {}, read |-> 0]

Init ==
  /\ intent = [i \in Intents |-> "submitted"]
  /\ kyc = [p \in Investors |-> "draft"]
  /\ verified = {}
  /\ investment = [x \in Investments |-> [status |-> "none", intent |-> None, linked |-> FALSE]]
  /\ contract = [x \in Investments |-> [status |-> "none", signed |-> FALSE]]
  /\ request = [r \in Requests |-> [status |-> "none", investment |-> None, proof |-> FALSE,
                                    submitted |-> FALSE]]
  /\ credits = [r \in Requests |-> 0]
  /\ tx = [t \in Txs |-> [status |-> "none", request |-> None]]
  /\ ownership = [p \in Investors |-> None]
  /\ raised = 0
  /\ call = [c \in Calls |-> Idle]
  /\ overlaps = 0
  /\ deaths = 0

Quiet == \A c \in Calls : call[c] = Idle

\* A request that passes its checks on what is stored now.
Arrived(c, next) ==
  /\ call[c] = Idle
  /\ call' = [call EXCEPT ![c] = next]
  /\ overlaps' = IF Quiet THEN overlaps ELSE overlaps + 1
  /\ UNCHANGED deaths

Begin(c, next) == Arrived(c, next) /\ UNCHANGED docs

Continue(c, from, next) ==
  /\ call[c].step = from
  /\ call' = [call EXCEPT ![c] = next]
  /\ UNCHANGED <<overlaps, deaths>>

Goto(c, from, to) == Continue(c, from, [call[c] EXCEPT !.step = to])

InvestorOf(x) == Investor[investment[x].intent]
Active(p) == {x \in Investments : investment[x].status = "active" /\ InvestorOf(x) = p}
Invested == [x \in Investments |-> IF investment[x].intent = None THEN 0
                                   ELSE Amount[investment[x].intent]]
Total(amount, X) == MapThenSumSet(LAMBDA x : amount[x], X)
Owned(p) == Total(Invested, Active(p))
ActiveTotal == Total(Invested, {x \in Investments : investment[x].status = "active"})

-----------------------------------------------------------------------------
(* approve_intent and reject_intent.                                       *)

ApproveIntent(c, i) ==
  /\ intent[i] = "submitted"
  /\ Begin(c, [Idle EXCEPT !.step = "approveKyc", !.on = i])

\* read carries kyc_ok to the insert.
ApproveReadKyc(c) ==
  /\ call[c].step = "approveKyc"
  /\ Continue(c, "approveKyc", [call[c] EXCEPT !.step = "insert",
                !.read = IF kyc[Investor[call[c].on]] = "approved" THEN 1 ELSE 0])
  /\ UNCHANGED docs

InsertInvestment(c) ==
  \E x \in Investments :
    /\ investment[x].status = "none"
    /\ Continue(c, "insert", [call[c] EXCEPT !.step = "contract", !.inv = x, !.read = 0])
    /\ investment' = [investment EXCEPT ![x] =
         [status |-> IF call[c].read = 1 THEN "contract_pending" ELSE "kyc_pending",
          intent |-> call[c].on, linked |-> FALSE]]
    /\ UNCHANGED <<peopleVars, contract, moneyVars, bookVars>>

\* generate_contract_for_investment; a template is always active.
InsertContract(c) ==
  /\ Goto(c, "contract", "link")
  /\ contract' = [contract EXCEPT ![call[c].inv] = [status |-> "sent", signed |-> FALSE]]
  /\ UNCHANGED <<peopleVars, investment, moneyVars, bookVars>>

LinkContract(c) ==
  /\ call[c].step = "link"
  /\ Goto(c, "link", "close")
  /\ investment' = [investment EXCEPT ![call[c].inv].linked = TRUE]
  /\ UNCHANGED <<peopleVars, contract, moneyVars, bookVars>>

DecideIntent(c, from, status) ==
  /\ call[c].step = from
  /\ Continue(c, from, Idle)
  /\ intent' = [intent EXCEPT ![call[c].on] = status]
  /\ UNCHANGED <<kyc, verified, legalVars, moneyVars, bookVars>>

CloseIntent(c) == DecideIntent(c, "close", "converted")

RejectIntent(c, i) ==
  /\ intent[i] = "submitted"
  /\ Begin(c, [Idle EXCEPT !.step = "rejectIntent", !.on = i])

RejectIntentWrite(c) == DecideIntent(c, "rejectIntent", "rejected")

-----------------------------------------------------------------------------
(* patch_my_profile, submit_kyc, admin_kyc_approve and admin_kyc_reject.   *)

EditProfile(c, p) ==
  /\ kyc[p] = "rejected"
  /\ Begin(c, [Idle EXCEPT !.step = "kycDraft", !.on = p])

SubmitKyc(c, p) ==
  /\ kyc[p] \in {"draft", "rejected"}
  /\ Begin(c, [Idle EXCEPT !.step = "kycSubmit", !.on = p])

DecideKyc(c, p) ==
  /\ kyc[p] \in ActionableKyc
  /\ \E step \in {"kycApprove", "kycReject"} :
       Begin(c, [Idle EXCEPT !.step = step, !.on = p])

WriteKyc(c, from, status, next) ==
  /\ call[c].step = from
  /\ Continue(c, from, next)
  /\ kyc' = [kyc EXCEPT ![call[c].on] = status]
  /\ verified' = IF status = "approved" THEN verified \cup {call[c].on} ELSE verified
  /\ UNCHANGED <<intent, legalVars, moneyVars, bookVars>>

KycWrite(c) ==
  \/ WriteKyc(c, "kycDraft", "draft", Idle)
  \/ WriteKyc(c, "kycSubmit", "submitted", Idle)
  \/ WriteKyc(c, "kycReject", "rejected", Idle)
  \/ WriteKyc(c, "kycApprove", "approved", [call[c] EXCEPT !.step = "activate"])

-----------------------------------------------------------------------------
(* The hook that follows an approval or a signature: first                 *)
(* activate_ready_investments, then open_payment_requests_for_investor.    *)

\* The handler goes on with the investments left of its cursor.
NextOf(c, left, loop, after) ==
  [call[c] EXCEPT !.step = IF left = {} THEN after ELSE loop, !.inv = None, !.todo = left]

Mine(c, statuses) ==
  {x \in Investments : investment[x].status \in statuses /\ InvestorOf(x) = call[c].on}

GateKyc(c, from, pass, fail) ==
  /\ call[c].step = from
  /\ Continue(c, from, IF kyc[call[c].on] = "approved" THEN [call[c] EXCEPT !.step = pass]
                       ELSE fail)
  /\ UNCHANGED docs

ActivateReadKyc(c) == GateKyc(c, "activate", "activateFind", [call[c] EXCEPT !.step = "open"])

ActivateFind(c) ==
  /\ call[c].step = "activateFind"
  /\ Continue(c, "activateFind", NextOf(c, Mine(c, {"kyc_pending"}), "move", "open"))
  /\ UNCHANGED docs

MoveToContract(c) ==
  \E x \in call[c].todo :
    /\ Continue(c, "move", NextOf(c, call[c].todo \ {x}, "move", "open"))
    /\ investment' = [investment EXCEPT ![x].status = "contract_pending"]
    /\ UNCHANGED <<peopleVars, contract, moneyVars, bookVars>>

OpenReadKyc(c) == GateKyc(c, "open", "openFind", Idle)

\* An investment read without its contract counts as not signed.
OpenFind(c) ==
  /\ call[c].step = "openFind"
  /\ LET found == {x \in Mine(c, {"kyc_pending", "contract_pending"}) : investment[x].linked}
     IN Continue(c, "openFind", IF found = {} THEN Idle
                                ELSE [call[c] EXCEPT !.step = "openSigned", !.todo = found])
  /\ UNCHANGED docs

OpenNext(c, from, x) ==
  Continue(c, from, IF call[c].todo = {x} THEN Idle
                    ELSE [call[c] EXCEPT !.step = "openSigned", !.inv = None, !.todo = @ \ {x}])

OpenReadContract(c) ==
  /\ \E x \in call[c].todo :
       IF contract[x].status = "signed"
       THEN Continue(c, "openSigned", [call[c] EXCEPT !.step = "openExisting", !.inv = x])
       ELSE OpenNext(c, "openSigned", x)
  /\ UNCHANGED docs

OpenFindExisting(c) ==
  /\ IF \E r \in Requests : /\ request[r].investment = call[c].inv
                            /\ request[r].status \notin Settled
     THEN OpenNext(c, "openExisting", call[c].inv)
     ELSE Goto(c, "openExisting", "openInsert")
  /\ UNCHANGED docs

InsertRequest(c) ==
  \E r \in Requests :
    /\ request[r].status = "none"
    /\ Goto(c, "openInsert", "openMark")
    /\ request' = [request EXCEPT ![r].status = "awaiting_payment", ![r].investment = call[c].inv]
    /\ UNCHANGED <<peopleVars, legalVars, credits, tx, bookVars>>

MarkAwaiting(c) ==
  /\ call[c].step = "openMark"
  /\ OpenNext(c, "openMark", call[c].inv)
  /\ investment' = [investment EXCEPT ![call[c].inv].status = "awaiting_payment"]
  /\ UNCHANGED <<peopleVars, contract, moneyVars, bookVars>>

-----------------------------------------------------------------------------
(* my_contract_detail, sign_contract, public_contract_sign and             *)
(* admin_cancel_contract.                                                  *)

ViewContract(c, x) ==
  /\ contract[x].status = "sent"
  /\ Begin(c, [Idle EXCEPT !.step = "view", !.inv = x])

SignContract(c, x) ==
  /\ contract[x].status \in Signable
  /\ Begin(c, [Idle EXCEPT !.step = "sign", !.inv = x])

CancelContract(c, x) ==
  /\ contract[x].status \in Cancellable
  /\ Begin(c, [Idle EXCEPT !.step = "cancel", !.inv = x])

WriteContract(c, from, doc, next) ==
  /\ Continue(c, from, next)
  /\ contract' = [contract EXCEPT ![call[c].inv] = doc]
  /\ UNCHANGED <<peopleVars, investment, moneyVars, bookVars>>

HookFor(x) == [Idle EXCEPT !.step = "activate", !.on = InvestorOf(x)]

ContractWrite(c) ==
  /\ call[c].step \in {"view", "sign", "cancel"}
  /\ LET x == call[c].inv
     IN \/ WriteContract(c, "view", [contract[x] EXCEPT !.status = "viewed"], Idle)
        \/ WriteContract(c, "sign", [status |-> "signed", signed |-> TRUE], HookFor(x))
        \/ WriteContract(c, "cancel", [contract[x] EXCEPT !.status = "cancelled"],
                         [call[c] EXCEPT !.step = "cancelRead"])

\* One conditional update: what was read before it decides nothing.
PublicSign(c, x) ==
  /\ contract[x].status \in Signable
  /\ Arrived(c, HookFor(x))
  /\ contract' = [contract EXCEPT ![x] = [status |-> "signed", signed |-> TRUE]]
  /\ UNCHANGED <<peopleVars, investment, moneyVars, bookVars>>

CancelReadInvestment(c) ==
  /\ call[c].step = "cancelRead"
  /\ Continue(c, "cancelRead",
       IF investment[call[c].inv].status \in {"kyc_pending", "contract_pending"}
       THEN [call[c] EXCEPT !.step = "cancelInvestment"] ELSE Idle)
  /\ UNCHANGED docs

CancelInvestment(c) ==
  /\ call[c].step = "cancelInvestment"
  /\ Continue(c, "cancelInvestment", Idle)
  /\ investment' = [investment EXCEPT ![call[c].inv].status = "cancelled"]
  /\ UNCHANGED <<peopleVars, contract, moneyVars, bookVars>>

-----------------------------------------------------------------------------
(* upload_proof, delete_proof, submit_payment, reject_payment_request and  *)
(* request_clarification: a read, then an unconditional write.             *)

OnRequest(c, r, step, statuses) ==
  /\ request[r].status \in statuses
  /\ Begin(c, [Idle EXCEPT !.step = step, !.req = r])

UploadProof(c, r) == ~request[r].proof /\ OnRequest(c, r, "upload", InvestorSubmittable)

\* of the last proof
DeleteProof(c, r) == request[r].proof /\ OnRequest(c, r, "delete", InvestorSubmittable)

SubmitPayment(c, r) == request[r].proof /\ OnRequest(c, r, "submit", InvestorSubmittable)

RejectPayment(c, r) == OnRequest(c, r, "reject", AdminActionable)

RequestClarification(c, r) == OnRequest(c, r, "clarify", AdminActionable)

WriteRequest(c, from, doc) ==
  /\ Continue(c, from, Idle)
  /\ request' = [request EXCEPT ![call[c].req] = doc]
  /\ UNCHANGED <<peopleVars, legalVars, credits, tx, bookVars>>

RequestWrite(c) ==
  /\ call[c].step \in {"upload", "delete", "submit", "reject", "clarify"}
  /\ LET doc == request[call[c].req]
     IN \/ WriteRequest(c, "upload", [doc EXCEPT !.proof = TRUE])
        \/ WriteRequest(c, "delete", [doc EXCEPT !.proof = FALSE])
        \/ WriteRequest(c, "submit", [doc EXCEPT !.status = "paid", !.submitted = TRUE])
        \/ WriteRequest(c, "reject", [doc EXCEPT !.status = "rejected"])
        \/ WriteRequest(c, "clarify", [doc EXCEPT !.status = "under_review"])

-----------------------------------------------------------------------------
(* confirm_payment_request, for an administrator or a bank transaction.    *)

ConfirmPayment(c, r) == OnRequest(c, r, "confirm", AdminActionable)

ConfirmRequest(c) ==
  /\ call[c].step = "confirm"
  /\ Goto(c, "confirm", "credit")
  /\ request' = [request EXCEPT ![call[c].req].status = "confirmed"]
  /\ UNCHANGED <<peopleVars, legalVars, credits, tx, bookVars>>

LedgerAppend(c) ==
  /\ call[c].step = "credit"
  /\ Goto(c, "credit", "activateInvestment")
  /\ credits' = [credits EXCEPT ![call[c].req] = @ + 1]
  /\ UNCHANGED <<peopleVars, legalVars, request, tx, bookVars>>

ActivateInvestment(c) ==
  /\ call[c].step = "activateInvestment"
  /\ Goto(c, "activateInvestment", "readOwned")
  /\ investment' = [investment EXCEPT ![request[call[c].req].investment].status = "active"]
  /\ UNCHANGED <<peopleVars, contract, moneyVars, bookVars>>

\* _upsert_ownership: the sum is read, then written.
ReadOwned(c) ==
  /\ call[c].step = "readOwned"
  /\ Continue(c, "readOwned", [call[c] EXCEPT !.step = "writeOwned",
       !.read = Owned(InvestorOf(request[call[c].req].investment))])
  /\ UNCHANGED docs

WriteOwned(c) ==
  /\ call[c].step = "writeOwned"
  /\ Continue(c, "writeOwned", [call[c] EXCEPT !.step = "readRaised", !.read = 0])
  /\ ownership' = [ownership EXCEPT ![InvestorOf(request[call[c].req].investment)] = call[c].read]
  /\ UNCHANGED <<peopleVars, legalVars, moneyVars, raised>>

\* _recompute_asset_funding
ReadRaised(c) ==
  /\ Continue(c, "readRaised", [call[c] EXCEPT !.step = "writeRaised", !.read = ActiveTotal])
  /\ UNCHANGED docs

WriteRaised(c) ==
  /\ Continue(c, "writeRaised", IF call[c].tx = None THEN Idle
                                ELSE [call[c] EXCEPT !.step = "linkTx", !.read = 0])
  /\ raised' = call[c].read
  /\ UNCHANGED <<peopleVars, legalVars, moneyVars, ownership>>

-----------------------------------------------------------------------------
(* ingest_transaction, attempt_match, admin_force_match, admin_reject_btx  *)
(* and admin_rematch_btx.                                                  *)

IngestTx(c, t) ==
  /\ tx[t].status = "none"
  /\ Arrived(c, [Idle EXCEPT !.step = "match", !.tx = t])
  /\ tx' = [tx EXCEPT ![t].status = "unmatched"]
  /\ UNCHANGED <<peopleVars, legalVars, request, credits, bookVars>>

\* Another attempt, by hand or not; one that was rejected is reopened first.
RematchTx(c, t) ==
  \/ /\ tx[t].status = "unmatched"
     /\ Begin(c, [Idle EXCEPT !.step = "match", !.tx = t])
  \/ /\ tx[t].status = "rejected"
     /\ Begin(c, [Idle EXCEPT !.step = "reopenTx", !.tx = t])

RejectTx(c, t) ==
  /\ tx[t].status = "unmatched"
  /\ Begin(c, [Idle EXCEPT !.step = "rejectTx", !.tx = t])

WriteTx(c, from, doc, next) ==
  /\ Continue(c, from, next)
  /\ tx' = [tx EXCEPT ![call[c].tx] = doc]
  /\ UNCHANGED <<peopleVars, legalVars, request, credits, bookVars>>

TxWrite(c) ==
  /\ call[c].step \in {"reopenTx", "rejectTx", "linkTx"}
  /\ LET doc == tx[call[c].tx]
     IN \/ WriteTx(c, "reopenTx", [doc EXCEPT !.status = "unmatched"],
                   [call[c] EXCEPT !.step = "match"])
        \/ WriteTx(c, "rejectTx", [doc EXCEPT !.status = "rejected"], Idle)
        \/ WriteTx(c, "linkTx", [status |-> "reconciled", request |-> call[c].req], Idle)

\* The reference may name any request, or none; the rest of the heuristics,
\* and an administrator, choose one that is open.  confirm_payment_request
\* refuses what is not actionable, which ends the attempt.
ChooseRequest(c) ==
  /\ call[c].step = "match"
  /\ \/ \E r \in Requests :
          /\ request[r].status \in AdminActionable
          /\ Continue(c, "match", [call[c] EXCEPT !.step = "confirm", !.req = r])
     \/ Continue(c, "match", Idle)
  /\ UNCHANGED docs

-----------------------------------------------------------------------------
(* The process dies and starts again: _sprint4_bootstrap makes the missing *)
(* contracts, _sprint2_backfill an empty registry of ownerships, and       *)
(* backfill_historical_payments recomputes the sum raised.  An investment  *)
(* whose contract is there but not linked stays so.                        *)

Unmade == {x \in Investments : investment[x].status # "none" /\ contract[x].status = "none"}

Backfill ==
  /\ investment' = [x \in Investments |->
       IF x \in Unmade THEN [investment[x] EXCEPT !.linked = TRUE] ELSE investment[x]]
  /\ contract' = [x \in Investments |->
       IF x \in Unmade THEN [contract[x] EXCEPT !.status = "sent"] ELSE contract[x]]
  /\ ownership' = IF \A p \in Investors : ownership[p] = None
                  THEN [p \in Investors |-> IF Active(p) = {} THEN None ELSE Owned(p)]
                  ELSE ownership

\* Mutant: the startup leaves the sum raised alone.
StartupNoFunding == Backfill /\ UNCHANGED raised

Startup == Backfill /\ raised' = ActiveTotal

Restart ==
  /\ ~Quiet
  /\ call' = [c \in Calls |-> Idle]
  /\ deaths' = deaths + 1
  /\ Startup
  /\ UNCHANGED <<peopleVars, moneyVars, overlaps>>

-----------------------------------------------------------------------------
Arrive(c) ==
  \/ \E i \in Intents : ApproveIntent(c, i) \/ RejectIntent(c, i)
  \/ \E p \in Investors : EditProfile(c, p) \/ SubmitKyc(c, p) \/ DecideKyc(c, p)
  \/ \E x \in Investments :
       ViewContract(c, x) \/ SignContract(c, x) \/ PublicSign(c, x) \/ CancelContract(c, x)
  \/ \E r \in Requests :
       \/ UploadProof(c, r) \/ DeleteProof(c, r) \/ SubmitPayment(c, r)
       \/ ConfirmPayment(c, r) \/ RejectPayment(c, r) \/ RequestClarification(c, r)
  \/ \E t \in Txs : IngestTx(c, t) \/ RematchTx(c, t) \/ RejectTx(c, t)

Handler(c) ==
  \/ ApproveReadKyc(c) \/ InsertInvestment(c) \/ InsertContract(c) \/ LinkContract(c)
  \/ CloseIntent(c) \/ RejectIntentWrite(c) \/ KycWrite(c)
  \/ ActivateReadKyc(c) \/ ActivateFind(c) \/ MoveToContract(c)
  \/ OpenReadKyc(c) \/ OpenFind(c) \/ OpenReadContract(c) \/ OpenFindExisting(c)
  \/ InsertRequest(c) \/ MarkAwaiting(c)
  \/ ContractWrite(c) \/ CancelReadInvestment(c) \/ CancelInvestment(c) \/ RequestWrite(c)
  \/ ConfirmRequest(c) \/ LedgerAppend(c) \/ ActivateInvestment(c)
  \/ ReadOwned(c) \/ WriteOwned(c) \/ ReadRaised(c) \/ WriteRaised(c)
  \/ ChooseRequest(c) \/ TxWrite(c)

Next == Restart \/ \E c \in Calls : Arrive(c) \/ Handler(c)

Spec == Init /\ [][Next]_vars

-----------------------------------------------------------------------------
(* Properties.                                                             *)

Steps == {"idle", "approveKyc", "insert", "contract", "link", "close", "rejectIntent",
          "kycDraft", "kycSubmit", "kycReject", "kycApprove", "activate", "activateFind", "move",
          "open", "openFind", "openSigned", "openExisting", "openInsert", "openMark",
          "view", "sign", "cancel", "cancelRead", "cancelInvestment",
          "upload", "delete", "submit", "reject", "clarify",
          "confirm", "credit", "activateInvestment", "readOwned", "writeOwned", "readRaised",
          "writeRaised", "match", "reopenTx", "rejectTx", "linkTx"}

\* Every document and handler holds values the code can put there.
TypeOK ==
  /\ intent \in [Intents -> {"submitted", "converted", "rejected"}]
  /\ kyc \in [Investors -> {"draft", "submitted", "approved", "rejected"}]
  /\ verified \in SUBSET Investors
  /\ investment \in [Investments ->
       [status : {"none", "kyc_pending", "contract_pending", "awaiting_payment", "active",
                  "cancelled"},
        intent : Intents \cup {None}, linked : BOOLEAN]]
  /\ contract \in [Investments -> [status : {"none", "sent", "viewed", "signed", "cancelled"},
                                   signed : BOOLEAN]]
  /\ request \in [Requests ->
       [status : {"none", "awaiting_payment", "paid", "under_review", "confirmed", "rejected"},
        investment : Investments \cup {None}, proof : BOOLEAN, submitted : BOOLEAN]]
  /\ credits \in [Requests -> Nat]
  /\ tx \in [Txs -> [status : {"none", "unmatched", "reconciled", "rejected"},
                     request : Requests \cup {None}]]
  /\ call \in [Calls ->
       [step : Steps, on : Intents \cup Investors \cup {None}, inv : Investments \cup {None},
        req : Requests \cup {None}, tx : Txs \cup {None}, todo : SUBSET Investments, read : Nat]]
  /\ overlaps \in Nat /\ deaths \in Nat

\* Whatever overlaps or dies, an active investment was earned: its contract
\* was signed, its investor was verified, and a request for it was submitted
\* with a proof and credited in the ledger.
ActivationIsEarned ==
  \A x \in Investments :
    investment[x].status = "active" =>
      /\ contract[x].signed
      /\ InvestorOf(x) \in verified
      /\ \E r \in Requests :
           request[r].investment = x /\ request[r].submitted /\ credits[r] > 0

\* Calls that come one after the other leave at most one investment of an
\* intent, one request for it and one credit, and units of active investments.
InvestedOnce ==
  /\ \A i \in Intents :
       Cardinality({x \in Investments : investment[x].intent = i}) =
         (IF intent[i] = "converted" THEN 1 ELSE 0)
  /\ \A x \in Investments :
       LET R == {r \in Requests : request[r].status # "none" /\ request[r].investment = x}
       IN /\ Cardinality(R) <= 1
          /\ \A r \in R : credits[r] = (IF investment[x].status = "active" THEN 1 ELSE 0)
          /\ investment[x].status = "active" => contract[x].status = "signed"
  /\ \A p \in Investors : ownership[p] = (IF Active(p) = {} THEN None ELSE Owned(p))
  /\ \A t, u \in Txs :
       tx[t].status = "reconciled" =>
         /\ request[tx[t].request].status = "confirmed"
         /\ tx[u].status = "reconciled" /\ t # u => tx[u].request # tx[t].request

\* Nobody who is verified and has signed is left without a request to pay.
NobodyWaits ==
  \A x \in Investments :
    contract[x].status = "signed" /\ kyc[InvestorOf(x)] = "approved"
      => investment[x].status \in {"awaiting_payment", "active"}

\* Between calls, unless some overlapped: the sum raised is that of the active
\* investments even after calls died; and if none died, every intent that was
\* approved is one investment on its way, paid and owned once.
BooksAgree ==
  Quiet /\ overlaps = 0 =>
    /\ raised = ActiveTotal
    /\ deaths = 0 => InvestedOnce /\ NobodyWaits
=============================================================================
