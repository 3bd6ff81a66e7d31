------------------------- MODULE PrimaryMarketProofs -------------------------
(***************************************************************************)
(* For any number of investors, intents, requests and calls.  Overlapping  *)
(* and dying anywhere: no investment is active that was not signed,        *)
(* verified, and paid for by a request with a proof and a ledger entry.    *)
(* One after the other: the books of the asset agree between calls.        *)
(***************************************************************************)
EXTENDS PrimaryMarket, SumTheorems, TLAPS

State == [step : Steps, on : Intents \cup Investors \cup {None},
            inv : Investments \cup {None}, req : Requests \cup {None},
            tx : Txs \cup {None}, todo : SUBSET Investments, read : Nat]

TypedDocuments ==
  /\ intent \in [Intents -> {"submitted", "converted", "rejected"}]
  /\ kyc \in [Investors -> {"draft", "submitted", "approved", "rejected"}]
  /\ verified \in SUBSET Investors
  /\ investment \in [Investments ->
       [status : {"none", "kyc_pending", "contract_pending", "awaiting_payment", "active",
                  "cancelled"},
        intent : Intents \cup {None}, linked : BOOLEAN]]
  /\ contract \in [Investments -> [status : {"none", "sent", "viewed", "signed", "cancelled"},
                                   signed : BOOLEAN]]
  /\ request \in [Requests ->
       [status : {"none", "awaiting_payment", "paid", "under_review", "confirmed", "rejected"},
        investment : Investments \cup {None}, proof : BOOLEAN, submitted : BOOLEAN]]
  /\ credits \in [Requests -> Nat]
  /\ tx \in [Txs -> [status : {"none", "unmatched", "reconciled", "rejected"},
                     request : Requests \cup {None}]]

\* What the documents say of each other: a contract has an investment, a
\* signature is never taken back, a request was opened for an investment that
\* was signed and whose investor was verified, and is under review only after
\* it was submitted.
Payable(x) == contract[x].signed /\ InvestorOf(x) \in verified

Documents ==
  /\ \A x \in Investments :
       /\ investment[x].status # "none" => investment[x].intent \in Intents
       /\ contract[x].status # "none" => investment[x].status # "none"
       /\ contract[x].signed => contract[x].status # "none"
       /\ contract[x].status = "signed" => contract[x].signed
  /\ \A p \in Investors : kyc[p] = "approved" => p \in verified
  /\ \A r \in Requests :
       /\ request[r].status # "none" =>
            LET x == request[r].investment
            IN x \in Investments /\ investment[x].status # "none" /\ Payable(x)
       /\ request[r].status \in AdminActionable => request[r].submitted
       /\ request[r].submitted => request[r].status # "none"

\* What a handler knows of the documents it works on, by the step it is at.
IntentSteps == {"approveKyc", "insert", "contract", "link", "close", "rejectIntent"}
KycSteps == {"kycDraft", "kycSubmit", "kycReject", "kycApprove"}
OpenSteps == {"openFind", "openSigned", "openExisting", "openInsert", "openMark"}
HookSteps == {"activate", "activateFind", "move", "open"} \cup OpenSteps
ContractSteps == {"view", "sign", "cancel", "cancelRead", "cancelInvestment"}
ProofSteps == {"upload", "delete", "submit"}
ReviewSteps == {"reject", "clarify", "confirm", "credit"}
PaidSteps == {"activateInvestment", "readOwned", "writeOwned", "readRaised", "writeRaised",
              "linkTx"}
TxSteps == {"match", "reopenTx", "rejectTx", "linkTx"}

USE DEF IntentSteps, KycSteps, OpenSteps, HookSteps, ContractSteps, ProofSteps, ReviewSteps,
        PaidSteps, TxSteps

\* What others do in between leaves it true.
Informed(h) ==
  /\ h.step \in IntentSteps => h.on \in Intents
  /\ h.step \in {"contract", "link", "close"} =>
       h.inv \in Investments /\ investment[h.inv].status # "none"
  /\ h.step \in KycSteps \cup HookSteps => h.on \in Investors
  /\ h.step \in OpenSteps => h.on \in verified
  /\ \A x \in h.todo : investment[x].status # "none" /\ InvestorOf(x) = h.on
  /\ h.step \in {"openExisting", "openInsert", "openMark"} =>
       h.inv \in h.todo /\ contract[h.inv].signed
  /\ h.step \in ContractSteps => h.inv \in Investments /\ contract[h.inv].status # "none"
  /\ h.step \in ProofSteps \cup ReviewSteps \cup PaidSteps =>
       h.req \in Requests /\ request[h.req].status # "none"
  /\ h.step \in ReviewSteps \cup PaidSteps => request[h.req].submitted
  /\ h.step \in PaidSteps => credits[h.req] > 0
  /\ h.step \in TxSteps \/ h.tx # None => h.tx \in Txs

\* Only that an investment has no contract yet could change: but no other
\* handler is about to make one.
MakesContract(c) ==
  call[c].step = "contract" =>
    /\ contract[call[c].inv].status = "none"
    /\ \A d \in Calls : call[d].step = "contract" /\ call[d].inv = call[c].inv => d = c

PrimaryInv ==
  /\ TypedDocuments
  /\ call \in [Calls -> State]
  /\ Documents
  /\ ActivationIsEarned
  /\ \A c \in Calls : Informed(call[c]) /\ MakesContract(c)

\* What no step takes back.
Grows ==
  /\ \A x \in Investments :
       /\ investment[x].status # "none" =>
            investment'[x].status # "none" /\ investment'[x].intent = investment[x].intent
       /\ contract[x].status # "none" => contract'[x].status # "none"
       /\ contract[x].signed => contract'[x].signed
  /\ verified \subseteq verified'
  /\ \A r \in Requests :
       /\ request[r].status # "none" =>
            request'[r].status # "none" /\ request'[r].investment = request[r].investment
       /\ request[r].submitted => request'[r].submitted
       /\ credits'[r] >= credits[r]

\* What a handler knows stays true while documents only grow.
LEMMA InformedStays ==
  ASSUME TypedDocuments, TypedDocuments', Grows, NEW h \in State, Informed(h)
  PROVE  Informed(h)'
<1> USE DEF TypedDocuments, Grows, State, Informed
<1>1. \A x \in h.todo : (investment[x].status # "none" /\ InvestorOf(x) = h.on)'
  BY DEF InvestorOf
<1>2. h.req \in Requests /\ credits[h.req] > 0 => credits'[h.req] > 0
  OBVIOUS
<1> QED
  BY <1>1, <1>2

\* A step of handler c that makes it h keeps the invariant if the documents
\* grow, and h knows what it should.
LEMMA StepKeeps ==
  ASSUME PrimaryInv, TypedDocuments', Grows, Documents', ActivationIsEarned',
         NEW c \in Calls, NEW h \in State, call' = [call EXCEPT ![c] = h], Informed(h)',
         \A x \in Investments : contract[x].status = "none" /\ contract'[x].status # "none"
                                => call[c].step = "contract" /\ call[c].inv = x,
         h.step = "contract" =>
           /\ contract'[h.inv].status = "none"
           /\ \A d \in Calls : call[d].step = "contract" => call[d].inv # h.inv
  PROVE  PrimaryInv'
<1>1. call' \in [Calls -> State] /\ call'[c] = h
  BY DEF PrimaryInv
<1>2. \A d \in Calls : d # c => call'[d] = call[d]
  BY DEF PrimaryInv
<1>3. \A d \in Calls : Informed(call[d])'
  <2> SUFFICES ASSUME NEW d \in Calls, d # c PROVE Informed(call[d])'
    BY <1>1, Zenon
  <2>1. call[d] \in State /\ Informed(call[d])
    BY DEF PrimaryInv
  <2>2. \A g \in State : Informed(g) => Informed(g)'
    BY InformedStays DEF PrimaryInv
  <2> QED
    BY <1>2, <2>1, <2>2 DEF Informed
<1>4. \A d \in Calls : MakesContract(d)'
  <2> SUFFICES ASSUME NEW d \in Calls, call'[d].step = "contract"
               PROVE  /\ contract'[call'[d].inv].status = "none"
                      /\ \A e \in Calls : call'[e].step = "contract" /\ call'[e].inv = call'[d].inv
                                         => e = d
    BY DEF MakesContract
  <2>1. CASE d = c
    BY <1>1, <1>2, <2>1
  <2>2. CASE d # c
    <3>1. MakesContract(d) /\ Informed(call[d]) /\ call'[d] = call[d]
      BY <1>2, <2>2 DEF PrimaryInv
    <3>2. call[d].inv \in Investments
      BY <3>1 DEF Informed
    <3> QED
      BY <1>1, <1>2, <2>2, <3>1, <3>2 DEF MakesContract
  <2> QED
    BY <2>1, <2>2
<1> QED
  BY <1>1, <1>3, <1>4 DEF PrimaryInv

\* A step that changes no document.
LEMMA ReadKeeps ==
  ASSUME PrimaryInv, UNCHANGED docs, NEW c \in Calls, NEW h \in State,
         call' = [call EXCEPT ![c] = h], Informed(h), h.step # "contract"
  PROVE  PrimaryInv'
<1> USE DEF docs, peopleVars, legalVars, moneyVars, bookVars
<1>1. TypedDocuments' /\ Documents' /\ ActivationIsEarned'
  BY DEF PrimaryInv, TypedDocuments, Documents, Payable, ActivationIsEarned, InvestorOf
<1>2. Grows
  BY DEF PrimaryInv, TypedDocuments, Grows
<1>3. Informed(h)'
  BY DEF Informed, InvestorOf
<1> QED
  BY <1>1, <1>2, <1>3, StepKeeps

LEMMA IdleIsInformed ==
  /\ Idle \in State /\ Informed(Idle)
  /\ Idle.step = "idle" /\ Idle.tx = None /\ Idle.todo = {}
BY PrimaryConstants DEF Idle, State, Steps, Informed

LEMMA InitPrimaryInv == Init => PrimaryInv
<1> SUFFICES ASSUME Init PROVE PrimaryInv
  OBVIOUS
<1> USE DEF Init
<1>1. TypedDocuments
  BY DEF TypedDocuments
<1>2. call \in [Calls -> State] /\ \A c \in Calls : Informed(call[c]) /\ MakesContract(c)
  BY IdleIsInformed DEF MakesContract
<1>3. Documents /\ ActivationIsEarned
  BY DEF Documents, ActivationIsEarned, AdminActionable
<1> QED
  BY <1>1, <1>2, <1>3 DEF PrimaryInv

-----------------------------------------------------------------------------
(* Requests that arrive: their first read tells them what they must know.  *)

LEMMA BeginKeeps ==
  ASSUME PrimaryInv, NEW c \in Calls, NEW h \in State, Begin(c, h), Informed(h),
         h.step # "contract"
  PROVE  PrimaryInv'
BY ReadKeeps DEF Begin, Arrived

LEMMA IntentArrives ==
  ASSUME PrimaryInv, NEW c \in Calls, NEW i \in Intents,
         ApproveIntent(c, i) \/ RejectIntent(c, i)
  PROVE  PrimaryInv'
<1>1. PICK step \in {"approveKyc", "rejectIntent"} :
        Begin(c, [Idle EXCEPT !.step = step, !.on = i])
  BY DEF ApproveIntent, RejectIntent
<1> DEFINE h == [Idle EXCEPT !.step = step, !.on = i]
<1>2. h \in State /\ h.step = step /\ h.on = i /\ h.todo = {} /\ h.tx = None
  <2>1. step \in Steps
    BY DEF Steps, KycSteps, ProofSteps
  <2> QED
    BY <2>1, IdleIsInformed DEF State
<1>3. Begin(c, h)
  BY <1>1
<1> HIDE DEF h
<1>4. Informed(h) /\ h.step # "contract"
  BY <1>2 DEF State, Informed
<1> QED
  BY <1>2, <1>3, <1>4, BeginKeeps

LEMMA KycArrives ==
  ASSUME PrimaryInv, NEW c \in Calls, NEW p \in Investors,
         EditProfile(c, p) \/ SubmitKyc(c, p) \/ DecideKyc(c, p)
  PROVE  PrimaryInv'
<1>1. PICK step \in KycSteps : Begin(c, [Idle EXCEPT !.step = step, !.on = p])
  BY DEF EditProfile, SubmitKyc, DecideKyc, KycSteps
<1> DEFINE h == [Idle EXCEPT !.step = step, !.on = p]
<1>2. h \in State /\ h.step = step /\ h.on = p /\ h.todo = {} /\ h.tx = None
  <2>1. step \in Steps
    BY DEF Steps, KycSteps, ProofSteps
  <2> QED
    BY <2>1, IdleIsInformed DEF State
<1>3. Begin(c, h)
  BY <1>1
<1> HIDE DEF h
<1>4. Informed(h) /\ h.step # "contract"
  BY <1>2 DEF State, Informed
<1> QED
  BY <1>2, <1>3, <1>4, BeginKeeps

LEMMA ContractArrives ==
  ASSUME PrimaryInv, NEW c \in Calls, NEW x \in Investments,
         ViewContract(c, x) \/ SignContract(c, x) \/ CancelContract(c, x)
  PROVE  PrimaryInv'
<1>1. PICK step \in {"view", "sign", "cancel"} : Begin(c, [Idle EXCEPT !.step = step, !.inv = x])
  BY DEF ViewContract, SignContract, CancelContract
<1>2. contract[x].status # "none"
  BY DEF ViewContract, SignContract, CancelContract, Signable, Cancellable
<1> DEFINE h == [Idle EXCEPT !.step = step, !.inv = x]
<1>3. h \in State /\ h.step = step /\ h.inv = x /\ h.todo = {} /\ h.tx = None
  <2>1. step \in Steps
    BY DEF Steps, KycSteps, ProofSteps
  <2> QED
    BY <2>1, IdleIsInformed DEF State
<1>4. Begin(c, h)
  BY <1>1
<1> HIDE DEF h
<1>5. Informed(h) /\ h.step # "contract"
  BY <1>3, <1>2 DEF State, Informed
<1> QED
  BY <1>3, <1>4, <1>5, BeginKeeps

LEMMA RequestArrives ==
  ASSUME PrimaryInv, NEW c \in Calls, NEW r \in Requests,
         \/ UploadProof(c, r) \/ DeleteProof(c, r) \/ SubmitPayment(c, r)
         \/ ConfirmPayment(c, r) \/ RejectPayment(c, r) \/ RequestClarification(c, r)
  PROVE  PrimaryInv'
<1>1. PICK step \in ProofSteps \cup {"reject", "clarify", "confirm"} :
        /\ Begin(c, [Idle EXCEPT !.step = step, !.req = r])
        /\ request[r].status \in (IF step \in ProofSteps THEN InvestorSubmittable
                                  ELSE AdminActionable)
  BY DEF UploadProof, DeleteProof, SubmitPayment, ConfirmPayment, RejectPayment,
         RequestClarification, OnRequest, ProofSteps
<1>2. request[r].status # "none" /\ (step \notin ProofSteps => request[r].submitted)
  BY <1>1 DEF PrimaryInv, Documents, InvestorSubmittable, AdminActionable
<1> DEFINE h == [Idle EXCEPT !.step = step, !.req = r]
<1>3. h \in State /\ h.step = step /\ h.req = r /\ h.todo = {} /\ h.tx = None
  <2>1. step \in Steps
    BY DEF Steps, KycSteps, ProofSteps
  <2> QED
    BY <2>1, IdleIsInformed DEF State
<1>4. Begin(c, h)
  BY <1>1
<1> HIDE DEF h
<1>5. Informed(h) /\ h.step # "contract"
  BY <1>3, <1>2 DEF State, Informed
<1> QED
  BY <1>3, <1>4, <1>5, BeginKeeps

LEMMA TxArrives ==
  ASSUME PrimaryInv, NEW c \in Calls, NEW t \in Txs, RematchTx(c, t) \/ RejectTx(c, t)
  PROVE  PrimaryInv'
<1>1. PICK step \in {"match", "reopenTx", "rejectTx"} :
        Begin(c, [Idle EXCEPT !.step = step, !.tx = t])
  BY DEF RematchTx, RejectTx
<1> DEFINE h == [Idle EXCEPT !.step = step, !.tx = t]
<1>2. h \in State /\ h.step = step /\ h.tx = t /\ h.todo = {}
  <2>1. step \in Steps
    BY DEF Steps, KycSteps, ProofSteps
  <2> QED
    BY <2>1, IdleIsInformed DEF State
<1>3. Begin(c, h)
  BY <1>1
<1> HIDE DEF h
<1>4. Informed(h) /\ h.step # "contract"
  BY <1>2 DEF State, Informed
<1> QED
  BY <1>2, <1>3, <1>4, BeginKeeps

-----------------------------------------------------------------------------
(* Steps that write: what each kind of write keeps of the documents.       *)

DocumentsKeep == TypedDocuments' /\ Grows /\ Documents' /\ ActivationIsEarned'

\* Writes to intents, bank transactions and books.
LEMMA SideWrite ==
  ASSUME PrimaryInv, UNCHANGED <<kyc, verified, legalVars, request, credits>>,
         intent' \in [Intents -> {"submitted", "converted", "rejected"}],
         tx' \in [Txs -> [status : {"none", "unmatched", "reconciled", "rejected"},
                          request : Requests \cup {None}]]
  PROVE  DocumentsKeep
<1> USE DEF PrimaryInv, legalVars
<1>1. TypedDocuments' /\ Grows
  BY DEF TypedDocuments, Grows
<1>2. Documents' /\ ActivationIsEarned'
  BY DEF Documents, Payable, ActivationIsEarned, InvestorOf
<1> QED
  BY <1>1, <1>2 DEF DocumentsKeep

\* Writes to an investment that do not activate it.
LEMMA InvestmentWrite ==
  ASSUME PrimaryInv, UNCHANGED <<peopleVars, contract, moneyVars>>,
         NEW x \in Investments, investment[x].status # "none",
         NEW doc, investment' = [investment EXCEPT ![x] = doc],
         doc \in [status : {"none", "kyc_pending", "contract_pending", "awaiting_payment",
                            "active", "cancelled"}, intent : Intents \cup {None},
                  linked : BOOLEAN],
         doc.intent = investment[x].intent, doc.status # "none",
         doc.status = "active" => investment[x].status = "active"
  PROVE  DocumentsKeep
<1> USE DEF PrimaryInv, peopleVars, moneyVars
<1>1. investment' \in [Investments -> [status : {"none", "kyc_pending", "contract_pending",
                         "awaiting_payment", "active", "cancelled"},
                         intent : Intents \cup {None}, linked : BOOLEAN]]
  BY DEF TypedDocuments
<1>2. \A y \in Investments : /\ investment'[y].intent = investment[y].intent
                             /\ investment[y].status # "none" <=> investment'[y].status # "none"
                             /\ investment'[y].status = "active" => investment[y].status = "active"
  BY DEF TypedDocuments
<1>3. TypedDocuments' /\ Grows
  BY <1>1, <1>2 DEF TypedDocuments, Grows
<1>4. Documents'
  BY <1>2 DEF Documents, Payable, InvestorOf, TypedDocuments
<1>5. ActivationIsEarned'
  BY <1>2 DEF ActivationIsEarned, InvestorOf
<1> QED
  BY <1>3, <1>4, <1>5 DEF DocumentsKeep

\* Writes to a contract, which do not take a signature back.
LEMMA ContractWritten ==
  ASSUME PrimaryInv, UNCHANGED <<peopleVars, investment, moneyVars>>,
         NEW x \in Investments, investment[x].status # "none",
         NEW doc, contract' = [contract EXCEPT ![x] = doc],
         doc \in [status : {"sent", "viewed", "signed", "cancelled"}, signed : BOOLEAN],
         contract[x].signed => doc.signed,
         doc.status = "signed" => doc.signed
  PROVE  DocumentsKeep
<1> USE DEF PrimaryInv, peopleVars, moneyVars
<1>1. contract' \in [Investments -> [status : {"none", "sent", "viewed", "signed", "cancelled"},
                                     signed : BOOLEAN]]
  BY DEF TypedDocuments
<1>2. \A y \in Investments : /\ contract[y].signed => contract'[y].signed
                             /\ y = x => contract'[y] = doc
                             /\ y # x => contract'[y] = contract[y]
  BY DEF TypedDocuments
<1>3. TypedDocuments' /\ Grows
  BY <1>1, <1>2 DEF TypedDocuments, Grows
<1>4. Documents'
  BY <1>1, <1>2 DEF Documents, Payable, InvestorOf, TypedDocuments
<1>5. ActivationIsEarned'
  BY <1>2 DEF ActivationIsEarned, InvestorOf
<1> QED
  BY <1>3, <1>4, <1>5 DEF DocumentsKeep

\* Writes to a request, which make it actionable only once it was submitted.
LEMMA RequestWritten ==
  ASSUME PrimaryInv, UNCHANGED <<peopleVars, legalVars, credits, tx>>,
         NEW r \in Requests, NEW doc, request' = [request EXCEPT ![r] = doc],
         doc \in [status : {"awaiting_payment", "paid", "under_review", "confirmed", "rejected"},
                  investment : Investments, proof : BOOLEAN, submitted : BOOLEAN],
         request[r].status # "none" => doc.investment = request[r].investment,
         investment[doc.investment].status # "none" /\ Payable(doc.investment),
         request[r].submitted => doc.submitted,
         doc.status \in AdminActionable => doc.submitted
  PROVE  DocumentsKeep
<1> USE DEF PrimaryInv, peopleVars, legalVars
<1>1. request' \in [Requests -> [status : {"none", "awaiting_payment", "paid", "under_review",
                       "confirmed", "rejected"}, investment : Investments \cup {None},
                       proof : BOOLEAN, submitted : BOOLEAN]]
  BY DEF TypedDocuments
<1>2. \A q \in Requests : IF q = r THEN request'[q] = doc ELSE request'[q] = request[q]
  BY DEF TypedDocuments
<1>3. TypedDocuments' /\ Grows
  BY <1>1, <1>2 DEF TypedDocuments, Grows
<1>4. Documents'
  BY <1>2 DEF Documents, Payable, InvestorOf, TypedDocuments
<1>5. ActivationIsEarned'
  <2> SUFFICES ASSUME NEW x \in Investments, investment[x].status = "active",
                      NEW q \in Requests, request[q].investment = x, request[q].submitted,
                      credits[q] > 0
               PROVE  request'[q].investment = x /\ request'[q].submitted /\ credits'[q] > 0
    BY DEF ActivationIsEarned, InvestorOf
  <2> QED
    BY <1>2 DEF Documents
<1> QED
  BY <1>3, <1>4, <1>5 DEF DocumentsKeep

LEMMA WriteKeeps ==
  ASSUME PrimaryInv, DocumentsKeep, NEW c \in Calls, NEW h \in State,
         call' = [call EXCEPT ![c] = h], Informed(h)', h.step # "contract",
         \A x \in Investments : contract[x].status = "none" => contract'[x].status = "none"
  PROVE  PrimaryInv'
BY StepKeeps DEF DocumentsKeep

-----------------------------------------------------------------------------
(* Steps of a handler that only read.                                      *)

LEMMA Handlers ==
  ASSUME PrimaryInv, NEW c \in Calls
  PROVE  call[c] \in State /\ Informed(call[c])
BY DEF PrimaryInv

LEMMA AtStep ==
  ASSUME NEW g \in State, NEW step \in Steps
  PROVE  LET h == [g EXCEPT !.step = step]
         IN /\ h \in State
            /\ h.step = step /\ h.on = g.on /\ h.inv = g.inv /\ h.req = g.req /\ h.tx = g.tx
            /\ h.todo = g.todo
BY DEF State

LEMMA ApproveReads ==
  ASSUME PrimaryInv, NEW c \in Calls, ApproveReadKyc(c)
  PROVE  PrimaryInv'
<1>1. PICK n \in {0, 1} : /\ call[c].step = "approveKyc" /\ UNCHANGED docs
                          /\ call' = [call EXCEPT ![c] =
                               [call[c] EXCEPT !.step = "insert", !.read = n]]
  BY DEF ApproveReadKyc, Continue
<1> DEFINE h == [call[c] EXCEPT !.step = "insert", !.read = n]
<1>2. "insert" \in Steps /\ n \in Nat
  BY DEF Steps
<1>3. /\ h \in State /\ h.step = "insert" /\ h.on = call[c].on /\ h.tx = call[c].tx
      /\ h.todo = call[c].todo
  BY <1>2, Handlers DEF State
<1>4. call' = [call EXCEPT ![c] = h]
  BY <1>1
<1> HIDE DEF h
<1>5. Informed(h)
  BY <1>1, <1>3, Handlers DEF Informed
<1> QED
  BY <1>1, <1>3, <1>4, <1>5, ReadKeeps

\* The gates on the investor's verification.
LEMMA GateReads ==
  ASSUME PrimaryInv, NEW c \in Calls, ActivateReadKyc(c) \/ OpenReadKyc(c)
  PROVE  PrimaryInv'
<1>1. /\ UNCHANGED docs
      /\ call[c].step \in {"activate", "open"}
      /\ \/ call' = [call EXCEPT ![c] = Idle]
         \/ \E step \in {"open", "activateFind", "openFind"} :
              /\ call' = [call EXCEPT ![c] = [call[c] EXCEPT !.step = step]]
              /\ step = "openFind" => kyc[call[c].on] = "approved"
  <2>1. CASE ActivateReadKyc(c)
    BY <2>1 DEF ActivateReadKyc, GateKyc, Continue
  <2>2. CASE OpenReadKyc(c)
    BY <2>2 DEF OpenReadKyc, GateKyc, Continue
  <2> QED
    BY <2>1, <2>2
<1>2. CASE call' = [call EXCEPT ![c] = Idle]
  BY <1>1, <1>2, IdleIsInformed, ReadKeeps
<1>3. ASSUME NEW step \in {"open", "activateFind", "openFind"},
             call' = [call EXCEPT ![c] = [call[c] EXCEPT !.step = step]],
             step = "openFind" => kyc[call[c].on] = "approved"
      PROVE  PrimaryInv'
  <2> DEFINE h == [call[c] EXCEPT !.step = step]
  <2>1. step \in Steps
    BY DEF Steps
  <2>2. /\ h \in State /\ h.step = step /\ h.on = call[c].on /\ h.tx = call[c].tx
        /\ h.todo = call[c].todo
    BY <2>1, AtStep, Handlers
  <2>3. call' = [call EXCEPT ![c] = h]
    BY <1>3
  <2> HIDE DEF h
  <2>4. call[c].on \in Investors
    BY <1>1, Handlers DEF Informed, HookSteps
  <2>5. step = "openFind" => call[c].on \in verified
    BY <1>3, <2>4 DEF PrimaryInv, Documents
  <2>6. Informed(h)
    BY <1>1, <2>2, <2>5, Handlers DEF Informed
  <2> QED
    BY <1>1, <2>2, <2>3, <2>6, ReadKeeps
<1> QED
  BY <1>1, <1>2, <1>3

\* What the handler knows when it goes on with what is left of its cursor.
LEMMA NextOfIs ==
  ASSUME PrimaryInv, NEW c \in Calls, NEW left, NEW loop \in {"move"}, NEW after \in {"open"},
         call[c].step \in HookSteps, left \subseteq Investments,
         \A x \in left : investment[x].status # "none" /\ InvestorOf(x) = call[c].on
  PROVE  /\ NextOf(c, left, loop, after) \in State
         /\ Informed(NextOf(c, left, loop, after))
         /\ NextOf(c, left, loop, after).step # "contract"
<1> DEFINE step == IF left = {} THEN after ELSE loop
           h == [call[c] EXCEPT !.step = step, !.inv = None, !.todo = left]
<1>1. step \in Steps /\ step \in {"move", "open"}
  BY DEF Steps
<1> HIDE DEF step
<1>2. /\ h \in State /\ h.step = step /\ h.on = call[c].on /\ h.tx = call[c].tx
      /\ h.todo = left
  BY <1>1, Handlers DEF State
<1>3. h = NextOf(c, left, loop, after)
  BY DEF NextOf, step
<1> HIDE DEF h
<1>4. Informed(h)
  BY <1>1, <1>2, Handlers DEF Informed
<1> QED
  BY <1>1, <1>2, <1>3, <1>4

LEMMA OpenNextIs ==
  ASSUME PrimaryInv, NEW c \in Calls, NEW from, NEW x, OpenNext(c, from, x),
         call[c].step \in OpenSteps
  PROVE  \E h \in State : /\ call' = [call EXCEPT ![c] = h]
                            /\ Informed(h) /\ h.step # "contract"
<1>1. CASE call' = [call EXCEPT ![c] = Idle]
  BY <1>1, IdleIsInformed
<1>2. CASE call' = [call EXCEPT ![c] = [call[c] EXCEPT !.step = "openSigned", !.inv = None,
                                                       !.todo = @ \ {x}]]
  <2> DEFINE h == [call[c] EXCEPT !.step = "openSigned", !.inv = None, !.todo = @ \ {x}]
  <2>1. "openSigned" \in Steps
    BY DEF Steps
  <2>2. /\ h \in State /\ h.step = "openSigned" /\ h.on = call[c].on /\ h.tx = call[c].tx
        /\ h.todo \subseteq call[c].todo
    BY <2>1, Handlers DEF State
  <2>3. call' = [call EXCEPT ![c] = h]
    BY <1>2
  <2> HIDE DEF h
  <2>4. Informed(h)
    BY <2>2, Handlers DEF Informed
  <2> QED
    BY <2>2, <2>3, <2>4
<1> QED
  BY <1>1, <1>2 DEF OpenNext, Continue

LEMMA ActivateFinds ==
  ASSUME PrimaryInv, NEW c \in Calls, ActivateFind(c)
  PROVE  PrimaryInv'
<1> DEFINE left == Mine(c, {"kyc_pending"})
<1>1. /\ call[c].step = "activateFind" /\ UNCHANGED docs
      /\ call' = [call EXCEPT ![c] = NextOf(c, left, "move", "open")]
  BY DEF ActivateFind, Continue
<1>2. /\ left \subseteq Investments
      /\ \A x \in left : investment[x].status # "none" /\ InvestorOf(x) = call[c].on
  BY DEF Mine
<1> HIDE DEF left
<1>3. call[c].step \in HookSteps
  BY <1>1 DEF HookSteps
<1> QED
  BY <1>1, <1>2, <1>3, NextOfIs, ReadKeeps

LEMMA OpenFinds ==
  ASSUME PrimaryInv, NEW c \in Calls, OpenFind(c)
  PROVE  PrimaryInv'
<1> DEFINE found == {x \in Mine(c, {"kyc_pending", "contract_pending"}) : investment[x].linked}
           h == [call[c] EXCEPT !.step = "openSigned", !.todo = found]
<1>1. /\ call[c].step = "openFind" /\ UNCHANGED docs
      /\ call' = [call EXCEPT ![c] = Idle] \/ call' = [call EXCEPT ![c] = h]
  BY DEF OpenFind, Continue
<1>2. /\ found \subseteq Investments
      /\ \A x \in found : investment[x].status # "none" /\ InvestorOf(x) = call[c].on
  BY DEF Mine
<1> HIDE DEF found
<1>3. "openSigned" \in Steps
  BY DEF Steps
<1>4. /\ h \in State /\ h.step = "openSigned" /\ h.on = call[c].on /\ h.tx = call[c].tx
      /\ h.todo = found
  BY <1>2, <1>3, Handlers DEF State
<1> HIDE DEF h
<1>5. Informed(h)
  BY <1>1, <1>2, <1>4, Handlers DEF Informed
<1> QED
  BY <1>1, <1>4, <1>5, IdleIsInformed, ReadKeeps

LEMMA OpenReads ==
  ASSUME PrimaryInv, NEW c \in Calls, OpenReadContract(c) \/ OpenFindExisting(c)
  PROVE  PrimaryInv'
<1>1. /\ UNCHANGED docs
      /\ \/ \E x : OpenNext(c, call[c].step, x) /\ call[c].step \in OpenSteps
         \/ \E x \in call[c].todo :
              /\ call[c].step = "openSigned" /\ contract[x].status = "signed"
              /\ call' = [call EXCEPT ![c] = [call[c] EXCEPT !.step = "openExisting", !.inv = x]]
         \/ /\ call[c].step = "openExisting"
            /\ call' = [call EXCEPT ![c] = [call[c] EXCEPT !.step = "openInsert"]]
  <2>1. CASE OpenReadContract(c)
    BY <2>1 DEF OpenReadContract, OpenNext, Continue, OpenSteps
  <2>2. CASE OpenFindExisting(c)
    BY <2>2 DEF OpenFindExisting, OpenNext, Goto, Continue, OpenSteps
  <2> QED
    BY <2>1, <2>2
<1>2. ASSUME NEW x, OpenNext(c, call[c].step, x), call[c].step \in OpenSteps
      PROVE  PrimaryInv'
  BY <1>1, <1>2, OpenNextIs, ReadKeeps
<1>3. ASSUME NEW x \in call[c].todo, call[c].step = "openSigned", contract[x].status = "signed",
             call' = [call EXCEPT ![c] = [call[c] EXCEPT !.step = "openExisting", !.inv = x]]
      PROVE  PrimaryInv'
  <2> DEFINE h == [call[c] EXCEPT !.step = "openExisting", !.inv = x]
  <2>1. "openExisting" \in Steps /\ x \in Investments
    BY Handlers DEF Steps, State
  <2>2. /\ h \in State /\ h.step = "openExisting" /\ h.on = call[c].on /\ h.tx = call[c].tx
        /\ h.todo = call[c].todo /\ h.inv = x
    BY <2>1, Handlers DEF State
  <2>3. call' = [call EXCEPT ![c] = h]
    BY <1>3
  <2> HIDE DEF h
  <2>4. contract[x].signed
    BY <1>3, <2>1 DEF PrimaryInv, Documents
  <2>5. Informed(h)
    BY <1>3, <2>2, <2>4, Handlers DEF Informed
  <2> QED
    BY <1>1, <2>2, <2>3, <2>5, ReadKeeps
<1>4. ASSUME call[c].step = "openExisting",
             call' = [call EXCEPT ![c] = [call[c] EXCEPT !.step = "openInsert"]]
      PROVE  PrimaryInv'
  <2> DEFINE h == [call[c] EXCEPT !.step = "openInsert"]
  <2>1. "openInsert" \in Steps
    BY DEF Steps
  <2>2. /\ h \in State /\ h.step = "openInsert" /\ h.on = call[c].on /\ h.tx = call[c].tx
        /\ h.todo = call[c].todo /\ h.inv = call[c].inv
    BY <2>1, AtStep, Handlers
  <2>3. call' = [call EXCEPT ![c] = h]
    BY <1>4
  <2> HIDE DEF h
  <2>4. Informed(h)
    BY <1>4, <2>2, Handlers DEF Informed
  <2> QED
    BY <1>1, <2>2, <2>3, <2>4, ReadKeeps
<1> QED
  BY <1>1, <1>2, <1>3, <1>4

LEMMA CancelReads ==
  ASSUME PrimaryInv, NEW c \in Calls, CancelReadInvestment(c)
  PROVE  PrimaryInv'
<1> DEFINE h == [call[c] EXCEPT !.step = "cancelInvestment"]
<1>1. /\ call[c].step = "cancelRead" /\ UNCHANGED docs
      /\ call' = [call EXCEPT ![c] = Idle] \/ call' = [call EXCEPT ![c] = h]
  BY DEF CancelReadInvestment, Continue
<1>2. "cancelInvestment" \in Steps
  BY DEF Steps
<1>3. /\ h \in State /\ h.step = "cancelInvestment" /\ h.inv = call[c].inv /\ h.tx = call[c].tx
      /\ h.todo = call[c].todo /\ h.on = call[c].on
  BY <1>2, AtStep, Handlers
<1> HIDE DEF h
<1>4. Informed(h)
  BY <1>1, <1>3, Handlers DEF Informed
<1> QED
  BY <1>1, <1>3, <1>4, IdleIsInformed, ReadKeeps

\* Sums of amounts are numbers.
LEMMA TotalIsNatural ==
  ASSUME PrimaryInv, NEW X \in SUBSET Investments
  PROVE  Total(Invested, X) \in Nat
<1>1. IsFiniteSet(X)
  BY FS_Subset, PrimaryConstants
<1>2. \A x \in X : Invested[x] \in Nat
  BY PrimaryConstants DEF PrimaryInv, TypedDocuments, Invested
<1>3. SumOver(Invested, X) \in Nat
  BY <1>1, <1>2, SumNatural
<1> QED
  BY <1>3 DEF Total, SumOver

LEMMA SumsAreNatural ==
  ASSUME PrimaryInv, NEW p
  PROVE  Owned(p) \in Nat /\ ActiveTotal \in Nat
<1>1. /\ Active(p) \in SUBSET Investments
      /\ {x \in Investments : investment[x].status = "active"} \in SUBSET Investments
  BY DEF Active
<1> QED
  BY <1>1, TotalIsNatural DEF Owned, ActiveTotal

LEMMA SumReads ==
  ASSUME PrimaryInv, NEW c \in Calls, ReadOwned(c) \/ ReadRaised(c)
  PROVE  PrimaryInv'
<1>1. PICK step \in {"writeOwned", "writeRaised"}, sum \in Nat :
        /\ UNCHANGED docs /\ call[c].step \in {"readOwned", "readRaised"}
        /\ call' = [call EXCEPT ![c] = [call[c] EXCEPT !.step = step, !.read = sum]]
  <2>1. CASE ReadOwned(c)
    BY <2>1, SumsAreNatural DEF ReadOwned, Continue
  <2>2. CASE ReadRaised(c)
    BY <2>2, SumsAreNatural DEF ReadRaised, Continue
  <2> QED
    BY <2>1, <2>2
<1> DEFINE h == [call[c] EXCEPT !.step = step, !.read = sum]
<1>2. step \in Steps
  BY DEF Steps
<1>3. /\ h \in State /\ h.step = step /\ h.req = call[c].req /\ h.tx = call[c].tx
      /\ h.todo = call[c].todo /\ h.on = call[c].on
  BY <1>2, Handlers DEF State
<1>4. call' = [call EXCEPT ![c] = h]
  BY <1>1
<1> HIDE DEF h
<1>5. Informed(h)
  BY <1>1, <1>3, Handlers DEF Informed
<1> QED
  BY <1>1, <1>3, <1>4, <1>5, ReadKeeps

LEMMA Chooses ==
  ASSUME PrimaryInv, NEW c \in Calls, ChooseRequest(c)
  PROVE  PrimaryInv'
<1>1. /\ call[c].step = "match" /\ UNCHANGED docs
      /\ \/ call' = [call EXCEPT ![c] = Idle]
         \/ \E r \in Requests :
              /\ request[r].status \in AdminActionable
              /\ call' = [call EXCEPT ![c] = [call[c] EXCEPT !.step = "confirm", !.req = r]]
  BY DEF ChooseRequest, Continue
<1>2. ASSUME NEW r \in Requests, request[r].status \in AdminActionable,
             call' = [call EXCEPT ![c] = [call[c] EXCEPT !.step = "confirm", !.req = r]]
      PROVE  PrimaryInv'
  <2> DEFINE h == [call[c] EXCEPT !.step = "confirm", !.req = r]
  <2>1. "confirm" \in Steps
    BY DEF Steps
  <2>2. /\ h \in State /\ h.step = "confirm" /\ h.req = r /\ h.tx = call[c].tx
        /\ h.todo = call[c].todo /\ h.on = call[c].on
    BY <2>1, Handlers DEF State
  <2>3. call' = [call EXCEPT ![c] = h]
    BY <1>2
  <2> HIDE DEF h
  <2>4. request[r].status # "none" /\ request[r].submitted
    BY <1>2 DEF PrimaryInv, Documents, AdminActionable
  <2>5. Informed(h)
    BY <1>1, <2>2, <2>4, Handlers DEF Informed
  <2> QED
    BY <1>1, <2>2, <2>3, <2>5, ReadKeeps
<1> QED
  BY <1>1, <1>2, IdleIsInformed, ReadKeeps

-----------------------------------------------------------------------------
(* Steps of a handler that write.                                          *)

LEMMA WriteThenKnows ==
  ASSUME PrimaryInv, DocumentsKeep, NEW c \in Calls, NEW h \in State,
         call' = [call EXCEPT ![c] = h], Informed(h), h.step # "contract",
         \A x \in Investments : contract[x].status = "none" => contract'[x].status = "none"
  PROVE  PrimaryInv'
<1>1. Informed(h)'
  BY InformedStays DEF PrimaryInv, DocumentsKeep
<1> QED
  BY <1>1, WriteKeeps

\* A handler that ends, or goes on at a step that needs to know no more.
SameNeeds(from, to) ==
  \/ from = "link" /\ to = "close"
  \/ from = "kycApprove" /\ to = "activate"
  \/ from = "cancel" /\ to = "cancelRead"
  \/ from = "confirm" /\ to = "credit"
  \/ from = "activateInvestment" /\ to = "readOwned"
  \/ from = "reopenTx" /\ to = "match"

LEMMA GoesOn ==
  ASSUME PrimaryInv, NEW c \in Calls, NEW to, SameNeeds(call[c].step, to)
  PROVE  LET h == [call[c] EXCEPT !.step = to]
         IN h \in State /\ Informed(h) /\ h.step # "contract"
<1> DEFINE h == [call[c] EXCEPT !.step = to]
<1>1. to \in Steps /\ to # "contract"
  BY DEF Steps, SameNeeds
<1>2. /\ h \in State /\ h.step = to /\ h.inv = call[c].inv /\ h.tx = call[c].tx
      /\ h.todo = call[c].todo /\ h.on = call[c].on /\ h.req = call[c].req
  BY <1>1, AtStep, Handlers
<1> HIDE DEF h
<1>3. Informed(h)
  BY <1>2, Handlers DEF SameNeeds, Informed
<1> QED
  BY <1>1, <1>2, <1>3 DEF h

LEMMA WriteGoesOn ==
  ASSUME PrimaryInv, DocumentsKeep, NEW c \in Calls, NEW to,
         \/ call' = [call EXCEPT ![c] = Idle]
         \/ /\ SameNeeds(call[c].step, to)
            /\ call' = [call EXCEPT ![c] = [call[c] EXCEPT !.step = to]],
         \A x \in Investments : contract[x].status = "none" => contract'[x].status = "none"
  PROVE  PrimaryInv'
BY IdleIsInformed, GoesOn, WriteThenKnows

LEMMA IntentWrites ==
  ASSUME PrimaryInv, NEW c \in Calls, CloseIntent(c) \/ RejectIntentWrite(c)
  PROVE  PrimaryInv'
<1>1. /\ call' = [call EXCEPT ![c] = Idle]
      /\ UNCHANGED <<kyc, verified, legalVars, request, credits, tx>>
      /\ \E status \in {"converted", "rejected"} :
           intent' = [intent EXCEPT ![call[c].on] = status]
  BY DEF CloseIntent, RejectIntentWrite, DecideIntent, Continue, moneyVars
<1>2. intent' \in [Intents -> {"submitted", "converted", "rejected"}]
  BY <1>1 DEF PrimaryInv, TypedDocuments
<1>3. tx' \in [Txs -> [status : {"none", "unmatched", "reconciled", "rejected"},
                      request : Requests \cup {None}]]
  BY <1>1 DEF PrimaryInv, TypedDocuments
<1>4. DocumentsKeep
  BY <1>1, <1>2, <1>3, SideWrite
<1> QED
  BY <1>1, <1>4, WriteGoesOn DEF legalVars

LEMMA KycWrites ==
  ASSUME PrimaryInv, NEW c \in Calls, KycWrite(c)
  PROVE  PrimaryInv'
<1>1. PICK status \in {"draft", "submitted", "approved", "rejected"} :
        /\ \/ call' = [call EXCEPT ![c] = Idle]
           \/ /\ SameNeeds(call[c].step, "activate")
              /\ call' = [call EXCEPT ![c] = [call[c] EXCEPT !.step = "activate"]]
        /\ kyc' = [kyc EXCEPT ![call[c].on] = status]
        /\ verified' = IF status = "approved" THEN verified \cup {call[c].on} ELSE verified
        /\ UNCHANGED <<intent, legalVars, moneyVars>>
        /\ call[c].step \in KycSteps
  BY DEF KycWrite, WriteKyc, Continue, SameNeeds, KycSteps
<1>2. call[c].on \in Investors
  BY <1>1, Handlers DEF Informed
<1> USE DEF PrimaryInv, legalVars, moneyVars
<1>3. /\ verified' \in SUBSET Investors /\ verified \subseteq verified'
      /\ kyc' \in [Investors -> {"draft", "submitted", "approved", "rejected"}]
  BY <1>1, <1>2 DEF TypedDocuments
<1>4. TypedDocuments' /\ Grows
  BY <1>1, <1>3 DEF TypedDocuments, Grows
<1>5. \A p \in Investors : kyc'[p] = "approved" => p \in verified'
  BY <1>1, <1>2 DEF TypedDocuments, Documents
<1>6. Documents' /\ ActivationIsEarned'
  BY <1>1, <1>3, <1>5 DEF Documents, Payable, ActivationIsEarned, InvestorOf
<1>7. DocumentsKeep
  BY <1>4, <1>6 DEF DocumentsKeep
<1> QED
  BY <1>1, <1>7, WriteGoesOn

\* Investments: the link to a contract, the gates and a cancellation.
Statuses == {"none", "kyc_pending", "contract_pending", "awaiting_payment", "active", "cancelled"}

LEMMA StatusWrite ==
  ASSUME PrimaryInv, NEW x \in Investments, investment[x].status # "none",
         UNCHANGED <<peopleVars, contract, moneyVars, bookVars>>,
         \/ investment' = [investment EXCEPT ![x].linked = TRUE]
         \/ \E status \in {"contract_pending", "awaiting_payment", "cancelled"} :
              investment' = [investment EXCEPT ![x].status = status]
  PROVE  DocumentsKeep
<1>1. investment[x] \in [status : Statuses, intent : Intents \cup {None}, linked : BOOLEAN]
  BY DEF PrimaryInv, TypedDocuments, Statuses
<1>2. CASE investment' = [investment EXCEPT ![x].linked = TRUE]
  <2> DEFINE doc == [investment[x] EXCEPT !.linked = TRUE]
  <2>1. /\ doc \in [status : Statuses, intent : Intents \cup {None}, linked : BOOLEAN]
        /\ doc.intent = investment[x].intent /\ doc.status = investment[x].status
    BY <1>1
  <2>2. investment' = [investment EXCEPT ![x] = doc]
    BY <1>2
  <2> HIDE DEF doc
  <2> QED
    BY <2>1, <2>2, InvestmentWrite DEF Statuses
<1>3. ASSUME NEW status \in {"contract_pending", "awaiting_payment", "cancelled"},
             investment' = [investment EXCEPT ![x].status = status]
      PROVE  DocumentsKeep
  <2> DEFINE doc == [investment[x] EXCEPT !.status = status]
  <2>1. /\ doc \in [status : Statuses, intent : Intents \cup {None}, linked : BOOLEAN]
        /\ doc.intent = investment[x].intent /\ doc.status = status
    BY <1>1 DEF Statuses
  <2>2. investment' = [investment EXCEPT ![x] = doc]
    BY <1>3
  <2> HIDE DEF doc
  <2> QED
    BY <2>1, <2>2, InvestmentWrite DEF Statuses
<1> QED
  BY <1>2, <1>3

LEMMA InvestmentWrites ==
  ASSUME PrimaryInv, NEW c \in Calls,
         LinkContract(c) \/ MoveToContract(c) \/ MarkAwaiting(c) \/ CancelInvestment(c)
  PROVE  PrimaryInv'
<1>1. CASE LinkContract(c)
  <2>1. call[c].inv \in Investments /\ investment[call[c].inv].status # "none"
    BY <1>1, Handlers DEF LinkContract, Informed
  <2>2. DocumentsKeep
    BY <1>1, <2>1, StatusWrite DEF LinkContract
  <2> QED
    BY <1>1, <2>2, WriteGoesOn DEF LinkContract, Goto, Continue, SameNeeds
<1>2. CASE MoveToContract(c)
  <2>1. PICK x \in call[c].todo :
          /\ call[c].step = "move"
          /\ call' = [call EXCEPT ![c] = NextOf(c, call[c].todo \ {x}, "move", "open")]
          /\ investment' = [investment EXCEPT ![x].status = "contract_pending"]
          /\ UNCHANGED <<peopleVars, contract, moneyVars, bookVars>>
    BY <1>2 DEF MoveToContract, Continue
  <2>2. /\ call[c].todo \subseteq Investments
        /\ \A y \in call[c].todo : investment[y].status # "none" /\ InvestorOf(y) = call[c].on
    BY Handlers DEF State, Informed
  <2>3. DocumentsKeep
    BY <2>1, <2>2, StatusWrite
  <2>4. LET h == NextOf(c, call[c].todo \ {x}, "move", "open")
        IN h \in State /\ Informed(h) /\ h.step # "contract"
    BY <2>1, <2>2, NextOfIs DEF HookSteps
  <2> QED
    BY <2>1, <2>3, <2>4, WriteThenKnows
<1>3. CASE MarkAwaiting(c)
  <2>1. call[c].inv \in call[c].todo /\ call[c].todo \subseteq Investments
    BY <1>3, Handlers DEF MarkAwaiting, Informed, State
  <2>2. investment[call[c].inv].status # "none"
    BY <2>1, Handlers DEF Informed
  <2>3. DocumentsKeep
    BY <1>3, <2>1, <2>2, StatusWrite DEF MarkAwaiting
  <2>4. PICK h \in State : /\ call' = [call EXCEPT ![c] = h]
                             /\ Informed(h) /\ h.step # "contract"
    BY <1>3, OpenNextIs DEF MarkAwaiting, OpenSteps
  <2> QED
    BY <1>3, <2>3, <2>4, WriteThenKnows DEF MarkAwaiting
<1>4. CASE CancelInvestment(c)
  <2>1. call[c].inv \in Investments /\ investment[call[c].inv].status # "none"
    BY <1>4, Handlers DEF CancelInvestment, Informed, ContractSteps, PrimaryInv, Documents
  <2>2. DocumentsKeep
    BY <1>4, <2>1, StatusWrite DEF CancelInvestment
  <2> QED
    BY <1>4, <2>2, WriteGoesOn DEF CancelInvestment, Continue
<1> QED
  BY <1>1, <1>2, <1>3, <1>4

LEMMA HookIsInformed ==
  ASSUME PrimaryInv, NEW x \in Investments, investment[x].status # "none"
  PROVE  HookFor(x) \in State /\ Informed(HookFor(x)) /\ HookFor(x).step # "contract"
<1> DEFINE h == HookFor(x)
<1>1. "activate" \in Steps /\ InvestorOf(x) \in Investors
  BY PrimaryConstants DEF Steps, InvestorOf, PrimaryInv, Documents
<1>2. /\ h \in State /\ h.step = "activate" /\ h.on = InvestorOf(x) /\ h.todo = {}
      /\ h.tx = None
  BY <1>1, IdleIsInformed DEF HookFor, State
<1> HIDE DEF h
<1>3. Informed(h)
  BY <1>1, <1>2 DEF Informed
<1> QED
  BY <1>2, <1>3 DEF h

LEMMA ContractWrites ==
  ASSUME PrimaryInv, NEW c \in Calls, NEW x \in Investments,
         (ContractWrite(c) /\ x = call[c].inv) \/ PublicSign(c, x)
  PROVE  PrimaryInv'
<1>1. PICK doc : /\ contract' = [contract EXCEPT ![x] = doc]
                 /\ UNCHANGED <<peopleVars, investment, moneyVars>>
                 /\ \/ doc = [contract[x] EXCEPT !.status = "viewed"]
                    \/ doc = [status |-> "signed", signed |-> TRUE]
                    \/ doc = [contract[x] EXCEPT !.status = "cancelled"]
                 /\ \/ call' = [call EXCEPT ![c] = Idle]
                    \/ call' = [call EXCEPT ![c] = HookFor(x)]
                    \/ /\ SameNeeds(call[c].step, "cancelRead")
                       /\ call' = [call EXCEPT ![c] = [call[c] EXCEPT !.step = "cancelRead"]]
                 /\ contract[x].status # "none"
  <2>1. CASE ContractWrite(c) /\ x = call[c].inv
    <3>1. contract[x].status # "none"
      BY <2>1, Handlers DEF ContractWrite, Informed, ContractSteps
    <3> QED
      BY <2>1, <3>1 DEF ContractWrite, WriteContract, Continue, SameNeeds
  <2>2. CASE PublicSign(c, x)
    BY <2>2 DEF PublicSign, Arrived, Signable
  <2> QED
    BY <2>1, <2>2
<1>2. investment[x].status # "none"
  BY <1>1 DEF PrimaryInv, Documents
<1>3. contract[x] \in [status : {"none", "sent", "viewed", "signed", "cancelled"},
                       signed : BOOLEAN]
  BY DEF PrimaryInv, TypedDocuments
<1>4. /\ doc \in [status : {"sent", "viewed", "signed", "cancelled"}, signed : BOOLEAN]
      /\ contract[x].signed => doc.signed
      /\ doc.status = "signed" => doc.signed
  <2>1. ASSUME NEW status \in {"viewed", "cancelled"}, doc = [contract[x] EXCEPT !.status = status]
        PROVE  /\ doc \in [status : {"sent", "viewed", "signed", "cancelled"}, signed : BOOLEAN]
               /\ doc.signed = contract[x].signed /\ doc.status # "signed"
    BY <1>3, <2>1
  <2>2. CASE doc = [status |-> "signed", signed |-> TRUE]
    BY <2>2
  <2> QED
    BY <1>1, <2>1, <2>2
<1>5. DocumentsKeep
  BY <1>1, <1>2, <1>4, ContractWritten
<1>6. \A y \in Investments : contract[y].status = "none" => contract'[y].status = "none"
  BY <1>1 DEF PrimaryInv, TypedDocuments
<1>7. CASE call' = [call EXCEPT ![c] = HookFor(x)]
  BY <1>2, <1>5, <1>6, <1>7, HookIsInformed, WriteThenKnows
<1> QED
  BY <1>1, <1>5, <1>6, <1>7, WriteGoesOn

\* A request that is written knows its investment.
LEMMA RequestIs ==
  ASSUME PrimaryInv, NEW r \in Requests, request[r].status # "none"
  PROVE  /\ request[r] \in [status : {"awaiting_payment", "paid", "under_review", "confirmed",
                                      "rejected"},
                            investment : Investments, proof : BOOLEAN, submitted : BOOLEAN]
         /\ request[r].investment \in Investments
         /\ investment[request[r].investment].status # "none"
         /\ Payable(request[r].investment)
<1>1. /\ request[r].investment \in Investments
      /\ investment[request[r].investment].status # "none"
      /\ Payable(request[r].investment)
  BY DEF PrimaryInv, Documents
<1>2. request[r] \in [status : {"none", "awaiting_payment", "paid", "under_review", "confirmed",
                                "rejected"},
                      investment : Investments \cup {None}, proof : BOOLEAN, submitted : BOOLEAN]
  BY DEF PrimaryInv, TypedDocuments
<1> QED
  BY <1>1, <1>2

LEMMA RequestWrites ==
  ASSUME PrimaryInv, NEW c \in Calls, RequestWrite(c) \/ ConfirmRequest(c)
  PROVE  PrimaryInv'
<1> DEFINE r == call[c].req
<1>1. PICK doc :
        /\ request' = [request EXCEPT ![r] = doc]
        /\ UNCHANGED <<peopleVars, legalVars, credits, tx>>
        /\ \/ doc = [request[r] EXCEPT !.proof = TRUE]
           \/ doc = [request[r] EXCEPT !.proof = FALSE]
           \/ doc = [request[r] EXCEPT !.status = "paid", !.submitted = TRUE]
           \/ /\ call[c].step \in ReviewSteps
              /\ \E status \in {"rejected", "under_review", "confirmed"} :
                   doc = [request[r] EXCEPT !.status = status]
        /\ \/ call' = [call EXCEPT ![c] = Idle]
           \/ /\ SameNeeds(call[c].step, "credit")
              /\ call' = [call EXCEPT ![c] = [call[c] EXCEPT !.step = "credit"]]
        /\ call[c].step \in ProofSteps \cup ReviewSteps
  <2>1. CASE RequestWrite(c)
    BY <2>1 DEF RequestWrite, WriteRequest, Continue, ProofSteps, ReviewSteps
  <2>2. CASE ConfirmRequest(c)
    <3> DEFINE doc == [request[r] EXCEPT !.status = "confirmed"]
    <3>1. request' = [request EXCEPT ![r] = doc]
      BY <2>2 DEF ConfirmRequest
    <3> QED
      BY <2>2, <3>1 DEF ConfirmRequest, Goto, Continue, SameNeeds, ReviewSteps
  <2> QED
    BY <2>1, <2>2
<1>2. r \in Requests /\ request[r].status # "none"
      /\ (call[c].step \in ReviewSteps => request[r].submitted)
  BY <1>1, Handlers DEF Informed
<1> HIDE DEF r
<1>3. /\ request[r] \in [status : {"awaiting_payment", "paid", "under_review", "confirmed",
                                   "rejected"},
                         investment : Investments, proof : BOOLEAN, submitted : BOOLEAN]
      /\ request[r].status \in AdminActionable => request[r].submitted
  BY <1>2, RequestIs DEF PrimaryInv, Documents
<1>4. /\ doc \in [status : {"awaiting_payment", "paid", "under_review", "confirmed", "rejected"},
                  investment : Investments, proof : BOOLEAN, submitted : BOOLEAN]
      /\ doc.investment = request[r].investment
      /\ request[r].submitted => doc.submitted
      /\ doc.status \in AdminActionable => doc.submitted
  BY <1>1, <1>2, <1>3
<1>5. investment[doc.investment].status # "none" /\ Payable(doc.investment)
  <2>1. investment[request[r].investment].status # "none" /\ Payable(request[r].investment)
    BY <1>2, RequestIs
  <2> QED
    BY <1>4, <2>1
<1>6. /\ request' = [request EXCEPT ![r] = doc]
      /\ UNCHANGED <<peopleVars, legalVars, credits, tx>>
  BY <1>1
<1>7. DocumentsKeep
  BY <1>2, <1>4, <1>5, <1>6, RequestWritten
<1> QED
  BY <1>1, <1>7, WriteGoesOn DEF legalVars

LEMMA RequestInserts ==
  ASSUME PrimaryInv, NEW c \in Calls, InsertRequest(c)
  PROVE  PrimaryInv'
<1> DEFINE x == call[c].inv
           h == [call[c] EXCEPT !.step = "openMark"]
<1>1. PICK r \in Requests :
        /\ request[r].status = "none"
        /\ call[c].step = "openInsert" /\ call' = [call EXCEPT ![c] = h]
        /\ request' = [request EXCEPT ![r].status = "awaiting_payment", ![r].investment = x]
        /\ UNCHANGED <<peopleVars, legalVars, credits, tx>>
  BY DEF InsertRequest, Goto, Continue
<1>2. /\ call[c] \in State /\ Informed(call[c])
      /\ x \in Investments /\ investment[x].status # "none"
  <2>1. x \in call[c].todo /\ call[c].todo \subseteq Investments
    BY <1>1, Handlers DEF Informed, State
  <2> QED
    BY <2>1, Handlers DEF Informed
<1>3. Payable(x)
  BY <1>1, <1>2 DEF Informed, Payable, OpenSteps
<1> HIDE DEF x
<1>4. request[r] \in [status : {"none", "awaiting_payment", "paid", "under_review", "confirmed",
                                "rejected"},
                      investment : Investments \cup {None}, proof : BOOLEAN, submitted : BOOLEAN]
  BY DEF PrimaryInv, TypedDocuments
<1> DEFINE doc == [request[r] EXCEPT !.status = "awaiting_payment", !.investment = x]
<1>5. /\ doc \in [status : {"awaiting_payment", "paid", "under_review", "confirmed", "rejected"},
                  investment : Investments, proof : BOOLEAN, submitted : BOOLEAN]
      /\ doc.investment = x /\ doc.submitted = request[r].submitted
      /\ doc.status = "awaiting_payment"
  BY <1>2, <1>4
<1>6. request' = [request EXCEPT ![r] = doc]
  BY <1>1
<1> HIDE DEF doc
<1>7. DocumentsKeep
  BY <1>1, <1>2, <1>3, <1>5, <1>6, RequestWritten DEF AdminActionable
<1>8. "openMark" \in Steps
  BY DEF Steps
<1>9. /\ h \in State /\ h.step = "openMark" /\ h.inv = call[c].inv /\ h.tx = call[c].tx
      /\ h.todo = call[c].todo /\ h.on = call[c].on
  BY <1>2, <1>8, AtStep
<1> HIDE DEF h
<1>10. Informed(h)
  BY <1>1, <1>2, <1>9 DEF Informed
<1> QED
  BY <1>1, <1>7, <1>9, <1>10, WriteThenKnows DEF legalVars

\* An approved intent becomes an investment, for which this handler alone
\* makes a contract.
LEMMA InvestmentInserts ==
  ASSUME PrimaryInv, NEW c \in Calls, InsertInvestment(c)
  PROVE  PrimaryInv'
<1>1. PICK x \in Investments, status \in {"kyc_pending", "contract_pending"} :
        /\ investment[x].status = "none" /\ call[c].step = "insert"
        /\ investment' = [investment EXCEPT ![x] =
             [status |-> status, intent |-> call[c].on, linked |-> FALSE]]
        /\ call' = [call EXCEPT ![c] = [call[c] EXCEPT !.step = "contract", !.inv = x, !.read = 0]]
        /\ UNCHANGED <<peopleVars, contract, moneyVars, bookVars>>
  BY DEF InsertInvestment, Continue
<1>2. call[c] \in State /\ Informed(call[c]) /\ call[c].on \in Intents
  BY <1>1, Handlers DEF Informed, IntentSteps
<1>3. "contract" \in Steps
  BY DEF Steps
<1>4. PICK h \in State : /\ h = [call[c] EXCEPT !.step = "contract", !.inv = x, !.read = 0]
                          /\ h.step = "contract" /\ h.inv = x /\ h.tx = call[c].tx
                          /\ h.todo = call[c].todo /\ h.on = call[c].on
  <2> DEFINE g == [call[c] EXCEPT !.step = "contract", !.inv = x, !.read = 0]
  <2>1. g \in State /\ g.step = "contract" /\ g.inv = x /\ g.tx = call[c].tx
        /\ g.todo = call[c].todo /\ g.on = call[c].on
    BY <1>2, <1>3 DEF State
  <2> QED
    BY <2>1, Zenon
<1>5. call' = [call EXCEPT ![c] = h]
  BY <1>1, <1>4
<1> USE DEF PrimaryInv, peopleVars, moneyVars
<1>6. /\ investment' \in [Investments -> [status : {"none", "kyc_pending", "contract_pending",
                            "awaiting_payment", "active", "cancelled"},
                            intent : Intents \cup {None}, linked : BOOLEAN]]
      /\ investment'[x].status \notin {"none", "active"} /\ investment'[x].intent \in Intents
      /\ \A y \in Investments : y # x => investment'[y] = investment[y]
  BY <1>1, <1>2 DEF TypedDocuments
<1>7. TypedDocuments' /\ Grows
  BY <1>1, <1>6 DEF TypedDocuments, Grows
<1>8. Documents' /\ ActivationIsEarned'
  <2>1. contract[x].status = "none" /\ \A r \in Requests :
          request[r].status # "none" => request[r].investment # x
    BY <1>1 DEF Documents
  <2>2. Documents'
    BY <1>1, <1>6, <2>1 DEF Documents, Payable, InvestorOf
  <2>3. ActivationIsEarned'
    BY <1>1, <1>6 DEF ActivationIsEarned, InvestorOf
  <2> QED
    BY <2>2, <2>3
<1>9. Informed(h)'
  <2>1. PICK g \in State : g = call[c]
    BY <1>2
  <2>2. Informed(g)'
    BY <1>2, <1>7, <2>1, InformedStays DEF Informed
  <2>3. \A y \in h.todo : (investment[y].status # "none" /\ InvestorOf(y) = h.on)'
    BY <1>4, <2>1, <2>2 DEF Informed
  <2>4. call[c].tx # None => call[c].tx \in Txs
    BY <1>2 DEF Informed
  <2>5. h.inv \in Investments /\ investment'[h.inv].status # "none" /\ h.on \in Intents
    BY <1>2, <1>4, <1>6
  <2> QED
    BY <1>4, <2>3, <2>4, <2>5 DEF Informed
<1>10. /\ contract'[h.inv].status = "none"
       /\ \A d \in Calls : call[d].step = "contract" => call[d].inv # h.inv
  BY <1>1, <1>4 DEF Documents, Informed
<1>11. \A y \in Investments : contract[y].status = "none" => contract'[y].status = "none"
  BY <1>1
<1> QED
  BY <1>4, <1>5, <1>7, <1>8, <1>9, <1>10, <1>11, StepKeeps

LEMMA ContractInserts ==
  ASSUME PrimaryInv, NEW c \in Calls, InsertContract(c)
  PROVE  PrimaryInv'
<1> DEFINE x == call[c].inv
           doc == [status |-> "sent", signed |-> FALSE]
<1>1. /\ call[c].step = "contract"
      /\ call' = [call EXCEPT ![c] = [call[c] EXCEPT !.step = "link"]]
      /\ contract' = [contract EXCEPT ![x] = doc]
      /\ UNCHANGED <<peopleVars, investment, moneyVars, bookVars>>
  BY DEF InsertContract, Goto, Continue
<1>2. call[c] \in State /\ Informed(call[c]) /\ MakesContract(c)
  BY DEF PrimaryInv
<1>3. /\ x \in Investments /\ investment[x].status # "none"
      /\ contract[x].status = "none" /\ ~contract[x].signed
  <2>1. x \in Investments /\ investment[x].status # "none" /\ contract[x].status = "none"
    BY <1>1, <1>2 DEF Informed, MakesContract
  <2> QED
    BY <2>1 DEF PrimaryInv, Documents
<1>4. /\ doc \in [status : {"sent", "viewed", "signed", "cancelled"}, signed : BOOLEAN]
      /\ doc.status = "sent"
  OBVIOUS
<1> HIDE DEF doc
<1>5. DocumentsKeep
  BY <1>1, <1>3, <1>4, ContractWritten
<1>6. "link" \in Steps
  BY DEF Steps
<1>7. PICK h \in State : /\ h = [call[c] EXCEPT !.step = "link"]
                          /\ h.step = "link" /\ h.inv = x /\ h.tx = call[c].tx
                          /\ h.todo = call[c].todo /\ h.on = call[c].on
  BY <1>2, <1>6, AtStep
<1>8. Informed(h)
  BY <1>1, <1>2, <1>7 DEF Informed
<1>9. Informed(h)'
  BY <1>5, <1>7, <1>8, InformedStays DEF PrimaryInv, DocumentsKeep
<1>10. \A y \in Investments : contract[y].status = "none" /\ contract'[y].status # "none"
                              => call[c].step = "contract" /\ call[c].inv = y
  BY <1>1 DEF PrimaryInv, TypedDocuments
<1> QED
  BY <1>1, <1>5, <1>7, <1>9, <1>10, StepKeeps DEF DocumentsKeep

\* The ledger, and the activation it pays for.
LEMMA Credits ==
  ASSUME PrimaryInv, NEW c \in Calls, LedgerAppend(c)
  PROVE  PrimaryInv'
<1> DEFINE r == call[c].req
<1>1. /\ call[c].step = "credit"
      /\ call' = [call EXCEPT ![c] = [call[c] EXCEPT !.step = "activateInvestment"]]
      /\ credits' = [credits EXCEPT ![r] = @ + 1]
      /\ UNCHANGED <<peopleVars, legalVars, request, tx, bookVars>>
  BY DEF LedgerAppend, Goto, Continue
<1>2. call[c] \in State /\ Informed(call[c])
  BY Handlers
<1>3. r \in Requests /\ request[r].status # "none" /\ request[r].submitted
  BY <1>1, <1>2 DEF Informed, ReviewSteps
<1> USE DEF PrimaryInv, peopleVars, legalVars
<1>4. /\ credits' \in [Requests -> Nat] /\ \A q \in Requests : credits'[q] >= credits[q]
      /\ credits'[r] > 0
  BY <1>1, <1>3 DEF TypedDocuments
<1>5. TypedDocuments' /\ Grows
  BY <1>1, <1>4 DEF TypedDocuments, Grows
<1>6. Documents'
  BY <1>1 DEF Documents, Payable, InvestorOf
<1>7. ActivationIsEarned'
  <2>1. \A q \in Requests : credits[q] > 0 => credits'[q] > 0
    BY <1>1, <1>4 DEF TypedDocuments
  <2> QED
    BY <1>1, <2>1 DEF ActivationIsEarned, InvestorOf
<1>8. "activateInvestment" \in Steps
  BY DEF Steps, PaidSteps
<1>9. PICK h \in State : /\ h = [call[c] EXCEPT !.step = "activateInvestment"]
                          /\ h.step = "activateInvestment" /\ h.req = r /\ h.tx = call[c].tx
                          /\ h.todo = call[c].todo /\ h.on = call[c].on
  <2> HIDE DEF PrimaryInv
  <2> QED
    BY <1>2, <1>8, AtStep
<1>10. Informed(h)'
  <2>1. PICK g \in State : g = call[c]
    BY <1>2
  <2>2. Informed(g)'
    BY <1>2, <1>5, <2>1, InformedStays DEF Informed
  <2>3. \A y \in h.todo : (investment[y].status # "none" /\ InvestorOf(y) = h.on)'
    BY <1>9, <2>1, <2>2 DEF Informed
  <2>4. call[c].tx # None => call[c].tx \in Txs
    BY <1>2 DEF Informed
  <2>5. h.req \in Requests /\ request'[h.req].status # "none" /\ request'[h.req].submitted
        /\ credits'[h.req] > 0
    BY <1>1, <1>3, <1>4, <1>9
  <2> QED
    BY <1>9, <2>3, <2>4, <2>5 DEF Informed
<1>11. DocumentsKeep
  BY <1>5, <1>6, <1>7 DEF DocumentsKeep
<1> QED
  BY <1>1, <1>9, <1>10, <1>11, WriteKeeps

LEMMA Activates ==
  ASSUME PrimaryInv, NEW c \in Calls, ActivateInvestment(c)
  PROVE  PrimaryInv'
<1> DEFINE r == call[c].req
           x == request[r].investment
<1>1. /\ call[c].step = "activateInvestment"
      /\ call' = [call EXCEPT ![c] = [call[c] EXCEPT !.step = "readOwned"]]
      /\ investment' = [investment EXCEPT ![x].status = "active"]
      /\ UNCHANGED <<peopleVars, contract, moneyVars, bookVars>>
  BY DEF ActivateInvestment, Goto, Continue
<1>2. /\ r \in Requests /\ request[r].status # "none" /\ request[r].submitted /\ credits[r] > 0
  BY <1>1, Handlers DEF Informed, PaidSteps
<1>3. /\ x \in Investments /\ investment[x].status # "none" /\ Payable(x)
  BY <1>2, RequestIs
<1> HIDE DEF r, x
<1> USE DEF PrimaryInv, peopleVars, moneyVars
<1>4. \A y \in Investments :
        /\ investment'[y].intent = investment[y].intent
        /\ investment[y].status # "none" <=> investment'[y].status # "none"
        /\ y # x => investment'[y] = investment[y]
  BY <1>1, <1>3 DEF TypedDocuments
<1>5. investment' \in [Investments -> [status : {"none", "kyc_pending", "contract_pending",
                         "awaiting_payment", "active", "cancelled"},
                         intent : Intents \cup {None}, linked : BOOLEAN]]
  <2>1. investment[x] \in [status : {"none", "kyc_pending", "contract_pending",
                              "awaiting_payment", "active", "cancelled"},
                           intent : Intents \cup {None}, linked : BOOLEAN]
    BY <1>3 DEF TypedDocuments
  <2>2. [investment[x] EXCEPT !.status = "active"] \in
          [status : {"none", "kyc_pending", "contract_pending", "awaiting_payment", "active",
                     "cancelled"}, intent : Intents \cup {None}, linked : BOOLEAN]
    BY <2>1
  <2> QED
    BY <1>1, <1>3, <2>2 DEF TypedDocuments
<1>6. TypedDocuments' /\ Grows
  BY <1>1, <1>4, <1>5 DEF TypedDocuments, Grows
<1>7. Documents'
  BY <1>1, <1>4 DEF Documents, Payable, InvestorOf
<1>8. ActivationIsEarned'
  <2> USE DEF x
  <2> SUFFICES ASSUME NEW y \in Investments, (investment[y].status = "active")'
               PROVE  (/\ contract[y].signed /\ InvestorOf(y) \in verified
                       /\ \E q \in Requests : /\ request[q].investment = y /\ request[q].submitted
                                              /\ credits[q] > 0)'
    BY DEF ActivationIsEarned
  <2>1. CASE y = x
    BY <1>1, <1>2, <1>3, <1>4, <2>1 DEF Payable, InvestorOf
  <2>2. CASE y # x
    BY <1>1, <1>4, <2>2 DEF ActivationIsEarned, InvestorOf
  <2> QED
    BY <2>1, <2>2
<1>9. DocumentsKeep
  BY <1>6, <1>7, <1>8 DEF DocumentsKeep
<1> QED
  BY <1>1, <1>9, WriteGoesOn DEF SameNeeds

LEMMA BookWrites ==
  ASSUME PrimaryInv, NEW c \in Calls, WriteOwned(c) \/ WriteRaised(c)
  PROVE  PrimaryInv'
<1>1. /\ call[c].step \in {"writeOwned", "writeRaised"}
      /\ \/ call' = [call EXCEPT ![c] = Idle]
         \/ \E step \in {"readRaised", "linkTx"} :
              /\ call' = [call EXCEPT ![c] = [call[c] EXCEPT !.step = step, !.read = 0]]
              /\ step = "linkTx" => call[c].tx # None
      /\ UNCHANGED <<peopleVars, legalVars, moneyVars>>
  <2>1. CASE WriteOwned(c)
    BY <2>1 DEF WriteOwned, Continue
  <2>2. CASE WriteRaised(c)
    BY <2>2 DEF WriteRaised, Continue
  <2> QED
    BY <2>1, <2>2
<1>2. DocumentsKeep
  <2>1. /\ intent' \in [Intents -> {"submitted", "converted", "rejected"}]
        /\ tx' \in [Txs -> [status : {"none", "unmatched", "reconciled", "rejected"},
                            request : Requests \cup {None}]]
    BY <1>1 DEF PrimaryInv, TypedDocuments, peopleVars, moneyVars
  <2> QED
    BY <1>1, <2>1, SideWrite DEF peopleVars, moneyVars
<1>3. ASSUME NEW step \in {"readRaised", "linkTx"},
             call' = [call EXCEPT ![c] = [call[c] EXCEPT !.step = step, !.read = 0]],
             step = "linkTx" => call[c].tx # None
      PROVE  PrimaryInv'
  <2> DEFINE h == [call[c] EXCEPT !.step = step, !.read = 0]
  <2>1. step \in Steps
    BY DEF Steps
  <2>2. /\ h \in State /\ h.step = step /\ h.req = call[c].req /\ h.tx = call[c].tx
        /\ h.todo = call[c].todo /\ h.on = call[c].on
    BY <2>1, Handlers DEF State
  <2>3. call' = [call EXCEPT ![c] = h]
    BY <1>3
  <2> HIDE DEF h
  <2>4. Informed(h)
    BY <1>1, <1>3, <2>2, Handlers DEF Informed
  <2> QED
    BY <1>1, <1>2, <2>2, <2>3, <2>4, WriteThenKnows DEF legalVars
<1> QED
  BY <1>1, <1>2, <1>3, WriteGoesOn DEF legalVars

LEMMA TxWrites ==
  ASSUME PrimaryInv, NEW c \in Calls, TxWrite(c)
  PROVE  PrimaryInv'
<1> DEFINE t == call[c].tx
<1>1. PICK doc :
        /\ tx' = [tx EXCEPT ![t] = doc]
        /\ \/ \E status \in {"unmatched", "rejected"} : doc = [tx[t] EXCEPT !.status = status]
           \/ /\ call[c].step = "linkTx"
              /\ doc = [status |-> "reconciled", request |-> call[c].req]
        /\ \/ call' = [call EXCEPT ![c] = Idle]
           \/ /\ SameNeeds(call[c].step, "match")
              /\ call' = [call EXCEPT ![c] = [call[c] EXCEPT !.step = "match"]]
        /\ UNCHANGED <<peopleVars, legalVars, request, credits, bookVars>>
        /\ call[c].step \in TxSteps
  BY DEF TxWrite, WriteTx, Continue, SameNeeds, TxSteps
<1>2. t \in Txs
  BY <1>1, Handlers DEF Informed
<1>3. call[c].step = "linkTx" => call[c].req \in Requests
  BY Handlers DEF Informed, PaidSteps
<1> HIDE DEF t
<1>4. tx[t] \in [status : {"none", "unmatched", "reconciled", "rejected"},
                 request : Requests \cup {None}]
  BY <1>2 DEF PrimaryInv, TypedDocuments
<1>5. doc \in [status : {"none", "unmatched", "reconciled", "rejected"},
               request : Requests \cup {None}]
  BY <1>1, <1>3, <1>4
<1>6. /\ intent' \in [Intents -> {"submitted", "converted", "rejected"}]
      /\ tx' \in [Txs -> [status : {"none", "unmatched", "reconciled", "rejected"},
                          request : Requests \cup {None}]]
  BY <1>1, <1>5 DEF PrimaryInv, TypedDocuments, peopleVars
<1>7. DocumentsKeep
  BY <1>1, <1>6, SideWrite DEF peopleVars
<1> QED
  BY <1>1, <1>7, WriteGoesOn DEF legalVars

LEMMA TxIngests ==
  ASSUME PrimaryInv, NEW c \in Calls, NEW t \in Txs, IngestTx(c, t)
  PROVE  PrimaryInv'
<1> DEFINE h == [Idle EXCEPT !.step = "match", !.tx = t]
<1>1. /\ call' = [call EXCEPT ![c] = h]
      /\ tx' = [tx EXCEPT ![t].status = "unmatched"]
      /\ UNCHANGED <<peopleVars, legalVars, request, credits, bookVars>>
  BY DEF IngestTx, Arrived
<1>2. "match" \in Steps
  BY DEF Steps
<1>3. h \in State /\ h.step = "match" /\ h.tx = t /\ h.todo = {}
  BY <1>2, IdleIsInformed DEF State
<1> HIDE DEF h
<1>4. Informed(h)
  BY <1>3 DEF Informed
<1>5. intent' \in [Intents -> {"submitted", "converted", "rejected"}]
  BY <1>1 DEF PrimaryInv, TypedDocuments, peopleVars
<1>6. tx' \in [Txs -> [status : {"none", "unmatched", "reconciled", "rejected"},
                       request : Requests \cup {None}]]
  BY <1>1 DEF PrimaryInv, TypedDocuments
<1>7. DocumentsKeep
  BY <1>1, <1>5, <1>6, SideWrite DEF peopleVars
<1> QED
  BY <1>1, <1>3, <1>4, <1>7, WriteThenKnows DEF legalVars

-----------------------------------------------------------------------------
(* The process starts again: it makes the contracts that are missing.      *)

LEMMA Restarts == PrimaryInv /\ Restart => PrimaryInv'
<1> SUFFICES ASSUME PrimaryInv, Restart PROVE PrimaryInv'
  OBVIOUS
<1> USE DEF PrimaryInv, peopleVars, moneyVars
<1>1. /\ call' = [c \in Calls |-> Idle]
      /\ investment' = [x \in Investments |->
           IF x \in Unmade THEN [investment[x] EXCEPT !.linked = TRUE] ELSE investment[x]]
      /\ contract' = [x \in Investments |->
           IF x \in Unmade THEN [contract[x] EXCEPT !.status = "sent"] ELSE contract[x]]
      /\ UNCHANGED <<peopleVars, moneyVars>>
  BY DEF Restart, Startup, Backfill
<1>2. \A x \in Investments :
        /\ investment[x] \in [status : Statuses, intent : Intents \cup {None}, linked : BOOLEAN]
        /\ contract[x] \in [status : {"none", "sent", "viewed", "signed", "cancelled"},
                            signed : BOOLEAN]
  BY DEF TypedDocuments, Statuses
<1>3. \A x \in Investments :
        /\ investment'[x] \in [status : Statuses, intent : Intents \cup {None}, linked : BOOLEAN]
        /\ investment'[x].status = investment[x].status
        /\ investment'[x].intent = investment[x].intent
  BY <1>1, <1>2
<1>4. \A x \in Investments :
        /\ contract'[x] \in [status : {"none", "sent", "viewed", "signed", "cancelled"},
                             signed : BOOLEAN]
        /\ contract'[x].signed = contract[x].signed
        /\ IF x \in Unmade THEN contract'[x].status = "sent" /\ investment[x].status # "none"
                           ELSE contract'[x].status = contract[x].status
        /\ x \in Unmade => contract[x].status = "none"
  BY <1>1, <1>2 DEF Unmade
<1>5. /\ investment' \in [Investments ->
           [status : Statuses, intent : Intents \cup {None}, linked : BOOLEAN]]
      /\ contract' \in [Investments -> [status : {"none", "sent", "viewed", "signed", "cancelled"},
                                        signed : BOOLEAN]]
  BY <1>1, <1>3, <1>4
<1>6. TypedDocuments'
  BY <1>1, <1>5 DEF TypedDocuments, Statuses
<1>7. Documents'
  BY <1>1, <1>3, <1>4 DEF Documents, Payable, InvestorOf
<1>8. ActivationIsEarned'
  BY <1>1, <1>3, <1>4 DEF ActivationIsEarned, InvestorOf
<1>9. /\ call' \in [Calls -> State]
      /\ \A c \in Calls : call'[c] = Idle
  BY <1>1, IdleIsInformed
<1>10. \A c \in Calls : Informed(call[c])' /\ MakesContract(c)'
  <2>1. TypedDocuments' /\ Grows
    BY <1>1, <1>3, <1>4, <1>6 DEF TypedDocuments, Grows
  <2>2. PICK h \in State : h = Idle /\ Informed(h) /\ h.step = "idle"
    BY IdleIsInformed
  <2>3. Informed(h)'
    BY <2>1, <2>2, InformedStays
  <2> QED
    BY <1>9, <2>2, <2>3 DEF MakesContract, Informed
<1> QED
  BY <1>6, <1>7, <1>8, <1>9, <1>10

-----------------------------------------------------------------------------
LEMMA Arrivals ==
  ASSUME PrimaryInv, NEW c \in Calls, Arrive(c)
  PROVE  PrimaryInv'
BY IntentArrives, KycArrives, ContractArrives, ContractWrites, RequestArrives, TxArrives,
   TxIngests DEF Arrive

LEMMA Handlings ==
  ASSUME PrimaryInv, NEW c \in Calls, Handler(c)
  PROVE  PrimaryInv'
<1>1. CASE ContractWrite(c)
  <2>1. call[c].inv \in Investments
    BY <1>1, Handlers DEF ContractWrite, Informed, ContractSteps
  <2> QED
    BY <1>1, <2>1, ContractWrites
<1> QED
  BY <1>1, ApproveReads, InvestmentInserts, ContractInserts, InvestmentWrites, IntentWrites,
     KycWrites, GateReads, ActivateFinds, OpenFinds, OpenReads, RequestInserts, CancelReads,
     RequestWrites, Credits, Activates, SumReads, BookWrites, Chooses, TxWrites
  DEF Handler

LEMMA StepPrimaryInv == PrimaryInv /\ [Next]_vars => PrimaryInv'
<1>1. PrimaryInv /\ Next => PrimaryInv'
  BY Arrivals, Handlings, Restarts DEF Next
<1>2. PrimaryInv /\ UNCHANGED vars => PrimaryInv'
  <2> SUFFICES ASSUME PrimaryInv, UNCHANGED vars PROVE PrimaryInv'
    OBVIOUS
  <2> USE DEF vars, docs, peopleVars, legalVars, moneyVars, bookVars, PrimaryInv
  <2>1. TypedDocuments' /\ Documents' /\ ActivationIsEarned' /\ call' \in [Calls -> State]
    BY DEF TypedDocuments, Documents, Payable, ActivationIsEarned, InvestorOf
  <2>2. \A c \in Calls : Informed(call[c])' /\ MakesContract(c)'
    BY DEF Informed, MakesContract, InvestorOf
  <2> QED
    BY <2>1, <2>2
<1> QED
  BY <1>1, <1>2

\* Whatever overlaps or dies, an investment that is active was signed, its
\* investor verified and a request for it submitted and credited:
\* confirm_payment_request (lumen_payments.py) writes "active" on the strength
\* of a status it read several awaits before.
THEOREM InvestmentsAreEarned == Spec => []ActivationIsEarned
<1>1. PrimaryInv => ActivationIsEarned
  BY DEF PrimaryInv
<1> QED
  BY <1>1, InitPrimaryInv, StepPrimaryInv, PTL DEF Spec

-----------------------------------------------------------------------------
(* The books of calls that come one after the other.  One handler h is     *)
(* under way, or none; each part says what the documents are like at each  *)
(* of its awaits.                                                          *)

Pending == {"kyc_pending", "contract_pending"}
Payers == {"awaiting_payment", "active"}
Exists(r) == request[r].status # "none"
Subject(h) == InvestorOf(request[h.req].investment)

\* What h knows of the investments it moves.
NarrowSteps == {"openSigned", "openExisting", "openInsert", "openMark"}

Moves(h) ==
  /\ h.step = "move" => \A x \in h.todo : investment[x].status = "kyc_pending"
  /\ h.step \in NarrowSteps => \A x \in h.todo : investment[x].status \in Pending
  /\ h.step = "cancelInvestment" => investment[h.inv].status \in Pending

\* The sum raised is right, or about to be recomputed.
RecomputeSteps == {"readOwned", "writeOwned", "readRaised", "writeRaised"}

Raised(h) ==
  /\ h.step \in RecomputeSteps \/ raised = ActiveTotal
  /\ h.step = "writeRaised" => h.read = ActiveTotal

\* Every intent that was approved is one investment.
PlacingSteps == {"contract", "link", "close"}

Placed(h) ==
  /\ \A x, y \in Investments :
       investment[x].intent = investment[y].intent /\ investment[x].intent # None => x = y
  /\ \A x \in Investments :
       investment[x].intent # None =>
         /\ investment[x].status # "none"
         /\ \/ intent[investment[x].intent] = "converted"
            \/ h.step \in PlacingSteps /\ h.inv = x /\ h.on = investment[x].intent
  /\ \A i \in Intents : intent[i] = "converted" => \E x \in Investments : investment[x].intent = i
  /\ h.step \in IntentSteps => intent[h.on] = "submitted"
  /\ h.step \in PlacingSteps => investment[h.inv].intent = h.on

\* A contract is signed or cancelled for good, and the investment goes with it.
Contracted(h) ==
  /\ \A x \in Investments :
       /\ contract[x].signed => contract[x].status = "signed"
       /\ investment[x].status = "cancelled" => contract[x].status = "cancelled"
       /\ contract[x].status # "none" => investment[x].linked \/ (h.step = "link" /\ h.inv = x)
  /\ h.step = "view" => contract[h.inv].status = "sent"
  /\ h.step = "sign" => contract[h.inv].status \in Signable
  /\ h.step = "cancel" => contract[h.inv].status \in Cancellable
  /\ h.step \in {"cancelRead", "cancelInvestment"} => contract[h.inv].status = "cancelled"

\* One request for an investment, confirmed and credited once, with which the
\* investment becomes active.
ActivatingSteps == {"credit", "activateInvestment"}

Requested(h) ==
  /\ \A q, r \in Requests :
       Exists(q) /\ Exists(r) /\ request[q].investment = request[r].investment => q = r
  /\ \A r \in Requests :
       /\ credits[r] = (IF request[r].status = "confirmed" /\ ~(h.step = "credit" /\ h.req = r)
                        THEN 1 ELSE 0)
       /\ ~Exists(r) => request[r].investment = None
       /\ Exists(r) =>
            LET x == request[r].investment
            IN /\ investment[x].status \in Payers \/ (h.step = "openMark" /\ h.inv = x)
               /\ (investment[x].status = "active") =
                    (request[r].status = "confirmed" /\ ~(h.step \in ActivatingSteps /\ h.req = r))
  /\ h.step \in ProofSteps => request[h.req].status \in InvestorSubmittable
  /\ h.step \in {"reject", "clarify", "confirm"} => request[h.req].status \in AdminActionable
  /\ h.step \in {"credit"} \cup PaidSteps => request[h.req].status = "confirmed"

\* Owners have the units of their active investments.
OwningSteps == {"readOwned", "writeOwned"}

Owns(h) ==
  /\ ownership \in [Investors -> Nat \cup {None}]
  /\ \A p \in Investors :
       \/ ownership[p] = (IF Active(p) = {} THEN None ELSE Owned(p))
       \/ h.step \in OwningSteps /\ p = Subject(h)
  /\ h.step = "writeOwned" => h.read = Owned(Subject(h))

\* A request is paid by one transaction.
Matched(h) ==
  /\ \A t \in Txs : tx[t].status = "reconciled" =>
       /\ tx[t].request \in Requests /\ request[tx[t].request].status = "confirmed"
       /\ \A u \in Txs : tx[u].status = "reconciled" /\ t # u => tx[u].request # tx[t].request
  /\ h.step \in {"credit"} \cup PaidSteps =>
       \A t \in Txs : tx[t].status = "reconciled" => tx[t].request # h.req

\* Whoever is verified and has signed has a request to pay, or the hook will
\* come to it.
Waits(x) ==
  /\ contract[x].status = "signed" /\ kyc[InvestorOf(x)] = "approved"
  /\ investment[x].status \notin Payers

Served(h) ==
  \A x \in Investments :
    Waits(x) => /\ h.step \in HookSteps /\ h.on = InvestorOf(x)
                /\ h.step \in NarrowSteps => x \in h.todo

Kept(h) ==
  Placed(h) /\ Contracted(h) /\ Requested(h) /\ Owns(h) /\ Matched(h) /\ Served(h)

\* A restart leaves the sum raised right, and the rest as it finds it.
Books(h) == Moves(h) /\ Raised(h) /\ (deaths = 0 => Kept(h))

\* h is the handler under way, Idle when none is.
UnderWay(h) ==
  IF Quiet THEN h = Idle
  ELSE \E c \in Calls : call[c] = h /\ \A d \in Calls \ {c} : call[d] = Idle

BooksInv ==
  /\ overlaps \in Nat /\ deaths \in Nat
  /\ overlaps = 0 => \E h \in State : UnderWay(h) /\ Books(h)

USE DEF Pending, Payers, NarrowSteps, RecomputeSteps, PlacingSteps, ActivatingSteps, OwningSteps

-----------------------------------------------------------------------------
(* What a step leaves alone stays true of the handler it leads to.         *)

SameTotals ==
  /\ ActiveTotal' = ActiveTotal
  /\ \A p \in Investors : Active(p)' = Active(p) /\ Owned(p)' = Owned(p)

\* Sums of active investments, while the same ones are active.
LEMMA TotalsStay ==
  ASSUME PrimaryInv, PrimaryInv',
         \A x \in Investments :
           /\ (investment'[x].status = "active") = (investment[x].status = "active")
           /\ investment[x].status = "active" => investment'[x].intent = investment[x].intent
  PROVE  SameTotals
<1> DEFINE A == {x \in Investments : investment[x].status = "active"}
           B == {x \in Investments : investment'[x].status = "active"}
<1>1. B = A
  OBVIOUS
<1>2. \A x \in A : Invested'[x] = Invested[x]
  BY DEF Invested
<1>3. \A X \in SUBSET A : Total(Invested', X) = Total(Invested, X)
  <2> SUFFICES ASSUME NEW X \in SUBSET A PROVE Total(Invested', X) = Total(Invested, X)
    OBVIOUS
  <2>1. IsFiniteSet(X)
    BY FS_Subset, PrimaryConstants
  <2>2. PICK f : f = Invested
    OBVIOUS
  <2>3. PICK g : g = Invested'
    OBVIOUS
  <2>4. \A x \in X : f[x] = g[x]
    BY <1>2, <2>2, <2>3
  <2>5. SumOver(f, X) = SumOver(g, X)
    BY <2>1, <2>4, SumAgree
  <2> QED
    BY <2>2, <2>3, <2>5 DEF Total, SumOver
<1>4. ActiveTotal' = ActiveTotal
  BY <1>1, <1>3 DEF ActiveTotal
<1>5. ASSUME NEW p \in Investors
      PROVE  Active(p)' = Active(p) /\ Owned(p)' = Owned(p)
  <2>1. Active(p)' = Active(p)
    BY DEF Active, InvestorOf
  <2>2. Active(p) \in SUBSET A
    BY DEF Active
  <2> QED
    BY <1>3, <2>1, <2>2 DEF Owned
<1> QED
  BY <1>4, <1>5 DEF SameTotals

LEMMA MovesStays ==
  ASSUME NEW g, g.step \notin {"move", "cancelInvestment"} \cup NarrowSteps
  PROVE  Moves(g)'
BY DEF Moves

LEMMA RaisedStays ==
  ASSUME NEW h, NEW g, Raised(h), SameTotals, raised' = raised,
         h.step \notin RecomputeSteps, g.step # "writeRaised"
  PROVE  Raised(g)'
BY DEF Raised, SameTotals

LEMMA PlacedStays ==
  ASSUME NEW h, NEW g, Placed(h), UNCHANGED <<intent, investment>>,
         h.step \notin PlacingSteps, g.step \notin IntentSteps
  PROVE  Placed(g)'
BY DEF Placed

LEMMA ContractedStays ==
  ASSUME NEW h, NEW g, Contracted(h), UNCHANGED <<contract, investment>>,
         h.step # "link",
         g.step \notin {"view", "sign", "cancel", "cancelRead", "cancelInvestment"}
  PROVE  Contracted(g)'
BY DEF Contracted

LEMMA RequestedStays ==
  ASSUME NEW h, NEW g, Requested(h), UNCHANGED <<request, credits, investment>>,
         h.step \notin ActivatingSteps \cup {"openMark"},
         g.step \notin ProofSteps \cup ReviewSteps \cup PaidSteps
  PROVE  Requested(g)'
BY DEF Requested, Exists

LEMMA OwnsStays ==
  ASSUME NEW h, NEW g, Owns(h), SameTotals, ownership' = ownership,
         h.step \notin OwningSteps, g.step # "writeOwned"
  PROVE  Owns(g)'
BY DEF Owns, SameTotals

LEMMA MatchedStays ==
  ASSUME NEW h, NEW g, Matched(h), UNCHANGED <<request, tx>>,
         g.step \notin {"credit"} \cup PaidSteps
  PROVE  Matched(g)'
BY DEF Matched

LEMMA ServedStays ==
  ASSUME NEW h, NEW g, Served(h), UNCHANGED <<contract, kyc, investment>>,
         h.step \in HookSteps =>
           /\ g.step \in HookSteps /\ g.on = h.on
           /\ h.step \in NarrowSteps \/ g.step \notin NarrowSteps
           /\ h.step \in NarrowSteps => g.todo = h.todo
  PROVE  Served(g)'
BY DEF Served, Waits, InvestorOf

-----------------------------------------------------------------------------
(* Requests that arrive while nobody is under way.                         *)

At(c, h) == h \in State /\ call[c] = h /\ Informed(h) /\ Books(h)

Leads(c) == \E g \in State : call' = [call EXCEPT ![c] = g] /\ Books(g)'

LEMMA ItLeads ==
  ASSUME PrimaryInv, PrimaryInv', deaths' = deaths, NEW c \in Calls, NEW h, At(c, h), NEW g,
         call' = [call EXCEPT ![c] = g], Moves(g)', Raised(g)', Kept(h) => Kept(g)'
  PROVE  Leads(c)
<1>1. g \in State
  BY DEF PrimaryInv
<1>2. Books(g)'
  BY DEF At, Books
<1> QED
  BY <1>1, <1>2 DEF Leads

LEMMA DocsStay ==
  ASSUME PrimaryInv, PrimaryInv', UNCHANGED docs
  PROVE  /\ UNCHANGED <<intent, kyc, verified, investment, contract, request, credits, tx>>
         /\ UNCHANGED <<ownership, raised>>
         /\ SameTotals
<1>1. UNCHANGED <<intent, kyc, verified, investment, contract, request, credits, tx>>
  BY DEF docs, peopleVars, legalVars, moneyVars
<1>2. UNCHANGED <<ownership, raised>>
  BY DEF docs, bookVars
<1>3. SameTotals
  BY <1>1, TotalsStay
<1> QED
  BY <1>1, <1>2, <1>3

LEMMA BeginLeads ==
  ASSUME PrimaryInv, PrimaryInv', NEW c \in Calls, At(c, Idle), NEW g, Begin(c, g),
         g.step \in {"approveKyc", "rejectIntent"} \cup KycSteps \cup {"view", "sign", "cancel"}
                      \cup ProofSteps \cup {"reject", "clarify", "confirm"}
                      \cup {"match", "reopenTx", "rejectTx"},
         g.step \in IntentSteps => intent[g.on] = "submitted",
         g.step = "view" => contract[g.inv].status = "sent",
         g.step = "sign" => contract[g.inv].status \in Signable,
         g.step = "cancel" => contract[g.inv].status \in Cancellable,
         g.step \in ProofSteps => request[g.req].status \in InvestorSubmittable,
         g.step \in {"reject", "clarify", "confirm"} => request[g.req].status \in AdminActionable
  PROVE  Leads(c)
<1>1. UNCHANGED docs /\ deaths' = deaths /\ call' = [call EXCEPT ![c] = g]
  BY DEF Begin, Arrived
<1>2. Idle.step = "idle"
  BY DEF Idle
<1>3. UNCHANGED <<intent, kyc, investment, contract, request, credits, tx, ownership, raised>>
      /\ SameTotals
  BY <1>1, DocsStay
<1>4. Moves(g)'
  BY MovesStays
<1>5. Raised(g)'
  BY <1>2, <1>3, RaisedStays DEF At, Books
<1>6. ASSUME Kept(Idle) PROVE Kept(g)'
  <2>1. Placed(g)'
    BY <1>2, <1>3, <1>6 DEF Kept, Placed
  <2>2. Contracted(g)'
    BY <1>2, <1>3, <1>6 DEF Kept, Contracted
  <2>3. Requested(g)'
    BY <1>2, <1>3, <1>6 DEF Kept, Requested, Exists
  <2>4. Owns(g)'
    BY <1>2, <1>3, <1>6, OwnsStays DEF Kept
  <2>5. Matched(g)'
    BY <1>3, <1>6, MatchedStays DEF Kept
  <2>6. Served(g)'
    BY <1>2, <1>3, <1>6, ServedStays DEF Kept
  <2> QED
    BY <2>1, <2>2, <2>3, <2>4, <2>5, <2>6 DEF Kept
<1> QED
  BY <1>1, <1>4, <1>5, <1>6, ItLeads

LEMMA IntentBegins ==
  ASSUME PrimaryInv, PrimaryInv', NEW c \in Calls, At(c, Idle), NEW i \in Intents,
         ApproveIntent(c, i) \/ RejectIntent(c, i)
  PROVE  Leads(c)
<1>1. PICK step \in {"approveKyc", "rejectIntent"} :
        Begin(c, [Idle EXCEPT !.step = step, !.on = i]) /\ intent[i] = "submitted"
  BY DEF ApproveIntent, RejectIntent
<1>2. PICK g : g = [Idle EXCEPT !.step = step, !.on = i]
  OBVIOUS
<1>3. g.step = step /\ g.on = i
  BY <1>2 DEF Idle
<1> QED
  BY <1>1, <1>2, <1>3, BeginLeads

LEMMA KycBegins ==
  ASSUME PrimaryInv, PrimaryInv', NEW c \in Calls, At(c, Idle), NEW p \in Investors,
         EditProfile(c, p) \/ SubmitKyc(c, p) \/ DecideKyc(c, p)
  PROVE  Leads(c)
<1>1. PICK step \in KycSteps : Begin(c, [Idle EXCEPT !.step = step, !.on = p])
  BY DEF EditProfile, SubmitKyc, DecideKyc
<1>2. PICK g : g = [Idle EXCEPT !.step = step, !.on = p]
  OBVIOUS
<1>3. g.step = step
  BY <1>2 DEF Idle
<1> QED
  BY <1>1, <1>2, <1>3, BeginLeads

LEMMA ContractBegins ==
  ASSUME PrimaryInv, PrimaryInv', NEW c \in Calls, At(c, Idle), NEW x \in Investments,
         ViewContract(c, x) \/ SignContract(c, x) \/ CancelContract(c, x)
  PROVE  Leads(c)
<1>1. PICK step \in {"view", "sign", "cancel"} :
        /\ Begin(c, [Idle EXCEPT !.step = step, !.inv = x])
        /\ step = "view" => contract[x].status = "sent"
        /\ step = "sign" => contract[x].status \in Signable
        /\ step = "cancel" => contract[x].status \in Cancellable
  BY DEF ViewContract, SignContract, CancelContract
<1>2. PICK g : g = [Idle EXCEPT !.step = step, !.inv = x]
  OBVIOUS
<1>3. g.step = step /\ g.inv = x
  BY <1>2 DEF Idle
<1> QED
  BY <1>1, <1>2, <1>3, BeginLeads

LEMMA RequestBegins ==
  ASSUME PrimaryInv, PrimaryInv', NEW c \in Calls, At(c, Idle), NEW r \in Requests,
         \/ UploadProof(c, r) \/ DeleteProof(c, r) \/ SubmitPayment(c, r)
         \/ ConfirmPayment(c, r) \/ RejectPayment(c, r) \/ RequestClarification(c, r)
  PROVE  Leads(c)
<1>1. PICK step \in ProofSteps \cup {"reject", "clarify", "confirm"} :
        /\ Begin(c, [Idle EXCEPT !.step = step, !.req = r])
        /\ request[r].status \in (IF step \in ProofSteps THEN InvestorSubmittable
                                  ELSE AdminActionable)
  BY DEF UploadProof, DeleteProof, SubmitPayment, ConfirmPayment, RejectPayment,
         RequestClarification, OnRequest
<1>2. PICK g : g = [Idle EXCEPT !.step = step, !.req = r]
  OBVIOUS
<1>3. g.step = step /\ g.req = r
  BY <1>2 DEF Idle
<1> QED
  BY <1>1, <1>2, <1>3, BeginLeads

LEMMA TxBegins ==
  ASSUME PrimaryInv, PrimaryInv', NEW c \in Calls, At(c, Idle), NEW t \in Txs,
         RematchTx(c, t) \/ RejectTx(c, t)
  PROVE  Leads(c)
<1>1. PICK step \in {"match", "reopenTx", "rejectTx"} :
        Begin(c, [Idle EXCEPT !.step = step, !.tx = t])
  BY DEF RematchTx, RejectTx
<1>2. PICK g : g = [Idle EXCEPT !.step = step, !.tx = t]
  OBVIOUS
<1>3. g.step = step
  BY <1>2 DEF Idle
<1> QED
  BY <1>1, <1>2, <1>3, BeginLeads

\* Idle is at no await.
LEMMA TxIngestLeads ==
  ASSUME PrimaryInv, PrimaryInv', NEW c \in Calls, At(c, Idle), NEW t \in Txs, IngestTx(c, t)
  PROVE  Leads(c)
<1>1. PICK g : g = [Idle EXCEPT !.step = "match", !.tx = t]
  OBVIOUS
<1>2. g.step = "match" /\ Idle.step = "idle"
  BY <1>1 DEF Idle
<1>3. /\ call' = [call EXCEPT ![c] = g] /\ deaths' = deaths
      /\ tx' = [tx EXCEPT ![t].status = "unmatched"] /\ tx[t].status = "none"
      /\ UNCHANGED <<intent, kyc, investment, contract, request, credits, ownership, raised>>
  BY <1>1 DEF IngestTx, Arrived, peopleVars, legalVars, bookVars
<1>4. SameTotals
  BY <1>3, TotalsStay
<1>5. Moves(g)'
  BY <1>2, MovesStays
<1>6. Raised(g)'
  BY <1>2, <1>3, <1>4, RaisedStays DEF At, Books
<1>7. ASSUME Kept(Idle) PROVE Kept(g)'
  <2>1. Placed(g)'
    BY <1>2, <1>3, <1>7, PlacedStays DEF Kept
  <2>2. Contracted(g)'
    BY <1>2, <1>3, <1>7, ContractedStays DEF Kept
  <2>3. Requested(g)'
    BY <1>2, <1>3, <1>7, RequestedStays DEF Kept
  <2>4. Owns(g)'
    BY <1>2, <1>3, <1>4, <1>7, OwnsStays DEF Kept
  <2>5. Matched(g)'
    <3>1. \A u \in Txs : tx'[u] = IF u = t THEN [tx[t] EXCEPT !.status = "unmatched"] ELSE tx[u]
      BY <1>3 DEF PrimaryInv, TypedDocuments
    <3>2. \A u \in Txs : tx'[u].status = "reconciled" => u # t /\ tx'[u] = tx[u]
      BY <3>1 DEF PrimaryInv, TypedDocuments
    <3> QED
      BY <1>2, <1>3, <1>7, <3>2 DEF Kept, Matched
  <2>6. Served(g)'
    BY <1>2, <1>3, <1>7, ServedStays DEF Kept
  <2> QED
    BY <2>1, <2>2, <2>3, <2>4, <2>5, <2>6 DEF Kept
<1> QED
  BY <1>3, <1>5, <1>6, <1>7, ItLeads

-----------------------------------------------------------------------------
(* Steps that only read.                                                   *)

LEMMA ReadLeads ==
  ASSUME PrimaryInv, PrimaryInv', NEW c \in Calls, NEW h, At(c, h), NEW g,
         call' = [call EXCEPT ![c] = g], UNCHANGED <<docs, deaths>>,
         Moves(g), Raised(g), Kept(h) => Kept(g)
  PROVE  Leads(c)
<1>1. UNCHANGED <<intent, kyc, investment, contract, request, credits, tx, ownership, raised>>
      /\ SameTotals
  BY DocsStay
<1>2. Moves(g)'
  BY <1>1 DEF Moves
<1>3. Raised(g)'
  BY <1>1 DEF Raised, SameTotals
<1>4. ASSUME Kept(g) PROVE Kept(g)'
  <2>1. Placed(g)'
    BY <1>1, <1>4 DEF Kept, Placed
  <2>2. Contracted(g)'
    BY <1>1, <1>4 DEF Kept, Contracted
  <2>3. Requested(g)'
    BY <1>1, <1>4 DEF Kept, Requested, Exists
  <2>4. Owns(g)'
    <3>1. g.step = "writeOwned" => g.read = Owned(Subject(g)) /\ Subject(g) \in Investors
      <4>1. g \in State /\ Informed(g)'
        BY DEF PrimaryInv
      <4>2. g.step = "writeOwned" =>
              g.req \in Requests /\ request[g.req].investment \in Investments
              /\ investment[request[g.req].investment].intent \in Intents
        BY <1>1, <4>1 DEF Informed, PrimaryInv, Documents
      <4> QED
        BY <1>4, <4>2, PrimaryConstants DEF Kept, Owns, Subject, InvestorOf
    <3>2. Subject(g)' = Subject(g)
      BY <1>1 DEF Subject, InvestorOf
    <3> QED
      BY <1>1, <1>4, <3>1, <3>2 DEF Kept, Owns, SameTotals
  <2>5. Matched(g)'
    BY <1>1, <1>4 DEF Kept, Matched
  <2>6. Served(g)'
    BY <1>1, <1>4 DEF Kept, Served, Waits, InvestorOf
  <2> QED
    BY <2>1, <2>2, <2>3, <2>4, <2>5, <2>6 DEF Kept
<1> QED
  BY <1>2, <1>3, <1>4, ItLeads

LEMMA ApproveReadLeads ==
  ASSUME PrimaryInv, PrimaryInv', NEW c \in Calls, NEW h, At(c, h), ApproveReadKyc(c),
         deaths' = deaths
  PROVE  Leads(c)
<1>1. /\ h.step = "approveKyc" /\ UNCHANGED docs
      /\ call' = [call EXCEPT ![c] = [h EXCEPT !.step = "insert",
                    !.read = IF kyc[Investor[h.on]] = "approved" THEN 1 ELSE 0]]
  BY DEF At, ApproveReadKyc, Continue
<1>2. PICK g : g = [h EXCEPT !.step = "insert",
                      !.read = IF kyc[Investor[h.on]] = "approved" THEN 1 ELSE 0]
  OBVIOUS
<1>3. g.step = "insert" /\ g.on = h.on
  BY <1>2 DEF At, State
<1>4. Moves(g)
  BY <1>3 DEF Moves
<1>5. Raised(g)
  BY <1>1, <1>3 DEF At, Books, Raised
<1>6. ASSUME Kept(h) PROVE Kept(g)
  <2>1. Placed(g)
    BY <1>1, <1>3, <1>6 DEF Kept, Placed
  <2>2. Contracted(g)
    BY <1>1, <1>3, <1>6 DEF Kept, Contracted
  <2>3. Requested(g)
    BY <1>1, <1>3, <1>6 DEF Kept, Requested
  <2>4. Owns(g)
    BY <1>1, <1>3, <1>6 DEF Kept, Owns
  <2>5. Matched(g)
    BY <1>1, <1>3, <1>6 DEF Kept, Matched
  <2>6. Served(g)
    BY <1>1, <1>3, <1>6 DEF Kept, Served
  <2> QED
    BY <2>1, <2>2, <2>3, <2>4, <2>5, <2>6 DEF Kept
<1> QED
  BY <1>1, <1>2, <1>4, <1>5, <1>6, ReadLeads

\* A hook that only reads owes what it still serves.
LEMMA HookLeads ==
  ASSUME PrimaryInv, PrimaryInv', NEW c \in Calls, NEW h, At(c, h), NEW g,
         call' = [call EXCEPT ![c] = g], UNCHANGED <<docs, deaths>>,
         h.step \in HookSteps \ {"openMark"}, g.step \in {"idle"} \cup (HookSteps \ {"openMark"}),
         Moves(g), Kept(h) => Served(g)
  PROVE  Leads(c)
<1>1. Raised(g)
  BY DEF At, Books, Raised
<1>2. ASSUME Kept(h) PROVE Kept(g)
  <2>1. Placed(g)
    BY <1>2 DEF Kept, Placed
  <2>2. Contracted(g)
    BY <1>2 DEF Kept, Contracted
  <2>3. Requested(g)
    BY <1>2 DEF Kept, Requested
  <2>4. Owns(g)
    BY <1>2 DEF Kept, Owns
  <2>5. Matched(g)
    BY <1>2 DEF Kept, Matched
  <2> QED
    BY <1>2, <2>1, <2>2, <2>3, <2>4, <2>5 DEF Kept
<1> QED
  BY <1>1, <1>2, ReadLeads

LEMMA GateLeads ==
  ASSUME PrimaryInv, PrimaryInv', NEW c \in Calls, NEW h, At(c, h),
         ActivateReadKyc(c) \/ OpenReadKyc(c), deaths' = deaths
  PROVE  Leads(c)
<1>1. CASE ActivateReadKyc(c)
  <2>1. PICK step \in {"activateFind", "open"} :
          /\ h.step = "activate" /\ UNCHANGED docs
          /\ call' = [call EXCEPT ![c] = [h EXCEPT !.step = step]]
    BY <1>1 DEF At, ActivateReadKyc, GateKyc, Continue
  <2>2. PICK g : g = [h EXCEPT !.step = step]
    OBVIOUS
  <2>3. g.step = step /\ g.on = h.on
    BY <2>2 DEF At, State
  <2>4. Moves(g)
    BY <2>3 DEF Moves
  <2>5. Kept(h) => Served(g)
    BY <2>1, <2>3 DEF Kept, Served
  <2> QED
    BY <2>1, <2>2, <2>3, <2>4, <2>5, HookLeads
<1>2. CASE OpenReadKyc(c)
  <2>1. /\ h.step = "open" /\ UNCHANGED docs
        /\ call' = [call EXCEPT ![c] = IF kyc[h.on] = "approved"
                                       THEN [h EXCEPT !.step = "openFind"] ELSE Idle]
    BY <1>2 DEF At, OpenReadKyc, GateKyc, Continue
  <2>2. PICK g : g = IF kyc[h.on] = "approved" THEN [h EXCEPT !.step = "openFind"] ELSE Idle
    OBVIOUS
  <2>3. IF kyc[h.on] = "approved" THEN g.step = "openFind" /\ g.on = h.on ELSE g.step = "idle"
    BY <2>2 DEF At, State, Idle
  <2>4. Moves(g)
    BY <2>3 DEF Moves
  <2>5. Kept(h) => Served(g)
    BY <2>1, <2>3 DEF Kept, Served, Waits
  <2>6. g.step \in {"idle"} \cup (HookSteps \ {"openMark"})
    BY <2>3
  <2>7. h.step \in HookSteps \ {"openMark"} /\ call' = [call EXCEPT ![c] = g]
    BY <2>1, <2>2
  <2> QED
    BY <2>1, <2>4, <2>5, <2>6, <2>7, HookLeads
<1> QED
  BY <1>1, <1>2

LEMMA ActivateFindLeads ==
  ASSUME PrimaryInv, PrimaryInv', NEW c \in Calls, NEW h, At(c, h), ActivateFind(c),
         deaths' = deaths
  PROVE  Leads(c)
<1>1. PICK left : left = Mine(c, {"kyc_pending"})
  OBVIOUS
<1>2. PICK g : g = NextOf(c, left, "move", "open")
  OBVIOUS
<1>3. /\ h.step = "activateFind" /\ UNCHANGED docs
      /\ call' = [call EXCEPT ![c] = g]
  BY <1>1, <1>2 DEF At, ActivateFind, Continue
<1>4. g.step \in {"move", "open"} /\ g.on = h.on /\ g.todo = left
  BY <1>2 DEF At, State, NextOf
<1>5. Moves(g)
  BY <1>1, <1>4 DEF Moves, Mine
<1>6. Kept(h) => Served(g)
  BY <1>3, <1>4 DEF Kept, Served
<1> QED
  BY <1>3, <1>4, <1>5, <1>6, HookLeads

LEMMA OpenFindLeads ==
  ASSUME PrimaryInv, PrimaryInv', NEW c \in Calls, NEW h, At(c, h), OpenFind(c),
         deaths' = deaths
  PROVE  Leads(c)
<1>1. PICK found : found = {x \in Mine(c, {"kyc_pending", "contract_pending"}) :
                              investment[x].linked}
  OBVIOUS
<1>2. PICK g : g = IF found = {} THEN Idle
                   ELSE [call[c] EXCEPT !.step = "openSigned", !.todo = found]
  OBVIOUS
<1>3. h.step = "openFind" /\ UNCHANGED docs /\ call' = [call EXCEPT ![c] = g]
  BY <1>1, <1>2 DEF At, OpenFind, Continue
<1>4. IF found = {} THEN g.step = "idle"
      ELSE g.step = "openSigned" /\ g.on = h.on /\ g.todo = found
  BY <1>2 DEF At, State, Idle
<1>5. Moves(g)
  BY <1>1, <1>4 DEF Moves, Mine
<1>6. ASSUME Kept(h) PROVE Served(g)
  <2> SUFFICES ASSUME NEW x \in Investments, Waits(x) PROVE x \in found /\ h.on = InvestorOf(x)
    BY <1>3, <1>4 DEF Served
  <2>1. h.on = InvestorOf(x)
    BY <1>6 DEF Kept, Served
  <2>2. contract[x].status = "signed" /\ investment[x].linked
    BY <1>3, <1>6 DEF Kept, Contracted, Waits
  <2>3. investment[x].status \in Statuses \ {"none"}
    BY <2>2 DEF PrimaryInv, TypedDocuments, Documents, Statuses
  <2>4. investment[x].status \in Pending
    BY <1>6, <2>2, <2>3 DEF Kept, Contracted, Waits, Statuses
  <2> QED
    BY <1>1, <2>1, <2>2, <2>4 DEF Mine, At
<1>7. g.step \in {"idle"} \cup (HookSteps \ {"openMark"})
  BY <1>4
<1>8. h.step \in HookSteps \ {"openMark"} /\ call' = [call EXCEPT ![c] = g]
  BY <1>3
<1> QED
  BY <1>3, <1>5, <1>6, <1>7, <1>8, HookLeads

\* The hook leaves x behind.
LEMMA OpenNextGoes ==
  ASSUME PrimaryInv, NEW c \in Calls, NEW h, At(c, h), NEW from, NEW x, OpenNext(c, from, x)
  PROVE  \E g : /\ call' = [call EXCEPT ![c] = g]
                /\ IF h.todo = {x} THEN g.step = "idle"
                   ELSE g.step = "openSigned" /\ g.on = h.on /\ g.todo = h.todo \ {x}
<1>1. PICK g : g = IF h.todo = {x} THEN Idle
                   ELSE [h EXCEPT !.step = "openSigned", !.inv = None, !.todo = @ \ {x}]
  OBVIOUS
<1>2. call' = [call EXCEPT ![c] = g]
  BY <1>1 DEF At, OpenNext, Continue
<1>3. IF h.todo = {x} THEN g.step = "idle"
      ELSE g.step = "openSigned" /\ g.on = h.on /\ g.todo = h.todo \ {x}
  BY <1>1 DEF At, State, Idle
<1> QED
  BY <1>2, <1>3

LEMMA SkipLeads ==
  ASSUME PrimaryInv, PrimaryInv', NEW c \in Calls, NEW h, At(c, h), NEW x,
         OpenNext(c, h.step, x), UNCHANGED <<docs, deaths>>,
         h.step \in {"openSigned", "openExisting"}, Kept(h) => ~Waits(x)
  PROVE  Leads(c)
<1>1. PICK g : /\ call' = [call EXCEPT ![c] = g]
               /\ IF h.todo = {x} THEN g.step = "idle"
                  ELSE g.step = "openSigned" /\ g.on = h.on /\ g.todo = h.todo \ {x}
  BY OpenNextGoes
<1>2. Moves(g)
  BY <1>1 DEF At, Books, Moves
<1>3. Kept(h) => Served(g)
  BY <1>1 DEF Kept, Served
<1>4. /\ g.step \in {"idle"} \cup (HookSteps \ {"openMark"})
      /\ h.step \in HookSteps \ {"openMark"}
  BY <1>1
<1> QED
  BY <1>1, <1>2, <1>3, <1>4, HookLeads

LEMMA OpenReadLeads ==
  ASSUME PrimaryInv, PrimaryInv', NEW c \in Calls, NEW h, At(c, h), OpenReadContract(c),
         deaths' = deaths
  PROVE  Leads(c)
<1>1. PICK x \in h.todo :
        IF contract[x].status = "signed"
        THEN Continue(c, "openSigned", [call[c] EXCEPT !.step = "openExisting", !.inv = x])
        ELSE OpenNext(c, "openSigned", x)
  BY DEF At, OpenReadContract
<1>2. h.step = "openSigned" /\ UNCHANGED docs
  BY DEF At, OpenReadContract, OpenNext, Continue
<1>3. CASE contract[x].status = "signed"
  <2>1. PICK g : g = [h EXCEPT !.step = "openExisting", !.inv = x]
    OBVIOUS
  <2>2. call' = [call EXCEPT ![c] = g]
    BY <1>1, <1>3, <2>1 DEF At, Continue
  <2>3. g.step = "openExisting" /\ g.on = h.on /\ g.todo = h.todo
    BY <2>1 DEF At, State
  <2>4. Moves(g)
    BY <1>2, <2>3 DEF At, Books, Moves
  <2>5. Kept(h) => Served(g)
    BY <1>2, <2>3 DEF Kept, Served
  <2> QED
    BY <1>2, <2>2, <2>3, <2>4, <2>5, HookLeads
<1>4. CASE contract[x].status # "signed"
  <2>1. OpenNext(c, h.step, x) /\ ~Waits(x)
    BY <1>1, <1>2, <1>4 DEF Waits
  <2> QED
    BY <1>2, <2>1, SkipLeads
<1> QED
  BY <1>3, <1>4

\* A request that is there and not settled was opened before.
LEMMA OpenExistingLeads ==
  ASSUME PrimaryInv, PrimaryInv', NEW c \in Calls, NEW h, At(c, h), OpenFindExisting(c),
         deaths' = deaths
  PROVE  Leads(c)
<1>1. h.step = "openExisting" /\ UNCHANGED docs
  BY DEF At, OpenFindExisting, OpenNext, Goto, Continue
<1>2. CASE \E r \in Requests : request[r].investment = h.inv /\ request[r].status \notin Settled
  <2>1. OpenNext(c, h.step, h.inv)
    BY <1>1, <1>2 DEF At, OpenFindExisting
  <2>2. ASSUME Kept(h) PROVE ~Waits(h.inv)
    <3>1. PICK r \in Requests : request[r].investment = h.inv
      BY <1>2
    <3>2. h.inv \in Investments
      BY <1>1 DEF At, Informed, State
    <3>3. Exists(r)
      BY <2>2, <3>1, <3>2, PrimaryConstants DEF Kept, Requested
    <3> QED
      BY <1>1, <2>2, <3>1, <3>3 DEF Kept, Requested, Waits
  <2> QED
    BY <1>1, <2>1, <2>2, SkipLeads
<1>3. CASE ~\E r \in Requests : request[r].investment = h.inv /\ request[r].status \notin Settled
  <2>1. PICK g : g = [h EXCEPT !.step = "openInsert"]
    OBVIOUS
  <2>2. call' = [call EXCEPT ![c] = g]
    BY <1>3, <2>1 DEF At, OpenFindExisting, Goto, Continue
  <2>3. g.step = "openInsert" /\ g.on = h.on /\ g.todo = h.todo
    BY <2>1 DEF At, State
  <2>4. Moves(g)
    BY <1>1, <2>3 DEF At, Books, Moves
  <2>5. Kept(h) => Served(g)
    BY <1>1, <2>3 DEF Kept, Served
  <2> QED
    BY <1>1, <2>2, <2>3, <2>4, <2>5, HookLeads
<1> QED
  BY <1>2, <1>3

LEMMA CancelReadLeads ==
  ASSUME PrimaryInv, PrimaryInv', NEW c \in Calls, NEW h, At(c, h), CancelReadInvestment(c),
         deaths' = deaths
  PROVE  Leads(c)
<1>1. PICK g : g = IF investment[h.inv].status \in Pending
                   THEN [h EXCEPT !.step = "cancelInvestment"] ELSE Idle
  OBVIOUS
<1>2. h.step = "cancelRead" /\ UNCHANGED docs /\ call' = [call EXCEPT ![c] = g]
  BY <1>1 DEF At, CancelReadInvestment, Continue
<1>3. IF investment[h.inv].status \in Pending THEN g.step = "cancelInvestment" /\ g.inv = h.inv
      ELSE g.step = "idle"
  BY <1>1 DEF At, State, Idle
<1>4. Moves(g)
  BY <1>3 DEF Moves
<1>5. Raised(g)
  BY <1>2, <1>3 DEF At, Books, Raised
<1>6. ASSUME Kept(h) PROVE Kept(g)
  <2>1. Placed(g)
    BY <1>2, <1>3, <1>6 DEF Kept, Placed
  <2>2. Contracted(g)
    BY <1>2, <1>3, <1>6 DEF Kept, Contracted
  <2>3. Requested(g)
    BY <1>2, <1>3, <1>6 DEF Kept, Requested
  <2>4. Owns(g)
    BY <1>2, <1>3, <1>6 DEF Kept, Owns
  <2>5. Matched(g)
    BY <1>2, <1>3, <1>6 DEF Kept, Matched
  <2>6. Served(g)
    BY <1>2, <1>3, <1>6 DEF Kept, Served
  <2> QED
    BY <2>1, <2>2, <2>3, <2>4, <2>5, <2>6 DEF Kept
<1> QED
  BY <1>2, <1>4, <1>5, <1>6, ReadLeads

\* The request that a transaction or an administrator pays.
LEMMA ChooseLeads ==
  ASSUME PrimaryInv, PrimaryInv', NEW c \in Calls, NEW h, At(c, h), ChooseRequest(c),
         deaths' = deaths
  PROVE  Leads(c)
<1>1. PICK g : /\ call' = [call EXCEPT ![c] = g]
               /\ \/ g = Idle
                  \/ \E r \in Requests : /\ request[r].status \in AdminActionable
                                         /\ g = [h EXCEPT !.step = "confirm", !.req = r]
  BY DEF At, ChooseRequest, Continue
<1>2. h.step = "match" /\ UNCHANGED docs
  BY DEF At, ChooseRequest
<1>3. g.step = "idle" \/ (g.step = "confirm" /\ request[g.req].status \in AdminActionable)
  <2>1. CASE g = Idle
    BY <2>1 DEF Idle
  <2>2. ASSUME NEW r \in Requests, request[r].status \in AdminActionable,
               g = [h EXCEPT !.step = "confirm", !.req = r]
        PROVE  g.step = "confirm" /\ request[g.req].status \in AdminActionable
    <3>1. g.step = "confirm" /\ g.req = r
      BY <2>2 DEF At, State
    <3> QED
      BY <2>2, <3>1
  <2> QED
    BY <1>1, <2>1, <2>2
<1>4. Moves(g)
  BY <1>3 DEF Moves
<1>5. Raised(g)
  BY <1>2, <1>3 DEF At, Books, Raised
<1>6. ASSUME Kept(h) PROVE Kept(g)
  <2>1. Placed(g)
    BY <1>2, <1>3, <1>6 DEF Kept, Placed
  <2>2. Contracted(g)
    BY <1>2, <1>3, <1>6 DEF Kept, Contracted
  <2>3. Requested(g)
    BY <1>2, <1>3, <1>6 DEF Kept, Requested
  <2>4. Owns(g)
    BY <1>2, <1>3, <1>6 DEF Kept, Owns
  <2>5. Matched(g)
    BY <1>2, <1>3, <1>6 DEF Kept, Matched
  <2>6. Served(g)
    BY <1>2, <1>3, <1>6 DEF Kept, Served
  <2> QED
    BY <2>1, <2>2, <2>3, <2>4, <2>5, <2>6 DEF Kept
<1> QED
  BY <1>1, <1>2, <1>4, <1>5, <1>6, ReadLeads

\* The two sums that are read before they are written.
LEMMA SumLeads ==
  ASSUME PrimaryInv, PrimaryInv', NEW c \in Calls, NEW h, At(c, h), ReadOwned(c) \/ ReadRaised(c),
         deaths' = deaths
  PROVE  Leads(c)
<1>1. PICK g : /\ call' = [call EXCEPT ![c] = g]
               /\ \/ /\ h.step = "readOwned"
                     /\ g = [h EXCEPT !.step = "writeOwned", !.read = Owned(Subject(h))]
                  \/ /\ h.step = "readRaised"
                     /\ g = [h EXCEPT !.step = "writeRaised", !.read = ActiveTotal]
  BY DEF At, ReadOwned, ReadRaised, Continue, Subject
<1>2. UNCHANGED docs
  BY DEF ReadOwned, ReadRaised
<1>3. /\ g.req = h.req
      /\ \/ h.step = "readOwned" /\ g.step = "writeOwned" /\ g.read = Owned(Subject(h))
         \/ h.step = "readRaised" /\ g.step = "writeRaised" /\ g.read = ActiveTotal
  BY <1>1 DEF At, State
<1>4. Moves(g)
  BY <1>3 DEF Moves
<1>5. Raised(g)
  BY <1>3 DEF Raised
<1>6. ASSUME Kept(h) PROVE Kept(g)
  <2>1. Placed(g)
    BY <1>3, <1>6 DEF Kept, Placed
  <2>2. Contracted(g)
    BY <1>3, <1>6 DEF Kept, Contracted
  <2>3. Requested(g)
    BY <1>3, <1>6 DEF Kept, Requested
  <2>4. Owns(g)
    BY <1>3, <1>6 DEF Kept, Owns, Subject
  <2>5. Matched(g)
    BY <1>3, <1>6 DEF Kept, Matched
  <2>6. Served(g)
    BY <1>3, <1>6 DEF Kept, Served
  <2> QED
    BY <2>1, <2>2, <2>3, <2>4, <2>5, <2>6 DEF Kept
<1> QED
  BY <1>1, <1>2, <1>4, <1>5, <1>6, ReadLeads

-----------------------------------------------------------------------------
(* Steps that write people's documents, contracts and requests.            *)

LEMMA IntentLeads ==
  ASSUME PrimaryInv, PrimaryInv', NEW c \in Calls, NEW h, At(c, h),
         CloseIntent(c) \/ RejectIntentWrite(c), deaths' = deaths
  PROVE  Leads(c)
<1>1. PICK status \in {"converted", "rejected"} :
        /\ h.step = IF status = "converted" THEN "close" ELSE "rejectIntent"
        /\ call' = [call EXCEPT ![c] = Idle]
        /\ intent' = [intent EXCEPT ![h.on] = status]
        /\ UNCHANGED <<kyc, investment, contract, request, credits, tx, ownership, raised>>
  BY DEF At, CloseIntent, RejectIntentWrite, DecideIntent, Continue, legalVars, moneyVars, bookVars
<1>2. PICK g : g = Idle /\ g.step = "idle"
  BY IdleIsInformed
<1>3. SameTotals
  BY <1>1, TotalsStay
<1>4. Moves(g)'
  BY <1>2, MovesStays
<1>5. Raised(g)'
  BY <1>1, <1>2, <1>3, RaisedStays DEF At, Books
<1>6. ASSUME Kept(h) PROVE Kept(g)'
  <2>1. Placed(g)'
    <3>1. h.on \in Intents /\ (h.step = "close" => h.inv \in Investments)
      BY <1>1 DEF At, Informed
    <3>2. \A i \in Intents : intent'[i] = IF i = h.on THEN status ELSE intent[i]
      BY <1>1 DEF PrimaryInv, TypedDocuments
    <3>3. \A x \in Investments : investment[x].intent \in Intents \cup {None}
      BY DEF PrimaryInv, TypedDocuments
    <3>4. intent[h.on] = "submitted" /\ (h.step = "close" => investment[h.inv].intent = h.on)
      BY <1>1, <1>6 DEF Kept, Placed
    <3>5. CASE status = "converted"
      BY <1>1, <1>2, <1>6, <3>1, <3>2, <3>3, <3>4, <3>5 DEF Kept, Placed
    <3>6. CASE status = "rejected"
      BY <1>1, <1>2, <1>6, <3>1, <3>2, <3>3, <3>4, <3>6 DEF Kept, Placed
    <3> QED
      BY <3>5, <3>6
  <2>2. Contracted(g)'
    BY <1>1, <1>2, <1>6, ContractedStays DEF Kept
  <2>3. Requested(g)'
    BY <1>1, <1>2, <1>6, RequestedStays DEF Kept
  <2>4. Owns(g)'
    BY <1>1, <1>2, <1>3, <1>6, OwnsStays DEF Kept
  <2>5. Matched(g)'
    BY <1>1, <1>2, <1>6, MatchedStays DEF Kept
  <2>6. Served(g)'
    BY <1>1, <1>2, <1>6, ServedStays DEF Kept
  <2> QED
    BY <2>1, <2>2, <2>3, <2>4, <2>5, <2>6 DEF Kept
<1> QED
  BY <1>1, <1>2, <1>4, <1>5, <1>6, ItLeads

\* Whoever is approved is served by the hook that follows.
LEMMA KycLeads ==
  ASSUME PrimaryInv, PrimaryInv', NEW c \in Calls, NEW h, At(c, h), KycWrite(c), deaths' = deaths
  PROVE  Leads(c)
<1>1. PICK g : /\ call' = [call EXCEPT ![c] = g]
               /\ \E status \in {"draft", "submitted", "rejected", "approved"} :
                    /\ kyc' = [kyc EXCEPT ![h.on] = status]
                    /\ g = IF status = "approved" THEN [h EXCEPT !.step = "activate"] ELSE Idle
  BY DEF At, KycWrite, WriteKyc, Continue
<1>2. /\ h.step \in KycSteps
      /\ UNCHANGED <<intent, investment, contract, request, credits, tx, ownership, raised>>
  BY DEF At, KycWrite, WriteKyc, legalVars, moneyVars, bookVars
<1>3. PICK status \in {"draft", "submitted", "rejected", "approved"} :
        /\ kyc' = [kyc EXCEPT ![h.on] = status]
        /\ IF status = "approved" THEN g.step = "activate" /\ g.on = h.on ELSE g.step = "idle"
  <2>1. PICK status \in {"draft", "submitted", "rejected", "approved"} :
          /\ kyc' = [kyc EXCEPT ![h.on] = status]
          /\ g = IF status = "approved" THEN [h EXCEPT !.step = "activate"] ELSE Idle
    BY <1>1
  <2>2. IF status = "approved" THEN g.step = "activate" /\ g.on = h.on ELSE g.step = "idle"
    BY <2>1 DEF At, State, Idle
  <2> QED
    BY <2>1, <2>2
<1>4. SameTotals
  BY <1>2, TotalsStay
<1>5. Moves(g)'
  BY <1>3, MovesStays
<1>6. Raised(g)'
  BY <1>2, <1>3, <1>4, RaisedStays DEF At, Books
<1>7. ASSUME Kept(h) PROVE Kept(g)'
  <2>1. Placed(g)'
    BY <1>2, <1>3, <1>7, PlacedStays DEF Kept
  <2>2. Contracted(g)'
    BY <1>2, <1>3, <1>7, ContractedStays DEF Kept
  <2>3. Requested(g)'
    BY <1>2, <1>3, <1>7, RequestedStays DEF Kept
  <2>4. Owns(g)'
    BY <1>2, <1>3, <1>4, <1>7, OwnsStays DEF Kept
  <2>5. Matched(g)'
    BY <1>2, <1>3, <1>7, MatchedStays DEF Kept
  <2>6. Served(g)'
    <3> SUFFICES ASSUME NEW x \in Investments, Waits(x)'
                 PROVE  g.step = "activate" /\ g.on = InvestorOf(x)'
      BY DEF Served
    <3>1. InvestorOf(x)' = InvestorOf(x)
      BY <1>2 DEF InvestorOf
    <3>2. InvestorOf(x) \in Investors
      BY <1>2, PrimaryConstants DEF Waits, PrimaryInv, Documents, InvestorOf
    <3>3. ~Waits(x)
      BY <1>2, <1>7 DEF Kept, Served
    <3>4. kyc[InvestorOf(x)] # "approved" /\ kyc'[InvestorOf(x)] = "approved"
      BY <1>2, <3>1, <3>3 DEF Waits
    <3> QED
      BY <1>3, <3>1, <3>2, <3>4 DEF PrimaryInv, TypedDocuments
  <2> QED
    BY <2>1, <2>2, <2>3, <2>4, <2>5, <2>6 DEF Kept
<1> QED
  BY <1>1, <1>5, <1>6, <1>7, ItLeads

\* A contract that waits for a signature is viewed, signed or cancelled.
LEMMA ContractLeads ==
  ASSUME PrimaryInv, PrimaryInv', NEW c \in Calls, NEW h, At(c, h), NEW x \in Investments,
         NEW doc, NEW g, call' = [call EXCEPT ![c] = g], deaths' = deaths,
         contract' = [contract EXCEPT ![x] = doc],
         UNCHANGED <<peopleVars, investment, moneyVars, bookVars>>,
         h.step \in {"idle", "view", "sign", "cancel"},
         g.step \in {"idle", "activate", "cancelRead"},
         Kept(h) => /\ contract[x].status \in {"sent", "viewed"}
                    /\ doc.signed => doc.status = "signed",
         doc.status = "signed" => g.step = "activate" /\ g.on = InvestorOf(x),
         g.step = "cancelRead" => g.inv = x /\ doc.status = "cancelled"
  PROVE  Leads(c)
<1>1. UNCHANGED <<intent, kyc, investment, request, credits, tx, ownership, raised>>
  BY DEF peopleVars, moneyVars, bookVars
<1>2. \A y \in Investments : contract'[y] = IF y = x THEN doc ELSE contract[y]
  BY DEF PrimaryInv, TypedDocuments
<1>3. SameTotals
  BY <1>1, TotalsStay
<1>4. Moves(g)'
  BY MovesStays
<1>5. Raised(g)'
  BY <1>1, <1>3, RaisedStays DEF At, Books
<1>6. ASSUME Kept(h) PROVE Kept(g)'
  <2>1. Placed(g)'
    BY <1>1, <1>6, PlacedStays DEF Kept
  <2>2. Contracted(g)'
    BY <1>1, <1>2, <1>6 DEF Kept, Contracted
  <2>3. Requested(g)'
    BY <1>1, <1>6, RequestedStays DEF Kept
  <2>4. Owns(g)'
    BY <1>1, <1>3, <1>6, OwnsStays DEF Kept
  <2>5. Matched(g)'
    BY <1>1, <1>6, MatchedStays DEF Kept
  <2>6. Served(g)'
    BY <1>1, <1>2, <1>6 DEF Kept, Served, Waits, InvestorOf
  <2> QED
    BY <2>1, <2>2, <2>3, <2>4, <2>5, <2>6 DEF Kept
<1> QED
  BY <1>4, <1>5, <1>6, ItLeads

LEMMA ContractWriteLeads ==
  ASSUME PrimaryInv, PrimaryInv', NEW c \in Calls, NEW h, At(c, h), ContractWrite(c),
         deaths' = deaths
  PROVE  Leads(c)
<1>1. h.step \in {"view", "sign", "cancel"} /\ h.inv \in Investments
  BY DEF ContractWrite, At, Informed
<1>2. UNCHANGED <<peopleVars, investment, moneyVars, bookVars>>
  BY DEF ContractWrite, WriteContract
<1>3. contract[h.inv] \in [status : {"none", "sent", "viewed", "signed", "cancelled"},
                           signed : BOOLEAN]
  BY <1>1 DEF PrimaryInv, TypedDocuments
<1>4. Kept(h) => /\ contract[h.inv].status \in {"sent", "viewed"}
                 /\ contract[h.inv].signed => contract[h.inv].status = "signed"
  BY <1>1 DEF Kept, Contracted, Signable, Cancellable
<1>5. CASE h.step = "view"
  <2>1. PICK doc : doc = [contract[h.inv] EXCEPT !.status = "viewed"]
    OBVIOUS
  <2>2. PICK g : g = Idle /\ g.step = "idle"
    BY IdleIsInformed
  <2>3. call' = [call EXCEPT ![c] = g] /\ contract' = [contract EXCEPT ![h.inv] = doc]
    BY <1>5, <2>1, <2>2 DEF At, ContractWrite, WriteContract, Continue
  <2>4. doc.status = "viewed" /\ doc.signed = contract[h.inv].signed
    BY <1>3, <2>1
  <2>5. Kept(h) => /\ contract[h.inv].status \in {"sent", "viewed"}
                   /\ doc.signed => doc.status = "signed"
    BY <1>4, <2>4
  <2> QED
    BY <1>1, <1>2, <2>2, <2>3, <2>4, <2>5, ContractLeads
<1>6. CASE h.step = "sign"
  <2>1. PICK doc : doc = [status |-> "signed", signed |-> TRUE]
    OBVIOUS
  <2>2. PICK g : g = HookFor(h.inv)
    OBVIOUS
  <2>3. call' = [call EXCEPT ![c] = g] /\ contract' = [contract EXCEPT ![h.inv] = doc]
    BY <1>6, <2>1, <2>2 DEF At, ContractWrite, WriteContract, Continue
  <2>4. g.step = "activate" /\ g.on = InvestorOf(h.inv)
    BY <2>2 DEF HookFor, Idle
  <2>5. doc.status = "signed"
    BY <2>1
  <2> QED
    BY <1>1, <1>2, <1>4, <2>3, <2>4, <2>5, ContractLeads
<1>7. CASE h.step = "cancel"
  <2>1. PICK doc : doc = [contract[h.inv] EXCEPT !.status = "cancelled"]
    OBVIOUS
  <2>2. PICK g : g = [h EXCEPT !.step = "cancelRead"]
    OBVIOUS
  <2>3. call' = [call EXCEPT ![c] = g] /\ contract' = [contract EXCEPT ![h.inv] = doc]
    BY <1>7, <2>1, <2>2 DEF At, ContractWrite, WriteContract, Continue
  <2>4. g.step = "cancelRead" /\ g.inv = h.inv
    BY <2>2 DEF At, State
  <2>5. doc.status = "cancelled" /\ doc.signed = contract[h.inv].signed
    BY <1>3, <2>1
  <2>6. Kept(h) => /\ contract[h.inv].status \in {"sent", "viewed"}
                   /\ doc.signed => doc.status = "signed"
    BY <1>4, <2>5
  <2> QED
    BY <1>1, <1>2, <2>3, <2>4, <2>5, <2>6, ContractLeads
<1> QED
  BY <1>1, <1>5, <1>6, <1>7

LEMMA PublicSignLeads ==
  ASSUME PrimaryInv, PrimaryInv', NEW c \in Calls, At(c, Idle), NEW x \in Investments,
         PublicSign(c, x)
  PROVE  Leads(c)
<1>1. PICK doc : doc = [status |-> "signed", signed |-> TRUE]
  OBVIOUS
<1>2. PICK g : g = HookFor(x)
  OBVIOUS
<1>3. /\ call' = [call EXCEPT ![c] = g] /\ contract' = [contract EXCEPT ![x] = doc]
      /\ deaths' = deaths /\ UNCHANGED <<peopleVars, investment, moneyVars, bookVars>>
      /\ contract[x].status \in {"sent", "viewed"}
  BY <1>1, <1>2 DEF PublicSign, Arrived, Signable
<1>4. g.step = "activate" /\ g.on = InvestorOf(x)
  BY <1>2 DEF HookFor, Idle
<1>5. doc.status = "signed"
  BY <1>1
<1>6. PICK h : h = Idle /\ h.step = "idle"
  BY IdleIsInformed
<1> QED
  BY <1>3, <1>4, <1>5, <1>6, ContractLeads

\* The contract of an investment that was just made.
LEMMA ContractInsertLeads ==
  ASSUME PrimaryInv, PrimaryInv', NEW c \in Calls, NEW h, At(c, h), InsertContract(c),
         deaths' = deaths
  PROVE  Leads(c)
<1>1. PICK g : g = [h EXCEPT !.step = "link"]
  OBVIOUS
<1>2. /\ h.step = "contract" /\ call' = [call EXCEPT ![c] = g]
      /\ contract' = [contract EXCEPT ![h.inv] = [status |-> "sent", signed |-> FALSE]]
      /\ UNCHANGED <<intent, kyc, investment, request, credits, tx, ownership, raised>>
  BY <1>1 DEF At, InsertContract, Goto, Continue, peopleVars, moneyVars, bookVars
<1>3. g.step = "link" /\ g.inv = h.inv /\ g.on = h.on /\ h.inv \in Investments
  BY <1>1, <1>2 DEF At, State, Informed
<1>4. contract[h.inv].status = "none"
  BY <1>2 DEF At, PrimaryInv, MakesContract
<1>5. \A y \in Investments :
        contract'[y] = IF y = h.inv THEN [status |-> "sent", signed |-> FALSE] ELSE contract[y]
  BY <1>2 DEF PrimaryInv, TypedDocuments
<1>6. SameTotals
  BY <1>2, TotalsStay
<1>7. Moves(g)'
  BY <1>3, MovesStays
<1>8. Raised(g)'
  BY <1>2, <1>3, <1>6, RaisedStays DEF At, Books
<1>9. ASSUME Kept(h) PROVE Kept(g)'
  <2>1. Placed(g)'
    BY <1>2, <1>3, <1>9 DEF Kept, Placed
  <2>2. Contracted(g)'
    BY <1>2, <1>3, <1>4, <1>5, <1>9 DEF Kept, Contracted
  <2>3. Requested(g)'
    BY <1>2, <1>3, <1>9, RequestedStays DEF Kept
  <2>4. Owns(g)'
    BY <1>2, <1>3, <1>6, <1>9, OwnsStays DEF Kept
  <2>5. Matched(g)'
    BY <1>2, <1>3, <1>9, MatchedStays DEF Kept
  <2>6. Served(g)'
    BY <1>2, <1>3, <1>5, <1>9 DEF Kept, Served, Waits, InvestorOf
  <2> QED
    BY <2>1, <2>2, <2>3, <2>4, <2>5, <2>6 DEF Kept
<1> QED
  BY <1>2, <1>7, <1>8, <1>9, ItLeads

-----------------------------------------------------------------------------
(* Steps that write requests, the ledger, the books and transactions.      *)

\* A request that is not paid yet is written and stays so.
LEMMA RequestWriteLeads ==
  ASSUME PrimaryInv, PrimaryInv', NEW c \in Calls, NEW h, At(c, h), RequestWrite(c),
         deaths' = deaths
  PROVE  Leads(c)
<1>1. /\ h.step \in {"upload", "delete", "submit", "reject", "clarify"} /\ h.req \in Requests
      /\ UNCHANGED <<intent, kyc, investment, contract, credits, tx, ownership, raised>>
  BY DEF At, RequestWrite, WriteRequest, Informed, peopleVars, legalVars, bookVars
<1>2. PICK old : old = request[h.req]
  OBVIOUS
<1>3. old \in [status : {"none", "awaiting_payment", "paid", "under_review", "confirmed",
                         "rejected"},
               investment : Investments \cup {None}, proof : BOOLEAN, submitted : BOOLEAN]
  BY <1>1, <1>2 DEF PrimaryInv, TypedDocuments
<1>4. PICK doc : /\ request' = [request EXCEPT ![h.req] = doc] /\ call' = [call EXCEPT ![c] = Idle]
                 /\ doc.investment = old.investment
                 /\ doc.status \in {old.status, "paid", "rejected", "under_review"}
  <2>1. CASE h.step \in {"upload", "delete"}
    <3>1. PICK b : /\ request' = [request EXCEPT ![h.req] = [old EXCEPT !.proof = b]]
                   /\ call' = [call EXCEPT ![c] = Idle]
      BY <1>2, <2>1 DEF At, RequestWrite, WriteRequest, Continue
    <3>2. PICK doc : doc = [old EXCEPT !.proof = b]
      OBVIOUS
    <3>3. doc.investment = old.investment /\ doc.status = old.status
      BY <1>3, <3>2
    <3> QED
      BY <3>1, <3>2, <3>3
  <2>2. CASE h.step = "submit"
    <3>1. PICK doc : doc = [old EXCEPT !.status = "paid", !.submitted = TRUE]
      OBVIOUS
    <3>2. request' = [request EXCEPT ![h.req] = doc] /\ call' = [call EXCEPT ![c] = Idle]
      BY <1>2, <2>2, <3>1 DEF At, RequestWrite, WriteRequest, Continue
    <3>3. doc.investment = old.investment /\ doc.status = "paid"
      BY <1>3, <3>1
    <3> QED
      BY <3>2, <3>3
  <2>3. CASE h.step \in {"reject", "clarify"}
    <3>1. PICK status \in {"rejected", "under_review"} :
            /\ request' = [request EXCEPT ![h.req] = [old EXCEPT !.status = status]]
            /\ call' = [call EXCEPT ![c] = Idle]
      BY <1>2, <2>3 DEF At, RequestWrite, WriteRequest, Continue
    <3>2. PICK doc : doc = [old EXCEPT !.status = status]
      OBVIOUS
    <3>3. doc.investment = old.investment /\ doc.status = status
      BY <1>3, <3>2
    <3> QED
      BY <3>1, <3>2, <3>3
  <2> QED
    BY <1>1, <2>1, <2>2, <2>3
<1>5. PICK g : g = Idle /\ g.step = "idle"
  BY IdleIsInformed
<1>6. SameTotals
  BY <1>1, TotalsStay
<1>7. Moves(g)'
  BY <1>5, MovesStays
<1>8. Raised(g)'
  BY <1>1, <1>5, <1>6, RaisedStays DEF At, Books
<1>9. ASSUME Kept(h) PROVE Kept(g)'
  <2>1. \A r \in Requests : request'[r] = IF r = h.req THEN doc ELSE request[r]
    BY <1>4 DEF PrimaryInv, TypedDocuments
  <2>2. old.status \notin {"none", "confirmed"} /\ doc.status \notin {"none", "confirmed"}
    <3>1. old.status \in InvestorSubmittable \cup AdminActionable
      BY <1>1, <1>2, <1>9 DEF Kept, Requested
    <3> QED
      BY <1>4, <3>1 DEF InvestorSubmittable, AdminActionable
  <2>3. Placed(g)'
    BY <1>1, <1>5, <1>9, PlacedStays DEF Kept
  <2>4. Contracted(g)'
    BY <1>1, <1>5, <1>9, ContractedStays DEF Kept
  <2>5. \A r \in Requests :
          /\ Exists(r)' = Exists(r) /\ request'[r].investment = request[r].investment
          /\ (request'[r].status = "confirmed") = (request[r].status = "confirmed")
    BY <1>2, <1>4, <2>1, <2>2 DEF Exists
  <2>6. Requested(g)'
    <3>1. h.step \notin ActivatingSteps \cup {"openMark"}
      BY <1>1
    <3> QED
      BY <1>1, <1>5, <1>9, <2>5, <3>1 DEF Kept, Requested
  <2>7. Owns(g)'
    BY <1>1, <1>5, <1>6, <1>9, OwnsStays DEF Kept
  <2>8. Matched(g)'
    BY <1>1, <1>5, <1>9, <2>5 DEF Kept, Matched
  <2>9. Served(g)'
    BY <1>1, <1>5, <1>9, ServedStays DEF Kept
  <2> QED
    BY <2>3, <2>4, <2>6, <2>7, <2>8, <2>9 DEF Kept
<1> QED
  BY <1>4, <1>5, <1>7, <1>8, <1>9, ItLeads

\* Confirmed, and the credit is owed.
LEMMA ConfirmLeads ==
  ASSUME PrimaryInv, PrimaryInv', NEW c \in Calls, NEW h, At(c, h), ConfirmRequest(c),
         deaths' = deaths
  PROVE  Leads(c)
<1>1. PICK g : g = [h EXCEPT !.step = "credit"]
  OBVIOUS
<1>2. /\ h.step = "confirm" /\ call' = [call EXCEPT ![c] = g]
      /\ request' = [request EXCEPT ![h.req].status = "confirmed"]
      /\ UNCHANGED <<intent, kyc, investment, contract, credits, tx, ownership, raised>>
  BY <1>1 DEF At, ConfirmRequest, Goto, Continue, peopleVars, legalVars, bookVars
<1>3. g.step = "credit" /\ g.req = h.req /\ h.req \in Requests
  BY <1>1, <1>2 DEF At, State, Informed
<1>4. \A r \in Requests :
        /\ request'[r].investment = request[r].investment
        /\ request'[r].status = IF r = h.req THEN "confirmed" ELSE request[r].status
  BY <1>2, <1>3 DEF PrimaryInv, TypedDocuments
<1>5. SameTotals
  BY <1>2, TotalsStay
<1>6. Moves(g)'
  BY <1>3, MovesStays
<1>7. Raised(g)'
  BY <1>2, <1>3, <1>5, RaisedStays DEF At, Books
<1>8. ASSUME Kept(h) PROVE Kept(g)'
  <2>1. request[h.req].status \in AdminActionable
    BY <1>2, <1>8 DEF Kept, Requested
  <2>2. Placed(g)'
    BY <1>2, <1>3, <1>8, PlacedStays DEF Kept
  <2>3. Contracted(g)'
    BY <1>2, <1>3, <1>8, ContractedStays DEF Kept
  <2>4. Requested(g)'
    <3>1. \A r \in Requests : Exists(r)' = Exists(r)
      BY <1>4, <2>1 DEF Exists, AdminActionable
    <3> QED
      BY <1>2, <1>3, <1>4, <1>8, <2>1, <3>1 DEF Kept, Requested, AdminActionable
  <2>5. Owns(g)'
    BY <1>2, <1>3, <1>5, <1>8, OwnsStays DEF Kept
  <2>6. Matched(g)'
    BY <1>2, <1>3, <1>4, <1>8, <2>1 DEF Kept, Matched, AdminActionable
  <2>7. Served(g)'
    BY <1>2, <1>3, <1>8, ServedStays DEF Kept
  <2> QED
    BY <2>2, <2>3, <2>4, <2>5, <2>6, <2>7 DEF Kept
<1> QED
  BY <1>2, <1>6, <1>7, <1>8, ItLeads

LEMMA CreditLeads ==
  ASSUME PrimaryInv, PrimaryInv', NEW c \in Calls, NEW h, At(c, h), LedgerAppend(c),
         deaths' = deaths
  PROVE  Leads(c)
<1>1. PICK g : g = [h EXCEPT !.step = "activateInvestment"]
  OBVIOUS
<1>2. /\ h.step = "credit" /\ call' = [call EXCEPT ![c] = g]
      /\ credits' = [credits EXCEPT ![h.req] = @ + 1]
      /\ UNCHANGED <<intent, kyc, investment, contract, request, tx, ownership, raised>>
  BY <1>1 DEF At, LedgerAppend, Goto, Continue, peopleVars, legalVars, bookVars
<1>3. g.step = "activateInvestment" /\ g.req = h.req /\ h.req \in Requests
  BY <1>1, <1>2 DEF At, State, Informed
<1>4. \A r \in Requests : credits'[r] = IF r = h.req THEN credits[r] + 1 ELSE credits[r]
  BY <1>2 DEF PrimaryInv, TypedDocuments
<1>5. SameTotals
  BY <1>2, TotalsStay
<1>6. Moves(g)'
  BY <1>3, MovesStays
<1>7. Raised(g)'
  BY <1>2, <1>3, <1>5, RaisedStays DEF At, Books
<1>8. ASSUME Kept(h) PROVE Kept(g)'
  <2>1. Placed(g)'
    BY <1>2, <1>3, <1>8, PlacedStays DEF Kept
  <2>2. Contracted(g)'
    BY <1>2, <1>3, <1>8, ContractedStays DEF Kept
  <2>3. Requested(g)'
    BY <1>2, <1>3, <1>4, <1>8 DEF Kept, Requested, Exists
  <2>4. Owns(g)'
    BY <1>2, <1>3, <1>5, <1>8, OwnsStays DEF Kept
  <2>5. Matched(g)'
    BY <1>2, <1>3, <1>8 DEF Kept, Matched
  <2>6. Served(g)'
    BY <1>2, <1>3, <1>8, ServedStays DEF Kept
  <2> QED
    BY <2>1, <2>2, <2>3, <2>4, <2>5, <2>6 DEF Kept
<1> QED
  BY <1>2, <1>6, <1>7, <1>8, ItLeads

\* The units of the investor whose investment was just activated.
LEMMA OwnedLeads ==
  ASSUME PrimaryInv, PrimaryInv', NEW c \in Calls, NEW h, At(c, h), WriteOwned(c),
         deaths' = deaths
  PROVE  Leads(c)
<1>1. PICK g : g = [h EXCEPT !.step = "readRaised", !.read = 0]
  OBVIOUS
<1>2. /\ h.step = "writeOwned" /\ call' = [call EXCEPT ![c] = g]
      /\ ownership' = [ownership EXCEPT ![Subject(h)] = h.read]
      /\ UNCHANGED <<intent, kyc, investment, contract, request, credits, tx, raised>>
  BY <1>1 DEF At, WriteOwned, Continue, peopleVars, legalVars, moneyVars, Subject
<1>3. g.step = "readRaised" /\ g.req = h.req /\ h.req \in Requests
  BY <1>1, <1>2 DEF At, State, Informed
<1>4. SameTotals
  BY <1>2, TotalsStay
<1>5. Moves(g)'
  BY <1>3, MovesStays
<1>6. Raised(g)'
  BY <1>3 DEF Raised
<1>7. ASSUME Kept(h) PROVE Kept(g)'
  <2>1. Placed(g)'
    BY <1>2, <1>3, <1>7, PlacedStays DEF Kept
  <2>2. Contracted(g)'
    BY <1>2, <1>3, <1>7, ContractedStays DEF Kept
  <2>3. Requested(g)'
    BY <1>2, <1>3, <1>7 DEF Kept, Requested, Exists
  <2>4. Owns(g)'
    <3>1. request[h.req].status = "confirmed"
      BY <1>2, <1>7 DEF Kept, Requested
    <3>2. request[h.req].investment \in Investments
      BY <1>3, <3>1 DEF PrimaryInv, Documents
    <3>3. Active(Subject(h)) # {}
      BY <1>2, <1>3, <1>7, <3>1, <3>2 DEF Kept, Requested, Active, Subject, Exists
    <3>4. h.read \in Nat
      BY DEF At, State
    <3>5. /\ ownership' \in [Investors -> Nat \cup {None}]
          /\ \A p \in Investors : ownership'[p] = IF p = Subject(h) THEN h.read ELSE ownership[p]
      BY <1>2, <1>7, <3>4 DEF Kept, Owns
    <3>6. h.read = Owned(Subject(h))
      BY <1>2, <1>7 DEF Kept, Owns
    <3> QED
      BY <1>2, <1>3, <1>4, <1>7, <3>3, <3>4, <3>5, <3>6 DEF Kept, Owns, SameTotals
  <2>5. Matched(g)'
    BY <1>2, <1>3, <1>7 DEF Kept, Matched
  <2>6. Served(g)'
    BY <1>2, <1>3, <1>7, ServedStays DEF Kept
  <2> QED
    BY <2>1, <2>2, <2>3, <2>4, <2>5, <2>6 DEF Kept
<1> QED
  BY <1>2, <1>5, <1>6, <1>7, ItLeads

LEMMA RaisedLeads ==
  ASSUME PrimaryInv, PrimaryInv', NEW c \in Calls, NEW h, At(c, h), WriteRaised(c),
         deaths' = deaths
  PROVE  Leads(c)
<1>1. PICK g : g = IF h.tx = None THEN Idle ELSE [h EXCEPT !.step = "linkTx", !.read = 0]
  OBVIOUS
<1>2. /\ h.step = "writeRaised" /\ call' = [call EXCEPT ![c] = g] /\ raised' = h.read
      /\ UNCHANGED <<intent, kyc, investment, contract, request, credits, tx, ownership>>
  BY <1>1 DEF At, WriteRaised, Continue, peopleVars, legalVars, moneyVars
<1>3. g.step = "idle" \/ (g.step = "linkTx" /\ g.req = h.req)
  BY <1>1 DEF At, State, Idle
<1>4. SameTotals
  BY <1>2, TotalsStay
<1>5. Moves(g)'
  BY <1>3, MovesStays
<1>6. Raised(g)'
  BY <1>2, <1>3, <1>4 DEF At, Books, Raised, SameTotals
<1>7. ASSUME Kept(h) PROVE Kept(g)'
  <2>1. Placed(g)'
    BY <1>2, <1>3, <1>7, PlacedStays DEF Kept
  <2>2. Contracted(g)'
    BY <1>2, <1>3, <1>7, ContractedStays DEF Kept
  <2>3. Requested(g)'
    BY <1>2, <1>3, <1>7 DEF Kept, Requested, Exists
  <2>4. Owns(g)'
    BY <1>2, <1>3, <1>4, <1>7, OwnsStays DEF Kept
  <2>5. Matched(g)'
    BY <1>2, <1>3, <1>7 DEF Kept, Matched
  <2>6. Served(g)'
    BY <1>2, <1>3, <1>7, ServedStays DEF Kept
  <2> QED
    BY <2>1, <2>2, <2>3, <2>4, <2>5, <2>6 DEF Kept
<1> QED
  BY <1>2, <1>5, <1>6, <1>7, ItLeads

LEMMA TxLeads ==
  ASSUME PrimaryInv, PrimaryInv', NEW c \in Calls, NEW h, At(c, h), TxWrite(c), deaths' = deaths
  PROVE  Leads(c)
<1>1. /\ h.step \in {"reopenTx", "rejectTx", "linkTx"} /\ h.tx \in Txs
      /\ UNCHANGED <<intent, kyc, investment, contract, request, credits, ownership, raised>>
  BY DEF At, TxWrite, WriteTx, Informed, peopleVars, legalVars, bookVars
<1>2. PICK g : g = IF h.step = "reopenTx" THEN [h EXCEPT !.step = "match"] ELSE Idle
  OBVIOUS
<1>3. g.step \in {"idle", "match"}
  BY <1>2 DEF At, State, Idle
<1>4. /\ call' = [call EXCEPT ![c] = g]
      /\ \E doc : /\ tx' = [tx EXCEPT ![h.tx] = doc]
                  /\ \/ h.step # "linkTx" /\ doc.status # "reconciled"
                     \/ h.step = "linkTx" /\ doc.status = "reconciled" /\ doc.request = h.req
  <2>1. tx[h.tx] \in [status : {"none", "unmatched", "reconciled", "rejected"},
                      request : Requests \cup {None}]
    BY <1>1 DEF PrimaryInv, TypedDocuments
  <2>2. CASE h.step = "linkTx"
    <3>1. PICK doc : doc = [status |-> "reconciled", request |-> h.req]
      OBVIOUS
    <3>2. call' = [call EXCEPT ![c] = g] /\ tx' = [tx EXCEPT ![h.tx] = doc]
      BY <1>2, <2>2, <3>1 DEF At, TxWrite, WriteTx, Continue
    <3>3. doc.status = "reconciled" /\ doc.request = h.req
      BY <3>1
    <3> QED
      BY <2>2, <3>2, <3>3
  <2>3. CASE h.step # "linkTx"
    <3>1. PICK status \in {"unmatched", "rejected"} :
            /\ call' = [call EXCEPT ![c] = g]
            /\ tx' = [tx EXCEPT ![h.tx] = [tx[h.tx] EXCEPT !.status = status]]
      BY <1>1, <1>2, <2>3 DEF At, TxWrite, WriteTx, Continue
    <3>2. PICK doc : doc = [tx[h.tx] EXCEPT !.status = status]
      OBVIOUS
    <3>3. doc.status # "reconciled"
      BY <2>1, <3>2
    <3> QED
      BY <2>3, <3>1, <3>2, <3>3
  <2> QED
    BY <2>2, <2>3
<1>5. PICK doc : /\ tx' = [tx EXCEPT ![h.tx] = doc]
                 /\ \/ h.step # "linkTx" /\ doc.status # "reconciled"
                    \/ h.step = "linkTx" /\ doc.status = "reconciled" /\ doc.request = h.req
  BY <1>4
<1>6. SameTotals
  BY <1>1, TotalsStay
<1>7. Moves(g)'
  BY <1>3, MovesStays
<1>8. Raised(g)'
  BY <1>1, <1>3, <1>6, RaisedStays DEF At, Books
<1>9. ASSUME Kept(h) PROVE Kept(g)'
  <2>1. Placed(g)'
    BY <1>1, <1>3, <1>9, PlacedStays DEF Kept
  <2>2. Contracted(g)'
    BY <1>1, <1>3, <1>9, ContractedStays DEF Kept
  <2>3. Requested(g)'
    BY <1>1, <1>3, <1>9, RequestedStays DEF Kept
  <2>4. Owns(g)'
    BY <1>1, <1>3, <1>6, <1>9, OwnsStays DEF Kept
  <2>5. Matched(g)'
    <3>1. \A u \in Txs : tx'[u] = IF u = h.tx THEN doc ELSE tx[u]
      BY <1>5 DEF PrimaryInv, TypedDocuments
    <3>2. h.step = "linkTx" => h.req \in Requests /\ request[h.req].status = "confirmed"
      BY <1>9 DEF At, Informed, Kept, Requested
    <3> QED
      BY <1>1, <1>3, <1>5, <1>9, <3>1, <3>2 DEF Kept, Matched
  <2>6. Served(g)'
    BY <1>1, <1>3, <1>9, ServedStays DEF Kept
  <2> QED
    BY <2>1, <2>2, <2>3, <2>4, <2>5, <2>6 DEF Kept
<1> QED
  BY <1>4, <1>7, <1>8, <1>9, ItLeads

\* The one request of an investment that has none.
LEMMA InsertRequestLeads ==
  ASSUME PrimaryInv, PrimaryInv', NEW c \in Calls, NEW h, At(c, h), InsertRequest(c),
         deaths' = deaths
  PROVE  Leads(c)
<1>1. PICK g : g = [h EXCEPT !.step = "openMark"]
  OBVIOUS
<1>2. PICK r \in Requests :
        /\ h.step = "openInsert" /\ call' = [call EXCEPT ![c] = g] /\ request[r].status = "none"
        /\ request' = [request EXCEPT ![r].status = "awaiting_payment", ![r].investment = h.inv]
        /\ UNCHANGED <<intent, kyc, investment, contract, credits, tx, ownership, raised>>
  BY <1>1 DEF At, InsertRequest, Goto, Continue, peopleVars, legalVars, bookVars
<1>3. g.step = "openMark" /\ g.inv = h.inv /\ g.on = h.on /\ g.todo = h.todo
  BY <1>1 DEF At, State
<1>4. h.inv \in h.todo /\ h.inv \in Investments
  BY <1>2 DEF At, Informed, State
<1>5. \A q \in Requests :
        /\ request'[q].investment = IF q = r THEN h.inv ELSE request[q].investment
        /\ request'[q].status = IF q = r THEN "awaiting_payment" ELSE request[q].status
  BY <1>2 DEF PrimaryInv, TypedDocuments
<1>6. SameTotals
  BY <1>2, TotalsStay
<1>7. investment[h.inv].status \in Pending
  BY <1>2, <1>4 DEF At, Books, Moves
<1>8. Moves(g)'
  BY <1>2, <1>3 DEF At, Books, Moves
<1>9. Raised(g)'
  BY <1>2, <1>3, <1>6, RaisedStays DEF At, Books
<1>10. ASSUME Kept(h) PROVE Kept(g)'
  <2>1. Placed(g)'
    BY <1>2, <1>3, <1>10, PlacedStays DEF Kept
  <2>2. Contracted(g)'
    BY <1>2, <1>3, <1>10, ContractedStays DEF Kept
  <2>3. Requested(g)'
    <3>1. \A q \in Requests : Exists(q)' <=> (q = r \/ Exists(q))
      BY <1>5 DEF Exists
    <3>2. ~Exists(r) /\ \A q \in Requests : Exists(q) => request[q].investment # h.inv
      BY <1>2, <1>7, <1>10 DEF Kept, Requested, Exists
    <3>3. \A q, p \in Requests :
            Exists(q)' /\ Exists(p)' /\ request'[q].investment = request'[p].investment => q = p
      BY <1>5, <1>10, <3>1, <3>2 DEF Kept, Requested
    <3>4. h.inv \notin {None} /\ investment[h.inv].status # "active"
      BY <1>4, <1>7, PrimaryConstants
    <3>5. \A q \in Requests : q # r =>
            request'[q].status = request[q].status /\ request'[q].investment = request[q].investment
            /\ (Exists(q)' <=> Exists(q))
      BY <1>5 DEF Exists
    <3>6. \A q \in Requests : q # r =>
            /\ credits[q] = IF request[q].status = "confirmed" THEN 1 ELSE 0
            /\ ~Exists(q) => request[q].investment = None
            /\ Exists(q) => /\ investment[request[q].investment].status \in Payers
                           /\ (investment[request[q].investment].status = "active")
                                = (request[q].status = "confirmed")
      BY <1>2, <1>10 DEF Kept, Requested
    <3>7. credits[r] = 0
      BY <1>2, <1>10 DEF Kept, Requested
    <3>8. /\ credits'[r] = 0 /\ request'[r].status = "awaiting_payment" /\ Exists(r)'
          /\ request'[r].investment = g.inv /\ investment'[g.inv].status # "active"
      BY <1>2, <1>3, <1>5, <3>1, <3>4, <3>7
    <3>9. \A q \in Requests : q # r =>
            /\ credits'[q] = IF request'[q].status = "confirmed" THEN 1 ELSE 0
            /\ ~Exists(q)' => request'[q].investment = None
            /\ Exists(q)' => /\ investment'[request'[q].investment].status \in Payers
                            /\ (investment'[request'[q].investment].status = "active")
                                 = (request'[q].status = "confirmed")
      <4> SUFFICES ASSUME NEW q \in Requests, q # r
                   PROVE  /\ credits'[q] = IF request'[q].status = "confirmed" THEN 1 ELSE 0
                          /\ ~Exists(q)' => request'[q].investment = None
                          /\ Exists(q)' =>
                               /\ investment'[request'[q].investment].status \in Payers
                               /\ (investment'[request'[q].investment].status = "active")
                                    = (request'[q].status = "confirmed")
        OBVIOUS
      <4>1. /\ request'[q].status = request[q].status
            /\ request'[q].investment = request[q].investment
            /\ (Exists(q)' <=> Exists(q)) /\ credits' = credits /\ investment' = investment
        BY <1>2, <3>5
      <4> QED
        BY <3>6, <4>1
    <3> QED
      BY <1>3, <3>3, <3>8, <3>9 DEF Requested
  <2>4. Owns(g)'
    BY <1>2, <1>3, <1>6, <1>10, OwnsStays DEF Kept
  <2>5. Matched(g)'
    BY <1>2, <1>3, <1>5, <1>10 DEF Kept, Matched
  <2>6. Served(g)'
    BY <1>2, <1>3, <1>10, ServedStays DEF Kept
  <2> QED
    BY <2>1, <2>2, <2>3, <2>4, <2>5, <2>6 DEF Kept
<1> QED
  BY <1>2, <1>8, <1>9, <1>10, ItLeads

-----------------------------------------------------------------------------
(* Steps that write investments.                                           *)

LEMMA InsertLeads ==
  ASSUME PrimaryInv, PrimaryInv', NEW c \in Calls, NEW h, At(c, h), InsertInvestment(c),
         deaths' = deaths
  PROVE  Leads(c)
<1>0. PICK doc : doc = [status |-> IF h.read = 1 THEN "contract_pending" ELSE "kyc_pending",
                        intent |-> h.on, linked |-> FALSE]
  OBVIOUS
<1>1. PICK x \in Investments :
        /\ h.step = "insert" /\ investment[x].status = "none"
        /\ call' = [call EXCEPT ![c] = [h EXCEPT !.step = "contract", !.inv = x, !.read = 0]]
        /\ investment' = [investment EXCEPT ![x] = doc]
        /\ UNCHANGED <<intent, kyc, contract, request, credits, tx, ownership, raised>>
  BY <1>0 DEF At, InsertInvestment, Continue, peopleVars, moneyVars, bookVars
<1>2. PICK g : g = [h EXCEPT !.step = "contract", !.inv = x, !.read = 0]
  OBVIOUS
<1>3. g.step = "contract" /\ g.inv = x /\ g.on = h.on /\ h.on \in Intents /\ h.on # None
  BY <1>1, <1>2, PrimaryConstants DEF At, State, Informed
<1>4. doc.status \in Pending /\ doc.intent = h.on
  BY <1>0
<1>5. \A y \in Investments : investment'[y] = IF y = x THEN doc ELSE investment[y]
  BY <1>1 DEF PrimaryInv, TypedDocuments
<1>6. SameTotals
  BY <1>1, <1>4, <1>5, TotalsStay
<1>7. Moves(g)'
  BY <1>3, MovesStays
<1>8. Raised(g)'
  BY <1>1, <1>3, <1>6, RaisedStays DEF At, Books
<1>9. ASSUME Kept(h) PROVE Kept(g)'
  <2>1. contract[x].status = "none" /\ ~contract[x].signed
    BY <1>1 DEF PrimaryInv, Documents
  <2>2. Placed(g)'
    <3>1. intent[h.on] = "submitted" /\ investment[x].intent = None
      BY <1>1, <1>9 DEF Kept, Placed
    <3>2. \A y \in Investments : investment[y].intent # h.on
      BY <1>1, <1>3, <1>9, <3>1 DEF Kept, Placed
    <3>3. \A y \in Investments :
            investment[y].intent # None => intent[investment[y].intent] = "converted"
      BY <1>1, <1>9 DEF Kept, Placed
    <3>4. \A y, z \in Investments :
            investment'[y].intent = investment'[z].intent /\ investment'[y].intent # None => y = z
      BY <1>4, <1>5, <1>9, <3>2 DEF Kept, Placed
    <3>5. \A y \in Investments : investment'[y].intent # None =>
            /\ investment'[y].status # "none"
            /\ \/ intent[investment'[y].intent] = "converted"
               \/ y = x /\ investment'[y].intent = h.on
      BY <1>4, <1>5, <1>9, <3>3 DEF Kept, Placed
    <3>6. \A i \in Intents :
            intent[i] = "converted" => \E y \in Investments : investment'[y].intent = i
      <4> SUFFICES ASSUME NEW i \in Intents, intent[i] = "converted"
                   PROVE  \E y \in Investments : investment'[y].intent = i
        OBVIOUS
      <4>1. PICK y \in Investments : investment[y].intent = i
        BY <1>9 DEF Kept, Placed
      <4>2. i # None
        BY PrimaryConstants
      <4> QED
        BY <1>5, <3>1, <4>1, <4>2
    <3> QED
      BY <1>1, <1>3, <1>4, <1>5, <3>1, <3>4, <3>5, <3>6 DEF Placed
  <2>3. Contracted(g)'
    BY <1>1, <1>3, <1>4, <1>5, <1>9, <2>1 DEF Kept, Contracted
  <2>4. Requested(g)'
    <3>1. \A r \in Requests : Exists(r) => request[r].investment \in Investments
                                          /\ request[r].investment # x
      BY <1>1 DEF PrimaryInv, Documents, Exists
    <3> QED
      BY <1>1, <1>3, <1>5, <1>9, <3>1 DEF Kept, Requested, Exists
  <2>5. Owns(g)'
    BY <1>1, <1>3, <1>6, <1>9, OwnsStays DEF Kept
  <2>6. Matched(g)'
    BY <1>1, <1>3, <1>9, MatchedStays DEF Kept
  <2>7. Served(g)'
    BY <1>1, <1>3, <1>5, <1>9, <2>1 DEF Kept, Served, Waits, InvestorOf
  <2> QED
    BY <2>2, <2>3, <2>4, <2>5, <2>6, <2>7 DEF Kept
<1> QED
  BY <1>1, <1>2, <1>7, <1>8, <1>9, ItLeads

LEMMA LinkLeads ==
  ASSUME PrimaryInv, PrimaryInv', NEW c \in Calls, NEW h, At(c, h), LinkContract(c),
         deaths' = deaths
  PROVE  Leads(c)
<1>1. PICK g : g = [h EXCEPT !.step = "close"]
  OBVIOUS
<1>2. /\ h.step = "link" /\ call' = [call EXCEPT ![c] = g]
      /\ investment' = [investment EXCEPT ![h.inv].linked = TRUE]
      /\ UNCHANGED <<intent, kyc, contract, request, credits, tx, ownership, raised>>
  BY <1>1 DEF At, LinkContract, Goto, Continue, peopleVars, moneyVars, bookVars
<1>3. g.step = "close" /\ g.inv = h.inv /\ g.on = h.on /\ h.inv \in Investments
  BY <1>1, <1>2 DEF At, State, Informed
<1>4. \A y \in Investments :
        /\ investment'[y].status = investment[y].status
        /\ investment'[y].intent = investment[y].intent
        /\ y # h.inv => investment'[y] = investment[y]
        /\ y = h.inv => investment'[y].linked
  BY <1>2, <1>3 DEF PrimaryInv, TypedDocuments
<1>5. SameTotals
  BY <1>4, TotalsStay
<1>6. Moves(g)'
  BY <1>3, MovesStays
<1>7. Raised(g)'
  BY <1>2, <1>3, <1>5, RaisedStays DEF At, Books
<1>8. ASSUME Kept(h) PROVE Kept(g)'
  <2>1. Placed(g)'
    BY <1>2, <1>3, <1>4, <1>8 DEF Kept, Placed
  <2>2. Contracted(g)'
    BY <1>2, <1>3, <1>4, <1>8 DEF Kept, Contracted
  <2>3. Requested(g)'
    <3>1. \A r \in Requests : Exists(r) => request[r].investment \in Investments
      BY DEF PrimaryInv, Documents, Exists
    <3> QED
      BY <1>2, <1>3, <1>4, <1>8, <3>1 DEF Kept, Requested, Exists
  <2>4. Owns(g)'
    BY <1>2, <1>3, <1>5, <1>8, OwnsStays DEF Kept
  <2>5. Matched(g)'
    BY <1>2, <1>3, <1>8, MatchedStays DEF Kept
  <2>6. Served(g)'
    BY <1>2, <1>3, <1>4, <1>8 DEF Kept, Served, Waits, InvestorOf
  <2> QED
    BY <2>1, <2>2, <2>3, <2>4, <2>5, <2>6 DEF Kept
<1> QED
  BY <1>2, <1>6, <1>7, <1>8, ItLeads

\* An investment that no request pays for yet takes another status.
LEMMA StatusLeads ==
  ASSUME PrimaryInv, PrimaryInv', NEW c \in Calls, NEW h, At(c, h), NEW x \in Investments,
         NEW status \in {"contract_pending", "awaiting_payment", "cancelled"}, NEW g,
         call' = [call EXCEPT ![c] = g], deaths' = deaths,
         investment' = [investment EXCEPT ![x].status = status],
         UNCHANGED <<peopleVars, contract, moneyVars, bookVars>>,
         h.step \in {"move", "openMark", "cancelInvestment"},
         g.step \in {"idle", "move", "open", "openSigned"},
         investment[x].status \in Pending,
         h.step = "openMark" => h.inv = x /\ status = "awaiting_payment",
         h.step # "openMark" => status # "awaiting_payment",
         Kept(h) /\ status = "cancelled" => contract[x].status = "cancelled",
         h.step \in HookSteps => g.step = "idle" \/ g.on = h.on,
         Moves(g)',
         h.step \in HookSteps /\ g.step = "idle" => h.todo = {x} /\ h.step = "openMark",
         g.step = "openSigned" => h.step = "openMark" /\ g.todo = h.todo \ {x}
  PROVE  Leads(c)
<1>1. UNCHANGED <<intent, kyc, contract, request, credits, tx, ownership, raised>>
  BY DEF peopleVars, moneyVars, bookVars
<1>2. \A y \in Investments :
        /\ investment'[y].status = IF y = x THEN status ELSE investment[y].status
        /\ investment'[y].intent = investment[y].intent
        /\ investment'[y].linked = investment[y].linked
  BY DEF PrimaryInv, TypedDocuments
<1>3. SameTotals
  BY <1>2, TotalsStay
<1>4. Raised(g)'
  BY <1>1, <1>3, RaisedStays DEF At, Books
<1>5. ASSUME Kept(h) PROVE Kept(g)'
  <2>1. Placed(g)'
    BY <1>1, <1>2, <1>5 DEF Kept, Placed
  <2>2. Contracted(g)'
    BY <1>1, <1>2, <1>5 DEF Kept, Contracted
  <2>3. Requested(g)'
    <3>1. \A r \in Requests : Exists(r) => request[r].investment \in Investments
      BY DEF PrimaryInv, Documents, Exists
    <3>2. CASE h.step = "openMark"
      BY <1>1, <1>2, <1>5, <3>1, <3>2 DEF Kept, Requested, Exists
    <3>3. CASE h.step # "openMark"
      <4>1. \A r \in Requests : Exists(r) => request[r].investment # x
        BY <1>5, <3>3 DEF Kept, Requested
      <4> QED
        BY <1>1, <1>2, <1>5, <3>1, <3>3, <4>1 DEF Kept, Requested, Exists
    <3> QED
      BY <3>2, <3>3
  <2>4. Owns(g)'
    BY <1>1, <1>3, <1>5, OwnsStays DEF Kept
  <2>5. Matched(g)'
    BY <1>1, <1>5, MatchedStays DEF Kept
  <2>6. Served(g)'
    <3> SUFFICES ASSUME NEW y \in Investments, Waits(y)'
                 PROVE  /\ g.step \in HookSteps /\ g.on = InvestorOf(y)'
                        /\ g.step \in NarrowSteps => y \in g.todo
      BY DEF Served
    <3>1. InvestorOf(y)' = InvestorOf(y)
      BY <1>2 DEF InvestorOf
    <3>2. Waits(y) /\ (y = x => h.step # "openMark")
      BY <1>1, <1>2, <3>1 DEF Waits
    <3>3. h.step \in HookSteps /\ h.on = InvestorOf(y) /\ (h.step = "openMark" => y \in h.todo)
      BY <1>5, <3>2 DEF Kept, Served
    <3> QED
      BY <3>1, <3>2, <3>3
  <2> QED
    BY <2>1, <2>2, <2>3, <2>4, <2>5, <2>6 DEF Kept
<1> QED
  BY <1>4, <1>5, ItLeads

LEMMA StatusWriteLeads ==
  ASSUME PrimaryInv, PrimaryInv', NEW c \in Calls, NEW h, At(c, h),
         MoveToContract(c) \/ MarkAwaiting(c) \/ CancelInvestment(c), deaths' = deaths
  PROVE  Leads(c)
<1>1. CASE MoveToContract(c)
  <2>1. PICK x \in h.todo :
          /\ h.step = "move" /\ call' = [call EXCEPT ![c] = NextOf(c, h.todo \ {x}, "move", "open")]
          /\ investment' = [investment EXCEPT ![x].status = "contract_pending"]
          /\ UNCHANGED <<peopleVars, contract, moneyVars, bookVars>>
    BY <1>1 DEF At, MoveToContract, Continue
  <2>2. PICK g : g = NextOf(c, h.todo \ {x}, "move", "open")
    OBVIOUS
  <2>3. g.step \in {"move", "open"} /\ g.on = h.on /\ g.todo = h.todo \ {x}
    BY <2>2 DEF At, State, NextOf
  <2>4. x \in Investments /\ h.todo \subseteq Investments /\ Moves(h)
    BY <2>1 DEF At, State, Books
  <2>5. investment[x].status \in Pending
    BY <2>1, <2>4 DEF Moves
  <2>6. Moves(g)'
    <3>1. \A y \in g.todo : investment'[y].status = investment[y].status
      BY <2>1, <2>3, <2>4 DEF PrimaryInv, TypedDocuments
    <3> QED
      BY <2>1, <2>3, <2>4, <3>1 DEF Moves
  <2> QED
    BY <2>1, <2>2, <2>3, <2>4, <2>5, <2>6, StatusLeads
<1>2. CASE MarkAwaiting(c)
  <2>1. /\ h.step = "openMark" /\ OpenNext(c, "openMark", h.inv)
        /\ investment' = [investment EXCEPT ![h.inv].status = "awaiting_payment"]
        /\ UNCHANGED <<peopleVars, contract, moneyVars, bookVars>>
    BY <1>2 DEF At, MarkAwaiting
  <2>2. PICK g : /\ call' = [call EXCEPT ![c] = g]
                 /\ IF h.todo = {h.inv} THEN g.step = "idle"
                    ELSE g.step = "openSigned" /\ g.on = h.on /\ g.todo = h.todo \ {h.inv}
    BY <2>1, OpenNextGoes
  <2>3. h.inv \in h.todo /\ h.todo \subseteq Investments /\ h.inv \in Investments /\ Moves(h)
    BY <2>1 DEF At, State, Informed, Books
  <2>4. investment[h.inv].status \in Pending
    BY <2>1, <2>3 DEF Moves
  <2>5. Moves(g)'
    <3>1. \A y \in h.todo \ {h.inv} : investment'[y].status = investment[y].status
      BY <2>1, <2>3 DEF PrimaryInv, TypedDocuments
    <3> QED
      BY <2>1, <2>2, <2>3, <3>1 DEF Moves
  <2>6. /\ g.step \in {"idle", "openSigned"} /\ (g.step = "idle" \/ g.on = h.on)
        /\ g.step = "idle" => h.todo = {h.inv}
        /\ g.step = "openSigned" => g.todo = h.todo \ {h.inv}
    BY <2>2
  <2> QED
    BY <2>1, <2>2, <2>3, <2>4, <2>5, <2>6, StatusLeads
<1>3. CASE CancelInvestment(c)
  <2>1. /\ h.step = "cancelInvestment" /\ call' = [call EXCEPT ![c] = Idle]
        /\ investment' = [investment EXCEPT ![h.inv].status = "cancelled"]
        /\ UNCHANGED <<peopleVars, contract, moneyVars, bookVars>>
    BY <1>3 DEF At, CancelInvestment, Continue
  <2>2. PICK g : g = Idle /\ g.step = "idle"
    BY IdleIsInformed
  <2>3. h.inv \in Investments /\ investment[h.inv].status \in Pending
    BY <2>1 DEF At, Informed, Books, Moves
  <2>4. Kept(h) => contract[h.inv].status = "cancelled"
    BY <2>1 DEF Kept, Contracted
  <2>5. Moves(g)'
    BY <2>2, MovesStays
  <2> QED
    BY <2>1, <2>2, <2>3, <2>4, <2>5, StatusLeads
<1> QED
  BY <1>1, <1>2, <1>3

\* The investment that was paid for becomes active: from here on the units of
\* its owner, and the sum raised, are to be recomputed.
LEMMA ActivateLeads ==
  ASSUME PrimaryInv, PrimaryInv', NEW c \in Calls, NEW h, At(c, h), ActivateInvestment(c),
         deaths' = deaths
  PROVE  Leads(c)
<1>1. PICK g : g = [h EXCEPT !.step = "readOwned"]
  OBVIOUS
<1>2. PICK x : x = request[h.req].investment
  OBVIOUS
<1>3. /\ h.step = "activateInvestment" /\ call' = [call EXCEPT ![c] = g]
      /\ investment' = [investment EXCEPT ![x].status = "active"]
      /\ UNCHANGED <<intent, kyc, contract, request, credits, tx, ownership, raised>>
  BY <1>1, <1>2 DEF At, ActivateInvestment, Goto, Continue, peopleVars, moneyVars, bookVars
<1>4. /\ g.step = "readOwned" /\ g.req = h.req /\ h.req \in Requests
      /\ request[h.req].status # "none"
  BY <1>1, <1>3 DEF At, State, Informed
<1>5. x \in Investments
  BY <1>2, <1>4 DEF PrimaryInv, Documents
<1>6. \A y \in Investments :
        /\ investment'[y].status = IF y = x THEN "active" ELSE investment[y].status
        /\ investment'[y].intent = investment[y].intent
        /\ investment'[y].linked = investment[y].linked
  BY <1>3 DEF PrimaryInv, TypedDocuments
<1>7. Moves(g)'
  BY <1>4, MovesStays
<1>8. Raised(g)'
  BY <1>4 DEF Raised
<1>9. ASSUME Kept(h) PROVE Kept(g)'
  <2>1. request[h.req].status = "confirmed" /\ investment[x].status \in Payers
    BY <1>2, <1>3, <1>4, <1>9 DEF Kept, Requested, Exists
  <2>2. Placed(g)'
    BY <1>3, <1>4, <1>6, <1>9 DEF Kept, Placed
  <2>3. Contracted(g)'
    BY <1>3, <1>4, <1>6, <1>9 DEF Kept, Contracted
  <2>4. Requested(g)'
    <3>1. \A r \in Requests :
            Exists(r) /\ r # h.req => request[r].investment \in Investments \ {x}
      BY <1>2, <1>4, <1>9 DEF PrimaryInv, Documents, Exists, Kept, Requested
    <3>2. \A r \in Requests : Exists(r) /\ r # h.req =>
            /\ investment'[request[r].investment].status \in Payers
            /\ (investment'[request[r].investment].status = "active")
                 = (request[r].status = "confirmed")
      BY <1>3, <1>6, <1>9, <3>1 DEF Kept, Requested
    <3>3. \A r \in Requests :
            /\ credits[r] = IF request[r].status = "confirmed" THEN 1 ELSE 0
            /\ ~Exists(r) => request[r].investment = None
      BY <1>3, <1>9 DEF Kept, Requested
    <3>4. \A q, r \in Requests :
            Exists(q) /\ Exists(r) /\ request[q].investment = request[r].investment => q = r
      BY <1>9 DEF Kept, Requested
    <3>5. investment'[request[h.req].investment].status = "active"
      BY <1>2, <1>5, <1>6
    <3>6. UNCHANGED <<request, credits>> /\ \A r \in Requests : Exists(r)' <=> Exists(r)
      BY <1>3 DEF Exists
    <3> QED
      BY <1>4, <2>1, <3>2, <3>3, <3>4, <3>5, <3>6 DEF Requested
  <2>5. Owns(g)'
    <3>1. Subject(g)' = InvestorOf(x)
      BY <1>2, <1>3, <1>4, <1>5, <1>6 DEF Subject, InvestorOf
    <3>2. ASSUME NEW p \in Investors, p # InvestorOf(x)
          PROVE  Active(p)' = Active(p) /\ Owned(p)' = Owned(p)
      <4>1. Active(p)' = Active(p)
        BY <1>6, <3>2 DEF Active, InvestorOf
      <4>2. PICK X : X = Active(p) /\ X \in SUBSET Investments
        BY DEF Active
      <4>3. PICK f : f = Invested
        OBVIOUS
      <4>4. PICK k : k = Invested'
        OBVIOUS
      <4>5. \A y \in X : f[y] = k[y]
        BY <1>6, <4>2, <4>3, <4>4 DEF Invested
      <4>6. SumOver(f, X) = SumOver(k, X)
        BY <4>2, <4>5, SumAgree, FS_Subset, PrimaryConstants
      <4>7. Owned(p) = SumOver(f, X)
        BY <4>2, <4>3 DEF Owned, Total, SumOver
      <4>8. Owned(p)' = SumOver(k, X)
        <5>1. Owned(p)' = Total(Invested', X)
          BY <4>1, <4>2 DEF Owned
        <5>2. Total(k, X) = SumOver(k, X)
          BY DEF Total, SumOver
        <5> QED
          BY <4>4, <5>1, <5>2
      <4> QED
        BY <4>1, <4>6, <4>7, <4>8
    <3> QED
      BY <1>3, <1>4, <1>9, <3>1, <3>2 DEF Kept, Owns
  <2>6. Matched(g)'
    BY <1>3, <1>4, <1>9 DEF Kept, Matched
  <2>7. Served(g)'
    BY <1>3, <1>6, <1>9 DEF Kept, Served, Waits, InvestorOf
  <2> QED
    BY <2>2, <2>3, <2>4, <2>5, <2>6, <2>7 DEF Kept
<1> QED
  BY <1>3, <1>7, <1>8, <1>9, ItLeads

-----------------------------------------------------------------------------
(* Every step.                                                             *)

LEMMA RestartBooks ==
  ASSUME PrimaryInv, PrimaryInv', BooksInv, Restart
  PROVE  BooksInv'
<1>1. /\ call' = [c \in Calls |-> Idle] /\ deaths' = deaths + 1 /\ overlaps' = overlaps
      /\ raised' = ActiveTotal
      /\ investment' = [x \in Investments |->
           IF x \in Unmade THEN [investment[x] EXCEPT !.linked = TRUE] ELSE investment[x]]
  BY DEF Restart, Startup, Backfill
<1>2. \A x \in Investments : /\ investment'[x].status = investment[x].status
                              /\ investment'[x].intent = investment[x].intent
  BY <1>1 DEF PrimaryInv, TypedDocuments
<1>3. SameTotals
  BY <1>2, TotalsStay
<1>4. PICK g \in State : g = Idle /\ g.step = "idle"
  BY IdleIsInformed
<1>5. UnderWay(g)'
  BY <1>1, <1>4 DEF UnderWay, Quiet
<1>6. Moves(g)' /\ Raised(g)'
  BY <1>1, <1>3, <1>4 DEF Moves, Raised, SameTotals
<1>7. overlaps' \in Nat /\ deaths' \in Nat /\ deaths' # 0
  BY <1>1 DEF BooksInv
<1> QED
  BY <1>4, <1>5, <1>6, <1>7 DEF BooksInv, Books

LEMMA ArriveLeads ==
  ASSUME PrimaryInv, PrimaryInv', NEW c \in Calls, At(c, Idle), Arrive(c)
  PROVE  Leads(c)
BY IntentBegins, KycBegins, ContractBegins, PublicSignLeads, RequestBegins, TxBegins,
   TxIngestLeads DEF Arrive

LEMMA HandlerLeads ==
  ASSUME PrimaryInv, PrimaryInv', NEW c \in Calls, NEW h, At(c, h), Handler(c), deaths' = deaths
  PROVE  Leads(c)
BY ApproveReadLeads, InsertLeads, ContractInsertLeads, LinkLeads, IntentLeads, KycLeads, GateLeads,
   ActivateFindLeads, StatusWriteLeads, OpenFindLeads, OpenReadLeads, OpenExistingLeads,
   InsertRequestLeads, ContractWriteLeads, CancelReadLeads, RequestWriteLeads, ConfirmLeads,
   CreditLeads, ActivateLeads, SumLeads, OwnedLeads, RaisedLeads, ChooseLeads, TxLeads
DEF Handler

\* An arrival finds a free slot and counts when it overlaps another call.
LEMMA ArrivesIdle ==
  ASSUME NEW c \in Calls, Arrive(c)
  PROVE  /\ call[c] = Idle /\ deaths' = deaths
         /\ overlaps' = IF Quiet THEN overlaps ELSE overlaps + 1
BY DEF Arrive, ApproveIntent, RejectIntent, EditProfile, SubmitKyc, DecideKyc, ViewContract,
       SignContract, PublicSign, CancelContract, UploadProof, DeleteProof, SubmitPayment,
       ConfirmPayment, RejectPayment, RequestClarification, OnRequest, IngestTx, RematchTx,
       RejectTx, Begin, Arrived

LEMMA HandlesOwn ==
  ASSUME PrimaryInv, NEW c \in Calls, Handler(c)
  PROVE  call[c].step # "idle" /\ UNCHANGED <<overlaps, deaths>>
<1> DEFINE Own == call[c].step # "idle" /\ UNCHANGED <<overlaps, deaths>>
<1>1. ASSUME ApproveReadKyc(c) \/ InsertInvestment(c) \/ InsertContract(c) \/ LinkContract(c)
             \/ CloseIntent(c) \/ RejectIntentWrite(c) \/ KycWrite(c)
      PROVE  Own
  BY <1>1 DEF ApproveReadKyc, InsertInvestment, InsertContract, LinkContract, CloseIntent,
              RejectIntentWrite, DecideIntent, KycWrite, WriteKyc, Goto, Continue
<1>2. ASSUME ActivateReadKyc(c) \/ ActivateFind(c) \/ MoveToContract(c)
             \/ OpenReadKyc(c) \/ OpenFind(c) \/ OpenReadContract(c) \/ OpenFindExisting(c)
             \/ InsertRequest(c) \/ MarkAwaiting(c)
      PROVE  Own
  BY <1>2 DEF ActivateReadKyc, ActivateFind, MoveToContract, OpenReadKyc, GateKyc, OpenFind,
              OpenReadContract, OpenFindExisting, InsertRequest, MarkAwaiting, OpenNext, Goto,
              Continue
<1>3. ASSUME ContractWrite(c) \/ CancelReadInvestment(c) \/ CancelInvestment(c) \/ RequestWrite(c)
             \/ ConfirmRequest(c) \/ LedgerAppend(c) \/ ActivateInvestment(c)
      PROVE  Own
  BY <1>3 DEF ContractWrite, WriteContract, CancelReadInvestment, CancelInvestment, RequestWrite,
              WriteRequest, ConfirmRequest, LedgerAppend, ActivateInvestment, Goto, Continue
<1>4. ASSUME ReadOwned(c) \/ WriteOwned(c) \/ ReadRaised(c) \/ WriteRaised(c)
             \/ ChooseRequest(c) \/ TxWrite(c)
      PROVE  Own
  BY <1>4 DEF ReadOwned, WriteOwned, ReadRaised, WriteRaised, ChooseRequest, TxWrite, WriteTx,
              Continue
<1> QED
  BY <1>1, <1>2, <1>3, <1>4 DEF Handler

LEMMA LeadsOn ==
  ASSUME PrimaryInv, NEW c \in Calls, Leads(c), \A d \in Calls \ {c} : call[d] = Idle
  PROVE  \E g \in State : UnderWay(g)' /\ Books(g)'
<1>1. PICK g \in State : call' = [call EXCEPT ![c] = g] /\ Books(g)'
  BY DEF Leads
<1>2. \A d \in Calls : call'[d] = IF d = c THEN g ELSE Idle
  BY <1>1 DEF PrimaryInv
<1>3. UnderWay(g)'
  BY <1>2 DEF UnderWay, Quiet
<1> QED
  BY <1>1, <1>3

LEMMA CallBooks ==
  ASSUME PrimaryInv, PrimaryInv', BooksInv, NEW c \in Calls, Arrive(c) \/ Handler(c)
  PROVE  BooksInv'
<1>1. CASE Arrive(c)
  <2>1. /\ call[c] = Idle /\ deaths' = deaths
        /\ overlaps' = IF Quiet THEN overlaps ELSE overlaps + 1
    BY <1>1, ArrivesIdle
  <2>2. overlaps' \in Nat /\ deaths' \in Nat /\ (overlaps' = 0 => Quiet /\ overlaps = 0)
    BY <2>1 DEF BooksInv
  <2>3. ASSUME overlaps' = 0 PROVE \E g \in State : UnderWay(g)' /\ Books(g)'
    <3>1. Quiet /\ Books(Idle)
      BY <2>2, <2>3 DEF BooksInv, UnderWay
    <3>2. At(c, Idle)
      BY <2>1, <3>1, IdleIsInformed DEF At
    <3>3. Leads(c)
      BY <1>1, <3>2, ArriveLeads
    <3> QED
      BY <3>1, <3>3, LeadsOn DEF Quiet
  <2> QED
    BY <2>2, <2>3 DEF BooksInv
<1>2. CASE Handler(c)
  <2>1. call[c].step # "idle" /\ UNCHANGED <<overlaps, deaths>>
    BY <1>2, HandlesOwn
  <2>2. ASSUME overlaps' = 0 PROVE \E g \in State : UnderWay(g)' /\ Books(g)'
    <3>1. PICK h \in State : UnderWay(h) /\ Books(h)
      BY <2>1, <2>2 DEF BooksInv
    <3>2. call[c] # Idle
      BY <2>1, IdleIsInformed
    <3>3. call[c] = h /\ \A d \in Calls \ {c} : call[d] = Idle
      BY <3>1, <3>2 DEF UnderWay, Quiet
    <3>4. Informed(call[c])
      BY DEF PrimaryInv
    <3>5. Informed(h)
      BY <3>3, <3>4
    <3>6. At(c, h)
      BY <3>1, <3>3, <3>5 DEF At
    <3>7. Leads(c)
      BY <1>2, <2>1, <3>6, HandlerLeads
    <3> QED
      BY <3>3, <3>7, LeadsOn
  <2> QED
    BY <2>1, <2>2 DEF BooksInv
<1> QED
  BY <1>1, <1>2

LEMMA StepBooksInv == PrimaryInv /\ PrimaryInv' /\ BooksInv /\ [Next]_vars => BooksInv'
<1>1. PrimaryInv /\ PrimaryInv' /\ BooksInv /\ Next => BooksInv'
  BY RestartBooks, CallBooks DEF Next
<1>2. PrimaryInv /\ PrimaryInv' /\ BooksInv /\ UNCHANGED vars => BooksInv'
  <2> SUFFICES ASSUME PrimaryInv, PrimaryInv', BooksInv, UNCHANGED vars PROVE BooksInv'
    OBVIOUS
  <2>1. UNCHANGED docs /\ UNCHANGED <<call, overlaps, deaths>>
    BY DEF vars
  <2>2. ASSUME NEW h \in State, UnderWay(h), Books(h) PROVE UnderWay(h)' /\ Books(h)'
    <3>1. UnderWay(h)'
      BY <2>1, <2>2 DEF UnderWay, Quiet
    <3>2. UNCHANGED <<intent, kyc, investment, contract, request, credits, tx, ownership, raised>>
      BY <2>1, DocsStay
    <3>3. SameTotals
      BY <2>1, DocsStay
    <3>4. Books(h)'
      <4>1. Moves(h)'
        BY <2>2, <3>2 DEF Books, Moves
      <4>2. Raised(h)'
        BY <2>2, <3>2, <3>3 DEF Books, Raised, SameTotals
      <4>3. ASSUME Kept(h) PROVE Kept(h)'
        <5>1. Placed(h)'
          BY <3>2, <4>3 DEF Kept, Placed
        <5>2. Contracted(h)'
          BY <3>2, <4>3 DEF Kept, Contracted
        <5>3. Requested(h)'
          BY <3>2, <4>3 DEF Kept, Requested, Exists
        <5>4. Owns(h)'
          BY <3>2, <4>3 DEF Kept, Owns, Subject, Owned, Active, Invested, InvestorOf
        <5>5. Matched(h)'
          BY <3>2, <4>3 DEF Kept, Matched
        <5>6. Served(h)'
          BY <3>2, <4>3 DEF Kept, Served, Waits, InvestorOf
        <5> QED
          BY <5>1, <5>2, <5>3, <5>4, <5>5, <5>6 DEF Kept
      <4> QED
        BY <2>1, <2>2, <4>1, <4>2, <4>3 DEF Books
    <3> QED
      BY <3>1, <3>4
  <2> QED
    BY <2>1, <2>2 DEF BooksInv
<1> QED
  BY <1>1, <1>2

LEMMA InitBooksInv == Init => BooksInv
<1> SUFFICES ASSUME Init PROVE BooksInv
  OBVIOUS
<1>1. Idle \in State /\ Idle.step = "idle"
  BY IdleIsInformed
<1>2. UnderWay(Idle)
  BY DEF Init, UnderWay, Quiet
<1>3. \A x \in Investments : investment[x].status = "none" /\ investment[x].intent = None
                              /\ contract[x].status = "none" /\ ~contract[x].signed
  BY DEF Init
<1>4. \A r \in Requests :
        request[r].status = "none" /\ request[r].investment = None /\ credits[r] = 0
  BY DEF Init
<1>5. Moves(Idle)
  BY <1>1 DEF Moves
<1>6. Raised(Idle)
  <2>1. {x \in Investments : investment[x].status = "active"} = {}
    BY <1>3
  <2>2. PICK f : f = Invested
    OBVIOUS
  <2>3. SumOver(f, {}) = 0
    BY SumEmpty
  <2>4. ActiveTotal = 0
    BY <2>1, <2>2, <2>3 DEF ActiveTotal, Total, SumOver
  <2> QED
    BY <1>1, <2>4 DEF Raised, Init
<1>7. Placed(Idle)
  BY <1>1, <1>3 DEF Placed, Init
<1>8. Contracted(Idle)
  BY <1>1, <1>3 DEF Contracted
<1>9. Requested(Idle)
  BY <1>1, <1>4 DEF Requested, Exists
<1>10. Owns(Idle)
  BY <1>1, <1>3 DEF Owns, Active, Init
<1>11. Matched(Idle)
  BY <1>1 DEF Matched, Init
<1>12. Served(Idle)
  BY <1>1, <1>3 DEF Served, Waits
<1>13. Kept(Idle)
  BY <1>7, <1>8, <1>9, <1>10, <1>11, <1>12 DEF Kept
<1>14. overlaps \in Nat /\ deaths \in Nat
  BY DEF Init
<1> QED
  BY <1>1, <1>2, <1>5, <1>6, <1>13, <1>14 DEF BooksInv, Books

LEMMA BooksFollow == PrimaryInv /\ BooksInv => BooksAgree
<1> SUFFICES ASSUME PrimaryInv, BooksInv, Quiet, overlaps = 0
             PROVE  raised = ActiveTotal /\ (deaths = 0 => InvestedOnce /\ NobodyWaits)
  BY DEF BooksAgree
<1>1. PICK h : h = Idle /\ h.step = "idle"
  BY IdleIsInformed
<1>2. Books(h)
  BY <1>1 DEF BooksInv, UnderWay
<1>3. raised = ActiveTotal
  BY <1>1, <1>2 DEF Books, Raised
<1>4. ASSUME deaths = 0 PROVE InvestedOnce /\ NobodyWaits
  <2>1. Kept(h)
    BY <1>2, <1>4 DEF Books
  <2>2. ASSUME NEW i \in Intents
        PROVE  Cardinality({x \in Investments : investment[x].intent = i}) =
                 (IF intent[i] = "converted" THEN 1 ELSE 0)
    <3>1. i # None
      BY PrimaryConstants
    <3>2. CASE intent[i] = "converted"
      <4>1. PICK x \in Investments : investment[x].intent = i
        BY <2>1, <3>2 DEF Kept, Placed
      <4>2. {y \in Investments : investment[y].intent = i} = {x}
        BY <2>1, <3>1, <4>1 DEF Kept, Placed
      <4> QED
        BY <3>2, <4>2, FS_Singleton
    <3>3. CASE intent[i] # "converted"
      <4>1. {y \in Investments : investment[y].intent = i} = {}
        BY <1>1, <2>1, <3>1, <3>3 DEF Kept, Placed
      <4> QED
        BY <3>3, <4>1, FS_EmptySet
    <3> QED
      BY <3>2, <3>3
  <2>3. ASSUME NEW x \in Investments
        PROVE  LET R == {r \in Requests : request[r].status # "none" /\ request[r].investment = x}
               IN /\ Cardinality(R) <= 1
                  /\ \A r \in R : credits[r] = (IF investment[x].status = "active" THEN 1 ELSE 0)
                  /\ investment[x].status = "active" => contract[x].status = "signed"
    <3> DEFINE R == {r \in Requests : request[r].status # "none" /\ request[r].investment = x}
    <3>1. \A q, r \in R : q = r
      BY <2>1 DEF Kept, Requested, Exists
    <3>2. Cardinality(R) <= 1
      <4> HIDE DEF R
      <4>1. CASE R = {}
        BY <4>1, FS_EmptySet
      <4>2. CASE R # {}
        <5>1. PICK r \in R : TRUE
          BY <4>2
        <5>2. R = {r}
          BY <3>1, <5>1
        <5>3. Cardinality(R) = 1
          BY <5>2, FS_Singleton
        <5> QED
          BY <5>3
      <4> QED
        BY <4>1, <4>2
    <3>3. \A r \in R : credits[r] = (IF investment[x].status = "active" THEN 1 ELSE 0)
      BY <1>1, <2>1 DEF Kept, Requested, Exists
    <3>4. investment[x].status = "active" => contract[x].status = "signed"
      BY <2>1 DEF Kept, Contracted, PrimaryInv, ActivationIsEarned
    <3> QED
      BY <3>2, <3>3, <3>4
  <2>4. \A p \in Investors : ownership[p] = (IF Active(p) = {} THEN None ELSE Owned(p))
    BY <1>1, <2>1 DEF Kept, Owns
  <2>5. \A t, u \in Txs :
          tx[t].status = "reconciled" =>
            /\ request[tx[t].request].status = "confirmed"
            /\ tx[u].status = "reconciled" /\ t # u => tx[u].request # tx[t].request
    BY <2>1 DEF Kept, Matched
  <2>6. InvestedOnce
    BY <2>2, <2>3, <2>4, <2>5 DEF InvestedOnce
  <2>7. NobodyWaits
    BY <1>1, <2>1 DEF Kept, Served, Waits, NobodyWaits
  <2> QED
    BY <2>6, <2>7
<1> QED
  BY <1>3, <1>4

\* While calls come one after the other, whenever none is under way: the sum
\* raised is that of the active investments, even after restarts cut calls off;
\* and without restarts every intent approved is one investment, with one
\* request credited once, the units of its owner and nobody left waiting.
\* Approval, signature, verification and payment each advance the others'
\* documents by hooks (lumen_investment_core.py, lumen_contracts.py,
\* lumen_kyc.py, lumen_payments.py).
THEOREM PlatformBooksAgree == Spec => []BooksAgree
<1>1. PrimaryInv /\ PrimaryInv' /\ BooksInv /\ [Next]_vars => BooksInv'
  BY StepBooksInv
<1> QED
  BY <1>1, InitPrimaryInv, StepPrimaryInv, InitBooksInv, BooksFollow, PTL DEF Spec

\* Every document and handler holds values the code can put there.
THEOREM TypeCorrect == Spec => []TypeOK
<1>1. PrimaryInv /\ BooksInv => TypeOK
  BY DEF PrimaryInv, TypedDocuments, State, BooksInv, TypeOK
<1>2. PrimaryInv /\ PrimaryInv' /\ BooksInv /\ [Next]_vars => BooksInv'
  BY StepBooksInv
<1> QED
  BY <1>1, <1>2, InitPrimaryInv, StepPrimaryInv, InitBooksInv, PTL DEF Spec

=============================================================================
