----------------------------- MODULE Withdrawals -----------------------------
(***************************************************************************)
(* Wallet and withdrawal requests of one investor, src/backend/            *)
(* lumen_wallet.py: a request reserves money, an administrator takes it    *)
(* through review to a payment (one debit in the ledger) or a rejection,   *)
(* the investor may cancel it early.  The wallet document is a projection  *)
(* of the ledger and the open requests, rebuilt at the end of every call.  *)
(*                                                                         *)
(* A call id stands for one HTTP request.  Its handler runs from await to  *)
(* await and the handlers of other calls run in between.  Nothing in the   *)
(* code makes a call wait for another; Overlap says whether calls actually *)
(* overlap, so that what their overlapping costs can be told apart.        *)
(***************************************************************************)
EXTENDS Integers, FiniteSets, FiniteSetsExt

CONSTANTS
  Requests,    \* ids of withdrawal requests that may be created
  Calls,       \* ids of HTTP requests that may arrive
  None,        \* no request, no target
  Amounts,     \* amounts the investor may ask for, at least MIN_WITHDRAWAL_UAH
  Purchases,   \* amounts the investor may spend on the secondary market
  Opening,     \* balance of the ledger at the start
  Tol,         \* the hundredth of a hryvnia of create_withdrawal
  Overlap,     \* may calls overlap?
  AllowCrash   \* may a handler die between two of its awaits?

ASSUME WithdrawalConstants ==
  /\ None \notin Requests
  /\ Amounts \subseteq Nat \ {0}
  /\ Purchases \subseteq Nat \ {0}
  /\ Opening \in Nat
  /\ Tol \in Nat
  /\ Overlap \in BOOLEAN
  /\ AllowCrash \in BOOLEAN

\* What is summed over is finite.
ASSUME FiniteRequests == IsFiniteSet(Requests)

\* What is counted is finite.
ASSUME FiniteCalls == IsFiniteSet(Calls)

VARIABLES
  status,   \* status of each request, "none" before it is inserted
  history,  \* how often its history array has been pushed each status
  amount,   \* its amount_uah
  debits,   \* how many debit entries of the ledger were appended for it
  tagged,   \* how many of those carry its id
  settled,  \* credits minus debits of the investor's ledger entries
  wallet,   \* the materialised wallet: settled and pending balance
  call      \* the handlers

requestVars == <<status, history, amount>>
ledgerVars == <<debits, tagged, settled>>
vars == <<requestVars, ledgerVars, wallet, call>>

-----------------------------------------------------------------------------
Reserved == {"requested", "under_review", "approved", "processing"}
Terminal == {"paid", "rejected", "cancelled"}
Statuses == Reserved \cup Terminal
Cancellable == {"requested", "under_review"}

\* Mutant: a request under review may be paid before it is approved.
PaidFromReview ==
  [s \in Statuses |->
     CASE s = "requested"    -> {"under_review", "approved", "rejected"}
       [] s = "under_review" -> {"approved", "paid", "rejected"}
       [] s = "approved"     -> {"processing", "paid", "rejected"}
       [] s = "processing"   -> {"paid", "rejected"}
       [] s \in Terminal     -> {}]

\* What an administrator may do from each status.
AdminTransitions ==
  [s \in Statuses |->
     CASE s = "requested"    -> {"under_review", "approved", "rejected"}
       [] s = "under_review" -> {"approved", "rejected"}
       [] s = "approved"     -> {"processing", "paid", "rejected"}
       [] s = "processing"   -> {"paid", "rejected"}
       [] s \in Terminal     -> {}]

\* The awaits of the handlers: create_withdrawal starts at checkLedger,
\* admin_set_status at debit or write, cancel_withdrawal at write, and
\* each ends with recompute_wallet, which is all that get_wallet does.
Active == {"checkLedger", "checkReserved", "insert", "debit", "tag", "write",
           "sumLedger", "sumReserved", "save"}
Call == [step : Active \cup {"idle", "done", "lost"}, req : Requests \cup {None},
         target : Statuses \cup {None}, asked : Nat, sum : Int, held : Int]

Idle == [step |-> "idle", req |-> None, target |-> None, asked |-> 0, sum |-> 0, held |-> 0]
Done == [Idle EXCEPT !.step = "done"]

OpenRequests == {r \in Requests : status[r] \in Reserved}
Total(a, S) == MapThenSumSet(LAMBDA r : a[r], S)
Pending == Total(amount, OpenRequests)

Init ==
  /\ status = [r \in Requests |-> "none"]
  /\ history = [r \in Requests |-> [s \in Statuses |-> 0]]
  /\ amount = [r \in Requests |-> 0]
  /\ debits = [r \in Requests |-> 0]
  /\ tagged = [r \in Requests |-> 0]
  /\ settled = Opening
  /\ wallet = [settled |-> Opening, pending |-> 0]
  /\ call = [c \in Calls |-> Idle]

-----------------------------------------------------------------------------
(* Calls begin with a read and go on from step to step.                    *)

Begin(c, r, step, target, asked) ==
  /\ call[c] = Idle
  /\ Overlap \/ \A d \in Calls : call[d].step \notin Active
  /\ call' = [call EXCEPT ![c] = [step |-> step, req |-> r, target |-> target,
                                  asked |-> asked, sum |-> 0, held |-> 0]]

Goto(c, from, to) ==
  /\ call[c].step = from
  /\ call' = [call EXCEPT ![c].step = to]

\* The handler of c returns, raises or is lost: what it had read is gone.
Finish(c) == call' = [call EXCEPT ![c] = Done]

\* Push a status to the request of c.
SetStatus(c, s) ==
  /\ status' = [status EXCEPT ![call[c].req] = s]
  /\ history' = [history EXCEPT ![call[c].req][s] = @ + 1]

(* create_withdrawal: the balances, the check, the insert.                 *)

CreateBegin(c, r, a) ==
  /\ status[r] = "none"
  /\ \A d \in Calls : call[d].req # r
  /\ Begin(c, r, "checkLedger", None, a)
  /\ UNCHANGED <<requestVars, ledgerVars, wallet>>

CreateReadLedger(c) ==
  /\ call[c].step = "checkLedger"
  /\ call' = [call EXCEPT ![c].step = "checkReserved", ![c].sum = settled]
  /\ UNCHANGED <<requestVars, ledgerVars, wallet>>

\* Mutant: the amount is compared with the settled balance, reserves ignored.
CheckSettledOnly(c) ==
  /\ call[c].step = "checkReserved"
  /\ IF call[c].asked > call[c].sum + Tol THEN Finish(c) ELSE Goto(c, "checkReserved", "insert")
  /\ UNCHANGED <<requestVars, ledgerVars, wallet>>

CreateCheck(c) ==
  /\ call[c].step = "checkReserved"
  /\ LET available == call[c].sum - Pending
     IN IF call[c].asked > available + Tol THEN Finish(c) ELSE Goto(c, "checkReserved", "insert")
  /\ UNCHANGED <<requestVars, ledgerVars, wallet>>

\* Mutant: the wallet is not recomputed after the insert.
InsertOnly(c) ==
  /\ call[c].step = "insert"
  /\ Finish(c)
  /\ SetStatus(c, "requested")
  /\ amount' = [amount EXCEPT ![call[c].req] = call[c].asked]
  /\ UNCHANGED <<ledgerVars, wallet>>

CreateInsert(c) ==
  /\ Goto(c, "insert", "sumLedger")
  /\ SetStatus(c, "requested")
  /\ amount' = [amount EXCEPT ![call[c].req] = call[c].asked]
  /\ UNCHANGED <<ledgerVars, wallet>>

(* cancel_withdrawal and admin_set_status: the status is read and checked, *)
(* and written later whatever it has become.                               *)

CancelRead(c, r) ==
  /\ status[r] \in Cancellable
  /\ Begin(c, r, "write", "cancelled", 0)
  /\ UNCHANGED <<requestVars, ledgerVars, wallet>>

\* Mutant: only a request in processing is debited when it is paid.
DebitFromProcessing(c, r, target) ==
  /\ status[r] \in Statuses
  /\ target \in AdminTransitions[status[r]]
  /\ Begin(c, r, IF target = "paid" /\ status[r] = "processing" THEN "debit" ELSE "write",
           target, 0)
  /\ UNCHANGED <<requestVars, ledgerVars, wallet>>

\* Mutant: the move to processing already debits the ledger.
DebitOnProcessing(c, r, target) ==
  /\ status[r] \in Statuses
  /\ target \in AdminTransitions[status[r]]
  /\ Begin(c, r, IF target \in {"processing", "paid"} THEN "debit" ELSE "write", target, 0)
  /\ UNCHANGED <<requestVars, ledgerVars, wallet>>

AdminRead(c, r, target) ==
  /\ status[r] \in Statuses
  /\ target \in AdminTransitions[status[r]]
  /\ Begin(c, r, IF target = "paid" THEN "debit" ELSE "write", target, 0)
  /\ UNCHANGED <<requestVars, ledgerVars, wallet>>

\* For a payment: the debit is appended to the ledger, then tagged.
Debit(c) ==
  /\ Goto(c, "debit", "tag")
  /\ debits' = [debits EXCEPT ![call[c].req] = @ + 1]
  /\ settled' = settled - amount[call[c].req]
  /\ UNCHANGED <<requestVars, tagged, wallet>>

TagDebit(c) ==
  /\ Goto(c, "tag", "write")
  /\ tagged' = [tagged EXCEPT ![call[c].req] = @ + 1]
  /\ UNCHANGED <<requestVars, debits, settled, wallet>>

\* Mutant: the status is not written over a final one.
WriteUnlessFinal(c) ==
  /\ Goto(c, "write", "sumLedger")
  /\ IF status[call[c].req] \in Terminal
     THEN UNCHANGED <<status, history>>
     ELSE SetStatus(c, call[c].target)
  /\ UNCHANGED <<amount, ledgerVars, wallet>>

WriteStatus(c) ==
  /\ Goto(c, "write", "sumLedger")
  /\ SetStatus(c, call[c].target)
  /\ UNCHANGED <<amount, ledgerVars, wallet>>

(* recompute_wallet: both sums are read, then the wallet is upserted.      *)

GetWallet(c) ==
  /\ Begin(c, None, "sumLedger", None, 0)
  /\ UNCHANGED <<requestVars, ledgerVars, wallet>>

SumLedger(c) ==
  /\ call[c].step = "sumLedger"
  /\ call' = [call EXCEPT ![c].step = "sumReserved", ![c].sum = settled]
  /\ UNCHANGED <<requestVars, ledgerVars, wallet>>

SumReserved(c) ==
  /\ call[c].step = "sumReserved"
  /\ call' = [call EXCEPT ![c].step = "save", ![c].held = Pending]
  /\ UNCHANGED <<requestVars, ledgerVars, wallet>>

SaveWallet(c) ==
  /\ call[c].step = "save"
  /\ Finish(c)
  /\ wallet' = [settled |-> call[c].sum, pending |-> call[c].held]
  /\ UNCHANGED <<requestVars, ledgerVars>>

-----------------------------------------------------------------------------
\* A purchase on the secondary market, as one step: it looks at the settled
\* balance of the wallet document, debits the ledger, recomputes the wallet.
\* (SecondaryMarket models it await by await.  Its tolerance of half a
\* hryvnia decides nothing while amounts are whole hryvnias.)
Buy(a) ==
  /\ wallet.settled >= a
  /\ Overlap \/ \A c \in Calls : call[c].step \notin Active
  /\ settled' = settled - a
  /\ wallet' = [settled |-> settled', pending |-> Pending]
  /\ UNCHANGED <<requestVars, debits, tagged, call>>

\* A handler that has appended a debit and has not written the status yet.
OnItsWay(c, r) ==
  call[c].req = r /\ (call[c].step = "tag" \/ (call[c].step = "write" /\ call[c].target = "paid"))

\* The handler of c is lost with the process or a database call raises.  That
\* it was on its way to a payment is remembered; no guard reads it.
Crash(c) ==
  /\ AllowCrash
  /\ call[c].step \in Active
  /\ IF OnItsWay(c, call[c].req)
     THEN call' = [call EXCEPT ![c].step = "lost"]
     ELSE Finish(c)
  /\ UNCHANGED <<requestVars, ledgerVars, wallet>>

CallStep(c) ==
  \/ CreateReadLedger(c) \/ CreateCheck(c) \/ CreateInsert(c)
  \/ Debit(c) \/ TagDebit(c) \/ WriteStatus(c)
  \/ SumLedger(c) \/ SumReserved(c) \/ SaveWallet(c)

Next ==
  \/ \E c \in Calls :
       \/ \E r \in Requests, a \in Amounts : CreateBegin(c, r, a)
       \/ \E r \in Requests : CancelRead(c, r)
       \/ \E r \in Requests, t \in Statuses : AdminRead(c, r, t)
       \/ GetWallet(c)
       \/ CallStep(c)
       \/ Crash(c)
  \/ \E a \in Purchases : Buy(a)

Spec == Init /\ [][Next]_vars

-----------------------------------------------------------------------------
(* Properties.                                                             *)

\* Every document and handler holds values the code can put there.
TypeOK ==
  /\ status \in [Requests -> Statuses \cup {"none"}]
  /\ history \in [Requests -> [Statuses -> Nat]]
  /\ amount \in [Requests -> Nat]
  /\ debits \in [Requests -> Nat]
  /\ tagged \in [Requests -> Nat]
  /\ settled \in Int
  /\ wallet \in [settled : Int, pending : Int]
  /\ call \in [Calls -> Call]

\* No money leaves the ledger for a request that was never approved, in
\* whatever order calls overlap and wherever they die.
DebitNeedsApproval ==
  \A r \in Requests : debits[r] > 0 => history[r]["approved"] > 0

\* A request that was ever marked paid has a ledger debit that carries its id:
\* the promise of check I10, kept by writing the debit before the status.
PaidHasDebit ==
  \A r \in Requests : history[r]["paid"] > 0 => tagged[r] > 0

\* A payment, a rejection and a cancellation may overwrite each other's status
\* (lumen_wallet.py:364 has no condition), and a request may be debited twice.
\* Its history still tells of every debit: none is missing but those of calls
\* on their way between the two, or lost there.
PaymentsAreTold ==
  \A r \in Requests :
    debits[r] = history[r]["paid"]
                  + Cardinality({c \in Calls : OnItsWay(c, r)
                                    \/ (call[c].step = "lost" /\ call[c].req = r)})

Quiet == \A c \in Calls : call[c].step \notin Active

\* Check I5, request by request: once no call is under way, exactly the paid
\* requests have a debit, and exactly one.
DebitsMatchPaid ==
  Quiet => \A r \in Requests : debits[r] = IF status[r] = "paid" THEN 1 ELSE 0

\* "Requests in these statuses reserve the money" (lumen_wallet.py:87): what
\* is reserved is there, but for the tolerance of the check, once no call is
\* under way (a payment debits the ledger before it lifts the reserve).
ReservedIsCovered == Quiet => settled - Pending >= -Tol

\* However requests, rejections, payments and purchases alternate, the requests
\* that are open or paid together never claim more than the account held: the
\* tolerance of the check, granted to every request, does not add up.
RequestsAreFunded ==
  Total(amount, {r \in Requests : status[r] \in Reserved \cup {"paid"}}) <= Opening + Tol

\* Check I3: once no call is under way the wallet document tells the truth.
WalletIsFresh == Quiet => wallet = [settled |-> settled, pending |-> Pending]

\* A paid, rejected or cancelled request stays so (lumen_wallet.py:72-74).
\* Overlapping calls violate it.
TerminalIsFinal ==
  [][\A r \in Requests : status[r] \in Terminal => status'[r] = status[r]]_status

\* "The only point of debit" (lumen_wallet.py:342): one request, one debit.
DebitedAtMostOnce == \A r \in Requests : debits[r] <= 1

\* Check I6: a settled balance never goes below zero.
SettledNotNegative == settled >= -Tol
=============================================================================
