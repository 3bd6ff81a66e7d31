------------------------------ MODULE Dividends ------------------------------
(***************************************************************************)
(* Dividends of one asset, src/backend/lumen_payouts.py and lumen_tax.py:  *)
(* a plan that pays at regular intervals yields a batch per period, by the *)
(* scheduler or by an administrator; a batch holds one record per owner,   *)
(* split by units and taxed; it is approved, then credited record by       *)
(* record into the ledger, or cancelled.  Amounts are in hundredths of a   *)
(* hryvnia, periods are counted from the start of the plan.                *)
(*                                                                         *)
(* A call id is a slot for one HTTP request or one run of the scheduler;   *)
(* its handler runs from await to await while others run in between, and   *)
(* one that dies is one that never goes on.  orderly remembers whether     *)
(* calls overlapped or an administrator named a period; no guard reads it. *)
(***************************************************************************)
EXTENDS Integers, FiniteSets, FiniteSetsExt

CONSTANTS
  Investors,
  Holdings,    \* units of the asset by investor, as they may stand
  Amounts,     \* gross amounts of a batch
  Exempt,      \* investors that pay no tax
  Pdfo, Vz,    \* tax rates in thousandths
  Due,         \* periods that are due by now
  Dates,       \* periods an administrator may name
  Updates,     \* statuses an administrator may give the plan
  Batches,     \* ids of batches that may be generated
  Calls,       \* slots for requests and runs of the scheduler
  None         \* Python's None

ASSUME DividendConstants ==
  /\ IsFiniteSet(Investors)
  /\ Holdings \subseteq [Investors -> Nat]
  /\ Amounts \subseteq Nat \ {0}
  /\ Exempt \subseteq Investors
  /\ Pdfo \in Nat /\ Vz \in Nat /\ Due \in Nat
  /\ Dates \subseteq Nat \ {0}
  /\ Updates \subseteq {"active", "paused", "ended"}
  /\ None \notin Batches \cup Investors

VARIABLES
  plan,      \* the plan: its status, and last, the last period generated
  batch,     \* lumen_payout_batches: status, period, and gross, the amount
             \* that was split
  record,    \* lumen_payout_records of each batch and owner: status, net, tax
  entries,   \* credits in the ledger for each record
  tagged,    \* those of them that carry the id of the record
  remitted,  \* credits of the batch's tax to the liability account
  lapsed,    \* history: batches whose tax was not written, which is only logged
  call,      \* the handlers
  orderly    \* see Begin and Generate

ledgerVars == <<entries, tagged, remitted, lapsed>>
vars == <<plan, batch, record, ledgerVars, call, orderly>>

-----------------------------------------------------------------------------
PlanStatuses == {"active", "paused", "ended"}
RecordStatuses == {"generated", "approved", "credited", "cancelled"}
BatchStatuses == RecordStatuses

\* _round2: a hundredth; which one at a tie is up to the floats.
Nearest(n, d) ==
  LET q == n \div d
      r == n % d
  IN {k \in {q, q + 1} : IF k = q THEN 2 * r <= d ELSE 2 * r >= d}

Sum(f) == MapThenSumSet(LAMBDA i : f[i], Investors)

\* Mutant: what rounding leaves over is not handed out.
SplitsOnly(amount, units) ==
  LET shares == [i \in Investors |-> Nearest(amount * units[i], Sum(units))]
  IN {f \in [Investors -> UNION {shares[i] : i \in Investors}] :
        \A i \in Investors : f[i] \in shares[i]}

\* distribute_amount: by units, what rounding leaves over to a largest owner.
Splits(amount, units) ==
  LET shares == [i \in Investors |-> Nearest(amount * units[i], Sum(units))]
      rounded == {f \in [Investors -> UNION {shares[i] : i \in Investors}] :
                    \A i \in Investors : f[i] \in shares[i]}
      largest == {i \in Investors : \A j \in Investors : units[j] <= units[i]}
  IN {[f EXCEPT ![i] = @ + amount - Sum(f)] : f \in rounded, i \in largest}

\* compute_withholding: the two taxes are rounded each for itself.
Taxes(i, gross) ==
  IF i \in Exempt \/ gross <= 0 THEN {0}
  ELSE {p + v : p \in Nearest(gross * Pdfo, 1000), v \in Nearest(gross * Vz, 1000)}

\* mode tells a request for one batch from a run of the scheduler, which only
\* generates (queue) or approves and credits too (credit).
Idle == [step |-> "idle", mode |-> "one", on |-> None, period |-> 0, gross |-> 0,
         split |-> [i \in Investors |-> 0], todo |-> {}, owner |-> None]

NoRecord == [status |-> "none", net |-> 0, tax |-> 0]

Init ==
  /\ plan = [status |-> "active", last |-> 0]
  /\ batch = [b \in Batches |-> [status |-> "none", period |-> 0, gross |-> 0]]
  /\ record = [b \in Batches |-> [i \in Investors |-> NoRecord]]
  /\ entries = [b \in Batches |-> [i \in Investors |-> 0]]
  /\ tagged = [b \in Batches |-> [i \in Investors |-> 0]]
  /\ remitted = [b \in Batches |-> 0]
  /\ lapsed = {}
  /\ call = [c \in Calls |-> Idle]
  /\ orderly = TRUE

Quiet == \A c \in Calls : call[c] = Idle

Begin(c, next, ok) ==
  /\ call[c] = Idle
  /\ call' = [call EXCEPT ![c] = next]
  /\ orderly' = (orderly /\ Quiet /\ ok)

Continue(c, from, next) ==
  /\ call[c].step = from
  /\ call' = [call EXCEPT ![c] = next]
  /\ UNCHANGED orderly

Goto(c, from, to) == Continue(c, from, [call[c] EXCEPT !.step = to])

\* The handler returns; a run of the scheduler goes on with its next step.
Done(c, from, next) ==
  Continue(c, from, IF call[c].mode = "one" THEN Idle
                    ELSE [Idle EXCEPT !.step = next, !.mode = call[c].mode, !.on = call[c].on])

-----------------------------------------------------------------------------
(* Requests, update_plan, and the runs of the scheduler, which look at the *)
(* plan anew before every batch.                                           *)

UpdatePlan(status) ==
  /\ plan' = [plan EXCEPT !.status = status]
  /\ UNCHANGED <<batch, record, ledgerVars, call, orderly>>

\* The period is what the administrator names, or 0.
Generate(c, date) ==
  /\ Begin(c, [Idle EXCEPT !.step = "generate", !.period = date], date = 0)
  /\ UNCHANGED <<plan, batch, record, ledgerVars>>

OnBatch(c, step, b) ==
  /\ batch[b].status # "none"
  /\ Begin(c, [Idle EXCEPT !.step = step, !.on = b], TRUE)
  /\ UNCHANGED <<plan, batch, record, ledgerVars>>

IsDue == plan.status = "active" /\ plan.last + 1 <= Due

RunDuePlans(c, mode) ==
  /\ IsDue
  /\ Begin(c, [Idle EXCEPT !.step = "fresh", !.mode = mode], TRUE)
  /\ UNCHANGED <<plan, batch, record, ledgerVars>>

Fresh(c) ==
  /\ Continue(c, "fresh", IF IsDue THEN [call[c] EXCEPT !.step = "generate"] ELSE Idle)
  /\ UNCHANGED <<plan, batch, record, ledgerVars>>

-----------------------------------------------------------------------------
(* generate_batch: the period follows from the plan as read now; records   *)
(* are inserted one by one, then the batch, then the plan moves on.        *)

\* Mutant: the step of the plan is not added.
SamePeriod(c) == IF call[c].period # 0 THEN call[c].period ELSE plan.last

NextPeriod(c) == IF call[c].period # 0 THEN call[c].period ELSE plan.last + 1

GenerateRead(c) ==
  \/ /\ plan.status = "ended"
     /\ Continue(c, "generate", Idle)
     /\ UNCHANGED <<plan, batch, record, ledgerVars>>
  \/ /\ plan.status # "ended"
     /\ call[c].step = "generate"
     /\ \E b \in Batches, amount \in Amounts, units \in {u \in Holdings : Sum(u) > 0} :
          /\ batch[b].status = "none"
          /\ \A d \in Calls : call[d].on # b
          /\ \E split \in Splits(amount, units) :
               Continue(c, "generate",
                 [call[c] EXCEPT !.step = "records", !.on = b, !.period = NextPeriod(c),
                                 !.gross = amount, !.split = split,
                                 !.todo = {i \in Investors : units[i] > 0}])
     /\ UNCHANGED <<plan, batch, record, ledgerVars>>

InsertRecord(c) ==
  \E i \in call[c].todo :
    LET b == call[c].on
        gross == call[c].split[i]
    IN /\ Continue(c, "records", [call[c] EXCEPT !.todo = @ \ {i},
                    !.step = IF call[c].todo = {i} THEN "batch" ELSE @])
       /\ \E tax \in Taxes(i, gross) :
            record' = [record EXCEPT ![b][i] = [status |-> "generated", net |-> gross - tax,
                                                tax |-> tax]]
       /\ UNCHANGED <<plan, batch, ledgerVars>>

InsertBatch(c) ==
  /\ Goto(c, "batch", "advance")
  /\ batch' = [batch EXCEPT ![call[c].on] = [status |-> "generated", period |-> call[c].period,
                                             gross |-> call[c].gross]]
  /\ UNCHANGED <<plan, record, ledgerVars>>

AdvancePlan(c) ==
  /\ Done(c, "advance", IF call[c].mode = "credit" THEN "approveRead" ELSE "fresh")
  /\ plan' = [plan EXCEPT !.last = call[c].period]
  /\ UNCHANGED <<batch, record, ledgerVars>>

-----------------------------------------------------------------------------
(* approve_batch.                                                          *)

SetBatch(c, from, to, status) ==
  /\ Goto(c, from, to)
  /\ batch' = [batch EXCEPT ![call[c].on].status = status]
  /\ UNCHANGED <<plan, record, ledgerVars>>

\* update_many on the records of the batch of c.
SetRecords(c, from, to) ==
  record' = [record EXCEPT ![call[c].on] =
               [i \in Investors |-> IF @[i].status \in from THEN [@[i] EXCEPT !.status = to]
                                    ELSE @[i]]]

ReadBatch(c, from, to, statuses) ==
  /\ call[c].step = from
  /\ Continue(c, from, IF batch[call[c].on].status \in statuses
                       THEN [call[c] EXCEPT !.step = to] ELSE Idle)
  /\ UNCHANGED <<plan, batch, record, ledgerVars>>

ApproveRead(c) == ReadBatch(c, "approveRead", "approve", {"generated"})

ApproveBatch(c) == SetBatch(c, "approve", "approveRecords", "approved")

ApproveRecords(c) ==
  /\ call[c].step = "approveRecords"
  /\ Done(c, "approveRecords", "creditRead")
  /\ SetRecords(c, {"generated"}, "approved")
  /\ UNCHANGED <<plan, batch, ledgerVars>>

(* credit_batch: the records are read with the cursor's first fetch; each  *)
(* gets an entry in the ledger, which is tagged, and is marked.            *)

CreditRead(c) == ReadBatch(c, "creditRead", "find", {"approved"})

\* Mutant: records whose own approval is still to come are left out.
FindApproved(c) ==
  /\ call[c].step = "find"
  /\ LET S == {i \in Investors : record[call[c].on][i].status = "approved"
                                 /\ record[call[c].on][i].net > 0}
     IN Continue(c, "find", [call[c] EXCEPT !.step = IF S = {} THEN "credited" ELSE "append",
                                            !.todo = S])
  /\ UNCHANGED <<plan, batch, record, ledgerVars>>

FindRecords(c) ==
  /\ call[c].step = "find"
  /\ LET S == {i \in Investors : record[call[c].on][i].status \in {"approved", "generated"}
                                 /\ record[call[c].on][i].net > 0}
     IN Continue(c, "find", [call[c] EXCEPT !.step = IF S = {} THEN "credited" ELSE "append",
                                            !.todo = S])
  /\ UNCHANGED <<plan, batch, record, ledgerVars>>

AppendEntry(c) ==
  \E i \in call[c].todo :
    /\ Continue(c, "append", [call[c] EXCEPT !.step = "tag", !.owner = i])
    /\ entries' = [entries EXCEPT ![call[c].on][i] = @ + 1]
    /\ UNCHANGED <<plan, batch, record, tagged, remitted, lapsed>>

TagEntry(c) ==
  /\ call[c].step = "tag"
  /\ Goto(c, "tag", "mark")
  /\ tagged' = [tagged EXCEPT ![call[c].on][call[c].owner] = @ + 1]
  /\ UNCHANGED <<plan, batch, record, entries, remitted, lapsed>>

MarkRecord(c) ==
  /\ call[c].step = "mark"
  /\ Continue(c, "mark", [call[c] EXCEPT !.todo = @ \ {call[c].owner}, !.owner = None,
                !.step = IF call[c].todo = {call[c].owner} THEN "credited" ELSE "append"])
  /\ record' = [record EXCEPT ![call[c].on][call[c].owner].status = "credited"]
  /\ UNCHANGED <<plan, batch, ledgerVars>>

CreditBatch(c) == SetBatch(c, "credited", "remit", "credited")

Tax(b) == Sum([i \in Investors |-> record[b][i].tax])

\* A write that fails is caught and logged: the batch stays credited and its
\* tax is not in the ledger.  The wallets are recomputed after that (Withdrawals).
RemitTax(c) ==
  /\ call[c].step = "remit"
  /\ Done(c, "remit", "fresh")
  /\ LET b == call[c].on
     IN \/ /\ remitted' = [remitted EXCEPT ![b] = IF Tax(b) > 0 THEN @ + 1 ELSE @]
           /\ UNCHANGED lapsed
        \/ /\ Tax(b) > 0
           /\ lapsed' = lapsed \cup {b}
           /\ UNCHANGED remitted
  /\ UNCHANGED <<plan, batch, record, entries, tagged>>

(* cancel_batch.                                                           *)

CancelRead(c) == ReadBatch(c, "cancelRead", "cancel", {"generated", "approved"})

CancelBatch(c) == SetBatch(c, "cancel", "cancelRecords", "cancelled")

CancelRecords(c) ==
  /\ Continue(c, "cancelRecords", Idle)
  /\ SetRecords(c, {"generated", "approved"}, "cancelled")
  /\ UNCHANGED <<plan, batch, ledgerVars>>

-----------------------------------------------------------------------------
Handler(c) ==
  \/ Fresh(c) \/ GenerateRead(c) \/ InsertRecord(c) \/ InsertBatch(c) \/ AdvancePlan(c)
  \/ ApproveRead(c) \/ ApproveBatch(c) \/ ApproveRecords(c)
  \/ CreditRead(c) \/ FindRecords(c) \/ AppendEntry(c) \/ TagEntry(c) \/ MarkRecord(c)
  \/ CreditBatch(c) \/ RemitTax(c)
  \/ CancelRead(c) \/ CancelBatch(c) \/ CancelRecords(c)

Next ==
  \/ \E status \in Updates : UpdatePlan(status)
  \/ \E c \in Calls :
       \/ \E date \in Dates \cup {0} : Generate(c, date)
       \/ \E mode \in {"queue", "credit"} : RunDuePlans(c, mode)
       \/ \E b \in Batches, step \in {"approveRead", "creditRead", "cancelRead"} :
            OnBatch(c, step, b)
       \/ Handler(c)

Spec == Init /\ [][Next]_vars

-----------------------------------------------------------------------------
(* Properties.                                                             *)

Steps == {"idle", "fresh", "generate", "records", "batch", "advance", "approveRead", "approve",
          "approveRecords", "creditRead", "find", "append", "tag", "mark", "credited", "remit",
          "cancelRead", "cancel", "cancelRecords"}

\* Every document and handler holds values the code can put there.
TypeOK ==
  /\ plan \in [status : PlanStatuses, last : Nat]
  /\ batch \in [Batches -> [status : BatchStatuses \cup {"none"}, period : Nat, gross : Nat]]
  /\ record \in [Batches -> [Investors -> [status : RecordStatuses \cup {"none"}, net : Int,
                                           tax : Int]]]
  /\ entries \in [Batches -> [Investors -> Nat]]
  /\ tagged \in [Batches -> [Investors -> Nat]]
  /\ remitted \in [Batches -> Nat]
  /\ lapsed \subseteq Batches
  /\ call \in [Calls -> [step : Steps, mode : {"one", "queue", "credit"},
                         on : Batches \cup {None}, period : Nat, gross : Nat,
                         split : [Investors -> Int], todo : SUBSET Investors,
                         owner : Investors \cup {None}]]
  /\ orderly \in BOOLEAN

\* A record says credited only once its entry is in the ledger under its id,
\* whatever overlaps or dies: the investor is told of no money that is not there.
CreditedIsPaid ==
  \A b \in Batches, i \in Investors :
    record[b][i].status = "credited" => entries[b][i] >= tagged[b][i] /\ tagged[b][i] > 0

\* A batch is called credited only once nobody in it waits for money any more,
\* whatever approvals, credits and cancellations overlap or die.
NobodyIsForgotten ==
  \A b \in Batches, i \in Investors :
    batch[b].status = "credited" /\ record[b][i].net > 0
      => record[b][i].status \in {"credited", "cancelled"}

\* What calls that come one after the other leave behind: a credited batch has
\* paid out its gross amount to the hundredth, as net amounts and tax, once
\* each, but for a tax whose write failed; any other batch has paid nothing.
Paid(b) == Sum([i \in Investors |-> entries[b][i] * record[b][i].net])
TaxIsHandedOver(b) == \/ remitted[b] = (IF Tax(b) > 0 THEN 1 ELSE 0)
                      \/ remitted[b] = 0 /\ b \in lapsed

BooksBalance ==
  orderly /\ Quiet =>
    \A b \in Batches :
      IF batch[b].status = "credited"
      THEN Paid(b) + Tax(b) = batch[b].gross /\ TaxIsHandedOver(b)
      ELSE Paid(b) = 0 /\ remitted[b] = 0

\* "Idempotent per period" (lumen_payouts.py:581): the scheduler and requests,
\* as long as calls come one after the other and nobody names a period,
\* generate each period up to the plan's last one once.
PeriodsInSequence ==
  orderly /\ Quiet =>
    LET made == {b \in Batches : batch[b].status # "none"}
    IN /\ {batch[b].period : b \in made} = 1..plan.last
       /\ Cardinality(made) = plan.last
=============================================================================
