------------------------------- MODULE Earnings -------------------------------
(***************************************************************************)
(* Task earnings of developers and the first payout engine that pays them: *)
(* QA decisions (qa_layer.py) approve or hold an earning; an administrator *)
(* collects approved earnings in a batch, which freezes them, approves the *)
(* batch and marks it paid (payout_layer.py).  PayoutBatches adds the      *)
(* second engine, which pays from the same earnings.                       *)
(*                                                                         *)
(* A call id is a slot for one HTTP request.  Its handler runs from await  *)
(* to await and other handlers run in between; nothing in the code makes   *)
(* one wait for another.  Nothing is rolled back when a handler dies: it   *)
(* is a call that never goes on.  tidy remembers whether calls overlapped, *)
(* to state what only holds if they did not; no guard reads it.            *)
(***************************************************************************)
EXTENDS Integers, FiniteSets

CONSTANTS
  Earnings,     \* ids of the documents in task_earnings
  Gated,        \* those whose confidence gate blocks an automatic approval
  Developers,
  Developer,    \* Developer[e]: user_id of the earning
  Batches,      \* ids of batches that may be created in payout_batches
  Calls,        \* slots for HTTP requests
  None          \* Python's None

ASSUME EarningConstants ==
  /\ Gated \subseteq Earnings
  /\ Developer \in [Earnings -> Developers]
  /\ None \notin Batches \cup Earnings
  /\ IsFiniteSet(Calls)

VARIABLES
  earning,    \* task_earnings: status, and batch, the payout_batch_id, which
              \* is set together with frozen
  batch,      \* payout_batches: status, lines, the earning_ids, and approved,
              \* whether it has an approved_at
  call,       \* the handlers
  tidy        \* no call began while another one was under way

earningVars == <<earning, batch>>
callVars == <<call, tidy>>

-----------------------------------------------------------------------------
EarningStatuses == {"pending_qa", "flagged", "held", "approved", "batched", "paid"}
BatchStatuses == {"draft", "approved", "paid"}
Results == {"passed", "revision"}

\* on is the document of the call, arg its key or QA result, lines the earnings
\* it has read, todo what its loop has left.
Idle == [step |-> "idle", on |-> None, arg |-> None, lines |-> {}, todo |-> {}]

\* create_task_earning: a blocked earning is flagged from the start.
EarningInit ==
  /\ earning = [e \in Earnings |->
                   [status |-> IF e \in Gated THEN "flagged" ELSE "pending_qa", batch |-> None]]
  /\ batch = [b \in Batches |-> [status |-> "none", lines |-> {}, approved |-> FALSE]]
  /\ call = [c \in Calls |-> Idle]
  /\ tidy = TRUE

Quiet == \A c \in Calls : call[c] = Idle

Begin(c, next) ==
  /\ call[c] = Idle
  /\ call' = [call EXCEPT ![c] = next]
  /\ tidy' = (tidy /\ Quiet)

Continue(c, from, next) ==
  /\ call[c].step = from
  /\ call' = [call EXCEPT ![c] = next]
  /\ UNCHANGED tidy

Goto(c, from, to) == Continue(c, from, [call[c] EXCEPT !.step = to])
Finish(c, from) == Continue(c, from, Idle)

\* The loop of c is done with x; after the last one it goes on with next.
Strike(c, from, x, next) ==
  /\ x \in call[c].todo
  /\ Continue(c, from, IF call[c].todo = {x} THEN next
                       ELSE [call[c] EXCEPT !.todo = @ \ {x}])

Free(e) == earning[e].status = "approved" /\ earning[e].batch = None

-----------------------------------------------------------------------------
(* handle_qa_decision_workflow: the earning is read, unless it is frozen    *)
(* its new status is written.  Decisions and hours are left out.           *)

\* Mutant: a frozen earning is taken like any other.
QaReadFrozen(c, e, result) ==
  /\ Begin(c, [Idle EXCEPT !.step = "qaWrite", !.on = e, !.arg = result])
  /\ UNCHANGED earningVars

QaRead(c, e, result) ==
  /\ earning[e].batch = None
  /\ Begin(c, [Idle EXCEPT !.step = "qaWrite", !.on = e, !.arg = result])
  /\ UNCHANGED earningVars

\* Mutant: the gate holds an earning back at its creation only.
VerdictUngated(e, result) == IF result = "revision" THEN "held" ELSE "approved"

Verdict(e, result) ==
  IF result = "revision" THEN "held" ELSE IF e \in Gated THEN "flagged" ELSE "approved"

\* Whatever the earning has become since it was read.
QaWrite(c) ==
  /\ Finish(c, "qaWrite")
  /\ earning' = [earning EXCEPT ![call[c].on].status = Verdict(call[c].on, call[c].arg)]
  /\ UNCHANGED batch

-----------------------------------------------------------------------------
(* create_payout_batch: the free earnings of a developer in some period    *)
(* are read, the batch is inserted, the earnings are frozen one by one.    *)

BatchRead(c, b, S) ==
  /\ batch[b].status = "none"
  /\ \A d \in Calls : call[d].on # b
  /\ S # {}
  /\ \A e \in S : Free(e)
  /\ \A e, f \in S : Developer[e] = Developer[f]
  /\ Begin(c, [step |-> "batchInsert", on |-> b, arg |-> None, lines |-> S, todo |-> S])
  /\ UNCHANGED earningVars

BatchInsert(c) ==
  /\ Goto(c, "batchInsert", "freeze")
  /\ batch' = [batch EXCEPT ![call[c].on] = [status |-> "draft", lines |-> call[c].lines,
                                             approved |-> FALSE]]
  /\ UNCHANGED earning

FreezeEarning(c) ==
  \E e \in call[c].todo :
    /\ Strike(c, "freeze", e, Idle)
    /\ earning' = [earning EXCEPT ![e].status = "batched", ![e].batch = call[c].on]
    /\ UNCHANGED batch

(* approve_payout_batch and mark_batch_paid: read and check, then write.   *)

ApproveRead(c, b) ==
  /\ batch[b].status = "draft"
  /\ Begin(c, [Idle EXCEPT !.step = "approve", !.on = b])
  /\ UNCHANGED earningVars

ApproveWrite(c) ==
  /\ Finish(c, "approve")
  /\ batch' = [batch EXCEPT ![call[c].on].status = "approved",
                             ![call[c].on].approved = TRUE]
  /\ UNCHANGED earning

\* Mutant: a draft may be marked paid.
PayReadDraft(c, b) ==
  /\ batch[b].status \in {"draft", "approved"}
  /\ Begin(c, [Idle EXCEPT !.step = "pay", !.on = b, !.todo = batch[b].lines])
  /\ UNCHANGED earningVars

PayRead(c, b) ==
  /\ batch[b].status = "approved"
  /\ Begin(c, [Idle EXCEPT !.step = "pay", !.on = b, !.todo = batch[b].lines])
  /\ UNCHANGED earningVars

PayWrite(c) ==
  /\ Goto(c, "pay", "payEarnings")
  /\ batch' = [batch EXCEPT ![call[c].on].status = "paid"]
  /\ UNCHANGED earning

PayEarning(c) ==
  \E e \in call[c].todo :
    /\ Strike(c, "payEarnings", e, Idle)
    /\ earning' = [earning EXCEPT ![e].status = "paid"]
    /\ UNCHANGED batch

-----------------------------------------------------------------------------
EarningStep(c) ==
  \/ \E e \in Earnings, result \in Results : QaRead(c, e, result)
  \/ \E b \in Batches, S \in SUBSET Earnings : BatchRead(c, b, S)
  \/ \E b \in Batches : ApproveRead(c, b) \/ PayRead(c, b)
  \/ QaWrite(c)
  \/ BatchInsert(c) \/ FreezeEarning(c)
  \/ ApproveWrite(c) \/ PayWrite(c) \/ PayEarning(c)

-----------------------------------------------------------------------------
(* Properties.                                                             *)

\* A frozen earning belongs to a batch that was created and lists it, whatever
\* overlapped or died: no freeze comes without its batch.
FrozenIsListed ==
  \A e \in Earnings : LET b == earning[e].batch
                      IN b # None => batch[b].status # "none" /\ e \in batch[b].lines

\* No earning is paid but through a batch that lists it and that somebody
\* approved, in whatever order QA, freezes, approvals and payments overlap.
PaidWasApproved ==
  \A e \in Earnings :
    earning[e].status = "paid" => \E b \in Batches : batch[b].approved /\ e \in batch[b].lines

\* What QA, the batches and their payments leave behind when calls come one
\* after the other: a batch and its earnings agree on the stage and on where
\* each of them belongs.
StageOf == [draft |-> "batched", approved |-> "batched", paid |-> "paid"]
BatchesTellTheirEarnings ==
  tidy /\ Quiet =>
    \A b \in Batches : \A e \in batch[b].lines :
      earning[e] = [status |-> StageOf[batch[b].status], batch |-> b]
=============================================================================
