---------------------------- MODULE PayoutBatches ----------------------------
(***************************************************************************)
(* The intent layer of src/backend/payouts_v2.py, composed with Earnings:  *)
(* a batch is proposed from the approved earnings under an idempotency     *)
(* key, and released, which makes one payout item per developer, or        *)
(* cancelled; events of the batch itself are left out.  PayoutItem says    *)
(* what becomes of an item.  The engine reads the earnings of the other    *)
(* one and never writes them.                                              *)
(***************************************************************************)
EXTENDS Earnings

CONSTANTS
  Intents,   \* ids of batches that may be proposed in payout_batches_v2
  Keys       \* idempotency keys

ASSUME IntentConstants ==
  /\ None \notin Intents \cup Keys
  /\ "pending" \notin Intents \cup {None}
  /\ Intents \cap (Earnings \cup Batches) = {}

VARIABLES
  intent,     \* payout_batches_v2: status, lines of the items_plan; key is the
              \* key it was proposed under, a history that the code has not
  answer,     \* result stored in payout_v2_idempotency for each key
  announced,  \* queued events of each developer's items of a batch
  items       \* items of each developer in a batch

payoutVars == <<intent, answer, announced, items>>
vars == <<earningVars, callVars, payoutVars>>

IntentStatuses == {"proposed", "released", "cancelled"}
Payees(p) == {Developer[e] : e \in intent[p].lines}

Init ==
  /\ EarningInit
  /\ intent = [p \in Intents |-> [status |-> "none", lines |-> {}, key |-> None]]
  /\ answer = [k \in Keys |-> None]
  /\ announced = [p \in Intents |-> [d \in Developers |-> 0]]
  /\ items = [p \in Intents |-> [d \in Developers |-> 0]]

-----------------------------------------------------------------------------
(* propose_batch: claim the key, read, insert, store the answer.           *)

\* Mutant: the key is upserted, so that a second request goes on.
UpsertKey(c, k, D) ==
  /\ answer' = [answer EXCEPT ![k] = "pending"]
  /\ Begin(c, [Idle EXCEPT !.step = "proposeRead", !.arg = k, !.todo = D])
  /\ UNCHANGED <<earningVars, intent, announced, items>>

\* The index is unique: with a key that is taken the call returns what is
\* stored, and changes nothing.
ClaimKey(c, k, D) ==
  /\ answer[k] = None
  /\ answer' = [answer EXCEPT ![k] = "pending"]
  /\ Begin(c, [Idle EXCEPT !.step = "proposeRead", !.arg = k, !.todo = D])
  /\ UNCHANGED <<earningVars, intent, announced, items>>

\* All free earnings of the developers asked for.
ProposeRead(c) ==
  LET S == {e \in Earnings : Free(e) /\ Developer[e] \in call[c].todo}
  IN /\ Continue(c, "proposeRead",
                 [call[c] EXCEPT !.step = "proposeInsert", !.lines = S, !.todo = {}])
     /\ UNCHANGED <<earningVars, payoutVars>>

\* Without earnings the batch is empty, and inserted all the same.
ProposeInsert(c) ==
  \E p \in Intents :
    /\ intent[p].status = "none"
    /\ Continue(c, "proposeInsert", [call[c] EXCEPT !.step = "proposeAnswer", !.on = p])
    /\ intent' = [intent EXCEPT ![p] = [status |-> "proposed", lines |-> call[c].lines,
                                        key |-> call[c].arg]]
    /\ UNCHANGED <<earningVars, answer, announced, items>>

ProposeAnswer(c) ==
  /\ Finish(c, "proposeAnswer")
  /\ answer' = [answer EXCEPT ![call[c].arg] = call[c].on]
  /\ UNCHANGED <<earningVars, intent, announced, items>>

-----------------------------------------------------------------------------
(* release_batch: one event per item to come, the items at once, the       *)
(* status, the event of the batch.  The status read first decides alone.   *)

\* Mutant: a cancelled batch may be released.
ReleaseReadAny(c, p) ==
  /\ intent[p].status \in {"proposed", "cancelled"}
  /\ Begin(c, [step |-> IF Payees(p) = {} THEN "releaseWrite" ELSE "announce", on |-> p,
               arg |-> None, lines |-> {}, todo |-> Payees(p)])
  /\ UNCHANGED <<earningVars, payoutVars>>

ReleaseRead(c, p) ==
  /\ intent[p].status = "proposed"
  /\ Begin(c, [step |-> IF Payees(p) = {} THEN "releaseWrite" ELSE "announce", on |-> p,
               arg |-> None, lines |-> {}, todo |-> Payees(p)])
  /\ UNCHANGED <<earningVars, payoutVars>>

Announce(c) ==
  \E d \in call[c].todo :
    /\ Strike(c, "announce", d, [call[c] EXCEPT !.step = "insertItems", !.todo = {}])
    /\ announced' = [announced EXCEPT ![call[c].on][d] = @ + 1]
    /\ UNCHANGED <<earningVars, intent, answer, items>>

\* Mutant: the items are left for later.
InsertNoItems(c) ==
  /\ Goto(c, "insertItems", "releaseWrite")
  /\ UNCHANGED <<earningVars, payoutVars>>

InsertItems(c) ==
  LET p == call[c].on
  IN /\ Goto(c, "insertItems", "releaseWrite")
     /\ items' = [items EXCEPT ![p] = [d \in Developers |-> IF d \in Payees(p) THEN @[d] + 1
                                                            ELSE @[d]]]
     /\ UNCHANGED <<earningVars, intent, answer, announced>>

SetStatus(c, from, status) ==
  /\ Finish(c, from)
  /\ intent' = [intent EXCEPT ![call[c].on].status = status]
  /\ UNCHANGED <<earningVars, answer, announced, items>>

ReleaseWrite(c) == SetStatus(c, "releaseWrite", "released")

(* cancel_batch.                                                           *)

CancelRead(c, p) ==
  /\ intent[p].status = "proposed"
  /\ Begin(c, [Idle EXCEPT !.step = "cancelWrite", !.on = p])
  /\ UNCHANGED <<earningVars, payoutVars>>

CancelWrite(c) == SetStatus(c, "cancelWrite", "cancelled")

-----------------------------------------------------------------------------
Propose(c) ==
  \/ \E k \in Keys, D \in SUBSET Developers \ {{}} : ClaimKey(c, k, D)
  \/ ProposeRead(c) \/ ProposeInsert(c) \/ ProposeAnswer(c)

Release(c) ==
  \/ \E p \in Intents : ReleaseRead(c, p)
  \/ Announce(c) \/ InsertItems(c) \/ ReleaseWrite(c)

Cancel(c) ==
  \/ \E p \in Intents : CancelRead(c, p)
  \/ CancelWrite(c)

Next ==
  \E c \in Calls :
    \/ EarningStep(c) /\ UNCHANGED payoutVars
    \/ Propose(c) \/ Release(c) \/ Cancel(c)

Spec == Init /\ [][Next]_vars

-----------------------------------------------------------------------------
(* Properties.                                                             *)

EarningSteps == {"qaWrite", "batchInsert", "freeze", "approve", "pay",
                 "payEarnings"}
IntentSteps == {"proposeRead", "proposeInsert", "proposeAnswer", "announce",
                "insertItems", "releaseWrite", "cancelWrite"}

\* Every document and handler holds values the code can put there.
TypeOK ==
  /\ earning \in [Earnings -> [status : EarningStatuses, batch : Batches \cup {None}]]
  /\ batch \in [Batches -> [status : BatchStatuses \cup {"none"}, lines : SUBSET Earnings,
                            approved : BOOLEAN]]
  /\ call \in [Calls -> [step : {"idle"} \cup EarningSteps \cup IntentSteps,
                         on : Earnings \cup Batches \cup Intents \cup {None},
                         arg : Results \cup Keys \cup {None},
                         lines : SUBSET Earnings, todo : SUBSET (Earnings \cup Developers)]]
  /\ tidy \in BOOLEAN
  /\ intent \in [Intents -> [status : IntentStatuses \cup {"none"}, lines : SUBSET Earnings,
                             key : Keys \cup {None}]]
  /\ answer \in [Keys -> Intents \cup {None, "pending"}]
  /\ announced \in [Intents -> [Developers -> Nat]]
  /\ items \in [Intents -> [Developers -> Nat]]

\* An idempotency key makes at most one batch however often and however
\* concurrently it is sent, and it answers with no other batch than its own.
OneBatchPerKey ==
  /\ \A p, q \in Intents : intent[p].key # None /\ intent[p].key = intent[q].key => p = q
  /\ \A k \in Keys : answer[k] \in Intents => intent[answer[k]].key = k

\* A release is never half done once it shows, whatever died or overlapped on
\* the way: a released batch has an item for every developer of its plan, and
\* no item is without its queued event, which precedes it.
ReleaseIsWhole ==
  \A p \in Intents :
    /\ intent[p].status = "released" => \A d \in Payees(p) : items[p][d] > 0
    /\ \A d \in Developers : items[p][d] <= announced[p][d]

\* A batch pays each developer once, and a cancelled one nobody, as long as
\* the calls come one after the other ("released batches immutable").
ReleasedOnce ==
  tidy => \A p \in Intents : \A d \in Developers :
            /\ items[p][d] <= 1
            /\ intent[p].status = "cancelled" => items[p][d] = 0

\* No earning whose time tracking is not trusted reaches either engine: the
\* gate that flagged it holds through QA, proposals and batches, whatever
\* overlaps.
GatedIsNotPaid ==
  \A e \in Gated : /\ \A b \in Batches : e \notin batch[b].lines
                   /\ \A p \in Intents : e \notin intent[p].lines

\* "Read approved earnings (not already in v2 batch)": no earning is planned by
\* two batches that are proposed or released.
PlannedOnce ==
  \A p, q \in Intents :
    p # q /\ intent[p].status \in {"proposed", "released"}
          /\ intent[q].status \in {"proposed", "released"}
    => intent[p].lines \cap intent[q].lines = {}
=============================================================================
