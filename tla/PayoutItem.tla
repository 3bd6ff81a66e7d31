----------------------------- MODULE PayoutItem -----------------------------
(***************************************************************************)
(* One payout item of src/backend/payouts_v2.py, moved by everything that  *)
(* may touch it: worker passes that claim it under a lease and call the    *)
(* provider (payouts_v2_worker.py), the lease reaper, the advancer of the  *)
(* mock rail, the Stripe webhook and the admin endpoints                   *)
(* (payouts_v2_api.py).  Items do not interact, so one is enough.          *)
(*                                                                         *)
(* A task is a coroutine: a pass of _drain_once or a request handler.      *)
(* task[x].step is its next await; between two awaits any other task may   *)
(* run, and a task that is gone died with its process.                     *)
(***************************************************************************)
EXTENDS Integers, FiniteSets

CONSTANTS
  Passes,       \* concurrent passes of _drain_once, of one or more processes
  Workers,      \* WORKER_ID of the processes
  Host,         \* Host[d]: the process that runs pass d
  Handlers,     \* concurrent requests and advancer cycles
  None,         \* Python's None
  Rail,         \* "mock" or "stripe_connect"
  Events,       \* ids of the events the provider may send to the webhook
  Announces,    \* Announces[e]: the status that event e announces
  AdminTargets, \* statuses an admin may ask for
  MaxAttempts,  \* CFG.max_attempts
  MaxCrashes,   \* bound on the tasks that may die
  MayStall,     \* may a lease run out while its pass is still running?
  LostAnswers,  \* may the provider accept a call whose answer is lost?
  AllowRaise,   \* may a database call of a pass raise?
  AdminForces   \* may an admin force a retry or a dead letter?

VARIABLES
  item,         \* the document in payout_items_v2
  reached,      \* statuses in its status_history
  logged,       \* statuses with an event in payout_v2_events
  task,         \* the running coroutines
  transferred,  \* does the provider have a transfer for the item's key?
  emitted,      \* events the provider has sent out, to be delivered any
                \* number of times in any order
  seen,         \* event ids with a key in payout_v2_idempotency
  reaping       \* has the reaper read the item as stale?

providerVars == <<transferred, emitted>>
vars == <<item, reached, logged, task, providerVars, seen, reaping>>

-----------------------------------------------------------------------------
(* Data.                                                                   *)

Statuses == {"queued", "initiated", "in_flight", "confirmed", "settled",
             "reconciled", "failed", "returned", "disputed", "cancelled"}

Transitions ==
  [queued     |-> {"initiated", "cancelled", "failed"},
   initiated  |-> {"in_flight", "failed", "cancelled"},
   in_flight  |-> {"confirmed", "failed", "returned"},
   confirmed  |-> {"settled", "returned", "disputed"},
   settled    |-> {"reconciled", "returned", "disputed"},
   reconciled |-> {"disputed"},
   failed     |-> {},
   returned   |-> {},
   disputed   |-> {"reconciled"},
   cancelled  |-> {}]

\* What the mock advancer does next with an item.
MockChain == [initiated |-> "in_flight", in_flight |-> "confirmed", confirmed |-> "settled"]

\* A lease is none when lease_until is null, expired when it lies in the past.
Leases == {"none", "live", "expired"}
ItemDoc == [status : Statuses, claimedBy : Workers \cup {None}, lease : Leases,
            waiting : BOOLEAN, attempts : Nat, deadLettered : BOOLEAN]

\* The awaits of a task.  insert is the idempotency row of a webhook, force
\* the write of a forced retry, mark the first write of _dead_letter; read,
\* write and emit are those of transition_item; drop is _release_item_lease.
\* target is the status a transition leads to, at insert the event delivered.
Steps == {"idle", "claimed", "calling", "retry", "mark", "read", "write",
          "emit", "release", "drop", "insert", "force", "gone"}
Tasks == Passes \cup Handlers
Idle == [step |-> "idle", attempt |-> 0, target |-> None]

ASSUME PayoutConstants ==
  /\ None \notin Workers \cup Statuses
  /\ Host \in [Passes -> Workers]
  /\ Passes \cap Handlers = {}
  /\ IsFiniteSet(Passes) /\ IsFiniteSet(Handlers)
  /\ Rail \in {"mock", "stripe_connect"}
  /\ Announces \in [Events -> Statuses \ {"queued", "reconciled"}]
  /\ AdminTargets \subseteq Statuses
  /\ MaxAttempts \in Nat \ {0}
  /\ MaxCrashes \in Nat
  /\ {MayStall, LostAnswers, AllowRaise, AdminForces} \subseteq BOOLEAN

Init ==
  /\ item = [status |-> "queued", claimedBy |-> None, lease |-> "none",
             waiting |-> FALSE, attempts |-> 0, deadLettered |-> FALSE]
  /\ reached = {"queued"}
  /\ logged = {"queued"}
  /\ task = [x \in Tasks |-> Idle]
  /\ transferred = FALSE
  /\ emitted = {}
  /\ seen = {}
  /\ reaping = FALSE

Goto(x, from, to) ==
  /\ task[x].step = from
  /\ task' = [task EXCEPT ![x] = IF to = "idle" THEN Idle ELSE [@ EXCEPT !.step = to]]

Unclaimed == [item EXCEPT !.claimedBy = None, !.lease = "none"]

-----------------------------------------------------------------------------
(* Claim, heartbeat, provider call.                                        *)

\* Mutant: a lease that ran out is not told from a live one.
NeverExpired == FALSE

LeaseExpired == item.claimedBy # None /\ item.lease = "expired"

\* Mutant: the filter forgets who holds the item.
ClaimHeld(d) ==
  /\ task[d].step = "idle"
  /\ item.status = "queued"
  /\ ~item.waiting
  /\ item' = [item EXCEPT !.claimedBy = Host[d], !.lease = "live"]
  /\ task' = [task EXCEPT ![d] = [step |-> "claimed", attempt |-> item.attempts + 1,
                                  target |-> None]]
  /\ UNCHANGED <<reached, logged, providerVars, seen, reaping>>

\* One find_one_and_update; attempt is kept from the document it returns.
ClaimOneItem(d) ==
  /\ task[d].step = "idle"
  /\ item.status = "queued"
  /\ ~item.waiting
  /\ item.claimedBy = None \/ LeaseExpired
  /\ item' = [item EXCEPT !.claimedBy = Host[d], !.lease = "live"]
  /\ task' = [task EXCEPT ![d] = [step |-> "claimed", attempt |-> item.attempts + 1,
                                  target |-> None]]
  /\ UNCHANGED <<reached, logged, providerVars, seen, reaping>>

\* The update misses an item claimed by another worker; the pass goes on.
HeartbeatItem(d) ==
  /\ Goto(d, "claimed", "calling")
  /\ item' = IF item.claimedBy = Host[d] THEN [item EXCEPT !.lease = "live"] ELSE item
  /\ UNCHANGED <<reached, logged, providerVars, seen, reaping>>

\* The transition_item call that x makes next.
MoveTo(x, target) == task' = [task EXCEPT ![x].step = "read", ![x].target = target]

\* A failure is retried until the attempts run out; a terminal one never is.
OnFailure(d, terminal) ==
  task' = [task EXCEPT ![d].step =
             IF task[d].attempt >= MaxAttempts \/ terminal THEN "mark" ELSE "retry"]

\* Mutant: a refused call is taken for an accepted one.
AnyAnswerAccepts(d) ==
  /\ task[d].step = "calling"
  /\ transferred' \in {transferred, TRUE}
  /\ MoveTo(d, "initiated")
  /\ UNCHANGED <<item, reached, logged, emitted, seen, reaping>>

\* The provider accepts the call, loses its answer, or refuses it.  It knows
\* the idempotency key: an accepted one is not refused for good later.
CallProvider(d) ==
  /\ task[d].step = "calling"
  /\ \/ transferred' = TRUE /\ MoveTo(d, "initiated")
     \/ LostAnswers /\ transferred' = TRUE /\ OnFailure(d, FALSE)
     \/ UNCHANGED transferred /\ OnFailure(d, FALSE)
     \/ ~transferred /\ UNCHANGED transferred /\ OnFailure(d, TRUE)
  /\ UNCHANGED <<item, reached, logged, emitted, seen, reaping>>

\* Neither write looks at who holds the item now.
ScheduleRetry(d) ==
  /\ Goto(d, "retry", "idle")
  /\ item' = [Unclaimed EXCEPT !.waiting = TRUE, !.attempts = @ + 1]
  /\ UNCHANGED <<reached, logged, providerVars, seen, reaping>>

\* Mutant: the item is not failed after it was marked.
MarkOnly(x) ==
  /\ Goto(x, "mark", "idle")
  /\ item' = [Unclaimed EXCEPT !.deadLettered = TRUE, !.waiting = FALSE,
                               !.attempts = task[x].attempt]
  /\ UNCHANGED <<reached, logged, providerVars, seen, reaping>>

\* _dead_letter lets the item go before it is failed.
MarkDeadLetter(x) ==
  /\ task[x].step = "mark"
  /\ item' = [Unclaimed EXCEPT !.deadLettered = TRUE, !.waiting = FALSE,
                               !.attempts = task[x].attempt]
  /\ MoveTo(x, "failed")
  /\ UNCHANGED <<reached, logged, providerVars, seen, reaping>>

\* After an accepted call the lease goes, if this worker still holds it.
ReleaseLease(d) ==
  /\ Goto(d, "release", "idle")
  /\ item' = IF item.claimedBy = Host[d]
             THEN [Unclaimed EXCEPT !.attempts = task[d].attempt]
             ELSE item
  /\ UNCHANGED <<reached, logged, providerVars, seen, reaping>>

\* A database call raised: the pass gives the item back and goes on.  Passes
\* raise only while the count of attempts is in bounds.
Raise(d) ==
  /\ AllowRaise
  /\ item.attempts <= MaxAttempts
  /\ task[d].step \notin {"idle", "drop", "gone"}
  /\ task' = [task EXCEPT ![d].step = "drop"]
  /\ UNCHANGED <<item, reached, logged, providerVars, seen, reaping>>

ReleaseItemLease(d) ==
  /\ Goto(d, "drop", "idle")
  /\ item' = IF item.claimedBy = Host[d] THEN Unclaimed ELSE item
  /\ UNCHANGED <<reached, logged, providerVars, seen, reaping>>

-----------------------------------------------------------------------------
(* transition_item: read and validate, write, append the event.            *)

AfterTransition(x) ==
  IF x \in Passes /\ task[x].target = "initiated" THEN "release" ELSE "idle"

\* The same status is a no-op, an illegal one raises and the caller goes on.
TransitionRead(x) ==
  /\ Goto(x, "read", IF task[x].target \in Transitions[item.status]
                     THEN "write" ELSE AfterTransition(x))
  /\ UNCHANGED <<item, reached, logged, providerVars, seen, reaping>>

TransitionWrite(x) ==
  /\ Goto(x, "write", "emit")
  /\ item' = [item EXCEPT !.status = task[x].target]
  /\ reached' = reached \cup {task[x].target}
  /\ UNCHANGED <<logged, providerVars, seen, reaping>>

\* Mutant: failures are not logged.
EmitSuccess(x) ==
  /\ Goto(x, "emit", AfterTransition(x))
  /\ logged' = IF task[x].target = "failed" THEN logged ELSE logged \cup {task[x].target}
  /\ UNCHANGED <<item, reached, providerVars, seen, reaping>>

Emits(x) == task[x].step = "emit"

EmitEvent(x) ==
  /\ Goto(x, "emit", AfterTransition(x))
  /\ logged' = logged \cup {task[x].target}
  /\ UNCHANGED <<item, reached, providerVars, seen, reaping>>

-----------------------------------------------------------------------------
(* Requests and the advancer.                                              *)

Start(h, step, attempt, target) ==
  /\ task[h].step = "idle"
  /\ task' = [task EXCEPT ![h] = [step |-> step, attempt |-> attempt, target |-> target]]
  /\ UNCHANGED <<item, reached, logged, providerVars, seen, reaping>>

\* Mutant: the last link of the chain is missing.
AdvanceToConfirmed(h) ==
  /\ Rail = "mock"
  /\ item.status \in {"initiated", "in_flight"}
  /\ Start(h, "read", 0, MockChain[item.status])

\* _advance_mock_items_once picks the item by its status and moves it on.
AdvanceMockItem(h) ==
  /\ Rail = "mock"
  /\ item.status \in DOMAIN MockChain
  /\ Start(h, "read", 0, MockChain[item.status])

\* stripe_webhook: an event whose key is already there is a duplicate.
StripeWebhook(h) ==
  \E e \in emitted \ seen : Start(h, "insert", 0, e)

\* Mutant: the event is acted upon and its key is not stored.
ActWithoutKey(h) ==
  /\ task[h].step = "insert"
  /\ MoveTo(h, Announces[task[h].target])
  /\ UNCHANGED <<item, reached, logged, providerVars, seen, reaping>>

\* The key is inserted before the event is acted upon; its index is unique,
\* so a second insert raises.
PersistKey(h) ==
  \/ /\ task[h].step = "insert"
     /\ task[h].target \notin seen
     /\ seen' = seen \cup {task[h].target}
     /\ MoveTo(h, Announces[task[h].target])
     /\ UNCHANGED <<item, reached, logged, providerVars, reaping>>
  \/ /\ task[h].target \in seen
     /\ Goto(h, "insert", "idle")
     /\ UNCHANGED <<item, reached, logged, providerVars, seen, reaping>>

AdminTransition(h) == \E to \in AdminTargets : Start(h, "read", 0, to)

\* Both check for a queued item and write later.
AdminForceRetry(h) ==
  AdminForces /\ item.status = "queued" /\ Start(h, "force", 0, None)

AdminForceDeadLetter(h) ==
  /\ AdminForces
  /\ item.status = "queued"
  /\ item.attempts <= MaxAttempts
  /\ Start(h, "mark", item.attempts + 1, None)

ForceRetryWrite(h) ==
  /\ Goto(h, "force", "idle")
  /\ item' = [Unclaimed EXCEPT !.waiting = FALSE]
  /\ UNCHANGED <<reached, logged, providerVars, seen, reaping>>

-----------------------------------------------------------------------------
(* The reaper, the clock, the provider, and crashes.                       *)

\* The reaper lists stale items, then clears the claims of all it listed.
ReapRead ==
  /\ ~reaping
  /\ LeaseExpired
  /\ reaping' = TRUE
  /\ UNCHANGED <<item, reached, logged, task, providerVars, seen>>

ReapWrite ==
  /\ reaping
  /\ reaping' = FALSE
  /\ item' = Unclaimed
  /\ UNCHANGED <<reached, logged, task, providerVars, seen>>

BackoffElapses ==
  /\ item.waiting
  /\ item' = [item EXCEPT !.waiting = FALSE]
  /\ UNCHANGED <<reached, logged, task, providerVars, seen, reaping>>

\* A pass from its claim to the write that lets the item go.
Holds(d) ==
  \/ task[d].step \in {"claimed", "calling", "retry", "mark", "release", "drop"}
  \/ task[d].step \in {"read", "write", "emit"} /\ task[d].target = "initiated"

LeaseExpires ==
  /\ item.lease = "live"
  /\ MayStall \/ \A d \in Passes : Host[d] = item.claimedBy => ~Holds(d)
  /\ item' = [item EXCEPT !.lease = "expired"]
  /\ UNCHANGED <<reached, logged, task, providerVars, seen, reaping>>

\* What Stripe says about a transfer: that it was created, then that it moves
\* or was reversed, and one outcome of the payout to the bank.
Outcomes == {"settled", "failed", "cancelled"}
Said(events) == {Announces[e] : e \in events}

ProviderEmits ==
  \E e \in Events \ emitted :
    /\ transferred
    /\ Announces[e] # "initiated" => "initiated" \in Said(emitted)
    /\ Announces[e] \in Outcomes => Said(emitted) \cap Outcomes = {}
    /\ emitted' = emitted \cup {e}
    /\ UNCHANGED <<item, reached, logged, task, transferred, seen, reaping>>

\* The process of a task dies: the task never continues.  One that died before
\* its event owes it for ever.
Crash(x) ==
  /\ task[x].step \notin {"idle", "gone"}
  /\ Cardinality({y \in Tasks : task[y].step = "gone"}) < MaxCrashes
  /\ task' = [task EXCEPT ![x] =
                [Idle EXCEPT !.step = "gone",
                             !.target = IF Emits(x) THEN task[x].target ELSE None]]
  /\ UNCHANGED <<item, reached, logged, providerVars, seen, reaping>>

-----------------------------------------------------------------------------
TransitionStep(x) == TransitionRead(x) \/ TransitionWrite(x) \/ EmitEvent(x)

PassStep(d) ==
  \/ ClaimOneItem(d) \/ HeartbeatItem(d) \/ CallProvider(d)
  \/ ScheduleRetry(d) \/ MarkDeadLetter(d) \/ ReleaseLease(d) \/ ReleaseItemLease(d)
  \/ TransitionStep(d)

Request(h) ==
  \/ StripeWebhook(h) \/ AdminTransition(h) \/ AdminForceRetry(h) \/ AdminForceDeadLetter(h)

HandlerStep(h) ==
  PersistKey(h) \/ ForceRetryWrite(h) \/ MarkDeadLetter(h) \/ TransitionStep(h)

Next ==
  \/ \E d \in Passes : PassStep(d) \/ Raise(d)
  \/ \E h \in Handlers : AdvanceMockItem(h) \/ Request(h) \/ HandlerStep(h)
  \/ \E x \in Tasks : Crash(x)
  \/ ReapRead \/ ReapWrite \/ BackoffElapses \/ LeaseExpires \/ ProviderEmits

Spec == Init /\ [][Next]_vars

\* The loops of worker, reaper and advancer run for ever, the event loop
\* resumes a running task, the provider delivers its webhooks until one is
\* answered, and the clock goes on.  Admins are under no obligation, and
\* neither is the provider to send anything.
FairSpec ==
  /\ Spec
  /\ \A d \in Passes : WF_vars(PassStep(d))
  /\ \A h \in Handlers :
       WF_vars(HandlerStep(h)) /\ WF_vars(AdvanceMockItem(h)) /\ WF_vars(StripeWebhook(h))
  /\ WF_vars(ReapRead) /\ WF_vars(ReapWrite)
  /\ WF_vars(BackoffElapses) /\ WF_vars(LeaseExpires)

-----------------------------------------------------------------------------
(* Properties.                                                             *)

\* Every variable holds what the collections and coroutines of the code hold.
TypeOK ==
  /\ item \in ItemDoc
  /\ reached \subseteq Statuses
  /\ logged \subseteq Statuses
  /\ task \in [Tasks -> [step : Steps, attempt : Nat, target : Statuses \cup Events \cup {None}]]
  /\ transferred \in BOOLEAN
  /\ emitted \subseteq Events
  /\ seen \subseteq Events
  /\ reaping \in BOOLEAN

\* A task is running until it ends or dies.
Running(x) == task[x].step \notin {"idle", "gone"}
Quiet == \A x \in Tasks : ~Running(x)

\* Whatever is late, lost, raised or dead, the item is under way only once the
\* provider has its transfer: no failed call is taken for an accepted one.
UnderWay == {"initiated", "in_flight", "confirmed", "settled", "returned", "disputed",
             "reconciled"}
UnderWayIsTransferred == item.status \in UnderWay => transferred

\* "Persist idempotency BEFORE acting": on a live rail every status that is not
\* the worker's own, or one an admin may ask for, was announced by an event whose
\* key is stored, so that the next delivery of that event finds it, whatever
\* overlaps, stalls or dies.
MovesAreAnnounced ==
  Rail # "mock" =>
    reached \subseteq {"queued", "initiated", "failed"} \cup AdminTargets \cup Said(seen)

\* The claim is a mutex for the call of the provider: while leases outlive
\* their passes, "no two workers can claim the same item even under high
\* concurrency".
OneCaller == Cardinality({d \in Passes : task[d].step = "calling"}) <= 1

\* The claim goes before the status that keeps other passes out: each of them
\* may read the item in between, and makes at most one attempt beyond the last.
AttemptsAreBounded == item.attempts <= MaxAttempts + Cardinality(Passes) - 1

\* "Every state mutation appends to payout_v2_events": a status without its event
\* is one whose writer is about to log it, or died right before it did.
StatusesAreLogged ==
  /\ logged \subseteq reached
  /\ \A s \in reached \ logged :
       \E x \in Tasks : task[x].step \in {"emit", "gone"} /\ task[x].target = s

\* "Dead-letter: after max_attempts the item moves to terminal failed": once
\* nothing runs, a dead-lettered item is failed, and no attempt beyond the
\* last one was made.
DeadLetteredIsFailed ==
  Quiet => /\ item.deadLettered => item.status = "failed"
           /\ item.attempts <= MaxAttempts

\* The allowed item transitions: the status of an item only ever moves along
\* the table, whoever moves it.
ForwardOnly == [][item'.status \in {item.status} \cup Transitions[item.status]]_item

\* A worker whose item was reclaimed should bail: the provider is called by
\* the worker that holds the item.
CallersHoldTheItem ==
  \A d \in Passes : task[d].step = "calling" => item.claimedBy = Host[d]

\* Items flow through the state machine without an admin: a queued item is
\* handed to the provider or given up, even if the worker that holds it dies.
QueuedIsProcessed == item.status = "queued" ~> item.status # "queued"

\* On the mock rail an item does not stay half way: from every status of the
\* chain it comes to be settled, or failed by a worker that gave it up late.
ItemsArrive ==
  item.status \in DOMAIN MockChain ~> item.status \in {"settled", "failed"}

\* On a live rail the webhook drives the rest: a payout that the provider
\* reports as paid ends up settled.
PaidIsSettled == "settled" \in Said(emitted) ~> item.status = "settled"
=============================================================================
