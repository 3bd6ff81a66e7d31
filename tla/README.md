# Lumen: a verification project for its money paths

Lumen is an investment platform for tokenised real assets: a Python backend
(FastAPI over MongoDB, `src/backend`), web and mobile clients, and the older
development marketplace it grew out of, whose payout engine is still in use.
The backend takes no locks and opens no transactions. Every handler is a
coroutine that reads, decides and writes in separate database calls; other
handlers run at every `await`, in the same process or in another one, and a
process may die between any two of them. What keeps money and units right is a
handful of conditional updates and the order of the writes. That is what these
specifications are about.

## 1. Inventory

| Part | State | Operations | Hard behaviour | What makes it correct |
|---|---|---|---|---|
| Secondary market, `lumen_secondary.py` | listings, bids, trades, share transfers, ownership rows | `create_listing`, `cancel_listing`, `create_bid_or_buy`, `accept_bid`, `cancel_bid`, `reject_bid`, `_settle_trade` | settlements race on one listing; a settlement is eighteen awaits and may die at any of them; projections are read, then written | no oversell; units are paid before they move; losers leave no trace; a filled listing stays filled; projections agree with their source |
| Unit registry, certificates and links, `lumen_unit_registry.py`, `lumen_certificates.py`, `lumen_ownership_lifecycle.py` | whole units per owner, certificates, `certificate_id` on the ownership rows | `recompute_asset`, `reconcile_asset`, `bind_all`, `admin_void`, `admin_reissue`, the hooks of a settlement and of a restart | three parts rebuilt one after the other from what was read before, each caught and skipped when it fails | an undisturbed rebuilding puts right whatever was left behind |
| Ledger and wallet, `lumen_payments.py` (`_ledger_append`), `lumen_wallet.py` | ledger entries, withdrawal requests, the wallet projection | `create_withdrawal`, `cancel_withdrawal`, `admin_set_status`, `recompute_wallet` | status checks and writes are separate; the debit precedes the status; purchases spend reserved money | no debit without approval, none the history does not tell of; requests never claim more than there was |
| Payout items, `payouts_v2.py`, `payouts_v2_worker.py`, `payouts_v2_api.py` | items with lease and retry fields, append-only events, webhook keys | worker passes, reaper, mock advancer, Stripe webhook, admin endpoints | leases, lost answers, retries, dead letters, duplicate and reordered webhooks, crashes | one caller at a time; attempts end; nothing under way unpaid; webhooks leave their key first; every item ends; every status logged |
| Earnings and the two payout engines, `qa_layer.py`, `earnings_layer.py`, `payout_layer.py`, `payouts_v2.py` | earnings, batches of the first engine, proposed and released batches of the second, idempotency keys | `handle_qa_decision_workflow`, `create_payout_batch`, `approve_payout_batch`, `mark_batch_paid`, `propose_batch`, `release_batch`, `cancel_batch` | two engines pick from one collection; loops over earnings read before; releases repeated after a crash | one batch per key; a release is whole; nothing is paid without approval or past the gate; an earning is paid once |
| Payout reconciler, `payouts_v2_reconciler.py` | mismatches | periodic pass | queries a field (`state`) items do not have | mismatches are seen |
| Dividends, `lumen_payouts.py`, `lumen_tax.py` | plans, batches, records | `generate_batch`, `approve_batch`, `credit_batch`, `cancel_batch`, `run_due_plans` | scheduler against admin; a credit run interrupted and repeated; rounding | one batch per period, one credit per record, books that balance to the hundredth |
| Primary market, `lumen_investment_core.py`, `lumen_kyc.py`, `lumen_contracts.py`, `lumen_payments.py`, `lumen_bank_reconciliation.py` | intents, profiles, investments, contracts, payment requests, bank transactions, ownership, the sum raised | approval of intents and investors, signing and cancelling, requests, proofs, confirmation, matching | four documents advance each other by hooks that check what was read before; a restart recomputes only some of them | no investment is active unsigned, unverified or unpaid; books agree |
| OTC desk, `lumen_otc.py`, part of `lumen_crypto_os.py` | listings, offers, deals, the certificate's holder and freeze, wallet recoveries | list, buy, offer, accept, prove, confirm, transfer, cancel, dispute, resolve | unguarded status writes except the claim of the listing; two cases share one frozen flag | one deal per listing, the certificate moves against payment, freezes match cases |
| Order book, `lumen_liquidity.py` | orders, market maker quotes | place, cancel, match | matches settle through `_settle_trade` | fills never exceed orders |
| Pools and funds, the rest of crypto rails, treasury and identity, compliance, reports, legacy marketplace, clients | see `PROJECT.json` | | | |

How they interact: all money goes through `lumen_ledger_entries` (appended by
`_ledger_append`) and every component rebuilds `lumen_wallets` from it with
`recompute_wallet`; the secondary market, payments, dividends and withdrawals
meet only there. Ownership is primary investments plus share transfers; the
rows of `lumen_ownerships`, whole units, certificates and their links are
projections of it, rebuilt by hooks. The order book calls `_settle_trade`. The
two payout engines meet in `task_earnings`; the payout worker, the webhook and
the admin endpoints in `transition_item`. The desk and the recoveries meet on
the certificate.

## 2. Modules

| Module | Models | Extends / uses |
|---|---|---|
| `SecondaryMarket` | `lumen_secondary.py` with the ledger and the wallet projection it writes | |
| `TradePromise` | the abstract market: an atomic decision, then paid, delivered, closed | |
| `SecondaryMarketRefinement` | the mapping from the first to the second | both |
| `SecondaryMarketClaims` | what the repository says of the market and the code does not do | `SecondaryMarket` |
| `OwnershipRecords` | the documents that say who owns what, and what rebuilding them owes | |
| `OwnershipRegistry` | what the hooks of a settlement derive from ownership | `OwnershipRecords` |
| `Withdrawals` | `lumen_wallet.py` for one investor | |
| `PayoutItem` | one item of payouts v2 under worker, reaper, advancer, webhook and admin | |
| `Earnings` | QA decisions and the batches of the first payout engine | |
| `PayoutBatches` | proposals, releases and cancellations of the second, over the same earnings | `Earnings` |
| `Dividends` | plans, batches, records and credits of one asset | |
| `OtcDesk` | one certificate through listings, offers, deals, disputes and recoveries | |
| `PrimaryMarket` | one asset from intents to active investments | |
| `SecondaryMarketProofs`, `WithdrawalsProofs`, `PayoutItemProofs`, `PayoutBatchesProofs`, `DividendsProofs`, `OtcDeskProofs`, `PrimaryMarketProofs` | theorems | the module they are named after (the first one the refinement and, as an instance, `OwnershipRegistry` too) |
| `SumTheorems` | sums over finite sets, ranks in an order | the proofs of market, registry, withdrawals, dividends and primary market |
| `MC…` | the small instances | |

All of them are built alike. A handler is a coroutine that is at one of its
awaits; one action is what it does from one await to the next. Handlers that do
not overlap are not assumed: where a property needs that, a history variable
(`tidy`, `orderly`, `overlaps`, `alone`) remembers whether it was so, no guard
reads it, and the property says what holds in the one case and what in the
other. A handler that dies is one that takes no further step.

### SecondaryMarket

One action per awaited database call. `pc[t]` is the next call of the handler
that settles trade `t`, `alive` says its coroutine still runs; `Abort` takes a
handler out of `alive` at any await and leaves everything it wrote.
`listings`, `bids`, `trades` are the collections; `ledger[t]` the reasons of the
entries of a trade and `cash` their sum per account; `shares` what
`compute_ownership_uah` would return; `ownerships` and `wallets` the two
materialised projections; `read[t]` what the handler keeps in local variables
across an await, which is where the stale projections come from. The handlers
that check and write later have two or three actions and a variable of their
own (`creating`, `cancelling`, `withdrawing`, `accepting`): `accept_bid` decides
on a bid that it read before the listing. Creating a trade or a bid is one
action: its checks are all made again by the settlement, and nobody can see the
document before it is inserted.

`ReserveUnits` is the one conditional increment that everything rests on. The
two listing updates at the end are two actions, each with the condition that is
in its filter.

### Withdrawals

A call id is one HTTP request; it creates, cancels or moves a request, or reads
the wallet, from await to await, and ends with the two reads and one write of
`recompute_wallet`. `debits` counts the ledger debits appended for a request,
`tagged` those that carry its id (a second update in the code). `history` counts
what the `history` array has been pushed. A call that dies between debit and
status stays behind as `lost`, which no guard reads. `Overlap` is not a property
of the code, which never makes a call wait: with FALSE the runs show what holds
of each call taken by itself, with TRUE what survives overlapping. `Buy` is a
purchase in `lumen_secondary.py`, which spends the same balance.

### PayoutItem

Items share nothing, so one is modelled, with every coroutine that may touch
it: passes of `_drain_once` (several per process, hence `Host`), and handlers
for requests, webhooks and advancer cycles. `task[x].step` is the next await.
Time is abstract: `LeaseExpires` moves a live lease into the past,
`BackoffElapses` ends a wait. With `MayStall` FALSE a lease only runs out once
no pass of its process is at work on the item, which is what
`CLAIM_LEASE_SECONDS` is chosen for. `transferred` is the fact at the provider,
keyed by the item's idempotency key; an answer may be lost (`LostAnswers`).
`Events` are the ids of the events Stripe may send, several of which may
announce the same status (`Announces`). `emitted` are those that it has sent:
never withdrawn, so they are delivered any number of times in any order; `seen`
are the ids with a key in `payout_v2_idempotency`. Passes
raise (`AllowRaise`) and die (`Crash`); a dead coroutine never continues, and one
that died before it logged a status keeps it as `target`.
`transition_item` is three steps (read and validate, write, append the event),
shared by all its callers.

### OwnershipRecords and OwnershipRegistry

The first module has the documents and the two properties, which speak of
nothing else, the second the handlers that write them. `cap` is the cap table,
investments and transfers summed up, and `invested` the first of the two alone:
`_cap_table_uah` queries one and then the other, and a trade or an investment
may come in between (`CapRead`, `MovedRead`). `Shares` is `largest_remainder` on
it, ties going to the first investor of the cap table, with Python's rounding of
halves. A handler runs through the parts `registry`, `certificates`, `binding`
or through one of them; `Break` is a failure that the hook catches, so that the
next part begins, or the death of the process. `alone` and `healed` remember
which parts were last rebuilt from beginning to end with no other handler in
between and with nothing they build on changed since: that is when the
rebuilding owes a right result.

### Earnings and PayoutBatches

`Earnings` has the handlers that write `task_earnings`, `PayoutBatches` adds
those that only read them. `batch` of an earning is its `payout_batch_id`, which
the first engine sets together with `frozen`. The loops that freeze or pay
earnings one by one are one action per earning (`todo` is what is left).
`approved` of a batch is its `approved_at`, which outlives the status that says
so. `ClaimKey` is the unique index on idempotency keys; a proposal whose handler dies
leaves its key pending for ever. `announced` counts the queued events, `items`
the payout items of each developer in a batch: both are counters, because a
release that is repeated makes them again. QA is modelled as
`qa_layer.handle_qa_decision_workflow`, which the server calls; the functions of
`earnings_layer.py` with the same purpose (`handle_qa_result`) are never called.

### Dividends

A plan counts periods. `Splits` is `distribute_amount`: each share is rounded to
the nearest hundredth, which way at a tie is up to the floats and hence open,
and what is left goes to a largest owner. Taxes are rounded each for itself. A
record is credited in three awaits: append an entry, tag it, mark the record.
The tax is remitted last, and a failure of that is logged and swallowed:
`lapsed` are the batches it happened to. `Generate` by an administrator may name
a period, which counts as disorder. Plans that pay once are left out.

### OtcDesk

`nft` is the certificate, `transfers` the rows of `lumen_nft_transfers`, `reopened`
counts how often a listing became active again. `Claim` is the conditional update
that makes a purchase exclusive; every other status is written from what was
read. `Freeze` and `Unfreeze` of disputes and `RecoveryFreeze` and
`RecoveryUnfreeze` of recoveries write the same flag.

### PrimaryMarket

`intent`, `kyc`, `investment`, `contract`, `request` and `tx` are the documents,
`credits` the ledger entries of a request, `ownership` and `raised` the two
projections. The approval of an investor and the signature of a contract both run
the step that opens a request; confirming one by hand and matching a bank
transaction both run the confirmation. `Restart` ends every handler and runs the
repairs at startup: contracts that are missing, an ownership registry that is
empty, and the sum raised; a contract that is there and not linked stays so.

## 3. Runs

| Run | Instance | Shows |
|---|---|---|
| `market_crash` | 1 listing, 2 trades, 3 investors, aborts everywhere, no tolerance | reservations, entries and transfers stay in step whatever dies; implements `TradePromise` |
| `market_offers` | 1 listing, 1 offer, 2 trades, demand above supply, cancellations, tolerance 1, fair handlers | no oversell; the status of a quiet listing is right; filled is not reopened; a sold-out listing closes |
| `registry` | 3 investors who own 3, 2 and nothing, trades and investments of 3, price 2, 3 units, 2 overlapping handlers, 3 beginnings, 4 certificates | undisturbed rebuilding puts units, certificates and links right, whatever was left behind |
| `withdrawal_overlap` | 1 request, 4 overlapping calls, crashes | no debit without approval, no paid request without debit, no debit that the history does not tell of |
| `withdrawal_calls` | 2 requests, 5 calls one after the other, purchases, tolerance 1 | payments match debits, the wallet is fresh, requests never claim more than the account held and the tolerance does not add up |
| `payout_faults` | 2 passes in 2 processes, 1 handler, every fault | nothing is under way before the provider has its transfer, no webhook moves an item before its key is stored |
| `payout_two` | 3 passes of 2 processes, 2 of them under one worker id, 2 handlers, 4 Stripe events, 2 attempts, lost answers | one caller at a time, attempts bounded by the number of passes |
| `payout_live` | 2 passes, 2 handlers, 1 crash, mock rail, fair | queued items are processed, mock items arrive, only a dead writer leaves a status unlogged |
| `payout_batches` | 4 earnings of 2 developers, one behind the gate, 1 batch of the first engine, 2 of the second under 1 key, 2 overlapping calls | keys, releases, approvals and the gate survive overlaps and deaths; without overlap an earning is paid once per batch and batches agree with their earnings |
| `otc` | 2 users, 2 listings, 1 offer, 2 deals, 1 recovery, 3 of them in one behaviour, 2 overlapping calls | no double sale and no move before payment whatever overlaps; in order, listings and freezes tell the truth |
| `dividends` | 2 owners (equal, or 1000 to 1), an odd amount, one exempt, 2 batches, 3 overlapping calls | nobody is forgotten whatever overlaps; in order, books balance to the hundredth and periods come once |
| `primary` | 2 intents of one investor, 2 requests, 1 bank transaction, 2 handlers, 2 overlaps, 1 restart | what is active was signed, verified and paid; between calls the books agree |

Every property has a mutant in `PROJECT.json`: a change of the model that a
plausible bug would make, under which the run fails.

Some formulas hold on the same or smaller instances and have no run of their own
because others say more of the same code: `SettledIsComplete` of `SecondaryMarket`
(a settled trade has its entries and its transfer) and `DeadLetteredIsFailed` of
`PayoutItem` with one pass are theorems; `CreditedIsPaid` of `Dividends` (a record is
called credited once its tagged entry is there) follows from the books.

Why these sizes. Handlers disturb each other on a document, and two of them give
every pair of awaits that can interleave on one; a third actor is there where a
property is about two that compete for what a third one reads (crediting while
another call approves and a third cancels). In the market two trades of one and
of several units make a listing fill exactly, partly, within the tolerance, and
make the demand exceed the supply. (That no number of trades oversells is
proved.) In the registry a trade of 3 empties one owner, oversells another and
creates a third, and price 2 makes halves that are rounded; four certificates
are those of three owners and a replacement. A withdrawal needs create, approve,
pay and one call that disturbs them, hence four and five calls; amounts 2 and 3
against a balance of 4 make one fit and two not. For an item, two processes are
what a lease is about, and in `payout_two` a third pass shares a worker id with one
of the others, which the filter on `claimed_by` cannot tell apart; two attempts
give a retry and a last attempt.
`payout_faults` has one attempt per claim: crashes and expired leases still
produce several calls. Two earnings of one developer make a payee with two
lines. The odd hundredth of 101 against equal owners leaves a remainder, and a
share of one in a thousand is rounded to nothing. Amounts stay small integers
because the code only adds, divides and compares them.

Bounds. `MaxCrashes`, `MaxAttempts`, `MaxBegun`, `MaxCerts` and the finite sets of
ids are guards; the attempt counter stops where `Raise` and the admin's dead
letter would let it grow without end. The MC modules add constraints, each of
which only leaves out behaviours that no checked property speaks of or that
repeat what smaller ones show: `FewDocs` (three documents of the desk in one
behaviour), `OneDealOutOfOrder`, `OneBatchOutOfOrder` (once calls overlap, what is
asked is asked of each deal and of each batch for itself), `Bounded` (the same for
investments, with the number of overlaps and restarts), `OverlapInOnePart`
(handlers overlap that rebuild the same part, which is where they write the same
documents). They restrict TLC only; the theorems do not know them.

Deadlock is not checked (`CHECK_DEADLOCK FALSE`): every instance ends when its
ids are used up, and the code has no state in which it waits for another actor.

Fairness. A coroutine whose database call answers is resumed by the event loop,
so the steps of a running handler are weakly fair; the loops of worker, reaper
and advancer run for ever; the clock goes on; Stripe delivers a webhook until it
is answered. Users and administrators are under no obligation, a crash is never
obliged to happen, and the provider need not accept or announce anything. Only
`market_offers` and `payout_live` assume it.

### What the repository says and the code does not do

Each line is a formula to name in a `.cfg`, with the circumstances under which
TLC finds it violated within seconds, or a disagreement that was met while
modelling and is what the properties above make room for.

| Formula | Where | The code |
|---|---|---|
| `CancelledStaysCancelled` | `SecondaryMarketClaims` | a settlement in flight turns a cancelled listing into a filled one |
| `OfferIsNotInflated` | `SecondaryMarketClaims` | accepting a small offer sells all that is left of the listing |
| `ListedIsOwned` | `SecondaryMarketClaims` | two concurrent listings lock the same units |
| `RowsAgreeWithTransfers`, `WalletsAgreeWithLedger` | `SecondaryMarketClaims` | a projection computed earlier is written last and stays stale |
| `WalletsNotNegative` | `SecondaryMarketClaims` | two purchases pass the balance check together |
| `LosersEndFailed` | `SecondaryMarketClaims` | a trade whose listing closed stays pending |
| `DebitedAtMostOnce` with `Overlap` | `Withdrawals` | two overlapping payments of one request debit twice |
| `TerminalIsFinal` with `Overlap` | `Withdrawals` | a late call moves a withdrawal out of a terminal status |
| `SettledNotNegative` with `Overlap`, `ReservedIsCovered` with purchases | `Withdrawals` | reserved money is reserved or spent again |
| `DebitsMatchPaid` with `AllowCrash` | `Withdrawals` | a payment that dies after its debit can be paid again |
| `OneCaller` with `MayStall`, `MaxCrashes` or `AllowRaise` | `PayoutItem` | the reaper clears a claim made after it looked, or a pass that raised drops the claim of another one with its worker id |
| `AttemptsAreBounded` with `MayStall` | `PayoutItem` | stalled passes come back and count again |
| `ForwardOnly` | `PayoutItem` | a late write of `transition_item` moves an item back |
| `CallersHoldTheItem` with `MayStall` | `PayoutItem` | a worker whose claim was taken over calls the provider all the same |
| `DeadLetteredIsFailed` with two passes | `PayoutItem` | an item is released before it is failed |
| `StatusesAreLogged` with `AllowRaise` | `PayoutItem` | a status is written and its event is not (nor after a death in between, which the property allows for; nobody repairs either) |
| `PaidIsSettled` | `PayoutItem` | a payout Stripe reports as paid never leaves `in_flight` |
| `PlannedOnce` with `Keys = {k1, k2}`, even with one call at a time | `PayoutBatches` | "Read approved earnings (not already in v2 batch)" (`payouts_v2.py:186`), but nothing marks the earnings a proposal takes, so the next one plans and pays them again |
| `SingleActive` | `OwnershipRegistry` | the check `single_active_per_owner` of `lumen_certificates.py`: reissuing a replaced certificate, or dying between issue and replacement, leaves two active ones, and `reconcile_asset` looks at one |

Without a formula of their own: "Idempotent per period" (`lumen_payouts.py:581`)
does not hold of a scheduler and an administrator that overlap, nor of one who
names a period; a dispute that overlaps a recovery leaves the certificate of a
disputed deal free, although `lumen_otc.py:738` says it is frozen while the
dispute is open; two concurrent openings make two requests for one investment,
two approvals of an intent two investments; a move to `contract_pending`, a view
or a cancellation overwrites a newer status; a crash between the confirmed status
of a request and its ledger entry leaves a confirmed request without a credit,
which no call repairs; a contract signed before its investment names it strands
the investment; the bank match accepts a request that awaits payment and the
confirmation behind it refuses it; `mark_batch_paid` followed by a late
approval takes a paid batch of the first engine back to approved; a record of
amount zero stays approved for ever; `create_task_earning` looks units up by
`work_unit_id` where they carry `unit_id` (`earnings_layer.py:124`); check I10 of
`lumen_consistency.py` looks for a withdrawal's debit under `ref_id` or
`meta.withdrawal_id`, while `admin_set_status` writes `withdrawal_request_id`, so
it reports every paid withdrawal; `payouts_v2_reconciler.py` queries `state` where
items have `status`.

## 4. Proofs

All theorems hold for any number of investors, listings, trades, calls, passes
and processes, and any amounts. What they assume of the constants is of two
kinds. The named `ASSUME` of each module say what the constants are (ids are
distinct, amounts are natural numbers, the sets summed over are finite:
`FiniteMarket`, `FiniteRequests`, `FiniteCalls`); TLC evaluates them in every
run. The premises of a single theorem say in which circumstances the code keeps
its promise; the end of section 3 lists what goes wrong in the others.

| Theorem | Premise |
|---|---|
| `StatusIsRightWhenQuiet` | no settlement dies, and there are no offers or no tolerance |
| `RequestsStayFunded` | calls do not overlap (`~Overlap`) |
| `DebitsFollowPayments`, `WalletTellsTheTruth` | calls do not overlap and do not die |
| `NothingMovesUnpaid` | no administrator puts the item under way by hand |
| `ClaimIsMutex` | leases outlive passes, nothing dies, raises or is forced (`Orderly`) |
| `EveryStatusIsLogged` | no database call raises between the two writes |
| `DeadLettersFail` | one pass at work, nothing dies, raises or is forced, no answer is lost, no administrator takes a queued item off the queue |
| `BatchesPayTheirGross` | no share is rounded below zero (`SharesArePayable`) |
| `RegistryTypeCorrect`, `QuotasHeal`, `LinksHeal` | `R!ConstantsFit` |

The last one is no circumstance: it is the named `ASSUME` of `OwnershipRegistry`
(`RegistryConstants`), which TLC evaluates in its run. `SecondaryMarketProofs` has
the registry as the instance `R` over the documents of `OwnershipRecords`, beside
the market whose settled trades it follows, and an assumption is not handed on by
an instance.

Where a property itself distinguishes calls that come one after the other
(`tidy`, `orderly`, `overlaps = 0`), the theorem has no premise about it: it holds
of every behaviour.

**Sums.** The wallets, the ledger, the cap table and the dividends are
`MapThenSumSet` of the community modules, whose definition is a recursion.
`SumTheorems` proves what the others need: that the recursion has a solution and
only one (`SumIs`, `SumStep`), and from it how a sum changes with one summand,
with one element more, over disjoint sets, and that it respects order. The
induction is not one over an operator: the set of subsets for which a claim fails
is a set, a non-empty set of subsets of a finite set has a smallest member, and
the claim is shown for that one from its proper subsets. In the same way it is
shown that of a finite set in a strict order exactly `k` members have fewer than
`k` before them (`Leading`), what a multiple of a sum is (`SumScale`) and that a
sum of equal summands counts (`SumCounts`).

**Secondary market.** `TypeCorrect` first. The invariant behind the others,
`Wired`, ties a trade to its listing and its parties once it exists, and
`WrittenSoFar` says for each await which ledger entries and which transfer a
handler has written when it gets there. `UnitsArePaidFor`, `LosersAreClean` and
`SettledTradesAreComplete` follow from it; none of them is inductive alone,
because each speaks of a state that only the handler's position explains.
`NeverOversold` needs only the guard of `ReserveUnits` and that `filled` has no
other writer. `FilledStaysFilled` is an action property.
`MarketImplementsPromise` shows the refinement: under the same invariant every
step of a handler is one step of `TradePromise` on the phase of its trade, or
none; an abort changes no phase.

`ReservationsAddUp`: the one conditional increment is the step with which a
handler joins the trades that count, so both sides of `Accounted` grow together,
and an abort moves neither. `MarketMoneyIsConserved`: `Transit` is what a trade
has taken from its buyer and not yet handed on, by the entries it has written;
`BooksClose` says that accounts and transit together are what was there, and
`Priced` that a debit is of a positive amount and a fee that of the amount, so
that transit is never negative and is nothing where no trade is half settled.
`StatusIsRightWhenQuiet`: the two status updates come in any order and may both
fail to match, so `StatusFollows` says that whatever a listing's status does not
say yet, a handler that is still running will write (`Coming`), and `SalesFit`
that sales are of something. With offers *and* a tolerance the premise is
missing: a listing filled beyond its units has a negative rest, which
`accept_bid` takes for the units of another trade (`lumen_secondary.py:656`);
reserving them takes units back under a status already written.

**Ownership registry.** `QuotasAreMet` is about largest remainders alone. The
floors are whole quotas, so what they leave is the sum of the remainders divided
by what was raised: less than there are holders, and no more than there are
positive remainders. The order of the remainders, ties going to the first, is
strict, so exactly as many holders as units left have fewer before them, each of
them has a remainder, and everyone gets his quota or the next whole number above
it. `RoundsToNearest` says what rounding halves to even does to the number of
units. The invariant `RegistryInv` has to hold where rebuildings overlap and die
as well as where one of them is alone, so it speaks of them apart. `Informed` is
what a handler knows whoever else acts: rows to write are of holders and add up
to no more than there is, a certificate it has read was issued, to that holder.
`Achieved` is what the handler that has been alone since its part began has done
so far: rows left behind are right, owners left behind are served, whoever else
has a certificate is still on the list. At the end of a part the list is empty,
and `Achieved` is what `InForce` says of the part; it stays in force because
every action that writes what a part rests on takes that part out of `healed`.
Neither property is inductive: they say nothing of the way there. A handler
between the two queries of a cap table has achieved that the investments it has
read are still all of them. `LinksHeal` and `QuotasHeal` are read off it, the
second with the sum of the rows: that over the owners, and nothing elsewhere.

**Withdrawals.** `TypeCorrect`. `DebitsAreApproved`: a handler that may debit
has read the request approved or processing, and the history remembers every
status a request ever had; so debits imply an approval even when calls overlap.
`PaidIsDebited`: the paid entry of the history is written only by a handler
behind its own tagged debit. `DebitsAreTold` is an equation that every step
keeps: a debit puts its call on the way, the status takes it off the way and
adds an entry to the history, and a death leaves it there for good; finiteness
of the calls is what the count needs. For calls that do not overlap, `SerialInv`
says what the one handler under way is `Aware` of, that a paid request is
`Backed` by a debit, and `Spent`, that what is left and what was debited were
there at the start; the balance check of a new request then bounds what all of
them claim (`RequestsStayFunded`), though purchases and calls that die after a
debit keep changing the balance. If calls do not die either, `CompleteInv` adds
that a debit is written exactly for the request being paid or paid, and that the
wallet is behind only while a handler still has to write it.

**Payout item.** `TypeCorrect`. `NothingMovesUnpaid`: while the provider has no
transfer, no event of it exists and no task has a target beyond `queued`,
`failed` or `cancelled`. `ClaimIsMutex`: the
invariant `Mutex` says that while the item is queued whoever works on it holds
its claim and is alone, that a claim is live and has a pass behind it, that the
reaper therefore finds nothing, and that no step returns to `queued`. Its
premises are named `Orderly`; `OneCaller` fails without them.
`WebhooksStoreFirst`: a task on its way to a status that is neither the worker's
nor an administrator's is a delivery whose event has its key stored, and a key is
never removed. `EveryStatusIsLogged`: every status written that has no event yet
belongs to a task at the append, or to one that died there. For `DeadLettersFail`
the premises are named `Alone`;
`Told` says for each await what the one pass may rely on (the item is queued,
unpaid, and on the attempt it counts, until the provider answers), `Heard` that a
failure reported by a handler was announced by the provider: leases
still run out and the reaper still takes the claim away, but with no second pass
nobody can use it.

**Payout batches.** Two arguments. For behaviours in which calls overlap,
`Knows` says what a handler at each await knows of its batch, `OwnsKey` that a
key is pending only for the one handler that claimed it, and `Owing` counts: the
events of a developer exceed the items by at least those that handlers under way
still owe. `ProposalIsIdempotent` and `ReleaseIsComplete` follow. `PayInv` is
behind both `PaymentsAreApproved` and `GateHolds`: a handler that pays has a
batch that was approved and lists what it has left, an approval and a list are
never taken back, and whatever an earning behind the gate is written to be, it
is not approved, so that no handler and no batch has it among its lines. For
calls that come one after the other, `TidyInv` says that at most one handler is
under way and `Exact` what the documents are like at each of its awaits: what is
done and what its loop has left make up a whole batch. `TidyReleasesPayOnce` and
`TidyBatchesAgree` are read off where no call is under way.

**OTC desk.** `TypeCorrect`, and `GuarantorKeepsOrder`: what a handler at each await
`Knows` of its deal (a proof, a confirmation, a transfer) no other takes back.
`NeverDoubleSold` counts: `RoomFor` says that the deals of a listing, and the
handlers that have claimed it and still have to insert theirs, are no more than
one and its reopenings; the claim takes the room only of an active listing.
`ListingsAgreeWithDeals` and `FrozenWhileACaseIsOpen` rest on an invariant of the
same shape as that of the payout batches: `Exact` describes listings, the open
listing, the cases and what was read, at every await of the one handler under
way. Nothing of it survives an overlap: the two cases share one flag.

**Dividends.** `TypeCorrect`: shares and taxes are integers however they are
rounded. `CreditedIsSettled`: `credited` is written only when no record is
waiting; what makes that stable is that a batch can only be credited once all
its records are there, because the handler that makes them is `Alone` with it
until it inserts the batch, and that an owner who is served stays so. `Knows`
says of a crediting handler that everybody it has left behind is served.
`PeriodsComeOnce`: the handler under way makes the period after the last one
(`OnTime`), and the batches there are those of the periods so far, with one more
between its insertion and the advance of the plan. `BatchesPayTheirGross`: a
batch that nobody works on `Rests` in one of four ways (absent, made, cancelled,
credited); the handler that makes it has split the gross amount into shares that
sum up to it, and turned those it has left behind into a net amount and a tax
(`Makes`); the handler that credits it has exactly one entry for each owner it
has left behind (`Credits`); the tax of a credited batch is remitted, about to
be, or lapsed. Without its premise the books need not close: five equal owners
of three hundredths are rounded to one hundredth each, the two too many are
charged to one of them, and its record of less than nothing is never credited.

**Primary market.** `TypeCorrect`. `InvestmentsAreEarned`: an active investment
was signed, its investor verified, and a request for it submitted and credited.
Each of the documents forgets (a contract may be cancelled over a signature), so
the invariant speaks of what stays (`signed_at`, the set of investors once
approved, `submitted_at`, the credits) and `Informed` ties each await of a
handler to what it has read. `PlatformBooksAgree`, of calls that come one after
the other, has an invariant for the one handler under way (`UnderWay`): `Raised`
relates the sum raised to the active investments, and `Kept`, in six parts, the
documents to each other: intents and investments (`Placed`), contracts, requests
and credits, what each investor owns, matches, and that the hook of whoever is
verified and has signed is still to come (`Served`). Each part says by how much
it lags at each await. A restart in the middle of a handler repairs only the sum
raised, so `Kept` is claimed only of behaviours in which no handler has died,
`Raised` of all of them.

What stays with TLC. The liveness properties (`SoldOutListingCloses`,
`QueuedIsProcessed`, `ItemsArrive`), because the prover has no rule for fairness.
Every other property of a run is a theorem, and so is the type invariant of
every module that states one (`TypeOK`).

## 5. Plan

1. `OrderBook`: orders and matches of `lumen_liquidity.py` over the settlements of
   `SecondaryMarket`, with fills against orders as its promise.
2. A composition of `PayoutBatches` and `PayoutItem`, so that the items of a
   release are items with their own life, with "an earning is paid once" as the
   abstract specification; then the reconciler over both.
3. `MoneyPaths`: market, withdrawals and dividends over one ledger and one wallet
   document, for the purchase against the reservation and for the projection.
4. Pools and capital calls (`lumen_pool_os.py`, `lumen_lpgp_os.py`).
5. Theorems of the modules above, first the refinement of "an earning is paid
   once" by the composition, as that of `TradePromise` is proved.

## 6. Not modelled

Read-only endpoints, exports, metrics and notifications; events, numbers and
files of certificates; currency conversion and formatting; authentication and
limits, which refuse a call before it touches this state; plans that pay once;
rounds, funding centre and institutional pipelines beside the investment core;
pools, funds, minting and on-chain evidence; treasury accounts and statement
import; the legacy marketplace except its earnings, batches and payout items;
clients. Most of the 153 000 lines are of that kind: routes, seeds, texts,
reports and views around the handlers above. `PROJECT.json` lists every part with
its status and reason.

## 7. Running

`tlc -config <run>.cfg <module>` for a run, `tlapm <module>.tla` for the proofs;
`PROJECT.json` lists the runs, the mutants that show each property can fail, and
the source lines of every definition.
