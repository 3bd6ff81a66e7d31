---------------------------- MODULE MCPayoutItem ----------------------------
(* Small instances of PayoutItem for TLC.                                  *)
EXTENDS PayoutItem, TLC

CONSTANTS d1, d2, d3, h1, h2, w1, w2, created, updated, reversed, paid, refused

\* Two processes, one pass each.
TwoHosts == d1 :> w1 @@ d2 :> w2

\* Two processes; the first one also serves a drain-once request.
SharedHost == d1 :> w1 @@ d2 :> w1 @@ d3 :> w2

\* No webhooks, and what Stripe announces: transfer.created and
\* transfer.updated; transfer.created and transfer.reversed, and payout.paid or
\* payout.failed.
NoNews == [e \in {} |-> "initiated"]
MovingNews == created :> "initiated" @@ updated :> "in_flight"
OutcomeNews ==
  created :> "initiated" @@ reversed :> "returned" @@ paid :> "settled" @@ refused :> "failed"
=============================================================================
