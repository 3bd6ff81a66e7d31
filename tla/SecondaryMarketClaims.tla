------------------------ MODULE SecondaryMarketClaims ------------------------
(***************************************************************************)
(* What comments, tests and the consistency checks say of the secondary    *)
(* market and interleavings of its handlers refute.                        *)
(***************************************************************************)
EXTENDS SecondaryMarket

\* No handler that settles a trade or changes a listing is under way.
Quiet ==
  /\ alive = {}
  /\ cancelling = {}
  /\ \A l \in Listings : creating[l].step = "idle"

\* "finish off micro-leftovers" (lumen_secondary.py:663): accepting an offer
\* rounds leftovers of the listing, it never sells a buyer more than offered for.
OfferIsNotInflated ==
  \A t \in Trades : trades[t].bid # None => trades[t].units <= bids[trades[t].bid].units

\* "The status transition is made monotonic + guarded" (lumen_secondary.py:326):
\* a listing its seller has cancelled stays cancelled.
CancelledStaysCancelled ==
  [][\A l \in Listings : listings[l].status = "cancelled"
       => listings'[l].status = "cancelled"]_listings

\* "cannot list the locked part again" (test_sprint13_secondary_e2e.py:296):
\* what is open for sale never exceeds what the seller owns.
ListedIsOwned ==
  \A i \in Investors : ListedUnits(i) <= shares[i] + Tol

\* Check I13: once nothing is in flight, the ownership row of an investor is
\* primary + inbound - outbound.
RowsAgreeWithTransfers == Quiet => ownerships = shares

\* Check I3: once nothing is in flight, the materialised wallets equal the
\* truth calculated from the ledger.
WalletsAgreeWithLedger == Quiet => \A i \in Investors : wallets[i] = cash[i]

\* Check I6: a settled wallet balance never goes below zero.
WalletsNotNegative == \A i \in Investors : wallets[i] >= -Tol

\* Contract E1.5: an over-demand trade ends failed; no trade whose handler
\* has returned is left pending.
LosersEndFailed ==
  \A t \in Trades : t \notin alive => trades[t].status # "pending"
=============================================================================
