------------------------------ MODULE MCOtcDesk ------------------------------
(* Small instances of OtcDesk for TLC.                                     *)
EXTENDS OtcDesk, TLC

CONSTANTS
  sam, ann,
  MaxDocs    \* how many listings, offers, deals and recoveries are created
             \* together in one behaviour

Created(f) == Cardinality({x \in DOMAIN f : f[x].status # "none"})

FewDocs == Created(listing) + Created(offer) + Created(deal) + Created(recovery) <= MaxDocs

\* What is asked of overlapping calls says nothing of freezes, and of a second
\* deal only whether it may come to be: once calls or cases are out of order,
\* recoveries are not followed, nor what happens after a second deal.
OneDealOutOfOrder == orderly \/ (Created(recovery) = 0 /\ Created(deal) <= 1)

Symmetry == Permutations(Calls) \cup Permutations(Listings) \cup Permutations(Deals)
=============================================================================
