----------------------------- MODULE MCDividends -----------------------------
(* Small instances of Dividends for TLC.                                   *)
EXTENDS Dividends, TLC

CONSTANTS ann, bob

\* Equal owners of an odd amount, whose halves may be rounded up or down, and
\* an owner whose share is rounded to nothing.
MCHoldings == {ann :> 1 @@ bob :> 1, ann :> 1000 @@ bob :> 1}

Begun == {b \in Batches : \/ \E i \in Investors : record[b][i].status # "none"
                         \/ \E c \in Calls : call[c].on = b}

\* What is asked of overlapping calls is asked of each batch for itself: once
\* calls are out of order, only behaviours with one batch are followed.
OneBatchOutOfOrder == orderly \/ Cardinality(Begun) <= 1

Symmetry == Permutations(Calls) \cup Permutations(Batches)
=============================================================================
