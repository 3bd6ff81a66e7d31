--------------------------- MODULE MCPrimaryMarket ---------------------------
(* Small instances of PrimaryMarket for TLC.                               *)
EXTENDS PrimaryMarket, TLC

CONSTANTS ann, i1, i2

MCInvestor == i1 :> ann @@ i2 :> ann
MCAmount == i1 :> 2 @@ i2 :> 3

MaxOverlaps == 2
MaxDeaths == 1

\* What is asked of overlapping calls is asked of each investment for itself:
\* once calls overlap, only behaviours with one investment are followed.
Bounded ==
  /\ overlaps <= MaxOverlaps
  /\ deaths <= MaxDeaths
  /\ overlaps > 0 =>
       /\ Cardinality({i \in Intents : intent[i] # "submitted"}) <= 1
       /\ Cardinality({x \in Investments : investment[x].status # "none"}) <= 1

Symmetry == Permutations(Calls) \cup Permutations(Investments) \cup Permutations(Requests)
=============================================================================
