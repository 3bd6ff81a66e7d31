------------------------- MODULE MCSecondaryMarket -------------------------
(* Small instances of SecondaryMarket for TLC.                             *)
EXTENDS SecondaryMarketRefinement, SecondaryMarketClaims, TLC

CONSTANTS seller, ann, bob, t1, t2, t3

\* One seller who owns four units; two buyers with money for some of them.
MCInvestors == {seller, ann, bob}
MCPrimary == (seller :> 4) @@ (ann :> 0) @@ (bob :> 0)
MCCash == (seller :> 0) @@ (ann :> 6) @@ (bob :> 4)

\* One buyer who has the money for either of two trades.
PairInvestors == {seller, ann}
PairPrimary == (seller :> 4) @@ (ann :> 0)
PairCash == (seller :> 0) @@ (ann :> 10)

\* Trades differ only in their ids: safety runs may identify them.
TradeSymmetry == Permutations(Trades)
=============================================================================
